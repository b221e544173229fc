---------------------------- MODULE TCPConnection ----------------------------
(***************************************************************************)
(* One stream connection: TCPConnection of core/network/tcp.cpp and tcp.h, *)
(* with the producer interface of Connection in core/network/base.cpp.     *)
(*                                                                         *)
(* Everything runs on the io_context's thread.  A step is either one whole *)
(* completion handler (cbRead, cbWrite, a posted lambda), or one call of   *)
(* the application, made from a timer of its own (frame = "idle") or from  *)
(* inside a callback (frame = "made", "data", pausing > 0), or one step of *)
(* asio and the network: a pending operation completes.  A callback that   *)
(* the code goes on after is split there, and may end with an exception.   *)
(* Between the completion of an operation and its handler other handlers   *)
(* run, which is where the interesting behaviours are.  Handlers that are  *)
(* ready run in any order: asio promises none between operations.          *)
(*                                                                         *)
(* The stream is abstracted to offsets.  Byte k is the k-th byte the       *)
(* application wrote; a MessageBuffer of _writeQueue is the offset of its  *)
(* last byte, and `consumed` is what readCompleted has taken off the queue *)
(* so the front buffer holds the bytes consumed+1 .. Head(writeQueue).     *)
(***************************************************************************)
EXTENDS Integers, Sequences

CONSTANTS
    BufferSizes,      \* sizes an application write may have
    WriteBufferSize,  \* _writeBufferSize: more than this pauses the producer
    MaxBytes,         \* bound: bytes the application writes altogether
    MaxReads          \* bound: packets the peer sends

ASSUME SizeAssumption ==
    /\ BufferSizes \subseteq Nat \ {0}
    /\ WriteBufferSize \in Nat
    /\ MaxBytes \in Nat
    /\ MaxReads \in Nat

VARIABLES
    connected, disconnected, disconnecting, aborting,   \* the flags
    error,            \* _error
    reading, writing, \* an async read / write is outstanding
    accepted,         \* bytes write() has queued so far
    consumed,         \* bytes readCompleted has taken off the queue
    writeQueue,       \* _writeQueue: offset of the last byte of each buffer
    sent,             \* bytes the kernel has taken
    producer,         \* _producer and _streamingProducer
    producerPaused, pendingProducing,
    owed,             \* the producer waits for a resumeProducing call
    sockOpen,         \* the socket is open
    readOp, writeOp,  \* the outstanding operation, or how it completed
    writeOpBytes,     \* bytes the completed write transferred
    closePosted,      \* posted closeSocket lambdas not yet run
    frame,            \* the application callback being executed
    pausing,          \* calls of pauseProducing being executed, innermost last
    lost,             \* connectionLost callbacks made
    lapses,           \* ghost: what did not come about, and why
    crashed,          \* doWrite took the front of an empty queue
    packets           \* packets the peer has sent

flagVars == <<connected, disconnected, disconnecting, aborting, error>>
byteVars == <<accepted, consumed, writeQueue, sent>>
prodVars == <<producer, producerPaused, pendingProducing, owed>>
sockVars == <<sockOpen, readOp, writeOp, writeOpBytes, closePosted>>
callVars == <<frame, pausing, lapses, crashed>>
vars == <<flagVars, reading, writing, byteVars, prodVars, sockVars,
          callVars, lost, packets>>

(* "read" and "write": an exception of the application skipped doRead or   *)
(* startWriting; "close": loseConnection found bytes nobody was writing.   *)
Lapses == {"read", "write", "close"}

(* "Done" and "Eof" are both ConnectionDone in the code: they are told     *)
(* apart here by who ended the connection.                                 *)
Errors == {"none", "Done", "Eof", "Abort", "Sys"}
ReadOps == {"none", "pending", "ok", "eof", "err", "aborted"}
WriteOps == {"none", "pending", "ok", "err", "aborted"}

Init ==
    /\ connected = FALSE /\ disconnected = FALSE
    /\ disconnecting = FALSE /\ aborting = FALSE
    /\ error = "none"
    /\ reading = FALSE /\ writing = FALSE
    /\ accepted = 0 /\ consumed = 0 /\ writeQueue = <<>> /\ sent = 0
    /\ producer = "none" /\ producerPaused = FALSE
    /\ pendingProducing = FALSE /\ owed = FALSE
    /\ sockOpen = TRUE
    /\ readOp = "none" /\ writeOp = "none" /\ writeOpBytes = 0
    /\ closePosted = 0
    /\ frame = "idle" /\ pausing = 0 /\ lapses = {} /\ crashed = FALSE
    /\ lost = 0 /\ packets = 0

Closed == disconnecting \/ disconnected \/ ~connected

(* The control is in the callback f, or in the reactor's loop if f is      *)
(* "idle", and in no pauseProducing called from there.                     *)
In(f) == frame = f /\ pausing = 0 /\ ~crashed

-----------------------------------------------------------------------------
(* Closing the socket.                                                     *)

(* Mutant: a cancelled operation looks like the end of the stream.         *)
CancelledAsEof(op) == IF op = "pending" THEN "eof" ELSE op

(* socket.close() cancels an operation that is pending; one whose          *)
(* completion is already queued keeps its result.                          *)
Cancelled(op) == IF op = "pending" THEN "aborted" ELSE op

(* Mutant: the socket is closed although a write is outstanding.           *)
DoCloseWhileWriting(w) ==
    /\ sockOpen' = FALSE
    /\ readOp' = Cancelled(readOp)
    /\ closePosted' = IF ~w /\ ~reading THEN closePosted + 1 ELSE closePosted

(* doClose, called when `writing` has the value w.                         *)
DoClose(w) ==
    \/ /\ ~w /\ ~reading
       /\ closePosted' = closePosted + 1
       /\ UNCHANGED <<sockOpen, readOp>>
    \/ /\ ~w /\ reading
       /\ sockOpen' = FALSE
       /\ readOp' = Cancelled(readOp)
       /\ UNCHANGED closePosted
    \/ /\ w
       /\ UNCHANGED <<sockOpen, readOp, closePosted>>

(* Mutant: abortConnection waits for the outstanding write.                *)
DoAbortAfterWrite ==
    /\ DoClose(writing)
    /\ UNCHANGED writeOp

DoAbort ==
    \/ /\ ~writing /\ ~reading
       /\ closePosted' = closePosted + 1
       /\ UNCHANGED <<sockOpen, readOp, writeOp>>
    \/ /\ writing \/ reading
       /\ sockOpen' = FALSE
       /\ readOp' = Cancelled(readOp)
       /\ writeOp' = Cancelled(writeOp)
       /\ UNCHANGED closePosted

(* closeSocket with _error = e; r and w are the operations still there.    *)
(* Connection::connectionLost stops and drops the producer, then calls the *)
(* protocol; whatever the protocol calls from there returns at once.       *)
CloseSocket(e, r, w) ==
    /\ connected' = FALSE
    /\ disconnected' = TRUE
    /\ disconnecting' = FALSE
    /\ aborting' = FALSE
    /\ error' = e
    /\ sockOpen' = FALSE
    /\ readOp' = Cancelled(r)
    /\ writeOp' = Cancelled(w)
    /\ producer' = "none"
    /\ owed' = FALSE
    /\ lost' = lost + 1

-----------------------------------------------------------------------------
(* Writing.                                                                *)

BufferStart(q, from, j) == IF j = 1 THEN from ELSE q[j - 1]

(* The outcomes of the write_some loop of doWrite on the queue q, whose    *)
(* front buffer starts after byte `from`, with resume = the producer is to *)
(* be resumed once the queue is empty.  j is the buffer the loop stops in. *)
(* Mutant: the lambda that resumes the producer is not posted.             *)
WriteDrainedSilently(q, from, resume) ==
    /\ sockOpen
    /\ writeQueue' = <<>>
    /\ consumed' = q[Len(q)]
    /\ sent' = sent + (q[Len(q)] - from)
    /\ writing' = FALSE /\ writeOp' = "none"
    /\ UNCHANGED <<pendingProducing, error, disconnecting, sockOpen, readOp,
                   closePosted>>

WriteDrained(q, from, resume) ==
    /\ sockOpen
    /\ writeQueue' = <<>>
    /\ consumed' = q[Len(q)]
    /\ sent' = sent + (q[Len(q)] - from)
    /\ writing' = FALSE /\ writeOp' = "none"
    /\ pendingProducing' = (pendingProducing \/ resume)
    /\ UNCHANGED <<error, disconnecting, sockOpen, readOp, closePosted>>

(* Mutant: readCompleted is not called after a short write.                *)
WriteBlockedUncounted(q, from) ==
    /\ sockOpen
    /\ \E j \in 1..Len(q) : \E p \in BufferStart(q, from, j)..(q[j] - 1) :
          /\ writeQueue' = SubSeq(q, j, Len(q))
          /\ consumed' = BufferStart(q, from, j)
          /\ sent' = sent + (p - from)
    /\ writing' = TRUE /\ writeOp' = "pending"
    /\ UNCHANGED <<error, disconnecting, sockOpen, readOp, closePosted,
                   pendingProducing>>

WriteBlocked(q, from) ==
    /\ sockOpen
    /\ \E j \in 1..Len(q) : \E p \in BufferStart(q, from, j)..(q[j] - 1) :
          /\ writeQueue' = SubSeq(q, j, Len(q))
          /\ consumed' = p
          /\ sent' = sent + (p - from)
    /\ writing' = TRUE /\ writeOp' = "pending"
    /\ UNCHANGED <<error, disconnecting, sockOpen, readOp, closePosted,
                   pendingProducing>>

WriteFailed(q, from) ==
    /\ \E j \in 1..Len(q) :
          /\ sockOpen \/ j = 1
          /\ writeQueue' = SubSeq(q, j, Len(q))
          /\ consumed' = BufferStart(q, from, j)
          /\ sent' = sent + (BufferStart(q, from, j) - from)
    /\ error' = "Sys"
    /\ disconnecting' = TRUE
    /\ writing' = FALSE /\ writeOp' = "none"
    /\ DoClose(FALSE)
    /\ UNCHANGED pendingProducing

DoWrite(q, from, resume) ==
    \/ WriteDrained(q, from, resume)
    \/ WriteBlocked(q, from)
    \/ WriteFailed(q, from)

(* startWriting with q queued; doWrite follows front() without a look at   *)
(* the queue, which a write nested in pauseProducing may have emptied.     *)
StartWriting(q) ==
    \/ /\ writing
       /\ writeQueue' = q
       /\ UNCHANGED <<writing, consumed, sent, pendingProducing, error,
                      disconnecting, sockOpen, readOp, writeOp, closePosted,
                      crashed>>
    \/ /\ ~writing /\ q # <<>>
       /\ DoWrite(q, consumed, producer = "pull"
                                  \/ (producer = "streaming" /\ producerPaused))
       /\ UNCHANGED crashed
    \/ /\ ~writing /\ q = <<>>
       /\ crashed' = TRUE
       /\ UNCHANGED <<writing, byteVars, pendingProducing, error,
                      disconnecting, sockOpen, readOp, writeOp, closePosted>>

(* TCPConnection::write of n bytes.  A streaming producer is paused when   *)
(* the queue holds more than WriteBufferSize bytes, and may call anything  *)
(* from there; only then is the writing started.                           *)
Write(n) ==
    LET q == Append(writeQueue, accepted + n)
        pauses == producer = "streaming" /\ accepted + n - consumed > WriteBufferSize
    IN
    /\ ~Closed
    /\ accepted + n =< MaxBytes
    /\ accepted' = accepted + n
    /\ \/ /\ pauses
          /\ writeQueue' = q
          /\ producerPaused' = TRUE /\ owed' = TRUE
          /\ pausing' = pausing + 1
          /\ UNCHANGED <<writing, consumed, sent, pendingProducing, error,
                         disconnecting, sockOpen, readOp, writeOp, closePosted,
                         lapses, crashed>>
       \/ /\ ~pauses
          /\ owed' = (owed \/ producer = "pull")
          /\ StartWriting(q)
          /\ lapses' = lapses \ {"write"}
          /\ UNCHANGED <<producerPaused, pausing>>
    /\ UNCHANGED <<connected, disconnected, aborting, reading, producer,
                   writeOpBytes, frame, lost, packets>>

PauseProducingReturns ==
    /\ ~crashed
    /\ pausing > 0
    /\ StartWriting(writeQueue)
    /\ accepted' = accepted
    /\ pausing' = pausing - 1
    /\ lapses' = lapses \ {"write"}
    /\ UNCHANGED <<connected, disconnected, aborting, reading, producer,
                   producerPaused, owed, writeOpBytes, frame, lost, packets>>

PauseProducingThrows ==
    /\ ~crashed
    /\ pausing > 0
    /\ pausing' = pausing - 1
    /\ lapses' = lapses \cup {"write"}
    /\ UNCHANGED <<flagVars, reading, writing, byteVars, prodVars, sockVars,
                   frame, crashed, lost, packets>>

-----------------------------------------------------------------------------
(* The other calls of the application.                                     *)

LoseConnection ==
    /\ ~Closed
    /\ error' = "Done"
    /\ disconnecting' = TRUE
    /\ DoClose(writing)
    /\ lapses' = IF ~writing /\ writeQueue # <<>> THEN lapses \cup {"close"}
                 ELSE lapses
    /\ UNCHANGED <<connected, disconnected, aborting, reading, writing,
                   byteVars, prodVars, writeOp, writeOpBytes, frame, pausing,
                   crashed, lost, packets>>

(* Mutant: abortConnection records no reason.                              *)
AbortWithoutReason ==
    /\ ~Closed
    /\ disconnecting' = TRUE
    /\ aborting' = TRUE
    /\ DoAbort
    /\ UNCHANGED <<error, connected, disconnected, reading, writing, byteVars,
                   prodVars, writeOpBytes, callVars, lost, packets>>

AbortConnection ==
    /\ ~Closed
    /\ error' = "Abort"
    /\ disconnecting' = TRUE
    /\ aborting' = TRUE
    /\ DoAbort
    /\ UNCHANGED <<connected, disconnected, reading, writing, byteVars,
                   prodVars, writeOpBytes, callVars, lost, packets>>

(* registerProducer: a pull producer is asked for data at once (what it    *)
(* then writes are Write steps).  On a disconnected connection the         *)
(* producer is stopped and nothing is recorded.                            *)
RegisterProducer(kind) ==
    /\ connected
    /\ producer = "none"
    /\ producer' = kind
    /\ owed' = FALSE
    /\ UNCHANGED <<flagVars, reading, writing, byteVars, producerPaused,
                   pendingProducing, sockVars, callVars, lost, packets>>

UnregisterProducer ==
    /\ producer # "none"
    /\ producer' = "none"
    /\ owed' = FALSE
    /\ UNCHANGED <<flagVars, reading, writing, byteVars, producerPaused,
                   pendingProducing, sockVars, callVars, lost, packets>>

-----------------------------------------------------------------------------
(* The handlers.                                                           *)

(* cbAccept / cbConnect: the connection is up, connectionMade runs.        *)
CbConnect ==
    /\ ~connected /\ ~disconnected
    /\ connected' = TRUE
    /\ frame' = "made"
    /\ UNCHANGED <<disconnected, disconnecting, aborting, error, reading,
                   writing, byteVars, prodVars, sockVars, pausing, lapses,
                   crashed, lost, packets>>

(* doRead: on a closed socket the operation completes with an error.       *)
DoRead ==
    /\ reading' = TRUE
    /\ readOp' = IF sockOpen THEN "pending" ELSE "err"

(* The tail of cbAccept / cbConnect after makeConnection returned.         *)
ConnectionMadeReturns ==
    /\ In("made")
    /\ frame' = "idle"
    /\ \/ ~disconnecting /\ ~reading /\ DoRead
       \/ (disconnecting \/ reading) /\ UNCHANGED <<reading, readOp>>
    /\ UNCHANGED <<flagVars, writing, byteVars, prodVars, sockOpen, writeOp,
                   writeOpBytes, closePosted, pausing, lapses, crashed, lost,
                   packets>>

(* cbRead with data, up to the call of protocol->dataReceived.             *)
CbReadData ==
    /\ In("idle")
    /\ readOp = "ok"
    /\ ~disconnecting
    /\ reading' = FALSE /\ readOp' = "none"
    /\ frame' = "data"
    /\ UNCHANGED <<flagVars, writing, byteVars, prodVars, sockOpen, writeOp,
                   writeOpBytes, closePosted, pausing, lapses, crashed, lost,
                   packets>>

(* Mutant: reading is not started again while a write is outstanding.      *)
DataReceivedReturnsDeaf ==
    /\ In("data")
    /\ frame' = "idle"
    /\ \/ ~disconnecting /\ ~disconnected /\ ~writing /\ DoRead
       \/ (disconnecting \/ disconnected \/ writing) /\ UNCHANGED <<reading, readOp>>
    /\ UNCHANGED <<flagVars, writing, byteVars, prodVars, sockOpen, writeOp,
                   writeOpBytes, closePosted, pausing, lapses, crashed, lost,
                   packets>>

(* The tail of cbRead after dataReceived returned.                         *)
DataReceivedReturns ==
    /\ In("data")
    /\ frame' = "idle"
    /\ \/ ~disconnecting /\ ~disconnected /\ DoRead
       \/ (disconnecting \/ disconnected) /\ UNCHANGED <<reading, readOp>>
    /\ UNCHANGED <<flagVars, writing, byteVars, prodVars, sockOpen, writeOp,
                   writeOpBytes, closePosted, pausing, lapses, crashed, lost,
                   packets>>

(* An exception out of makeConnection or dataReceived ends up in the       *)
(* reactor, which logs it; the tail of the handler is skipped.             *)
CallbackThrows ==
    /\ In("made") \/ In("data")
    /\ frame' = "idle"
    /\ lapses' = lapses \cup {"read"}
    /\ UNCHANGED <<flagVars, reading, writing, byteVars, prodVars, sockVars,
                   pausing, crashed, lost, packets>>

(* cbRead with data while the connection closes: handleRead returns and    *)
(* reading is not started again.                                           *)
CbReadIgnored ==
    /\ In("idle")
    /\ readOp = "ok"
    /\ disconnecting
    /\ reading' = FALSE /\ readOp' = "none"
    /\ UNCHANGED <<flagVars, writing, byteVars, prodVars, sockOpen, writeOp,
                   writeOpBytes, closePosted, callVars, lost, packets>>

(* Mutant: handleRead does not check _disconnected.                        *)
CbReadFailedUnchecked ==
    /\ In("idle")
    /\ readOp \in {"eof", "err", "aborted"}
    /\ reading' = FALSE
    /\ CloseSocket(error, "none", writeOp)
    /\ UNCHANGED <<producerPaused, pendingProducing>>
    /\ UNCHANGED <<writing, byteVars, writeOpBytes, closePosted, callVars, packets>>

CbReadFailed ==
    /\ In("idle")
    /\ readOp \in {"eof", "err", "aborted"}
    /\ reading' = FALSE
    /\ \/ /\ ~disconnected
          /\ CloseSocket(CASE readOp = "eof" -> "Eof"
                           [] readOp = "err" -> "Sys"
                           [] OTHER -> error, "none", writeOp)
          /\ UNCHANGED <<producerPaused, pendingProducing>>
       \/ /\ disconnected
          /\ readOp' = "none"
          /\ UNCHANGED <<flagVars, prodVars, sockOpen, writeOp, lost>>
    /\ UNCHANGED <<writing, byteVars, writeOpBytes, closePosted, callVars, packets>>

(* cbWrite of a completed write: handleWrite, then doWrite for what is     *)
(* left in the queue, or writeDone.                                        *)
WriteDone ==
    \/ /\ producer = "pull" \/ (producer = "streaming" /\ producerPaused)
       /\ producerPaused' = TRUE
       /\ owed' = FALSE
    \/ /\ ~(producer = "pull" \/ (producer = "streaming" /\ producerPaused))
       /\ UNCHANGED <<producerPaused, owed>>

CbWriteOk ==
    LET taken == consumed + writeOpBytes
        q == IF taken >= Head(writeQueue) THEN Tail(writeQueue) ELSE writeQueue
        resume == producer = "pull" \/ (producer = "streaming" /\ producerPaused)
    IN
    /\ In("idle")
    /\ writeOp = "ok"
    /\ writeOpBytes' = 0
    /\ \/ /\ (disconnecting /\ q = <<>>) \/ aborting
          /\ writeQueue' = q /\ consumed' = taken
          /\ writing' = FALSE
          /\ CloseSocket(error, readOp, "none")
          /\ UNCHANGED <<sent, producerPaused, pendingProducing, closePosted>>
       \/ /\ ~aborting /\ ~disconnected /\ q # <<>>
          /\ DoWrite(q, taken, resume)
          /\ UNCHANGED <<connected, disconnected, aborting, producer,
                         producerPaused, owed, lost>>
       \/ /\ ~aborting /\ ~disconnecting /\ ~disconnected /\ q = <<>>
          /\ writeQueue' = q /\ consumed' = taken
          /\ writing' = FALSE /\ writeOp' = "none"
          /\ WriteDone
          /\ UNCHANGED <<flagVars, sent, producer, pendingProducing, sockOpen,
                         readOp, closePosted, lost>>
       \/ /\ disconnected
          /\ writeQueue' = q /\ consumed' = taken
          /\ writing' = FALSE /\ writeOp' = "none"
          /\ UNCHANGED <<flagVars, sent, prodVars, sockOpen, readOp,
                         closePosted, lost>>
    /\ UNCHANGED <<reading, accepted, callVars, packets>>

CbWriteFailed ==
    /\ In("idle")
    /\ writeOp \in {"err", "aborted"}
    /\ writing' = FALSE
    /\ \/ /\ ~disconnected
          /\ CloseSocket(IF writeOp = "err" THEN "Sys" ELSE error, readOp, "none")
          /\ UNCHANGED <<producerPaused, pendingProducing>>
       \/ /\ disconnected
          /\ writeOp' = "none"
          /\ UNCHANGED <<flagVars, prodVars, sockOpen, readOp, lost>>
    /\ UNCHANGED <<reading, byteVars, writeOpBytes, closePosted, callVars, packets>>

(* The lambda posted by doClose / doAbort.                                 *)
PostedClose ==
    /\ In("idle")
    /\ closePosted > 0
    /\ closePosted' = closePosted - 1
    /\ \/ /\ ~disconnected
          /\ CloseSocket(error, readOp, writeOp)
          /\ UNCHANGED <<producerPaused, pendingProducing>>
       \/ /\ disconnected
          /\ UNCHANGED <<flagVars, prodVars, sockOpen, readOp, writeOp, lost>>
    /\ UNCHANGED <<reading, writing, byteVars, writeOpBytes, callVars, packets>>

(* The lambda posted by doWrite when it emptied the queue.                 *)
PostedProduce ==
    /\ In("idle")
    /\ pendingProducing
    /\ pendingProducing' = FALSE
    /\ \/ /\ ~aborting /\ ~disconnected /\ writeQueue = <<>>
          /\ WriteDone
       \/ /\ aborting \/ disconnected \/ writeQueue # <<>>
          /\ UNCHANGED <<producerPaused, owed>>
    /\ UNCHANGED <<flagVars, reading, writing, byteVars, producer, sockVars,
                   callVars, lost, packets>>

-----------------------------------------------------------------------------
(* asio and the network.                                                   *)

ReadCompletes(result) ==
    /\ readOp = "pending"
    /\ result = "ok" => packets < MaxReads
    /\ packets' = IF result = "ok" THEN packets + 1 ELSE packets
    /\ readOp' = result
    /\ UNCHANGED <<flagVars, reading, writing, byteVars, prodVars, sockOpen,
                   writeOp, writeOpBytes, closePosted, callVars, lost>>

(* The kernel takes some bytes of the front buffer.                        *)
WriteCompletes ==
    /\ writeOp = "pending"
    /\ writeOp' = "ok"
    /\ \E n \in 1..(Head(writeQueue) - consumed) :
          /\ writeOpBytes' = n
          /\ sent' = sent + n
    /\ UNCHANGED <<flagVars, reading, writing, accepted, consumed, writeQueue,
                   prodVars, sockOpen, readOp, closePosted, callVars, lost,
                   packets>>

WriteBreaks ==
    /\ writeOp = "pending"
    /\ writeOp' = "err"
    /\ UNCHANGED <<flagVars, reading, writing, byteVars, prodVars, sockOpen,
                   readOp, writeOpBytes, closePosted, callVars, lost, packets>>

-----------------------------------------------------------------------------
Application ==
    /\ ~crashed
    /\ \/ \E n \in BufferSizes : Write(n)
       \/ LoseConnection
       \/ AbortConnection
       \/ \E kind \in {"streaming", "pull"} : RegisterProducer(kind)
       \/ UnregisterProducer

Handler ==
    \/ CbConnect
    \/ ConnectionMadeReturns
    \/ CbReadData
    \/ DataReceivedReturns
    \/ CallbackThrows
    \/ PauseProducingReturns
    \/ PauseProducingThrows
    \/ CbReadIgnored
    \/ CbReadFailed
    \/ CbWriteOk
    \/ CbWriteFailed
    \/ PostedClose
    \/ PostedProduce

Network ==
    \/ \E result \in {"ok", "eof", "err"} : ReadCompletes(result)
    \/ WriteCompletes
    \/ WriteBreaks

Next == Application \/ Handler \/ Network

Spec == Init /\ [][Next]_vars

(* The event loop runs every handler that is ready, and a callback of the  *)
(* application returns or throws.                                          *)
HandlerFairness ==
    /\ WF_vars(CbConnect)
    /\ WF_vars(ConnectionMadeReturns)
    /\ WF_vars(CbReadData)
    /\ WF_vars(DataReceivedReturns)
    /\ WF_vars(PauseProducingReturns)
    /\ WF_vars(CbReadIgnored)
    /\ WF_vars(CbReadFailed)
    /\ WF_vars(CbWriteOk)
    /\ WF_vars(CbWriteFailed)
    /\ WF_vars(PostedClose)
    /\ WF_vars(PostedProduce)

FairSpec == Spec /\ HandlerFairness

(* As FairSpec, with a peer that keeps reading: a pending write completes. *)
WritesComplete == WF_vars(WriteCompletes \/ WriteBreaks)

ReadingPeerSpec == FairSpec /\ WritesComplete

-----------------------------------------------------------------------------
(* Properties.                                                             *)

FlagsOK ==
    /\ connected \in BOOLEAN /\ disconnected \in BOOLEAN
    /\ disconnecting \in BOOLEAN /\ aborting \in BOOLEAN
    /\ reading \in BOOLEAN /\ writing \in BOOLEAN
    /\ producerPaused \in BOOLEAN /\ pendingProducing \in BOOLEAN
    /\ owed \in BOOLEAN /\ sockOpen \in BOOLEAN /\ crashed \in BOOLEAN

CountersOK ==
    /\ accepted \in 0..MaxBytes /\ consumed \in Nat /\ sent \in Nat
    /\ writeOpBytes \in Nat /\ closePosted \in Nat /\ pausing \in Nat
    /\ lost \in Nat /\ packets \in 0..MaxReads

(* Types of every variable, with the bounds of the counters: no handler    *)
(* invents an outcome, and no count of posted handlers goes below zero.    *)
TypeOK ==
    /\ FlagsOK
    /\ CountersOK
    /\ writeQueue \in Seq(Nat)
    /\ error \in Errors /\ readOp \in ReadOps /\ writeOp \in WriteOps
    /\ producer \in {"none", "streaming", "pull"}
    /\ frame \in {"idle", "made", "data"} /\ lapses \subseteq Lapses

(* _reading and _writing say exactly whether an operation of that kind is  *)
(* outstanding: doRead and doWrite never start a second one over it.       *)
FlagsTrackOperations ==
    /\ reading <=> readOp # "none"
    /\ writing <=> writeOp # "none"

(* Partial writes, buffers popped by the loop of doWrite and buffers       *)
(* popped by handleWrite add up: what is queued continues exactly where    *)
(* the kernel stopped, so no byte is sent twice and none is skipped.       *)
StreamIntact ==
    /\ sent = consumed + writeOpBytes
    /\ sent =< accepted
    /\ writeQueue = <<>> => sent = accepted
    /\ writeQueue # <<>> => writeQueue[Len(writeQueue)] = accepted
    /\ \A i \in 1..Len(writeQueue) : consumed < writeQueue[i]
    /\ \A i, j \in 1..Len(writeQueue) : i < j => writeQueue[i] < writeQueue[j]

(* An open connection with queued bytes has a write outstanding, and one   *)
(* that is in no callback has a read outstanding: no path through the      *)
(* handlers leaves it stalled or deaf.  The only ways there are exceptions *)
(* of the application, out of pauseProducing until something is written    *)
(* again, and out of connectionMade or dataReceived for good.              *)
OpenIsActive ==
    connected /\ ~disconnecting =>
        /\ writeQueue # <<>> => writing \/ pausing > 0 \/ "write" \in lapses
        /\ frame = "idle" => reading \/ "read" \in lapses

(* connectionLost is called once, by the step that sets _disconnected, and *)
(* whoever is still registered as producer was told to stop.               *)
LostExactlyOnce ==
    /\ lost = IF disconnected THEN 1 ELSE 0
    /\ disconnected => producer = "none" /\ ~sockOpen

(* The assertions of handleRead and handleWrite (tcp.cpp:121 and 215): an  *)
(* operation is cancelled only after a reason was recorded.                *)
CancelledHasReason ==
    ~disconnected /\ (readOp = "aborted" \/ writeOp = "aborted")
        => error # "none"

(* A producer that waits for resumeProducing will be resumed: a write is   *)
(* outstanding whose handler will do it, or the lambda is posted, or the   *)
(* connection is going away, or the write that paused it is still under    *)
(* way; or pauseProducing threw and nothing was written since.             *)
WaitingProducerIsRemembered ==
    owed => \/ writing \/ pendingProducing \/ disconnecting
            \/ pausing > 0 \/ "write" \in lapses

(* dataReceived is not called on a connection whose loss was reported.     *)
NoDataAfterLost == [][frame = "idle" /\ frame' = "data" => ~disconnected]_vars

(* abortConnection with a write outstanding ends in connectionLost.        *)
AbortedWriteReported == (aborting /\ writing) ~> disconnected

(* loseConnection closes the connection and connectionLost reports it.     *)
LoseConnectionCompletes == (disconnecting /\ ~aborting) ~> disconnected

(* A connection that ends as loseConnection asked has sent what it took.   *)
LoseConnectionIsSafe == disconnected /\ error = "Done" => sent = accepted

(* The promise of the Connection interface.  A loseConnection from inside  *)
(* pauseProducing, or after an exception out of it, can come ahead of      *)
(* queued bytes: it does not count as a graceful end.                      *)
Phase == IF disconnected THEN "closed"
         ELSE IF disconnecting THEN "closing"
         ELSE IF connected THEN "open" ELSE "new"

Reason == IF ~disconnected THEN "none"
          ELSE IF error = "Done" /\ "close" \notin lapses THEN "graceful"
          ELSE "broken"

Abstract == INSTANCE Transport WITH phase <- Phase, reason <- Reason

(* TCPConnection keeps the promise Transport states.                       *)
ImplementsTransport == Abstract!Spec
=============================================================================
