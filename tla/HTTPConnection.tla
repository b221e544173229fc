--------------------------- MODULE HTTPConnection ---------------------------
(***************************************************************************)
(* The HTTP server's side of one connection: IOStream (one pending read    *)
(* over a buffer, reads posted to the reactor), HTTPConnection (requests   *)
(* framed by headers, lengths and chunks; responses; keep-alive; the two   *)
(* timers) and the RequestHandler of the current request.                  *)
(*                                                                         *)
(* The methods are operators from the state they find to the one they      *)
(* leave (`raised`: with an exception); an action is what the reactor runs,*)
(* or a step of the application, which runs inside the callback `frame`    *)
(* or, once its method returned a Deferred, on its own.  An octet is a     *)
(* pair <<what, number>>; a header block is its start and its blank line.  *)
(***************************************************************************)
EXTENDS IOStream, SequencesExt

CONSTANTS
    Scripts,         \* what clients send: sequences of kinds of requests
    ChunkSize,       \* _chunkSize
    MaxHeaderSize,   \* _maxHeaderSize
    MaxWrites        \* bound: writes, and flushes, of a handler

ASSUME HTTPAssumption ==
    /\ Scripts \subseteq Seq([method : STRING, version : STRING, connection : STRING,
                              body : STRING, length : Nat, expect : BOOLEAN])
    /\ ChunkSize \in Nat \ {0} /\ MaxWrites \in Nat

VARIABLES
    script,   \* the requests of the client
    wire,     \* octets that have not arrived yet
    config,   \* what the WebApp and its handlers are configured to do
    h         \* the connection and its current handler

httpVars == <<script, wire, config, h>>

NoLength == -1

(* The octets of the i-th request.                                         *)
Octets(i, k) ==
    LET data(n) == [j \in 1..n |-> <<"body", i>>] IN
    << <<"head", i>>, <<"end", i>> >> \o
        CASE k.body = "chunked" -> << <<"len", 1>> >> \o Line \o data(1) \o Line
                                   \o << <<"len", 0>> >> \o Line \o Line
          [] k.body \in {"none", "both"} -> <<>>
          [] OTHER -> data(k.length)

HTTPInit ==
    /\ script \in Scripts
    /\ wire = FlattenSeq([i \in 1..Len(script) |-> Octets(i, script[i])])
    /\ config \in [stream : BOOLEAN, timeouts : BOOLEAN]
    /\ h = [status |-> "new", state |-> "READ_NONE", buffer |-> <<>>, eaten |-> 0,
            want |-> NoRead, posted |-> 0, frame |-> "idle", raised |-> FALSE,
            req |-> 0, bytesRead |-> 0, bytesToRead |-> 0,
            readFinished |-> FALSE, writeFinished |-> FALSE,
            pendingWrite |-> FALSE, streamCallback |-> FALSE, unsent |-> FALSE,
            disconnectOnFinish |-> FALSE, chunkingOutput |-> FALSE,
            expected |-> NoLength, closeCallback |-> FALSE,
            header |-> FALSE, body |-> FALSE, stray |-> 0, due |-> 0,
            stage |-> "none", headersWritten |-> FALSE, finished |-> FALSE,
            buffered |-> 0, length |-> NoLength, code |-> "ok", flushes |-> 0,
            begun |-> 0, heads |-> 0, sent |-> 0, ends |-> 0,
            asserted |-> FALSE, unreachable |-> FALSE]

Open(s) == s.status = "open"
Kind(s) == script[s.req]

(* The status of a response, as far as its framing depends on it: "204"    *)
(* stands for 204 and for 1xx, which have no body, as 304 has none.        *)
StatusCodes == {"ok", "204", "304"}
Bodyless(s) == s.code # "ok"

(* The response to HEAD, and a 304, may tell the length of what it omits.  *)
Omitted(s) == Kind(s).method = "HEAD" \/ s.code = "304"

-----------------------------------------------------------------------------
(* Timers and closing.                                                     *)

(* callLater into the handle t: the timer it held stays armed.             *)
Arm(s, t) ==
    IF ~config.timeouts THEN s
    ELSE [s EXCEPT ![t] = TRUE, !.stray = @ + (IF s[t] THEN 1 ELSE 0)]

ClearCallbacks(s) == [s EXCEPT !.closeCallback = FALSE]

CloseHTTP(s) ==
    [ClearCallbacks(s) EXCEPT !.status = IF Open(s) THEN "closing" ELSE @,
                              !.header = FALSE, !.body = FALSE]

Raise(s) == [s EXCEPT !.raised = TRUE]
Caught(s) == [s EXCEPT !.raised = FALSE]

-----------------------------------------------------------------------------
(* IOStream.                                                               *)

(* write; what is empty is never queued, and never completes.              *)
WriteStream(s, n, callback) ==
    IF ~Open(s) THEN Raise(s)
    ELSE [s EXCEPT !.streamCallback = callback, !.unsent = @ \/ n > 0]

-----------------------------------------------------------------------------
(* HTTPConnection: requests.                                               *)

ReadHeaders(s) ==
    Arm(Read(s, "READ_HEADER", [kind |-> "regex", n |-> MaxHeaderSize]), "header")

StartRequest(s) ==
    ReadHeaders([ClearCallbacks(s) EXCEPT
        !.disconnectOnFinish = FALSE, !.chunkingOutput = FALSE,
        !.pendingWrite = FALSE, !.readFinished = FALSE, !.writeFinished = FALSE,
        !.expected = NoLength, !.begun = @ + 1, !.heads = 0, !.sent = 0,
        !.ends = 0, !.bytesRead = 0, !.bytesToRead = 0])

FinishRequest(s) ==
    IF s.disconnectOnFinish THEN CloseHTTP(s) ELSE StartRequest(ClearCallbacks(s))

CanKeepAlive(k) ==
    IF k.version = "1.1" THEN k.connection # "close"
    ELSE k.connection = "keep-alive" /\ (k.body # "none" \/ k.method \in {"GET", "HEAD"})

(* The rest of the body, or of a chunk, is read in blocks.                 *)
ReadBlock(s, state) ==
    Read(s, state, [kind |-> "bytes",
                    n |-> IF ChunkSize < s.bytesToRead THEN ChunkSize ELSE s.bytesToRead])

ReadChunkLength(s) == Read(s, "READ_CHUNK_LENGTH", [kind |-> "until", n |-> 64])

(* readFinished hands the request to its handler; the method that called   *)
(* it goes on when the handler returns (see Unwind).                       *)
ReadFinished(s, frame) ==
    LET t == [s EXCEPT !.readFinished = TRUE, !.body = FALSE, !.state = "READ_NONE"]
    IN IF t.writeFinished THEN t
       ELSE [t EXCEPT !.frame = frame, !.stage = "prepare"]

ReadBody(s) ==
    LET k == Kind(s) IN
    CASE k.body = "both" -> Raise(s)
      [] k.body = "fixed" /\ k.length = 0 ->
            LET t == ReadFinished(s, "emptyBody")
            IN IF t.frame = "idle" THEN Arm(t, "body") ELSE t
      [] k.body = "fixed" /\ k.length > 0 ->
            Arm(ReadBlock([s EXCEPT !.bytesRead = 0, !.bytesToRead = k.length],
                          "READ_FIXED_BODY"), "body")
      [] k.body = "chunked" -> Arm(ReadChunkLength(s), "body")
      [] OTHER -> ReadFinished(s, "finish")

(* onHeaders of n octets: a new request and its handler.                   *)
OnHeaders(s, n) ==
    LET t == [s EXCEPT !.header = FALSE]
        k == script[s.buffer[1][2]]
        u == [t EXCEPT !.req = s.buffer[1][2],
                       !.disconnectOnFinish = ~CanKeepAlive(k),
                       !.closeCallback = TRUE, !.stage = "found",
                       !.headersWritten = FALSE, !.finished = FALSE, !.buffered = 0,
                       !.length = NoLength, !.code = "ok", !.flushes = 0]
        v == IF k.expect THEN WriteStream(u, 1, FALSE) ELSE u
    IN IF n # 2 \/ s.buffer[1][1] # "head" THEN Raise(t)
       ELSE IF v.raised THEN v ELSE ReadBody(v)

(* After the data were handed over.                                        *)
BlockDone(s) ==
    IF s.state = "READ_FIXED_BODY"
    THEN IF s.bytesRead < s.bytesToRead THEN ReadBlock(s, s.state)
         ELSE ReadFinished(s, "finish")
    ELSE IF s.bytesRead < s.bytesToRead THEN ReadBlock(s, s.state)
         ELSE Read(s, "READ_CHUNK_ENDS", [kind |-> "bytes", n |-> 2])

(* onFixedBody and onChunkData: a handler that streams gets them at once.  *)
OnBlock(s, n) ==
    LET t == [s EXCEPT !.bytesRead = @ + n] IN
    IF config.stream /\ ~t.writeFinished THEN [t EXCEPT !.frame = "data"]
    ELSE BlockDone(t)

OnChunkLength(s, n) ==
    IF n # 3 \/ s.buffer[1][1] # "len" THEN Raise(s)
    ELSE IF s.buffer[1][2] = 0
         THEN Read(s, "READ_LAST_CHUNK_ENDS", [kind |-> "bytes", n |-> 2])
         ELSE ReadBlock([s EXCEPT !.bytesRead = 0, !.bytesToRead = s.buffer[1][2]],
                        "READ_CHUNK_DATA")

(* onDataRead; there is no case for the last line of a chunked body.       *)
OnDataRead(s, n) ==
    LET t == CASE s.state = "READ_HEADER" -> OnHeaders(s, n)
               [] s.state \in {"READ_FIXED_BODY", "READ_CHUNK_DATA"} -> OnBlock(s, n)
               [] s.state = "READ_CHUNK_LENGTH" -> OnChunkLength(s, n)
               [] s.state = "READ_CHUNK_ENDS" ->
                    IF SubSeq(s.buffer, 1, 2) = Line THEN ReadChunkLength(s) ELSE Raise(s)
               [] OTHER -> [s EXCEPT !.unreachable = TRUE]
    IN IF t.raised THEN CloseHTTP(Caught(t)) ELSE t

(* readCompleted, once no callback is in the way.                          *)
Consumed(s) ==
    IF s.frame # "idle" THEN s
    ELSE [s EXCEPT !.buffer = SubSeq(@, s.eaten + 1, Len(@)), !.eaten = 0]

(* readFromBuffer; a header that is too long closes the connection.        *)
ReadFromBuffer(s) ==
    LET w == s.want
        n == FindReadPos(w, s.buffer)
        size == IF n > 0 THEN n ELSE Len(s.buffer)
    IN IF w.kind \in {"regex", "until"} /\ size > w.n THEN CloseHTTP(s)
       ELSE IF n = 0 THEN s
       ELSE Consumed(OnDataRead([s EXCEPT !.want = NoRead, !.eaten = n], n))

-----------------------------------------------------------------------------
(* HTTPConnection: responses.                                              *)

(* formatChunk: what was promised by Content-Length is counted down.       *)
FormatChunk(s, n) ==
    IF s.expected = NoLength THEN [s EXCEPT !.sent = @ + n]
    ELSE IF s.expected < n THEN Raise(CloseHTTP(s))
    ELSE [s EXCEPT !.expected = @ - n, !.sent = @ + n]

(* writeHeaders with a chunk of n octets.  Neither a length nor chunks     *)
(* frame what is written behind the headers of a 204.                      *)
WriteHeaders(s, n) ==
    LET t == [s EXCEPT !.chunkingOutput = /\ Kind(s).version = "1.1" /\ ~Bodyless(s)
                                          /\ s.length = NoLength,
                       !.expected = IF Omitted(s) THEN 0 ELSE s.length,
                       !.heads = @ + 1]
        u == IF n > 0 THEN FormatChunk(t, n) ELSE t
    IN IF u.raised THEN u
       ELSE WriteStream([u EXCEPT !.pendingWrite = TRUE], 1, TRUE)

WriteChunk(s, n) ==
    LET t == FormatChunk([s EXCEPT !.pendingWrite = TRUE], n)
    IN IF t.raised THEN t ELSE WriteStream(t, n, TRUE)

(* Mutant: a request whose body is not read yet does not end the connection.*)
EndResponseKeeping(s) ==
    LET t == [s EXCEPT !.writeFinished = TRUE]
    IN IF s.status = "lost" THEN Raise(t)
       ELSE IF t.pendingWrite THEN t ELSE FinishRequest(t)

(* The end of finish.                                                      *)
EndResponse(s) ==
    LET t == [s EXCEPT !.writeFinished = TRUE,
                       !.disconnectOnFinish = @ \/ ~s.readFinished]
    IN IF s.status = "lost" THEN Raise(t)
       ELSE IF t.pendingWrite THEN t ELSE FinishRequest(t)

(* finish: a response that is too short closes the connection.             *)
Finish(s) ==
    LET t == IF s.chunkingOutput
             THEN WriteStream([s EXCEPT !.pendingWrite = TRUE, !.ends = @ + 1], 1, TRUE)
             ELSE s
    IN IF s.expected > 0 THEN Raise(CloseHTTP(s))
       ELSE IF t.raised THEN t ELSE EndResponse(t)

(* onWriteComplete.                                                        *)
OnWriteComplete(s) ==
    LET t == [s EXCEPT !.pendingWrite = FALSE]
    IN IF t.writeFinished THEN FinishRequest(t) ELSE t

-----------------------------------------------------------------------------
(* The RequestHandler.                                                     *)

(* flush; the response to HEAD has no body.                                *)
Flush(s) ==
    LET t == [s EXCEPT !.buffered = 0]
        head == Kind(s).method = "HEAD"
    IN IF s.status = "lost" THEN Raise(t)
       ELSE IF ~s.headersWritten
            THEN WriteHeaders([t EXCEPT !.headersWritten = TRUE],
                              IF head THEN 0 ELSE s.buffered)
       ELSE IF head THEN t ELSE WriteChunk(t, s.buffered)

(* finish of the handler: unless the headers went out, a status without a  *)
(* body loses its Content-Length and refuses a body, and any other gets the*)
(* length of what was buffered.                                            *)
HandlerFinish(s) ==
    LET t == IF s.headersWritten THEN s
             ELSE IF Bodyless(s) THEN [s EXCEPT !.length = NoLength]
             ELSE IF s.length # NoLength THEN s
             ELSE [s EXCEPT !.length = s.buffered]
        u == Flush(ClearCallbacks(t))
        v == Finish(u)
    IN IF Bodyless(s) /\ ~s.headersWritten /\ s.buffered > 0 THEN Raise(s)
       ELSE IF u.raised THEN u
       ELSE IF v.raised THEN v ELSE [v EXCEPT !.finished = TRUE]

(* Mutant: the headers that went out are not looked at.                    *)
SendErrorAgain(s) ==
    LET t == [s EXCEPT !.length = NoLength, !.code = "ok",
                       !.headersWritten = FALSE, !.buffered = @ + 1]
        u == HandlerFinish(t)
    IN IF u.raised THEN HandlerFinish(Caught(u)) ELSE u

(* sendError: a page of its own, unless the headers have been sent.        *)
SendError(s) ==
    LET t == [s EXCEPT !.length = NoLength, !.code = "ok", !.buffered = @ + 1]
        u == HandlerFinish(t)
    IN IF s.headersWritten THEN (IF s.finished THEN s ELSE HandlerFinish(s))
       ELSE IF u.raised THEN HandlerFinish(Caught(u)) ELSE u

HandleRequestException(s) ==
    IF s.finished THEN Caught(s) ELSE Caught(SendError(Caught(s)))

(* executeFinish, and its exception if it has one.                         *)
ExecuteFinish(s) ==
    LET t == IF s.finished THEN s ELSE HandlerFinish(s)
    IN IF t.raised THEN HandleRequestException(t) ELSE t

(* The method, or prepare, is done with state s: execute, whenComplete and *)
(* executeMethod go on to the next stage.                                  *)
StageDone(s) ==
    IF s.stage \in {"prepare", "preparing"} /\ ~s.finished
    THEN [s EXCEPT !.stage = "method"]
    ELSE [ExecuteFinish(s) EXCEPT !.stage = "done"]

(* The callback of the frame is over: its caller goes on.                  *)
Unwind(s) ==
    LET t == [s EXCEPT !.frame = "idle"]
    IN CASE s.frame = "data" -> Consumed(BlockDone(t))
         [] s.frame = "emptyBody" -> Consumed(Arm(t, "body"))
         [] s.frame = "finish" -> Consumed(t)
         [] OTHER -> t

(* Unwind, unless the handler's next stage runs in the same frame.         *)
Continue(s) == IF s.stage = "method" THEN s ELSE Unwind(s)

-----------------------------------------------------------------------------
(* The application.                                                        *)

OnStack == h.frame # "idle"
Running == OnStack \/ h.stage \in {"preparing", "waiting"}

(* An exception leaves the method: from dataReceived it reaches onDataRead,*)
(* from the others (or as the failure of their Deferred) the handler.      *)
Failed(s) ==
    IF s.frame = "data"
    THEN CloseHTTP(Consumed([Caught(s) EXCEPT !.frame = "idle"]))
    ELSE Unwind([HandleRequestException(s) EXCEPT !.stage = "done"])

Does(s) ==
    /\ h' = IF s.raised THEN Failed(s) ELSE s
    /\ UNCHANGED <<script, wire, config>>

AppSetsStatus ==
    /\ ~h.headersWritten /\ ~h.finished
    /\ \E c \in StatusCodes \ {h.code} : Does([h EXCEPT !.code = c])

AppSetsLength ==
    /\ ~h.headersWritten /\ ~h.finished /\ h.length = NoLength
    /\ \E n \in 1..MaxWrites : Does([h EXCEPT !.length = n])

AppWrites ==
    /\ ~h.finished /\ h.buffered + h.sent < MaxWrites
    /\ Does([h EXCEPT !.buffered = @ + 1])

AppFlushes ==
    /\ ~h.finished /\ h.flushes < MaxWrites
    /\ Does(Flush([h EXCEPT !.flushes = @ + 1]))

(* finish; a GET whose Etag the client has is answered without a body.     *)
AppFinishes ==
    /\ ~h.finished
    /\ \/ Does(HandlerFinish(h))
       \/ /\ ~h.headersWritten /\ h.code = "ok" /\ Kind(h).method \in {"GET", "HEAD"}
          /\ Does(HandlerFinish([h EXCEPT !.code = "304", !.buffered = 0]))

AppThrows == Does(Raise(h))

(* The method returns, with or without a Deferred.                         *)
AppReturns ==
    /\ OnStack
    /\ Does(IF h.frame = "data" THEN Unwind(h) ELSE Continue(StageDone(h)))

AppDefers ==
    /\ h.frame \in {"finish", "emptyBody", "deferred"}
    /\ Does(Unwind([h EXCEPT !.stage = IF @ = "prepare" THEN "preparing" ELSE "waiting"]))

(* The Deferred of prepare, or of the method, fires.                       *)
DeferredFires ==
    /\ ~OnStack /\ h.stage \in {"preparing", "waiting"}
    /\ LET t == StageDone(h)
       IN Does(IF t.stage = "method" THEN [t EXCEPT !.frame = "deferred"] ELSE t)

Handler ==
    /\ Running
    /\ \/ AppSetsStatus \/ AppSetsLength \/ AppWrites \/ AppFlushes \/ AppFinishes
       \/ AppThrows \/ AppReturns \/ AppDefers \/ DeferredFires

-----------------------------------------------------------------------------
(* The reactor and the client.                                             *)

Runs(s) ==
    /\ ~OnStack
    /\ h' = s
    /\ UNCHANGED <<script, config>>

(* connectionMade, onConnected.                                            *)
Connected ==
    /\ h.status = "new"
    /\ Runs(StartRequest([h EXCEPT !.status = "open"])) /\ UNCHANGED wire

(* dataReceived: one octet, or all that were sent.                         *)
DataReceived ==
    /\ Open(h) /\ wire # <<>>
    /\ \E n \in {1, Len(wire)} :
        /\ wire' = SubSeq(wire, n + 1, Len(wire))
        /\ Runs(ReadFromBuffer([h EXCEPT !.buffer = @ \o SubSeq(wire, 1, n)]))

PostedRead ==
    /\ h.posted > 0
    /\ Runs(ReadFromBuffer([h EXCEPT !.posted = @ - 1])) /\ UNCHANGED wire

(* The queue of writes is empty: writeDone.                                *)
WriteDoneHTTP ==
    /\ Open(h) /\ h.unsent
    /\ LET t == [h EXCEPT !.unsent = FALSE, !.streamCallback = FALSE]
       IN Runs(IF h.streamCallback THEN OnWriteComplete(t) ELSE t)
    /\ UNCHANGED wire

(* A timer expires, and its handler can no longer be cancelled.            *)
TimerExpires ==
    /\ \/ \E t \in {"header", "body"} :
            h[t] /\ Runs([h EXCEPT ![t] = FALSE, !.due = @ + 1])
       \/ h.stray > 0 /\ Runs([h EXCEPT !.stray = @ - 1, !.due = @ + 1])
    /\ UNCHANGED wire

TimeoutRuns ==
    /\ h.due > 0
    /\ Runs(CloseHTTP([h EXCEPT !.due = @ - 1])) /\ UNCHANGED wire

(* connectionLost, onDisconnected.                                         *)
Disconnected ==
    /\ h.status \in {"open", "closing"}
    /\ Runs([ClearCallbacks(h) EXCEPT !.status = "lost", !.unsent = FALSE])
    /\ UNCHANGED wire

HTTPNext ==
    \/ Handler
    \/ Connected \/ DataReceived \/ PostedRead \/ WriteDoneHTTP
    \/ TimerExpires \/ TimeoutRuns \/ Disconnected

HTTPSpec == HTTPInit /\ [][HTTPNext]_httpVars

-----------------------------------------------------------------------------
(* Properties.                                                             *)

(* Reading and answering a request end in any order, and finish may come   *)
(* before the body, from a Deferred or from an error: the next request is  *)
(* begun only when the body of this one has been read and its response has *)
(* left, and there is never a second read.                                 *)
RequestsInTurn ==
    [][/\ h.begun > 0 /\ h'.begun > h.begun =>
            h.readFinished /\ ~h'.unsent /\ h.want = NoRead
       /\ ~h'.asserted]_httpVars

(* However statuses, lengths, writes, flushes, finish and exceptions mix,  *)
(* a finished response has one header block, and as much body as its       *)
(* Content-Length says, or, to a client of HTTP/1.1, one end of a chunked  *)
(* body.  HEAD and 304 have no body, nor has a 204 that was not flushed    *)
(* before its end: what a flush sends of one is framed by nothing.  An end *)
(* of chunks goes only where the headers announced chunks, which they do   *)
(* for HEAD too when they are flushed before finish could compute the      *)
(* length.                                                                 *)
ResponseFramed ==
    h.writeFinished =>
        /\ h.heads = 1
        /\ Omitted(h) \/ (Bodyless(h) /\ h.flushes = 0) => h.sent = 0
        /\ ~Omitted(h) /\ h.length # NoLength => h.sent = h.length
        /\ h.ends = IF ~Bodyless(h) /\ h.length = NoLength /\ Kind(h).version = "1.1"
                    THEN 1 ELSE 0

(* A response whose last write was empty: nothing tells of its end.        *)
EmptyTail == h.pendingWrite /\ ~h.unsent

(* Whatever an open connection waits for has something that will bring it: *)
(* a posted read behind a pending read that the buffer satisfies already   *)
(* (octets were consumed in between), with timeouts a timer behind every   *)
(* read of a request, in whichever state it is, and behind a finished      *)
(* response the completion that begins the next request or closes.         *)
NothingStalls ==
    Open(h) /\ ~OnStack =>
        /\ FindReadPos(h.want, h.buffer) > 0 => h.posted > 0
        /\ config.timeouts /\ ~h.readFinished =>
                h.header \/ h.body \/ h.stray > 0 \/ h.due > 0
        /\ h.writeFinished /\ ~EmptyTail => h.unsent /\ h.streamCallback
=============================================================================
