---------------------------- MODULE SSLConnection ----------------------------
(***************************************************************************)
(* One SSL connection, server or client (core/network/ssl.cpp 14-268 and   *)
(* ssl.h): handshake, reading, coalesced writing, and the SSL shutdown     *)
(* that errors of both directions and the application may start.           *)
(*                                                                         *)
(* The methods are operators from the state they find to the one they      *)
(* leave; an action is one handler, one call of the application (from a    *)
(* handler of its own, or from inside the callback named by `inside`), or  *)
(* the completion of an operation.  Of the bytes only their number is      *)
(* kept: `front` in the buffer being written, `rest` in the ones behind.   *)
(***************************************************************************)
EXTENDS Integers

CONSTANTS
    SSLBufferSize,   \* _writeBufferSize: more than this pauses the producer
    MaxSSLBytes,     \* bound: bytes written
    MaxSSLReads      \* bound: packets of the peer

ASSUME SSLAssumption ==
    SSLBufferSize \in Nat /\ MaxSSLBytes \in Nat /\ MaxSSLReads \in Nat

VARIABLES
    ssl,      \* the connection and the operations it has outstanding
    inside,   \* the callback the application is in
    pausing,  \* calls of pauseProducing the application is in, too
    lapses,   \* ghost: what did not come about, as in TCPConnection
    lossSeen, \* ghost: calls of connectionLost
    asserted, \* ghost: an assertion failed
    sslEnd,   \* ghost: did the shutdown end it, and what was written by then?
    written, flushed, \* ghosts: bytes accepted by write, written by OpenSSL
    sslReads

callVars == <<inside, pausing, lapses>>
ghostVars == <<lossSeen, asserted, sslEnd>>
sslVars == <<ssl, callVars, ghostVars, written, flushed, sslReads>>

(* What an operation can be: not there, outstanding, or completed.         *)
Outcomes == {"none", "pending", "ok", "eof", "short", "err", "aborted"}

SSLInit ==
    /\ ssl = [connected |-> FALSE, disconnected |-> FALSE,
              disconnecting |-> FALSE, aborting |-> FALSE, error |-> "none",
              accepting |-> FALSE, accepted |-> FALSE, shutting |-> FALSE,
              reading |-> FALSE, writing |-> FALSE,
              handshakeOp |-> "none", readOp |-> "none", writeOp |-> "none",
              shutdownOp |-> "none", closesPosted |-> 0,
              front |-> 0, rest |-> 0,
              producer |-> "none", paused |-> FALSE]
    /\ inside = "nothing" /\ pausing = 0 /\ lapses = {} /\ lossSeen = 0 /\ asserted = FALSE
    /\ sslEnd = [shutdown |-> FALSE, sent |-> 0]
    /\ written = 0 /\ flushed = 0 /\ sslReads = 0

IsShut(s) == s.disconnecting \/ s.disconnected \/ ~s.connected
IsLive(s) == ~s.disconnecting /\ ~s.disconnected

(* The application is in the callback i and in no pauseProducing.          *)
Within(i) == inside = i /\ pausing = 0

-----------------------------------------------------------------------------
(* The operations.                                                         *)

CancelOp(op) == IF op = "pending" THEN "aborted" ELSE op

(* cancel (and close) of the lowest layer.                                 *)
CancelAll(s) ==
    [s EXCEPT !.handshakeOp = CancelOp(@), !.readOp = CancelOp(@),
              !.writeOp = CancelOp(@), !.shutdownOp = CancelOp(@)]

DoHandshake(s) ==
    IF s.accepting THEN s
    ELSE [s EXCEPT !.accepting = TRUE, !.handshakeOp = "pending"]

DoReadSSL(s) == [s EXCEPT !.reading = TRUE, !.readOp = "pending"]

StartReading(s) == IF ~s.reading /\ s.accepted THEN DoReadSSL(s) ELSE s

(* doWrite merges the queue into its first buffer and writes that.         *)
DoWriteSSL(s) ==
    [s EXCEPT !.front = @ + s.rest, !.rest = 0,
              !.writing = TRUE, !.writeOp = "pending"]

StartWriting(s) == IF ~s.writing /\ s.accepted THEN DoWriteSSL(s) ELSE s

StartShutdown(s) ==
    IF s.shutting THEN s
    ELSE [s EXCEPT !.shutting = TRUE, !.shutdownOp = "pending"]

-----------------------------------------------------------------------------
(* Ending.                                                                 *)

(* closeSocket with error e; the producer is stopped, the protocol told.   *)
CloseSocketSSL(s, e) ==
    [CancelAll(s) EXCEPT !.connected = FALSE, !.disconnected = TRUE,
                         !.disconnecting = FALSE, !.aborting = FALSE,
                         !.error = e, !.producer = "none"]

(* Mutant: the handshake is cancelled, and its handler left to close.      *)
PostCloseOnce(s) ==
    IF s.accepting THEN CancelAll(s) ELSE [s EXCEPT !.closesPosted = @ + 1]

(* Before the handshake is done: cancel it, and post a closeSocket.        *)
PostClose(s) ==
    LET t == IF s.accepting THEN CancelAll(s) ELSE s
    IN [t EXCEPT !.closesPosted = @ + 1]

(* Mutant: doClose does not wait for the outstanding write.                *)
DoCloseEarly(s) == IF s.accepted THEN StartShutdown(s) ELSE PostClose(s)

DoCloseSSL(s) ==
    IF ~s.accepted THEN PostClose(s)
    ELSE IF s.writing THEN s ELSE StartShutdown(s)

DoAbortSSL(s) ==
    IF ~s.accepted THEN PostClose(s)
    ELSE StartShutdown(IF s.writing THEN CancelAll(s) ELSE s)

-----------------------------------------------------------------------------
(* Calls of the application.                                               *)

Enqueued(n) ==
    IF ssl.front = 0 /\ ssl.rest = 0 THEN [ssl EXCEPT !.front = n]
    ELSE [ssl EXCEPT !.rest = @ + n]

(* write: the streaming producer of a queue that got too long is paused,   *)
(* and may call anything from there; only then is the writing started.     *)
WriteSSL(n) ==
    LET q == Enqueued(n)
        full == ssl.producer = "streaming" /\ q.front + q.rest > SSLBufferSize
    IN
    /\ ~IsShut(ssl) /\ written + n =< MaxSSLBytes
    /\ written' = written + n
    /\ \/ /\ full
          /\ ssl' = [q EXCEPT !.paused = TRUE]
          /\ pausing' = pausing + 1
          /\ UNCHANGED lapses
       \/ /\ ~full
          /\ ssl' = StartWriting(q)
          /\ lapses' = lapses \ {"write"}
          /\ UNCHANGED pausing
    /\ UNCHANGED <<inside, ghostVars, flushed, sslReads>>

PauseReturnsSSL ==
    /\ pausing > 0
    /\ ssl' = StartWriting(ssl)
    /\ pausing' = pausing - 1
    /\ lapses' = lapses \ {"write"}
    /\ UNCHANGED <<inside, ghostVars, written, flushed, sslReads>>

PauseThrowsSSL ==
    /\ pausing > 0
    /\ pausing' = pausing - 1
    /\ lapses' = IF ssl.accepted /\ ~ssl.writing THEN lapses \cup {"write"} ELSE lapses
    /\ UNCHANGED <<ssl, inside, ghostVars, written, flushed, sslReads>>

LoseConnectionSSL ==
    /\ ~IsShut(ssl)
    /\ ssl' = DoCloseSSL([ssl EXCEPT !.error = "Done", !.disconnecting = TRUE])
    /\ lapses' = IF ssl.accepted /\ ~ssl.writing /\ ssl.front + ssl.rest > 0
                 THEN lapses \cup {"close"} ELSE lapses
    /\ UNCHANGED <<inside, pausing, ghostVars, written, flushed, sslReads>>

AbortConnectionSSL ==
    /\ ~IsShut(ssl)
    /\ ssl' = DoAbortSSL([ssl EXCEPT !.error = "Abort", !.disconnecting = TRUE,
                                     !.aborting = TRUE])
    /\ UNCHANGED <<callVars, ghostVars, written, flushed, sslReads>>

RegisterProducerSSL ==
    /\ ssl.connected /\ ssl.producer = "none"
    /\ \E kind \in {"pull", "streaming"} :
        ssl' = [ssl EXCEPT !.producer = kind]
    /\ UNCHANGED <<callVars, ghostVars, written, flushed, sslReads>>

Application ==
    \/ \E n \in 1..MaxSSLBytes : WriteSSL(n)
    \/ LoseConnectionSSL \/ AbortConnectionSSL \/ RegisterProducerSSL

-----------------------------------------------------------------------------
(* The handlers.  None runs while the application is in a callback.        *)

(* Apply the new state s; if it ended the connection, it is reported.      *)
Becomes(s) ==
    /\ Within("nothing")
    /\ ssl' = s
    /\ lossSeen' = IF s.disconnected /\ ~ssl.disconnected THEN lossSeen + 1 ELSE lossSeen
    /\ sslEnd' = IF s.disconnected /\ ~ssl.disconnected
                 THEN [shutdown |-> ssl.shutting, sent |-> flushed] ELSE sslEnd
    /\ UNCHANGED <<pausing, lapses, written, sslReads>>

(* cbAccept and cbConnect: connectionMade, and then the handshake.         *)
CbConnectSSL ==
    /\ ~ssl.connected /\ ~ssl.disconnected
    /\ Becomes([ssl EXCEPT !.connected = TRUE])
    /\ inside' = "connectionMade"
    /\ UNCHANGED <<asserted, flushed>>

ConnectionMadeReturnsSSL ==
    /\ Within("connectionMade")
    /\ inside' = "nothing"
    /\ ssl' = IF ssl.disconnecting THEN ssl ELSE DoHandshake(ssl)
    /\ UNCHANGED <<pausing, lapses, ghostVars, written, flushed, sslReads>>

(* cbHandshake.                                                            *)
CbHandshake ==
    LET s == [ssl EXCEPT !.accepting = FALSE, !.handshakeOp = "none"]
        up == [s EXCEPT !.accepted = TRUE]
        e == IF ssl.handshakeOp = "aborted" THEN s.error ELSE "Sys"
    IN
    /\ ssl.handshakeOp \in {"ok", "err", "aborted"}
    /\ Becomes(IF ssl.handshakeOp # "ok"
               THEN IF s.disconnected THEN s ELSE CloseSocketSSL(s, e)
               ELSE IF IsLive(s)
               THEN LET r == StartReading(up) IN
                    IF r.front + r.rest > 0 THEN StartWriting(r) ELSE r
               ELSE up)
    /\ UNCHANGED <<inside, asserted, flushed>>

(* Mutant: a handler does not look whether the connection is closed.       *)
OperationFailedLate(s, op) ==
    StartShutdown([s EXCEPT !.disconnecting = TRUE, !.error = "Sys"])

(* An error of a read or a write starts the shutdown.                      *)
OperationFailed(s, op) ==
    IF s.disconnected THEN s
    ELSE StartShutdown([s EXCEPT !.disconnecting = TRUE,
                                 !.error = CASE op = "aborted" -> @
                                             [] op \in {"eof", "short"} -> "Eof"
                                             [] OTHER -> "Sys"])

(* The assertion of both handlers that an aborted operation has a reason.  *)
NoReason(op) == op = "aborted" /\ ~ssl.disconnected /\ ssl.error = "none"

(* cbRead; a completed read is ignored only while disconnecting.           *)
CbReadSSL ==
    LET s == [ssl EXCEPT !.reading = FALSE, !.readOp = "none"] IN
    /\ ssl.readOp \notin {"none", "pending"}
    /\ Becomes(IF ssl.readOp = "ok" THEN s ELSE OperationFailed(s, ssl.readOp))
    /\ inside' = IF ssl.readOp = "ok" /\ ~s.disconnecting THEN "dataReceived"
                 ELSE inside
    /\ asserted' = (asserted \/ NoReason(ssl.readOp))
    /\ UNCHANGED flushed

DataReceivedReturnsSSL ==
    /\ Within("dataReceived")
    /\ inside' = "nothing"
    /\ ssl' = IF IsLive(ssl) THEN DoReadSSL(ssl) ELSE ssl
    /\ UNCHANGED <<pausing, lapses, ghostVars, written, flushed, sslReads>>

(* An exception out of one of the two: the reactor logs it, and neither    *)
(* the handshake nor the next read is started.                             *)
CallbackThrowsSSL ==
    /\ Within("connectionMade") \/ Within("dataReceived")
    /\ inside' = "nothing"
    /\ lapses' = lapses \cup {"read"}
    /\ UNCHANGED <<ssl, pausing, ghostVars, written, flushed, sslReads>>

(* writeDone: the producer may go on.                                      *)
ResumeProducer(s) ==
    IF s.producer = "pull" \/ (s.producer = "streaming" /\ s.paused)
    THEN [s EXCEPT !.paused = TRUE] ELSE s

(* Mutant: only the buffer that was being written counts.                  *)
WriteOnFront(s) ==
    IF s.aborting \/ s.disconnected THEN s
    ELSE IF s.front > 0 THEN DoWriteSSL(s) ELSE ResumeProducer(s)

(* The end of cbWrite: the next buffer, or writeDone.                      *)
WriteOn(s) ==
    IF s.aborting \/ s.disconnected THEN s
    ELSE IF s.front + s.rest > 0 THEN DoWriteSSL(s) ELSE ResumeProducer(s)

(* cbWrite after n bytes were written.                                     *)
CbWriteOkSSL ==
    /\ ssl.writeOp = "ok"
    /\ \E n \in 1..ssl.front :
        LET s == [ssl EXCEPT !.writing = FALSE, !.writeOp = "none", !.front = @ - n]
            empty == s.front + s.rest = 0
        IN /\ Becomes(WriteOn(IF (s.disconnecting /\ empty) \/ s.aborting
                              THEN StartShutdown(s) ELSE s))
           /\ flushed' = flushed + n
    /\ UNCHANGED <<inside, asserted>>

CbWriteFailedSSL ==
    /\ ssl.writeOp \in {"eof", "short", "err", "aborted"}
    /\ Becomes(WriteOn(OperationFailed(
            [ssl EXCEPT !.writing = FALSE, !.writeOp = "none"], ssl.writeOp)))
    /\ asserted' = (asserted \/ NoReason(ssl.writeOp))
    /\ UNCHANGED <<inside, flushed>>

(* cbShutdown; its handler asserts that the connection is not closed yet.  *)
CbShutdown ==
    LET s == [ssl EXCEPT !.shutting = FALSE, !.shutdownOp = "none"] IN
    /\ ssl.shutdownOp \notin {"none", "pending"}
    /\ Becomes(CloseSocketSSL(s, IF ssl.shutdownOp = "err" THEN "Sys" ELSE s.error))
    /\ asserted' = (asserted \/ ssl.disconnected)
    /\ UNCHANGED <<inside, flushed>>

(* The closeSocket posted by doClose or doAbort.                           *)
PostedCloseSSL ==
    LET s == [ssl EXCEPT !.closesPosted = @ - 1] IN
    /\ ssl.closesPosted > 0
    /\ Becomes(IF s.disconnected THEN s ELSE CloseSocketSSL(s, s.error))
    /\ UNCHANGED <<inside, asserted, flushed>>

CbWriteSSL == CbWriteOkSSL \/ CbWriteFailedSSL
CallbackReturnsSSL ==
    ConnectionMadeReturnsSSL \/ DataReceivedReturnsSSL \/ PauseReturnsSSL
CallbackFailsSSL == CallbackThrowsSSL \/ PauseThrowsSSL

-----------------------------------------------------------------------------
(* OpenSSL, the kernel and the peer: an operation completes.               *)

Completes(op, hows) ==
    /\ ssl[op] = "pending"
    /\ \E how \in hows : ssl' = [ssl EXCEPT ![op] = how]
    /\ UNCHANGED <<callVars, ghostVars, written, flushed>>

HandshakeCompletes ==
    Completes("handshakeOp", {"ok", "err"}) /\ UNCHANGED sslReads
WriteCompletesSSL ==
    Completes("writeOp", {"ok", "eof", "short", "err"}) /\ UNCHANGED sslReads
ShutdownCompletes ==
    Completes("shutdownOp", {"ok", "eof", "short", "err"}) /\ UNCHANGED sslReads
ReadCompletesSSL ==
    \/ /\ sslReads < MaxSSLReads /\ sslReads' = sslReads + 1
       /\ Completes("readOp", {"ok"})
    \/ Completes("readOp", {"eof", "short", "err"}) /\ UNCHANGED sslReads

SSLNext ==
    \/ CbConnectSSL \/ Application \/ CallbackReturnsSSL \/ CallbackFailsSSL
    \/ CbHandshake \/ CbReadSSL \/ CbWriteSSL \/ CbShutdown \/ PostedCloseSSL
    \/ HandshakeCompletes \/ WriteCompletesSSL
    \/ ShutdownCompletes \/ ReadCompletesSSL

(* The reactor runs every handler that is ready (a write that fails again  *)
(* and again does not keep it from the others); callbacks return or throw; *)
(* the peer reads what is written and answers the shutdown, or breaks off. *)
SSLFairness ==
    /\ WF_sslVars(CallbackReturnsSSL) /\ WF_sslVars(CbHandshake)
    /\ WF_sslVars(CbReadSSL) /\ SF_sslVars(CbWriteSSL)
    /\ SF_sslVars(CbShutdown) /\ SF_sslVars(PostedCloseSSL)
    /\ WF_sslVars(WriteCompletesSSL) /\ WF_sslVars(ShutdownCompletes)

SSLSpec == SSLInit /\ [][SSLNext]_sslVars /\ SSLFairness

-----------------------------------------------------------------------------
(* Properties.                                                             *)

(* Five parties start the shutdown: the errors of a read and of a write,   *)
(* loseConnection, abortConnection and the last write.  It runs once, so   *)
(* that the assertions of handleShutdown (and of handleRead and            *)
(* handleWrite) hold and the loss is reported once.                        *)
OneShutdown == ~asserted /\ lossSeen =< 1

(* loseConnection after the handshake waits for the writes: no shutdown    *)
(* begins while bytes wait, so what was accepted is sent; unless it was    *)
(* called ahead of bytes nobody writes yet, in pauseProducing or after an  *)
(* exception out of it.                                                    *)
GracefulSendsAll ==
    /\ written = flushed + ssl.front + ssl.rest
    /\ ssl.shutting /\ ssl.error = "Done" /\ "close" \notin lapses => flushed = written

(* A connection that is closing, whoever began it and in which state of    *)
(* handshake, reading and writing, is lost in the end, provided the peer   *)
(* answers.                                                                *)
SSLCloses == ssl.disconnecting ~> ssl.disconnected

(* An open connection shakes hands or reads unless it is in a callback,    *)
(* and after the handshake bytes that wait are being written: the          *)
(* completions of the handshake, of reads and of writes hand over to the   *)
(* next operation without a gap.  Only an exception of the application     *)
(* opens one, for good or until the next write.                            *)
SSLNeverStalls ==
    ssl.connected /\ IsLive(ssl) =>
        /\ inside = "nothing" => ssl.accepting \/ ssl.reading \/ "read" \in lapses
        /\ ssl.accepted /\ ssl.front + ssl.rest > 0 =>
              ssl.writing \/ pausing > 0 \/ "write" \in lapses

(* The promise of the Connection interface.  A close that is posted before *)
(* the handshake is done drops what was written, so only a shutdown ends a *)
(* connection gracefully, and one that comes ahead of queued bytes does    *)
(* not; what a handler counts once the connection is lost is sent no more. *)
SSLPhase == IF ssl.disconnected THEN "closed"
            ELSE IF ssl.disconnecting THEN "closing"
            ELSE IF ssl.connected THEN "open" ELSE "new"

SSLReason == IF ~ssl.disconnected THEN "none"
             ELSE IF ssl.error = "Done" /\ sslEnd.shutdown /\ "close" \notin lapses
             THEN "graceful" ELSE "broken"

SSLSent == IF ssl.disconnected THEN sslEnd.sent ELSE flushed

Stream == INSTANCE Transport WITH
    phase <- SSLPhase, accepted <- written, sent <- SSLSent, reason <- SSLReason

(* An SSL connection keeps the promise Transport states, as TCP does:      *)
(* bytes are taken only while it is open, its end and the reason of it are *)
(* final, and a shutdown that loseConnection asked for comes after all.    *)
SSLImplementsTransport == Stream!Spec
=============================================================================
