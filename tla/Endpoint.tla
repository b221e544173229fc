------------------------------ MODULE Endpoint ------------------------------
(***************************************************************************)
(* One connect of a TCPClientEndpoint (core/network/endpoints.cpp): the    *)
(* WrappingFactory that makes a Deferred out of a connector, and the       *)
(* time-out the caller may put on that Deferred (Deferred::addTimeout,     *)
(* core/network/defer.cpp).  It composes the handlers of Connector, for a  *)
(* single attempt, with what this factory does in them.                    *)
(*                                                                         *)
(* A step is one handler of the reactor's thread or one call of the        *)
(* application.  The NotConnectingError of a cancel that comes while no    *)
(* attempt can be stopped goes to whoever cancels, and has no effect: the  *)
(* canceller answers the Deferred first.                                   *)
(***************************************************************************)
EXTENDS Naturals

CONSTANTS Hosts, UseTimeout, BindAddress   \* as in Connector

VARIABLES
    host, state, error, connection, resolveOp, connectOp, timer, live,
    factoryStarted, unreported,
    thrown, crashed,                       \* as in Connector
    wrappedPorts,  \* _numPorts of the wrapped factory
    onConnection,  \* _onConnection of the factory is set
    answer,        \* "idle" before connect, "none", or what the Deferred says
    told,          \* what the wrapped protocol was told last
    patience,      \* the timer of addTimeout
    timedOut,      \* *timeOut
    session,       \* a Deferred that a later callback returned, waited for
    brokenOff,     \* the connected protocol threw, or cancelled the connect
    lookupDropped, \* a lookup ended in an attempt already stopped
    lateTimeout    \* the Deferred was answered with its time-out expired

attemptVars == <<state, error, connection, resolveOp, connectOp>>
portVars == <<factoryStarted, wrappedPorts, unreported>>
connectorVars == <<host, attemptVars, timer, live, portVars, thrown, crashed>>
resultVars == <<answer, patience, lateTimeout>>
endpointGhosts == <<brokenOff, lookupDropped>>
wrapperVars == <<onConnection, resultVars, told, timedOut, session, endpointGhosts>>
endpointVars == <<connectorVars, wrapperVars>>

(* One attempt, and nothing that retries or counts.                        *)
C == INSTANCE Connector WITH
        numPorts <- wrappedPorts, lateTimers <- 0, retries <- 0, retryTimer <- "none", retryConnector <- ~TRUE,
        stoppedTrying <- ~TRUE, starts <- 0,
        MaxRetries <- 1, OtherPorts <- 0, MaxStarts <- 1

EndpointInit ==
    /\ C!Init
    /\ onConnection = FALSE /\ answer = "idle" /\ told = "none"
    /\ patience = "none" /\ timedOut = FALSE /\ session = "none"
    /\ brokenOff = FALSE /\ lookupDropped = FALSE /\ lateTimeout = FALSE

-----------------------------------------------------------------------------
(* The Deferred of connect.                                                *)

(* Mutant: an answered Deferred leaves its time-out running.               *)
AnswersOnly(a) ==
    /\ answer' = IF timedOut' /\ a # "protocol" THEN "TimeoutError" ELSE a
    /\ lateTimeout' = (patience = "fired" /\ ~timedOut')
    /\ UNCHANGED patience

(* callback or errback, and the two callbacks of addTimeout: the first     *)
(* turns an error into a TimeoutError, the second cancels the timer, which *)
(* does not reach one that has expired.                                    *)
Answers(a) ==
    /\ answer' = IF timedOut' /\ a # "protocol" THEN "TimeoutError" ELSE a
    /\ lateTimeout' = (patience = "fired" /\ ~timedOut')
    /\ patience' = IF timedOut' THEN "none" ELSE C!CancelTimeout(patience)

(* Mutant: the canceller answers the Deferred and lets the attempt go on.  *)
StopsNothing == UNCHANGED attemptVars

(* The connector that the canceller holds weakly lives as long as anything *)
(* of it is outstanding.                                                   *)
Alive == resolveOp # "none" \/ connectOp # "none" \/ timer # "none" \/ live

(* stopConnecting, which throws in any state but kConnecting.              *)
StopConnecting ==
    \/ /\ Alive /\ state = "kConnecting"
       /\ error' = "UserAbort"
       /\ C!AbortConnecting
    \/ /\ ~(Alive /\ state = "kConnecting")
       /\ UNCHANGED attemptVars

(* Deferred::cancel.  One that is answered passes it on to the Deferred it *)
(* waits for.                                                              *)
CancelDeferred ==
    \/ /\ answer = "none"
       /\ StopConnecting
       /\ Answers("cancelled")
       /\ UNCHANGED session
    \/ /\ answer # "none"
       /\ session' = IF session # "waiting" THEN session
                     ELSE IF timedOut' THEN "expired" ELSE "cancelled"
       /\ patience' = IF timedOut' THEN "none" ELSE patience
       /\ UNCHANGED <<attemptVars, answer, lateTimeout>>

-----------------------------------------------------------------------------
(* The application.                                                        *)

(* TCPClientEndpoint::connect, and addTimeout on what it returns.  A bind  *)
(* that throws ends the connector and makes a Deferred that has failed.    *)
ConnectEndpoint ==
    /\ answer = "idle"
    /\ C!StartConnecting
    /\ onConnection' = TRUE
    /\ \/ thrown' /\ answer' = "Sys" /\ UNCHANGED patience
       \/ ~thrown' /\ answer' = "none" /\ patience' \in {"none", "armed"}
    /\ UNCHANGED <<told, timedOut, session, lateTimeout, endpointGhosts>>

Cancel ==
    /\ answer = "none" \/ session = "waiting"
    /\ UNCHANGED timedOut
    /\ CancelDeferred
    /\ UNCHANGED <<host, timer, live, portVars, thrown, crashed,
                   onConnection, told, endpointGhosts>>

SessionEnds ==
    /\ session = "waiting"
    /\ session' = "done"
    /\ UNCHANGED <<connectorVars, onConnection, resultVars, told, timedOut, endpointGhosts>>

-----------------------------------------------------------------------------
(* asio and the network.                                                   *)

ResolveCompletes == C!ResolveCompletes /\ UNCHANGED wrapperVars
ConnectCompletes == C!ConnectCompletes /\ UNCHANGED wrapperVars
TimeoutExpires == C!TimeoutExpires /\ UNCHANGED wrapperVars

PatienceExpires ==
    /\ patience = "armed"
    /\ patience' = "fired"
    /\ UNCHANGED <<connectorVars, onConnection, answer, lateTimeout, told, timedOut,
                   session, endpointGhosts>>

-----------------------------------------------------------------------------
(* The handlers.                                                           *)

(* Mutant: an attempt that was aborted does not answer the Deferred.       *)
ConnectionFailedQuietly(op) ==
    /\ error' = IF op = "err" THEN "Sys" ELSE error
    /\ timer' = C!CancelTimeout(timer)
    /\ connection' = FALSE
    /\ state' = "kDisconnected"
    /\ C!DoStop
    /\ unreported' = unreported - 1
    /\ onConnection' = FALSE
    /\ UNCHANGED <<host, live, thrown, crashed, told, timedOut, session, endpointGhosts>>
    /\ IF op = "err" /\ answer = "none" THEN Answers(error') ELSE UNCHANGED resultVars

(* TCPConnector::connectionFailed with clientConnectionFailed, which does  *)
(* not answer a Deferred that was cancelled.                               *)
ConnectionFailed(op) ==
    /\ error' = IF op = "err" THEN "Sys" ELSE error
    /\ timer' = C!CancelTimeout(timer)
    /\ connection' = FALSE
    /\ state' = "kDisconnected"
    /\ C!DoStop
    /\ unreported' = unreported - 1
    /\ onConnection' = FALSE
    /\ UNCHANGED <<host, live, thrown, crashed, told, timedOut, session, endpointGhosts>>
    /\ IF onConnection /\ answer = "none" THEN Answers(error') ELSE UNCHANGED resultVars

CbResolveFailed ==
    /\ resolveOp \in {"err", "aborted"}
    /\ resolveOp' = "none"
    /\ ConnectionFailed(resolveOp)
    /\ UNCHANGED connectOp

CbResolveOk ==
    /\ C!CbResolveOk
    /\ lookupDropped' = (lookupDropped \/ state # "kConnecting")
    /\ UNCHANGED <<onConnection, resultVars, told, timedOut, session, brokenOff>>

CbConnectFailed ==
    /\ connectOp \in {"err", "aborted"}
    /\ connectOp' = "none"
    /\ ConnectionFailed(connectOp)
    /\ UNCHANGED resolveOp

CbConnectThrows == C!CbConnectThrows /\ UNCHANGED wrapperVars
CbConnectAborted == C!CbConnectAborted /\ UNCHANGED wrapperVars

(* TCPConnector::buildProtocol.  The Deferred leaves the factory.          *)
BuildProtocol ==
    /\ connectOp = "ok" /\ connection
    /\ connectOp' = "none"
    /\ timer' = C!CancelTimeout(timer)
    /\ onConnection' = FALSE
    /\ UNCHANGED <<host, error, resolveOp, crashed, timedOut, lookupDropped>>

(* The wrapped factory builds a protocol, the protocol is told of its      *)
(* connection, and the Deferred is called, which throws if it was answered *)
(* meanwhile.  A callback may wait for a Deferred of its own.              *)
CbConnectOk ==
    /\ BuildProtocol
    /\ state' = "kConnected" /\ connection' = FALSE
    /\ told' = "made"
    /\ live' = (answer = "none")
    /\ thrown' = (thrown \/ answer # "none")
    /\ IF answer = "none" THEN Answers("protocol") ELSE UNCHANGED resultVars
    /\ session' \in {"none", "waiting"}
    /\ UNCHANGED <<portVars, brokenOff>>

(* The wrapped factory or protocol cancels the connect from inside: the    *)
(* Deferred is answered, and what answers it afterwards throws out of the  *)
(* handler.  The connection dies with the handler or stays deaf, and its   *)
(* loss is not reported.                                                   *)
CbConnectCancelled ==
    /\ BuildProtocol /\ answer = "none"
    /\ state' = "kConnected"
    /\ told' \in {"none", "made"}
    /\ connection' = (told' = "none")
    /\ Answers("cancelled")
    /\ thrown' = TRUE /\ brokenOff' = TRUE
    /\ UNCHANGED <<live, portVars, session>>

(* The wrapped protocol throws out of connectionMade: the Deferred is      *)
(* dropped unanswered.                                                     *)
CbConnectBroken ==
    /\ BuildProtocol
    /\ state' = "kConnected" /\ connection' = FALSE
    /\ told' = "made"
    /\ thrown' = TRUE /\ brokenOff' = TRUE
    /\ UNCHANGED <<live, portVars, resultVars, session>>

(* The wrapped factory builds no protocol, or throws.                      *)
CbConnectRefused ==
    /\ BuildProtocol
    /\ connection' = FALSE
    /\ C!ConnectionLost
    /\ Answers("refused")
    /\ UNCHANGED <<live, thrown, told, session, brokenOff>>

CbLost ==
    /\ live
    /\ live' = FALSE
    /\ error' = "Sys"
    /\ told' = "lost"
    /\ C!ConnectionLost
    /\ UNCHANGED <<host, connection, resolveOp, connectOp, timer, thrown, crashed,
                   onConnection, resultVars, timedOut, session, endpointGhosts>>

CbTimeout == C!CbTimeout /\ UNCHANGED wrapperVars

(* Mutant: the time-out stops a lookup only once there is a connection.    *)
CbPatienceOfConnection ==
    /\ patience = "fired"
    /\ timedOut' = TRUE
    /\ IF connection \/ answer # "none" THEN CancelDeferred
       ELSE /\ patience' = "none"
            /\ UNCHANGED <<attemptVars, answer, lateTimeout, session>>
    /\ UNCHANGED <<host, timer, live, portVars, thrown, crashed,
                   onConnection, told, endpointGhosts>>

(* The timer of addTimeout does not look whether the Deferred was answered *)
(* since it expired.                                                       *)
CbPatience ==
    /\ patience = "fired"
    /\ timedOut' = TRUE
    /\ CancelDeferred
    /\ UNCHANGED <<host, timer, live, portVars, thrown, crashed,
                   onConnection, told, endpointGhosts>>

-----------------------------------------------------------------------------

EndpointNext ==
    /\ ~crashed
    /\ \/ ConnectEndpoint \/ Cancel \/ SessionEnds
       \/ ResolveCompletes \/ ConnectCompletes \/ TimeoutExpires \/ PatienceExpires
       \/ CbResolveFailed \/ CbResolveOk
       \/ CbConnectFailed \/ CbConnectThrows \/ CbConnectAborted
       \/ CbConnectOk \/ CbConnectCancelled \/ CbConnectBroken \/ CbConnectRefused
       \/ CbLost \/ CbTimeout \/ CbPatience

EndpointSpec == EndpointInit /\ [][EndpointNext]_endpointVars

(* The kernel gives every connect a result, timers expire, and the reactor *)
(* runs every handler that is ready.  Nobody answers for the resolver.     *)
EndpointFairness ==
    /\ WF_endpointVars(~crashed /\ ConnectCompletes)
    /\ WF_endpointVars(~crashed /\ (TimeoutExpires \/ CbTimeout))
    /\ WF_endpointVars(~crashed /\ (PatienceExpires \/ CbPatience))
    /\ WF_endpointVars(~crashed /\ (CbConnectFailed \/ CbConnectThrows \/ CbConnectAborted
                                    \/ CbConnectOk \/ CbConnectCancelled
                                    \/ CbConnectBroken \/ CbConnectRefused))

-----------------------------------------------------------------------------
(* Properties.                                                             *)

(* What became of the connection and what the Deferred says agree.  It     *)
(* says "protocol" exactly when that protocol was told of its connection:  *)
(* a connect that failed, was refused, cancelled or timed out never comes  *)
(* true later.  Exempt is a protocol that throws or cancels from inside    *)
(* the step that connects it.                                              *)
AnswerIsTrue == ~brokenOff => (told # "none" <=> answer = "protocol")

(* While the Deferred is not answered it is where the outstanding handler  *)
(* finds it, and while the wrapped factory is started something is         *)
(* outstanding that will stop it.  Exempt are a handler that threw and a   *)
(* lookup that ended in an attempt already stopped, which the connector    *)
(* does not report.                                                        *)
ConnectIsAwaited ==
    ~thrown /\ ~crashed /\ ~lookupDropped =>
        /\ answer = "none" => onConnection /\ (resolveOp # "none" \/ connectOp # "none")
        /\ factoryStarted => resolveOp # "none" \/ connectOp # "none" \/ live

(* An answered Deferred has no time-out running, and what a callback waits *)
(* for afterwards is cancelled by one only if that had expired before the  *)
(* answer came.                                                            *)
TimeoutIsOfConnect ==
    answer # "none" =>
        /\ patience # "armed"
        /\ session = "expired" \/ patience = "fired" => lateTimeout

(* The Deferred of connect keeps its word: it is true to the connection,   *)
(* will be answered, and its time-out is about nothing else.               *)
ConnectKeepsWord == AnswerIsTrue /\ ConnectIsAwaited /\ TimeoutIsOfConnect

(* A connect to an address is answered, unless a handler threw; one with a *)
(* time-out always is, whatever became of its lookup and its handlers.     *)
ConnectIsAnswered ==
    /\ (answer = "none" /\ host = "ip") ~> (answer # "none" \/ thrown \/ crashed)
    /\ (answer = "none" /\ patience # "none") ~> (answer # "none" \/ crashed)
=============================================================================
