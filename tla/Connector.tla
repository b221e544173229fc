----------------------------- MODULE Connector -----------------------------
(***************************************************************************)
(* One TCPConnector (core/network/tcp.cpp, tcp.h) driven by a              *)
(* ReconnectingClientFactory (core/network/protocol.cpp, protocol.h): the  *)
(* attempts to resolve and connect, the timeout, the retry timer, and the  *)
(* count of ports by which a factory knows when to start and stop.         *)
(*                                                                         *)
(* A step is one handler of the reactor's thread, one call of the          *)
(* application, or asio finishing an operation.  A timer that has expired  *)
(* is "fired" until its handler runs: DelayedCall::cancel does nothing to  *)
(* it then.  An exception that leaves a handler is logged and dropped by   *)
(* Reactor::startRunning; `thrown` remembers that one was.                 *)
(*                                                                         *)
(* The factories of the library never call startConnecting from inside     *)
(* clientConnectionFailed or clientConnectionLost, and neither does this   *)
(* model.  A stopConnecting made from startedConnecting is the same as one *)
(* made right after it.                                                    *)
(***************************************************************************)
EXTENDS Integers

CONSTANTS
    Hosts,        \* what _host may be: "ip" needs no resolver, "name" does
    UseTimeout,   \* _timeout is not 0
    BindAddress,  \* a local address is given: bind may throw
    MaxRetries,   \* _maxRetries, one that is set
    OtherPorts,   \* other connectors and listeners that use the factory
    MaxStarts     \* bound: calls of startConnecting the application makes

ASSUME ConnectorAssumption ==
    /\ Hosts \subseteq {"ip", "name"}
    /\ UseTimeout \in BOOLEAN
    /\ BindAddress \in BOOLEAN
    /\ MaxRetries \in Nat \ {0}
    /\ OtherPorts \in Nat
    /\ MaxStarts \in Nat

VARIABLES
    host,            \* _host
    state,           \* _state
    error,           \* _error
    connection,      \* _connection is set
    resolveOp,       \* the outstanding async_resolve, or how it completed
    connectOp,       \* the same for async_connect
    timer,           \* the timer of _timeoutId
    lateTimers,      \* expired timers of earlier attempts, handlers queued
    live,            \* the connection was made and is not lost yet
    factoryStarted,  \* _factoryStarted
    numPorts,        \* _numPorts of the factory
    retries,         \* _retries
    retryTimer,      \* the timer of _callId
    retryConnector,  \* the factory's _connector is set
    stoppedTrying,   \* stopTrying was called, and nothing restarted since
    starts,          \* calls of startConnecting by the application
    unreported,      \* attempts begun and not reported failed or lost
    thrown, crashed  \* a handler threw; a null pointer was followed

attemptVars == <<state, error, connection, resolveOp, connectOp>>
timerVars == <<timer, lateTimers>>
portVars == <<factoryStarted, numPorts>>
retryVars == <<retries, retryTimer, retryConnector>>
faultVars == <<thrown, crashed>>
vars == <<host, attemptVars, timerVars, live, portVars, retryVars,
          stoppedTrying, starts, unreported, faultVars>>

States == {"kDisconnected", "kConnecting", "kConnected", "kDisconnecting"}
Ops == {"none", "pending", "ok", "err", "aborted"}
Timers == {"none", "armed", "fired"}

Init ==
    /\ host \in Hosts
    /\ state = "kDisconnected" /\ error = "none"
    /\ connection = FALSE
    /\ resolveOp = "none" /\ connectOp = "none"
    /\ timer = "none" /\ lateTimers = 0
    /\ live = FALSE
    /\ factoryStarted = FALSE /\ numPorts = OtherPorts
    /\ retries = 0 /\ retryTimer = "none" /\ retryConnector = FALSE
    /\ stoppedTrying = FALSE
    /\ starts = 0 /\ unreported = 0
    /\ thrown = FALSE /\ crashed = FALSE

-----------------------------------------------------------------------------
(* The pieces the handlers are made of.                                    *)

(* DelayedCall::cancel reaches a timer only before it expires.             *)
CancelTimeout(t) == IF t = "armed" THEN "none" ELSE t

(* Factory::doStop                                                         *)
DoStop ==
    /\ factoryStarted' = FALSE
    /\ numPorts' = IF numPorts = 0 THEN 0 ELSE numPorts - 1

(* Mutant: the last retry is not made.                                     *)
RetryOneLess ==
    /\ retries' = retries + 1
    /\ \/ /\ retries' >= MaxRetries
          /\ UNCHANGED <<retryTimer, retryConnector>>
       \/ /\ retries' < MaxRetries
          /\ retryTimer' = "armed" /\ retryConnector' = TRUE

(* ReconnectingClientFactory::retry.  Nothing sets _continueTrying to      *)
(* FALSE, so its test always passes.                                       *)
Retry ==
    /\ retries' = retries + 1
    /\ \/ /\ retries' > MaxRetries
          /\ UNCHANGED <<retryTimer, retryConnector>>
       \/ /\ retries' <= MaxRetries
          /\ retryTimer' = "armed" /\ retryConnector' = TRUE

(* makeTransport, which may throw from bind, then async_connect.           *)
Binds == IF BindAddress THEN {TRUE, FALSE} ELSE {TRUE}

DoConnect(bound) ==
    /\ connection' = TRUE
    /\ connectOp' = IF bound THEN "pending" ELSE connectOp
    /\ thrown' = (thrown \/ ~bound)

(* The timer is started after doConnect, so not when doConnect throws.     *)
StartTimeout(bound) ==
    \/ /\ UseTimeout /\ bound
       /\ timer' = "armed"
       /\ lateTimers' = IF timer = "fired" THEN lateTimers + 1
                                           ELSE lateTimers
    \/ /\ ~(UseTimeout /\ bound)
       /\ UNCHANGED timerVars

(* startConnecting, past its test of _state.                               *)
StartConnecting ==
    /\ state' = "kConnecting"
    /\ factoryStarted' = TRUE
    /\ numPorts' = IF factoryStarted THEN numPorts ELSE numPorts + 1
    /\ unreported' = unreported + 1
    /\ \/ /\ host = "ip"
          /\ \E bound \in Binds : DoConnect(bound) /\ StartTimeout(bound)
          /\ UNCHANGED resolveOp
       \/ /\ host = "name"
          /\ resolveOp' = "pending"
          /\ StartTimeout(TRUE)
          /\ UNCHANGED <<connection, connectOp, thrown>>
    /\ UNCHANGED <<host, error, live, crashed>>

(* socket.close() under a connect.  An operation over several endpoints    *)
(* looks at the socket once more before it reports.                        *)
CancelledConnect(op) ==
    IF op = "pending" \/ (host = "name" /\ op # "none") THEN "aborted" ELSE op

(* resolver.cancel() does not reach a lookup that is being made.           *)
CancelledResolve(op) == IF op = "pending" THEN {"aborted", "pending"} ELSE {op}

(* Mutant: the connector is at once ready for another attempt.             *)
AbortConnectingAtOnce ==
    /\ state' = "kDisconnected"
    /\ connection' = FALSE
    /\ connectOp' = IF connection THEN CancelledConnect(connectOp) ELSE connectOp
    /\ resolveOp' \in IF connection THEN {resolveOp} ELSE CancelledResolve(resolveOp)

AbortConnecting ==
    /\ state' = "kDisconnecting"
    /\ connection' = FALSE
    /\ connectOp' = IF connection THEN CancelledConnect(connectOp) ELSE connectOp
    /\ resolveOp' \in IF connection THEN {resolveOp} ELSE CancelledResolve(resolveOp)

(* connectionFailed, of an operation that ended with `op`.  An aborted one *)
(* leaves _error as whoever aborted it set it.                             *)
ConnectionFailed(op) ==
    /\ error' = IF op = "err" THEN "Sys" ELSE error
    /\ timer' = CancelTimeout(timer)
    /\ connection' = FALSE
    /\ state' = "kDisconnected"
    /\ Retry
    /\ DoStop
    /\ unreported' = unreported - 1
    /\ UNCHANGED <<host, lateTimers, live, stoppedTrying, starts, faultVars>>

(* Mutant: a lost connection leaves the factory started.                   *)
ConnectionLostStillStarted ==
    /\ state' = "kDisconnected"
    /\ UNCHANGED portVars
    /\ unreported' = unreported - 1

(* connectionLost, but for clientConnectionLost.                           *)
ConnectionLost ==
    /\ state' = "kDisconnected"
    /\ DoStop
    /\ unreported' = unreported - 1

-----------------------------------------------------------------------------
(* The application.                                                        *)

(* Reactor::connectTCP, and startConnecting called again when the factory  *)
(* has given up.  In any other state startConnecting throws to its caller. *)
Start ==
    /\ state = "kDisconnected" /\ retryTimer = "none"
    /\ starts < MaxStarts
    /\ starts' = starts + 1
    /\ stoppedTrying' = FALSE
    /\ StartConnecting
    /\ UNCHANGED retryVars

StopConnecting ==
    /\ state = "kConnecting"
    /\ error' = "UserAbort"
    /\ AbortConnecting
    /\ UNCHANGED <<host, timerVars, live, portVars, retryVars, stoppedTrying,
                   starts, unreported, faultVars>>

(* stopTrying.  It cancels a retry that is due, or else stops the attempt  *)
(* the last retry made; the NotConnectingError of one that is not being    *)
(* made is dropped.                                                        *)
StopTrying ==
    /\ starts > 0 /\ ~stoppedTrying
    /\ stoppedTrying' = TRUE
    /\ retryTimer' = CancelTimeout(retryTimer)
    /\ retryConnector' = FALSE
    /\ \/ /\ retryTimer = "none" /\ retryConnector /\ state = "kConnecting"
          /\ error' = "UserAbort"
          /\ AbortConnecting
       \/ /\ ~(retryTimer = "none" /\ retryConnector /\ state = "kConnecting")
          /\ UNCHANGED attemptVars
    /\ UNCHANGED <<host, timerVars, live, portVars, retries, starts,
                   unreported, faultVars>>

-----------------------------------------------------------------------------
(* asio and the network.                                                   *)

ResolveCompletes ==
    /\ resolveOp = "pending"
    /\ resolveOp' \in {"ok", "err"}
    /\ UNCHANGED <<host, state, error, connection, connectOp, timerVars, live,
                   portVars, retryVars, stoppedTrying, starts, unreported,
                   faultVars>>

ConnectCompletes ==
    /\ connectOp = "pending"
    /\ connectOp' \in {"ok", "err"}
    /\ UNCHANGED <<host, state, error, connection, resolveOp, timerVars, live,
                   portVars, retryVars, stoppedTrying, starts, unreported,
                   faultVars>>

TimeoutExpires ==
    /\ timer = "armed"
    /\ timer' = "fired"
    /\ UNCHANGED <<host, attemptVars, lateTimers, live, portVars, retryVars,
                   stoppedTrying, starts, unreported, faultVars>>

RetryExpires ==
    /\ retryTimer = "armed"
    /\ retryTimer' = "fired"
    /\ UNCHANGED <<host, attemptVars, timerVars, live, portVars, retries,
                   retryConnector, stoppedTrying, starts, unreported,
                   faultVars>>

-----------------------------------------------------------------------------
(* The handlers.                                                           *)

CbResolveFailed ==
    /\ resolveOp \in {"err", "aborted"}
    /\ resolveOp' = "none"
    /\ ConnectionFailed(resolveOp)
    /\ UNCHANGED connectOp

(* Mutant: the results are dropped.                                        *)
CbResolveOkDropped ==
    /\ resolveOp = "ok"
    /\ resolveOp' = "none"
    /\ UNCHANGED <<host, state, error, connection, connectOp, timerVars, live,
                   portVars, retryVars, stoppedTrying, starts, unreported,
                   faultVars>>

(* An attempt stopped too late for resolver.cancel() just ends here.       *)
CbResolveOk ==
    /\ resolveOp = "ok"
    /\ resolveOp' = "none"
    /\ \/ /\ state = "kConnecting"
          /\ \E bound \in Binds : DoConnect(bound)
       \/ /\ state # "kConnecting"
          /\ UNCHANGED <<connection, connectOp, thrown>>
    /\ UNCHANGED <<host, state, error, timerVars, live, portVars, retryVars,
                   stoppedTrying, starts, unreported, crashed>>

(* Mutant: a cancelled connect is nobody's business any more.              *)
CbConnectFailedSilently ==
    /\ connectOp \in {"err", "aborted"}
    /\ connectOp' = "none"
    /\ UNCHANGED resolveOp
    /\ \/ connectOp = "err" /\ ConnectionFailed(connectOp)
       \/ /\ connectOp = "aborted"
          /\ UNCHANGED <<host, state, error, connection, timerVars, live,
                         portVars, retryVars, stoppedTrying, starts,
                         unreported, faultVars>>

CbConnectFailed ==
    /\ connectOp \in {"err", "aborted"}
    /\ connectOp' = "none"
    /\ ConnectionFailed(connectOp)
    /\ UNCHANGED resolveOp

(* The peer has reset the connection already: remote_endpoint() throws out *)
(* of the handler, before buildProtocol.                                   *)
CbConnectThrows ==
    /\ connectOp = "ok" /\ connection
    /\ connectOp' = "none"
    /\ thrown' = TRUE
    /\ UNCHANGED <<host, state, error, connection, resolveOp, timerVars, live,
                   portVars, retryVars, stoppedTrying, starts, unreported,
                   crashed>>

(* The attempt was aborted after its connect had succeeded: handleConnect  *)
(* follows a _connection that is null.                                     *)
CbConnectAborted ==
    /\ connectOp = "ok" /\ ~connection
    /\ connectOp' = "none"
    /\ crashed' = TRUE
    /\ UNCHANGED <<host, state, error, connection, resolveOp, timerVars, live,
                   portVars, retryVars, stoppedTrying, starts, unreported,
                   thrown>>

(* buildProtocol, which may call resetDelay, returns a protocol.           *)
CbConnectOk ==
    /\ connectOp = "ok" /\ connection
    /\ connectOp' = "none"
    /\ state' = "kConnected"
    /\ timer' = CancelTimeout(timer)
    /\ connection' = FALSE
    /\ live' = TRUE
    /\ \/ retries' = 0 /\ stoppedTrying' = FALSE /\ retryConnector' = FALSE
       \/ UNCHANGED <<retries, stoppedTrying, retryConnector>>
    /\ UNCHANGED <<host, error, resolveOp, lateTimers, portVars, retryTimer,
                   starts, unreported, faultVars>>

(* buildProtocol returns null: the connection is dropped and reported.     *)
CbConnectRefused ==
    /\ connectOp = "ok" /\ connection
    /\ connectOp' = "none"
    /\ timer' = CancelTimeout(timer)
    /\ connection' = FALSE
    /\ ConnectionLost
    /\ Retry
    /\ UNCHANGED <<host, error, resolveOp, lateTimers, live, stoppedTrying,
                   starts, faultVars>>

(* Mutant: the loss of one connection can be reported again.               *)
CbLostAgain ==
    /\ live
    /\ error' = "Sys"
    /\ ConnectionLost
    /\ Retry
    /\ UNCHANGED <<host, connection, resolveOp, connectOp, timerVars, live,
                   stoppedTrying, starts, faultVars>>

(* TCPClientConnection::closeSocket, with the reason of the transport.     *)
CbLost ==
    /\ live
    /\ live' = FALSE
    /\ error' = "Sys"
    /\ ConnectionLost
    /\ Retry
    /\ UNCHANGED <<host, connection, resolveOp, connectOp, timerVars,
                   stoppedTrying, starts, faultVars>>

(* Mutant: the timeout does not say why it aborts.                         *)
CbTimeoutUnexplained ==
    /\ \/ lateTimers > 0 /\ lateTimers' = lateTimers - 1 /\ UNCHANGED timer
       \/ timer = "fired" /\ timer' = "none" /\ UNCHANGED lateTimers
    /\ AbortConnecting
    /\ UNCHANGED <<host, error, live, portVars, retryVars, stoppedTrying,
                   starts, unreported, faultVars>>

(* handleTimeout looks neither at _state nor at which attempt is being     *)
(* made.                                                                   *)
CbTimeout ==
    /\ \/ lateTimers > 0 /\ lateTimers' = lateTimers - 1 /\ UNCHANGED timer
       \/ timer = "fired" /\ timer' = "none" /\ UNCHANGED lateTimers
    /\ error' = "Timeout"
    /\ AbortConnecting
    /\ UNCHANGED <<host, live, portVars, retryVars, stoppedTrying, starts,
                   unreported, faultVars>>

(* The lambda of retry.  startConnecting throws unless kDisconnected.  A    *)
(* timeout that has fired by then did so before the retry timer was even   *)
(* armed, and the reactor runs handlers that are ready first in first out. *)
CbRetry ==
    /\ retryTimer = "fired" /\ timer # "fired" /\ lateTimers = 0
    /\ retryTimer' = "none"
    /\ \/ state = "kDisconnected" /\ StartConnecting
       \/ /\ state # "kDisconnected"
          /\ thrown' = TRUE
          /\ UNCHANGED <<host, attemptVars, timerVars, live, portVars,
                         unreported, crashed>>
    /\ UNCHANGED <<retries, retryConnector, stoppedTrying, starts>>

-----------------------------------------------------------------------------

Application == Start \/ StopConnecting \/ StopTrying

Network == ResolveCompletes \/ ConnectCompletes \/ TimeoutExpires \/ RetryExpires

Handler ==
    \/ CbResolveFailed \/ CbResolveOk
    \/ CbConnectFailed \/ CbConnectThrows \/ CbConnectAborted
    \/ CbConnectOk \/ CbConnectRefused
    \/ CbLost \/ CbTimeout \/ CbRetry

Next == ~crashed /\ (Application \/ Network \/ Handler)

Spec == Init /\ [][Next]_vars

(* The kernel gives every connect a result in the end and timers expire;   *)
(* the reactor runs every handler that is ready.                           *)
ConnectorFairness ==
    /\ WF_vars(~crashed /\ ConnectCompletes)
    /\ WF_vars(~crashed /\ TimeoutExpires)
    /\ WF_vars(~crashed /\ CbConnectFailed)
    /\ WF_vars(~crashed /\ (CbConnectOk \/ CbConnectRefused \/ CbConnectThrows
                            \/ CbConnectAborted))
    /\ WF_vars(~crashed /\ CbTimeout)

-----------------------------------------------------------------------------
(* Properties.                                                             *)

FlagsOK ==
    /\ connection \in BOOLEAN /\ live \in BOOLEAN
    /\ factoryStarted \in BOOLEAN
    /\ retryConnector \in BOOLEAN /\ stoppedTrying \in BOOLEAN
    /\ thrown \in BOOLEAN /\ crashed \in BOOLEAN

ModesOK ==
    /\ host \in {"ip", "name"} /\ state \in States
    /\ error \in {"none", "UserAbort", "Timeout", "Sys"}
    /\ resolveOp \in Ops /\ connectOp \in Ops
    /\ timer \in Timers /\ retryTimer \in Timers

CountersOK ==
    /\ lateTimers \in 0..MaxStarts /\ starts \in 0..MaxStarts
    /\ numPorts \in Nat /\ retries \in Nat /\ unreported \in Nat

(* Every variable has its type.                                            *)
TypeOK == FlagsOK /\ ModesOK /\ CountersOK

(* At any time the connector is resolving, or connecting, or connected, or *)
(* waiting to retry, and never two of these: startConnecting, stop, the    *)
(* timeout, late timeouts and retry timers never make attempts overlap.    *)
OneAttempt ==
    /\ resolveOp # "none" => connectOp = "none" /\ ~live /\ retryTimer = "none"
    /\ connectOp # "none" => ~live /\ retryTimer = "none"
    /\ live => retryTimer = "none"

(* kConnecting means that an operation is outstanding whose handler will   *)
(* end the attempt, and kConnected that there is a connection whose loss   *)
(* will be reported, unless a handler threw half way.                      *)
StateIsKept ==
    /\ state = "kConnecting" /\ ~thrown /\ ~crashed =>
            resolveOp # "none" \/ connectOp # "none"
    /\ state = "kConnected" => live

(* handleResolve and handleConnect pass _error on when their operation was *)
(* aborted: it has always been set by then, to what aborted the attempt.   *)
AbortHasReason ==
    "aborted" \in {resolveOp, connectOp} => error \in {"UserAbort", "Timeout"}

(* The factory counts this connector exactly while an attempt has not been *)
(* reported failed or lost, whatever else uses the factory: doStart and    *)
(* doStop stay balanced on every path.                                     *)
FactoryBalanced ==
    /\ numPorts = OtherPorts + (IF factoryStarted THEN 1 ELSE 0)
    /\ unreported = (IF factoryStarted THEN 1 ELSE 0)

(* A disconnected client has a retry timer pending, unless its retries are *)
(* used up or the application called stopTrying.                           *)
KeepsTrying ==
    state = "kDisconnected" /\ starts > 0 =>
        retryTimer # "none" \/ retries > MaxRetries \/ stoppedTrying

(* What joins these invariants into one that every step preserves: where   *)
(* the operations, the connection and the timers can be in each state.     *)
Phases ==
    /\ state = "kDisconnected" =>
            resolveOp = "none" /\ connectOp = "none" /\ ~live /\ ~factoryStarted
    /\ live => state \in {"kConnected", "kDisconnecting"} /\ timer # "armed"
    /\ connection => state = "kConnecting"
    /\ retryTimer # "none" =>
            /\ state \in {"kDisconnected", "kDisconnecting"}
            /\ timer # "armed" /\ ~factoryStarted /\ starts > 0
    /\ factoryStarted => starts > 0
    /\ ~factoryStarted =>
            /\ resolveOp = "none" /\ connectOp = "none" /\ ~live
            /\ state \in {"kDisconnected", "kDisconnecting"}
            /\ timer # "armed"
    /\ resolveOp # "none" => ~connection

(* Every start leaves at most one expired timer behind.                    *)
TimersBounded == lateTimers + (IF timer = "none" THEN 0 ELSE 1) <= starts

Inv ==
    /\ TypeOK /\ OneAttempt /\ StateIsKept /\ AbortHasReason
    /\ FactoryBalanced /\ KeepsTrying
    /\ Phases /\ TimersBounded

(* Every attempt to reach an address ends: it connects or is reported,     *)
(* also when it is stopped or times out, unless a handler threw.           *)
AttemptEnds ==
    (host = "ip" /\ state = "kConnecting") ~>
        (state = "kConnected" \/ unreported = 0 \/ thrown \/ crashed)

(* README.md:232: a client of a ReconnectingClientFactory reconnects by    *)
(* itself.  So when a retry that was scheduled comes due, the connector    *)
(* takes it: its startConnecting does not throw.                           *)
RetryConnects ==
    [][retryTimer = "fired" /\ retryTimer' = "none" =>
            state' = "kConnecting"]_vars

(* stopTrying stops: until the application starts the connector again or a *)
(* subclass calls resetDelay, no further attempt is begun                  *)
(* (protocol.cpp:92, "Abandoning reconnect on explicit request").          *)
StopTryingStops ==
    [][stoppedTrying /\ stoppedTrying' => unreported' <= unreported]_vars
=============================================================================
