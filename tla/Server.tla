------------------------------- MODULE Server -------------------------------
(***************************************************************************)
(* A reactor with its sub-reactors, each in a thread of its own            *)
(* (core/network/reactor.cpp, reactor.h), and a listener on it that hands  *)
(* accepted connections over to them (TCPListener of core/network/tcp.cpp; *)
(* SSLListener and UNIXListener are the same code for other sockets).      *)
(*                                                                         *)
(* Reactor 0 is the application's, 1..NumThreads are its _reactorPool.     *)
(* Handlers of one reactor run one at a time in its thread; a step is one  *)
(* handler, or as far as it gets before it calls the application, which    *)
(* may start and stop the listener from inside.                            *)
(***************************************************************************)
EXTENDS Integers, Sequences, FiniteSets

CONSTANTS
    NumThreads,   \* _numThreads
    MaxRuns,      \* bound: calls of run
    MaxListens,   \* bound: successful calls of startListening
    MaxStops,     \* bound: calls of stopListening
    MaxConns      \* bound: connections accepted

ASSUME ServerAssumption ==
    NumThreads \in Nat /\ MaxRuns \in Nat /\ MaxListens \in Nat
    /\ MaxStops \in Nat /\ MaxConns \in Nat

Subs == 1..NumThreads
Reactors == 0..NumThreads
Conns == 1..MaxConns

VARIABLES
    loop,          \* where the thread of each reactor is
    ioStopped,     \* _ioContext.stopped()
    posted,        \* connections handed over by addCallback, per reactor
    nextIndex,     \* _nextIndex, modulo NumThreads
    connected, disconnecting,   \* _connected, _disconnecting of the listener
    acceptorOpen,  \* _acceptor.is_open()
    accepts,       \* the accepts outstanding, or how they completed
    acceptFor,     \* the reactor of _connection
    held,          \* the last of accepts is that of _connection
    calling,       \* the callback reactor 0 is in, "none": in none
    deferred,      \* _deferred: the number of the stop that made it, 0: none
    local,         \* the one connectionLost has moved to its variable d
    serverPorts,   \* _numPorts of the factory
    conns,         \* ghost: what became of each connection
    fired,         \* ghost: Deferreds of stopListening that fired
    stops, runs, listens,
    slips,         \* ghost: how the listener was confused, see below
    stopAsked,     \* ghost: stop was called and nothing undid it
    stopLost       \* ghost: a stop threw, or a restart discarded it

reactorVars == <<loop, ioStopped, nextIndex, runs, stopAsked, stopLost>>
acceptVars == <<acceptorOpen, accepts, acceptFor, held>>
stopVars == <<connected, disconnecting, deferred, local, fired, serverPorts>>
listenerVars == <<acceptVars, stopVars, calling, conns, stops, listens, slips>>
serverVars == <<reactorVars, listenerVars, posted>>

ServerInit ==
    /\ loop = [r \in Reactors |-> "off"]
    /\ ioStopped = [r \in Reactors |-> FALSE]
    /\ posted = [r \in Reactors |-> <<>>]
    /\ nextIndex = 0
    /\ connected = FALSE /\ disconnecting = FALSE
    /\ acceptorOpen = FALSE /\ accepts = <<>> /\ acceptFor = 0 /\ held = FALSE
    /\ calling = "none"
    /\ deferred = 0 /\ local = 0 /\ serverPorts = 0
    /\ conns = [k \in Conns |-> "none"]
    /\ fired = {}
    /\ stops = 0 /\ runs = 0 /\ listens = 0 /\ slips = {}
    /\ stopAsked = FALSE /\ stopLost = FALSE

-----------------------------------------------------------------------------
(* The reactor.                                                            *)

(* A handler of r can run.                                                 *)
Turn(r) == loop[r] = "running" /\ ~ioStopped[r] /\ (r = 0 => calling = "none")

(* The application acts before run, in a handler of its own on reactor 0,  *)
(* or from inside a callback of the listener.                              *)
AppTurn == loop[0] = "off" \/ Turn(0) \/ (loop[0] = "running" /\ calling # "none")

(* run: a context that was stopped is restarted, whoever stopped it and    *)
(* when; the threads of the sub-reactors are created and will do the same. *)
Run ==
    /\ loop[0] = "off" /\ runs < MaxRuns
    /\ runs' = runs + 1
    /\ loop' = [r \in Reactors |-> IF r = 0 THEN "running" ELSE "starting"]
    /\ ioStopped' = [ioStopped EXCEPT ![0] = FALSE]
    /\ stopAsked' = FALSE
    /\ stopLost' = FALSE
    /\ UNCHANGED <<nextIndex, listenerVars, posted>>

(* The thread of a sub-reactor reaches the restart of its own run: a stop  *)
(* that came before it is gone.                                            *)
SubRun(s) ==
    /\ loop[s] = "starting"
    /\ loop' = [loop EXCEPT ![s] = "running"]
    /\ ioStopped' = [ioStopped EXCEPT ![s] = FALSE]
    /\ stopLost' = (stopLost \/ (stopAsked /\ ioStopped[s]))
    /\ UNCHANGED <<nextIndex, runs, stopAsked, listenerVars, posted>>

(* startRunning returns: the thread of a sub-reactor ends, run of reactor 0*)
(* goes on to join them.                                                   *)
LoopEnds(r) ==
    /\ loop[r] = "running" /\ ioStopped[r] /\ (r = 0 => calling = "none")
    /\ loop' = [loop EXCEPT ![r] = IF r = 0 THEN "joining" ELSE "off"]
    /\ UNCHANGED <<ioStopped, nextIndex, runs, stopAsked,
                   stopLost, listenerVars, posted>>

RunReturns ==
    /\ loop[0] = "joining" /\ \A s \in Subs : loop[s] = "off"
    /\ loop' = [loop EXCEPT ![0] = "off"]
    /\ UNCHANGED <<ioStopped, nextIndex, runs, stopAsked,
                   stopLost, listenerVars, posted>>

(* The sub-reactors that stop() reaches: it throws at the first that is    *)
(* stopped already, and then neither the later ones nor reactor 0 stop.    *)
Reached == {s \in Subs : \A t \in 1..s : ~ioStopped[t]}

(* Mutant: only the reactor itself is stopped.                             *)
StopAlone ==
    /\ AppTurn /\ ~ioStopped[0]
    /\ ioStopped' = [ioStopped EXCEPT ![0] = TRUE]
    /\ stopAsked' = TRUE
    /\ UNCHANGED <<loop, nextIndex, runs, stopLost, listenerVars, posted>>

(* stop, by a signal, by ReactorThread::stop or by the application.  Its   *)
(* callbacks may do what the application may.                              *)
Stop ==
    /\ AppTurn /\ ~ioStopped[0]
    /\ ioStopped' = [r \in Reactors |->
                        ioStopped[r] \/ r \in Reached
                            \/ (r = 0 /\ Reached = Subs)]
    /\ stopAsked' = TRUE
    /\ stopLost' = (stopLost \/ Reached # Subs)
    /\ UNCHANGED <<loop, nextIndex, runs, listenerVars, posted>>

(* A handler of a sub-reactor stops the reactor it runs in, which is the   *)
(* one a protocol's reactor() is.                                          *)
SubStop(s) ==
    /\ Turn(s)
    /\ ioStopped' = [ioStopped EXCEPT ![s] = TRUE]
    /\ UNCHANGED <<loop, nextIndex, runs, stopAsked, stopLost,
                   listenerVars, posted>>

(* selectReactor.                                                          *)
NextIndex == IF NumThreads = 0 THEN 0 ELSE (nextIndex + 1) % NumThreads
Selected == IF NumThreads = 0 THEN 0 ELSE 1 + NextIndex

-----------------------------------------------------------------------------
(* The listener.                                                           *)

(* doAccept, on an acceptor that may have been closed by the handler       *)
(* before: it then completes at once with an error that is not             *)
(* operation_aborted.  q are the accepts outstanding besides: _connection  *)
(* is the new one's.                                                       *)
DoAccept(q, open) ==
    /\ nextIndex' = NextIndex
    /\ acceptFor' = Selected
    /\ accepts' = Append(q, IF open THEN "pending" ELSE "failed")
    /\ held' = TRUE

(* The end of cbAccept: whatever _connection is by now, it is reset, and   *)
(* the listener accepts again if it is connected.                          *)
CbAcceptEnds(q, conn) ==
    /\ calling' = "none"
    /\ IF conn THEN DoAccept(q, acceptorOpen)
       ELSE accepts' = q /\ held' = FALSE /\ UNCHANGED <<nextIndex, acceptFor>>

(* An exception leaves cbAccept and is logged by the loop of the reactor.  *)
CbAcceptLeft(q) ==
    /\ calling' = "none"
    /\ accepts' = q
    /\ UNCHANGED <<nextIndex, acceptFor, held>>

(* A callback of the application is called in the middle of it.            *)
CallsBack(where, q) ==
    /\ calling' = where
    /\ accepts' = q
    /\ UNCHANGED <<nextIndex, acceptFor, held>>

(* startListening throws out of open, bind or listen; an acceptor it has   *)
(* opened stays open, and no later call gets past open.                    *)
StartThrows ==
    /\ AppTurn /\ ~acceptorOpen /\ listens < MaxListens
    /\ acceptorOpen' = TRUE
    /\ slips' = slips \union {x \in {"startedTwice"} : connected}
    /\ UNCHANGED <<reactorVars, accepts, acceptFor, held, stopVars, calling,
                   conns, stops, listens, posted>>

(* Accepts that a stop has aborted may still be queued.                    *)
StartListening ==
    /\ AppTurn /\ ~acceptorOpen /\ listens < MaxListens
    /\ listens' = listens + 1
    /\ acceptorOpen' = TRUE
    /\ serverPorts' = serverPorts + 1
    /\ connected' = TRUE
    /\ slips' = slips \union {x \in {"startedTwice"} : connected}
    /\ DoAccept(accepts, TRUE)
    /\ UNCHANGED <<loop, ioStopped, runs, stopAsked, stopLost, disconnecting,
                   deferred, local, fired, calling, conns, stops, posted>>

StopListening ==
    /\ AppTurn /\ stops < MaxStops
    /\ stops' = stops + 1
    /\ disconnecting' = TRUE
    /\ \/ /\ connected
          /\ deferred' = stops + 1
          /\ acceptorOpen' = FALSE
          /\ accepts' = [i \in DOMAIN accepts |->
                            IF accepts[i] = "pending" THEN "aborted" ELSE accepts[i]]
       \/ /\ ~connected
          /\ UNCHANGED <<deferred, acceptorOpen, accepts>>
    /\ slips' = slips \union
                  {x \in {"stoppedInside"} : connected /\ calling \in {"stopFactory", "errback"}}
    /\ UNCHANGED <<reactorVars, connected, acceptFor, held, local, serverPorts, calling,
                   conns, fired, listens, posted>>

(* The kernel completes the oldest accept.                                 *)
Completes(how) ==
    /\ \E i \in DOMAIN accepts :
        /\ accepts[i] = "pending" /\ \A j \in 1..(i - 1) : accepts[j] # "pending"
        /\ accepts' = [accepts EXCEPT ![i] = how]
    /\ UNCHANGED <<reactorVars, stopVars, acceptorOpen, acceptFor, held, calling,
                   conns, stops, listens, slips, posted>>

PeerConnects ==
    /\ Cardinality({i \in DOMAIN accepts : accepts[i] = "ok"})
            < Cardinality({k \in Conns : conns[k] = "none"})
    /\ Completes("ok")

AcceptFails == Completes("failed")

-----------------------------------------------------------------------------
(* cbAccept.                                                               *)

Handles(how) == Turn(0) /\ accepts # <<>> /\ Head(accepts) = how

(* The socket of an accept goes with its connection: when _connection was  *)
(* reset or replaced the accept that succeeds writes to what is gone.      *)
Orphan == Len(accepts) > 1 \/ ~held

(* Mutant: _disconnecting is reset before it is looked at.                 *)
AfterStopSilent(q, conn, d) ==
    /\ disconnecting' = FALSE
    /\ UNCHANGED fired
    /\ CbAcceptEnds(q, conn)

(* connectionLost after doStop: the Deferred d fires, and its callbacks    *)
(* run, unless the flag is down; it was fired by errback if stopFactory    *)
(* threw, and then callback throws.                                        *)
AfterStop(q, conn, d) ==
    /\ disconnecting' = FALSE
    /\ fired' = IF disconnecting /\ d # 0 THEN fired \cup {d} ELSE fired
    /\ CASE disconnecting /\ d # 0 /\ d \notin fired -> CallsBack("callback", q)
         [] disconnecting /\ d # 0 /\ d \in fired -> CbAcceptLeft(q)
         [] ~(disconnecting /\ d # 0) -> CbAcceptEnds(q, conn)

(* The accept was cancelled: connectionLost, up to the last port's         *)
(* stopFactory or, if this was not the last, past doStop.                  *)
CbAcceptAborted ==
    /\ Handles("aborted")
    /\ local' = deferred
    /\ deferred' = 0
    /\ connected' = FALSE
    /\ serverPorts' = IF serverPorts = 0 THEN 0 ELSE serverPorts - 1
    /\ slips' = slips \union {x \in {"lostTwice"} : Tail(accepts) # <<>>}
    /\ \/ /\ serverPorts = 1
          /\ CallsBack("stopFactory", Tail(accepts))
          /\ UNCHANGED <<disconnecting, fired>>
       \/ serverPorts # 1 /\ AfterStop(Tail(accepts), FALSE, deferred)
    /\ UNCHANGED <<loop, ioStopped, runs, stopAsked, stopLost, acceptorOpen,
                   conns, stops, listens, posted>>

StopFactoryReturns ==
    /\ calling = "stopFactory"
    /\ AfterStop(accepts, connected, local)

(* stopFactory throws: the Deferred then gets the error, or without one    *)
(* the exception leaves the handler.                                       *)
StopFactoryThrows ==
    /\ calling = "stopFactory"
    /\ disconnecting' = FALSE
    /\ IF local # 0
       THEN fired' = fired \cup {local} /\ CallsBack("errback", accepts)
       ELSE UNCHANGED fired /\ CbAcceptLeft(accepts)

ErrbackReturns ==
    /\ calling = "errback"
    /\ AfterStop(accepts, connected, local)

(* The callbacks of the Deferred, or connectionMade, return.               *)
CallbackReturns ==
    /\ calling \in {"callback", "connectionMade"}
    /\ CbAcceptEnds(accepts, connected)
    /\ UNCHANGED <<disconnecting, fired>>

ConnectionLostReturns ==
    /\ StopFactoryReturns \/ StopFactoryThrows \/ ErrbackReturns \/ CallbackReturns
    /\ UNCHANGED <<loop, ioStopped, runs, stopAsked, stopLost, acceptorOpen, connected,
                   deferred, local, serverPorts, conns, stops, listens, slips, posted>>

(* Mutant: any error ends the listener.                                    *)
CbAcceptFailedLost ==
    /\ Handles("failed")
    /\ connected' = FALSE
    /\ CbAcceptEnds(Tail(accepts), FALSE)
    /\ UNCHANGED <<loop, ioStopped, runs, stopAsked, stopLost, acceptorOpen,
                   disconnecting, deferred, local, fired, serverPorts, conns, stops, listens,
                   slips, posted>>

(* Another error is logged, and the listener accepts again.                *)
CbAcceptFailed ==
    /\ Handles("failed")
    /\ CbAcceptEnds(Tail(accepts), connected)
    /\ UNCHANGED <<loop, ioStopped, runs, stopAsked, stopLost, acceptorOpen, stopVars,
                   conns, stops, listens, slips, posted>>

(* A connection was accepted: its protocol is built.  An exception leaves  *)
(* the handler if the peer is gone when its address is asked for.  Nothing *)
(* accepts from then on.                                                   *)
CbAcceptOk ==
    /\ Handles("ok") /\ ~Orphan
    /\ \E k \in Conns :
        /\ conns[k] = "none" /\ \A j \in 1..(k - 1) : conns[j] # "none"
        /\ \/ /\ conns' = [conns EXCEPT ![k] = "building"]
              /\ CallsBack("buildProtocol", <<>>)
           \/ /\ conns' = [conns EXCEPT ![k] = "refused"]
              /\ CbAcceptLeft(<<>>)
    /\ UNCHANGED <<loop, ioStopped, runs, stopAsked, stopLost, acceptorOpen, stopVars,
                   stops, listens, slips, posted>>

(* cbAccept of the connection, here or in the thread of its reactor.       *)
HandOver(k) ==
    IF acceptFor = 0
    THEN /\ conns' = [conns EXCEPT ![k] = "made"]
         /\ CallsBack("connectionMade", accepts)
         /\ UNCHANGED posted
    ELSE /\ conns' = [conns EXCEPT ![k] = "posted"]
         /\ posted' = [posted EXCEPT ![acceptFor] = Append(@, k)]
         /\ CbAcceptEnds(accepts, connected)

(* The protocol may be refused (null), or buildProtocol throw.             *)
BuildProtocolReturns ==
    /\ calling = "buildProtocol"
    /\ \E k \in Conns :
        /\ conns[k] = "building"
        /\ \/ HandOver(k)
           \/ /\ conns' = [conns EXCEPT ![k] = "refused"]
              /\ CbAcceptEnds(accepts, connected) \/ CbAcceptLeft(accepts)
              /\ UNCHANGED posted
    /\ UNCHANGED <<loop, ioStopped, runs, stopAsked, stopLost, acceptorOpen, stopVars,
                   stops, listens, slips>>

ConnectionMadeThrows ==
    /\ calling = "connectionMade"
    /\ CbAcceptLeft(accepts)
    /\ UNCHANGED <<loop, ioStopped, runs, stopAsked, stopLost, acceptorOpen, stopVars,
                   conns, stops, listens, slips, posted>>

(* Undefined behaviour: the accepted socket belongs to nothing.  The code  *)
(* crashes, or throws for the address of a connection that is not there.   *)
CbAcceptOrphan ==
    /\ Handles("ok") /\ Orphan
    /\ \/ loop' = [r \in Reactors |-> "crashed"] /\ UNCHANGED <<nextIndex, acceptVars, calling>>
       \/ CbAcceptLeft(Tail(accepts)) /\ UNCHANGED <<loop, acceptorOpen>>
    /\ UNCHANGED <<ioStopped, runs, stopAsked, stopLost, stopVars, conns, stops, listens,
                   slips, posted>>

(* The callback handed over runs in the thread of the sub-reactor.         *)
SubCbAccept(s) ==
    /\ Turn(s) /\ posted[s] # <<>>
    /\ posted' = [posted EXCEPT ![s] = Tail(@)]
    /\ conns' = [conns EXCEPT ![Head(posted[s])] = "made"]
    /\ UNCHANGED <<reactorVars, acceptVars, stopVars, calling, stops, listens, slips>>

-----------------------------------------------------------------------------
CbAccept ==
    \/ CbAcceptAborted \/ ConnectionLostReturns \/ CbAcceptFailed
    \/ CbAcceptOk \/ BuildProtocolReturns \/ ConnectionMadeThrows \/ CbAcceptOrphan

ServerNext ==
    \/ Run \/ RunReturns \/ Stop
    \/ \E r \in Reactors : LoopEnds(r)
    \/ \E s \in Subs : SubRun(s) \/ SubStop(s) \/ SubCbAccept(s)
    \/ StartThrows \/ StartListening \/ StopListening
    \/ PeerConnects \/ AcceptFails \/ CbAccept

(* Threads are scheduled and each reactor runs the handlers that are ready.*)
ServerFairness ==
    /\ \A r \in Reactors : WF_serverVars(LoopEnds(r))
    /\ \A s \in Subs : WF_serverVars(SubRun(s)) /\ WF_serverVars(SubCbAccept(s))
    /\ WF_serverVars(RunReturns) /\ WF_serverVars(CbAccept)

ServerSpec == ServerInit /\ [][ServerNext]_serverVars /\ ServerFairness

-----------------------------------------------------------------------------
(* Properties.                                                             *)

(* Every variable has its type.                                            *)
ServerTypeOK ==
    /\ loop \in [Reactors -> {"off", "starting", "running", "joining", "crashed"}]
    /\ ioStopped \in [Reactors -> BOOLEAN]
    /\ posted \in [Reactors -> Seq(Conns)]
    /\ nextIndex \in Nat
    /\ connected \in BOOLEAN /\ disconnecting \in BOOLEAN
    /\ acceptorOpen \in BOOLEAN
    /\ accepts \in Seq({"pending", "ok", "failed", "aborted"})
    /\ acceptFor \in Reactors /\ held \in BOOLEAN
    /\ calling \in {"none", "buildProtocol", "connectionMade", "stopFactory", "errback", "callback"}
    /\ deferred \in Nat /\ local \in Nat /\ serverPorts \in Nat
    /\ conns \in [Conns -> {"none", "building", "refused", "posted", "made"}]
    /\ fired \subseteq Nat
    /\ stops \in Nat /\ runs \in Nat /\ listens \in Nat
    /\ stopAsked \in BOOLEAN /\ stopLost \in BOOLEAN
    /\ slips \subseteq {"startedTwice", "lostTwice", "stoppedInside"}

(* The factory is started exactly while its listener is connected, so a    *)
(* stop, a failed start or an error in between neither leaks a port nor    *)
(* stops the factory under a listener; and a Deferred never fires while an *)
(* accept it should have waited for is outstanding, nor twice.  It holds   *)
(* also when the listener is started again from inside stopFactory or the  *)
(* Deferred, and accepts twice, until one of the two accepts is cancelled  *)
(* (lostTwice).  Lost as well is a listener that is started while it is    *)
(* connected: an exception left it deaf, or a stop is still under way.     *)
StopIsClean ==
    /\ fired \subseteq 1..stops /\ deferred \notin fired
    /\ slips \intersect {"startedTwice", "lostTwice"} = {} =>
        /\ serverPorts = IF connected THEN 1 ELSE 0
        /\ deferred # 0 => connected /\ ~acceptorOpen
        /\ accepts # <<>> => connected

(* stop ends run, with all its threads, unless it was lost: thrown by a    *)
(* sub-reactor that had stopped itself, or discarded by one still starting.*)
StopEndsRun ==
    (stopAsked /\ loop[0] # "off") ~> (loop[0] \in {"off", "crashed"} \/ stopLost)

(* The Deferred of stopListening fires, while the reactor runs: unless a   *)
(* later stop replaced it, the listener was deaf already or was started    *)
(* while it was connected, its acceptor was closed with no accept to       *)
(* cancel, so that it retries for ever, or it stopped a listener that was  *)
(* started inside the same connectionLost, which puts _disconnecting down. *)
Deaf == connected /\ accepts = <<>> /\ calling = "none"
Spinning == ~acceptorOpen /\ accepts # <<>> /\ Head(accepts) \in {"failed", "ok"}
Confused == slips \intersect {"startedTwice", "stoppedInside"} # {}
Runs0 == loop[0] = "running" /\ ~ioStopped[0]
StopFires ==
    \A d \in 1..MaxStops :
        deferred = d ~> \/ d \in fired
                        \/ deferred \notin {0, d} /\ local # d
                        \/ ~Runs0 \/ Deaf \/ Spinning \/ Confused

(* What is stopped ends: run with its threads (reactor.cpp 57-66), and a    *)
(* listener with its Deferred (tcp.cpp 299-312).                           *)
StopCompletes == StopEndsRun /\ StopFires

=============================================================================
