------------------------------ MODULE Datagram ------------------------------
(***************************************************************************)
(* A UDPConnection (core/network/udp.cpp, udp.h, DatagramConnection of     *)
(* base.cpp) with its DatagramProtocol (core/network/protocol.h): start,   *)
(* read, stop, start again.  UNIXDatagramConnection is a copy whose socket *)
(* is opened by its constructor and never again.                           *)
(*                                                                         *)
(* A step is a handler, or as far as it gets before it calls the           *)
(* application, which may do inside whatever it may do outside: `handling` *)
(* is the callback a handler is in, and `starting` tells that              *)
(* startListening has called startProtocol, from there or from outside.    *)
(***************************************************************************)
EXTENDS Integers

CONSTANTS
    MaxDatagrams,   \* bound: datagrams received
    MaxDatagramStops, MaxDatagramStarts   \* bounds: calls

ASSUME DatagramAssumption ==
    MaxDatagrams \in Nat /\ MaxDatagramStops \in Nat /\ MaxDatagramStarts \in Nat

VARIABLES
    bound,           \* it has a _bindAddress
    peer,            \* it has a _connectedAddress
    sockOpen,        \* _socket.is_open()
    dgConnected,     \* _connected
    dgReading,       \* _reading
    recvOp,          \* the async_receive_from, or how it completed
    dgDeferred,      \* _d: the number of the stop that made it, 0: none
    ports,           \* _numPorts of the protocol
    transport,       \* the protocol has a _transport
    handling,        \* the callback cbRead is in, "none": in none
    starting,        \* startListening is in startProtocol
    dgFired,         \* ghost: Deferreds that fired
    dgSlips,         \* ghost: what the end does not undo, see below
    received, dgStops, dgStarts

protocolVars == <<ports, transport, dgConnected, dgReading>>
callbackVars == <<handling, starting>>
datagramVars == <<bound, peer, sockOpen, recvOp, protocolVars, dgDeferred, callbackVars,
                  dgFired, dgSlips, received, dgStops, dgStarts>>

(* listenUDP binds; connectUDP names a peer and may bind.                  *)
DatagramInit ==
    /\ bound \in BOOLEAN /\ peer \in BOOLEAN /\ (bound \/ peer)
    /\ sockOpen = FALSE /\ dgConnected = FALSE /\ dgReading = FALSE
    /\ recvOp = "none"
    /\ dgDeferred = 0 /\ ports = 0 /\ transport = FALSE
    /\ handling = "none" /\ starting = FALSE
    /\ dgFired = {} /\ dgSlips = {}
    /\ received = 0 /\ dgStops = 0 /\ dgStarts = 0

-----------------------------------------------------------------------------
(* What the application does, from outside or from inside a callback.      *)

(* loseConnection closes a socket that reads, and no other; that cancels   *)
(* an operation that has not completed.                                    *)
LoseConnection ==
    IF dgReading /\ sockOpen
    THEN sockOpen' = FALSE /\ recvOp' = IF recvOp = "pending" THEN "aborted" ELSE recvOp
    ELSE UNCHANGED <<sockOpen, recvOp>>

LoseConnectionNow ==
    /\ LoseConnection
    /\ UNCHANGED <<bound, peer, protocolVars, dgDeferred, callbackVars, dgFired, dgSlips,
                   received, dgStops, dgStarts>>

(* stopListening makes a Deferred if a bind ever succeeded, whatever is    *)
(* left to wait for.                                                       *)
StopListeningNow ==
    /\ dgStops < MaxDatagramStops
    /\ dgStops' = dgStops + 1
    /\ dgDeferred' = IF dgConnected THEN dgStops + 1 ELSE dgDeferred
    /\ LoseConnection
    /\ UNCHANGED <<bound, peer, protocolVars, callbackVars, dgFired, dgSlips, received, dgStarts>>

(* connect names the peer of a socket, once, and the socket layer opens it *)
(* if it is closed; connecting may fail, which leaves the peer named.      *)
Connect ==
    /\ ~peer
    /\ peer' = TRUE
    /\ sockOpen' \in {sockOpen, TRUE}
    /\ dgSlips' = dgSlips \union {x \in {"reopened"} : sockOpen' # sockOpen}
    /\ UNCHANGED <<bound, recvOp, protocolVars, dgDeferred, callbackVars, dgFired,
                   received, dgStops, dgStarts>>

(* write sends at once; without a peer it opens a socket that is closed.   *)
WriteDatagram ==
    /\ ~peer /\ ~sockOpen
    /\ sockOpen' = TRUE
    /\ dgSlips' = dgSlips \union {"reopened"}
    /\ UNCHANGED <<bound, peer, recvOp, protocolVars, dgDeferred, callbackVars, dgFired,
                   received, dgStops, dgStarts>>

(* doRead: on a closed socket the operation fails at once, with an error   *)
(* that is not operation_aborted.                                          *)
DoRead == recvOp' = IF sockOpen THEN "pending" ELSE "failed"
ReadOn == IF dgReading THEN DoRead ELSE UNCHANGED recvOp

(* startListening, of a protocol that has no transport (makeConnection     *)
(* asserts it): bind, which opens the socket and so throws if it is open,  *)
(* connect, makeConnection, which calls startProtocol.                     *)
StartListeningOk ==
    /\ ~transport /\ (bound => ~sockOpen) /\ dgStarts < MaxDatagramStarts
    /\ dgStarts' = dgStarts + 1
    /\ sockOpen' = TRUE
    /\ dgConnected' = (dgConnected \/ bound)
    /\ transport' = TRUE
    /\ dgSlips' = dgSlips \union {x \in {"restarted"} : handling # "none"}
    /\ starting' = TRUE
    /\ UNCHANGED <<bound, peer, recvOp, dgReading, ports, dgDeferred, handling, dgFired,
                   received, dgStops>>

(* An exception of bind or connect is reported to connectionFailed, last:  *)
(* what the step before it has done stays.                                 *)
StartListeningFails ==
    /\ ~transport /\ dgStarts < MaxDatagramStarts
    /\ dgStarts' = dgStarts + 1
    /\ sockOpen' \in {sockOpen, TRUE}
    /\ dgConnected' \in {dgConnected, dgConnected \/ (bound /\ peer /\ sockOpen' # sockOpen)}
    /\ dgSlips' = dgSlips \union {"startFailed"}
    /\ UNCHANGED <<bound, peer, recvOp, dgReading, ports, transport, dgDeferred, callbackVars,
                   dgFired, received, dgStops>>

(* The rest of doStart and startReading.                                   *)
StartProtocolReturns ==
    /\ starting /\ starting' = FALSE
    /\ ports' = ports + 1
    /\ dgReading' = TRUE
    /\ IF dgReading THEN UNCHANGED recvOp ELSE DoRead
    /\ UNCHANGED <<bound, peer, sockOpen, dgConnected, transport, dgDeferred, handling,
                   dgFired, dgSlips, received, dgStops, dgStarts>>

(* startProtocol throws: the transport stays with a protocol not started.  *)
StartProtocolThrows ==
    /\ starting /\ starting' = FALSE
    /\ dgSlips' = dgSlips \union {"startFailed"}
    /\ UNCHANGED <<bound, peer, sockOpen, recvOp, protocolVars, dgDeferred, handling,
                   dgFired, received, dgStops, dgStarts>>

-----------------------------------------------------------------------------
(* The kernel.                                                             *)
ReceiveCompletes ==
    /\ recvOp = "pending" /\ received < MaxDatagrams
    /\ received' = received + 1
    /\ recvOp' \in {"data", "failed"}
    /\ UNCHANGED <<bound, peer, sockOpen, protocolVars, dgDeferred, callbackVars, dgFired,
                   dgSlips, dgStops, dgStarts>>

-----------------------------------------------------------------------------
(* cbRead.                                                                 *)

Idle == handling = "none" /\ ~starting
Inside(f) == handling = f /\ ~starting

(* An aborted read is the end: doStop asserts that the protocol is started.*)
CbReadAborted ==
    /\ Idle /\ recvOp = "aborted"
    /\ recvOp' = "none"
    /\ ports' = ports - 1
    /\ handling' = "stopProtocol"
    /\ UNCHANGED <<bound, peer, sockOpen, transport, dgConnected, dgReading, dgDeferred,
                   starting, dgFired, dgSlips, received, dgStops, dgStarts>>

(* stopProtocol throws: what should follow it does not.                    *)
StopProtocolThrows ==
    /\ Inside("stopProtocol") /\ handling' = "none"
    /\ dgSlips' = dgSlips \union {"stopThrew"}
    /\ UNCHANGED <<bound, peer, sockOpen, recvOp, protocolVars, dgDeferred, starting, dgFired,
                   received, dgStops, dgStarts>>

(* Mutant: _reading is left set, and the read is started again.            *)
LostEndsReadsOn ==
    /\ handling' = "none"
    /\ UNCHANGED dgReading
    /\ DoRead

(* connectionLost has returned: _reading is put down.                      *)
LostEnds ==
    /\ handling' = "none"
    /\ dgReading' = FALSE
    /\ UNCHANGED recvOp

(* Then the Deferred of the last stopListening fires, and runs its         *)
(* callbacks, which may start the connection again.                        *)
StopProtocolReturns ==
    /\ Inside("stopProtocol")
    /\ transport' = FALSE
    /\ IF dgDeferred = 0
       THEN LostEnds /\ UNCHANGED dgFired
       ELSE /\ dgFired' = dgFired \cup {dgDeferred}
            /\ handling' = "callback"
            /\ UNCHANGED <<dgReading, recvOp>>
    /\ UNCHANGED <<bound, peer, sockOpen, dgConnected, ports, dgDeferred, starting, dgSlips,
                   received, dgStops, dgStarts>>

(* _d is reset, be it another one by now.                                  *)
DeferredReturns ==
    /\ Inside("callback")
    /\ dgDeferred' = 0
    /\ LostEnds
    /\ UNCHANGED <<bound, peer, sockOpen, dgConnected, ports, transport, starting, dgFired,
                   dgSlips, received, dgStops, dgStarts>>

(* datagramReceived is called, and connectionRefused if there is a peer;   *)
(* the application may close or stop in it, while no operation is there to *)
(* be cancelled.                                                           *)
CbReadOther ==
    /\ Idle /\ recvOp \in {"data", "failed"}
    /\ IF recvOp = "data" \/ peer
       THEN recvOp' = "none" /\ handling' = "handleRead"
       ELSE ReadOn /\ UNCHANGED handling
    /\ UNCHANGED <<bound, peer, sockOpen, protocolVars, dgDeferred, starting, dgFired, dgSlips,
                   received, dgStops, dgStarts>>

HandleReadReturns ==
    /\ Inside("handleRead") /\ handling' = "none"
    /\ ReadOn
    /\ UNCHANGED <<bound, peer, sockOpen, protocolVars, dgDeferred, starting, dgFired, dgSlips,
                   received, dgStops, dgStarts>>

(* An exception ends the handler without another read.                     *)
HandleReadThrows ==
    /\ Inside("handleRead") /\ handling' = "none"
    /\ UNCHANGED <<bound, peer, sockOpen, recvOp, protocolVars, dgDeferred, starting, dgFired,
                   dgSlips, received, dgStops, dgStarts>>

CbRead ==
    \/ CbReadAborted \/ StopProtocolReturns \/ StopProtocolThrows \/ DeferredReturns
    \/ CbReadOther \/ HandleReadReturns \/ HandleReadThrows

-----------------------------------------------------------------------------
DatagramNext ==
    \/ StartListeningOk \/ StartListeningFails \/ StartProtocolReturns \/ StartProtocolThrows
    \/ StopListeningNow \/ LoseConnectionNow \/ Connect \/ WriteDatagram
    \/ ReceiveCompletes \/ CbRead

DatagramSpec == DatagramInit /\ [][DatagramNext]_datagramVars

-----------------------------------------------------------------------------
(* Properties.                                                             *)

Lasting == dgSlips \intersect {"startFailed", "stopThrew", "restarted"} = {}

(* An operation is outstanding only for a started protocol, so that doStop *)
(* never meets its assertion; a Deferred of stopListening fires once, and  *)
(* not before the protocol is stopped; and between handlers the protocol   *)
(* has its port exactly while the connection reads or should, and its      *)
(* socket is closed when it has none.  The last part is lost for good when *)
(* a start fails half way, stopProtocol throws or the Deferred starts the  *)
(* connection again (_reading is put down after it), and for the socket    *)
(* when a write or a connect opens a closed one.                           *)
DatagramStopIsClean ==
    /\ ports \in {0, 1}
    /\ recvOp # "none" => ports = 1 /\ dgReading
    /\ recvOp = "pending" => sockOpen
    /\ dgDeferred \in dgFired => handling = "callback"
    /\ Idle /\ Lasting =>
        /\ ports = 1 <=> dgReading
        /\ ports = 0 /\ "reopened" \notin dgSlips => ~sockOpen
=============================================================================
