------------------------------- MODULE Network -------------------------------
(***************************************************************************)
(* The parts of the runtime around a connection, side by side for TLC:     *)
(* the task pool, a datagram connection, an SSL connection, and the        *)
(* connect of an endpoint.  They share no state, so a behaviour is of one  *)
(* of them, `part`, and the others stay as they began.                     *)
(***************************************************************************)
EXTENDS TaskPool, Datagram, SSLConnection, Endpoint

VARIABLE part

networkVars == <<part, poolVars, datagramVars, sslVars, endpointVars>>

NetworkInit ==
    /\ part \in {"pool", "datagram", "ssl", "endpoint"}
    /\ PoolInit /\ DatagramInit /\ SSLInit /\ EndpointInit
    /\ part # "pool" => pool
    /\ part # "datagram" => bound /\ peer
    /\ part # "endpoint" => host = "ip"

NetworkNext ==
    /\ UNCHANGED part
    /\ \/ part = "pool" /\ PoolNext
          /\ UNCHANGED <<datagramVars, sslVars, endpointVars>>
       \/ part = "datagram" /\ DatagramNext
          /\ UNCHANGED <<poolVars, sslVars, endpointVars>>
       \/ part = "ssl" /\ SSLNext
          /\ UNCHANGED <<poolVars, datagramVars, endpointVars>>
       \/ part = "endpoint" /\ EndpointNext
          /\ UNCHANGED <<poolVars, datagramVars, sslVars>>

(* Each part under the fairness its own module states and justifies.       *)
NetworkSpec ==
    /\ NetworkInit /\ [][NetworkNext]_networkVars
    /\ PoolFairness /\ SSLFairness /\ EndpointFairness
=============================================================================
