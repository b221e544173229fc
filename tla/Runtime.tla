------------------------------ MODULE Runtime ------------------------------
(***************************************************************************)
(* The two ends a connection begins from, side by side for TLC: a          *)
(* connector that reconnects, and a listener with the reactors it hands    *)
(* connections to.  They share no state, so a behaviour is of one of them, *)
(* `part`, and the other stays as it began.                                *)
(***************************************************************************)
EXTENDS Connector, Server

VARIABLE part

runtimeVars == <<part, vars, serverVars>>

RuntimeInit ==
    /\ part \in {"connector", "server"}
    /\ Init /\ ServerInit
    /\ part # "connector" => host = (CHOOSE h \in Hosts : TRUE)

RuntimeNext ==
    /\ UNCHANGED part
    /\ \/ part = "connector" /\ Next /\ UNCHANGED serverVars
       \/ part = "server" /\ ServerNext /\ UNCHANGED vars

(* Each part under the fairness its own module states and justifies.       *)
RuntimeSpec ==
    /\ RuntimeInit /\ [][RuntimeNext]_runtimeVars
    /\ ConnectorFairness /\ ServerFairness
=============================================================================
