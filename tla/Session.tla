------------------------------- MODULE Session -------------------------------
(***************************************************************************)
(* What a WebSocket endpoint promises to the application that owns it      *)
(* (the callbacks of WebSocketProtocol, plugins/websocket/protocol.h):     *)
(* messages come only while the session is open and in the order the peer  *)
(* finished them, with none left out before the last; once one is refused  *)
(* none follows.  The end is reported at most once, and it is reported     *)
(* clean only if the peer sent a close frame and this side made one.       *)
(***************************************************************************)
EXTENDS Integers

VARIABLES
    phase,      \* "opening", "open", "closed"
    offered,    \* messages the peer has completed
    delivered,  \* messages handed to onMessage
    closes,     \* which close frames there have been: "made", "received"
    outcome     \* what onClose was told: "none" before it is called

vars == <<phase, offered, delivered, closes, outcome>>

Init ==
    /\ phase = "opening"
    /\ offered = 0 /\ delivered = 0
    /\ closes = {}
    /\ outcome = "none"

(* An application that refuses the connection may close what just opened. *)
Open ==
    /\ phase = "opening"
    /\ phase' = "open"
    /\ closes' \in {{}, {"made"}}
    /\ UNCHANGED <<offered, delivered, outcome>>

GiveUp ==
    /\ phase = "opening"
    /\ phase' = "closed"
    /\ UNCHANGED <<offered, delivered, closes, outcome>>

TakeMessage ==
    /\ phase = "open"
    /\ offered' = offered + 1
    /\ delivered' \in {delivered, offered'}
    /\ delivered' # delivered => delivered = offered
    /\ phase' \in {"open", "closed"}
    /\ closes \subseteq closes'
    /\ UNCHANGED outcome

ExchangeClose ==
    /\ phase = "open"
    /\ phase' \in {"open", "closed"}
    /\ closes \subseteq closes'
    /\ UNCHANGED <<offered, delivered, outcome>>

Report ==
    /\ outcome = "none"
    /\ phase' = "closed"
    /\ \/ outcome' = "clean" /\ closes = {"made", "received"}
       \/ outcome' = "unclean"
    /\ UNCHANGED <<offered, delivered, closes>>

Next == Open \/ GiveUp \/ TakeMessage \/ ExchangeClose \/ Report

Spec == Init /\ [][Next]_vars
=============================================================================
