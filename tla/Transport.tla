------------------------------ MODULE Transport ------------------------------
(***************************************************************************)
(* What the Connection interface of core/network/base.h promises to a      *)
(* protocol about the bytes it writes, whichever transport is behind it:   *)
(* bytes are taken only while the connection is open, they leave in the    *)
(* order they were taken, none twice and none skipped, the loss of the     *)
(* connection is final, and a connection that ends because the application *)
(* asked for a safe close (loseConnection) has sent everything it took.    *)
(***************************************************************************)
EXTENDS Integers

VARIABLES
    phase,     \* "new", "open", "closing", "closed"
    accepted,  \* bytes taken from the application
    sent,      \* bytes handed to the kernel, a prefix of the accepted ones
    reason     \* why the connection ended: "none" until it is closed

vars == <<phase, accepted, sent, reason>>

Init == phase = "new" /\ accepted = 0 /\ sent = 0 /\ reason = "none"

Open ==
    /\ phase = "new"
    /\ phase' = "open"
    /\ UNCHANGED <<accepted, sent, reason>>

(* A write may transfer at once, and may find that the connection is gone. *)
Accept ==
    /\ phase = "open"
    /\ accepted' \in Nat /\ accepted' > accepted
    /\ sent' \in sent..accepted'
    /\ phase' \in {"open", "closing"}
    /\ UNCHANGED reason

Transfer ==
    /\ phase \in {"open", "closing"}
    /\ sent' \in sent..accepted
    /\ phase' \in {phase, "closing"}
    /\ UNCHANGED <<accepted, reason>>

Close ==
    /\ phase \in {"open", "closing"}
    /\ phase' = "closed"
    /\ \/ reason' = "graceful" /\ sent = accepted
       \/ reason' = "broken"
    /\ UNCHANGED <<accepted, sent>>

Next == Open \/ Accept \/ Transfer \/ Close

Spec == Init /\ [][Next]_vars
=============================================================================
