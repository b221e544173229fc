------------------------------ MODULE IOStream ------------------------------
(***************************************************************************)
(* What the two ends of HTTP share of IOStream: at most one pending read,  *)
(* and a buffer it is looked for in.  A state is a record with the fields  *)
(* state, want, buffer, posted and asserted; an octet is a pair            *)
(* <<what, number>>, and a header block its start and its blank line.      *)
(***************************************************************************)
EXTENDS Integers, Sequences

NoRead == [kind |-> "none", n |-> 0]
Line == << <<"cr", 0>>, <<"lf", 0>> >>

(* Octets up to the end of the first match, or 0.                          *)
UpTo(b, P(_)) ==
    IF \E i \in 1..Len(b) : P(i)
    THEN CHOOSE i \in 1..Len(b) : P(i) /\ \A j \in 1..(i - 1) : ~P(j)
    ELSE 0

FindReadPos(w, b) ==
    CASE w.kind = "bytes" -> IF Len(b) >= w.n THEN w.n ELSE 0
      [] w.kind = "until" -> UpTo(b, LAMBDA i : i > 1 /\ b[i - 1][1] = "cr" /\ b[i][1] = "lf")
      [] w.kind = "regex" -> UpTo(b, LAMBDA i : b[i][1] = "end")
      [] OTHER -> 0

(* Mutant: the octets being handled are not counted.                       *)
ReadBehind(s, state, w) ==
    [s EXCEPT !.state = state, !.want = w, !.asserted = @ \/ s.want # NoRead]

(* A read that the buffer satisfies (octets being handled included, they   *)
(* are consumed later) is posted to the reactor.                           *)
Read(s, state, w) ==
    [s EXCEPT !.state = state, !.want = w, !.asserted = @ \/ s.want # NoRead,
              !.posted = @ + (IF FindReadPos(w, s.buffer) > 0 THEN 1 ELSE 0)]
=============================================================================
