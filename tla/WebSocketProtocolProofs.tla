---------------------- MODULE WebSocketProtocolProofs ----------------------
(***************************************************************************)
(* Theorems about WebSocketProtocol, for any sizes, limits, timers and     *)
(* numbers of frames: its invariants, and that it implements Session.      *)
(***************************************************************************)
EXTENDS WebSocketProtocol, SequenceTheorems, TLAPS

Fields == {"state", "up", "wasClean", "reason", "droppedByMe", "closedByMe",
           "failedByMe", "armed", "due", "queue", "made", "wire", "triggered",
           "sends", "closeId", "closeSeen", "pinged"}

(* The types that the argument needs.                                      *)
Types(c) ==
    /\ DOMAIN c = Fields
    /\ c.state \in States /\ c.failedByMe \in BOOLEAN /\ c.triggered \in BOOLEAN
    /\ c.droppedByMe \in BOOLEAN
    /\ c.made \in Nat /\ c.closeId \in Nat /\ c.sends \in {0, 1}
    /\ c.queue \in Seq(Nat) /\ c.wire \in Seq(Nat)

(* The wire w and the queue q hold the frames up to n, by their numbers.   *)
Whole(w, q, n) ==
    /\ w \in Seq(Nat) /\ q \in Seq(Nat) /\ n \in Nat
    /\ Len(w) + Len(q) = n
    /\ \A i \in 1..Len(w) : w[i] = i
    /\ \A i \in 1..Len(q) : q[i] = Len(w) + i

(* The wire w holds the first frames.                                      *)
Prefix(w) == \A i \in 1..Len(w) : w[i] = i

(* The transport takes what is written.                                    *)
Live(c) == c.state # "CLOSED" /\ ~c.droppedByMe

Ordered(c) ==
    /\ Live(c) => Whole(c.wire, c.queue, c.made)
    /\ Prefix(c.wire)

(* Nothing is made after the close frame, because it ends OPEN.            *)
Final(c) == c.closeId # 0 => c.closeId = c.made /\ c.state \in {"CLOSING", "CLOSED"}

Served(c) ==
    /\ c.queue # <<>> => c.triggered
    /\ c.sends = (IF c.triggered THEN 1 ELSE 0)

Sound(c) == Types(c) /\ Ordered(c) /\ Final(c) /\ Served(c)

(* A method leaves a sound state, never takes a failure back and never     *)
(* returns to the opening handshake.                                       *)
Leads(c, d) ==
    /\ Sound(d)
    /\ c.failedByMe => d.failedByMe
    /\ c.state \notin Opening => d.state \notin Opening

(* A message that is too long has failed the connection, and everything    *)
(* delivered is deliverable.                                               *)
LimitKept ==
    /\ DOMAIN message = {"size", "text", "rejected"} /\ message.size \in Nat
    /\ Exceeds(MaxMessageSize, message.size) => conn.failedByMe

Configured == config.failByDrop \in BOOLEAN /\ config.role \in {"server", "client", "proxied"}

Deliverable == {m \in [size : Nat, valid : {TRUE}] : ~Exceeds(MaxMessageSize, m.size)}

Collected == delivered \in Seq(Deliverable)

WebSocketInv == Configured /\ Sound(conn) /\ LimitKept /\ Collected

-----------------------------------------------------------------------------
(* The sequences alone.                                                    *)
LEMMA QueueGrows ==
    ASSUME NEW w, NEW q, NEW n, Whole(w, q, n)
    PROVE  Whole(w, Append(q, n + 1), n + 1) /\ Append(q, n + 1) # <<>>
<1> DEFINE r == Append(q, n + 1)
<1>1. /\ r \in Seq(Nat) /\ Len(r) = Len(q) + 1 /\ r[Len(q) + 1] = n + 1
      /\ \A i \in 1..Len(q) : r[i] = q[i]
  BY DEF Whole
<1> HIDE DEF r
<1>2. Len(w) \in Nat /\ Len(q) \in Nat /\ Len(w) + Len(q) = n
  BY DEF Whole
<1>3. r # <<>>
  BY <1>1, <1>2
<1>4. ASSUME NEW i \in 1..Len(r) PROVE r[i] = Len(w) + i
  <2>1. CASE i = Len(q) + 1
    BY <1>1, <1>2, <2>1
  <2>2. CASE i \in 1..Len(q)
    BY <1>1, <2>2 DEF Whole
  <2> QED BY <1>1, <1>2, <2>1, <2>2
<1>5. Len(w) + Len(r) = n + 1
  BY <1>1, <1>2
<1>6. /\ w \in Seq(Nat) /\ n + 1 \in Nat
      /\ \A i \in 1..Len(w) : w[i] = i
  BY DEF Whole
<1>7. Whole(w, r, n + 1)
  BY <1>1, <1>4, <1>5, <1>6 DEF Whole
<1> QED BY <1>3, <1>7 DEF r

LEMMA WireGrows ==
    ASSUME NEW w, NEW q, NEW n, Whole(w, q, n), q = <<>>
    PROVE  Whole(Append(w, n + 1), q, n + 1)
<1> DEFINE r == Append(w, n + 1)
<1>1. /\ r \in Seq(Nat) /\ Len(r) = Len(w) + 1 /\ r[Len(w) + 1] = n + 1
      /\ \A i \in 1..Len(w) : r[i] = w[i]
  BY DEF Whole
<1> HIDE DEF r
<1>2. Len(w) \in Nat /\ Len(q) = 0 /\ Len(w) = n
  BY DEF Whole
<1>3. ASSUME NEW i \in 1..Len(r) PROVE r[i] = i
  <2>1. CASE i = Len(w) + 1
    BY <1>1, <1>2, <2>1
  <2>2. CASE i \in 1..Len(w)
    BY <1>1, <2>2 DEF Whole
  <2> QED BY <1>1, <1>2, <2>1, <2>2
<1>4. Len(r) + Len(q) = n + 1
  BY <1>1, <1>2
<1> QED BY <1>1, <1>2, <1>3, <1>4 DEF Whole, r

LEMMA QueueSent ==
    ASSUME NEW w, NEW q, NEW n, Whole(w, q, n), q # <<>>
    PROVE  Whole(Append(w, Head(q)), Tail(q), n)
<1> DEFINE r == Append(w, Head(q))
           t == Tail(q)
<1>1. Len(w) \in Nat /\ Len(q) \in Nat \ {0} /\ Len(w) + Len(q) = n
  BY DEF Whole
<1>2. Head(q) = q[1] /\ q[1] = Len(w) + 1
  BY <1>1 DEF Whole
<1>3. t \in Seq(Nat) /\ Len(t) = Len(q) - 1 /\ \A i \in 1..Len(t) : t[i] = q[i + 1]
  BY <1>1 DEF Whole
<1>4. /\ r \in Seq(Nat) /\ Len(r) = Len(w) + 1 /\ r[Len(w) + 1] = Len(w) + 1
      /\ \A i \in 1..Len(w) : r[i] = w[i]
  BY <1>1, <1>2 DEF Whole
<1> HIDE DEF r, t
<1>5. ASSUME NEW i \in 1..Len(r) PROVE r[i] = i
  <2>1. CASE i = Len(w) + 1
    BY <1>1, <1>4, <2>1
  <2>2. CASE i \in 1..Len(w)
    BY <1>4, <2>2 DEF Whole
  <2> QED BY <1>1, <1>4, <2>1, <2>2
<1>6. ASSUME NEW i \in 1..Len(t) PROVE t[i] = Len(r) + i
  <2>1. i + 1 \in 1..Len(q)
    BY <1>1, <1>3
  <2>2. t[i] = Len(w) + (i + 1)
    BY <1>3, <2>1 DEF Whole
  <2> QED BY <1>1, <1>4, <2>2
<1>7. Len(r) + Len(t) = n
  BY <1>1, <1>3, <1>4
<1> QED BY <1>3, <1>4, <1>5, <1>6, <1>7 DEF Whole, r, t

LEMMA WholeIsPrefix ==
    ASSUME NEW w, NEW q, NEW n, Whole(w, q, n)
    PROVE  Prefix(w)
BY DEF Whole, Prefix

LEMMA WholeIsEverything ==
    ASSUME NEW w, NEW q, NEW n, Whole(w, q, n)
    PROVE  w \o q = [i \in 1..n |-> i]
<1> DEFINE r == w \o q
<1>1. Len(w) \in Nat /\ Len(q) \in Nat /\ Len(w) + Len(q) = n
  BY DEF Whole
<1>2. r \in Seq(Nat) /\ Len(r) = n
  BY <1>1 DEF Whole
<1>3. ASSUME NEW i \in 1..n PROVE r[i] = i
  <2>1. CASE i \in 1..Len(w)
    <3>1. r[i] = w[i]
      BY <1>1, <2>1 DEF Whole
    <3> QED BY <2>1, <3>1 DEF Whole
  <2>2. CASE i > Len(w)
    <3>1. i - Len(w) \in 1..Len(q)
      BY <1>1, <2>2
    <3>2. r[i] = q[i - Len(w)]
      BY <1>1, <2>2 DEF Whole
    <3>3. q[i - Len(w)] = Len(w) + (i - Len(w))
      BY <3>1 DEF Whole
    <3> QED BY <1>1, <3>2, <3>3
  <2> QED BY <1>1, <2>1, <2>2
<1> HIDE DEF r
<1>4. r = [i \in 1..Len(r) |-> r[i]]
  BY <1>2
<1> QED BY <1>2, <1>3, <1>4 DEF r

-----------------------------------------------------------------------------
LEMMA LeadsOn ==
    ASSUME NEW c, NEW d, NEW e, Leads(c, d), Leads(d, e)
    PROVE  Leads(c, e)
BY DEF Leads

(* What changes no frame.                                                  *)
SameFrames(c, d) ==
    /\ d.made = c.made /\ d.wire = c.wire /\ d.queue = c.queue
    /\ d.triggered = c.triggered /\ d.sends = c.sends /\ d.closeId = c.closeId
    /\ d.droppedByMe \in {c.droppedByMe, TRUE}

LEMMA FramesKept ==
    ASSUME NEW c, NEW d, Sound(c), DOMAIN d = Fields, SameFrames(c, d),
           d.state \in States, d.failedByMe \in BOOLEAN,
           c.failedByMe => d.failedByMe,
           c.state = "CLOSED" => d.state = "CLOSED" \/ d.droppedByMe,
           c.closeId # 0 => d.state \in {"CLOSING", "CLOSED"},
           c.state \notin Opening => d.state \notin Opening
    PROVE  Leads(c, d)
<1>1. Types(d)
  BY DEF Sound, Types, SameFrames
<1>2. Ordered(d)
  <2>1. Live(d) => Live(c)
    BY DEF Live, Sound, Types, SameFrames
  <2> QED BY <2>1 DEF Sound, Ordered, SameFrames
<1>3. Final(d) /\ Served(d)
  BY DEF Sound, Final, Served, SameFrames
<1> QED BY <1>1, <1>2, <1>3 DEF Leads, Sound

-----------------------------------------------------------------------------
(* Timers.                                                                 *)
LEMMA ArmLeads ==
    ASSUME NEW c, NEW t, Sound(c)
    PROVE  Leads(c, Arm(c, t)) /\ Arm(c, t).state = c.state /\ SameFrames(c, Arm(c, t))
<1> DEFINE d == Arm(c, t)
<1>1. DOMAIN d = Fields /\ SameFrames(c, d) /\ d.state = c.state /\ d.failedByMe = c.failedByMe
  BY DEF Sound, Types, Fields, Arm, SameFrames
<1>2. Leads(c, d)
  <2> QED BY <1>1, FramesKept DEF Sound, Types, Final
<1> QED BY <1>1, <1>2

LEMMA CancelLeads ==
    ASSUME NEW c, NEW t, Sound(c)
    PROVE  Leads(c, Cancel(c, t)) /\ Cancel(c, t).state = c.state /\ SameFrames(c, Cancel(c, t))
<1> DEFINE d == Cancel(c, t)
<1>1. DOMAIN d = Fields /\ SameFrames(c, d) /\ d.state = c.state /\ d.failedByMe = c.failedByMe
  BY DEF Sound, Types, Fields, Cancel, SameFrames
<1>2. Leads(c, d)
  <2> QED BY <1>1, FramesKept DEF Sound, Types, Final
<1> QED BY <1>1, <1>2

LEMMA FiredLeads ==
    ASSUME NEW c, NEW t, Sound(c)
    PROVE  Leads(c, Fired(c, t)) /\ Fired(c, t).state = c.state
<1> DEFINE d == Fired(c, t)
<1>1. DOMAIN d = Fields /\ SameFrames(c, d) /\ d.state = c.state /\ d.failedByMe = c.failedByMe
  BY DEF Sound, Types, Fields, Fired, Cancel, SameFrames
<1>2. Leads(c, d)
  <2> QED BY <1>1, FramesKept DEF Sound, Types, Final
<1> QED BY <1>1, <1>2

-----------------------------------------------------------------------------
(* Writing.  The one call of send that is owed finds the queue as it is:   *)
(* it pays for itself.  What is written does not change where the          *)
(* connection is.                                                          *)
SamePlace(c, d) ==
    d.state = c.state /\ d.closeId = c.closeId /\ d.droppedByMe = c.droppedByMe

(* Where frames are made: before the close frame, and in a connection that *)
(* was dropped only while its handshake is answered.                       *)
Writable(c) ==
    /\ c.closeId = 0
    /\ c.state \in Opening \union {"OPEN"} \/ c.droppedByMe

LEMMA OpenIsWritable ==
    ASSUME NEW c, Sound(c), c.state \in Opening \union {"OPEN"}
    PROVE  Writable(c)
BY DEF Sound, Final, Writable, Opening

LEMMA SendLeads ==
    ASSUME NEW c, Types(c), Ordered(c), Final(c), c.triggered, c.sends = 0
    PROVE  Leads(c, Send(c)) /\ SamePlace(c, Send(c))
<1> DEFINE d == Send(c)
<1>1. DOMAIN d = Fields /\ d.state = c.state /\ d.closeId = c.closeId
      /\ d.made = c.made /\ d.failedByMe = c.failedByMe /\ d.droppedByMe = c.droppedByMe
  BY DEF Types, Fields, Send
<1>2. CASE c.queue = <<>>
  <2>1. d.queue = c.queue /\ d.wire = c.wire /\ d.triggered = FALSE /\ d.sends = 0
    BY <1>2 DEF Types, Fields, Send
  <2>2. Types(d) /\ Final(d) /\ Served(d)
    BY <1>1, <1>2, <2>1 DEF Types, Final, Served
  <2>3. Ordered(d)
    BY <1>1, <2>1 DEF Ordered, Live
  <2> QED BY <1>1, <2>2, <2>3 DEF Leads, Sound, SamePlace
<1>3. CASE c.queue # <<>>
  <2>1. d = [c EXCEPT !.queue = Tail(@),
                      !.wire = IF c.state = "CLOSED" THEN @ ELSE Write(c, Head(c.queue)),
                      !.sends = @ + 1]
    BY <1>3 DEF Send
  <2>2. d.queue = Tail(c.queue) /\ d.triggered = c.triggered /\ d.sends = c.sends + 1
        /\ d.wire = IF Live(c) THEN Append(c.wire, Head(c.queue)) ELSE c.wire
    BY <2>1 DEF Types, Fields, Write, Live
  <2>3. Final(d) /\ Served(d)
    BY <1>1, <2>2 DEF Final, Served
  <2>4. Head(c.queue) \in Nat /\ Tail(c.queue) \in Seq(Nat)
        /\ Append(c.wire, Head(c.queue)) \in Seq(Nat)
    BY <1>3 DEF Types
  <2>5. Types(d)
    <3>1. d.queue \in Seq(Nat) /\ d.wire \in Seq(Nat)
      BY <2>2, <2>4 DEF Types
    <3>2. d.sends = 1
      BY <2>2
    <3> QED BY <1>1, <2>2, <3>1, <3>2 DEF Types
  <2>6. Ordered(d)
    <3>1. CASE ~Live(c)
      BY <1>1, <2>2, <3>1 DEF Ordered, Live
    <3>2. CASE Live(c)
      <4>1. Whole(d.wire, d.queue, d.made)
        BY <1>1, <1>3, <2>2, <3>2, QueueSent DEF Ordered
      <4> QED BY <4>1, WholeIsPrefix DEF Ordered
    <3> QED BY <3>1, <3>2
  <2> QED BY <1>1, <2>3, <2>5, <2>6 DEF Leads, Sound, SamePlace
<1> QED BY <1>2, <1>3

(* A frame that is made in a live connection is a frame of the whole, and  *)
(* changes nothing that was sent in another.                               *)
LEMMA MadeLeads ==
    ASSUME NEW c, NEW d, Sound(c), c.closeId = 0, DOMAIN d = Fields, SamePlace(c, d),
           d.failedByMe = c.failedByMe, d.made = c.made + 1,
           d.queue \in Seq(Nat), d.wire \in Seq(Nat), d.wire = c.wire \/ Live(c),
           d.triggered \in BOOLEAN, d.sends \in {0, 1},
           Live(c) => Whole(d.wire, d.queue, d.made)
    PROVE  /\ Types(d) /\ Ordered(d) /\ Final(d)
           /\ Served(d) => Leads(c, d)
<1>1. Types(d)
  BY DEF Sound, Types, SamePlace
<1>2. Live(d) <=> Live(c)
  BY DEF Live, SamePlace
<1>3. Ordered(d)
  <2>1. CASE Live(c)
    BY <1>2, <2>1, WholeIsPrefix DEF Ordered
  <2>2. CASE ~Live(c)
    BY <1>2, <2>2 DEF Ordered, Sound
  <2> QED BY <2>1, <2>2
<1>4. Final(d)
  BY DEF Final, SamePlace
<1> QED BY <1>1, <1>3, <1>4 DEF Leads, Sound, SamePlace

(* A frame goes to the wire if nothing waits, else to the end of the queue.*)
LEMMA SendDataLeads ==
    ASSUME NEW c, NEW sync \in BOOLEAN, Sound(c), Writable(c)
    PROVE  /\ Leads(c, SendData(c, sync)) /\ SamePlace(c, SendData(c, sync))
           /\ Writable(SendData(c, sync))
<1> DEFINE n == c.made + 1
           q == [c EXCEPT !.made = n, !.queue = Append(@, n)]
           p == [q EXCEPT !.triggered = TRUE]
           w == [c EXCEPT !.made = n, !.wire = Write(c, n)]
<1>1. /\ c.closeId = 0 /\ n \in Nat /\ c.queue \in Seq(Nat) /\ c.wire \in Seq(Nat)
      /\ (Live(c) <=> ~c.droppedByMe)
      /\ Live(c) => Whole(c.wire, c.queue, c.made)
  BY DEF Sound, Types, Writable, Opening, Ordered, Live
<1>2. ASSUME NEW d, SamePlace(c, d) PROVE Writable(d)
  BY <1>2 DEF Writable, SamePlace
<1>3. CASE sync \/ c.queue # <<>>
  <2>1. DOMAIN q = Fields /\ q.made = n /\ q.queue = Append(c.queue, n) /\ q.wire = c.wire
        /\ SamePlace(c, q) /\ q.triggered = c.triggered /\ q.sends = c.sends
        /\ q.failedByMe = c.failedByMe
    BY <1>1 DEF Sound, Types, Fields, SamePlace
  <2>2. DOMAIN p = Fields /\ p.made = n /\ p.queue = Append(c.queue, n) /\ p.wire = c.wire
        /\ SamePlace(c, p) /\ p.triggered = TRUE /\ p.sends = c.sends
        /\ p.failedByMe = c.failedByMe
    BY <1>1 DEF Sound, Types, Fields, SamePlace
  <2>3. SendData(c, sync) = Trigger(q)
    BY <1>3 DEF SendData
  <2>4. Trigger(q) = IF q.triggered THEN q ELSE Send(p)
    BY DEF Trigger
  <2>5. Live(c) => Whole(c.wire, Append(c.queue, n), n)
    BY <1>1, QueueGrows
  <2>6. Append(c.queue, n) \in Seq(Nat)
    BY <1>1
  <2>7. c.triggered \in BOOLEAN /\ c.sends \in {0, 1} /\ (~c.triggered => c.sends = 0)
    BY DEF Sound, Types, Served
  <2>8. /\ Types(q) /\ Ordered(q) /\ Final(q)
        /\ Served(q) => Leads(c, q)
    <3> HIDE DEF p, q
    <3> QED BY <1>1, <2>1, <2>5, <2>6, <2>7, MadeLeads
  <2>9. /\ Types(p) /\ Ordered(p) /\ Final(p)
    <3> HIDE DEF p, q
    <3>1. p.wire = c.wire \/ Live(c)
      BY <2>2
    <3>2. p.queue \in Seq(Nat) /\ p.wire \in Seq(Nat) /\ p.triggered \in BOOLEAN
          /\ p.sends \in {0, 1}
          /\ (Live(c) => Whole(p.wire, p.queue, p.made))
      BY <1>1, <2>2, <2>5, <2>6, <2>7
    <3>3. p.made = c.made + 1
      BY <2>2
    <3> HIDE DEF n
    <3> QED BY <1>1, <2>2, <3>1, <3>2, <3>3, MadeLeads
  <2> HIDE DEF p, q, n
  <2>10. CASE q.triggered
    <3>1. Served(q)
      BY <2>1, <2>10 DEF Sound, Served
    <3> QED BY <1>2, <2>1, <2>3, <2>4, <2>8, <2>10, <3>1
  <2>11. CASE ~q.triggered
    <3>1. p.triggered /\ p.sends = 0
      BY <2>1, <2>2, <2>7, <2>11
    <3>2. Leads(p, Send(p)) /\ SamePlace(p, Send(p))
      BY <2>9, <3>1, SendLeads
    <3>3. SendData(c, sync) = Send(p) /\ SamePlace(c, Send(p))
      BY <2>2, <2>3, <2>4, <2>11, <3>2 DEF SamePlace
    <3>4. Leads(c, Send(p))
      BY <2>1, <2>2, <3>2 DEF Leads, SamePlace
    <3> QED BY <1>2, <3>3, <3>4
  <2> QED BY <2>10, <2>11
<1>4. CASE ~sync /\ c.queue = <<>>
  <2>1. DOMAIN w = Fields /\ w.made = n /\ w.queue = c.queue /\ w.wire = Write(c, n)
        /\ SamePlace(c, w) /\ w.triggered = c.triggered /\ w.sends = c.sends
        /\ w.failedByMe = c.failedByMe
    BY <1>1 DEF Sound, Types, Fields, SamePlace
  <2>2. SendData(c, sync) = w
    BY <1>4 DEF SendData
  <2>3. Write(c, n) = IF Live(c) THEN Append(c.wire, n) ELSE c.wire
    BY <1>1 DEF Write
  <2>4. Live(c) => Whole(Append(c.wire, n), c.queue, n)
    BY <1>1, <1>4, WireGrows
  <2>5. Append(c.wire, n) \in Seq(Nat)
    BY <1>1
  <2>6. c.triggered \in BOOLEAN /\ c.sends \in {0, 1}
    BY DEF Sound, Types
  <2> HIDE DEF w, n
  <2>7. w.wire \in Seq(Nat) /\ (w.wire = c.wire \/ Live(c)) /\ w.queue \in Seq(Nat)
        /\ (Live(c) => Whole(w.wire, w.queue, w.made))
    BY <1>1, <2>1, <2>3, <2>4, <2>5
  <2>8. Served(w)
    BY <2>1, <1>4 DEF Sound, Served
  <2>9. Leads(c, w)
    BY <1>1, <2>1, <2>6, <2>7, <2>8, MadeLeads DEF n
  <2> QED BY <1>2, <2>1, <2>2, <2>9
<1> QED BY <1>3, <1>4

LEMMA SendFragmentsLeads ==
    ASSUME NEW c, NEW n, NEW sync \in BOOLEAN, Sound(c), Writable(c)
    PROVE  /\ Leads(c, SendFragments(c, n, sync)) /\ SamePlace(c, SendFragments(c, n, sync))
           /\ Writable(SendFragments(c, n, sync))
<1> DEFINE d == SendData(c, sync)
<1>1. Leads(c, d) /\ SamePlace(c, d) /\ Writable(d)
  BY SendDataLeads
<1>2. SendFragments(c, n, sync) = IF n = 1 THEN d ELSE SendData(d, sync)
  BY DEF SendFragments
<1> HIDE DEF d
<1>3. Leads(d, SendData(d, sync)) /\ SamePlace(d, SendData(d, sync)) /\ Writable(SendData(d, sync))
  BY <1>1, SendDataLeads DEF Leads
<1> QED BY <1>1, <1>2, <1>3, LeadsOn DEF SamePlace

-----------------------------------------------------------------------------
(* Closing.                                                                *)
LEMMA DropLeads ==
    ASSUME NEW c, Sound(c)
    PROVE  Leads(c, DropConnection(c)) /\ DropConnection(c).state = "CLOSED"
<1> DEFINE d == DropConnection(c)
<1>1. DOMAIN d = Fields /\ SameFrames(c, d) /\ d.state = "CLOSED" /\ d.failedByMe = c.failedByMe
  BY DEF Sound, Types, Fields, DropConnection, SameFrames
<1>2. "CLOSED" \in States /\ "CLOSED" \notin Opening
  BY DEF States, Opening
<1>3. Leads(c, d)
  BY <1>1, <1>2, FramesKept DEF Sound, Types
<1> QED BY <1>1, <1>3

LEMMA DropUncleanLeads ==
    ASSUME NEW c, Sound(c)
    PROVE  Leads(c, DropUnclean(c)) /\ DropUnclean(c).state = "CLOSED"
<1> DEFINE d == [c EXCEPT !.wasClean = FALSE, !.reason = TRUE]
<1>1. DOMAIN d = Fields /\ SameFrames(c, d) /\ d.state = c.state /\ d.failedByMe = c.failedByMe
  BY DEF Sound, Types, Fields, SameFrames
<1>2. DropUnclean(c) = DropConnection(d)
  BY DEF DropUnclean
<1> HIDE DEF d
<1>3. Leads(c, d)
  BY <1>1, FramesKept DEF Sound, Types, Final
<1>4. Leads(d, DropConnection(d)) /\ DropConnection(d).state = "CLOSED"
  BY <1>3, DropLeads DEF Leads
<1> QED BY <1>2, <1>3, <1>4, LeadsOn

LEMMA CloseFrameLeads ==
    ASSUME NEW c, NEW isReply \in BOOLEAN, Sound(c)
    PROVE  Leads(c, SendCloseFrame(c, isReply))
<1> DEFINE s == SendData(c, FALSE)
           d == Closing(s, isReply)
<1>1. CASE c.state # "OPEN"
  BY <1>1 DEF SendCloseFrame, Leads
<1>2. CASE c.state = "OPEN"
  <2>1. Leads(c, s) /\ s.state = "OPEN"
    BY <1>2, OpenIsWritable, SendDataLeads DEF SamePlace
  <2>2. SendCloseFrame(c, isReply) = IF isReply THEN d ELSE Arm(d, "close")
    BY <1>2 DEF SendCloseFrame
  <2>3. DOMAIN s = Fields
    BY <2>1 DEF Leads, Sound, Types
  <2>4. /\ DOMAIN d = Fields /\ d.state = "CLOSING" /\ d.closeId = s.made
        /\ d.made = s.made /\ d.wire = s.wire /\ d.queue = s.queue
        /\ d.triggered = s.triggered /\ d.sends = s.sends /\ d.failedByMe = s.failedByMe
        /\ d.droppedByMe = s.droppedByMe
    BY <2>3 DEF Closing, Fields
  <2> HIDE DEF s, d
  <2>5. "CLOSING" \in States /\ "CLOSING" \notin Opening
    BY DEF States, Opening
  <2>6. Types(d)
    BY <2>1, <2>4, <2>5 DEF Leads, Sound, Types
  <2>7. Ordered(d) /\ Final(d) /\ Served(d)
    BY <2>1, <2>4 DEF Leads, Sound, Ordered, Live, Final, Served
  <2>8. Leads(s, d)
    BY <2>4, <2>5, <2>6, <2>7 DEF Leads, Sound
  <2>9. Leads(c, d) /\ Leads(d, Arm(d, "close"))
    BY <2>1, <2>8, LeadsOn, ArmLeads DEF Leads
  <2> QED BY <2>2, <2>9, LeadsOn
<1> QED BY <1>1, <1>2

LEMMA FailLeads ==
    ASSUME NEW c, Sound(c), c.state \notin Opening, config.failByDrop \in BOOLEAN
    PROVE  /\ Leads(c, FailConnection(c))
           /\ c.state # "CLOSED" => FailConnection(c).failedByMe
<1> DEFINE d == [c EXCEPT !.failedByMe = TRUE]
<1>1. c.state \in {"OPEN", "CLOSING", "CLOSED"}
  BY DEF Sound, Types, States
<1>2. DOMAIN d = Fields /\ SameFrames(c, d) /\ d.state = c.state /\ d.failedByMe = TRUE
  BY DEF Sound, Types, Fields, SameFrames
<1>3. Leads(c, d)
  <2> HIDE DEF d
  <2> QED BY <1>2, FramesKept DEF Sound, Types, Final
<1>4. Leads(d, DropUnclean(d)) /\ Leads(d, DropConnection(d)) /\ Leads(d, SendCloseFrame(d, FALSE))
  <2> HIDE DEF d
  <2> QED BY <1>3, DropUncleanLeads, DropLeads, CloseFrameLeads DEF Leads
<1>5. CASE c.state = "CLOSED"
  <2>1. FailConnection(c) = c
    BY <1>5 DEF FailConnection
  <2> QED BY <1>5, <2>1 DEF Leads
<1>6. CASE c.state # "CLOSED"
  <2>1. FailConnection(c) \in {DropUnclean(d), DropConnection(d), SendCloseFrame(d, FALSE)}
    <3>1. CASE config.failByDrop
      BY <1>6, <3>1 DEF FailConnection
    <3>2. CASE ~config.failByDrop /\ c.state = "CLOSING"
      BY <3>2 DEF FailConnection
    <3>3. CASE ~config.failByDrop /\ c.state = "OPEN"
      BY <3>3 DEF FailConnection
    <3> QED BY <1>1, <1>6, <3>1, <3>2, <3>3
  <2> HIDE DEF d
  <2>2. Leads(d, FailConnection(c))
    BY <1>4, <2>1
  <2> QED BY <1>2, <1>3, <2>2, LeadsOn DEF Leads
<1> QED BY <1>5, <1>6

(* One flaw is enough to fail a connection that is not CLOSED.             *)
LEMMA ViolationsLeads ==
    ASSUME NEW c, NEW flaws \in Nat, Sound(c), c.state \notin Opening,
           config.failByDrop \in BOOLEAN
    PROVE  /\ Leads(c, Violations(c, flaws))
           /\ flaws > 0 /\ c.state # "CLOSED" => Violations(c, flaws).failedByMe
           /\ flaws = 0 => Violations(c, flaws) = c
<1> DEFINE d == FailConnection(c)
<1>1. Leads(c, d) /\ (c.state # "CLOSED" => d.failedByMe)
  BY FailLeads
<1>2. Leads(d, FailConnection(d))
  BY <1>1, FailLeads DEF Leads
<1>3. CASE flaws = 0
  <2>1. Violations(c, flaws) = c
    BY <1>3 DEF Violations, Stops
  <2> QED BY <1>3, <2>1 DEF Leads
<1>4. CASE flaws > 0
  <2>1. Violations(c, flaws) \in {d, FailConnection(d)}
    <3>1. CASE flaws = 1 \/ config.failByDrop
      BY <1>4, <3>1 DEF Violations, Stops
    <3>2. CASE flaws > 1 /\ ~config.failByDrop
      BY <3>2 DEF Violations, Stops
    <3> QED BY <1>4, <3>1, <3>2
  <2> HIDE DEF d
  <2> QED BY <1>1, <1>2, <1>4, <2>1, LeadsOn DEF Leads
<1> QED BY <1>3, <1>4

LEMMA OnCloseFrameLeads ==
    ASSUME NEW c, NEW flaws \in Nat, Sound(c), c.state \notin Opening,
           config.failByDrop \in BOOLEAN
    PROVE  Leads(c, OnCloseFrame(c, flaws))
<1> DEFINE b == [c EXCEPT !.closeSeen = TRUE]
           d == Violations(b, flaws)
           a == Cancel(d, "close")
           e == [a EXCEPT !.wasClean = TRUE]
           f == [d EXCEPT !.wasClean = TRUE]
           g == [d EXCEPT !.wasClean = FALSE]
           h == SendCloseFrame(f, TRUE)
<1>1. Leads(c, b)
  <2>1. DOMAIN b = Fields /\ SameFrames(c, b) /\ b.state = c.state /\ b.failedByMe = c.failedByMe
    BY DEF Sound, Types, Fields, SameFrames
  <2> HIDE DEF b
  <2> QED BY <2>1, FramesKept DEF Sound, Types, Final
<1>2. Leads(b, d) /\ d.state \in {"OPEN", "CLOSING", "CLOSED"}
  <2>1. Leads(b, d) /\ d.state \notin Opening
    BY <1>1, ViolationsLeads DEF Leads
  <2> QED BY <2>1 DEF Leads, Sound, Types, States
<1>3. OnCloseFrame(c, flaws) \in {d, g, CloseAnswered(d), AnswerClose(d)}
  <2>1. CASE Stops(flaws)
    BY <2>1 DEF OnCloseFrame
  <2>2. CASE ~Stops(flaws) /\ d.state = "CLOSING"
    BY <2>2 DEF OnCloseFrame
  <2>3. CASE ~Stops(flaws) /\ d.state = "OPEN"
    BY <2>3 DEF OnCloseFrame
  <2>4. CASE ~Stops(flaws) /\ d.state = "CLOSED"
    BY <2>4 DEF OnCloseFrame
  <2> QED BY <1>2, <2>1, <2>2, <2>3, <2>4
<1>4. CloseAnswered(d) = IF IsServer THEN DropConnection(e) ELSE Arm(e, "drop")
  BY DEF CloseAnswered
<1>5. AnswerClose(d) = IF IsServer THEN DropConnection(h) ELSE h
  BY DEF AnswerClose
<1> HIDE DEF b, d
<1>6. Leads(d, a)
  BY <1>2, CancelLeads DEF Leads
<1>7. /\ DOMAIN e = Fields /\ SameFrames(a, e) /\ e.state = a.state /\ e.failedByMe = a.failedByMe
      /\ DOMAIN f = Fields /\ SameFrames(d, f) /\ f.state = d.state /\ f.failedByMe = d.failedByMe
      /\ DOMAIN g = Fields /\ SameFrames(d, g) /\ g.state = d.state /\ g.failedByMe = d.failedByMe
  <2>1. DOMAIN a = Fields /\ DOMAIN d = Fields
    BY <1>2, <1>6 DEF Leads, Sound, Types
  <2> HIDE DEF a
  <2> QED BY <2>1 DEF Fields, SameFrames
<1> HIDE DEF a, e, f, g
<1>8. Leads(a, e)
  BY <1>6, <1>7, FramesKept DEF Leads, Sound, Types, Final
<1>9. Leads(d, f) /\ Leads(d, g)
  <2>1. Sound(d) /\ d.state \in States /\ d.failedByMe \in BOOLEAN
        /\ (d.closeId # 0 => d.state \in {"CLOSING", "CLOSED"})
    BY <1>2 DEF Leads, Sound, Types, Final
  <2>2. Leads(d, f)
    BY <1>7, <2>1, FramesKept
  <2>3. Leads(d, g)
    BY <1>7, <2>1, FramesKept
  <2> QED BY <2>2, <2>3
<1>10. Leads(d, e)
  BY <1>6, <1>8, LeadsOn
<1>11. Leads(d, CloseAnswered(d))
  <2>1. Leads(e, DropConnection(e)) /\ Leads(e, Arm(e, "drop"))
    BY <1>10, DropLeads, ArmLeads DEF Leads
  <2> QED BY <1>4, <1>10, <2>1, LeadsOn
<1>12. Leads(d, h)
  <2>1. Leads(f, h)
    BY <1>9, CloseFrameLeads DEF Leads
  <2> QED BY <1>9, <2>1, LeadsOn
<1> HIDE DEF h
<1>13. Leads(d, AnswerClose(d))
  <2>1. Leads(h, DropConnection(h))
    BY <1>12, DropLeads DEF Leads
  <2> QED BY <1>5, <1>12, <2>1, LeadsOn
<1>14. Leads(d, OnCloseFrame(c, flaws))
  <2>1. Leads(d, d)
    BY <1>2 DEF Leads
  <2> QED BY <1>3, <1>9, <1>11, <1>13, <2>1
<1> QED BY <1>1, <1>2, <1>14, LeadsOn

-----------------------------------------------------------------------------
(* The opening handshake.                                                  *)
LEMMA MadeSound ==
    ASSUME NEW role \in {"server", "client", "proxied"}
    PROVE  Sound(Made(role))
<1> DEFINE c == Arm(Idle, "open")
           p == [c EXCEPT !.state = "PROXY_CONNECTING"]
<1>1. Idle.state = "CONNECTING" /\ "CONNECTING" \in States /\ "PROXY_CONNECTING" \in States
  BY DEF Idle, States, Opening
<1>2. Whole(<<>>, <<>>, 0)
  BY DEF Whole
<1>3. Types(Idle)
  BY <1>1 DEF Types, Idle, Fields
<1>4. Ordered(Idle)
  BY <1>2, WholeIsPrefix DEF Ordered, Idle
<1>5. Final(Idle) /\ Served(Idle)
  BY DEF Final, Served, Idle
<1>6. Sound(c) /\ c.state = "CONNECTING"
  BY <1>1, <1>3, <1>4, <1>5, ArmLeads DEF Leads, Sound
<1>7. c.failedByMe = FALSE
  BY DEF Arm, Idle
<1>8. DOMAIN p = Fields /\ SameFrames(c, p) /\ p.state = "PROXY_CONNECTING" /\ p.failedByMe = FALSE
  <2> HIDE DEF c
  <2> QED BY <1>6, <1>7 DEF Sound, Types, Fields, SameFrames
<1>9. c.closeId = 0
  <2> HIDE DEF c
  <2> QED BY <1>6 DEF Sound, Final
<1> HIDE DEF c, p
<1>10. Sound(p)
  BY <1>1, <1>6, <1>7, <1>8, <1>9, FramesKept DEF Leads, Opening
<1>11. Sound(SendData(c, FALSE)) /\ Sound(SendData(p, FALSE))
  BY <1>6, <1>8, <1>10, OpenIsWritable, SendDataLeads DEF Opening, Leads
<1>12. Made(role) \in {c, SendData(c, FALSE), SendData(p, FALSE)}
  BY DEF Made, c, p
<1> QED BY <1>6, <1>11, <1>12

LEMMA AcceptLeads ==
    ASSUME NEW c, Sound(c), Writable(c)
    PROVE  Leads(c, Accept(c)) /\ Accept(c).state = "OPEN" /\ Writable(Accept(c))
<1> DEFINE d == [c EXCEPT !.state = "OPEN"]
           e == Cancel(d, "open")
<1>1. DOMAIN d = Fields /\ SameFrames(c, d) /\ d.state = "OPEN" /\ d.failedByMe = c.failedByMe
      /\ d.droppedByMe = c.droppedByMe
  BY DEF Sound, Types, Fields, SameFrames
<1>2. "OPEN" \in States /\ "OPEN" \notin Opening /\ c.closeId = 0
      /\ (c.state = "CLOSED" => c.droppedByMe)
  BY DEF States, Opening, Writable
<1>3. Accept(c) = Arm(e, "ping")
  BY DEF Accept
<1> HIDE DEF d
<1>4. Leads(c, d)
  BY <1>1, <1>2, FramesKept DEF Sound, Types
<1>5. Leads(d, e) /\ e.state = "OPEN"
  BY <1>1, <1>4, CancelLeads DEF Leads
<1> HIDE DEF e
<1>6. Leads(e, Arm(e, "ping")) /\ Arm(e, "ping").state = "OPEN"
  BY <1>5, ArmLeads DEF Leads
<1> QED BY <1>3, <1>4, <1>5, <1>6, LeadsOn, OpenIsWritable DEF Leads

LEMMA RefuseLeads ==
    ASSUME NEW c, Sound(c)
    PROVE  /\ Leads(c, Refuse(c)) /\ Refuse(c).state = "CLOSED" /\ Refuse(c).closeId = c.closeId
           /\ Writable(c) => Writable(Refuse(c))
<1> DEFINE d == [c EXCEPT !.reason = TRUE]
<1>1. DOMAIN d = Fields /\ SameFrames(c, d) /\ d.state = c.state /\ d.failedByMe = c.failedByMe
      /\ SamePlace(c, d)
  BY DEF Sound, Types, Fields, SameFrames, SamePlace
<1>2. Refuse(c) = DropConnection(d)
  BY DEF Refuse
<1> HIDE DEF d
<1>3. Leads(c, d)
  BY <1>1, FramesKept DEF Sound, Types, Final
<1>4. Leads(d, DropConnection(d)) /\ DropConnection(d).state = "CLOSED"
  BY <1>3, DropLeads DEF Leads
<1>5. /\ DropConnection(d).closeId = d.closeId
      /\ d.state = "CLOSED" => DropConnection(d).droppedByMe = d.droppedByMe
      /\ d.state # "CLOSED" => DropConnection(d).droppedByMe
  BY <1>1 DEF DropConnection, Fields
<1>6. Writable(c) => Writable(DropConnection(d))
  BY <1>1, <1>5 DEF Writable, SamePlace, Opening
<1> QED BY <1>1, <1>2, <1>3, <1>4, <1>5, <1>6, LeadsOn DEF SamePlace

(* What may answer a request leads on from where the request is answered.  *)
LEMMA AnswersLead ==
    ASSUME NEW c, NEW d \in Answers(c), Sound(c), Writable(c)
    PROVE  Leads(c, d)
<1> DEFINE s == SendData(c, FALSE)
           a == Accept(s)
           b == SendData(a, FALSE)
           f == SendFragments(c, 2, FALSE)
<1>1. d \in {a, Refuse(b), Refuse(s), DropConnection(s), DropConnection(f)}
  BY DEF Answers
<1>2. Leads(c, s) /\ Writable(s) /\ Leads(c, f)
  BY SendDataLeads, SendFragmentsLeads
<1> HIDE DEF s, f
<1>3. Leads(c, a) /\ Writable(a)
  BY <1>2, AcceptLeads, LeadsOn DEF Leads
<1> HIDE DEF a
<1>4. Leads(c, b)
  BY <1>3, SendDataLeads, LeadsOn DEF Leads
<1> HIDE DEF b
<1>5. Leads(b, Refuse(b)) /\ Leads(s, Refuse(s)) /\ Leads(s, DropConnection(s))
      /\ Leads(f, DropConnection(f))
  BY <1>2, <1>4, RefuseLeads, DropLeads DEF Leads
<1> QED BY <1>1, <1>2, <1>3, <1>4, <1>5, LeadsOn

-----------------------------------------------------------------------------
(* The timers.                                                             *)
LEMMA PingedLeads ==
    ASSUME NEW c, NEW b \in BOOLEAN, Sound(c)
    PROVE  Leads(c, [c EXCEPT !.pinged = b])
<1> DEFINE d == [c EXCEPT !.pinged = b]
<1>1. DOMAIN d = Fields /\ SameFrames(c, d) /\ d.state = c.state /\ d.failedByMe = c.failedByMe
  BY DEF Sound, Types, Fields, SameFrames
<1> HIDE DEF d
<1>2. Leads(c, d)
  BY <1>1, FramesKept DEF Sound, Types, Final
<1> QED BY <1>2 DEF d

LEMMA OnPendingPongLeads ==
    ASSUME NEW c, Sound(c)
    PROVE  Leads(c, OnPendingPong(c))
<1> DEFINE d == Cancel(c, "pong")
           e == [d EXCEPT !.pinged = FALSE]
<1>1. OnPendingPong(c) = Arm(e, "ping")
  BY DEF OnPendingPong
<1>2. Leads(c, d)
  BY CancelLeads
<1> HIDE DEF d
<1>3. Leads(d, e)
  BY <1>2, PingedLeads DEF Leads
<1> HIDE DEF e
<1>4. Leads(e, Arm(e, "ping"))
  BY <1>3, ArmLeads DEF Leads
<1> QED BY <1>1, <1>2, <1>3, <1>4, LeadsOn

LEMMA OnPingLeads ==
    ASSUME NEW c, Sound(c)
    PROVE  Leads(c, OnPing(c))
<1>1. CASE c.state = "OPEN"
  BY <1>1, OpenIsWritable, SendDataLeads DEF OnPing
<1>2. CASE c.state # "OPEN"
  BY <1>2 DEF OnPing, Leads
<1> QED BY <1>1, <1>2

LEMMA OnTimeoutLeads ==
    ASSUME NEW c, NEW t \in AllTimers, Sound(c)
    PROVE  Leads(c, OnTimeout(c, t))
<1>1. Leads(c, c) /\ Leads(c, DropUnclean(c))
  BY DropUncleanLeads DEF Leads
<1>2. Leads(c, SendAutoPing(c))
  <2> DEFINE d == OnPing(c)
             e == [d EXCEPT !.pinged = TRUE]
  <2>1. SendAutoPing(c) = Arm(e, "pong")
    BY DEF SendAutoPing, OnPing
  <2>2. Leads(c, d)
    BY OnPingLeads
  <2> HIDE DEF d
  <2>3. Leads(d, e)
    BY <2>2, PingedLeads DEF Leads
  <2> HIDE DEF e
  <2>4. Leads(e, Arm(e, "pong"))
    BY <2>3, ArmLeads DEF Leads
  <2> QED BY <2>1, <2>2, <2>3, <2>4, LeadsOn
<1>3. CASE t = "ping"
  BY <1>2, <1>3 DEF OnTimeout
<1>4. CASE t = "pong"
  BY <1>1, <1>4 DEF OnTimeout
<1>5. CASE t = "open"
  BY <1>1, <1>5 DEF OnTimeout
<1>6. CASE t \in {"close", "drop"}
  <2>1. OnTimeout(c, t) = IF c.state # "CLOSED" THEN DropUnclean(c) ELSE c
    BY <1>6 DEF OnTimeout
  <2> QED BY <1>1, <2>1
<1> QED BY <1>3, <1>4, <1>5, <1>6 DEF AllTimers

-----------------------------------------------------------------------------
LEMMA InitInv == Init => WebSocketInv
<1> SUFFICES ASSUME Init PROVE WebSocketInv
  OBVIOUS
<1>1. Configured
  BY WebSocketAssumption DEF Init, Configured
<1>2. Sound(conn)
  BY <1>1, MadeSound DEF Init, Configured
<1>3. LimitKept
  BY WebSocketAssumption DEF Init, LimitKept, NoMessage, Exceeds
<1>4. Collected
  BY DEF Init, Collected
<1> QED BY <1>1, <1>2, <1>3, <1>4 DEF WebSocketInv

(* Steps that only change the connection.                                  *)
LEMMA ConnStep ==
    ASSUME WebSocketInv, Leads(conn, conn'), UNCHANGED <<config, receiveVars>>
    PROVE  WebSocketInv'
BY DEF WebSocketInv, Configured, LimitKept, Collected, Leads, receiveVars

LEMMA OpeningStep ==
    ASSUME WebSocketInv, ProcessProxyConnect \/ ProcessHandshake
    PROVE  WebSocketInv'
<1>1. Sound(conn) /\ Configured
  BY DEF WebSocketInv
<1>2. CASE ProcessProxyConnect
  <2> DEFINE d == [conn EXCEPT !.state = "CONNECTING"]
  <2>1. conn.closeId = 0 /\ conn.state = "PROXY_CONNECTING"
    BY <1>1, <1>2 DEF ProcessProxyConnect, Sound, Final
  <2>2. DOMAIN d = Fields /\ SameFrames(conn, d) /\ d.state = "CONNECTING"
        /\ d.failedByMe = conn.failedByMe
    BY <1>1 DEF Sound, Types, Fields, SameFrames
  <2>3. conn' \in {SendData(d, FALSE), DropConnection(conn)}
    BY <1>2 DEF ProcessProxyConnect
  <2> HIDE DEF d
  <2>4. Leads(conn, d)
    BY <1>1, <2>1, <2>2, FramesKept DEF Sound, Types, States, Opening
  <2>5. Leads(d, SendData(d, FALSE))
    BY <2>2, <2>4, OpenIsWritable, SendDataLeads DEF Leads, Opening
  <2>6. Leads(conn, conn')
    BY <1>1, <2>3, <2>4, <2>5, LeadsOn, DropLeads
  <2> QED BY <1>2, <2>6, ConnStep DEF ProcessProxyConnect
<1>3. CASE ProcessHandshake
  <2> DEFINE s == SendData(conn, FALSE)
             r == Refuse(s)
             o == Accept(conn)
  <2>1. conn.state = "CONNECTING" /\ Writable(conn)
    BY <1>1, <1>3, OpenIsWritable DEF ProcessHandshake, Opening
  <2>2. \/ conn' \in Answers(conn) \union Answers(r)
        \/ conn' \in {o, FailConnection(o), Refuse(conn)}
    BY <1>3 DEF ProcessHandshake, ServerHandshake, ClientHandshake
  <2>3. Leads(conn, s) /\ Writable(s)
    BY <1>1, <2>1, SendDataLeads
  <2>4. Leads(conn, o) /\ o.state = "OPEN"
    BY <1>1, <2>1, AcceptLeads
  <2> HIDE DEF s, o
  <2>5. Leads(conn, r) /\ Writable(r) /\ Leads(conn, Refuse(conn))
    BY <1>1, <2>3, RefuseLeads, LeadsOn DEF Leads
  <2> HIDE DEF r
  <2>6. conn' \in Answers(conn) \union Answers(r) => Leads(conn, conn')
    BY <1>1, <2>1, <2>5, AnswersLead, LeadsOn DEF Leads
  <2>7. Leads(conn, FailConnection(o))
    <3>1. Leads(o, FailConnection(o))
      BY <1>1, <2>4, FailLeads DEF Leads, Configured, Opening
    <3> QED BY <2>4, <3>1, LeadsOn
  <2>8. Leads(conn, conn')
    BY <2>2, <2>4, <2>5, <2>6, <2>7
  <2> QED BY <1>3, <2>8 DEF ProcessHandshake, WebSocketInv, Configured, LimitKept, Collected, Leads
<1> QED BY <1>2, <1>3

(* A frame that makes the message too long fails the connection, unless it *)
(* failed before.                                                          *)
LEMMA FrameBeginStep ==
    ASSUME WebSocketInv, FrameBegin
    PROVE  WebSocketInv'
<1>1. Sound(conn) /\ config.failByDrop \in BOOLEAN /\ conn.state \notin Opening /\ conn.state # "CLOSED"
  BY DEF WebSocketInv, Configured, FrameBegin, Receiving, Opening
<1>2. PICK kind \in ControlKinds \union DataKinds, fin \in BOOLEAN, size \in Sizes, other \in 0..2 :
        LET flaws == other + (IF Misplaced(kind) THEN 1 ELSE 0)
        IN \/ /\ Stops(flaws)
              /\ conn' = Violations(conn, flaws)
              /\ UNCHANGED <<frame, inside, message>>
           \/ ~Stops(flaws) /\ kind \in ControlKinds /\ BeginControl(kind, flaws)
           \/ ~Stops(flaws) /\ kind \in DataKinds /\ BeginData(kind, fin, size, flaws)
  BY DEF FrameBegin
<1> DEFINE flaws == other + (IF Misplaced(kind) THEN 1 ELSE 0)
           c == Violations(conn, flaws)
           begun == BeginMessage(kind)
           total == begun.size + size
<1>3. flaws \in Nat
  OBVIOUS
<1>4. \/ conn' = c /\ message' = message
      \/ conn' = MessageFrameBegin(c, total, size) /\ message' = [begun EXCEPT !.size = total]
  BY <1>2 DEF BeginControl, BeginData
<1> HIDE DEF flaws
<1>5. Leads(conn, c) /\ (flaws > 0 => c.failedByMe) /\ (flaws = 0 => c = conn)
  BY <1>1, <1>3, ViolationsLeads
<1>6. UNCHANGED <<config, delivered>>
  BY DEF FrameBegin
<1>7. CASE conn' = c /\ message' = message
  BY <1>5, <1>6, <1>7 DEF WebSocketInv, Configured, LimitKept, Collected, Leads
<1>8. CASE conn' = MessageFrameBegin(c, total, size) /\ message' = [begun EXCEPT !.size = total]
  <2>1. DOMAIN begun = {"size", "text", "rejected"} /\ begun.size \in Nat
    BY DEF WebSocketInv, LimitKept, BeginMessage, NoMessage
  <2>2. total \in Nat
    BY <2>1, WebSocketAssumption
  <2>3. conn' = IF ~c.failedByMe /\ (Exceeds(MaxMessageSize, total) \/ Exceeds(MaxFrameSize, size))
                THEN FailConnection(c) ELSE c
    BY <1>8 DEF MessageFrameBegin
  <2> HIDE DEF c, begun, total
  <2>4. DOMAIN message' = {"size", "text", "rejected"} /\ message'.size = total
    BY <1>8, <2>1
  <2>5. c.failedByMe \/ c.state # "CLOSED"
    BY <1>1, <1>3, <1>5
  <2>6. Leads(c, FailConnection(c)) /\ (c.state # "CLOSED" => FailConnection(c).failedByMe)
    BY <1>1, <1>5, FailLeads DEF Leads
  <2>7. Leads(conn, conn')
    <3>1. Leads(conn, FailConnection(c))
      BY <1>5, <2>6, LeadsOn
    <3> QED BY <1>5, <2>3, <3>1
  <2>8. Exceeds(MaxMessageSize, total) => conn'.failedByMe
    BY <2>3, <2>5, <2>6
  <2> QED BY <1>6, <2>2, <2>4, <2>7, <2>8 DEF WebSocketInv, Configured, LimitKept, Collected, Leads
<1> QED BY <1>4, <1>7, <1>8

LEMMA ChunkLeads ==
    ASSUME NEW verdict, Sound(conn), Receiving, Configured
    PROVE  /\ Leads(conn, Chunk(conn, verdict))
           /\ verdict = "invalid" => Chunk(conn, verdict).failedByMe
           /\ Chunk(conn, verdict).failedByMe \/ Chunk(conn, verdict).state # "CLOSED"
<1>1. conn.state \notin Opening /\ conn.state # "CLOSED"
  BY DEF Receiving, Opening
<1>2. Leads(conn, FailConnection(conn)) /\ FailConnection(conn).failedByMe
  BY <1>1, FailLeads DEF Configured
<1>3. Leads(conn, conn)
  BY DEF Leads
<1>4. Chunk(conn, verdict) = IF verdict = "invalid" THEN FailConnection(conn) ELSE conn
  BY DEF Chunk
<1> QED BY <1>1, <1>2, <1>3, <1>4

(* What is checked of a message does not change its size.                  *)
LEMMA CheckedStep ==
    ASSUME WebSocketInv, NEW verdict, Leads(conn, conn'), message' = Checked(verdict),
           config' = config, delivered' = delivered
    PROVE  WebSocketInv'
<1>1. DOMAIN message' = DOMAIN message /\ message'.size = message.size
  BY DEF Checked, WebSocketInv, LimitKept
<1> QED BY <1>1 DEF WebSocketInv, Configured, LimitKept, Collected, Leads

LEMMA FrameDataStep ==
    ASSUME WebSocketInv, FrameData
    PROVE  WebSocketInv'
<1>1. PICK verdict \in Verdicts : conn' = Chunk(conn, verdict) /\ message' = Checked(verdict)
  BY DEF FrameData
<1>2. Leads(conn, conn')
  BY <1>1, ChunkLeads DEF WebSocketInv, FrameData
<1> QED BY <1>1, <1>2, CheckedStep DEF FrameData

(* A message that reaches onMessage is one of a connection that has not    *)
(* failed: its text is whole and its size within the limit.                *)
LEMMA EndMessageStep ==
    ASSUME WebSocketInv, Receiving, NEW verdict, config' = config,
           EndMessage(Chunk(conn, verdict), verdict)
    PROVE  WebSocketInv'
<1> DEFINE c == Chunk(conn, verdict)
           flaws == IF verdict = "valid" THEN 0 ELSE 1
           d == Violations(c, flaws)
<1>1. Leads(conn, c) /\ (c.failedByMe \/ c.state # "CLOSED") /\ conn.state \notin Opening
  BY ChunkLeads DEF WebSocketInv, Receiving, Opening
<1>2. conn' = d /\ flaws \in Nat /\ (flaws > 0 <=> verdict # "valid")
  BY DEF EndMessage
<1>3. \/ message' = Checked(verdict) /\ delivered' = delivered
      \/ DeliverMessage(d, verdict) /\ message' = NoMessage
  BY DEF EndMessage
<1> HIDE DEF c, flaws
<1>4. Leads(c, d) /\ (flaws > 0 /\ c.state # "CLOSED" => d.failedByMe)
  BY <1>1, <1>2, ViolationsLeads DEF Leads, WebSocketInv, Configured
<1> HIDE DEF d
<1>5. Leads(conn, conn')
  BY <1>1, <1>2, <1>4, LeadsOn
<1>6. CASE message' = Checked(verdict) /\ delivered' = delivered
  BY <1>5, <1>6, CheckedStep
<1>7. CASE DeliverMessage(d, verdict) /\ message' = NoMessage
  <2>1. verdict # "valid" => d.failedByMe
    BY <1>1, <1>2, <1>4 DEF Leads
  <2>2. Exceeds(MaxMessageSize, message.size) => d.failedByMe
    BY <1>2, <1>5 DEF Leads, WebSocketInv, LimitKept
  <2> DEFINE m == [size |-> message.size, valid |-> verdict = "valid"]
  <2>3. delivered' = IF d.failedByMe THEN delivered ELSE Append(delivered, m)
    BY <1>7 DEF DeliverMessage
  <2>4. ~d.failedByMe => m \in Deliverable
    BY <2>1, <2>2 DEF Deliverable, WebSocketInv, LimitKept
  <2> HIDE DEF m
  <2>5. Collected'
    BY <2>3, <2>4 DEF WebSocketInv, Collected
  <2>6. LimitKept'
    BY <1>7, WebSocketAssumption DEF LimitKept, NoMessage, Exceeds
  <2> QED BY <1>5, <2>5, <2>6 DEF WebSocketInv, Configured, Leads
<1> QED BY <1>3, <1>6, <1>7

LEMMA FrameEndStep ==
    ASSUME WebSocketInv, FrameEnd
    PROVE  WebSocketInv'
<1>1. PICK verdict \in Verdicts :
        \/ conn' = Chunk(conn, verdict) /\ message' = Checked(verdict) /\ delivered' = delivered
        \/ EndMessage(Chunk(conn, verdict), verdict)
  BY DEF FrameEnd
<1>2. Receiving /\ config' = config
  BY DEF FrameEnd
<1>3. CASE conn' = Chunk(conn, verdict) /\ message' = Checked(verdict) /\ delivered' = delivered
  <2>1. Leads(conn, conn')
    BY <1>2, <1>3, ChunkLeads DEF WebSocketInv
  <2> QED BY <1>2, <1>3, <2>1, CheckedStep
<1>4. CASE EndMessage(Chunk(conn, verdict), verdict)
  BY <1>2, <1>4, EndMessageStep
<1> QED BY <1>1, <1>3, <1>4

LEMMA ControlFrameStep ==
    ASSUME WebSocketInv, ControlFrameEnd
    PROVE  WebSocketInv'
<1>1. Sound(conn) /\ config.failByDrop \in BOOLEAN /\ conn.state \notin Opening
  BY DEF WebSocketInv, Configured, ControlFrameEnd, Receiving, Opening
<1>2. Leads(conn, OnPing(conn)) /\ Leads(conn, OnPendingPong(conn)) /\ Leads(conn, conn)
  BY <1>1, OnPingLeads, OnPendingPongLeads DEF Leads
<1>3. \A flaws \in 0..2 : Leads(conn, OnCloseFrame(conn, flaws))
  <2> TAKE flaws \in 0..2
  <2>1. flaws \in Nat
    OBVIOUS
  <2> QED BY <1>1, <2>1, OnCloseFrameLeads
<1>4. Leads(conn, conn')
  BY <1>2, <1>3 DEF ControlFrameEnd
<1> QED BY <1>4 DEF ControlFrameEnd, WebSocketInv, Configured, LimitKept, Collected, Leads

LEMMA ConnectionLostStep ==
    ASSUME WebSocketInv, ConnectionLost
    PROVE  WebSocketInv'
<1> DEFINE l == LossCancels(conn)
           c == [l EXCEPT !.up = FALSE, !.state = "CLOSED"]
           r == [c EXCEPT !.reason = LossReason(c)]
<1>1. Leads(conn, l)
  <2> DEFINE k == Cancel(conn, "drop")
  <2>1. Leads(conn, conn) /\ Leads(conn, k)
    BY CancelLeads DEF WebSocketInv, Leads
  <2>2. l = Cancel(IF IsServer THEN conn ELSE k, "ping")
    BY DEF LossCancels
  <2> HIDE DEF k, l
  <2>3. Leads(conn, Cancel(conn, "ping")) /\ Leads(k, Cancel(k, "ping"))
    BY <2>1, CancelLeads DEF Leads
  <2> QED BY <2>1, <2>2, <2>3, LeadsOn
<1>2. conn' \in {c, r} /\ UNCHANGED <<config, receiveVars>>
  BY DEF ConnectionLost
<1> HIDE DEF l
<1>3. DOMAIN l = Fields
  BY <1>1 DEF Leads, Sound, Types
<1>4. DOMAIN c = Fields /\ SameFrames(l, c) /\ c.state = "CLOSED" /\ c.failedByMe = l.failedByMe
  BY <1>3 DEF Fields, SameFrames
<1> HIDE DEF c
<1>5. DOMAIN r = Fields /\ SameFrames(l, r) /\ r.state = "CLOSED" /\ r.failedByMe = l.failedByMe
  BY <1>4 DEF Fields, SameFrames
<1> HIDE DEF r
<1>6. "CLOSED" \in States /\ "CLOSED" \notin Opening
  BY DEF States, Opening
<1>7. Leads(l, c)
  BY <1>1, <1>4, <1>6, FramesKept DEF Leads, Sound, Types
<1>8. Leads(l, r)
  BY <1>1, <1>5, <1>6, FramesKept DEF Leads, Sound, Types
<1>9. Leads(conn, conn')
  BY <1>1, <1>2, <1>7, <1>8, LeadsOn
<1> QED BY <1>2, <1>9, ConnStep

LEMMA ClockStep ==
    ASSUME WebSocketInv, Clock
    PROVE  WebSocketInv'
<1>1. Sound(conn)
  BY DEF WebSocketInv
<1>2. CASE DelayedSend
  <2> DEFINE c == [conn EXCEPT !.sends = @ - 1]
  <2>1. conn.triggered /\ conn.sends = 1
    BY <1>1, <1>2 DEF DelayedSend, Sound, Types, Served
  <2>2. DOMAIN c = Fields /\ c.sends = conn.sends - 1 /\ c.state = conn.state
        /\ c.failedByMe = conn.failedByMe /\ c.triggered = conn.triggered /\ c.made = conn.made
        /\ c.closeId = conn.closeId /\ c.queue = conn.queue /\ c.wire = conn.wire
        /\ c.droppedByMe = conn.droppedByMe
    BY <1>1 DEF Sound, Types, Fields
  <2>3. conn' = Send(c) /\ UNCHANGED <<config, receiveVars>>
    BY <1>2 DEF DelayedSend
  <2> HIDE DEF c
  <2>4. c.sends = 0
    BY <2>1, <2>2
  <2>5. Types(c) /\ Ordered(c) /\ Final(c)
    BY <1>1, <2>2, <2>4 DEF Sound, Types, Ordered, Live, Final
  <2>6. Leads(c, Send(c))
    BY <2>1, <2>2, <2>4, <2>5, SendLeads
  <2>7. Leads(conn, conn')
    BY <2>2, <2>3, <2>6 DEF Leads
  <2> QED BY <2>3, <2>7, ConnStep
<1>3. ASSUME NEW t \in AllTimers, Expire(t) PROVE WebSocketInv'
  <2> DEFINE k == Cancel(conn, t)
             d == [k EXCEPT !.due[t] = @ + 1]
  <2>1. Leads(conn, k)
    BY <1>1, CancelLeads
  <2>2. conn' = d /\ UNCHANGED <<config, receiveVars>>
    BY <1>3 DEF Expire
  <2> HIDE DEF k
  <2>3. DOMAIN d = Fields /\ SameFrames(k, d) /\ d.state = k.state /\ d.failedByMe = k.failedByMe
    BY <2>1 DEF Leads, Sound, Types, Fields, SameFrames
  <2> HIDE DEF d
  <2>4. Leads(k, d)
    BY <2>1, <2>3, FramesKept DEF Leads, Sound, Types, Final
  <2>5. Leads(conn, conn')
    BY <2>1, <2>2, <2>4, LeadsOn
  <2> QED BY <2>2, <2>5, ConnStep
<1>4. ASSUME NEW t \in AllTimers, HandleTimeout(t) PROVE WebSocketInv'
  <2> DEFINE k == Fired(conn, t)
  <2>1. Leads(conn, k)
    BY <1>1, FiredLeads
  <2>2. conn' = OnTimeout(k, t) /\ UNCHANGED <<config, receiveVars>>
    BY <1>4 DEF HandleTimeout
  <2> HIDE DEF k
  <2>3. Leads(k, OnTimeout(k, t))
    BY <2>1, OnTimeoutLeads DEF Leads
  <2>4. Leads(conn, conn')
    BY <2>1, <2>2, <2>3, LeadsOn
  <2> QED BY <2>2, <2>4, ConnStep
<1> QED BY <1>2, <1>3, <1>4 DEF Clock

LEMMA ApplicationStep ==
    ASSUME WebSocketInv, Application
    PROVE  WebSocketInv'
<1>1. Sound(conn) /\ Writable(conn) /\ UNCHANGED <<config, receiveVars>>
  BY OpenIsWritable DEF WebSocketInv, Application, SendMessage, SendPing, SendClose
<1>2. CASE SendMessage
  <2>1. PICK fragments \in 1..2, sync \in BOOLEAN : conn' = SendFragments(conn, fragments, sync)
    BY <1>2 DEF SendMessage
  <2>2. Leads(conn, conn')
    BY <1>1, <2>1, SendFragmentsLeads
  <2> QED BY <1>1, <2>2, ConnStep
<1>3. CASE SendPing
  <2>1. Leads(conn, conn')
    BY <1>1, <1>3, SendDataLeads DEF SendPing
  <2> QED BY <1>1, <2>1, ConnStep
<1>4. CASE SendClose
  <2>1. Leads(conn, conn')
    BY <1>1, <1>4, CloseFrameLeads DEF SendClose
  <2> QED BY <1>1, <2>1, ConnStep
<1> QED BY <1>2, <1>3, <1>4 DEF Application

LEMMA NextInv == WebSocketInv /\ [Next]_vars => WebSocketInv'
<1> SUFFICES ASSUME WebSocketInv, [Next]_vars PROVE WebSocketInv'
  OBVIOUS
<1>1. CASE Application
  BY <1>1, ApplicationStep
<1>2. CASE Peer
  BY <1>2, OpeningStep, FrameBeginStep, FrameDataStep, FrameEndStep, ControlFrameStep,
     ConnectionLostStep DEF Peer
<1>3. CASE Clock
  BY <1>3, ClockStep
<1>4. CASE UNCHANGED vars
  BY <1>4 DEF vars, WebSocketInv, Configured, LimitKept, Collected
<1> QED BY <1>1, <1>2, <1>3, <1>4 DEF Next

LEMMA Invariant == Spec => []WebSocketInv
<1> QED BY InitInv, NextInv, PTL DEF Spec

-----------------------------------------------------------------------------
(* Frames reach the transport in the order they were made and without a    *)
(* gap, none is left out of a connection that is neither dropped nor lost, *)
(* and none is made after the close frame, for any mix of sends            *)
(* (protocol.cpp 683-744).                                                 *)
THEOREM NoFrameLost == Spec => []FramesInOrder
<1>1. WebSocketInv => FramesInOrder
  <2> SUFFICES ASSUME WebSocketInv PROVE FramesInOrder
    OBVIOUS
  <2>1. Ordered(conn) /\ Final(conn) /\ conn.wire \in Seq(Nat)
    BY DEF WebSocketInv, Sound, Types
  <2>2. Live(conn) => conn.wire \o conn.queue = [n \in 1..conn.made |-> n]
    BY <2>1, WholeIsEverything DEF Ordered
  <2>3. \A i \in DOMAIN conn.wire : conn.wire[i] = i
    <3>1. DOMAIN conn.wire = 1..Len(conn.wire)
      BY <2>1
    <3> QED BY <2>1, <3>1 DEF Ordered, Prefix
  <2> QED BY <2>1, <2>2, <2>3 DEF FramesInOrder, Live, Final
<1> QED BY <1>1, Invariant, PTL

(* Whenever frames wait, exactly one call of send is owed to them          *)
(* (protocol.h 213-218, protocol.cpp 717-744).                             *)
THEOREM QueueServed == Spec => []QueueIsServed
<1>1. WebSocketInv => QueueIsServed
  BY DEF WebSocketInv, Sound, Served, QueueIsServed
<1> QED BY <1>1, Invariant, PTL

(* However the peer splits messages into frames and chunks and whatever    *)
(* flaws they have, onMessage gets no message over the limit and no text   *)
(* that is not UTF-8 (protocol.cpp 778-793, 808-866, 885-894).             *)
THEOREM OnlyDeliverable == Spec => []DeliverableOnly
<1>1. WebSocketInv => DeliverableOnly
  <2> SUFFICES ASSUME WebSocketInv, NEW i \in DOMAIN delivered
               PROVE  ~Exceeds(MaxMessageSize, delivered[i].size) /\ delivered[i].valid
    BY DEF DeliverableOnly
  <2>1. delivered[i] \in Deliverable
    BY DEF WebSocketInv, Collected
  <2> QED BY <2>1 DEF Deliverable
<1> QED BY <1>1, Invariant, PTL

-----------------------------------------------------------------------------
(* What the refinement of Session rests on.                                *)

(* What the endpoint notes of the closing handshake is true: CLOSING means *)
(* that its own close frame was made, clean that both were, and neither is *)
(* heard of before OPEN.                                                   *)
Truthful(c) ==
    /\ c.state = "CLOSING" => c.closeId # 0
    /\ c.wasClean => c.closeId # 0 /\ c.closeSeen
    /\ c.closeSeen => c.state \notin Opening

(* What closes neither side.                                               *)
SameCloses(c, d) ==
    /\ d.up = c.up /\ d.wasClean = c.wasClean
    /\ d.closeSeen = c.closeSeen /\ d.closeId = c.closeId

(* A method keeps what it notes true and never takes a close frame back.   *)
Moves(c, d) ==
    /\ Leads(c, d) /\ Truthful(d)
    /\ d.up = c.up /\ d.closeSeen = c.closeSeen
    /\ c.closeId # 0 => d.closeId # 0

(* It makes none in CLOSED and, but for the one that answers a request,    *)
(* does not leave CLOSED.                                                  *)
Goes(c, d) ==
    /\ Moves(c, d)
    /\ c.state = "CLOSED" => d.state = "CLOSED" /\ d.closeId = c.closeId

LEMMA GoesOn ==
    ASSUME NEW c, NEW d, NEW e, Goes(c, d), Goes(d, e)
    PROVE  Goes(c, e)
BY LeadsOn DEF Goes, Moves

LEMMA MovesOn ==
    ASSUME NEW c, NEW d, NEW e, Moves(c, d), Moves(d, e)
    PROVE  Moves(c, e)
BY LeadsOn DEF Moves

LEMMA StateKept ==
    ASSUME NEW c, NEW d, Truthful(c), Leads(c, d), SameCloses(c, d), d.state = c.state
    PROVE  Goes(c, d)
BY DEF Goes, Moves, Truthful, SameCloses

LEMMA StateClosed ==
    ASSUME NEW c, NEW d, Truthful(c), Leads(c, d), SameCloses(c, d), d.state = "CLOSED"
    PROVE  Goes(c, d)
BY DEF Goes, Moves, Truthful, SameCloses, Opening

LEMMA GoesNowhere ==
    ASSUME NEW c, Sound(c), Truthful(c)
    PROVE  Goes(c, c)
BY DEF Goes, Moves, Leads

(* Timers and writes keep the state and close nothing.                     *)
LEMMA TimersGo ==
    ASSUME NEW c, NEW t, Sound(c), Truthful(c)
    PROVE  Goes(c, Arm(c, t)) /\ Goes(c, Cancel(c, t)) /\ Goes(c, Fired(c, t))
<1>1. /\ SameCloses(c, Arm(c, t)) /\ SameCloses(c, Cancel(c, t)) /\ SameCloses(c, Fired(c, t))
  BY DEF Sound, Types, Fields, Arm, Cancel, Fired, SameCloses
<1> QED BY <1>1, ArmLeads, CancelLeads, FiredLeads, StateKept

LEMMA SendSame ==
    ASSUME NEW c, DOMAIN c = Fields
    PROVE  /\ SameCloses(c, Send(c)) /\ Send(c).made = c.made
           /\ DOMAIN Send(c) = Fields /\ Send(c).state = c.state
BY DEF Fields, Send, SameCloses

LEMMA SendDataSame ==
    ASSUME NEW c, NEW sync, Sound(c)
    PROVE  SameCloses(c, SendData(c, sync)) /\ SendData(c, sync).made = c.made + 1
<1> DEFINE n == c.made + 1
           q == [c EXCEPT !.made = n, !.queue = Append(@, n)]
           p == [q EXCEPT !.triggered = TRUE]
           w == [c EXCEPT !.made = n, !.wire = Write(c, n)]
<1>1. /\ DOMAIN q = Fields /\ SameCloses(c, q) /\ q.made = n
      /\ DOMAIN p = Fields /\ SameCloses(q, p) /\ p.made = n
      /\ DOMAIN w = Fields /\ SameCloses(c, w) /\ w.made = n
  BY DEF Sound, Types, Fields, SameCloses
<1>2. SendData(c, sync) \in {q, Send(p), w}
  BY DEF SendData, Trigger
<1> HIDE DEF p, q, w
<1> QED BY <1>1, <1>2, SendSame DEF SameCloses

LEMMA SendDataGoes ==
    ASSUME NEW c, NEW sync \in BOOLEAN, Sound(c), Truthful(c), Writable(c)
    PROVE  /\ Goes(c, SendData(c, sync)) /\ SamePlace(c, SendData(c, sync))
           /\ Writable(SendData(c, sync))
BY SendDataSame, SendDataLeads, StateKept DEF SamePlace

LEMMA SendFragmentsGoes ==
    ASSUME NEW c, NEW n, NEW sync \in BOOLEAN, Sound(c), Truthful(c), Writable(c)
    PROVE  Goes(c, SendFragments(c, n, sync)) /\ SamePlace(c, SendFragments(c, n, sync))
<1> DEFINE d == SendData(c, sync)
<1>1. Goes(c, d) /\ SamePlace(c, d) /\ Writable(d)
  BY SendDataGoes
<1>2. SendFragments(c, n, sync) = IF n = 1 THEN d ELSE SendData(d, sync)
  BY DEF SendFragments
<1> HIDE DEF d
<1>3. Sound(d) /\ Truthful(d)
  BY <1>1 DEF Goes, Moves, Leads
<1>4. Goes(d, SendData(d, sync)) /\ SamePlace(d, SendData(d, sync))
  BY <1>1, <1>3, SendDataGoes
<1> QED BY <1>1, <1>2, <1>4, GoesOn DEF SamePlace

LEMMA PingedGoes ==
    ASSUME NEW c, NEW b \in BOOLEAN, Sound(c), Truthful(c)
    PROVE  Goes(c, [c EXCEPT !.pinged = b])
<1> DEFINE d == [c EXCEPT !.pinged = b]
<1>1. d.state = c.state /\ SameCloses(c, d)
  BY DEF Sound, Types, Fields, SameCloses
<1>2. Leads(c, d)
  BY PingedLeads
<1> HIDE DEF d
<1>3. Goes(c, d)
  BY <1>1, <1>2, StateKept
<1> QED BY <1>3 DEF d

-----------------------------------------------------------------------------
(* Closing.                                                                *)
LEMMA DropGoes ==
    ASSUME NEW c, Sound(c), Truthful(c)
    PROVE  /\ Goes(c, DropConnection(c)) /\ DropConnection(c).state = "CLOSED"
           /\ SameCloses(c, DropConnection(c))
<1>1. SameCloses(c, DropConnection(c))
  BY DEF Sound, Types, Fields, DropConnection, SameCloses
<1> QED BY <1>1, DropLeads, StateClosed

LEMMA DropUncleanGoes ==
    ASSUME NEW c, Sound(c), Truthful(c)
    PROVE  /\ Goes(c, DropUnclean(c)) /\ DropUnclean(c).state = "CLOSED"
           /\ DropUnclean(c).closeId = c.closeId
<1> DEFINE d == DropUnclean(c)
<1>1. d.up = c.up /\ d.wasClean = FALSE /\ d.closeSeen = c.closeSeen /\ d.closeId = c.closeId
  BY DEF Sound, Types, Fields, DropUnclean, DropConnection
<1>2. Leads(c, d) /\ d.state = "CLOSED"
  BY DropUncleanLeads
<1> HIDE DEF d
<1>3. Goes(c, d)
  BY <1>1, <1>2 DEF Goes, Moves, Truthful, Opening
<1> QED BY <1>1, <1>2, <1>3 DEF d

(* The close frame is the frame made last, and changes OPEN to CLOSING.    *)
LEMMA CloseFrameMade ==
    ASSUME NEW c, NEW isReply, Sound(c), c.state = "OPEN"
    PROVE  LET e == SendCloseFrame(c, isReply)
           IN /\ e.state = "CLOSING" /\ e.closeId # 0 /\ e.up = c.up
              /\ e.closeSeen = c.closeSeen /\ e.wasClean = c.wasClean
<1> DEFINE s == SendData(c, FALSE)
           d == Closing(s, isReply)
<1>1. SameCloses(c, s) /\ s.made = c.made + 1 /\ DOMAIN s = Fields
  BY SendDataSame, SendDataLeads, OpenIsWritable DEF Leads, Sound, Types
<1>2. c.made \in Nat
  BY DEF Sound, Types
<1>3. SendCloseFrame(c, isReply) = IF isReply THEN d ELSE Arm(d, "close")
  BY DEF SendCloseFrame
<1> HIDE DEF s
<1>4. /\ d.state = "CLOSING" /\ d.closeId = s.made /\ d.up = s.up /\ DOMAIN d = Fields
      /\ d.closeSeen = s.closeSeen /\ d.wasClean = s.wasClean
  BY <1>1 DEF Closing, Fields
<1> HIDE DEF d
<1>5. Arm(d, "close").state = d.state /\ SameCloses(d, Arm(d, "close"))
  BY <1>4 DEF Fields, Arm, SameCloses
<1> QED BY <1>1, <1>2, <1>3, <1>4, <1>5 DEF SameCloses

LEMMA CloseFrameGoes ==
    ASSUME NEW c, NEW isReply \in BOOLEAN, Sound(c), Truthful(c)
    PROVE  /\ Goes(c, SendCloseFrame(c, isReply))
           /\ c.state = "OPEN" => SendCloseFrame(c, isReply).state = "CLOSING"
<1>1. CASE c.state # "OPEN"
  BY <1>1, GoesNowhere DEF SendCloseFrame
<1>2. CASE c.state = "OPEN"
  BY <1>2, CloseFrameMade, CloseFrameLeads DEF Goes, Moves, Truthful, Opening
<1> QED BY <1>1, <1>2

(* A connection that fails when it opens has not closed, or has closed by  *)
(* a close frame.                                                          *)
LEMMA FailGoes ==
    ASSUME NEW c, Sound(c), Truthful(c), c.state \notin Opening, config.failByDrop \in BOOLEAN
    PROVE  /\ Goes(c, FailConnection(c))
           /\ c.state = "OPEN" /\ FailConnection(c).state = "CLOSED" =>
                FailConnection(c).closeId = c.closeId
<1> DEFINE d == [c EXCEPT !.failedByMe = TRUE]
<1>1. c.state \in {"OPEN", "CLOSING", "CLOSED"}
  BY DEF Sound, Types, States
<1>2. DOMAIN d = Fields /\ SameFrames(c, d) /\ SameCloses(c, d) /\ d.state = c.state /\ d.failedByMe = TRUE
  BY DEF Sound, Types, Fields, SameFrames, SameCloses
<1>3. Goes(c, d)
  <2> HIDE DEF d
  <2>1. Leads(c, d)
    BY <1>2, FramesKept DEF Sound, Types, Final
  <2> QED BY <1>2, <2>1, StateKept
<1>4. CASE c.state = "CLOSED"
  <2>1. FailConnection(c) = c
    BY <1>4 DEF FailConnection
  <2> QED BY <1>4, <2>1, GoesNowhere
<1>5. CASE c.state # "CLOSED" /\ config.failByDrop
  <2>1. FailConnection(c) = DropUnclean(d)
    BY <1>5 DEF FailConnection
  <2> HIDE DEF d
  <2>2. Goes(d, DropUnclean(d)) /\ DropUnclean(d).closeId = d.closeId
    BY <1>3, DropUncleanGoes DEF Goes, Moves, Leads
  <2> QED BY <1>2, <1>3, <2>1, <2>2, GoesOn DEF SameCloses
<1>6. CASE c.state = "CLOSING" /\ ~config.failByDrop
  <2>1. FailConnection(c) = DropConnection(d)
    BY <1>6 DEF FailConnection
  <2> HIDE DEF d
  <2>2. Goes(d, DropConnection(d))
    BY <1>3, DropGoes DEF Goes, Moves, Leads
  <2> QED BY <1>3, <1>6, <2>1, <2>2, GoesOn
<1>7. CASE c.state = "OPEN" /\ ~config.failByDrop
  <2>1. FailConnection(c) = SendCloseFrame(d, FALSE)
    BY <1>7 DEF FailConnection
  <2> HIDE DEF d
  <2>2. Goes(d, SendCloseFrame(d, FALSE)) /\ SendCloseFrame(d, FALSE).state = "CLOSING"
    BY <1>2, <1>3, <1>7, CloseFrameGoes DEF Goes, Moves, Leads
  <2> QED BY <1>3, <2>1, <2>2, GoesOn
<1> QED BY <1>1, <1>4, <1>5, <1>6, <1>7

LEMMA ViolationsGoes ==
    ASSUME NEW c, NEW flaws \in Nat, Sound(c), Truthful(c), c.state \notin Opening,
           config.failByDrop \in BOOLEAN
    PROVE  Goes(c, Violations(c, flaws))
<1> DEFINE d == FailConnection(c)
<1>1. Goes(c, c) /\ Goes(c, d)
  BY FailGoes, GoesNowhere
<1>2. Violations(c, flaws) \in {c, d, FailConnection(d)}
  <2>1. CASE flaws = 0
    BY <2>1 DEF Violations, Stops
  <2>2. CASE flaws > 0 /\ (flaws = 1 \/ config.failByDrop)
    BY <2>2 DEF Violations, Stops
  <2>3. CASE flaws > 1 /\ ~config.failByDrop
    BY <2>3 DEF Violations, Stops
  <2> QED BY <2>1, <2>2, <2>3
<1> HIDE DEF d
<1>3. Goes(d, FailConnection(d))
  BY <1>1, FailGoes DEF Goes, Moves, Leads
<1> QED BY <1>1, <1>2, <1>3, GoesOn

(* The peer's close frame is noted first.  The end is clean once this side  *)
(* has made its own.                                                       *)
LEMMA OnCloseFrameGoes ==
    ASSUME NEW c, NEW flaws \in Nat, Sound(c), Truthful(c), c.state \notin Opening,
           config.failByDrop \in BOOLEAN
    PROVE  Goes([c EXCEPT !.closeSeen = TRUE], OnCloseFrame(c, flaws))
<1> DEFINE b == [c EXCEPT !.closeSeen = TRUE]
           d == Violations(b, flaws)
           o == OnCloseFrame(c, flaws)
<1>1. /\ DOMAIN b = Fields /\ SameFrames(c, b) /\ b.state = c.state /\ b.failedByMe = c.failedByMe
      /\ b.wasClean = c.wasClean /\ b.closeSeen = TRUE
  BY DEF Sound, Types, Fields, SameFrames
<1>2. o = CASE Stops(flaws) -> d
            [] ~Stops(flaws) /\ d.state = "CLOSING" -> CloseAnswered(d)
            [] ~Stops(flaws) /\ d.state = "OPEN" -> AnswerClose(d)
            [] ~Stops(flaws) /\ d.state = "CLOSED" -> [d EXCEPT !.wasClean = FALSE]
  BY DEF OnCloseFrame
<1> HIDE DEF b, o
<1>3. Sound(b) /\ Truthful(b)
  BY <1>1, FramesKept DEF Sound, Types, Final, Truthful, SameFrames, Leads
<1>4. Goes(b, d) /\ d.closeSeen /\ d.state \notin Opening
  BY <1>1, <1>3, ViolationsGoes DEF Goes, Moves, Leads
<1> HIDE DEF d
<1>5. Sound(d) /\ Truthful(d) /\ DOMAIN d = Fields /\ d.state \in {"OPEN", "CLOSING", "CLOSED"}
  BY <1>4 DEF Goes, Moves, Leads, Sound, Types, States
<1>6. CASE Stops(flaws)
  BY <1>2, <1>4, <1>6 DEF b, o
<1>7. CASE ~Stops(flaws) /\ d.state = "CLOSING"
  <2> DEFINE a == Cancel(d, "close")
             e == [a EXCEPT !.wasClean = TRUE]
  <2>1. Goes(d, a) /\ a.state = "CLOSING"
    BY <1>5, <1>7, TimersGo, CancelLeads
  <2>2. o = IF IsServer THEN DropConnection(e) ELSE Arm(e, "drop")
    BY <1>2, <1>7 DEF CloseAnswered
  <2> HIDE DEF a
  <2>3. Goes(d, a) /\ a.state = "CLOSING" /\ a.closeId # 0 /\ a.closeSeen
    BY <1>4, <2>1 DEF Goes, Moves, Truthful
  <2>4. /\ DOMAIN e = Fields /\ SameFrames(a, e) /\ e.state = a.state
        /\ e.failedByMe = a.failedByMe /\ e.up = a.up /\ e.closeSeen = a.closeSeen
    BY <2>3 DEF Goes, Moves, Leads, Sound, Types, Fields, SameFrames
  <2> HIDE DEF e
  <2>5. Leads(a, e)
    BY <2>3, <2>4, FramesKept DEF Goes, Moves, Leads, Sound, Types, Final
  <2>6. Goes(a, e)
    BY <2>3, <2>4, <2>5 DEF Goes, Moves, Truthful, SameFrames, Opening
  <2>7. Goes(e, DropConnection(e)) /\ Goes(e, Arm(e, "drop"))
    BY <2>6, DropGoes, TimersGo DEF Goes, Moves, Leads
  <2>8. Goes(b, o)
    BY <1>4, <2>3, <2>2, <2>6, <2>7, GoesOn
  <2> QED BY <2>8 DEF b, o
<1>8. CASE ~Stops(flaws) /\ d.state = "OPEN"
  <2> DEFINE f == [d EXCEPT !.wasClean = TRUE]
             h == SendCloseFrame(f, TRUE)
  <2>1. o = IF IsServer THEN DropConnection(h) ELSE h
    BY <1>2, <1>8 DEF AnswerClose
  <2>2. /\ DOMAIN f = Fields /\ SameFrames(d, f) /\ f.state = d.state
        /\ f.failedByMe = d.failedByMe /\ f.up = d.up /\ f.closeSeen = d.closeSeen
    BY <1>5 DEF Fields, SameFrames
  <2> HIDE DEF f
  <2>3. Leads(d, f)
    BY <1>5, <2>2, FramesKept DEF Sound, Types, Final
  <2>4. Leads(f, h)
    BY <2>3, CloseFrameLeads DEF Leads
  <2>5. h.state = "CLOSING" /\ h.closeId # 0 /\ h.up = f.up /\ h.closeSeen = f.closeSeen
    BY <1>8, <2>2, <2>3, CloseFrameMade DEF Leads
  <2> HIDE DEF h
  <2>6. Goes(d, h)
    BY <1>4, <1>8, <2>2, <2>3, <2>4, <2>5, LeadsOn DEF Goes, Moves, Truthful, Opening
  <2>7. Goes(h, DropConnection(h))
    BY <2>6, DropGoes DEF Goes, Moves, Leads
  <2>8. Goes(b, o)
    BY <1>4, <2>1, <2>6, <2>7, GoesOn
  <2> QED BY <2>8 DEF b, o
<1>9. CASE ~Stops(flaws) /\ d.state = "CLOSED"
  <2> DEFINE g == [d EXCEPT !.wasClean = FALSE]
  <2>1. o = g
    BY <1>2, <1>9
  <2>2. /\ DOMAIN g = Fields /\ SameFrames(d, g) /\ g.state = d.state /\ g.wasClean = FALSE
        /\ g.failedByMe = d.failedByMe /\ g.up = d.up /\ g.closeSeen = d.closeSeen
    BY <1>5 DEF Fields, SameFrames
  <2> HIDE DEF g
  <2>3. Leads(d, g)
    BY <1>5, <2>2, FramesKept DEF Sound, Types, Final
  <2>4. Goes(d, g)
    BY <1>5, <2>2, <2>3 DEF Goes, Moves, Truthful, SameFrames
  <2>5. Goes(b, o)
    BY <1>4, <2>1, <2>4, GoesOn
  <2> QED BY <2>5 DEF b, o
<1> QED BY <1>5, <1>6, <1>7, <1>8, <1>9

LEMMA OnPingGoes ==
    ASSUME NEW c, Sound(c), Truthful(c)
    PROVE  Goes(c, OnPing(c))
<1>1. CASE c.state = "OPEN"
  BY <1>1, OpenIsWritable, SendDataGoes DEF OnPing
<1>2. CASE c.state # "OPEN"
  BY <1>2, GoesNowhere DEF OnPing
<1> QED BY <1>1, <1>2

LEMMA OnPendingPongGoes ==
    ASSUME NEW c, Sound(c), Truthful(c)
    PROVE  Goes(c, OnPendingPong(c))
<1> DEFINE d == Cancel(c, "pong")
           e == [d EXCEPT !.pinged = FALSE]
<1>1. OnPendingPong(c) = Arm(e, "ping")
  BY DEF OnPendingPong
<1>2. Goes(c, d)
  BY TimersGo
<1> HIDE DEF d
<1>3. Goes(d, e)
  BY <1>2, PingedGoes DEF Goes, Moves, Leads
<1> HIDE DEF e
<1>4. Goes(e, Arm(e, "ping"))
  BY <1>3, TimersGo DEF Goes, Moves, Leads
<1> QED BY <1>1, <1>2, <1>3, <1>4, GoesOn

(* A time-out closes no side by itself before OPEN: it drops.              *)
LEMMA OnTimeoutGoes ==
    ASSUME NEW c, NEW t \in AllTimers, Sound(c), Truthful(c)
    PROVE  /\ Goes(c, OnTimeout(c, t))
           /\ c.state \in Opening => /\ OnTimeout(c, t).state \in {c.state, "CLOSED"}
                                     /\ OnTimeout(c, t).closeId = c.closeId
<1>1. CASE t = "ping"
  <2> DEFINE d == OnPing(c)
             e == [d EXCEPT !.pinged = TRUE]
  <2>1. OnTimeout(c, t) = Arm(e, "pong")
    BY <1>1 DEF OnTimeout, SendAutoPing, OnPing
  <2>2. Goes(c, d) /\ (c.state \in Opening => d = c)
    BY OnPingGoes DEF OnPing, Opening
  <2> HIDE DEF d
  <2>3. Goes(d, e) /\ e.state = d.state /\ e.closeId = d.closeId
    BY <2>2, PingedGoes DEF Goes, Moves, Leads, Sound, Types, Fields
  <2> HIDE DEF e
  <2>4. Goes(e, Arm(e, "pong")) /\ Arm(e, "pong").state = e.state /\ Arm(e, "pong").closeId = e.closeId
    BY <2>3, TimersGo, ArmLeads DEF Goes, Moves, Leads, SameFrames
  <2> QED BY <2>1, <2>2, <2>3, <2>4, GoesOn
<1>2. CASE t # "ping"
  <2>1. OnTimeout(c, t) \in {c, DropUnclean(c)}
    <3>1. CASE t = "pong"
      BY <3>1 DEF OnTimeout
    <3>2. CASE t = "open"
      BY <3>2 DEF OnTimeout
    <3>3. CASE t \in {"close", "drop"}
      <4>1. OnTimeout(c, t) = IF c.state # "CLOSED" THEN DropUnclean(c) ELSE c
        BY <3>3 DEF OnTimeout
      <4> QED BY <4>1
    <3> QED BY <1>2, <3>1, <3>2, <3>3 DEF AllTimers
  <2> QED BY <2>1, GoesNowhere, DropUncleanGoes
<1> QED BY <1>1, <1>2

(* The opening handshake closes no side either.                            *)
LEMMA AcceptGoes ==
    ASSUME NEW c, Sound(c), Truthful(c), Writable(c)
    PROVE  Moves(c, Accept(c)) /\ Accept(c).state = "OPEN" /\ Accept(c).closeId = c.closeId
<1> DEFINE d == [c EXCEPT !.state = "OPEN"]
           e == Cancel(d, "open")
<1>1. DOMAIN d = Fields /\ d.state = "OPEN" /\ SameCloses(c, d)
  BY DEF Sound, Types, Fields, SameCloses
<1>2. Accept(c) = Arm(e, "ping")
  BY DEF Accept
<1> HIDE DEF d
<1>3. DOMAIN e = Fields /\ SameCloses(d, e)
  BY <1>1 DEF Fields, Cancel, SameCloses
<1> HIDE DEF e
<1>4. SameCloses(e, Arm(e, "ping"))
  BY <1>3 DEF Fields, Arm, SameCloses
<1>5. Leads(c, Accept(c)) /\ Accept(c).state = "OPEN" /\ SameCloses(c, Accept(c))
  BY <1>1, <1>2, <1>3, <1>4, AcceptLeads DEF SameCloses
<1> QED BY <1>5 DEF Moves, Truthful, SameCloses, Opening

LEMMA RefuseGoes ==
    ASSUME NEW c, Sound(c), Truthful(c)
    PROVE  Goes(c, Refuse(c)) /\ Refuse(c).closeId = c.closeId
<1>1. SameCloses(c, Refuse(c)) /\ Refuse(c).state = "CLOSED"
  BY DEF Sound, Types, Fields, Refuse, DropConnection, SameCloses
<1>2. Goes(c, Refuse(c))
  BY <1>1, RefuseLeads, StateClosed
<1> QED BY <1>1, <1>2 DEF SameCloses

(* A request that is answered moves its connection, dropped or not, to     *)
(* OPEN or to CLOSED, with no close frame made.                            *)
LEMMA AnswersMove ==
    ASSUME NEW c, NEW d \in Answers(c), Sound(c), Truthful(c), Writable(c)
    PROVE  Moves(c, d) /\ d.closeId = 0
<1> DEFINE s == SendData(c, FALSE)
           a == Accept(s)
           b == SendData(a, FALSE)
           f == SendFragments(c, 2, FALSE)
<1>1. d \in {a, Refuse(b), Refuse(s), DropConnection(s), DropConnection(f)}
  BY DEF Answers
<1>2. /\ Moves(c, s) /\ s.closeId = 0 /\ Writable(s)
      /\ Moves(c, f) /\ f.closeId = 0
  BY SendDataGoes, SendFragmentsGoes DEF Goes, SamePlace, Writable
<1> HIDE DEF s, f
<1>3. Sound(s) /\ Truthful(s)
  BY <1>2 DEF Moves, Leads
<1>4. Moves(c, a) /\ a.closeId = 0 /\ Writable(a)
  BY <1>2, <1>3, AcceptGoes, AcceptLeads, MovesOn
<1> HIDE DEF a
<1>5. Sound(a) /\ Truthful(a)
  BY <1>4 DEF Moves, Leads
<1>6. Moves(c, b) /\ b.closeId = 0
  BY <1>4, <1>5, SendDataGoes, MovesOn DEF Goes, SamePlace
<1> HIDE DEF b
<1>7. ASSUME NEW x \in {b, s, f}
      PROVE  /\ Moves(c, Refuse(x)) /\ Refuse(x).closeId = 0
             /\ Moves(c, DropConnection(x)) /\ DropConnection(x).closeId = 0
  <2>1. Moves(c, x) /\ x.closeId = 0 /\ Sound(x) /\ Truthful(x)
    BY <1>2, <1>6 DEF Moves, Leads
  <2>2. /\ Moves(x, Refuse(x)) /\ Refuse(x).closeId = x.closeId
        /\ Moves(x, DropConnection(x)) /\ DropConnection(x).closeId = x.closeId
    BY <2>1, RefuseGoes, DropGoes DEF Goes, SameCloses
  <2> QED BY <2>1, <2>2, MovesOn
<1> QED BY <1>1, <1>4, <1>7

-----------------------------------------------------------------------------
(* Session.  Until a connection fails every message the peer completed was *)
(* delivered, and while the transport is up nothing has been reported.     *)
SessionInv ==
    /\ WebSocketInv /\ Truthful(conn)
    /\ ~conn.failedByMe => Len(delivered) = offered
    /\ conn.up => outcome = "none"

(* What the endpoint shows of itself does not change.                      *)
Unseen == UNCHANGED <<offered, delivered, outcome>>

LEMMA GoesUnseen ==
    ASSUME SessionInv, WebSocketInv', Goes(conn, conn'), Unseen
    PROVE  SessionInv'
BY DEF SessionInv, Goes, Moves, Leads, Unseen

(* The mapping of a step, by what it does to the state of the connection.  *)
LEMMA OpenMaps ==
    ASSUME conn.state \in Opening, conn'.state \in {"OPEN", "CLOSING"},
           conn.closeId = 0, ~conn.closeSeen, ~conn'.closeSeen, Unseen
    PROVE  S!Open
BY DEF S!Open, Opening, Unseen

LEMMA GiveUpMaps ==
    ASSUME conn.state \in Opening, conn'.state = "CLOSED",
           conn'.closeId = conn.closeId, conn'.closeSeen = conn.closeSeen, Unseen
    PROVE  S!GiveUp
BY DEF S!GiveUp, Opening, Unseen

LEMMA ExchangeMaps ==
    ASSUME conn.state \in {"OPEN", "CLOSING"}, conn'.state \in {"OPEN", "CLOSING", "CLOSED"},
           conn.closeId # 0 => conn'.closeId # 0, conn.closeSeen => conn'.closeSeen, Unseen
    PROVE  S!ExchangeClose
BY DEF S!ExchangeClose, Opening, Unseen

LEMMA SameMaps ==
    ASSUME \/ conn.state \in Opening /\ conn'.state \in Opening
           \/ conn.state = "CLOSED" /\ conn'.state = "CLOSED",
           conn'.closeId = conn.closeId, conn'.closeSeen = conn.closeSeen, Unseen
    PROVE  UNCHANGED S!vars
BY DEF S!vars, Opening, Unseen

(* A step after the opening handshake that completes no message.           *)
LEMMA LaterMaps ==
    ASSUME SessionInv, conn.state \notin Opening, Goes(conn, conn'), Unseen
    PROVE  [S!Next]_S!vars
<1>1. conn.state \in {"OPEN", "CLOSING", "CLOSED"} /\ conn'.state \in {"OPEN", "CLOSING", "CLOSED"}
  BY DEF SessionInv, WebSocketInv, Sound, Types, States, Goes, Moves, Leads
<1>2. CASE conn.state = "CLOSED"
  BY <1>2, SameMaps DEF Goes, Moves
<1>3. CASE conn.state # "CLOSED"
  BY <1>1, <1>3, ExchangeMaps DEF Goes, Moves, S!Next
<1> QED BY <1>2, <1>3

(* Where a connection is not open yet, there was no close frame.           *)
LEMMA OpeningCloses ==
    ASSUME SessionInv, conn.state \in Opening
    PROVE  conn.closeId = 0 /\ ~conn.closeSeen
BY DEF SessionInv, WebSocketInv, Sound, Final, Truthful, Opening

LEMMA OpeningMaps ==
    ASSUME SessionInv, ProcessProxyConnect \/ ProcessHandshake
    PROVE  SessionInv' /\ [S!Next]_S!vars
<1>1. Sound(conn) /\ Truthful(conn) /\ Configured
  BY DEF SessionInv, WebSocketInv
<1>2. conn.state \in Opening /\ conn.closeId = 0 /\ ~conn.closeSeen /\ WebSocketInv' /\ Unseen
  BY OpeningCloses, OpeningStep DEF SessionInv, ProcessProxyConnect, ProcessHandshake,
     Opening, Unseen, receiveVars, endVars
<1>3. ASSUME Goes(conn, conn'), conn'.state = "CLOSED" => conn'.closeId = 0,
             conn'.state \in Opening => conn'.closeId = 0
      PROVE  SessionInv' /\ [S!Next]_S!vars
  <2>1. conn'.state \in States
    BY <1>3 DEF Goes, Moves, Leads, Sound, Types
  <2>2. ~conn'.closeSeen /\ conn'.closeSeen = conn.closeSeen
    BY <1>2, <1>3 DEF Goes, Moves
  <2>3. ASSUME conn'.state \in Opening PROVE [S!Next]_S!vars
    BY <1>2, <1>3, <2>2, <2>3, SameMaps
  <2>4. ASSUME conn'.state \in {"OPEN", "CLOSING"} PROVE [S!Next]_S!vars
    BY <1>2, <2>2, <2>4, OpenMaps DEF S!Next
  <2>5. ASSUME conn'.state = "CLOSED" PROVE [S!Next]_S!vars
    BY <1>2, <1>3, <2>2, <2>5, GiveUpMaps DEF S!Next
  <2> QED BY <1>2, <1>3, <2>1, <2>3, <2>4, <2>5, GoesUnseen DEF States
<1>4. CASE ProcessProxyConnect
  <2> DEFINE d == [conn EXCEPT !.state = "CONNECTING"]
  <2>1. DOMAIN d = Fields /\ SameFrames(conn, d) /\ SameCloses(conn, d) /\ d.state = "CONNECTING"
        /\ d.failedByMe = conn.failedByMe
    BY <1>1 DEF Sound, Types, Fields, SameFrames, SameCloses
  <2>2. conn' \in {SendData(d, FALSE), DropConnection(conn)}
    BY <1>4 DEF ProcessProxyConnect
  <2>3. conn.state = "PROXY_CONNECTING"
    BY <1>4 DEF ProcessProxyConnect
  <2> HIDE DEF d
  <2>4. Leads(conn, d)
    BY <1>1, <1>2, <2>1, <2>3, FramesKept DEF Sound, Types, States, Opening
  <2>5. Goes(conn, d)
    BY <1>1, <1>2, <2>1, <2>3, <2>4 DEF Goes, Moves, Truthful, SameCloses
  <2>6. Goes(d, SendData(d, FALSE)) /\ SameCloses(d, SendData(d, FALSE))
    BY <2>1, <2>5, OpenIsWritable, SendDataGoes, SendDataSame DEF Goes, Moves, Leads, Opening
  <2>7. Goes(conn, DropConnection(conn)) /\ SameCloses(conn, DropConnection(conn))
    BY <1>1, DropGoes
  <2>8. Goes(conn, conn') /\ conn'.closeId = 0
    BY <1>2, <2>1, <2>2, <2>5, <2>6, <2>7, GoesOn DEF SameCloses
  <2> QED BY <1>3, <2>8
<1>5. CASE ProcessHandshake
  <2> DEFINE s == SendData(conn, FALSE)
             r == Refuse(s)
             o == Accept(conn)
  <2>1. conn.state = "CONNECTING" /\ Writable(conn)
    BY <1>1, <1>5, OpenIsWritable DEF ProcessHandshake, Opening
  <2>2. \/ conn' \in Answers(conn) \union Answers(r)
        \/ conn' \in {o, FailConnection(o), Refuse(conn)}
    BY <1>5 DEF ProcessHandshake, ServerHandshake, ClientHandshake
  <2>3. Moves(conn, s) /\ Writable(s) /\ Sound(s) /\ Truthful(s)
    BY <1>1, <2>1, SendDataGoes DEF Goes, Moves, Leads
  <2>4. Moves(conn, o) /\ o.state = "OPEN" /\ o.closeId = 0
    BY <1>1, <1>2, <2>1, AcceptGoes
  <2> HIDE DEF s, o
  <2>5. Moves(conn, r) /\ Writable(r) /\ Sound(r) /\ Truthful(r)
    <3>1. Moves(s, r) /\ Writable(r)
      BY <2>3, RefuseGoes, RefuseLeads DEF Goes
    <3>2. Moves(conn, r)
      BY <2>3, <3>1, MovesOn
    <3> QED BY <3>1, <3>2 DEF Moves, Leads
  <2> HIDE DEF r
  <2>6. conn' \in Answers(conn) \union Answers(r) => Moves(conn, conn') /\ conn'.closeId = 0
    BY <1>1, <2>1, <2>5, AnswersMove, MovesOn
  <2>7. Moves(conn, Refuse(conn)) /\ Refuse(conn).closeId = 0
    BY <1>1, <1>2, RefuseGoes DEF Goes
  <2>8. /\ Moves(conn, FailConnection(o))
        /\ FailConnection(o).state = "CLOSED" => FailConnection(o).closeId = 0
        /\ FailConnection(o).state \notin Opening
    <3>1. /\ Moves(o, FailConnection(o))
          /\ FailConnection(o).state = "CLOSED" => FailConnection(o).closeId = o.closeId
      BY <1>1, <2>4, FailGoes DEF Goes, Moves, Leads, Configured, Opening
    <3>2. FailConnection(o).state \notin Opening
      BY <2>4, <3>1 DEF Moves, Leads, Opening
    <3> QED BY <2>4, <3>1, <3>2, MovesOn
  <2>9. /\ Moves(conn, conn')
        /\ conn'.state = "CLOSED" \/ conn'.state \in Opening => conn'.closeId = 0
    BY <2>2, <2>4, <2>6, <2>7, <2>8
  <2>10. Goes(conn, conn')
    BY <2>1, <2>9 DEF Goes
  <2> QED BY <1>3, <2>9, <2>10
<1> QED BY <1>4, <1>5

LEMMA FrameBeginMaps ==
    ASSUME SessionInv, FrameBegin
    PROVE  SessionInv' /\ [S!Next]_S!vars
<1>1. /\ Sound(conn) /\ Truthful(conn) /\ config.failByDrop \in BOOLEAN
      /\ conn.state \notin Opening /\ WebSocketInv' /\ Unseen
  BY FrameBeginStep DEF SessionInv, WebSocketInv, Configured, FrameBegin, Receiving, Opening,
     Unseen, endVars
<1>2. PICK n \in Nat : conn' = Violations(conn, n) \/ conn' = FailConnection(Violations(conn, n))
  BY DEF FrameBegin, BeginControl, BeginData, MessageFrameBegin
<1>3. Goes(conn, Violations(conn, n))
  BY <1>1, ViolationsGoes
<1>4. Goes(Violations(conn, n), FailConnection(Violations(conn, n)))
  BY <1>1, <1>3, FailGoes DEF Goes, Moves, Leads
<1>5. Goes(conn, conn')
  BY <1>2, <1>3, <1>4, GoesOn
<1> QED BY <1>1, <1>5, GoesUnseen, LaterMaps

(* The flaws of a frame and of its chunks leave messages alone.            *)
LEMMA ChunkGoes ==
    ASSUME NEW verdict, SessionInv, Receiving
    PROVE  Goes(conn, Chunk(conn, verdict)) /\ Sound(Chunk(conn, verdict))
           /\ Truthful(Chunk(conn, verdict)) /\ Chunk(conn, verdict).state \notin Opening
<1>1. Sound(conn) /\ Truthful(conn) /\ conn.state \notin Opening /\ config.failByDrop \in BOOLEAN
  BY DEF SessionInv, WebSocketInv, Configured, Receiving, Opening
<1>2. Goes(conn, Chunk(conn, verdict))
  BY <1>1, FailGoes, GoesNowhere DEF Chunk
<1> QED BY <1>1, <1>2 DEF Goes, Moves, Leads

LEMMA FrameDataMaps ==
    ASSUME SessionInv, FrameData
    PROVE  SessionInv' /\ [S!Next]_S!vars
<1>1. WebSocketInv' /\ Unseen /\ conn.state \notin Opening
  BY FrameDataStep DEF SessionInv, FrameData, Receiving, Opening, Unseen, endVars
<1>2. Goes(conn, conn')
  BY ChunkGoes DEF FrameData
<1> QED BY <1>1, <1>2, GoesUnseen, LaterMaps

(* A message that ends is one more for both sides, or the connection has   *)
(* failed and it is dropped.                                               *)
LEMMA FrameEndMaps ==
    ASSUME SessionInv, FrameEnd
    PROVE  SessionInv' /\ [S!Next]_S!vars
<1>1. WebSocketInv' /\ conn.state \in {"OPEN", "CLOSING"} /\ Receiving /\ UNCHANGED outcome
  BY FrameEndStep DEF SessionInv, FrameEnd, Receiving, endVars
<1>2. conn.state \notin Opening
  BY <1>1 DEF Opening
<1>3. PICK verdict \in Verdicts :
        \/ conn' = Chunk(conn, verdict) /\ UNCHANGED <<offered, delivered>>
        \/ EndMessage(Chunk(conn, verdict), verdict)
  BY DEF FrameEnd
<1> DEFINE c == Chunk(conn, verdict)
           flaws == IF verdict = "valid" THEN 0 ELSE 1
           d == Violations(c, flaws)
<1>4. Goes(conn, c) /\ Goes(c, d)
  <2>1. flaws \in Nat
    OBVIOUS
  <2>2. config.failByDrop \in BOOLEAN
    BY DEF SessionInv, WebSocketInv, Configured
  <2> HIDE DEF flaws, c
  <2> QED BY <1>1, <2>1, <2>2, ChunkGoes, ViolationsGoes DEF c
<1>5. \/ conn' = c /\ UNCHANGED <<offered, delivered>>
      \/ conn' = d /\ UNCHANGED <<offered, delivered>>
      \/ conn' = d /\ DeliverMessage(d, verdict)
  BY <1>3 DEF EndMessage
<1> HIDE DEF c, d
<1>6. Goes(conn, conn')
  BY <1>4, <1>5, GoesOn
<1>7. CASE UNCHANGED <<offered, delivered>>
  BY <1>1, <1>2, <1>6, <1>7, GoesUnseen, LaterMaps DEF Unseen
<1>8. CASE conn' = d /\ DeliverMessage(d, verdict)
  <2>1. /\ offered' = offered + 1
        /\ \/ conn'.failedByMe /\ delivered' = delivered
           \/ /\ ~conn'.failedByMe /\ ~conn.failedByMe
              /\ Len(delivered) = offered /\ Len(delivered') = offered + 1
    <3>1. delivered \in Seq(Deliverable)
      BY DEF SessionInv, WebSocketInv, Collected
    <3>2. \A m : delivered \in Seq(Deliverable) => Len(Append(delivered, m)) = Len(delivered) + 1
      OBVIOUS
    <3> QED BY <1>6, <1>8, <3>1, <3>2 DEF DeliverMessage, Goes, Moves, Leads, SessionInv
  <2>2. SessionInv'
    BY <1>1, <1>6, <2>1 DEF SessionInv, Goes, Moves, Leads
  <2>3. /\ conn'.state \in {"OPEN", "CLOSING", "CLOSED"}
        /\ conn.closeId # 0 => conn'.closeId # 0
        /\ conn.closeSeen => conn'.closeSeen
    BY <1>2, <1>6 DEF Goes, Moves, Leads, Sound, Types, States
  <2>4. S!TakeMessage
    BY <1>1, <2>1, <2>3 DEF S!TakeMessage, Opening
  <2> QED BY <2>2, <2>4 DEF S!Next
<1> QED BY <1>5, <1>7, <1>8

LEMMA ControlFrameMaps ==
    ASSUME SessionInv, ControlFrameEnd
    PROVE  SessionInv' /\ [S!Next]_S!vars
<1>1. /\ Sound(conn) /\ Truthful(conn) /\ config.failByDrop \in BOOLEAN
      /\ conn.state \in {"OPEN", "CLOSING"} /\ WebSocketInv' /\ Unseen
  BY ControlFrameStep DEF SessionInv, WebSocketInv, Configured, ControlFrameEnd, Receiving,
     Unseen, endVars
<1>2. conn.state \notin Opening
  BY <1>1 DEF Opening
<1>3. \/ \E flaws \in 0..2 : conn' = OnCloseFrame(conn, flaws)
      \/ conn' \in {OnPing(conn), OnPendingPong(conn), conn}
  BY DEF ControlFrameEnd
<1>4. CASE conn' \in {OnPing(conn), OnPendingPong(conn), conn}
  <2>1. Goes(conn, conn')
    BY <1>1, <1>4, OnPingGoes, OnPendingPongGoes, GoesNowhere
  <2> QED BY <1>1, <1>2, <2>1, GoesUnseen, LaterMaps
<1>5. ASSUME NEW flaws \in 0..2, conn' = OnCloseFrame(conn, flaws)
      PROVE  SessionInv' /\ [S!Next]_S!vars
  <2> DEFINE b == [conn EXCEPT !.closeSeen = TRUE]
  <2>1. flaws \in Nat
    OBVIOUS
  <2>2. Goes(b, conn')
    BY <1>1, <1>2, <1>5, <2>1, OnCloseFrameGoes
  <2>3. b.up = conn.up /\ b.closeId = conn.closeId /\ b.closeSeen = TRUE
        /\ b.state = conn.state /\ b.failedByMe = conn.failedByMe
    BY <1>1 DEF Sound, Types, Fields
  <2> HIDE DEF b
  <2>4. SessionInv'
    BY <1>1, <2>2, <2>3 DEF SessionInv, Goes, Moves, Leads, Unseen
  <2>5. conn'.state \in {"OPEN", "CLOSING", "CLOSED"}
    BY <1>2, <2>2, <2>3 DEF Goes, Moves, Leads, Sound, Types, States
  <2>6. S!ExchangeClose
    BY <1>1, <2>2, <2>3, <2>5, ExchangeMaps DEF Goes, Moves
  <2> QED BY <2>4, <2>6 DEF S!Next
<1> QED BY <1>3, <1>4, <1>5

(* The loss of the connection is the one report, and clean if both close   *)
(* frames were there; or the handler follows a null reason and reports     *)
(* nothing.                                                                *)
LEMMA ConnectionLostMaps ==
    ASSUME SessionInv, ConnectionLost
    PROVE  SessionInv' /\ [S!Next]_S!vars
<1> DEFINE l == LossCancels(conn)
           c == [l EXCEPT !.up = FALSE, !.state = "CLOSED"]
           r == [c EXCEPT !.reason = LossReason(c)]
<1>1. WebSocketInv' /\ outcome = "none" /\ UNCHANGED <<offered, delivered>> /\ conn.up
  BY ConnectionLostStep DEF SessionInv, ConnectionLost, receiveVars
<1>2. DOMAIN l = Fields /\ SameCloses(conn, l) /\ l.failedByMe = conn.failedByMe
  BY DEF SessionInv, WebSocketInv, Sound, Types, Fields, LossCancels, Cancel, SameCloses
<1>3. \/ conn' = c /\ conn.wasClean /\ outcome' = "clean"
      \/ conn' = r /\ ~conn.wasClean /\ outcome' \in {"unclean", outcome}
  BY DEF ConnectionLost
<1> HIDE DEF l
<1>4. /\ DOMAIN c = Fields /\ c.state = "CLOSED" /\ c.up = FALSE /\ c.wasClean = l.wasClean
      /\ c.closeId = l.closeId /\ c.closeSeen = l.closeSeen /\ c.failedByMe = l.failedByMe
  BY <1>2 DEF Fields
<1> HIDE DEF c
<1>5. /\ r.state = "CLOSED" /\ r.up = FALSE /\ r.wasClean = c.wasClean
      /\ r.closeId = c.closeId /\ r.closeSeen = c.closeSeen /\ r.failedByMe = c.failedByMe
  BY <1>4 DEF Fields
<1> HIDE DEF r
<1>6. /\ conn'.state = "CLOSED" /\ conn'.up = FALSE /\ conn'.wasClean = conn.wasClean
      /\ conn'.closeId = conn.closeId /\ conn'.closeSeen = conn.closeSeen
      /\ conn'.failedByMe = conn.failedByMe
  BY <1>2, <1>3, <1>4, <1>5 DEF SameCloses
<1>7. SessionInv'
  BY <1>1, <1>6 DEF SessionInv, Truthful, Opening
<1>8. CASE outcome' = outcome
  <2>1. conn.state \in States
    BY DEF SessionInv, WebSocketInv, Sound, Types
  <2>2. CASE conn.state \in Opening
    BY <1>1, <1>6, <1>7, <1>8, <2>2, GiveUpMaps DEF Unseen, S!Next
  <2>3. CASE conn.state \in {"OPEN", "CLOSING"}
    BY <1>1, <1>6, <1>7, <1>8, <2>3, ExchangeMaps DEF Unseen, S!Next
  <2>4. CASE conn.state = "CLOSED"
    BY <1>1, <1>6, <1>7, <1>8, <2>4, SameMaps DEF Unseen
  <2> QED BY <2>1, <2>2, <2>3, <2>4 DEF States
<1>9. CASE outcome' = "unclean"
  <2>1. S!Report
    BY <1>1, <1>6, <1>9 DEF S!Report, Opening
  <2> QED BY <1>7, <2>1 DEF S!Next
<1>10. CASE outcome' = "clean" /\ conn.wasClean
  <2>1. conn.closeId # 0 /\ conn.closeSeen
    BY <1>10 DEF SessionInv, Truthful
  <2>2. S!Report
    BY <1>1, <1>6, <1>10, <2>1 DEF S!Report, Opening
  <2> QED BY <1>7, <2>2 DEF S!Next
<1> QED BY <1>3, <1>7, <1>8, <1>9, <1>10

LEMMA ClockMaps ==
    ASSUME SessionInv, Clock
    PROVE  SessionInv' /\ [S!Next]_S!vars
<1>1. Sound(conn) /\ Truthful(conn) /\ WebSocketInv' /\ Unseen
  BY ClockStep DEF SessionInv, WebSocketInv, Clock, DelayedSend, Expire, HandleTimeout, Unseen,
     receiveVars, endVars
<1>2. ASSUME Goes(conn, conn'),
             conn.state \in Opening => /\ conn'.state \in {conn.state, "CLOSED"}
                                       /\ conn'.closeId = conn.closeId
      PROVE  SessionInv' /\ [S!Next]_S!vars
  <2>1. SessionInv'
    BY <1>1, <1>2, GoesUnseen
  <2>2. CASE conn.state \notin Opening
    BY <1>1, <1>2, <2>1, <2>2, LaterMaps
  <2>3. CASE conn.state \in Opening /\ conn'.state = "CLOSED"
    BY <1>1, <1>2, <2>1, <2>3, GiveUpMaps DEF Goes, Moves, S!Next
  <2>4. CASE conn.state \in Opening /\ conn'.state = conn.state
    BY <1>1, <1>2, <2>1, <2>4, SameMaps DEF Goes, Moves
  <2> QED BY <1>2, <2>2, <2>3, <2>4
<1>3. ASSUME Leads(conn, conn'), SameCloses(conn, conn'), conn'.state = conn.state
      PROVE  SessionInv' /\ [S!Next]_S!vars
  BY <1>1, <1>2, <1>3, StateKept DEF SameCloses
<1>4. CASE DelayedSend
  <2> DEFINE c == [conn EXCEPT !.sends = @ - 1]
  <2>1. DOMAIN c = Fields /\ SameCloses(conn, c) /\ c.state = conn.state /\ conn' = Send(c)
        /\ c.failedByMe = conn.failedByMe
    BY <1>1, <1>4 DEF DelayedSend, Sound, Types, Fields, SameCloses
  <2> HIDE DEF c
  <2>2. SameCloses(conn, conn') /\ conn'.state = conn.state
    BY <2>1, SendSame DEF SameCloses
  <2>3. conn'.failedByMe = conn.failedByMe
    BY <2>1 DEF Send, Fields
  <2>4. Leads(conn, conn')
    BY <1>1, <2>2, <2>3 DEF WebSocketInv, Leads
  <2> QED BY <1>3, <2>2, <2>4
<1>5. ASSUME NEW t \in AllTimers, Expire(t) PROVE SessionInv' /\ [S!Next]_S!vars
  <2> DEFINE k == Cancel(conn, t)
  <2>1. conn' = [k EXCEPT !.due[t] = @ + 1]
    BY <1>5 DEF Expire
  <2>2. DOMAIN k = Fields /\ SameCloses(conn, k) /\ k.state = conn.state
        /\ k.failedByMe = conn.failedByMe
    BY <1>1 DEF Sound, Types, Fields, Cancel, SameCloses
  <2> HIDE DEF k
  <2>3. SameCloses(k, conn') /\ conn'.state = k.state /\ conn'.failedByMe = k.failedByMe
    BY <2>1, <2>2 DEF Fields, SameCloses
  <2>4. Leads(conn, conn') /\ SameCloses(conn, conn') /\ conn'.state = conn.state
    BY <1>1, <2>2, <2>3 DEF WebSocketInv, Leads, SameCloses
  <2> QED BY <1>3, <2>4
<1>6. ASSUME NEW t \in AllTimers, HandleTimeout(t) PROVE SessionInv' /\ [S!Next]_S!vars
  <2> DEFINE k == Fired(conn, t)
  <2>1. conn' = OnTimeout(k, t)
    BY <1>6 DEF HandleTimeout
  <2>2. Goes(conn, k) /\ k.state = conn.state
    BY <1>1, TimersGo, FiredLeads
  <2>3. k.closeId = conn.closeId
    BY <1>1 DEF Sound, Types, Fields, Fired, Cancel
  <2> HIDE DEF k
  <2>4. /\ Goes(k, conn')
        /\ k.state \in Opening => conn'.state \in {k.state, "CLOSED"} /\ conn'.closeId = k.closeId
    BY <2>1, <2>2, OnTimeoutGoes DEF Goes, Moves, Leads
  <2>5. Goes(conn, conn')
    BY <2>2, <2>4, GoesOn
  <2> QED BY <1>2, <2>2, <2>3, <2>4, <2>5
<1> QED BY <1>4, <1>5, <1>6 DEF Clock

LEMMA ApplicationMaps ==
    ASSUME SessionInv, Application
    PROVE  SessionInv' /\ [S!Next]_S!vars
<1>1. /\ Sound(conn) /\ Truthful(conn) /\ WebSocketInv' /\ Unseen
      /\ Writable(conn) /\ conn.state \notin Opening
  BY ApplicationStep, OpenIsWritable DEF SessionInv, WebSocketInv, Application, SendMessage,
     SendPing, SendClose, Opening, Unseen, receiveVars, endVars
<1>2. Goes(conn, conn')
  <2>1. CASE SendMessage
    BY <1>1, <2>1, SendFragmentsGoes DEF SendMessage
  <2>2. CASE SendPing
    BY <1>1, <2>2, SendDataGoes DEF SendPing
  <2>3. CASE SendClose
    BY <1>1, <2>3, CloseFrameGoes DEF SendClose
  <2> QED BY <2>1, <2>2, <2>3 DEF Application
<1> QED BY <1>1, <1>2, GoesUnseen, LaterMaps

LEMMA SessionStarts == Init => SessionInv /\ S!Init
<1> SUFFICES ASSUME Init PROVE SessionInv /\ S!Init
  OBVIOUS
<1>1. WebSocketInv
  BY InitInv
<1>2. /\ conn.state \in Opening /\ conn.closeId = 0 /\ ~conn.closeSeen /\ ~conn.wasClean
  <2> DEFINE c == Arm(Idle, "open")
             p == [c EXCEPT !.state = "PROXY_CONNECTING"]
  <2>1. DOMAIN c = Fields /\ c.state = "CONNECTING" /\ c.closeSeen = FALSE /\ c.wasClean = FALSE
        /\ c.closeId = 0 /\ c.made = 0
    BY DEF Arm, Idle, Fields
  <2>2. conn \in {c, SendData(c, FALSE), SendData(p, FALSE)}
    <3>1. config.role \in {"server", "client", "proxied"}
      BY <1>1 DEF WebSocketInv, Configured
    <3> QED BY <3>1 DEF Init, Made
  <2> HIDE DEF c
  <2>3. DOMAIN p = Fields /\ p.state = "PROXY_CONNECTING" /\ p.closeSeen = FALSE
        /\ p.wasClean = FALSE /\ p.closeId = 0
    BY <2>1 DEF Fields
  <2> HIDE DEF p
  <2>4. ASSUME NEW x, DOMAIN x = Fields, x.state \in Opening, x.closeSeen = FALSE,
               x.wasClean = FALSE, x.closeId = 0
        PROVE  LET y == SendData(x, FALSE)
               IN y.state \in Opening /\ y.closeSeen = FALSE /\ y.wasClean = FALSE /\ y.closeId = 0
    BY <2>4 DEF SendData, Trigger, Send, Fields
  <2> QED BY <2>1, <2>2, <2>3, <2>4 DEF Opening
<1>3. SessionInv
  BY <1>1, <1>2 DEF SessionInv, Truthful, Init, Opening
<1>4. S!Init
  BY <1>2 DEF S!Init, Init, Opening
<1> QED BY <1>3, <1>4

LEMMA SessionStep == SessionInv /\ [Next]_vars => SessionInv' /\ [S!Next]_S!vars
<1> SUFFICES ASSUME SessionInv, [Next]_vars PROVE SessionInv' /\ [S!Next]_S!vars
  OBVIOUS
<1>1. CASE Application
  BY <1>1, ApplicationMaps
<1>2. CASE Peer
  BY <1>2, OpeningMaps, FrameBeginMaps, FrameDataMaps, FrameEndMaps, ControlFrameMaps,
     ConnectionLostMaps DEF Peer
<1>3. CASE Clock
  BY <1>3, ClockMaps
<1>4. CASE UNCHANGED vars
  <2>1. WebSocketInv'
    BY NextInv DEF SessionInv
  <2> QED BY <1>4, <2>1 DEF vars, SessionInv, Truthful, S!vars
<1> QED BY <1>1, <1>2, <1>3, <1>4 DEF Next

(* The endpoint implements Session, whatever the peer sends and whenever   *)
(* its timers run: messages reach onMessage in order with none left out    *)
(* before the last, the loss is reported once at most, and it is reported  *)
(* clean only after the peer's close frame and one made in return          *)
(* (protocol.cpp 223-264, 735, 947-1018).                                  *)
THEOREM SessionKept == Spec => ImplementsSession
BY SessionStarts, SessionStep, PTL DEF Spec, ImplementsSession, S!Spec
=============================================================================
