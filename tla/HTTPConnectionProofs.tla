------------------------ MODULE HTTPConnectionProofs ------------------------
(***************************************************************************)
(* Of the HTTP server's side of a connection: requests take turns, every   *)
(* finished response is framed, and an open connection has something to go *)
(* on with.  The methods are operators from the record of the connection   *)
(* to itself, and call one another: each has a lemma that says of the      *)
(* record it leaves what its caller needs, from CloseHTTP up to the        *)
(* actions.  Sound is what a method keeps however far it gets; Settles is  *)
(* what it leaves once the handler, or the reactor, has the turn again.    *)
(***************************************************************************)
EXTENDS HTTPConnection, TLAPS, SequenceTheorems, WellFoundedInduction

(* Octets as clients send them.                                            *)
Names == {"head", "end", "body", "len", "cr", "lf"}

Wires == {o \in Names \X Int : /\ o[1] = "head" => o[2] \in 1..Len(script)
                               /\ o[1] = "len" => o[2] \in Nat}

HTTPFields ==
    {"status", "state", "buffer", "eaten", "want", "posted", "frame", "raised", "req",
     "bytesRead", "bytesToRead", "readFinished", "writeFinished", "pendingWrite",
     "streamCallback", "unsent", "disconnectOnFinish", "chunkingOutput", "expected",
     "closeCallback", "header", "body", "stray", "due", "stage", "headersWritten",
     "finished", "buffered", "length", "code", "flushes", "begun", "heads", "sent",
     "ends", "asserted", "unreachable"}

Kinds == {"none", "bytes", "until", "regex"}

(* What a read looks for is in the buffer.                                 *)
BlankLine(b, i) == b[i][1] = "end"
LineEnd(b, i) == i > 1 /\ b[i - 1][1] = "cr" /\ b[i][1] = "lf"

Satisfied(w, b) ==
    \/ w.kind = "bytes" /\ Len(b) >= w.n
    \/ w.kind = "until" /\ \E i \in 1..Len(b) : LineEnd(b, i)
    \/ w.kind = "regex" /\ \E i \in 1..Len(b) : BlankLine(b, i)

(* What the argument needs of the types.                                   *)
Types(s) ==
    /\ DOMAIN s = HTTPFields
    /\ s.status \in {"new", "open", "closing", "lost"}
    /\ s.want.kind \in Kinds /\ (s.want.kind = "bytes" => s.want.n \in Nat \ {0})
    /\ s.buffer \in Seq(Wires) /\ s.eaten \in 0..Len(s.buffer)
    /\ s.posted \in Nat /\ s.stray \in Nat /\ s.due \in Nat
    /\ s.bytesRead \in Nat /\ s.bytesToRead \in Nat /\ s.begun \in Nat
    /\ s.buffered \in Nat /\ s.flushes \in Nat
    /\ s.heads \in Nat /\ s.sent \in Nat /\ s.ends \in Nat
    /\ s.length \in Nat \cup {NoLength} /\ s.expected \in Nat \cup {NoLength}

(* A handler has the request and may still act.                            *)
Lives(s) == s.frame # "idle" \/ s.stage \in {"preparing", "waiting"}

(* Who is in turn: a request that was answered was read, or ends the       *)
(* connection; one that was read, or whose data a handler is given, is not *)
(* being read.                                                             *)
Turn(s) ==
    /\ s.writeFinished => s.readFinished \/ s.disconnectOnFinish
    /\ s.readFinished => s.want = NoRead
    /\ s.frame = "data" => /\ s.want = NoRead /\ ~s.readFinished
                           /\ s.stage = "found" /\ s.state # "READ_HEADER"
    /\ s.want # NoRead /\ s.state # "READ_HEADER" => s.stage = "found"
    /\ s.unsent /\ s.headersWritten /\ ~s.pendingWrite =>
            s.expected > 0 \/ (s.status # "open" /\ Kind(s).method # "HEAD")
    /\ ~s.asserted
    /\ s.status = "new" => /\ s.want = NoRead /\ ~Lives(s) /\ ~s.unsent
                           /\ s.begun = 0 /\ s.posted = 0

(* Nothing of a response was made.                                         *)
Blank(s) ==
    /\ ~s.writeFinished /\ ~s.pendingWrite /\ ~s.chunkingOutput
    /\ s.heads = 0 /\ s.sent = 0 /\ s.ends = 0 /\ s.expected = NoLength

(* What may still be written of a response that was begun.                 *)
Budget(s) ==
    /\ s.heads = 1
    /\ s.chunkingOutput <=> Kind(s).version = "1.1" /\ ~Bodyless(s) /\ s.length = NoLength
    /\ ~s.chunkingOutput => s.ends = 0
    /\ Bodyless(s) /\ s.flushes = 0 => s.sent = 0 /\ s.buffered = 0
    /\ IF Omitted(s) THEN s.sent = 0 /\ s.expected = 0
       ELSE IF s.length = NoLength THEN s.expected = NoLength
       ELSE s.expected >= 0 /\ s.expected = s.length - s.sent

Framed(s) ==
    /\ s.state = "READ_HEADER" => Blank(s) /\ ~s.readFinished
    /\ ~s.headersWritten => Blank(s)
    /\ s.headersWritten /\ s.state # "READ_HEADER" => Budget(s)
    /\ s.writeFinished => s.expected <= 0 /\ (s.chunkingOutput => s.ends = 1)

(* While the connection is open, what it waits for comes: a posted read    *)
(* for a read that is satisfied, a timer for a request, the completion of  *)
(* a write for the end of a response.                                      *)
Posted(s) ==
    s.status = "open" =>
        (Satisfied(s.want, SubSeq(s.buffer, s.eaten + 1, Len(s.buffer))) => s.posted > 0)

Timed(s) ==
    s.status = "open" /\ config.timeouts /\ ~s.readFinished =>
        s.header \/ s.body \/ s.stray > 0 \/ s.due > 0

Sends(s) ==
    s.status = "open" =>
        /\ s.writeFinished => s.pendingWrite
        /\ s.pendingWrite /\ s.unsent => s.streamCallback
        /\ s.unsent /\ s.headersWritten => s.pendingWrite

Attended(s) == Posted(s) /\ Timed(s) /\ Sends(s)
EndsOnce(s) == s.status = "open" /\ s.ends > 0 => s.writeFinished
Awake(s) == Attended(s) /\ EndsOnce(s)

Base(s) == Types(s) /\ Turn(s) /\ Framed(s)
Sound(s) == Base(s) /\ Awake(s)

(* The handler has not finished.                                           *)
Unfinished(s) ==
    /\ Lives(s) => s.state # "READ_HEADER"
    /\ s.writeFinished => s.status = "lost"

(* A status without a body has none, unless the handler flushed.           *)
Fits(s) == ~s.headersWritten /\ Bodyless(s) /\ s.flushes = 0 => s.buffered = 0

(* Of a handler that has not finished, the headers went out by a flush.    *)
Tidy(s) == s.finished \/ ~s.headersWritten \/ s.flushes > 0

Settles(s) ==
    /\ ~s.finished => Unfinished(s)
    /\ Lives(s) \/ s.want # NoRead \/ s.status = "new" => Tidy(s)
    /\ s.frame \in {"finish", "emptyBody", "deferred"} => s.stage \in {"prepare", "method"}
    /\ s.frame \in {"idle", "data", "finish", "emptyBody", "deferred"}

(* What a handler, or a step of the application, leaves.                   *)
Steady(s) ==
    /\ Sound(s) /\ Settles(s) /\ ~s.raised
    /\ s.frame \in {"idle", "deferred"} => s.eaten = 0

HTTPInv ==
    /\ Steady(h)
    /\ wire \in Seq(Wires) /\ script \in Scripts

-----------------------------------------------------------------------------
LEMMA LeastNat ==
    ASSUME NEW T, T \subseteq Nat, T # {}
    PROVE  \E x \in T : \A y \in T : x <= y
<1> DEFINE R == {ss \in Nat \X Nat : ss[1] < ss[2]}
<1>1. IsWellFoundedOn(R, Nat)
  BY NatLessThanWellFounded DEF OpToRel
<1>2. PICK x \in T : \A y \in T : ~ (<<y, x>> \in R)
  <2> HIDE DEF R
  <2> QED BY <1>1, WFMin, Zenon
<1>3. ASSUME NEW y \in T PROVE ~(y < x)
  <2>1. <<y, x>> \in Nat \X Nat /\ <<y, x>>[1] = y /\ <<y, x>>[2] = x
    OBVIOUS
  <2>2. ~ (<<y, x>>[1] < <<y, x>>[2])
    BY <1>2, <2>1
  <2> QED BY <2>1, <2>2
<1> QED BY <1>3

LEMMA FindReadPosFinds ==
    ASSUME NEW b \in Seq(Wires), NEW w, w.kind \in Kinds,
           w.kind = "bytes" => w.n \in Nat \ {0}
    PROVE  FindReadPos(w, b) \in 0..Len(b) /\ (FindReadPos(w, b) > 0 <=> Satisfied(w, b))
<1> DEFINE f == FindReadPos(w, b)
<1>1. CASE w.kind = "bytes"
  <2>1. f = IF Len(b) >= w.n THEN w.n ELSE 0
    BY <1>1, Zenon DEF FindReadPos
  <2> HIDE DEF f
  <2>2. f \in 0..Len(b) /\ (f > 0 <=> Satisfied(w, b))
    BY <1>1, <2>1 DEF Satisfied
  <2> QED BY <2>2 DEF f
<1>2. CASE w.kind = "until"
  <2> DEFINE T == {i \in 1..Len(b) : LineEnd(b, i)}
  <2>1. f = IF \E i \in 1..Len(b) : LineEnd(b, i)
            THEN CHOOSE i \in 1..Len(b) : LineEnd(b, i) /\ \A j \in 1..(i - 1) : ~LineEnd(b, j)
            ELSE 0
    BY <1>2, Zenon DEF FindReadPos, UpTo, LineEnd
  <2> HIDE DEF f
  <2>2. ASSUME NEW y \in 1..Len(b), LineEnd(b, y) PROVE f \in 1..Len(b)
    <3>1. PICK x \in T : \A z \in T : x <= z
      <4>1. T # {} /\ T \subseteq Nat
        BY <2>2
      <4> HIDE DEF T
      <4> QED BY <4>1, LeastNat
    <3>2. x \in 1..Len(b) /\ LineEnd(b, x) /\ \A j \in 1..(x - 1) : ~LineEnd(b, j)
      BY <3>1
    <3> QED BY <2>1, <3>2
  <2>3. (~ \E i \in 1..Len(b) : LineEnd(b, i)) => f = 0
    BY <2>1, Zenon
  <2>4. f \in 0..Len(b) /\ (f > 0 <=> Satisfied(w, b))
    BY <1>2, <2>2, <2>3 DEF Satisfied
  <2> QED BY <2>4 DEF f
<1>3. CASE w.kind = "regex"
  <2> DEFINE T == {i \in 1..Len(b) : BlankLine(b, i)}
  <2>1. f = IF \E i \in 1..Len(b) : BlankLine(b, i)
            THEN CHOOSE i \in 1..Len(b) : BlankLine(b, i) /\ \A j \in 1..(i - 1) : ~BlankLine(b, j)
            ELSE 0
    BY <1>3, Zenon DEF FindReadPos, UpTo, BlankLine
  <2> HIDE DEF f
  <2>2. ASSUME NEW y \in 1..Len(b), BlankLine(b, y) PROVE f \in 1..Len(b)
    <3>1. PICK x \in T : \A z \in T : x <= z
      <4>1. T # {} /\ T \subseteq Nat
        BY <2>2
      <4> HIDE DEF T
      <4> QED BY <4>1, LeastNat
    <3>2. x \in 1..Len(b) /\ BlankLine(b, x) /\ \A j \in 1..(x - 1) : ~BlankLine(b, j)
      BY <3>1
    <3> QED BY <2>1, <3>2
  <2>3. (~ \E i \in 1..Len(b) : BlankLine(b, i)) => f = 0
    BY <2>1, Zenon
  <2>4. f \in 0..Len(b) /\ (f > 0 <=> Satisfied(w, b))
    BY <1>3, <2>2, <2>3 DEF Satisfied
  <2> QED BY <2>4 DEF f
<1>4. CASE w.kind = "none"
  <2>1. f = 0
    BY <1>4, Zenon DEF FindReadPos
  <2> QED BY <1>4, <2>1 DEF Satisfied
<1> QED BY <1>1, <1>2, <1>3, <1>4 DEF Kinds

(* What the end of a buffer satisfies, the buffer does.                    *)
LEMMA SuffixSatisfies ==
    ASSUME NEW b \in Seq(Wires), NEW e \in 0..Len(b), NEW w,
           w.kind = "bytes" => w.n \in Nat \ {0},
           Satisfied(w, SubSeq(b, e + 1, Len(b)))
    PROVE  Satisfied(w, b)
<1> DEFINE c == SubSeq(b, e + 1, Len(b))
<1>1. c \in Seq(Wires) /\ Len(c) = Len(b) - e /\ \A i \in 1..Len(c) : c[i] = b[e + i]
  OBVIOUS
<1>2. Satisfied(w, c)
  OBVIOUS
<1> HIDE DEF c
<1>3. ASSUME NEW i \in 1..Len(c), LineEnd(c, i) PROVE e + i \in 1..Len(b) /\ LineEnd(b, e + i)
  <2>1. i - 1 \in 1..Len(c) /\ i > 1
    BY <1>3 DEF LineEnd
  <2>3. c[i - 1] = b[e + (i - 1)]
    BY <1>1, <2>1
  <2>4. c[i] = b[e + i]
    BY <1>1
  <2>2. e + (i - 1) = (e + i) - 1 /\ e + i \in 1..Len(b) /\ e + i > 1
    BY <1>1, <2>1
  <2>5. b[(e + i) - 1][1] = "cr" /\ b[e + i][1] = "lf"
    BY <1>3, <2>2, <2>3, <2>4 DEF LineEnd
  <2> QED BY <2>2, <2>5 DEF LineEnd
<1>4. ASSUME NEW i \in 1..Len(c), BlankLine(c, i) PROVE e + i \in 1..Len(b) /\ BlankLine(b, e + i)
  BY <1>1, <1>4 DEF BlankLine
<1>5. CASE w.kind = "bytes"
  BY <1>1, <1>2, <1>5 DEF Satisfied
<1>6. CASE w.kind = "until"
  BY <1>2, <1>3, <1>6 DEF Satisfied
<1>7. CASE w.kind = "regex"
  BY <1>2, <1>4, <1>7 DEF Satisfied
<1> QED BY <1>2, <1>5, <1>6, <1>7 DEF Satisfied

-----------------------------------------------------------------------------
(* What a method leaves alone.                                             *)
SameRequest(s, t) ==
    /\ t.readFinished = s.readFinished /\ t.req = s.req /\ t.begun = s.begun
    /\ t.bytesRead = s.bytesRead /\ t.bytesToRead = s.bytesToRead
    /\ t.buffer = s.buffer /\ t.eaten = s.eaten

SameRead(s, t) ==
    /\ t.want = s.want /\ t.state = s.state
    /\ t.posted = s.posted /\ t.asserted = s.asserted

SameTimers(s, t) ==
    t.header = s.header /\ t.body = s.body /\ t.stray = s.stray /\ t.due = s.due

SameSending(s, t) ==
    /\ t.pendingWrite = s.pendingWrite
    /\ t.streamCallback = s.streamCallback /\ t.unsent = s.unsent

SameOutline(s, t) ==
    /\ t.writeFinished = s.writeFinished /\ t.disconnectOnFinish = s.disconnectOnFinish
    /\ t.chunkingOutput = s.chunkingOutput /\ t.heads = s.heads /\ t.ends = s.ends

SameAmount(s, t) == t.expected = s.expected /\ t.sent = s.sent

SameResponse(s, t) == SameSending(s, t) /\ SameOutline(s, t) /\ SameAmount(s, t)

SameHandler(s, t) ==
    /\ t.frame = s.frame /\ t.stage = s.stage /\ t.finished = s.finished
    /\ t.buffered = s.buffered /\ t.headersWritten = s.headersWritten
    /\ t.length = s.length /\ t.code = s.code /\ t.flushes = s.flushes

(* What only closes: nothing but the status and the timers.                *)
LEMMA CloseFacts ==
    ASSUME NEW s, DOMAIN s = HTTPFields
    PROVE  LET t == CloseHTTP(s)
           IN /\ DOMAIN t = HTTPFields /\ t.raised = s.raised
              /\ t.status = (IF s.status = "open" THEN "closing" ELSE s.status)
              /\ t.stray = s.stray /\ t.due = s.due
              /\ SameRequest(s, t) /\ SameRead(s, t) /\ SameResponse(s, t) /\ SameHandler(s, t)
<1> DEFINE c == ClearCallbacks(s)
           t == CloseHTTP(s)
<1>1. /\ DOMAIN c = HTTPFields /\ c.raised = s.raised /\ c.status = s.status
      /\ SameTimers(s, c) /\ SameRequest(s, c) /\ SameRead(s, c)
      /\ SameResponse(s, c) /\ SameHandler(s, c)
  BY
  DEF ClearCallbacks, HTTPFields, SameTimers, SameRequest, SameRead, SameResponse,
      SameSending, SameOutline, SameAmount, SameHandler
<1> HIDE DEF c
<1>2. t = [c EXCEPT !.status = IF s.status = "open" THEN "closing" ELSE c.status,
                    !.header = FALSE, !.body = FALSE]
  BY DEF CloseHTTP, Open, c
<1>3. /\ DOMAIN t = HTTPFields /\ t.raised = c.raised
      /\ t.status = (IF s.status = "open" THEN "closing" ELSE s.status)
      /\ t.stray = c.stray /\ t.due = c.due
      /\ SameRequest(c, t) /\ SameRead(c, t) /\ SameResponse(c, t) /\ SameHandler(c, t)
  BY <1>1, <1>2
  DEF HTTPFields, SameRequest, SameRead, SameResponse, SameSending, SameOutline,
      SameAmount, SameHandler
<1> HIDE DEF t
<1>4. /\ DOMAIN t = HTTPFields /\ t.raised = s.raised
      /\ t.status = (IF s.status = "open" THEN "closing" ELSE s.status)
      /\ t.stray = s.stray /\ t.due = s.due
      /\ SameRequest(s, t) /\ SameRead(s, t) /\ SameResponse(s, t) /\ SameHandler(s, t)
  BY <1>1, <1>3
  DEF SameTimers, SameRequest, SameRead, SameResponse, SameSending, SameOutline,
      SameAmount, SameHandler
<1> QED BY <1>4 DEF t

LEMMA CloseSound ==
    ASSUME NEW s, Base(s)
    PROVE  Sound(CloseHTTP(s)) /\ CloseHTTP(s).status # "open"
<1> DEFINE t == CloseHTTP(s)
<1>1. /\ DOMAIN t = HTTPFields
      /\ t.status = (IF s.status = "open" THEN "closing" ELSE s.status)
      /\ t.stray = s.stray /\ t.due = s.due
      /\ SameRequest(s, t) /\ SameRead(s, t) /\ SameResponse(s, t) /\ SameHandler(s, t)
  BY CloseFacts DEF Base, Types
<1> HIDE DEF t
<1>2. t.status \in {"new", "closing", "lost"} /\ (t.status = "new" => s.status = "new")
  BY <1>1 DEF Base, Types
<1>3. Types(t)
  BY <1>1, <1>2
  DEF Base, Types, SameRequest, SameRead, SameResponse, SameSending, SameOutline,
      SameAmount, SameHandler
<1>4. Turn(t)
  BY <1>1, <1>2
  DEF Base, Turn, Kind, Lives, SameRequest, SameRead, SameResponse, SameSending,
      SameOutline, SameAmount, SameHandler
<1>5. Framed(t)
  BY <1>1
  DEF Base, Framed, Blank, Budget, Kind, Omitted, Bodyless, SameRequest, SameRead,
      SameResponse, SameSending, SameOutline, SameAmount, SameHandler
<1>6. Awake(t)
  BY <1>2 DEF Awake, Attended, Posted, Timed, Sends, EndsOnce
<1>7. Sound(t) /\ t.status # "open"
  BY <1>2, <1>3, <1>4, <1>5, <1>6 DEF Sound, Base
<1> QED BY <1>7 DEF t

LEMMA ArmFacts ==
    ASSUME NEW s, Types(s), NEW x \in {"header", "body"}
    PROVE  LET t == Arm(s, x)
           IN /\ Types(t) /\ t.raised = s.raised /\ t.status = s.status
              /\ SameRequest(s, t) /\ SameRead(s, t) /\ SameResponse(s, t) /\ SameHandler(s, t)
              /\ config.timeouts => t.header \/ t.body \/ t.stray > 0 \/ t.due > 0
<1> DEFINE t == Arm(s, x)
           n == IF s[x] THEN 1 ELSE 0
           u == [s EXCEPT ![x] = TRUE, !.stray = s.stray + n]
<1>1. t = IF config.timeouts THEN u ELSE s
  BY DEF Arm
<1>2. n \in Nat
  OBVIOUS
<1> HIDE DEF n
<1>3. /\ DOMAIN u = HTTPFields /\ u.raised = s.raised /\ u.status = s.status
      /\ u.stray = s.stray + n /\ u.due = s.due /\ (u.header \/ u.body)
      /\ SameRequest(s, u) /\ SameRead(s, u) /\ SameResponse(s, u) /\ SameHandler(s, u)
  <2>1. CASE x = "header"
    BY <2>1
    DEF Types, HTTPFields, SameRequest, SameRead, SameResponse, SameSending, SameOutline,
        SameAmount, SameHandler
  <2>2. CASE x = "body"
    BY <2>2
    DEF Types, HTTPFields, SameRequest, SameRead, SameResponse, SameSending, SameOutline,
        SameAmount, SameHandler
  <2> QED BY <2>1, <2>2
<1> HIDE DEF u
<1>4. Types(u)
  <2>1. s.stray \in Nat
    BY DEF Types
  <2>2. u.stray \in Nat
    BY <1>2, <1>3, <2>1
  <2> QED BY <1>3, <2>2
          DEF Types, SameRequest, SameRead, SameResponse, SameOutline, SameAmount,
              SameHandler
<1>5. SameRequest(s, s) /\ SameRead(s, s) /\ SameResponse(s, s) /\ SameHandler(s, s)
  BY
  DEF SameRequest, SameRead, SameResponse, SameSending, SameOutline, SameAmount,
      SameHandler
<1> HIDE DEF t
<1>6. /\ Types(t) /\ t.raised = s.raised /\ t.status = s.status
      /\ SameRequest(s, t) /\ SameRead(s, t) /\ SameResponse(s, t) /\ SameHandler(s, t)
      /\ config.timeouts => t.header \/ t.body \/ t.stray > 0 \/ t.due > 0
  BY <1>1, <1>3, <1>4, <1>5
<1> QED BY <1>6 DEF t

(* A read: posted if the buffer satisfies it, and the more if what is left *)
(* of the buffer does.                                                     *)
LEMMA ReadFacts ==
    ASSUME NEW s, Types(s), NEW state, NEW w, w.kind \in Kinds,
           w.kind = "bytes" => w.n \in Nat \ {0}
    PROVE  LET t == Read(s, state, w)
           IN /\ Types(t) /\ t.raised = s.raised /\ t.status = s.status
              /\ SameRequest(s, t) /\ SameTimers(s, t) /\ SameResponse(s, t) /\ SameHandler(s, t)
              /\ t.state = state /\ t.want = w /\ (t.asserted <=> s.asserted \/ s.want # NoRead)
              /\ Satisfied(w, SubSeq(t.buffer, t.eaten + 1, Len(t.buffer))) => t.posted > 0
<1> DEFINE t == Read(s, state, w)
           n == IF FindReadPos(w, s.buffer) > 0 THEN 1 ELSE 0
<1>1. n \in {0, 1} /\ (Satisfied(w, s.buffer) => n = 1)
  BY FindReadPosFinds DEF Types
<1>2. t = [s EXCEPT !.state = state, !.want = w, !.asserted = s.asserted \/ s.want # NoRead,
                    !.posted = s.posted + n]
  BY DEF Read
<1> HIDE DEF n
<1>3. /\ DOMAIN t = HTTPFields /\ t.raised = s.raised /\ t.status = s.status
      /\ SameRequest(s, t) /\ SameTimers(s, t) /\ SameResponse(s, t) /\ SameHandler(s, t)
      /\ t.state = state /\ t.want = w /\ (t.asserted <=> s.asserted \/ s.want # NoRead)
      /\ t.posted = s.posted + n
  <2>1. t.asserted = (s.asserted \/ s.want # NoRead)
    BY <1>2, Zenon DEF Types, HTTPFields
  <2>2. /\ DOMAIN t = HTTPFields /\ t.raised = s.raised /\ t.status = s.status
        /\ t.state = state /\ t.want = w /\ t.posted = s.posted + n
        /\ SameRequest(s, t) /\ SameTimers(s, t) /\ SameResponse(s, t) /\ SameHandler(s, t)
    BY <1>2
    DEF Types, HTTPFields, SameRequest, SameTimers, SameResponse, SameSending,
        SameOutline, SameAmount, SameHandler
  <2> HIDE DEF t
  <2> QED BY <2>1, <2>2
<1> HIDE DEF t
<1>4. Types(t)
  BY <1>1, <1>3
  DEF Types, SameRequest, SameTimers, SameResponse, SameSending, SameOutline, SameAmount,
      SameHandler
<1>5. Satisfied(w, SubSeq(t.buffer, t.eaten + 1, Len(t.buffer))) => Satisfied(w, t.buffer)
  BY <1>4, SuffixSatisfies DEF Types
<1>6. Satisfied(w, t.buffer) => t.posted > 0
  BY <1>1, <1>3 DEF SameRequest, Types
<1> QED BY <1>3, <1>4, <1>5, <1>6 DEF t

-----------------------------------------------------------------------------
(* From one request to the next.                                           *)
LEMMA ClearFacts ==
    ASSUME NEW s, DOMAIN s = HTTPFields
    PROVE  LET t == ClearCallbacks(s)
           IN /\ DOMAIN t = HTTPFields /\ t.raised = s.raised /\ t.status = s.status
              /\ SameTimers(s, t) /\ SameRequest(s, t) /\ SameRead(s, t)
              /\ SameResponse(s, t) /\ SameHandler(s, t)
BY
DEF ClearCallbacks, HTTPFields, SameTimers, SameRequest, SameRead, SameResponse,
    SameSending, SameOutline, SameAmount, SameHandler

LEMMA StartRequestSound ==
    ASSUME NEW s, Types(s), s.status # "new", s.want = NoRead, ~s.asserted, ~s.unsent,
           s.frame # "data"
    PROVE  LET t == StartRequest(s)
           IN /\ Sound(t) /\ t.raised = s.raised /\ t.status = s.status /\ SameHandler(s, t)
              /\ t.begun = s.begun + 1 /\ t.eaten = s.eaten /\ ~t.unsent /\ ~t.writeFinished
<1> DEFINE c == ClearCallbacks(s)
           r == [c EXCEPT !.disconnectOnFinish = FALSE, !.chunkingOutput = FALSE,
                    !.pendingWrite = FALSE, !.readFinished = FALSE, !.writeFinished = FALSE,
                    !.expected = NoLength, !.begun = c.begun + 1, !.heads = 0, !.sent = 0,
                    !.ends = 0, !.bytesRead = 0, !.bytesToRead = 0]
           w == [kind |-> "regex", n |-> MaxHeaderSize]
           u == Read(r, "READ_HEADER", w)
           t == Arm(u, "header")
<1>1. /\ DOMAIN c = HTTPFields /\ c.raised = s.raised /\ c.status = s.status
      /\ SameTimers(s, c) /\ SameRequest(s, c) /\ SameRead(s, c)
      /\ SameResponse(s, c) /\ SameHandler(s, c)
  BY ClearFacts DEF Types
<1>2. StartRequest(s) = t
  BY DEF StartRequest, ReadHeaders
<1> HIDE DEF c
<1>3. /\ DOMAIN r = HTTPFields /\ r.raised = c.raised /\ r.status = c.status
      /\ SameTimers(c, r) /\ SameRead(c, r) /\ SameHandler(c, r)
      /\ r.buffer = c.buffer /\ r.eaten = c.eaten /\ r.unsent = c.unsent
      /\ r.begun = c.begun + 1 /\ Blank(r) /\ ~r.readFinished
      /\ r.bytesRead = 0 /\ r.bytesToRead = 0
  <2>1. DOMAIN r = HTTPFields /\ r.raised = c.raised /\ r.status = c.status
    BY <1>1 DEF HTTPFields, Blank
  <2>2. SameTimers(c, r) /\ SameRead(c, r) /\ SameHandler(c, r)
    BY <1>1 DEF HTTPFields, SameTimers, SameRead, SameHandler, Blank
  <2>3. r.buffer = c.buffer /\ r.eaten = c.eaten /\ r.unsent = c.unsent
    BY <1>1 DEF HTTPFields, Blank
  <2>4. r.begun = c.begun + 1 /\ Blank(r) /\ ~r.readFinished
    BY <1>1 DEF HTTPFields, Blank
  <2>5. r.bytesRead = 0 /\ r.bytesToRead = 0
    BY <1>1 DEF HTTPFields, Blank
  <2> QED BY <2>1, <2>2, <2>3, <2>4, <2>5
<1> HIDE DEF r
<1>4. /\ Types(r) /\ r.begun = s.begun + 1 /\ r.raised = s.raised /\ r.status = s.status
      /\ SameHandler(s, r) /\ ~r.unsent /\ r.want = NoRead /\ ~r.asserted /\ r.eaten = s.eaten
  <2>1. Types(r)
    <3>1. r.want = s.want /\ r.posted = s.posted /\ r.buffer = s.buffer /\ r.eaten = s.eaten
      BY <1>1, <1>3 DEF SameRequest, SameRead
    <3>2. r.stray = s.stray /\ r.due = s.due /\ r.begun = s.begun + 1
      BY <1>1, <1>3 DEF SameRequest, SameTimers
    <3>3. r.length = s.length /\ r.buffered = s.buffered /\ r.flushes = s.flushes
      BY <1>1, <1>3 DEF SameHandler
    <3>4. s.begun + 1 \in Nat
      <4>1. s.begun \in Nat
        BY DEF Types
      <4> QED BY <4>1
    <3> QED BY <1>1, <1>3, <3>1, <3>2, <3>3, <3>4 DEF Types, Blank
  <2> QED BY <1>1, <1>3, <2>1
          DEF SameRequest, SameRead, SameHandler, SameResponse, SameSending, SameOutline,
              SameAmount
<1>5. w.kind = "regex"
  OBVIOUS
<1> HIDE DEF w
<1>6. /\ Types(u) /\ u.raised = r.raised /\ u.status = r.status
      /\ SameRequest(r, u) /\ SameTimers(r, u) /\ SameResponse(r, u) /\ SameHandler(r, u)
      /\ u.state = "READ_HEADER" /\ u.want = w /\ ~u.asserted
      /\ Satisfied(w, SubSeq(u.buffer, u.eaten + 1, Len(u.buffer))) => u.posted > 0
  BY <1>4, <1>5, ReadFacts DEF Kinds
<1> HIDE DEF u
<1>7. /\ Types(t) /\ t.raised = u.raised /\ t.status = u.status
      /\ SameRequest(u, t) /\ SameRead(u, t) /\ SameResponse(u, t) /\ SameHandler(u, t)
      /\ config.timeouts => t.header \/ t.body \/ t.stray > 0 \/ t.due > 0
  BY <1>6, ArmFacts
<1> HIDE DEF t
<1>8. Turn(t)
  BY <1>3, <1>4, <1>6, <1>7
  DEF Turn, Kind, Lives, Blank, SameRequest, SameRead, SameResponse, SameSending,
      SameOutline, SameAmount, SameHandler
<1>9. Framed(t)
  BY <1>3, <1>6, <1>7
  DEF Framed, Blank, SameRequest, SameRead, SameResponse, SameSending, SameOutline,
      SameAmount
<1>10. Awake(t)
  BY <1>3, <1>4, <1>6, <1>7
  DEF Awake, Attended, Posted, Timed, Sends, EndsOnce, Blank, SameRequest, SameRead,
      SameResponse, SameSending, SameOutline, SameAmount
<1>11. /\ Sound(t) /\ t.raised = s.raised /\ t.status = s.status /\ SameHandler(s, t)
       /\ t.begun = s.begun + 1 /\ t.eaten = s.eaten /\ ~t.unsent /\ ~t.writeFinished
  BY <1>3, <1>4, <1>6, <1>7, <1>8, <1>9, <1>10
  DEF Sound, Base, Blank, SameRequest, SameResponse, SameSending, SameOutline, SameAmount,
      SameHandler
<1> QED BY <1>2, <1>11

(* Closed, or on to the next request.                                      *)
Stays(s, t) == /\ t.begun = s.begun /\ t.readFinished = s.readFinished
               /\ t.want = s.want /\ t.state = s.state /\ t.eaten = s.eaten
Begins(s, t) == /\ t.eaten = s.eaten /\ s.readFinished /\ s.want = NoRead /\ s.frame # "data"
                /\ ~t.unsent /\ ~t.writeFinished

LEMMA FinishRequestSound ==
    ASSUME NEW s, Base(s), s.writeFinished, s.status # "new", ~s.disconnectOnFinish => ~s.unsent
    PROVE  LET t == FinishRequest(s)
           IN /\ Sound(t) /\ t.raised = s.raised /\ SameHandler(s, t)
              /\ t.status = "lost" <=> s.status = "lost"
              /\ t.status # "new"
              /\ Stays(s, t) \/ Begins(s, t)
<1> DEFINE t == FinishRequest(s)
<1>1. CASE s.disconnectOnFinish
  <2>1. t = CloseHTTP(s)
    BY <1>1 DEF FinishRequest
  <2>2. Sound(t)
    BY <2>1, CloseSound
  <2>3. /\ t.status = (IF s.status = "open" THEN "closing" ELSE s.status)
        /\ t.raised = s.raised /\ SameRequest(s, t) /\ SameRead(s, t) /\ SameHandler(s, t)
    BY <2>1, CloseFacts DEF Base, Types
  <2> HIDE DEF t
  <2>4. Stays(s, t) /\ (t.status = "lost" <=> s.status = "lost") /\ t.status # "new"
    BY <2>3 DEF Stays, SameRequest, SameRead
  <2> QED BY <2>2, <2>3, <2>4 DEF t
<1>2. CASE ~s.disconnectOnFinish
  <2> DEFINE c == ClearCallbacks(s)
  <2>1. t = StartRequest(c)
    BY <1>2 DEF FinishRequest
  <2>2. /\ DOMAIN c = HTTPFields /\ c.raised = s.raised /\ c.status = s.status
        /\ SameTimers(s, c) /\ SameRequest(s, c) /\ SameRead(s, c)
        /\ SameResponse(s, c) /\ SameHandler(s, c)
    BY ClearFacts DEF Base, Types
  <2>3. s.readFinished /\ s.want = NoRead /\ ~s.unsent /\ ~s.asserted /\ s.frame # "data"
    BY <1>2 DEF Base, Turn
  <2> HIDE DEF c
  <2>4. Types(c)
    BY <2>2
    DEF Base, Types, SameTimers, SameRequest, SameRead, SameResponse, SameSending,
        SameOutline, SameAmount, SameHandler
  <2>5. /\ c.status # "new" /\ c.want = NoRead /\ ~c.asserted /\ ~c.unsent /\ c.frame # "data"
    BY <2>2, <2>3
    DEF Base, Turn, Kind, SameRequest, SameRead, SameResponse, SameSending, SameOutline,
        SameAmount, SameHandler
  <2>6. /\ Sound(t) /\ t.raised = c.raised /\ t.status = c.status /\ SameHandler(c, t)
        /\ t.eaten = c.eaten /\ ~t.unsent /\ ~t.writeFinished
    BY <2>1, <2>4, <2>5, StartRequestSound
  <2> HIDE DEF t
  <2>7. SameHandler(s, t) /\ Begins(s, t)
    BY <2>2, <2>3, <2>6 DEF SameHandler, SameRequest, Begins
  <2> QED BY <2>2, <2>6, <2>7 DEF t
<1> QED BY <1>1, <1>2

-----------------------------------------------------------------------------
(* Writing.                                                                *)
LEMMA RaiseFacts ==
    ASSUME NEW s, DOMAIN s = HTTPFields
    PROVE  LET t == Raise(s)
           IN /\ DOMAIN t = HTTPFields /\ t.raised /\ t.status = s.status
              /\ SameTimers(s, t) /\ SameRequest(s, t) /\ SameRead(s, t)
              /\ SameSending(s, t) /\ SameOutline(s, t) /\ SameAmount(s, t) /\ SameHandler(s, t)
BY DEF Raise, HTTPFields, SameTimers, SameRequest, SameRead, SameSending, SameOutline,
       SameAmount, SameHandler

(* A write to a closed connection raises; the other is queued.             *)
LEMMA WriteStreamFacts ==
    ASSUME NEW s, DOMAIN s = HTTPFields, NEW n, NEW callback \in BOOLEAN
    PROVE  LET t == WriteStream(s, n, callback)
           IN /\ DOMAIN t = HTTPFields /\ t.status = s.status
              /\ SameTimers(s, t) /\ SameRequest(s, t) /\ SameRead(s, t)
              /\ SameOutline(s, t) /\ SameAmount(s, t) /\ SameHandler(s, t)
              /\ t.pendingWrite = s.pendingWrite
              /\ IF s.status = "open"
                 THEN /\ t.raised = s.raised /\ t.streamCallback = callback
                      /\ t.unsent <=> s.unsent \/ n > 0
                 ELSE t.raised /\ SameSending(s, t)
<1> DEFINE t == WriteStream(s, n, callback)
           p == s.unsent \/ n > 0
           a == [s EXCEPT !.streamCallback = callback, !.unsent = p]
<1>1. CASE s.status = "open"
  <2>1. t = a
    BY <1>1 DEF WriteStream, Open
  <2>2. a.unsent = p
    BY Zenon DEF HTTPFields
  <2>3. /\ DOMAIN a = HTTPFields /\ a.status = s.status /\ a.raised = s.raised
        /\ a.streamCallback = callback /\ a.pendingWrite = s.pendingWrite
        /\ SameTimers(s, a) /\ SameRequest(s, a) /\ SameRead(s, a)
        /\ SameOutline(s, a) /\ SameAmount(s, a) /\ SameHandler(s, a)
    BY
    DEF HTTPFields, SameTimers, SameRequest, SameRead, SameOutline, SameAmount,
        SameHandler
  <2> HIDE DEF a, t
  <2> QED BY <1>1, <2>1, <2>2, <2>3 DEF t
<1>2. CASE s.status # "open"
  <2>1. t = Raise(s)
    BY <1>2 DEF WriteStream, Open
  <2> HIDE DEF t
  <2> QED BY <1>2, <2>1, RaiseFacts DEF t, SameSending
<1> QED BY <1>1, <1>2

(* What was promised is counted down; more than that closes and raises.    *)
LEMMA FormatChunkFacts ==
    ASSUME NEW s, DOMAIN s = HTTPFields, NEW n \in Nat,
           s.expected \in Nat \cup {NoLength}, s.sent \in Nat
    PROVE  LET t == FormatChunk(s, n)
           IN /\ DOMAIN t = HTTPFields /\ t.stray = s.stray /\ t.due = s.due
              /\ SameRequest(s, t) /\ SameRead(s, t)
              /\ SameSending(s, t) /\ SameOutline(s, t) /\ SameHandler(s, t)
              /\ IF s.expected # NoLength /\ s.expected < n
                 THEN /\ t.raised /\ SameAmount(s, t)
                      /\ t.status = (IF s.status = "open" THEN "closing" ELSE s.status)
                 ELSE /\ t.raised = s.raised /\ t.status = s.status /\ SameTimers(s, t)
                      /\ t.sent = s.sent + n
                      /\ t.expected = (IF s.expected = NoLength THEN NoLength ELSE s.expected - n)
<1> DEFINE t == FormatChunk(s, n)
           c == CloseHTTP(s)
           a == [s EXCEPT !.sent = s.sent + n]
           b == [s EXCEPT !.expected = s.expected - n, !.sent = s.sent + n]
<1>1. CASE s.expected = NoLength
  <2>1. t = a
    BY <1>1 DEF FormatChunk
  <2>2. /\ DOMAIN a = HTTPFields /\ a.status = s.status /\ a.raised = s.raised
        /\ a.sent = s.sent + n /\ a.expected = s.expected
        /\ SameTimers(s, a) /\ SameRequest(s, a) /\ SameRead(s, a)
        /\ SameSending(s, a) /\ SameOutline(s, a) /\ SameHandler(s, a)
    BY
    DEF HTTPFields, SameTimers, SameRequest, SameRead, SameSending, SameOutline,
        SameHandler
  <2> HIDE DEF a, t
  <2> QED BY <1>1, <2>1, <2>2 DEF t, SameTimers
<1>2. CASE s.expected # NoLength /\ s.expected < n
  <2>1. t = Raise(c)
    BY <1>2 DEF FormatChunk
  <2>2. /\ DOMAIN c = HTTPFields /\ c.stray = s.stray /\ c.due = s.due
        /\ c.status = (IF s.status = "open" THEN "closing" ELSE s.status)
        /\ SameRequest(s, c) /\ SameRead(s, c) /\ SameHandler(s, c)
        /\ SameSending(s, c) /\ SameOutline(s, c) /\ SameAmount(s, c)
    BY CloseFacts DEF SameResponse
  <2> HIDE DEF c
  <2>3. /\ DOMAIN t = HTTPFields /\ t.raised /\ t.status = c.status
        /\ SameTimers(c, t) /\ SameRequest(c, t) /\ SameRead(c, t) /\ SameHandler(c, t)
        /\ SameSending(c, t) /\ SameOutline(c, t) /\ SameAmount(c, t)
    BY <2>1, <2>2, RaiseFacts
  <2> HIDE DEF t
  <2>4. /\ SameRequest(s, t) /\ SameRead(s, t) /\ SameHandler(s, t)
        /\ SameSending(s, t) /\ SameOutline(s, t) /\ SameAmount(s, t)
        /\ t.stray = s.stray /\ t.due = s.due
    BY <2>2, <2>3
    DEF SameTimers, SameRequest, SameRead, SameHandler, SameSending, SameOutline,
        SameAmount
  <2> QED BY <1>2, <2>2, <2>3, <2>4 DEF t
<1>3. CASE s.expected # NoLength /\ ~(s.expected < n)
  <2>1. t = b
    BY <1>3 DEF FormatChunk
  <2>2. /\ DOMAIN b = HTTPFields /\ b.status = s.status /\ b.raised = s.raised
        /\ b.sent = s.sent + n /\ b.expected = s.expected - n
        /\ SameTimers(s, b) /\ SameRequest(s, b) /\ SameRead(s, b)
        /\ SameSending(s, b) /\ SameOutline(s, b) /\ SameHandler(s, b)
    BY
    DEF HTTPFields, SameTimers, SameRequest, SameRead, SameSending, SameOutline,
        SameHandler
  <2> HIDE DEF b, t
  <2> QED BY <1>3, <2>1, <2>2 DEF t, SameTimers
<1> QED BY <1>1, <1>2, <1>3

-----------------------------------------------------------------------------
(* flush.                                                                  *)
Acts(s) ==
    /\ Sound(s) /\ Unfinished(s)
    /\ Lives(s) /\ ~s.raised

Flushed(s, t) ==
    /\ Sound(t) /\ SameRequest(s, t) /\ SameRead(s, t)
    /\ t.frame = s.frame /\ t.stage = s.stage /\ t.finished = s.finished
    /\ t.length = s.length /\ t.code = s.code /\ t.flushes = s.flushes /\ t.buffered = 0
    /\ (t.writeFinished <=> s.writeFinished)
    /\ t.status # "new" /\ (t.status = "lost" <=> s.status = "lost")
    /\ t.raised => t.status # "open"
    /\ ~t.raised => /\ t.headersWritten /\ t.status # "lost"
                    /\ Kind(s).method # "HEAD" => t.status = "open"

LEMMA WriteHeadersFlushed ==
    ASSUME NEW s, Acts(s), Fits(s), ~s.headersWritten, s.status # "lost"
    PROVE  Flushed(s, WriteHeaders([[s EXCEPT !.buffered = 0] EXCEPT !.headersWritten = TRUE],
                                   IF Kind(s).method = "HEAD" THEN 0 ELSE s.buffered))
<1> DEFINE a == [[s EXCEPT !.buffered = 0] EXCEPT !.headersWritten = TRUE]
           n == IF Kind(s).method = "HEAD" THEN 0 ELSE s.buffered
           p == Kind(s).version = "1.1" /\ ~Bodyless(s) /\ s.length = NoLength
           e == IF Omitted(s) THEN 0 ELSE s.length
           b == [a EXCEPT !.chunkingOutput = p, !.expected = e, !.heads = a.heads + 1]
           u == IF n > 0 THEN FormatChunk(b, n) ELSE b
           v == [u EXCEPT !.pendingWrite = TRUE]
           t == WriteHeaders(a, n)
<1>1. /\ DOMAIN a = HTTPFields /\ a.raised = s.raised /\ a.status = s.status
      /\ SameTimers(s, a) /\ SameRequest(s, a) /\ SameRead(s, a)
      /\ SameSending(s, a) /\ SameOutline(s, a) /\ SameAmount(s, a)
      /\ a.frame = s.frame /\ a.stage = s.stage /\ a.finished = s.finished
      /\ a.length = s.length /\ a.code = s.code /\ a.flushes = s.flushes
      /\ a.buffered = 0 /\ a.headersWritten
  BY
  DEF Acts, Sound, Base, Types, HTTPFields, SameTimers, SameRequest, SameRead,
      SameSending, SameOutline, SameAmount
<1> HIDE DEF a
<1>2. Kind(a) = Kind(s) /\ Omitted(a) = Omitted(s) /\ Bodyless(a) = Bodyless(s)
  BY <1>1 DEF Kind, Omitted, Bodyless, SameRequest
<1>3. t = IF u.raised THEN u ELSE WriteStream(v, 1, TRUE)
  BY <1>1, <1>2 DEF WriteHeaders
<1>4. Blank(s) /\ Types(s) /\ s.status # "new" /\ s.state # "READ_HEADER" /\ ~s.raised
  BY DEF Acts, Sound, Base, Framed, Turn, Unfinished
<1>5. n \in Nat /\ (n > 0 => /\ n = s.buffered /\ Kind(s).method # "HEAD"
                             /\ ~(Bodyless(s) /\ s.flushes = 0))
  BY <1>4 DEF Fits, Types
<1>6. b.chunkingOutput <=> p
  <2>1. b.chunkingOutput = p
    BY <1>1, Zenon DEF HTTPFields
  <2> HIDE DEF b
  <2> QED BY <2>1
<1>7. /\ DOMAIN b = HTTPFields /\ b.raised = s.raised /\ b.status = s.status
      /\ SameTimers(s, b) /\ SameRequest(s, b) /\ SameRead(s, b) /\ SameSending(s, b)
      /\ b.expected = e /\ b.heads = 1 /\ b.sent = 0 /\ b.ends = 0 /\ ~b.writeFinished
      /\ b.disconnectOnFinish = s.disconnectOnFinish
      /\ b.frame = s.frame /\ b.stage = s.stage /\ b.finished = s.finished
      /\ b.length = s.length /\ b.code = s.code /\ b.flushes = s.flushes
      /\ b.buffered = 0 /\ b.headersWritten
  BY <1>1, <1>4 DEF HTTPFields, Blank, SameTimers, SameRequest, SameRead, SameSending,
                    SameOutline, SameAmount
<1>8. e \in Nat \cup {NoLength}
  BY <1>4 DEF Types
<1> HIDE DEF n, b
<1>9. /\ DOMAIN u = HTTPFields /\ u.stray = s.stray /\ u.due = s.due
      /\ SameRequest(s, u) /\ SameRead(s, u) /\ SameSending(s, u)
      /\ u.heads = 1 /\ u.ends = 0 /\ ~u.writeFinished /\ (u.chunkingOutput <=> p)
      /\ u.disconnectOnFinish = s.disconnectOnFinish
      /\ u.frame = s.frame /\ u.stage = s.stage /\ u.finished = s.finished
      /\ u.length = s.length /\ u.code = s.code /\ u.flushes = s.flushes
      /\ u.buffered = 0 /\ u.headersWritten
      /\ u.raised => /\ u.sent = 0 /\ u.expected = e /\ e # NoLength /\ e < n
                     /\ u.status = (IF s.status = "open" THEN "closing" ELSE s.status)
      /\ ~u.raised => /\ u.status = s.status /\ SameTimers(s, u) /\ u.sent = n
                      /\ u.expected = (IF e = NoLength THEN NoLength ELSE e - n)
                      /\ e = NoLength \/ n <= e \/ n = 0
  <2>1. CASE n > 0
    <3>1. u = FormatChunk(b, n)
      BY <2>1
    <3>2. /\ DOMAIN u = HTTPFields /\ u.stray = b.stray /\ u.due = b.due
          /\ SameRequest(b, u) /\ SameRead(b, u)
          /\ SameSending(b, u) /\ SameOutline(b, u) /\ SameHandler(b, u)
          /\ IF b.expected # NoLength /\ b.expected < n
             THEN /\ u.raised /\ SameAmount(b, u)
                  /\ u.status = (IF b.status = "open" THEN "closing" ELSE b.status)
             ELSE /\ u.raised = b.raised /\ u.status = b.status /\ SameTimers(b, u)
                  /\ u.sent = b.sent + n
                  /\ u.expected = (IF b.expected = NoLength THEN NoLength ELSE b.expected - n)
      BY <1>5, <1>7, <1>8, <3>1, FormatChunkFacts
    <3> HIDE DEF u, e, p
    <3> QED BY <1>4, <1>5, <1>6, <1>7, <1>8, <3>2
            DEF SameTimers, SameRequest, SameRead, SameSending, SameOutline, SameAmount,
                SameHandler
  <2>2. CASE ~(n > 0)
    <3>1. u = b /\ n = 0
      BY <1>5, <2>2
    <3> HIDE DEF u
    <3> QED BY <1>4, <1>6, <1>7, <1>8, <3>1 DEF SameTimers
  <2> QED BY <2>1, <2>2
<1> HIDE DEF u
<1>10. Budget(u)
  <2>1. Kind(u) = Kind(s) /\ (Omitted(u) <=> Omitted(s)) /\ (Bodyless(u) <=> Bodyless(s))
    BY <1>9 DEF Kind, Omitted, Bodyless, SameRequest
  <2>2. Bodyless(s) /\ s.flushes = 0 => n = 0
    BY <1>5
  <2>3. u.sent = 0 \/ (u.sent = n /\ ~u.raised)
    BY <1>9
  <2>4. Omitted(s) => u.sent = 0 /\ u.expected = 0
    BY <1>5, <1>9 DEF NoLength
  <2>5. ~Omitted(s) => IF s.length = NoLength THEN u.expected = NoLength
                       ELSE u.expected >= 0 /\ u.expected = s.length - u.sent
    BY <1>4, <1>5, <1>8, <1>9
  <2> QED BY <1>9, <2>1, <2>2, <2>3, <2>4, <2>5 DEF Budget
<1>11. /\ u.expected \in Nat \cup {NoLength} /\ u.sent \in Nat
       /\ u.raised => Kind(u).method # "HEAD"
  BY <1>4, <1>5, <1>8, <1>9 DEF Kind, SameRequest
<1>12. CASE u.raised
  <2>1. t = u /\ u.status \in {"closing", "lost"} /\ (u.status = "lost" <=> s.status = "lost")
    BY <1>3, <1>4, <1>9, <1>12 DEF Types
  <2>2. Types(u)
    BY <1>4, <1>9, <1>11, <2>1 DEF Types, SameRequest, SameRead
  <2>3. Turn(u)
    BY <1>9, <1>11, <1>12, <2>1
    DEF Acts, Sound, Base, Turn, Kind, Lives, SameRequest, SameRead
  <2>4. Framed(u)
    BY <1>4, <1>9, <1>10 DEF Framed, SameRead
  <2>5. Awake(u)
    BY <2>1 DEF Awake, Attended, Posted, Timed, Sends, EndsOnce
  <2> HIDE DEF t
  <2>6. Flushed(s, t)
    BY <1>4, <1>9, <1>12, <2>1, <2>2, <2>3, <2>4, <2>5 DEF Flushed, Sound, Base, Blank
  <2> QED BY <2>6 DEF t, n, a
<1>13. CASE ~u.raised
  <2>1. t = WriteStream(v, 1, TRUE)
    BY <1>3, <1>13
  <2>2. /\ DOMAIN v = HTTPFields /\ v.raised = u.raised /\ v.status = u.status
        /\ SameTimers(u, v) /\ SameRequest(u, v) /\ SameRead(u, v)
        /\ SameOutline(u, v) /\ SameAmount(u, v) /\ SameHandler(u, v)
        /\ v.pendingWrite /\ v.unsent = u.unsent /\ v.streamCallback = u.streamCallback
    <3>1. DOMAIN v = HTTPFields /\ v.raised = u.raised /\ v.status = u.status
      BY <1>9 DEF HTTPFields
    <3>2. SameTimers(u, v) /\ SameRequest(u, v) /\ SameRead(u, v)
      BY <1>9 DEF HTTPFields, SameTimers, SameRequest, SameRead
    <3>3. SameOutline(u, v) /\ SameAmount(u, v) /\ SameHandler(u, v)
      BY <1>9 DEF HTTPFields, SameOutline, SameAmount, SameHandler
    <3>4. v.pendingWrite /\ v.unsent = u.unsent /\ v.streamCallback = u.streamCallback
      BY <1>9 DEF HTTPFields
    <3> QED BY <3>1, <3>2, <3>3, <3>4
  <2> HIDE DEF v, t
  <2>3. /\ DOMAIN t = HTTPFields /\ t.status = v.status
        /\ SameTimers(v, t) /\ SameRequest(v, t) /\ SameRead(v, t)
        /\ SameOutline(v, t) /\ SameAmount(v, t) /\ SameHandler(v, t)
        /\ t.pendingWrite
        /\ IF v.status = "open" THEN t.raised = v.raised /\ t.streamCallback /\ t.unsent
           ELSE t.raised
    <3>1. TRUE \in BOOLEAN /\ 1 > 0
      OBVIOUS
    <3>2. /\ DOMAIN t = HTTPFields /\ t.status = v.status
          /\ SameTimers(v, t) /\ SameRequest(v, t) /\ SameRead(v, t)
          /\ SameOutline(v, t) /\ SameAmount(v, t) /\ SameHandler(v, t)
          /\ t.pendingWrite = v.pendingWrite
          /\ IF v.status = "open"
             THEN t.raised = v.raised /\ t.streamCallback = TRUE /\ (t.unsent <=> v.unsent \/ 1 > 0)
             ELSE t.raised /\ SameSending(v, t)
      BY <2>1, <2>2, <3>1, WriteStreamFacts, Zenon
    <3> QED BY <2>2, <3>2
  <2>4. /\ DOMAIN t = HTTPFields /\ t.status = s.status
        /\ SameTimers(s, t) /\ SameRequest(s, t) /\ SameRead(s, t)
        /\ SameOutline(u, t) /\ SameAmount(u, t) /\ SameHandler(u, t)
        /\ t.pendingWrite
        /\ IF s.status = "open" THEN ~t.raised /\ t.streamCallback /\ t.unsent
           ELSE t.raised
    BY <1>9, <1>13, <2>2, <2>3
    DEF SameTimers, SameRequest, SameRead, SameOutline, SameAmount, SameHandler
  <2>5. Types(t)
    BY <1>4, <1>9, <1>11, <2>4
    DEF Types, SameTimers, SameRequest, SameRead, SameOutline, SameAmount, SameHandler
  <2>6. Turn(t)
    BY <1>4, <1>9, <2>4
    DEF Acts, Sound, Base, Turn, Kind, Lives, SameRequest, SameRead, SameOutline,
        SameAmount, SameHandler
  <2>7. Framed(t)
    BY <1>4, <1>9, <1>10, <2>4
    DEF Framed, Budget, Kind, Omitted, Bodyless, SameRequest, SameRead, SameOutline,
        SameAmount, SameHandler
  <2>8. Awake(t)
    BY <1>9, <2>4
    DEF Acts, Sound, Awake, Attended, Posted, Timed, Sends, EndsOnce, SameTimers,
        SameRequest, SameRead, SameOutline, SameAmount, SameHandler
  <2>9. SameRequest(s, t) /\ SameRead(s, t)
    BY <2>4
  <2>10. Flushed(s, t)
    BY <1>4, <1>9, <2>4, <2>5, <2>6, <2>7, <2>8
    DEF Flushed, Sound, Base, Blank, SameOutline, SameHandler
  <2> QED BY <2>10 DEF t, n, a
<1> QED BY <1>12, <1>13

LEMMA WriteChunkFlushed ==
    ASSUME NEW s, Acts(s), s.headersWritten, s.status # "lost", Kind(s).method # "HEAD"
    PROVE  Flushed(s, WriteChunk([s EXCEPT !.buffered = 0], s.buffered))
<1> DEFINE a == [s EXCEPT !.buffered = 0]
           b == [a EXCEPT !.pendingWrite = TRUE]
           n == s.buffered
           u == FormatChunk(b, n)
           t == WriteChunk(a, n)
<1>1. /\ DOMAIN b = HTTPFields /\ b.raised = s.raised /\ b.status = s.status
      /\ SameTimers(s, b) /\ SameRequest(s, b) /\ SameRead(s, b)
      /\ SameOutline(s, b) /\ SameAmount(s, b)
      /\ b.unsent = s.unsent /\ b.streamCallback = s.streamCallback /\ b.pendingWrite
      /\ b.frame = s.frame /\ b.stage = s.stage /\ b.finished = s.finished
      /\ b.length = s.length /\ b.code = s.code /\ b.flushes = s.flushes
      /\ b.buffered = 0 /\ b.headersWritten
  BY DEF Acts, Sound, Base, Types, HTTPFields, SameTimers, SameRequest, SameRead,
         SameOutline, SameAmount
<1>2. t = IF u.raised THEN u ELSE WriteStream(u, n, TRUE)
  BY DEF WriteChunk
<1>3. /\ Budget(s) /\ Types(s) /\ s.status # "new" /\ s.state # "READ_HEADER"
      /\ ~s.raised /\ ~s.writeFinished /\ n \in Nat
  BY DEF Acts, Sound, Base, Types, Framed, Turn, Unfinished
<1> HIDE DEF b, n
<1>4. /\ DOMAIN u = HTTPFields /\ u.stray = b.stray /\ u.due = b.due
      /\ SameRequest(b, u) /\ SameRead(b, u)
      /\ SameSending(b, u) /\ SameOutline(b, u) /\ SameHandler(b, u)
      /\ IF b.expected # NoLength /\ b.expected < n
         THEN /\ u.raised /\ SameAmount(b, u)
              /\ u.status = (IF b.status = "open" THEN "closing" ELSE b.status)
         ELSE /\ u.raised = b.raised /\ u.status = b.status /\ SameTimers(b, u)
              /\ u.sent = b.sent + n
              /\ u.expected = (IF b.expected = NoLength THEN NoLength ELSE b.expected - n)
  <2>1. b.expected \in Nat \cup {NoLength} /\ b.sent \in Nat
    BY <1>1, <1>3 DEF Types, SameAmount
  <2> QED BY <1>1, <1>3, <2>1, FormatChunkFacts
<1> HIDE DEF u
<1>5. /\ DOMAIN u = HTTPFields /\ u.stray = s.stray /\ u.due = s.due
      /\ SameRequest(s, u) /\ SameRead(s, u) /\ SameOutline(s, u)
      /\ u.unsent = s.unsent /\ u.streamCallback = s.streamCallback /\ u.pendingWrite
      /\ u.frame = s.frame /\ u.stage = s.stage /\ u.finished = s.finished
      /\ u.length = s.length /\ u.code = s.code /\ u.flushes = s.flushes
      /\ u.buffered = 0 /\ u.headersWritten
      /\ u.raised => u.status = (IF s.status = "open" THEN "closing" ELSE s.status)
      /\ ~u.raised => u.status = s.status /\ SameTimers(s, u)
  BY <1>1, <1>3, <1>4
  DEF SameTimers, SameRequest, SameRead, SameSending, SameOutline, SameHandler
<1>6. Budget(u) /\ u.expected \in Nat \cup {NoLength} /\ u.sent \in Nat
  <2>1. /\ s.expected \in Nat \cup {NoLength} /\ s.sent \in Nat /\ s.length \in Nat \cup {NoLength}
        /\ IF s.expected # NoLength /\ s.expected < n
           THEN u.expected = s.expected /\ u.sent = s.sent
           ELSE /\ u.sent = s.sent + n
                /\ u.expected = (IF s.expected = NoLength THEN NoLength ELSE s.expected - n)
    BY <1>1, <1>3, <1>4 DEF Types, SameAmount
  <2>2. /\ Kind(u) = Kind(s) /\ (Omitted(u) <=> Omitted(s)) /\ (Bodyless(u) <=> Bodyless(s))
        /\ u.heads = s.heads /\ u.chunkingOutput = s.chunkingOutput /\ u.ends = s.ends
    BY <1>5 DEF Kind, Omitted, Bodyless, SameRequest, SameOutline
  <2>3. u.expected \in Nat \cup {NoLength} /\ u.sent \in Nat
    BY <1>3, <2>1 DEF NoLength
  <2>4. IF Omitted(s) THEN u.sent = 0 /\ u.expected = 0
        ELSE IF s.length = NoLength THEN u.expected = NoLength
        ELSE u.expected >= 0 /\ u.expected = s.length - u.sent
    BY <1>3, <2>1 DEF Budget, NoLength
  <2>6. Bodyless(s) /\ s.flushes = 0 => u.sent = 0
    <3>1. Bodyless(s) /\ s.flushes = 0 => s.sent = 0 /\ n = 0
      BY <1>3 DEF Budget, n
    <3> QED BY <2>1, <3>1
  <2>5. Budget(u)
    BY <1>3, <1>5, <2>2, <2>4, <2>6 DEF Budget
  <2> QED BY <2>3, <2>5
<1>7. CASE u.raised
  <2>1. t = u /\ u.status \in {"closing", "lost"} /\ (u.status = "lost" <=> s.status = "lost")
    BY <1>2, <1>3, <1>5, <1>7 DEF Types
  <2>2. Types(u)
    BY <1>3, <1>5, <1>6, <2>1 DEF Types, SameRequest, SameRead, SameOutline
  <2>3. Turn(u)
    BY <1>5, <2>1 DEF Acts, Sound, Base, Turn, Kind, Lives, SameRequest, SameRead,
                      SameOutline
  <2>4. Framed(u)
    BY <1>3, <1>5, <1>6 DEF Framed, SameRead, SameOutline
  <2>5. Awake(u)
    BY <2>1 DEF Awake, Attended, Posted, Timed, Sends, EndsOnce
  <2> HIDE DEF t
  <2>6. Flushed(s, t)
    BY <1>3, <1>5, <1>7, <2>1, <2>2, <2>3, <2>4, <2>5
    DEF Flushed, Sound, Base, SameOutline
  <2> QED BY <2>6 DEF t, n
<1>8. CASE ~u.raised
  <2>1. t = WriteStream(u, n, TRUE)
    BY <1>2, <1>8
  <2> HIDE DEF t
  <2>2. /\ DOMAIN t = HTTPFields /\ t.status = u.status
        /\ SameTimers(u, t) /\ SameRequest(u, t) /\ SameRead(u, t)
        /\ SameOutline(u, t) /\ SameAmount(u, t) /\ SameHandler(u, t)
        /\ t.pendingWrite = u.pendingWrite
        /\ IF u.status = "open"
           THEN t.raised = u.raised /\ t.streamCallback = TRUE /\ (t.unsent <=> u.unsent \/ n > 0)
           ELSE t.raised /\ SameSending(u, t)
    <3>1. TRUE \in BOOLEAN
      OBVIOUS
    <3>2. DOMAIN u = HTTPFields
      BY <1>5
    <3> QED BY <2>1, <3>1, <3>2, WriteStreamFacts, Zenon
  <2>3. /\ t.status = s.status /\ t.pendingWrite
        /\ SameTimers(s, t) /\ SameRequest(s, t) /\ SameRead(s, t)
        /\ SameOutline(s, t) /\ SameAmount(u, t) /\ SameHandler(u, t)
        /\ IF s.status = "open" THEN ~t.raised /\ t.streamCallback ELSE t.raised
    BY <1>5, <1>8, <2>2
    DEF SameTimers, SameRequest, SameRead, SameOutline, SameAmount, SameHandler
  <2>4. Types(t)
    BY <1>3, <1>5, <1>6, <2>2, <2>3
    DEF Types, SameTimers, SameRequest, SameRead, SameOutline, SameAmount, SameHandler
  <2>5. Turn(t)
    BY <1>3, <1>5, <2>3
    DEF Acts, Sound, Base, Turn, Kind, Lives, SameRequest, SameRead, SameOutline,
        SameAmount, SameHandler
  <2>6. Framed(t)
    BY <1>3, <1>5, <1>6, <2>3
    DEF Framed, Budget, Kind, Omitted, Bodyless, SameRequest, SameRead, SameOutline,
        SameAmount, SameHandler
  <2>7. Awake(t)
    BY <1>5, <2>3
    DEF Acts, Sound, Awake, Attended, Posted, Timed, Sends, EndsOnce, SameTimers,
        SameRequest, SameRead, SameOutline, SameAmount, SameHandler
  <2>8. Flushed(s, t)
    BY <1>3, <1>5, <2>3, <2>4, <2>5, <2>6, <2>7
    DEF Flushed, Sound, Base, Types, SameOutline, SameHandler
  <2> QED BY <2>8 DEF t, n
<1> QED BY <1>7, <1>8

LEMMA FlushFlushed ==
    ASSUME NEW s, Acts(s), Fits(s)
    PROVE  Flushed(s, Flush(s))
<1> DEFINE a == [s EXCEPT !.buffered = 0]
           n == IF Kind(s).method = "HEAD" THEN 0 ELSE s.buffered
           t == Flush(s)
<1>1. t = IF s.status = "lost" THEN Raise(a)
          ELSE IF ~s.headersWritten THEN WriteHeaders([a EXCEPT !.headersWritten = TRUE], n)
          ELSE IF Kind(s).method = "HEAD" THEN a ELSE WriteChunk(a, s.buffered)
  BY DEF Flush
<1>2. /\ DOMAIN a = HTTPFields /\ a.raised = s.raised /\ a.status = s.status
      /\ SameTimers(s, a) /\ SameRequest(s, a) /\ SameRead(s, a)
      /\ SameSending(s, a) /\ SameOutline(s, a) /\ SameAmount(s, a)
      /\ a.frame = s.frame /\ a.stage = s.stage /\ a.finished = s.finished
      /\ a.length = s.length /\ a.code = s.code /\ a.flushes = s.flushes
      /\ a.buffered = 0 /\ a.headersWritten = s.headersWritten
  BY
  DEF Acts, Sound, Base, Types, HTTPFields, SameTimers, SameRequest, SameRead,
      SameSending, SameOutline, SameAmount
<1>3. ASSUME NEW u, DOMAIN u = HTTPFields, u.status = a.status, SameTimers(a, u),
             SameRequest(a, u), SameRead(a, u), SameSending(a, u), SameOutline(a, u),
             SameAmount(a, u), SameHandler(a, u),
             u.raised => s.status = "lost",
             ~u.raised => /\ s.headersWritten /\ s.status # "lost"
                          /\ Kind(s).method = "HEAD"
      PROVE  Flushed(s, u)
  <2> HIDE DEF a
  <2>0. /\ SameTimers(s, u) /\ SameRequest(s, u) /\ SameRead(s, u)
        /\ SameSending(s, u) /\ SameOutline(s, u) /\ SameAmount(s, u)
        /\ u.status = s.status
        /\ u.frame = s.frame /\ u.stage = s.stage /\ u.finished = s.finished
        /\ u.length = s.length /\ u.code = s.code /\ u.flushes = s.flushes
        /\ u.buffered = 0 /\ u.headersWritten = s.headersWritten
    BY <1>2, <1>3 DEF SameTimers, SameRequest, SameRead, SameSending, SameOutline,
                      SameAmount, SameHandler
  <2>1. Types(u)
    BY <1>3, <2>0
    DEF Acts, Sound, Base, Types, SameTimers, SameRequest, SameRead, SameOutline,
                      SameAmount
  <2>2. Turn(u)
    BY <2>0
    DEF Acts, Sound, Base, Turn, Kind, Lives, SameRequest, SameRead, SameSending,
        SameOutline, SameAmount
  <2>3. Framed(u)
    BY <2>0 DEF Acts, Sound, Base, Framed, Blank, Budget, Kind, Omitted, Bodyless,
                SameRequest, SameRead, SameSending, SameOutline, SameAmount
  <2>4. Awake(u)
    BY <2>0
    DEF Acts, Sound, Awake, Attended, Posted, Timed, Sends, EndsOnce, SameTimers,
        SameRequest, SameRead, SameSending, SameOutline
  <2>5. s.status # "new"
    BY DEF Acts, Sound, Base, Turn
  <2> QED BY <1>3, <2>0, <2>1, <2>2, <2>3, <2>4, <2>5
  DEF Flushed, Sound, Base, SameOutline
<1>4. CASE s.status = "lost"
  <2> HIDE DEF a
  <2>1. /\ DOMAIN t = HTTPFields /\ t.raised /\ t.status = a.status
        /\ SameTimers(a, t) /\ SameRequest(a, t) /\ SameRead(a, t)
        /\ SameSending(a, t) /\ SameOutline(a, t) /\ SameAmount(a, t) /\ SameHandler(a, t)
    BY <1>1, <1>2, <1>4, RaiseFacts
  <2> HIDE DEF t
  <2>2. Flushed(s, t)
    BY <1>3, <1>4, <2>1
  <2> QED BY <2>2 DEF t
<1>5. CASE s.status # "lost" /\ ~s.headersWritten
  BY <1>1, <1>5, WriteHeadersFlushed
<1>6. CASE s.status # "lost" /\ s.headersWritten /\ Kind(s).method = "HEAD"
  <2>1. t = a /\ ~a.raised
    BY <1>1, <1>2, <1>6 DEF Acts
  <2>2. /\ SameTimers(a, a) /\ SameRequest(a, a) /\ SameRead(a, a) /\ SameSending(a, a)
        /\ SameOutline(a, a) /\ SameAmount(a, a) /\ SameHandler(a, a)
    BY
    DEF SameTimers, SameRequest, SameRead, SameSending, SameOutline, SameAmount,
        SameHandler
  <2> HIDE DEF a, t
  <2>3. Flushed(s, a)
    BY <1>2, <1>3, <1>6, <2>1, <2>2
  <2> QED BY <2>1, <2>3 DEF t
<1>7. CASE s.status # "lost" /\ s.headersWritten /\ Kind(s).method # "HEAD"
  BY <1>1, <1>7, WriteChunkFlushed
<1> QED BY <1>4, <1>5, <1>6, <1>7

-----------------------------------------------------------------------------
(* finish.                                                                 *)
Ended(s, t) ==
    /\ Sound(t) /\ t.frame = s.frame /\ t.stage = s.stage /\ t.finished = s.finished
    /\ t.status # "new" /\ (t.status = "lost" <=> s.status = "lost")
    /\ t.raised => Stays(s, t) /\ Unfinished(t)
    /\ ~t.raised => Stays(s, t) \/ Begins(s, t)

LEMMA EndResponseEnds ==
    ASSUME NEW s, Base(s), Attended(s), s.headersWritten, s.state # "READ_HEADER",
           ~s.raised, ~s.writeFinished, s.expected <= 0, s.status \notin {"new", "lost"},
           s.chunkingOutput => s.ends = 1, Kind(s).method # "HEAD" => s.status = "open"
    PROVE  Ended(s, EndResponse(s)) /\ ~EndResponse(s).raised
<1> DEFINE p == s.disconnectOnFinish \/ ~s.readFinished
           w == [s EXCEPT !.writeFinished = TRUE, !.disconnectOnFinish = p]
           t == EndResponse(s)
<1>1. t = IF w.pendingWrite THEN w ELSE FinishRequest(w)
  BY DEF EndResponse
<1>2. w.disconnectOnFinish <=> p
  <2>1. w.disconnectOnFinish = p
    BY Zenon DEF Base, Types, HTTPFields
  <2> HIDE DEF w
  <2> QED BY <2>1
<1>3. /\ DOMAIN w = HTTPFields /\ w.raised = s.raised /\ w.status = s.status
      /\ SameTimers(s, w) /\ SameRequest(s, w) /\ SameRead(s, w)
      /\ SameSending(s, w) /\ SameAmount(s, w) /\ SameHandler(s, w)
      /\ w.writeFinished /\ w.chunkingOutput = s.chunkingOutput
      /\ w.heads = s.heads /\ w.ends = s.ends
  <2>1. DOMAIN w = HTTPFields /\ w.raised = s.raised /\ w.status = s.status
    BY DEF Base, Types, HTTPFields
  <2>2. SameTimers(s, w) /\ SameRequest(s, w) /\ SameRead(s, w)
    BY DEF Base, Types, HTTPFields, SameTimers, SameRequest, SameRead
  <2>3. SameSending(s, w) /\ SameAmount(s, w) /\ SameHandler(s, w)
    BY DEF Base, Types, HTTPFields, SameSending, SameAmount, SameHandler
  <2>4. w.writeFinished /\ w.chunkingOutput = s.chunkingOutput
    BY DEF Base, Types, HTTPFields
  <2>5. w.heads = s.heads /\ w.ends = s.ends
    BY DEF Base, Types, HTTPFields
  <2> QED BY <2>1, <2>2, <2>3, <2>4, <2>5
<1> HIDE DEF w
<1>4. Types(w)
  BY <1>3 DEF Base, Types, SameTimers, SameRequest, SameRead, SameAmount, SameHandler
<1>5. Turn(w)
  BY <1>2, <1>3
  DEF Base, Turn, Kind, Lives, SameRequest, SameRead, SameSending, SameAmount, SameHandler
<1>6. Framed(w)
  BY <1>3
  DEF Base, Framed, Blank, Budget, Kind, Omitted, Bodyless, SameRequest, SameRead,
      SameSending, SameAmount, SameHandler
<1>7. w.frame = s.frame /\ w.stage = s.stage /\ w.finished = s.finished /\ Stays(s, w)
  BY <1>3 DEF SameHandler, Stays, SameRequest, SameRead
<1>8. CASE w.pendingWrite
  <2>1. t = w
    BY <1>1, <1>8
  <2>2. Awake(w)
    BY <1>3, <1>8
    DEF Awake, Attended, Posted, Timed, Sends, EndsOnce, SameTimers, SameRequest,
        SameRead, SameSending, SameHandler
  <2> HIDE DEF t
  <2> QED BY <1>3, <1>4, <1>5, <1>6, <1>7, <2>1, <2>2 DEF Ended, Sound, Base, t
<1>9. CASE ~w.pendingWrite
  <2>1. t = FinishRequest(w)
    BY <1>1, <1>9
  <2>2. ~w.unsent
    <3>1. w.unsent => w.expected > 0
      BY <1>3, <1>5, <1>9 DEF Turn, Kind, SameHandler, SameRequest
    <3> QED BY <1>3, <1>4, <3>1 DEF SameAmount, Types, NoLength
  <2> HIDE DEF t
  <2>3. /\ Sound(t) /\ t.raised = w.raised /\ SameHandler(w, t)
        /\ t.status = "lost" <=> w.status = "lost"
        /\ t.status # "new"
        /\ Stays(w, t) \/ Begins(w, t)
    BY <1>3, <1>4, <1>5, <1>6, <2>1, <2>2, FinishRequestSound DEF Base
  <2>4. Stays(s, t) \/ Begins(s, t)
    BY <1>3, <2>3 DEF Stays, Begins, SameRequest, SameRead, SameHandler
  <2>5. Ended(s, t) /\ ~t.raised
    BY <1>3, <2>3, <2>4 DEF Ended, SameHandler
  <2> QED BY <2>5 DEF t
<1> QED BY <1>8, <1>9

LEMMA FinishEnds ==
    ASSUME NEW s, Sound(s), Unfinished(s), Lives(s), ~s.raised, s.headersWritten,
           s.status # "lost", Kind(s).method # "HEAD" => s.status = "open"
    PROVE  Ended(s, Finish(s)) /\ (Finish(s).raised => Finish(s).headersWritten)
<1> DEFINE b == [s EXCEPT !.pendingWrite = TRUE, !.ends = s.ends + 1]
           u == IF s.chunkingOutput THEN WriteStream(b, 1, TRUE) ELSE s
           c == CloseHTTP(s)
           t == Finish(s)
<1>1. t = IF s.expected > 0 THEN Raise(c) ELSE IF u.raised THEN u ELSE EndResponse(u)
  BY DEF Finish
<1>2. /\ Budget(s) /\ Types(s) /\ Base(s) /\ s.status # "new" /\ s.state # "READ_HEADER"
      /\ ~s.writeFinished
  BY DEF Sound, Base, Framed, Turn, Unfinished
<1>3. CASE s.expected > 0
  <2>1. t = Raise(c)
    BY <1>1, <1>3
  <2>2. Sound(c) /\ c.status # "open"
    BY <1>2, CloseSound
  <2>3. /\ DOMAIN c = HTTPFields
        /\ c.status = (IF s.status = "open" THEN "closing" ELSE s.status)
        /\ SameRequest(s, c) /\ SameRead(s, c) /\ SameResponse(s, c) /\ SameHandler(s, c)
    BY <1>2, CloseFacts DEF Types
  <2> HIDE DEF c, t
  <2>4. /\ DOMAIN t = HTTPFields /\ t.raised /\ t.status = c.status
        /\ SameTimers(c, t) /\ SameRequest(c, t) /\ SameRead(c, t)
        /\ SameSending(c, t) /\ SameOutline(c, t) /\ SameAmount(c, t) /\ SameHandler(c, t)
    BY <2>1, <2>3, RaiseFacts
  <2>5. Types(t)
    BY <2>2, <2>4
    DEF Sound, Base, Types, SameTimers, SameRequest, SameRead, SameSending, SameOutline,
        SameAmount, SameHandler
  <2>6. Turn(t)
    BY <2>2, <2>4
    DEF Sound, Base, Turn, Kind, Lives, SameRequest, SameRead, SameSending, SameOutline,
        SameAmount, SameHandler
  <2>7. Framed(t)
    BY <2>2, <2>4
    DEF Sound, Base, Framed, Blank, Budget, Kind, Omitted, Bodyless, SameRequest,
        SameRead, SameSending, SameOutline, SameAmount, SameHandler
  <2>8. Awake(t)
    BY <2>2, <2>4 DEF Awake, Attended, Posted, Timed, Sends, EndsOnce
  <2>9. /\ t.status = c.status /\ t.frame = s.frame /\ t.stage = s.stage
        /\ t.state = s.state /\ Stays(s, t) /\ t.headersWritten /\ t.finished = s.finished
        /\ (t.writeFinished <=> s.writeFinished)
    BY <2>3, <2>4
    DEF Stays, SameRequest, SameRead, SameResponse, SameSending, SameOutline, SameHandler
  <2>10. Ended(s, t) /\ t.headersWritten
    BY <1>2, <2>3, <2>4, <2>5, <2>6, <2>7, <2>8, <2>9
    DEF Ended, Sound, Base, Types, Unfinished, Lives
  <2> QED BY <2>10 DEF t
<1>4. CASE ~(s.expected > 0) /\ ~s.chunkingOutput
  <2>1. t = EndResponse(s) /\ s.expected <= 0
    BY <1>1, <1>2, <1>4 DEF Types, NoLength
  <2> HIDE DEF t
  <2>2. Ended(s, t) /\ ~t.raised
    BY <1>2, <1>4, <2>1, EndResponseEnds DEF Sound, Awake
  <2> QED BY <2>2 DEF t
<1>5. CASE ~(s.expected > 0) /\ s.chunkingOutput
  <2>1. u = WriteStream(b, 1, TRUE)
    BY <1>5
  <2>2. /\ DOMAIN b = HTTPFields /\ b.raised = s.raised /\ b.status = s.status
        /\ SameTimers(s, b) /\ SameRequest(s, b) /\ SameRead(s, b)
        /\ SameAmount(s, b) /\ SameHandler(s, b)
        /\ b.pendingWrite /\ b.unsent = s.unsent /\ b.streamCallback = s.streamCallback
        /\ b.ends = s.ends + 1 /\ b.heads = s.heads /\ b.writeFinished = s.writeFinished
        /\ b.disconnectOnFinish = s.disconnectOnFinish /\ b.chunkingOutput = s.chunkingOutput
    <3>1. DOMAIN b = HTTPFields /\ b.raised = s.raised /\ b.status = s.status
      BY <1>2 DEF Types, HTTPFields
    <3>2. SameTimers(s, b) /\ SameRequest(s, b) /\ SameRead(s, b)
      BY <1>2 DEF Types, HTTPFields, SameTimers, SameRequest, SameRead
    <3>3. SameAmount(s, b) /\ SameHandler(s, b)
      BY <1>2 DEF Types, HTTPFields, SameAmount, SameHandler
    <3>4. b.pendingWrite /\ b.unsent = s.unsent /\ b.streamCallback = s.streamCallback
      BY <1>2 DEF Types, HTTPFields
    <3>5. b.ends = s.ends + 1 /\ b.heads = s.heads /\ b.writeFinished = s.writeFinished
      BY <1>2 DEF Types, HTTPFields
    <3>6. b.disconnectOnFinish = s.disconnectOnFinish /\ b.chunkingOutput = s.chunkingOutput
      BY <1>2 DEF Types, HTTPFields
    <3> QED BY <3>1, <3>2, <3>3, <3>4, <3>5, <3>6
  <2> HIDE DEF b, u
  <2>3. /\ DOMAIN u = HTTPFields /\ u.status = b.status
        /\ SameTimers(b, u) /\ SameRequest(b, u) /\ SameRead(b, u)
        /\ SameOutline(b, u) /\ SameAmount(b, u) /\ SameHandler(b, u)
        /\ u.pendingWrite = b.pendingWrite
        /\ IF b.status = "open"
           THEN u.raised = b.raised /\ u.streamCallback = TRUE /\ (u.unsent <=> b.unsent \/ 1 > 0)
           ELSE u.raised /\ SameSending(b, u)
    <3>1. TRUE \in BOOLEAN /\ DOMAIN b = HTTPFields
      BY <2>2
    <3> HIDE DEF c, t
    <3>2. LET v == WriteStream(b, 1, TRUE)
          IN /\ DOMAIN v = HTTPFields /\ v.status = b.status
             /\ SameTimers(b, v) /\ SameRequest(b, v) /\ SameRead(b, v)
             /\ SameOutline(b, v) /\ SameAmount(b, v) /\ SameHandler(b, v)
             /\ v.pendingWrite = b.pendingWrite
             /\ IF b.status = "open"
                THEN /\ v.raised = b.raised /\ v.streamCallback = TRUE
                     /\ v.unsent <=> b.unsent \/ 1 > 0
                ELSE v.raised /\ SameSending(b, v)
      BY <3>1, WriteStreamFacts, Zenon
    <3> QED BY <2>1, <3>2, Zenon
  <2>4. /\ DOMAIN u = HTTPFields /\ u.status = s.status
        /\ SameTimers(s, u) /\ SameRequest(s, u) /\ SameRead(s, u)
        /\ SameAmount(s, u) /\ SameHandler(s, u)
        /\ u.pendingWrite /\ u.ends = s.ends + 1 /\ u.heads = s.heads
        /\ (u.writeFinished <=> s.writeFinished) /\ u.chunkingOutput = s.chunkingOutput
        /\ u.disconnectOnFinish = s.disconnectOnFinish
        /\ u.raised <=> s.status # "open"
        /\ s.status = "open" => u.streamCallback
    <3>1. DOMAIN u = HTTPFields /\ u.status = s.status
      BY <2>2, <2>3
      DEF SameTimers, SameRequest, SameRead, SameOutline, SameAmount, SameHandler
    <3>2. SameTimers(s, u) /\ SameRequest(s, u) /\ SameRead(s, u)
      BY <2>2, <2>3
      DEF SameTimers, SameRequest, SameRead, SameOutline, SameAmount, SameHandler
    <3>3. SameAmount(s, u) /\ SameHandler(s, u)
      BY <2>2, <2>3
      DEF SameTimers, SameRequest, SameRead, SameOutline, SameAmount, SameHandler
    <3>4. u.pendingWrite /\ u.ends = s.ends + 1 /\ u.heads = s.heads
      BY <2>2, <2>3
      DEF SameTimers, SameRequest, SameRead, SameOutline, SameAmount, SameHandler
    <3>5. (u.writeFinished <=> s.writeFinished) /\ u.chunkingOutput = s.chunkingOutput
      BY <2>2, <2>3
      DEF SameTimers, SameRequest, SameRead, SameOutline, SameAmount, SameHandler
    <3>6. u.disconnectOnFinish = s.disconnectOnFinish
      BY <2>2, <2>3
      DEF SameTimers, SameRequest, SameRead, SameOutline, SameAmount, SameHandler
    <3>7. u.raised <=> s.status # "open"
      BY <2>2, <2>3
      DEF SameTimers, SameRequest, SameRead, SameOutline, SameAmount, SameHandler
    <3>8. s.status = "open" => u.streamCallback
      BY <2>2, <2>3
      DEF SameTimers, SameRequest, SameRead, SameOutline, SameAmount, SameHandler
    <3> QED BY <3>1, <3>2, <3>3, <3>4, <3>5, <3>6, <3>7, <3>8
  <2>5. Types(u)
    <3>1. /\ DOMAIN u = HTTPFields /\ u.status \in {"new", "open", "closing", "lost"}
          /\ u.want.kind \in Kinds /\ (u.want.kind = "bytes" => u.want.n \in Nat \ {0})
      BY <1>2, <2>4 DEF Types, SameRead
    <3>2. u.buffer \in Seq(Wires) /\ u.eaten \in 0..Len(u.buffer)
      BY <1>2, <2>4 DEF Types, SameRequest
    <3>3. u.posted \in Nat /\ u.stray \in Nat /\ u.due \in Nat
      BY <1>2, <2>4 DEF Types, SameRead, SameTimers
    <3>4. u.bytesRead \in Nat /\ u.bytesToRead \in Nat /\ u.begun \in Nat
      BY <1>2, <2>4 DEF Types, SameRequest
    <3>5. u.heads \in Nat /\ u.ends \in Nat
      <4>1. s.heads \in Nat /\ s.ends \in Nat
        BY <1>2 DEF Types
      <4> QED BY <2>4, <4>1
    <3>6. u.buffered \in Nat /\ u.sent \in Nat /\ u.flushes \in Nat
      BY <1>2, <2>4 DEF Types, SameHandler, SameAmount
    <3>7. u.length \in Nat \cup {NoLength} /\ u.expected \in Nat \cup {NoLength}
      BY <1>2, <2>4 DEF Types, SameHandler, SameAmount
    <3> QED BY <3>1, <3>2, <3>3, <3>4, <3>5, <3>6, <3>7 DEF Types
  <2>6. Turn(u)
    BY <1>2, <2>4 DEF Base, Turn, Kind, Lives, SameRequest, SameRead, SameAmount,
                      SameHandler
  <2>7. Framed(u)
    BY <1>2, <1>5, <2>4
    DEF Framed, Budget, Kind, Omitted, Bodyless, SameRequest, SameRead, SameAmount,
        SameHandler
  <2>8. CASE u.raised
    <3>1. t = u
      BY <1>1, <1>5, <2>8
    <3>2. Awake(u)
      BY <2>4, <2>8 DEF Awake, Attended, Posted, Timed, Sends, EndsOnce
    <3>3. Unfinished(u) /\ Stays(s, u)
      BY <1>2, <2>4 DEF Unfinished, Lives, Stays, SameRequest, SameRead, SameHandler
    <3> HIDE DEF t
    <3>4. Ended(s, t) /\ t.headersWritten
      BY <1>2, <2>4, <2>5, <2>6, <2>7, <3>1, <3>2, <3>3
      DEF Ended, Sound, Base, SameHandler
    <3> QED BY <3>4 DEF t
  <2>9. CASE ~u.raised
    <3>1. t = EndResponse(u)
      BY <1>1, <1>5, <2>9
    <3>2. Attended(u)
      BY <1>2, <2>4
      DEF Sound, Awake, Attended, Posted, Timed, Sends, EndsOnce, SameTimers, SameRequest,
          SameRead, SameHandler
    <3>3. u.ends = 1
      <4>1. s.ends \in Nat /\ ~(s.ends > 0)
        BY <1>2, <2>4, <2>9 DEF Sound, Awake, EndsOnce, Types
      <4> QED BY <2>4, <4>1
    <3>4. /\ u.headersWritten /\ u.state # "READ_HEADER" /\ ~u.writeFinished /\ u.expected <= 0
          /\ u.status \notin {"new", "lost"}
      <4>1. s.expected <= 0
        BY <1>2, <1>5 DEF Types, NoLength
      <4> QED BY <1>2, <2>4, <4>1 DEF SameRead, SameAmount, SameHandler
    <3> HIDE DEF t
    <3>7. Kind(u).method # "HEAD" => u.status = "open"
      BY <2>4 DEF Kind, SameRequest
    <3>5. Ended(u, t) /\ ~t.raised
      BY <2>5, <2>6, <2>7, <2>9, <3>1, <3>2, <3>3, <3>4, <3>7, EndResponseEnds DEF Base
    <3>6. Ended(s, t)
      BY <2>4, <3>5 DEF Ended, Stays, Begins, SameRequest, SameRead, SameHandler
    <3> QED BY <3>5, <3>6 DEF t
  <2> QED BY <2>8, <2>9
<1> QED BY <1>3, <1>4, <1>5

-----------------------------------------------------------------------------
(* The handler finishes.                                                   *)

(* Nothing but what the handler is preparing, and the exception.           *)
Edited(s, t) ==
    /\ DOMAIN t = HTTPFields /\ t.status = s.status
    /\ SameTimers(s, t) /\ SameRequest(s, t) /\ SameRead(s, t)
    /\ SameSending(s, t) /\ SameOutline(s, t) /\ SameAmount(s, t)
    /\ t.frame = s.frame /\ t.stage = s.stage
    /\ t.headersWritten = s.headersWritten
    /\ t.buffered \in Nat /\ t.length \in Nat \cup {NoLength}
    /\ t.flushes \in Nat
    /\ s.headersWritten => /\ t.length = s.length /\ t.code = s.code
                           /\ \/ t.buffered = s.buffered /\ t.flushes = s.flushes
                              \/ t.flushes > 0

LEMMA EditedSound ==
    ASSUME NEW s, NEW t, Sound(s), Edited(s, t)
    PROVE  /\ Sound(t) /\ Stays(s, t) /\ (Lives(t) <=> Lives(s))
           /\ Unfinished(s) => Unfinished(t)
<1>1. Types(t)
  BY DEF Edited, Sound, Base, Types, SameTimers, SameRequest, SameRead, SameSending,
         SameOutline, SameAmount
<1>2. Turn(t)
  BY DEF Edited, Sound, Base, Turn, Kind, Lives, SameRequest, SameRead, SameSending,
         SameOutline, SameAmount
<1>3. Framed(t)
  BY
  DEF Edited, Sound, Base, Framed, Blank, Budget, Kind, Omitted, Bodyless, SameRequest,
      SameRead, SameSending, SameOutline, SameAmount
<1>4. Awake(t)
  BY
  DEF Edited, Sound, Awake, Attended, Posted, Timed, Sends, EndsOnce, SameTimers,
      SameRequest, SameRead, SameSending,
         SameOutline
<1>5. /\ Stays(s, t) /\ (Lives(t) <=> Lives(s))
      /\ Unfinished(s) => Unfinished(t)
  BY DEF Edited, Stays, Lives, Unfinished, SameRequest, SameRead, SameOutline
<1> QED BY <1>1, <1>2, <1>3, <1>4, <1>5 DEF Sound, Base

Answered(s, t) ==
    /\ Sound(t) /\ t.frame = s.frame /\ t.stage = s.stage
    /\ t.status # "new" /\ (t.status = "lost" <=> s.status = "lost")
    /\ t.raised => Stays(s, t) /\ Unfinished(t) /\ t.finished = s.finished
    /\ ~t.raised => t.finished /\ (Stays(s, t) \/ Begins(s, t))

LEMMA HandlerFinishAnswers ==
    ASSUME NEW s, Acts(s)
    PROVE  Answered(s, HandlerFinish(s))
<1> DEFINE a == IF s.headersWritten THEN s
                ELSE IF Bodyless(s) THEN [s EXCEPT !.length = NoLength]
                ELSE IF s.length # NoLength THEN s
                ELSE [s EXCEPT !.length = s.buffered]
           c == ClearCallbacks(a)
           u == Flush(c)
           v == Finish(u)
           w == [v EXCEPT !.finished = TRUE]
           t == HandlerFinish(s)
<1>1. t = IF Bodyless(s) /\ ~s.headersWritten /\ s.buffered > 0 THEN Raise(s)
          ELSE IF u.raised THEN u ELSE IF v.raised THEN v ELSE w
  BY DEF HandlerFinish
<1>10. CASE Bodyless(s) /\ ~s.headersWritten /\ s.buffered > 0
  <2>1. t = Raise(s) /\ Types(s)
    BY <1>1, <1>10 DEF Acts, Sound, Base
  <2>2. Edited(s, t) /\ t.raised /\ t.finished = s.finished
    BY <2>1 DEF Raise, Types, HTTPFields, Edited, SameTimers, SameRequest, SameRead,
                SameSending, SameOutline, SameAmount
  <2> HIDE DEF t
  <2>3. Sound(t) /\ Stays(s, t) /\ Unfinished(t)
    BY <2>2, EditedSound DEF Acts
  <2>4. s.status # "new"
    BY DEF Acts, Sound, Base, Turn
  <2>5. Answered(s, t)
    BY <2>2, <2>3, <2>4 DEF Answered, Edited
  <2> QED BY <2>5 DEF t
<1>2. SUFFICES ASSUME ~(Bodyless(s) /\ ~s.headersWritten /\ s.buffered > 0)
               PROVE  Answered(s, HandlerFinish(s))
  BY <1>10
<1>3. Edited(s, a) /\ a.raised = s.raised /\ a.finished = s.finished /\ Fits(a)
  <2>0. Types(s) /\ ~(Bodyless(s) /\ ~s.headersWritten /\ s.buffered > 0)
    BY <1>2 DEF Acts, Sound, Base
  <2>3. Fits(s)
    BY <2>0 DEF Fits, Types
  <2>1. CASE a = s
    BY <2>0, <2>1, <2>3
    DEF Types, Edited, SameTimers, SameRequest, SameRead, SameSending, SameOutline,
        SameAmount
  <2>2. ASSUME NEW n \in Nat \cup {NoLength}, a = [s EXCEPT !.length = n], ~s.headersWritten
        PROVE  Edited(s, a) /\ a.raised = s.raised /\ a.finished = s.finished /\ Fits(a)
    <3>1. /\ DOMAIN a = HTTPFields /\ a.status = s.status /\ a.raised = s.raised
          /\ SameTimers(s, a) /\ SameRequest(s, a) /\ SameRead(s, a)
          /\ SameSending(s, a) /\ SameOutline(s, a) /\ SameAmount(s, a)
          /\ a.frame = s.frame /\ a.stage = s.stage /\ a.finished = s.finished
          /\ a.headersWritten = s.headersWritten /\ a.code = s.code
          /\ a.flushes = s.flushes /\ a.buffered = s.buffered /\ a.length = n
      BY <2>0, <2>2 DEF Types, HTTPFields, SameTimers, SameRequest, SameRead,
                  SameSending, SameOutline, SameAmount
    <3> HIDE DEF a
    <3> QED BY <2>0, <2>2, <2>3, <3>1 DEF Types, Edited, Fits, Bodyless
  <2>4. \/ a = s
        \/ a = [s EXCEPT !.length = NoLength] /\ ~s.headersWritten
        \/ a = [s EXCEPT !.length = s.buffered] /\ ~s.headersWritten
    OBVIOUS
  <2>5. NoLength \in Nat \cup {NoLength} /\ s.buffered \in Nat \cup {NoLength}
    BY <2>0 DEF Types
  <2> HIDE DEF a
  <2> QED BY <2>1, <2>2, <2>4, <2>5
<1> HIDE DEF a
<1>4. Edited(s, c) /\ c.raised = s.raised /\ c.finished = s.finished /\ Fits(c)
  <2>1. /\ DOMAIN c = HTTPFields /\ c.raised = a.raised /\ c.status = a.status
        /\ SameTimers(a, c) /\ SameRequest(a, c) /\ SameRead(a, c)
        /\ SameResponse(a, c) /\ SameHandler(a, c)
    BY <1>3, ClearFacts DEF Edited
  <2> HIDE DEF c
  <2> QED BY <1>3, <2>1
          DEF Edited, Fits, Bodyless, SameTimers, SameRequest, SameRead, SameResponse,
              SameSending, SameOutline, SameAmount, SameHandler
<1> HIDE DEF c
<1>5. Acts(c) /\ Stays(s, c) /\ c.frame = s.frame /\ c.stage = s.stage
      /\ c.finished = s.finished /\ c.status = s.status /\ c.req = s.req
  BY <1>4, EditedSound DEF Acts, Edited, SameRequest
<1>6. Flushed(c, u)
  BY <1>4, <1>5, FlushFlushed
<1> HIDE DEF u
<1>7. /\ Stays(s, u) /\ u.frame = s.frame /\ u.stage = s.stage /\ u.finished = s.finished
      /\ Lives(u) /\ Unfinished(u) /\ Kind(u) = Kind(c)
  BY <1>5, <1>6
  DEF Flushed, Acts, Stays, Lives, Unfinished, Kind, SameRequest, SameRead
<1>8. CASE u.raised
  <2>1. t = u
    BY <1>1, <1>2, <1>8
  <2> HIDE DEF t
  <2>2. Answered(s, t)
    BY <1>5, <1>6, <1>7, <1>8, <2>1 DEF Flushed, Answered
  <2> QED BY <2>2 DEF t
<1>9. CASE ~u.raised
  <2>1. Ended(u, v) /\ (v.raised => v.headersWritten)
    BY <1>6, <1>7, <1>9, FinishEnds DEF Flushed
  <2> HIDE DEF v
  <2>2. Ended(s, v)
    BY <1>5, <1>6, <1>7, <2>1 DEF Ended, Flushed, Stays, Begins
  <2>3. CASE v.raised
    <3>1. t = v
      BY <1>1, <1>2, <1>9, <2>3
    <3> HIDE DEF t
    <3>2. Answered(s, t)
      BY <2>2, <2>3, <3>1 DEF Ended, Answered
    <3> QED BY <3>2 DEF t
  <2>4. CASE ~v.raised
    <3>1. t = w
      BY <1>1, <1>2, <1>9, <2>4
    <3>2. Edited(v, w) /\ w.finished /\ w.raised = v.raised /\ w.unsent = v.unsent
      BY <2>2 DEF Ended, Sound, Base, Types, HTTPFields, Edited, SameTimers, SameRequest,
                  SameRead, SameSending, SameOutline, SameAmount
    <3> HIDE DEF w, t
    <3>3. Sound(w) /\ Stays(v, w)
      BY <2>2, <3>2, EditedSound DEF Ended
    <3>4. Stays(s, w) \/ Begins(s, w)
      BY <2>2, <2>4, <3>2, <3>3 DEF Ended, Stays, Begins, Edited, SameOutline
    <3>5. Answered(s, t)
      BY <2>2, <2>4, <3>1, <3>2, <3>3, <3>4 DEF Ended, Answered, Edited
    <3> QED BY <3>5 DEF t
  <2> QED BY <2>3, <2>4
<1> QED BY <1>8, <1>9

-----------------------------------------------------------------------------
(* Exceptions, and the end of the method.                                  *)
Settled(s, t) ==
    /\ Sound(t) /\ ~t.raised /\ t.frame = s.frame /\ t.stage = s.stage /\ t.status # "new"
    /\ ~t.finished => Unfinished(t)
    /\ Stays(s, t) \/ Begins(s, t)

LEMMA CaughtEdited ==
    ASSUME NEW s, Types(s)
    PROVE  LET t == Caught(s)
           IN /\ Edited(s, t) /\ ~t.raised /\ t.finished = s.finished
              /\ t.buffered = s.buffered /\ t.length = s.length /\ t.code = s.code
              /\ t.flushes = s.flushes
BY DEF Caught, Types, HTTPFields, Edited, SameTimers, SameRequest, SameRead, SameSending,
       SameOutline, SameAmount

LEMMA SendErrorAnswers ==
    ASSUME NEW s, Sound(s), Unfinished(s), Lives(s), ~s.raised, ~s.finished
    PROVE  Answered(s, SendError(s))
<1> DEFINE a == [s EXCEPT !.length = NoLength, !.code = "ok", !.buffered = s.buffered + 1]
           u == HandlerFinish(a)
           c == Caught(u)
           t == SendError(s)
<1>1. t = IF s.headersWritten THEN HandlerFinish(s) ELSE IF u.raised THEN HandlerFinish(c) ELSE u
  BY DEF SendError
<1>2. CASE s.headersWritten
  <2>1. Acts(s)
    BY <1>2 DEF Acts
  <2> QED BY <1>1, <1>2, <2>1, HandlerFinishAnswers
<1>3. CASE ~s.headersWritten
  <2>1. /\ Edited(s, a) /\ a.raised = s.raised /\ a.finished = s.finished
    <3>1. /\ DOMAIN a = HTTPFields /\ a.status = s.status /\ a.raised = s.raised
          /\ SameTimers(s, a) /\ SameRequest(s, a) /\ SameRead(s, a)
          /\ SameSending(s, a) /\ SameOutline(s, a) /\ SameAmount(s, a)
          /\ a.frame = s.frame /\ a.stage = s.stage /\ a.finished = s.finished
          /\ a.headersWritten = s.headersWritten /\ a.flushes = s.flushes
          /\ a.buffered = s.buffered + 1 /\ a.length = NoLength
      BY DEF Sound, Base, Types, HTTPFields, SameTimers, SameRequest, SameRead,
             SameSending, SameOutline, SameAmount
    <3> HIDE DEF a
    <3>2. s.buffered \in Nat /\ s.flushes \in Nat
      BY DEF Sound, Base, Types
    <3> QED BY <1>3, <3>1, <3>2 DEF Edited
  <2> HIDE DEF a
  <2>2. Acts(a) /\ Stays(s, a)
    BY <2>1, EditedSound DEF Acts
  <2>3. Answered(a, u)
    BY <2>2, HandlerFinishAnswers
  <2> HIDE DEF u
  <2>4. Answered(s, u)
    BY <2>1, <2>2, <2>3 DEF Answered, Stays, Begins, Edited, SameRequest, SameRead
  <2>5. CASE u.raised
    <3>1. t = HandlerFinish(c)
      BY <1>1, <1>3, <2>5
    <3>2. Types(u)
      BY <2>4 DEF Answered, Sound, Base
    <3>3. /\ Edited(u, c) /\ ~c.raised /\ c.finished = u.finished
          /\ c.buffered = u.buffered /\ c.length = u.length /\ c.code = u.code
          /\ c.flushes = u.flushes
      BY <3>2, CaughtEdited
    <3> HIDE DEF c, t
    <3>4. Lives(u)
      BY <2>4 DEF Answered, Lives
    <3>5. Acts(c) /\ Stays(u, c)
      BY <2>4, <2>5, <3>3, <3>4, EditedSound DEF Answered, Acts, Edited
    <3>6. Answered(c, t)
      BY <3>1, <3>5, HandlerFinishAnswers
    <3>7. Answered(s, t)
      BY <2>4, <2>5, <3>3, <3>5, <3>6
      DEF Answered, Stays, Begins, Edited, SameRequest, SameRead
    <3> QED BY <3>7 DEF t
  <2>6. CASE ~u.raised
    BY <1>1, <1>3, <2>4, <2>6
  <2> QED BY <2>5, <2>6
<1> QED BY <1>2, <1>3

LEMMA ExceptionSettled ==
    ASSUME NEW s, Sound(s), Lives(s), ~s.finished => Unfinished(s)
    PROVE  Settled(s, HandleRequestException(s))
<1> DEFINE c == Caught(s)
           u == SendError(c)
           d == Caught(u)
           t == HandleRequestException(s)
<1>1. t = IF s.finished THEN c ELSE d
  BY DEF HandleRequestException
<1>2. Edited(s, c) /\ ~c.raised /\ c.finished = s.finished
  BY CaughtEdited DEF Sound, Base
<1> HIDE DEF c
<1>3. /\ Sound(c) /\ Stays(s, c) /\ Lives(c) /\ c.status # "new"
      /\ ~s.finished => Unfinished(c)
  BY <1>2, EditedSound DEF Edited, Sound, Base, Turn
<1>4. CASE s.finished
  <2>1. t = c
    BY <1>1, <1>4
  <2> HIDE DEF t
  <2>2. Settled(s, t)
    BY <1>2, <1>3, <1>4, <2>1 DEF Settled, Edited
  <2> QED BY <2>2 DEF t
<1>5. CASE ~s.finished
  <2>1. t = d
    BY <1>1, <1>5
  <2>2. Answered(c, u)
    BY <1>2, <1>3, <1>5, SendErrorAnswers
  <2> HIDE DEF u
  <2>3. Edited(u, d) /\ ~d.raised /\ d.finished = u.finished
    BY <2>2, CaughtEdited DEF Answered, Sound, Base
  <2> HIDE DEF d
  <2>4. Sound(d) /\ Stays(u, d) /\ (Unfinished(u) => Unfinished(d))
    BY <2>2, <2>3, EditedSound DEF Answered
  <2>5. d.frame = s.frame /\ d.stage = s.stage /\ d.status # "new"
    BY <1>2, <2>2, <2>3 DEF Answered, Edited
  <2>6. ~d.finished => Unfinished(d)
    BY <2>2, <2>3, <2>4 DEF Answered
  <2>7. Stays(c, u) \/ Begins(c, u)
    BY <2>2 DEF Answered
  <2>8. Stays(s, d) \/ Begins(s, d)
    BY <1>2, <1>3, <2>3, <2>4, <2>7
    DEF Stays, Begins, Edited, SameRequest, SameRead, SameSending, SameOutline
  <2> HIDE DEF t
  <2>9. Settled(s, t)
    BY <2>1, <2>3, <2>4, <2>5, <2>6, <2>8 DEF Settled
  <2> QED BY <2>9 DEF t
<1> QED BY <1>4, <1>5

LEMMA ExecuteFinishSettled ==
    ASSUME NEW s, Sound(s), Lives(s), ~s.raised, ~s.finished => Unfinished(s)
    PROVE  Settled(s, ExecuteFinish(s))
<1> DEFINE a == IF s.finished THEN s ELSE HandlerFinish(s)
           t == ExecuteFinish(s)
<1>1. t = IF a.raised THEN HandleRequestException(a) ELSE a
  BY DEF ExecuteFinish
<1>2. s.status # "new"
  BY DEF Sound, Base, Turn
<1>3. CASE s.finished
  <2>1. t = s
    BY <1>1, <1>3
  <2>2. Stays(s, s)
    BY DEF Stays
  <2> HIDE DEF t
  <2> QED BY <1>2, <1>3, <2>1, <2>2 DEF Settled, t
<1>4. CASE ~s.finished
  <2>1. Answered(s, a)
    BY <1>4, HandlerFinishAnswers DEF Acts
  <2> HIDE DEF a
  <2>2. CASE a.raised
    <3>1. t = HandleRequestException(a)
      BY <1>1, <2>2
    <3> HIDE DEF t
    <3>2. Sound(a) /\ Lives(a) /\ Unfinished(a) /\ Stays(s, a) /\ a.frame = s.frame
          /\ a.stage = s.stage
      BY <2>1, <2>2 DEF Answered, Lives
    <3>3. Settled(a, t)
      BY <3>1, <3>2, ExceptionSettled
    <3> QED BY <3>2, <3>3 DEF Settled, Stays, Begins, t
  <2>3. CASE ~a.raised
    <3>1. t = a
      BY <1>1, <2>3
    <3> HIDE DEF t
    <3> QED BY <2>1, <2>3, <3>1 DEF Answered, Settled, t
  <2> QED BY <2>2, <2>3
<1> QED BY <1>3, <1>4

-----------------------------------------------------------------------------
(* Reading a request.                                                      *)
Core(s) == Base(s) /\ Sends(s) /\ EndsOnce(s)

(* A read has completed, and its octets are being looked at.               *)
Hears(s) ==
    /\ Core(s) /\ Tidy(s) /\ (~s.finished => Unfinished(s))
    /\ s.want = NoRead /\ s.frame = "idle" /\ ~s.raised /\ ~s.readFinished /\ s.status # "new"
    /\ s.state # "READ_HEADER" => s.stage = "found"

(* What becomes of them: the next read, a handler, or an exception.        *)
Took(s, t) ==
    /\ Core(t) /\ Posted(t) /\ Tidy(t) /\ (~t.finished => Unfinished(t))
    /\ t.status # "new" /\ t.begun = s.begun /\ t.buffer = s.buffer /\ t.eaten = s.eaten
    /\ t.frame \in {"idle", "data", "finish", "emptyBody"}
    /\ t.frame \in {"finish", "emptyBody"} => t.stage = "prepare"
    /\ t.raised => t.frame = "idle"

LEMMA SoundParts ==
    ASSUME NEW s
    PROVE  Sound(s) <=> Core(s) /\ Posted(s) /\ Timed(s)
BY DEF Sound, Core, Awake, Attended

LEMMA ArmCore ==
    ASSUME NEW s, Core(s), NEW x \in {"header", "body"}
    PROVE  LET t == Arm(s, x)
           IN /\ Core(t) /\ Timed(t) /\ (Posted(s) => Posted(t)) /\ t.raised = s.raised
              /\ t.status = s.status /\ SameRequest(s, t) /\ SameRead(s, t)
              /\ SameResponse(s, t) /\ SameHandler(s, t)
<1> DEFINE t == Arm(s, x)
<1>1. /\ Types(t) /\ t.raised = s.raised /\ t.status = s.status
      /\ SameRequest(s, t) /\ SameRead(s, t) /\ SameResponse(s, t) /\ SameHandler(s, t)
      /\ config.timeouts => t.header \/ t.body \/ t.stray > 0 \/ t.due > 0
  BY ArmFacts DEF Core, Base
<1> HIDE DEF t
<1>2. Turn(t)
  BY <1>1
  DEF Core, Base, Turn, Kind, Lives, SameRequest, SameRead, SameResponse, SameSending,
      SameOutline, SameAmount, SameHandler
<1>3. Framed(t)
  BY <1>1
  DEF Core, Base, Framed, Blank, Budget, Kind, Omitted, Bodyless, SameRequest, SameRead,
      SameResponse, SameSending, SameOutline, SameAmount, SameHandler
<1>4. Sends(t) /\ EndsOnce(t) /\ Timed(t) /\ (Posted(s) => Posted(t))
  BY <1>1
  DEF Core, Sends, EndsOnce, Timed, Posted, SameRequest, SameRead, SameResponse,
      SameSending, SameOutline, SameHandler
<1>5. /\ Core(t) /\ Timed(t) /\ (Posted(s) => Posted(t)) /\ t.raised = s.raised
      /\ t.status = s.status /\ SameRequest(s, t) /\ SameRead(s, t)
      /\ SameResponse(s, t) /\ SameHandler(s, t)
  BY <1>1, <1>2, <1>3, <1>4 DEF Core, Base
<1> QED BY <1>5 DEF t

(* The handler's part of the state, unless a read was finished.            *)
LEMMA ReadTakes ==
    ASSUME NEW s, Hears(s), s.state # "READ_HEADER" \/ ~s.headersWritten,
           s.stage = "found",
           NEW state, state # "READ_HEADER", NEW w, w.kind \in Kinds,
           w.kind = "bytes" => w.n \in Nat \ {0}
    PROVE  LET t == Read(s, state, w)
           IN /\ Took(s, t) /\ ~t.raised /\ t.frame = "idle" /\ (Timed(s) => Timed(t))
              /\ t.readFinished = s.readFinished
<1> DEFINE t == Read(s, state, w)
<1>1. /\ Types(t) /\ t.raised = s.raised /\ t.status = s.status
      /\ SameRequest(s, t) /\ SameTimers(s, t) /\ SameResponse(s, t) /\ SameHandler(s, t)
      /\ t.state = state /\ t.want = w /\ (t.asserted <=> s.asserted \/ s.want # NoRead)
      /\ Satisfied(w, SubSeq(t.buffer, t.eaten + 1, Len(t.buffer))) => t.posted > 0
  BY ReadFacts DEF Hears, Core, Base
<1> HIDE DEF t
<1>2. Turn(t)
  BY <1>1
  DEF Hears, Core, Base, Turn, Kind, Lives, SameRequest, SameResponse, SameSending,
      SameOutline, SameAmount, SameHandler
<1>3. Framed(t)
  BY <1>1
  DEF Hears, Core, Base, Framed, Blank, Budget, Kind, Omitted, Bodyless, SameRequest,
      SameResponse, SameSending, SameOutline, SameAmount, SameHandler
<1>4. Sends(t) /\ EndsOnce(t) /\ (Timed(s) => Timed(t)) /\ Posted(t)
  BY <1>1
  DEF Hears, Core, Sends, EndsOnce, Timed, Posted, SameRequest, SameTimers, SameResponse,
      SameSending, SameOutline, SameHandler
<1>5. Tidy(t) /\ (~t.finished => Unfinished(t))
  BY <1>1
  DEF Hears, Tidy, Unfinished, Lives, SameResponse, SameOutline, SameHandler
<1>6. /\ Took(s, t) /\ ~t.raised /\ t.frame = "idle" /\ (Timed(s) => Timed(t))
      /\ t.readFinished = s.readFinished
  BY <1>1, <1>2, <1>3, <1>4, <1>5 DEF Hears, Took, Core, Base, SameRequest, SameHandler
<1> QED BY <1>6 DEF t

LEMMA ReadFinishedTakes ==
    ASSUME NEW s, Hears(s), s.state # "READ_HEADER" \/ ~s.headersWritten,
           NEW frame \in {"finish", "emptyBody"}
    PROVE  LET t == ReadFinished(s, frame)
           IN Took(s, t) /\ Timed(t) /\ ~t.raised /\ t.frame \in {"idle", frame}
<1> DEFINE a == [s EXCEPT !.readFinished = TRUE, !.body = FALSE, !.state = "READ_NONE"]
           b == [a EXCEPT !.frame = frame, !.stage = "prepare"]
           t == ReadFinished(s, frame)
<1>1. t = IF a.writeFinished THEN a ELSE b
  BY DEF ReadFinished
<1>2. /\ DOMAIN a = HTTPFields /\ a.raised = s.raised /\ a.status = s.status
      /\ a.readFinished /\ a.state = "READ_NONE" /\ a.want = s.want /\ a.posted = s.posted
      /\ a.asserted = s.asserted /\ a.req = s.req /\ a.begun = s.begun
      /\ a.bytesRead = s.bytesRead /\ a.bytesToRead = s.bytesToRead
      /\ a.buffer = s.buffer /\ a.eaten = s.eaten /\ a.stray = s.stray /\ a.due = s.due
      /\ SameSending(s, a) /\ SameOutline(s, a) /\ SameAmount(s, a) /\ SameHandler(s, a)
  BY
  DEF Hears, Core, Base, Types, HTTPFields, SameSending, SameOutline, SameAmount,
      SameHandler
<1> HIDE DEF a
<1>3. /\ DOMAIN b = HTTPFields /\ b.raised = a.raised /\ b.status = a.status
      /\ b.stray = a.stray /\ b.due = a.due
      /\ SameRequest(a, b) /\ SameRead(a, b) /\ SameSending(a, b) /\ SameOutline(a, b)
      /\ SameAmount(a, b) /\ b.frame = frame /\ b.stage = "prepare"
      /\ b.finished = a.finished /\ b.buffered = a.buffered
      /\ b.headersWritten = a.headersWritten /\ b.length = a.length
      /\ b.code = a.code /\ b.flushes = a.flushes
  <2>1. DOMAIN b = HTTPFields /\ b.raised = a.raised /\ b.status = a.status
    BY <1>2 DEF HTTPFields
  <2>2. b.stray = a.stray /\ b.due = a.due
    BY <1>2 DEF HTTPFields
  <2>3. SameRequest(a, b) /\ SameRead(a, b) /\ SameSending(a, b) /\ SameOutline(a, b)
    BY <1>2 DEF HTTPFields, SameRequest, SameRead, SameSending, SameOutline
  <2>4. SameAmount(a, b) /\ b.frame = frame /\ b.stage = "prepare"
    BY <1>2 DEF HTTPFields, SameAmount
  <2>5. b.finished = a.finished /\ b.buffered = a.buffered
    BY <1>2 DEF HTTPFields
  <2>6. /\ b.headersWritten = a.headersWritten /\ b.length = a.length
        /\ b.code = a.code /\ b.flushes = a.flushes
    BY <1>2 DEF HTTPFields
  <2> QED BY <2>1, <2>2, <2>3, <2>4, <2>5, <2>6
<1> HIDE DEF b
<1>4. t = a \/ (t = b /\ ~b.writeFinished)
  BY <1>1, <1>3 DEF SameOutline
<1> HIDE DEF t
<1>5. /\ DOMAIN t = HTTPFields /\ ~t.raised /\ t.status = s.status
      /\ t.readFinished /\ t.state = "READ_NONE" /\ t.want = s.want /\ t.posted = s.posted
      /\ t.asserted = s.asserted /\ t.req = s.req /\ t.begun = s.begun
      /\ t.bytesRead = s.bytesRead /\ t.bytesToRead = s.bytesToRead
      /\ t.buffer = s.buffer /\ t.eaten = s.eaten /\ t.stray = s.stray /\ t.due = s.due
      /\ SameSending(s, t) /\ SameOutline(s, t) /\ SameAmount(s, t)
      /\ t.finished = s.finished /\ t.buffered = s.buffered
      /\ t.headersWritten = s.headersWritten /\ t.length = s.length
      /\ t.code = s.code /\ t.flushes = s.flushes
      /\ \/ t.frame = "idle" /\ t.stage = s.stage
         \/ t.frame = frame /\ t.stage = "prepare" /\ ~t.writeFinished
  <2>1. CASE t = a
    BY <1>2, <2>1 DEF Hears, SameHandler
  <2>2. CASE t = b /\ ~b.writeFinished
    <3>1. /\ DOMAIN t = HTTPFields /\ ~t.raised /\ t.status = s.status
          /\ t.stray = s.stray /\ t.due = s.due
          /\ t.frame = frame /\ t.stage = "prepare" /\ ~t.writeFinished
      BY <1>2, <1>3, <2>2 DEF Hears
    <3>2. /\ t.readFinished /\ t.req = s.req /\ t.begun = s.begun
          /\ t.bytesRead = s.bytesRead /\ t.bytesToRead = s.bytesToRead
          /\ t.buffer = s.buffer /\ t.eaten = s.eaten
      BY <1>2, <1>3, <2>2 DEF SameRequest
    <3>3. /\ t.state = "READ_NONE" /\ t.want = s.want /\ t.posted = s.posted
          /\ t.asserted = s.asserted
      BY <1>2, <1>3, <2>2 DEF SameRead
    <3>4. SameSending(s, t)
      BY <1>2, <1>3, <2>2 DEF SameSending
    <3>5. SameOutline(s, t)
      BY <1>2, <1>3, <2>2 DEF SameOutline
    <3>6. SameAmount(s, t)
      BY <1>2, <1>3, <2>2 DEF SameAmount
    <3>7. /\ t.finished = s.finished /\ t.buffered = s.buffered
          /\ t.headersWritten = s.headersWritten /\ t.length = s.length
          /\ t.code = s.code /\ t.flushes = s.flushes
      BY <1>2, <1>3, <2>2 DEF SameHandler
    <3> QED BY <3>1, <3>2, <3>3, <3>4, <3>5, <3>6, <3>7
  <2> QED BY <1>4, <2>1, <2>2
<1>6. Types(t)
  BY <1>5 DEF Hears, Core, Base, Types, SameOutline, SameAmount
<1>7. Turn(t)
  BY <1>5 DEF Hears, Core, Base, Turn, Kind, Lives, SameSending, SameOutline, SameAmount
<1>8. Framed(t)
  BY <1>5
  DEF Hears, Core, Base, Framed, Blank, Budget, Kind, Omitted, Bodyless, SameSending,
      SameOutline, SameAmount
<1>9. Sends(t) /\ EndsOnce(t) /\ Timed(t) /\ Posted(t)
  BY <1>5
  DEF Hears, Core, Sends, EndsOnce, Timed, Posted, Satisfied, NoRead, SameSending,
      SameOutline
<1>10. Tidy(t) /\ (~t.finished => Unfinished(t))
  BY <1>5 DEF Hears, Tidy, Unfinished, Lives, SameOutline
<1>11. Took(s, t) /\ Timed(t) /\ ~t.raised /\ t.frame \in {"idle", frame}
  BY <1>5, <1>6, <1>7, <1>8, <1>9, <1>10 DEF Hears, Took, Core, Base
<1> QED BY <1>11 DEF t

(* Only the octets of the body are counted.                                *)
Counted(s, t) ==
    /\ DOMAIN t = HTTPFields /\ t.status = s.status /\ t.raised = s.raised
    /\ t.readFinished = s.readFinished /\ t.req = s.req /\ t.begun = s.begun
    /\ t.buffer = s.buffer /\ t.eaten = s.eaten
    /\ t.bytesRead \in Nat /\ t.bytesToRead \in Nat
    /\ SameTimers(s, t) /\ SameRead(s, t) /\ SameSending(s, t) /\ SameOutline(s, t)
    /\ SameAmount(s, t) /\ SameHandler(s, t)

LEMMA CountedHears ==
    ASSUME NEW s, NEW t, Hears(s), Counted(s, t)
    PROVE  Hears(t) /\ (Timed(s) => Timed(t)) /\ (\A u : Took(t, u) => Took(s, u))
<1>1. Types(t)
  BY DEF Counted, Hears, Core, Base, Types, SameTimers, SameRead, SameOutline, SameAmount,
         SameHandler
<1>2. Turn(t)
  BY DEF Counted, Hears, Core, Base, Turn, Kind, Lives, SameRead, SameSending,
         SameOutline, SameAmount, SameHandler
<1>3. Framed(t)
  BY DEF Counted, Hears, Core, Base, Framed, Blank, Budget, Kind, Omitted, Bodyless,
         SameRead, SameSending, SameOutline, SameAmount, SameHandler
<1>4. Sends(t) /\ EndsOnce(t) /\ (Timed(s) => Timed(t))
  BY DEF Counted, Hears, Core, Sends, EndsOnce, Timed, SameTimers, SameSending,
         SameOutline, SameHandler
<1>5. Tidy(t) /\ (~t.finished => Unfinished(t))
  BY DEF Counted, Hears, Tidy, Unfinished, Lives, SameRead, SameOutline, SameHandler
<1>6. \A u : Took(t, u) => Took(s, u)
  BY DEF Counted, Took
<1> QED BY <1>1, <1>2, <1>3, <1>4, <1>5, <1>6
        DEF Counted, Hears, Core, Base, SameRead, SameHandler

LEMMA ReadBlockTakes ==
    ASSUME NEW s, Hears(s), s.state # "READ_HEADER" \/ ~s.headersWritten,
           s.stage = "found",
           NEW state, state # "READ_HEADER", s.bytesToRead > 0
    PROVE  LET t == ReadBlock(s, state)
           IN /\ Took(s, t) /\ ~t.raised /\ t.frame = "idle" /\ (Timed(s) => Timed(t))
              /\ t.readFinished = s.readFinished
<1> DEFINE w == [kind |-> "bytes", n |-> IF ChunkSize < s.bytesToRead THEN ChunkSize
                                         ELSE s.bytesToRead]
<1>1. w.kind \in Kinds /\ w.n \in Nat \ {0}
  BY HTTPAssumption DEF Kinds, Hears, Core, Base, Types
<1>2. ReadBlock(s, state) = Read(s, state, w)
  BY DEF ReadBlock
<1> HIDE DEF w
<1> QED BY <1>1, <1>2, ReadTakes

(* An exception: the connection will be closed.                            *)
LEMMA RaiseTakes ==
    ASSUME NEW s, Hears(s)
    PROVE  Took(s, Raise(s)) /\ Raise(s).raised
<1> DEFINE t == Raise(s)
<1>1. /\ DOMAIN t = HTTPFields /\ t.raised /\ t.status = s.status
      /\ SameTimers(s, t) /\ SameRequest(s, t) /\ SameRead(s, t)
      /\ SameSending(s, t) /\ SameOutline(s, t) /\ SameAmount(s, t) /\ SameHandler(s, t)
  BY RaiseFacts DEF Hears, Core, Base, Types
<1> HIDE DEF t
<1>2. Types(t)
  BY <1>1
  DEF Hears, Core, Base, Types, SameTimers, SameRequest, SameRead, SameOutline,
      SameAmount, SameHandler
<1>3. Turn(t)
  BY <1>1
  DEF Hears, Core, Base, Turn, Kind, Lives, SameRequest, SameRead, SameSending,
      SameOutline, SameAmount, SameHandler
<1>4. Framed(t)
  BY <1>1
  DEF Hears, Core, Base, Framed, Blank, Budget, Kind, Omitted, Bodyless, SameRequest,
      SameRead, SameSending, SameOutline, SameAmount, SameHandler
<1>5. Sends(t) /\ EndsOnce(t) /\ Posted(t)
  BY <1>1
  DEF Hears, Core, Sends, EndsOnce, Posted, Satisfied, NoRead, SameRequest, SameRead,
      SameSending, SameOutline, SameHandler
<1>6. Tidy(t) /\ (~t.finished => Unfinished(t))
  BY <1>1 DEF Hears, Tidy, Unfinished, Lives, SameRead, SameOutline, SameHandler
<1>7. Took(s, t) /\ t.raised
  BY <1>1, <1>2, <1>3, <1>4, <1>5, <1>6
  DEF Hears, Took, Core, Base, SameRequest, SameHandler
<1> QED BY <1>7 DEF t

LEMMA ArmTakes ==
    ASSUME NEW s, NEW t, Took(s, t), ~t.raised, NEW x \in {"header", "body"}
    PROVE  Took(s, Arm(t, x)) /\ Timed(Arm(t, x)) /\ ~Arm(t, x).raised
<1> DEFINE u == Arm(t, x)
<1>1. /\ Core(u) /\ Timed(u) /\ (Posted(t) => Posted(u)) /\ u.raised = t.raised
      /\ u.status = t.status /\ SameRequest(t, u) /\ SameRead(t, u)
      /\ SameResponse(t, u) /\ SameHandler(t, u)
  BY ArmCore DEF Took
<1> HIDE DEF u
<1>2. Tidy(u) /\ (~u.finished => Unfinished(u))
  BY <1>1
  DEF Took, Tidy, Unfinished, Lives, SameRead, SameResponse, SameOutline, SameHandler
<1>3. Took(s, u) /\ Timed(u) /\ ~u.raised
  BY <1>1, <1>2 DEF Took, SameRequest, SameHandler
<1> QED BY <1>3 DEF u

LEMMA KindsTyped ==
    ASSUME script \in Scripts, NEW i \in 1..Len(script)
    PROVE  script[i].length \in Nat
<1> DEFINE K == [method : STRING, version : STRING, connection : STRING,
                 body : STRING, length : Nat, expect : BOOLEAN]
<1>1. script \in Seq(K)
  BY HTTPAssumption
<1>2. \A k \in K : k.length \in Nat
  OBVIOUS
<1> HIDE DEF K
<1>3. script[i] \in K
  BY <1>1
<1> QED BY <1>2, <1>3

(* readBody: afterwards a read under a timer, or the handler.              *)
LEMMA ReadBodyTakes ==
    ASSUME NEW s, Hears(s), ~s.headersWritten, s.stage = "found",
           script \in Scripts, s.req \in 1..Len(script)
    PROVE  LET t == ReadBody(s) IN Took(s, t) /\ (t.raised \/ Timed(t))
<1> DEFINE k == Kind(s)
           e == ReadFinished(s, "emptyBody")
           f == ReadFinished(s, "finish")
           a == [s EXCEPT !.bytesRead = 0, !.bytesToRead = k.length]
           b == ReadBlock(a, "READ_FIXED_BODY")
           c == ReadChunkLength(s)
           t == ReadBody(s)
<1>1. k.length \in Nat
  BY KindsTyped DEF Kind
<1>2. \/ t = Raise(s)
      \/ t = e /\ e.frame # "idle"
      \/ t = Arm(e, "body")
      \/ t = Arm(b, "body") /\ k.length > 0
      \/ t = Arm(c, "body")
      \/ t = f
  <2> HIDE DEF e, f, b, c
  <2>1. t = CASE k.body = "both" -> Raise(s)
              [] k.body = "fixed" /\ k.length = 0 ->
                    IF e.frame = "idle" THEN Arm(e, "body") ELSE e
              [] k.body = "fixed" /\ k.length > 0 -> Arm(b, "body")
              [] k.body = "chunked" -> Arm(c, "body")
              [] OTHER -> f
    BY DEF ReadBody, e, f, b, c
  <2> HIDE DEF t, k, a
  <2>2. CASE k.body = "both"
    BY <2>1, <2>2, Zenon
  <2>3. CASE k.body = "fixed" /\ k.length = 0
    <3>1. k.body # "both" /\ ~(k.length > 0)
      BY <2>3
    <3>2. t = IF e.frame = "idle" THEN Arm(e, "body") ELSE e
      BY <2>1, <2>3, <3>1, Zenon
    <3> QED BY <3>2, Zenon
  <2>4. CASE k.body = "fixed" /\ k.length > 0
    <3>1. k.body # "both" /\ k.length # 0
      BY <1>1, <2>4
    <3>2. t = Arm(b, "body")
      BY <2>1, <2>4, <3>1, Zenon
    <3> QED BY <2>4, <3>2, Zenon
  <2>5. CASE k.body = "chunked"
    <3>1. k.body # "both" /\ k.body # "fixed"
      BY <2>5
    <3>2. t = Arm(c, "body")
      BY <2>1, <2>5, <3>1, Zenon
    <3> QED BY <3>2, Zenon
  <2>6. CASE k.body \notin {"both", "fixed", "chunked"}
    <3>1. k.body # "both" /\ k.body # "fixed" /\ k.body # "chunked"
      BY <2>6
    <3>2. t = f
      BY <2>1, <3>1, Zenon
    <3> QED BY <3>2, Zenon
  <2> QED BY <1>1, <2>2, <2>3, <2>4, <2>5, <2>6
<1> HIDE DEF k
<1>3. CASE t = Raise(s)
  BY <1>3, RaiseTakes
<1>4. Took(s, e) /\ Timed(e) /\ ~e.raised
  BY ReadFinishedTakes
<1>5. Took(s, f) /\ Timed(f) /\ ~f.raised
  BY ReadFinishedTakes
<1>6. Took(s, c) /\ ~c.raised
  <2>1. LET w == [kind |-> "until", n |-> 64]
        IN c = Read(s, "READ_CHUNK_LENGTH", w) /\ w.kind = "until"
    BY DEF ReadChunkLength
  <2> QED BY <2>1, ReadTakes DEF Kinds
<1>7. k.length > 0 => Took(s, b) /\ ~b.raised
  <2>1. /\ Counted(s, a) /\ a.bytesToRead = k.length
        /\ a.headersWritten = s.headersWritten /\ a.stage = s.stage
    BY <1>1 DEF Hears, Core, Base, Types, HTTPFields, Counted, SameTimers, SameRead,
                SameSending, SameOutline, SameAmount, SameHandler
  <2> HIDE DEF a
  <2>2. Hears(a) /\ (\A u : Took(a, u) => Took(s, u))
    BY <2>1, CountedHears
  <2> QED BY <2>1, <2>2, ReadBlockTakes
<1> HIDE DEF e, f, b, c, t
<1>8. Took(s, t) /\ (t.raised \/ Timed(t))
  <2>1. CASE t = Arm(e, "body")
    BY <1>4, <2>1, ArmTakes
  <2>2. CASE t = Arm(b, "body") /\ k.length > 0
    BY <1>7, <2>2, ArmTakes
  <2>3. CASE t = Arm(c, "body")
    BY <1>6, <2>3, ArmTakes
  <2>4. CASE t = Raise(s)
    BY <2>4, RaiseTakes
  <2> QED BY <1>2, <1>4, <1>5, <2>1, <2>2, <2>3, <2>4
<1> QED BY <1>8 DEF t

(* A new request: nothing of its response has been made.                   *)
LEMMA OnHeadersTakes ==
    ASSUME NEW s, Hears(s), s.state = "READ_HEADER", script \in Scripts,
           NEW n, Len(s.buffer) > 0
    PROVE  LET t == OnHeaders(s, n) IN Took(s, t) /\ (t.raised \/ Timed(t))
<1> DEFINE a == [s EXCEPT !.header = FALSE]
           o == s.buffer[1]
           p == ~CanKeepAlive(script[o[2]])
           u == [a EXCEPT !.req = o[2], !.disconnectOnFinish = p,
                          !.closeCallback = TRUE, !.stage = "found",
                          !.headersWritten = FALSE, !.finished = FALSE, !.buffered = 0,
                          !.length = NoLength, !.code = "ok", !.flushes = 0]
           w == WriteStream(u, 1, FALSE)
           v == IF script[o[2]].expect THEN w ELSE u
           t == OnHeaders(s, n)
<1>1. t = IF n # 2 \/ o[1] # "head" THEN Raise(a) ELSE IF v.raised THEN v ELSE ReadBody(v)
  BY DEF OnHeaders
<1>2. Types(s) /\ Blank(s)
  BY DEF Hears, Core, Base, Framed
<1>3. o \in Wires
  BY <1>2 DEF Types
<1>4. o[1] = "head" => o[2] \in 1..Len(script)
  BY <1>3 DEF Wires
<1> HIDE DEF o
<1>5. /\ DOMAIN a = HTTPFields /\ a.raised = s.raised /\ a.status = s.status
      /\ a.stray = s.stray /\ a.due = s.due
      /\ SameRequest(s, a) /\ SameRead(s, a) /\ SameSending(s, a) /\ SameOutline(s, a)
      /\ SameAmount(s, a) /\ SameHandler(s, a)
  BY <1>2
  DEF Types, HTTPFields, SameRequest, SameRead, SameSending, SameOutline, SameAmount,
      SameHandler
<1> HIDE DEF a, p
<1>6. /\ DOMAIN u = HTTPFields /\ u.raised = s.raised /\ u.status = s.status
      /\ u.req = o[2] /\ u.readFinished = s.readFinished /\ u.begun = s.begun
      /\ u.bytesRead = s.bytesRead /\ u.bytesToRead = s.bytesToRead
      /\ u.buffer = s.buffer /\ u.eaten = s.eaten /\ u.stray = s.stray /\ u.due = s.due
      /\ SameRead(s, u) /\ SameSending(s, u) /\ SameAmount(s, u)
      /\ u.writeFinished = s.writeFinished /\ u.chunkingOutput = s.chunkingOutput
      /\ u.heads = s.heads /\ u.ends = s.ends
      /\ u.frame = s.frame /\ u.stage = "found" /\ ~u.headersWritten /\ ~u.finished
      /\ u.buffered = 0 /\ u.length = NoLength /\ u.code = "ok" /\ u.flushes = 0
  <2>1. /\ DOMAIN u = HTTPFields /\ u.raised = a.raised /\ u.status = a.status
        /\ u.req = o[2] /\ u.readFinished = a.readFinished /\ u.begun = a.begun
        /\ u.bytesRead = a.bytesRead /\ u.bytesToRead = a.bytesToRead
        /\ u.buffer = a.buffer /\ u.eaten = a.eaten /\ u.stray = a.stray /\ u.due = a.due
        /\ SameRead(a, u) /\ SameSending(a, u) /\ SameAmount(a, u)
        /\ u.writeFinished = a.writeFinished /\ u.chunkingOutput = a.chunkingOutput
        /\ u.heads = a.heads /\ u.ends = a.ends
        /\ u.frame = a.frame /\ u.stage = "found" /\ ~u.headersWritten /\ ~u.finished
        /\ u.buffered = 0 /\ u.length = NoLength /\ u.code = "ok" /\ u.flushes = 0
    <3>1. DOMAIN u = HTTPFields /\ u.raised = a.raised /\ u.status = a.status
      BY <1>5 DEF HTTPFields
    <3>2. u.req = o[2] /\ u.readFinished = a.readFinished /\ u.begun = a.begun
      BY <1>5 DEF HTTPFields
    <3>3. u.bytesRead = a.bytesRead /\ u.bytesToRead = a.bytesToRead
      BY <1>5 DEF HTTPFields
    <3>4. u.buffer = a.buffer /\ u.eaten = a.eaten /\ u.stray = a.stray /\ u.due = a.due
      BY <1>5 DEF HTTPFields
    <3>5. SameRead(a, u) /\ SameSending(a, u) /\ SameAmount(a, u)
      BY <1>5 DEF HTTPFields, SameRead, SameSending, SameAmount
    <3>6. u.writeFinished = a.writeFinished /\ u.chunkingOutput = a.chunkingOutput
      BY <1>5 DEF HTTPFields
    <3>7. u.heads = a.heads /\ u.ends = a.ends
      BY <1>5 DEF HTTPFields
    <3>8. u.frame = a.frame /\ u.stage = "found" /\ ~u.headersWritten /\ ~u.finished
      BY <1>5 DEF HTTPFields
    <3>9. u.buffered = 0 /\ u.length = NoLength /\ u.code = "ok" /\ u.flushes = 0
      BY <1>5 DEF HTTPFields
    <3> QED BY <3>1, <3>2, <3>3, <3>4, <3>5, <3>6, <3>7, <3>8, <3>9
  <2> HIDE DEF u
  <2> QED BY <1>5, <2>1
          DEF SameRequest, SameRead, SameSending, SameOutline, SameAmount, SameHandler
<1> HIDE DEF u
<1>7. /\ DOMAIN w = HTTPFields /\ w.status = u.status
      /\ SameTimers(u, w) /\ SameRequest(u, w) /\ SameRead(u, w)
      /\ SameOutline(u, w) /\ SameAmount(u, w) /\ SameHandler(u, w)
      /\ w.pendingWrite = u.pendingWrite
      /\ IF u.status = "open" THEN w.raised = u.raised ELSE w.raised
  BY <1>6, WriteStreamFacts
<1> HIDE DEF w
<1>8. /\ DOMAIN v = HTTPFields /\ v.status = s.status
      /\ v.req = o[2] /\ v.readFinished = s.readFinished /\ v.begun = s.begun
      /\ v.bytesRead = s.bytesRead /\ v.bytesToRead = s.bytesToRead
      /\ v.buffer = s.buffer /\ v.eaten = s.eaten /\ v.stray = s.stray /\ v.due = s.due
      /\ SameRead(s, v) /\ SameAmount(s, v) /\ v.pendingWrite = s.pendingWrite
      /\ v.writeFinished = s.writeFinished /\ v.chunkingOutput = s.chunkingOutput
      /\ v.heads = s.heads /\ v.ends = s.ends
      /\ v.frame = s.frame /\ v.stage = "found" /\ ~v.headersWritten /\ ~v.finished
      /\ v.buffered = 0 /\ v.length = NoLength /\ v.code = "ok" /\ v.flushes = 0
  BY <1>6, <1>7
  DEF SameTimers, SameRequest, SameRead, SameSending, SameOutline, SameAmount, SameHandler
<1> HIDE DEF v
<1>9. Types(v)
  BY <1>2, <1>8 DEF Types, Blank, SameRead, SameAmount
<1>10. Turn(v)
  BY <1>2, <1>8 DEF Hears, Core, Base, Turn, Kind, Blank, Lives, SameRead
<1>11. Framed(v)
  BY <1>2, <1>8 DEF Hears, Blank, Framed, SameRead, SameAmount
<1>12. Sends(v) /\ EndsOnce(v) /\ Posted(v)
  BY <1>2, <1>8 DEF Hears, Blank, Sends, EndsOnce, Posted, Satisfied, SameRead, NoRead
<1>13. Tidy(v) /\ Unfinished(v)
  BY <1>2, <1>8 DEF Hears, Blank, Tidy, Unfinished, Lives, NoLength
<1>14. CASE n # 2 \/ o[1] # "head"
  <2>1. t = Raise(a)
    BY <1>1, <1>14
  <2> HIDE DEF t
  <2>2. Types(a) /\ Turn(a)
    BY <1>5
    DEF Hears, Core, Base, Types, Turn, Kind, Lives, SameRequest, SameRead, SameSending,
        SameOutline, SameAmount, SameHandler
  <2>3. Framed(a)
    BY <1>2, <1>5
    DEF Hears, Framed, Blank, SameRequest, SameRead, SameSending, SameOutline, SameAmount
  <2>4. Sends(a) /\ EndsOnce(a)
    BY <1>2, <1>5
    DEF Sends, EndsOnce, Blank, SameSending, SameOutline, Hears, Core, SameHandler
  <2>5. Tidy(a) /\ (~a.finished => Unfinished(a))
    BY <1>5 DEF Hears, Tidy, Unfinished, Lives, SameRead, SameOutline, SameHandler
  <2>6. Hears(a)
    BY <1>5, <2>2, <2>3, <2>4, <2>5
    DEF Hears, Core, Base, SameRequest, SameRead, SameHandler
  <2>7. Took(a, t) /\ t.raised
    BY <2>1, <2>6, RaiseTakes
  <2>8. Took(s, t)
    BY <1>5, <2>7 DEF Took, SameRequest
  <2> QED BY <2>7, <2>8 DEF t
<1>15. CASE ~(n # 2 \/ o[1] # "head") /\ v.raised
  <2>1. t = v
    BY <1>1, <1>15
  <2> HIDE DEF t
  <2>2. Took(s, t) /\ t.raised
    BY <1>8, <1>9, <1>10, <1>11, <1>12, <1>13, <1>15, <2>1 DEF Took, Core, Base, Hears
  <2> QED BY <2>2 DEF t
<1>16. CASE ~(n # 2 \/ o[1] # "head") /\ ~v.raised
  <2>1. t = ReadBody(v)
    BY <1>1, <1>16
  <2> HIDE DEF t
  <2>2. Hears(v)
    BY <1>8, <1>9, <1>10, <1>11, <1>12, <1>13, <1>16 DEF Hears, Core, Base, SameRead
  <2>3. v.req \in 1..Len(script)
    BY <1>4, <1>8, <1>16
  <2>4. Took(v, t) /\ (t.raised \/ Timed(t))
    BY <1>8, <2>1, <2>2, <2>3, ReadBodyTakes
  <2>5. Took(s, t)
    BY <1>8, <2>4 DEF Took
  <2> QED BY <2>4, <2>5 DEF t
<1> QED BY <1>14, <1>15, <1>16

(* The end of a block: another one, the line behind a chunk, or the end of *)
(* the body.                                                               *)
LEMMA BlockDoneTakes ==
    ASSUME NEW s, Hears(s), s.state # "READ_HEADER"
    PROVE  LET t == BlockDone(s)
           IN Took(s, t) /\ (Timed(s) => Timed(t)) /\ ~t.raised /\ t.frame \in {"idle", "finish"}
<1> DEFINE b == ReadBlock(s, s.state)
           f == ReadFinished(s, "finish")
           w == [kind |-> "bytes", n |-> 2]
           e == Read(s, "READ_CHUNK_ENDS", w)
           t == BlockDone(s)
<1>1. s.stage = "found" /\ s.bytesRead \in Nat /\ s.bytesToRead \in Nat
  BY DEF Hears, Core, Base, Types
<1>2. (t = b /\ s.bytesToRead > 0) \/ t = f \/ t = e
  <2>1. t = IF s.state = "READ_FIXED_BODY"
            THEN (IF s.bytesRead < s.bytesToRead THEN b ELSE f)
            ELSE (IF s.bytesRead < s.bytesToRead THEN b ELSE e)
    BY DEF BlockDone
  <2> HIDE DEF b, f, e, t
  <2> QED BY <1>1, <2>1
<1>3. s.bytesToRead > 0 => Took(s, b) /\ ~b.raised /\ b.frame = "idle" /\ (Timed(s) => Timed(b))
  BY <1>1, ReadBlockTakes
<1>4. Took(s, f) /\ Timed(f) /\ ~f.raised /\ f.frame \in {"idle", "finish"}
  BY ReadFinishedTakes
<1>5. Took(s, e) /\ ~e.raised /\ e.frame = "idle" /\ (Timed(s) => Timed(e))
  <2>1. w.kind \in Kinds /\ w.n \in Nat \ {0}
    BY DEF Kinds
  <2> HIDE DEF w
  <2> QED BY <1>1, <2>1, ReadTakes
<1> HIDE DEF b, f, e, t
<1>6. Took(s, t) /\ (Timed(s) => Timed(t)) /\ ~t.raised /\ t.frame \in {"idle", "finish"}
  BY <1>2, <1>3, <1>4, <1>5
<1> QED BY <1>6 DEF t

LEMMA OnBlockTakes ==
    ASSUME NEW s, Hears(s), s.state # "READ_HEADER", NEW n \in Nat
    PROVE  LET t == OnBlock(s, n) IN Took(s, t) /\ (Timed(s) => Timed(t)) /\ ~t.raised
<1> DEFINE a == [s EXCEPT !.bytesRead = s.bytesRead + n]
           d == [a EXCEPT !.frame = "data"]
           b == BlockDone(a)
           t == OnBlock(s, n)
<1>1. t = IF config.stream /\ ~a.writeFinished THEN d ELSE b
  BY DEF OnBlock
<1>2. Counted(s, a) /\ a.state = s.state
  BY DEF Hears, Core, Base, Types, HTTPFields, Counted, SameTimers, SameRead, SameSending,
         SameOutline, SameAmount, SameHandler
<1> HIDE DEF a
<1>3. Hears(a) /\ (Timed(s) => Timed(a)) /\ (\A u : Took(a, u) => Took(s, u))
  BY <1>2, CountedHears
<1>4. Took(a, b) /\ (Timed(a) => Timed(b)) /\ ~b.raised
  BY <1>2, <1>3, BlockDoneTakes
<1>5. /\ DOMAIN d = HTTPFields /\ d.status = a.status /\ d.raised = a.raised /\ d.frame = "data"
      /\ SameTimers(a, d) /\ SameRequest(a, d) /\ SameRead(a, d)
      /\ SameSending(a, d) /\ SameOutline(a, d) /\ SameAmount(a, d)
      /\ d.stage = a.stage /\ d.finished = a.finished /\ d.buffered = a.buffered
      /\ d.headersWritten = a.headersWritten /\ d.length = a.length
      /\ d.code = a.code /\ d.flushes = a.flushes
  BY <1>3
  DEF Hears, Core, Base, Types, HTTPFields, SameTimers, SameRequest, SameRead,
      SameSending, SameOutline, SameAmount
<1> HIDE DEF b, d
<1>6. a.state # "READ_HEADER" /\ a.stage = "found"
  BY <1>2, <1>3 DEF Hears
<1>7. Types(d)
  BY <1>3, <1>5
  DEF Hears, Core, Base, Types, SameTimers, SameRequest, SameRead, SameOutline, SameAmount
<1>8. Turn(d)
  BY <1>3, <1>5, <1>6
  DEF Hears, Core, Base, Turn, Kind, Lives, SameRequest, SameRead, SameSending,
      SameOutline, SameAmount
<1>9. Framed(d)
  BY <1>3, <1>5
  DEF Hears, Core, Base, Framed, Blank, Budget, Kind, Omitted, Bodyless, SameRequest,
      SameRead, SameSending, SameOutline, SameAmount
<1>10. Sends(d) /\ EndsOnce(d) /\ Posted(d) /\ (Timed(a) => Timed(d))
  BY <1>3, <1>5
  DEF Hears, Core, Sends, EndsOnce, Posted, Timed, Satisfied, NoRead, SameTimers,
      SameRequest, SameRead, SameSending, SameOutline
<1>11. Tidy(d) /\ (~d.finished => Unfinished(d))
  BY <1>3, <1>5, <1>6 DEF Hears, Tidy, Unfinished, Lives, SameRead, SameOutline
<1>12. Took(a, d) /\ ~d.raised
  BY <1>3, <1>5, <1>7, <1>8, <1>9, <1>10, <1>11 DEF Hears, Took, Core, Base, SameRequest
<1> HIDE DEF t
<1>13. Took(s, t) /\ (Timed(s) => Timed(t)) /\ ~t.raised
  BY <1>1, <1>3, <1>4, <1>10, <1>12
<1> QED BY <1>13 DEF t

LEMMA OnChunkLengthTakes ==
    ASSUME NEW s, Hears(s), s.state # "READ_HEADER", Len(s.buffer) > 0, NEW n
    PROVE  LET t == OnChunkLength(s, n) IN Took(s, t) /\ (t.raised \/ (Timed(s) => Timed(t)))
<1> DEFINE o == s.buffer[1]
           w == [kind |-> "bytes", n |-> 2]
           e == Read(s, "READ_LAST_CHUNK_ENDS", w)
           a == [s EXCEPT !.bytesRead = 0, !.bytesToRead = o[2]]
           b == ReadBlock(a, "READ_CHUNK_DATA")
           t == OnChunkLength(s, n)
<1>1. t = IF n # 3 \/ o[1] # "len" THEN Raise(s) ELSE IF o[2] = 0 THEN e ELSE b
  BY DEF OnChunkLength
<1>2. Types(s) /\ s.stage = "found"
  BY DEF Hears, Core, Base
<1>3. o \in Wires
  BY <1>2 DEF Types
<1>4. o[1] = "len" => o[2] \in Nat
  BY <1>3 DEF Wires
<1> HIDE DEF o
<1>5. Took(s, e) /\ (Timed(s) => Timed(e))
  <2>1. w.kind \in Kinds /\ w.n \in Nat \ {0}
    BY DEF Kinds
  <2> HIDE DEF w
  <2> QED BY <1>2, <2>1, ReadTakes
<1>6. o[2] \in Nat \ {0} => Took(s, b) /\ (Timed(s) => Timed(b))
  <2> HAVE o[2] \in Nat \ {0}
  <2>1. /\ Counted(s, a) /\ a.bytesToRead = o[2]
        /\ a.headersWritten = s.headersWritten /\ a.stage = s.stage /\ a.state = s.state
    BY DEF Hears, Core, Base, Types, HTTPFields, Counted, SameTimers, SameRead,
           SameSending, SameOutline, SameAmount, SameHandler
  <2> HIDE DEF a
  <2>2. Hears(a) /\ (Timed(s) => Timed(a)) /\ (\A u : Took(a, u) => Took(s, u))
    BY <2>1, CountedHears
  <2> QED BY <1>2, <2>1, <2>2, ReadBlockTakes
<1> HIDE DEF e, b, t
<1>7. Took(s, t) /\ (t.raised \/ (Timed(s) => Timed(t)))
  <2>1. CASE n # 3 \/ o[1] # "len"
    BY <1>1, <2>1, RaiseTakes
  <2>2. CASE ~(n # 3 \/ o[1] # "len")
    BY <1>1, <1>4, <1>5, <1>6, <2>2
  <2> QED BY <2>1, <2>2
<1> QED BY <1>7 DEF t

(* Every exception of a method ends in onDataRead, which closes.           *)
LEMMA OnDataReadTakes ==
    ASSUME NEW s, Hears(s), Timed(s), script \in Scripts, Len(s.buffer) > 0, NEW n \in Nat
    PROVE  LET t == OnDataRead(s, n) IN Took(s, t) /\ Timed(t) /\ ~t.raised
<1> DEFINE r == [s EXCEPT !.unreachable = TRUE]
           a == CASE s.state = "READ_HEADER" -> OnHeaders(s, n)
                  [] s.state \in {"READ_FIXED_BODY", "READ_CHUNK_DATA"} -> OnBlock(s, n)
                  [] s.state = "READ_CHUNK_LENGTH" -> OnChunkLength(s, n)
                  [] s.state = "READ_CHUNK_ENDS" ->
                       IF SubSeq(s.buffer, 1, 2) = Line THEN ReadChunkLength(s) ELSE Raise(s)
                  [] OTHER -> r
           c == Caught(a)
           t == OnDataRead(s, n)
<1>1. t = IF a.raised THEN CloseHTTP(c) ELSE a
  BY DEF OnDataRead
<1>2. Took(s, r) /\ (Timed(s) => Timed(r))
  <2>1. /\ DOMAIN r = HTTPFields /\ r.status = s.status /\ r.raised = s.raised
        /\ SameTimers(s, r) /\ SameRequest(s, r) /\ SameRead(s, r) /\ SameSending(s, r)
        /\ SameOutline(s, r) /\ SameAmount(s, r) /\ SameHandler(s, r)
    BY DEF Hears, Core, Base, Types, HTTPFields, SameTimers, SameRequest, SameRead,
           SameSending, SameOutline, SameAmount, SameHandler
  <2> HIDE DEF r
  <2>2. Counted(s, r)
    BY <2>1 DEF Counted, SameRequest, Hears, Core, Base, Types
  <2>3. Hears(r) /\ (Timed(s) => Timed(r))
    BY <2>2, CountedHears
  <2>4. Posted(r)
    BY <2>3 DEF Hears, Posted, Satisfied, NoRead
  <2> QED BY <2>1, <2>3, <2>4 DEF Hears, Took, SameRequest
<1> HIDE DEF r
<1>3. Took(s, a) /\ (a.raised \/ Timed(a))
  <2>1. CASE s.state = "READ_HEADER"
    <3>1. a = OnHeaders(s, n)
      BY <2>1, Zenon
    <3> HIDE DEF a
    <3> QED BY <2>1, <3>1, OnHeadersTakes
  <2>2. CASE s.state \in {"READ_FIXED_BODY", "READ_CHUNK_DATA"}
    <3>1. s.state # "READ_HEADER"
      BY <2>2
    <3>2. s.state # "READ_CHUNK_LENGTH" /\ s.state # "READ_CHUNK_ENDS"
      BY <2>2
    <3>3. a = OnBlock(s, n)
      BY <2>2, <3>1, <3>2, Zenon
    <3> HIDE DEF a
    <3> QED BY <3>1, <3>3, OnBlockTakes
  <2>3. CASE s.state = "READ_CHUNK_LENGTH"
    <3>1. s.state # "READ_HEADER" /\ s.state \notin {"READ_FIXED_BODY", "READ_CHUNK_DATA"}
      BY <2>3
    <3>2. s.state # "READ_CHUNK_ENDS"
      BY <2>3
    <3>3. a = OnChunkLength(s, n)
      BY <2>3, <3>1, <3>2, Zenon
    <3> HIDE DEF a
    <3> QED BY <3>1, <3>3, OnChunkLengthTakes
  <2>4. CASE s.state = "READ_CHUNK_ENDS"
    <3>1. s.state # "READ_HEADER" /\ s.state \notin {"READ_FIXED_BODY", "READ_CHUNK_DATA"}
      BY <2>4
    <3>2. s.state # "READ_CHUNK_LENGTH"
      BY <2>4
    <3>3. a = IF SubSeq(s.buffer, 1, 2) = Line THEN ReadChunkLength(s) ELSE Raise(s)
      BY <2>4, <3>1, <3>2, Zenon
    <3> HIDE DEF a
    <3>4. Took(s, ReadChunkLength(s)) /\ (Timed(s) => Timed(ReadChunkLength(s)))
      <4> DEFINE w == [kind |-> "until", n |-> 64]
      <4>1. ReadChunkLength(s) = Read(s, "READ_CHUNK_LENGTH", w) /\ w.kind = "until"
        BY DEF ReadChunkLength
      <4> HIDE DEF w
      <4> QED BY <3>1, <4>1, ReadTakes DEF Hears, Kinds
    <3> QED BY <3>3, <3>4, RaiseTakes
  <2>5. CASE s.state \notin {"READ_HEADER", "READ_FIXED_BODY", "READ_CHUNK_DATA",
                             "READ_CHUNK_LENGTH", "READ_CHUNK_ENDS"}
    <3>1. s.state # "READ_HEADER" /\ s.state \notin {"READ_FIXED_BODY", "READ_CHUNK_DATA"}
      BY <2>5
    <3>2. s.state # "READ_CHUNK_LENGTH" /\ s.state # "READ_CHUNK_ENDS"
      BY <2>5
    <3>3. a = r
      BY <3>1, <3>2, Zenon
    <3> HIDE DEF a
    <3> QED BY <1>2, <3>3
  <2> HIDE DEF a
  <2> QED BY <2>1, <2>2, <2>3, <2>4, <2>5
<1> HIDE DEF a
<1>4. CASE ~a.raised
  <2> HIDE DEF t
  <2> QED BY <1>1, <1>3, <1>4 DEF t
<1>5. CASE a.raised
  <2>1. /\ Types(a) /\ Base(a)
    BY <1>3 DEF Took, Core, Base
  <2>2. /\ Edited(a, c) /\ ~c.raised /\ c.finished = a.finished /\ c.code = a.code
        /\ c.flushes = a.flushes
        /\ c.length = a.length
    BY <2>1, CaughtEdited
  <2> HIDE DEF c
  <2>3. Base(c)
    BY <2>1, <2>2
    DEF Edited, Base, Types, Turn, Framed, Blank, Budget, Kind, Omitted, Bodyless,
        Lives, SameTimers, SameRequest, SameRead, SameSending, SameOutline, SameAmount
  <2>4. t = CloseHTTP(c)
    BY <1>1, <1>5
  <2>5. Sound(t)
    BY <2>3, <2>4, CloseSound
  <2>6. /\ t.raised = c.raised /\ t.status = (IF c.status = "open" THEN "closing" ELSE c.status)
        /\ SameRequest(c, t) /\ SameRead(c, t) /\ SameResponse(c, t) /\ SameHandler(c, t)
    BY <2>3, <2>4, CloseFacts DEF Base, Types
  <2> HIDE DEF t
  <2>7. Core(t) /\ Posted(t) /\ Timed(t)
    BY <2>5, SoundParts
  <2>8. Tidy(t) /\ (~t.finished => Unfinished(t))
    BY <1>3, <2>2, <2>6
    DEF Took, Edited, Tidy, Unfinished, Lives, SameRead, SameResponse, SameOutline,
        SameHandler
  <2>9. Took(s, t) /\ ~t.raised
    BY <1>3, <2>2, <2>6, <2>7, <2>8 DEF Took, Edited, SameRequest, SameHandler
  <2> QED BY <2>7, <2>9 DEF t
<1> QED BY <1>4, <1>5

(* What was handled leaves the buffer, and the pending read has been posted *)
(* if the rest satisfies it.                                               *)
LEMMA ConsumedSound ==
    ASSUME NEW s, Sound(s)
    PROVE  LET t == Consumed(s)
           IN /\ Sound(t) /\ t.raised = s.raised /\ t.status = s.status /\ t.begun = s.begun
              /\ SameRead(s, t) /\ SameHandler(s, t) /\ t.writeFinished = s.writeFinished
              /\ t.unsent = s.unsent /\ t.readFinished = s.readFinished
              /\ t.frame = "idle" => t.eaten = 0
<1> DEFINE b == SubSeq(s.buffer, s.eaten + 1, Len(s.buffer))
           a == [s EXCEPT !.buffer = b, !.eaten = 0]
           t == Consumed(s)
<1>1. t = IF s.frame # "idle" THEN s ELSE a
  BY DEF Consumed
<1>2. CASE s.frame # "idle"
  <2>1. t = s
    BY <1>1, <1>2
  <2> HIDE DEF t
  <2> QED BY <1>2, <2>1 DEF t, SameRead, SameHandler
<1>3. CASE s.frame = "idle"
  <2>1. t = a
    BY <1>1, <1>3
  <2>2. b \in Seq(Wires) /\ SubSeq(b, 1, Len(b)) = b
    <3>1. b \in Seq(Wires)
      <4>1. s.buffer \in Seq(Wires) /\ s.eaten \in 0..Len(s.buffer)
        BY DEF Sound, Base, Types
      <4> QED BY <4>1
    <3> HIDE DEF b
    <3> QED BY <3>1
  <2>3. /\ DOMAIN a = HTTPFields /\ a.status = s.status /\ a.raised = s.raised
        /\ a.buffer = b /\ a.eaten = 0 /\ a.readFinished = s.readFinished /\ a.req = s.req
        /\ a.begun = s.begun /\ a.bytesRead = s.bytesRead /\ a.bytesToRead = s.bytesToRead
        /\ SameTimers(s, a) /\ SameRead(s, a) /\ SameSending(s, a) /\ SameOutline(s, a)
        /\ SameAmount(s, a) /\ SameHandler(s, a)
    <3>1. DOMAIN a = HTTPFields /\ a.status = s.status /\ a.raised = s.raised
      BY DEF Sound, Base, Types, HTTPFields
    <3>2. a.buffer = b /\ a.eaten = 0 /\ a.readFinished = s.readFinished /\ a.req = s.req
      BY DEF Sound, Base, Types, HTTPFields
    <3>3. a.begun = s.begun /\ a.bytesRead = s.bytesRead /\ a.bytesToRead = s.bytesToRead
      BY DEF Sound, Base, Types, HTTPFields
    <3>4. SameTimers(s, a) /\ SameRead(s, a) /\ SameSending(s, a) /\ SameOutline(s, a)
      BY
      DEF Sound, Base, Types, HTTPFields, SameTimers, SameRead, SameSending, SameOutline
    <3>5. SameAmount(s, a) /\ SameHandler(s, a)
      BY DEF Sound, Base, Types, HTTPFields, SameAmount, SameHandler
    <3> QED BY <3>1, <3>2, <3>3, <3>4, <3>5
  <2>4. Posted(s)
    BY DEF Sound, Awake, Attended
  <2>5. s.status = "open" => (Satisfied(s.want, b) => s.posted > 0)
    BY <2>4 DEF Posted
  <2> HIDE DEF a, b, t
  <2>6. Types(t)
    BY <2>1, <2>2, <2>3
    DEF Sound, Base, Types, SameTimers, SameRead, SameOutline, SameAmount, SameHandler
  <2>7. Turn(t)
    BY <2>1, <2>3
    DEF Sound, Base, Turn, Kind, Lives, SameRead, SameSending, SameOutline, SameAmount,
        SameHandler
  <2>8. Framed(t)
    BY <2>1, <2>3
    DEF Sound, Base, Framed, Blank, Budget, Kind, Omitted, Bodyless, SameRead,
        SameSending, SameOutline, SameAmount, SameHandler
  <2>9. Timed(t) /\ Sends(t) /\ EndsOnce(t)
    BY <2>1, <2>3
    DEF Sound, Awake, Attended, Timed, Sends, EndsOnce, SameTimers, SameSending,
        SameOutline, SameHandler
  <2>10. SubSeq(t.buffer, t.eaten + 1, Len(t.buffer)) = b
    <3>1. t.buffer = b /\ t.eaten + 1 = 1
      BY <2>1, <2>3
    <3> QED BY <2>2, <3>1
  <2>11. Posted(t)
    BY <2>1, <2>3, <2>5, <2>10 DEF Posted, SameRead
  <2>12. Sound(t)
    BY <2>6, <2>7, <2>8, <2>9, <2>11 DEF Sound, Base, Awake, Attended
  <2>13. /\ t.raised = s.raised /\ t.status = s.status /\ t.begun = s.begun
         /\ SameRead(s, t) /\ SameHandler(s, t) /\ t.writeFinished = s.writeFinished
         /\ t.unsent = s.unsent /\ t.readFinished = s.readFinished /\ t.eaten = 0
    BY <2>1, <2>3 DEF SameOutline, SameSending
  <2> QED BY <2>12, <2>13 DEF t
<1> QED BY <1>2, <1>3

LEMMA CloseSteady ==
    ASSUME NEW s, Base(s), Settles(s), ~s.raised, s.frame \in {"idle", "deferred"} => s.eaten = 0
    PROVE  LET t == CloseHTTP(s) IN Steady(t) /\ t.begun = s.begun /\ t.frame = s.frame
<1> DEFINE t == CloseHTTP(s)
<1>1. /\ t.raised = s.raised /\ t.status = (IF s.status = "open" THEN "closing" ELSE s.status)
      /\ SameRequest(s, t) /\ SameRead(s, t) /\ SameResponse(s, t) /\ SameHandler(s, t)
  BY CloseFacts DEF Base, Types
<1>2. Sound(t)
  BY CloseSound
<1> HIDE DEF t
<1>3. Settles(t)
  BY <1>1
  DEF Settles, Unfinished, Lives, Tidy, SameRead, SameResponse, SameOutline, SameHandler
<1>4. Steady(t) /\ t.begun = s.begun /\ t.frame = s.frame
  BY <1>1, <1>2, <1>3 DEF Steady, SameRequest, SameHandler
<1> QED BY <1>4 DEF t

(* The state a completed read leaves, consumed.                            *)
LEMMA TookSteady ==
    ASSUME NEW s, NEW t, Took(s, t), Timed(t), ~t.raised
    PROVE  LET u == Consumed(t)
           IN Steady(u) /\ u.begun = s.begun /\ u.status # "new" /\ u.frame = t.frame
<1> DEFINE u == Consumed(t)
<1>1. Sound(t)
  BY SoundParts DEF Took
<1>2. /\ Sound(u) /\ u.raised = t.raised /\ u.status = t.status /\ u.begun = t.begun
      /\ SameRead(t, u) /\ SameHandler(t, u) /\ u.writeFinished = t.writeFinished
      /\ u.frame = "idle" => u.eaten = 0
  BY <1>1, ConsumedSound
<1> HIDE DEF u
<1>3. Settles(u)
  BY <1>2 DEF Took, Settles, Tidy, Unfinished, Lives, SameRead, SameHandler
<1>4. Steady(u) /\ u.begun = s.begun /\ u.status # "new" /\ u.frame = t.frame
  BY <1>2, <1>3 DEF Took, Steady, SameHandler
<1> QED BY <1>4 DEF u

LEMMA ReadFromBufferSteady ==
    ASSUME NEW s, Core(s), Timed(s), Settles(s), ~s.raised, s.frame = "idle", s.eaten = 0,
           s.status # "new", script \in Scripts
    PROVE  LET t == ReadFromBuffer(s) IN Steady(t) /\ t.begun = s.begun /\ t.status # "new"
<1> DEFINE n == FindReadPos(s.want, s.buffer)
           long == /\ s.want.kind \in {"regex", "until"}
                   /\ (IF n > 0 THEN n ELSE Len(s.buffer)) > s.want.n
           a == [s EXCEPT !.want = NoRead, !.eaten = n]
           d == OnDataRead(a, n)
           t == ReadFromBuffer(s)
<1>1. t = IF long THEN CloseHTTP(s) ELSE IF n = 0 THEN s ELSE Consumed(d)
  BY DEF ReadFromBuffer
<1>2. Types(s)
  BY DEF Core, Base
<1>3. n \in 0..Len(s.buffer) /\ (n > 0 <=> Satisfied(s.want, s.buffer))
  BY <1>2, FindReadPosFinds DEF Types
<1> HIDE DEF n, long
<1>4. CASE long
  <2>1. t = CloseHTTP(s)
    BY <1>1, <1>4
  <2>2. t.status = (IF s.status = "open" THEN "closing" ELSE s.status)
    BY <1>2, <2>1, CloseFacts DEF Types
  <2>3. Steady(t) /\ t.begun = s.begun
    BY <2>1, CloseSteady DEF Core
  <2> HIDE DEF t
  <2> QED BY <2>2, <2>3 DEF t
<1>5. CASE ~long /\ n = 0
  <2>1. t = s
    BY <1>1, <1>5
  <2>2. SubSeq(s.buffer, s.eaten + 1, Len(s.buffer)) = s.buffer
    <3>1. s.eaten + 1 = 1
      OBVIOUS
    <3> QED BY <1>2, <3>1 DEF Types
  <2>3. Posted(s)
    <3> DEFINE c == SubSeq(s.buffer, s.eaten + 1, Len(s.buffer))
    <3>1. ~ Satisfied(s.want, s.buffer)
      BY <1>3, <1>5
    <3>2. c = s.buffer
      BY <2>2
    <3>3. Posted(s) <=> (s.status = "open" => (Satisfied(s.want, c) => s.posted > 0))
      BY DEF Posted
    <3> HIDE DEF c
    <3> QED BY <3>1, <3>2, <3>3
  <2>4. Sound(s)
    BY <2>3, SoundParts
  <2>5. Steady(s)
    BY <2>4 DEF Steady
  <2> HIDE DEF t
  <2> QED BY <2>1, <2>5 DEF t
<1>6. CASE ~long /\ n # 0
  <2>1. t = Consumed(d)
    BY <1>1, <1>6
  <2>2. s.want # NoRead
    BY <1>3, <1>6 DEF Satisfied, NoRead
  <2>3. /\ DOMAIN a = HTTPFields /\ a.status = s.status /\ a.raised = s.raised
        /\ a.buffer = s.buffer /\ a.eaten = n /\ a.readFinished = s.readFinished
        /\ a.req = s.req /\ a.begun = s.begun /\ a.bytesRead = s.bytesRead
        /\ a.bytesToRead = s.bytesToRead /\ a.want = NoRead /\ a.state = s.state
        /\ a.posted = s.posted /\ a.asserted = s.asserted
        /\ SameTimers(s, a) /\ SameSending(s, a) /\ SameOutline(s, a)
        /\ SameAmount(s, a) /\ SameHandler(s, a)
    BY <1>2
    DEF Types, HTTPFields, SameTimers, SameSending, SameOutline, SameAmount, SameHandler
  <2> HIDE DEF a
  <2>4. Types(a)
    BY <1>3, <2>3
    DEF Core, Base, Types, NoRead, Kinds, SameTimers, SameOutline, SameAmount, SameHandler
  <2>5. Turn(a)
    BY <2>3
    DEF Core, Base, Turn, Kind, Lives, SameSending, SameOutline, SameAmount, SameHandler
  <2>6. Framed(a)
    BY <2>3
    DEF Core, Base, Framed, Blank, Budget, Kind, Omitted, Bodyless, SameSending,
        SameOutline, SameAmount, SameHandler
  <2>7. Sends(a) /\ EndsOnce(a) /\ Timed(a)
    BY <2>3
    DEF Core, Sends, EndsOnce, Timed, SameTimers, SameSending, SameOutline, SameHandler
  <2>8. Tidy(a) /\ (~a.finished => Unfinished(a))
    BY <2>2, <2>3 DEF Settles, Tidy, Unfinished, Lives, SameOutline, SameHandler
  <2>9. ~s.readFinished /\ (s.state # "READ_HEADER" => s.stage = "found")
    BY <2>2 DEF Core, Base, Turn
  <2>10. Hears(a)
    BY <2>3, <2>4, <2>5, <2>6, <2>7, <2>8, <2>9 DEF Hears, Core, Base, SameHandler
  <2>11. Took(a, d) /\ Timed(d) /\ ~d.raised
    BY <1>3, <1>6, <2>3, <2>7, <2>10, OnDataReadTakes
  <2> HIDE DEF d
  <2>12. Steady(t) /\ t.begun = a.begun /\ t.status # "new"
    BY <2>1, <2>11, TookSteady
  <2> HIDE DEF t
  <2> QED BY <2>3, <2>12 DEF t
<1> QED BY <1>4, <1>5, <1>6

-----------------------------------------------------------------------------
(* What follows a callback.                                                *)

(* A method is under way, and may end here.                                *)
Acting(s) ==
    /\ Sound(s) /\ Lives(s) /\ (~s.finished => Unfinished(s))
    /\ s.frame \in {"finish", "emptyBody", "deferred"} => s.stage \in {"prepare", "method"}
    /\ s.frame \in {"idle", "data", "finish", "emptyBody", "deferred"}
    /\ s.frame \in {"idle", "deferred"} => s.eaten = 0

(* The next request has not begun, or it was its turn.                     *)
InTurn(s, t) ==
    t.begun = s.begun \/ (s.readFinished /\ s.want = NoRead /\ ~t.unsent)

LEMMA UnwindSteady ==
    ASSUME NEW s, Sound(s), ~s.raised, s.status # "new",
           s.frame \in {"idle", "finish", "emptyBody", "deferred"},
           s.frame \in {"idle", "deferred"} => s.eaten = 0,
           ~s.finished => /\ s.writeFinished => s.status = "lost"
                          /\ s.stage \in {"preparing", "waiting"} => s.state # "READ_HEADER",
           s.stage \in {"preparing", "waiting"} \/ s.want # NoRead => Tidy(s)
    PROVE  LET t == Unwind(s) IN Steady(t) /\ t.begun = s.begun /\ t.unsent = s.unsent
<1> DEFINE a == [s EXCEPT !.frame = "idle"]
           b == Arm(a, "body")
           t == Unwind(s)
<1>1. t = Consumed(b) \/ t = Consumed(a) \/ (t = a /\ s.eaten = 0)
  <2>1. t = CASE s.frame = "data" -> Consumed(BlockDone(a))
              [] s.frame = "emptyBody" -> Consumed(b)
              [] s.frame = "finish" -> Consumed(a)
              [] OTHER -> a
    BY DEF Unwind
  <2> HIDE DEF t, a, b
  <2>2. CASE s.frame = "emptyBody"
    <3>1. s.frame # "data"
      BY <2>2
    <3> QED BY <2>1, <2>2, <3>1, Zenon
  <2>3. CASE s.frame = "finish"
    <3>1. s.frame # "data" /\ s.frame # "emptyBody"
      BY <2>3
    <3> QED BY <2>1, <2>3, <3>1, Zenon
  <2>4. CASE s.frame \in {"idle", "deferred"}
    <3>1. s.frame # "data" /\ s.frame # "emptyBody" /\ s.frame # "finish"
      BY <2>4
    <3>2. t = a
      BY <2>1, <3>1, Zenon
    <3> QED BY <2>4, <3>2
  <2> QED BY <2>2, <2>3, <2>4
<1>2. /\ DOMAIN a = HTTPFields /\ a.status = s.status /\ a.raised = s.raised /\ a.frame = "idle"
      /\ SameTimers(s, a) /\ SameRequest(s, a) /\ SameRead(s, a)
      /\ SameSending(s, a) /\ SameOutline(s, a) /\ SameAmount(s, a)
      /\ a.stage = s.stage /\ a.finished = s.finished /\ a.buffered = s.buffered
      /\ a.headersWritten = s.headersWritten /\ a.length = s.length
      /\ a.code = s.code /\ a.flushes = s.flushes
  BY DEF Sound, Base, Types, HTTPFields, SameTimers, SameRequest, SameRead, SameSending,
         SameOutline, SameAmount
<1> HIDE DEF a
<1>3. Types(a) /\ Turn(a)
  BY <1>2
  DEF Sound, Base, Types, Turn, Kind, SameTimers, SameRequest, SameRead, SameSending,
      SameOutline, SameAmount
<1>4. Framed(a)
  BY <1>2
  DEF Sound, Base, Framed, Blank, Budget, Kind, Omitted, Bodyless, SameRequest,
      SameRead, SameSending, SameOutline, SameAmount
<1>5. Awake(a)
  BY <1>2
  DEF Sound, Awake, Attended, Posted, Timed, Sends, EndsOnce, SameTimers, SameRequest,
      SameRead, SameSending, SameOutline
<1>6. Sound(a)
  BY <1>3, <1>4, <1>5 DEF Sound, Base
<1>7. Settles(a)
  BY <1>2 DEF Settles, Unfinished, Lives, Tidy, SameRead, SameOutline
<1>8. /\ Sound(b) /\ b.raised = a.raised /\ b.status = a.status /\ SameRequest(a, b)
      /\ SameRead(a, b) /\ SameResponse(a, b) /\ SameHandler(a, b)
  <2>1. Core(a) /\ Posted(a)
    BY <1>6, SoundParts
  <2> HIDE DEF b
  <2>2. /\ Core(b) /\ Timed(b) /\ (Posted(a) => Posted(b)) /\ b.raised = a.raised
        /\ b.status = a.status /\ SameRequest(a, b) /\ SameRead(a, b)
        /\ SameResponse(a, b) /\ SameHandler(a, b)
    BY <2>1, ArmCore DEF b
  <2> QED BY <2>1, <2>2, SoundParts
<1> HIDE DEF b
<1>9. Settles(b)
  BY <1>7, <1>8
  DEF Settles, Unfinished, Lives, Tidy, SameRead, SameResponse, SameOutline, SameHandler
<1>10. ASSUME NEW c, Sound(c), Settles(c), ~c.raised, c.frame = "idle",
              c.begun = s.begun, c.unsent = s.unsent
       PROVE  LET d == Consumed(c) IN Steady(d) /\ d.begun = s.begun /\ d.unsent = s.unsent
  <2> DEFINE d == Consumed(c)
  <2>1. /\ Sound(d) /\ d.raised = c.raised /\ d.status = c.status /\ d.begun = c.begun
        /\ SameRead(c, d) /\ SameHandler(c, d) /\ d.writeFinished = c.writeFinished
        /\ d.unsent = c.unsent
        /\ d.frame = "idle" => d.eaten = 0
    BY <1>10, ConsumedSound
  <2> HIDE DEF d
  <2>2. Settles(d)
    BY <1>10, <2>1 DEF Settles, Unfinished, Lives, Tidy, SameRead, SameHandler
  <2>3. Steady(d) /\ d.begun = s.begun /\ d.unsent = s.unsent
    BY <1>10, <2>1, <2>2 DEF Steady, SameHandler
  <2> QED BY <2>3 DEF d
<1> HIDE DEF t
<1>11. CASE t = Consumed(b)
  <2>1. ~b.raised /\ b.frame = "idle" /\ b.begun = s.begun /\ b.unsent = s.unsent
    BY <1>2, <1>8 DEF SameHandler, SameRequest, SameResponse, SameSending
  <2> QED BY <1>8, <1>9, <1>10, <1>11, <2>1 DEF t
<1>12. CASE t = Consumed(a)
  <2>1. ~a.raised /\ a.frame = "idle" /\ a.begun = s.begun /\ a.unsent = s.unsent
    BY <1>2 DEF SameRequest, SameSending
  <2> QED BY <1>6, <1>7, <1>10, <1>12, <2>1 DEF t
<1>13. CASE t = a /\ s.eaten = 0
  <2>1. Steady(t) /\ t.begun = s.begun /\ t.unsent = s.unsent
    BY <1>2, <1>6, <1>7, <1>13 DEF Steady, SameRequest, SameSending
  <2> QED BY <2>1 DEF t
<1> QED BY <1>1, <1>11, <1>12, <1>13

(* The data were handed over, and dataReceived returns.                    *)
LEMMA UnwindDataSteady ==
    ASSUME NEW s, Steady(s), s.frame = "data"
    PROVE  LET t == Unwind(s) IN Steady(t) /\ t.begun = s.begun
<1> DEFINE a == [s EXCEPT !.frame = "idle"]
           d == BlockDone(a)
           t == Unwind(s)
<1>1. t = Consumed(d)
  <2>1. t = CASE s.frame = "data" -> Consumed(d)
              [] s.frame = "emptyBody" -> Consumed(Arm(a, "body"))
              [] s.frame = "finish" -> Consumed(a)
              [] OTHER -> a
    BY DEF Unwind
  <2> HIDE DEF t, a, d
  <2>2. s.frame # "emptyBody" /\ s.frame # "finish"
    OBVIOUS
  <2> QED BY <2>1, <2>2, Zenon
<1>2. /\ DOMAIN a = HTTPFields /\ a.status = s.status /\ a.raised = s.raised /\ a.frame = "idle"
      /\ SameTimers(s, a) /\ SameRequest(s, a) /\ SameRead(s, a)
      /\ SameSending(s, a) /\ SameOutline(s, a) /\ SameAmount(s, a)
      /\ a.stage = s.stage /\ a.finished = s.finished /\ a.buffered = s.buffered
      /\ a.headersWritten = s.headersWritten /\ a.length = s.length
      /\ a.code = s.code /\ a.flushes = s.flushes
  BY
  DEF Steady, Sound, Base, Types, HTTPFields, SameTimers, SameRequest, SameRead,
      SameSending,
         SameOutline, SameAmount
<1> HIDE DEF a
<1>3. Types(a) /\ Turn(a)
  BY <1>2
  DEF Steady, Sound, Base, Types, Turn, Kind, Lives, SameTimers, SameRequest, SameRead,
      SameSending, SameOutline, SameAmount
<1>4. Framed(a)
  BY <1>2
  DEF Steady, Sound, Base, Framed, Blank, Budget, Kind, Omitted, Bodyless, SameRequest,
      SameRead, SameSending, SameOutline, SameAmount
<1>5. Timed(a) /\ Sends(a) /\ EndsOnce(a)
  BY <1>2
  DEF Steady, Sound, Awake, Attended, Timed, Sends, EndsOnce, SameTimers, SameRequest,
      SameSending, SameOutline
<1>6. Tidy(a) /\ (~a.finished => Unfinished(a))
  BY <1>2 DEF Steady, Settles, Unfinished, Lives, Tidy, SameRead, SameOutline
<1>7. /\ s.want = NoRead /\ ~s.readFinished /\ s.stage = "found" /\ s.state # "READ_HEADER"
      /\ s.status # "new"
  BY DEF Steady, Sound, Base, Turn, Lives
<1>8. Hears(a) /\ a.state # "READ_HEADER"
  BY <1>2, <1>3, <1>4, <1>5, <1>6, <1>7
  DEF Hears, Core, Base, Steady, SameRequest, SameRead
<1>9. Took(a, d) /\ Timed(d) /\ ~d.raised
  BY <1>5, <1>8, BlockDoneTakes
<1> HIDE DEF d
<1>10. Steady(t) /\ t.begun = a.begun
  BY <1>1, <1>9, TookSteady
<1> HIDE DEF t
<1> QED BY <1>2, <1>10 DEF t, SameRequest

(* An exception out of a method: of dataReceived, onDataRead closes the    *)
(* connection; of another, the handler answers it.                         *)
LEMMA FailedSteady ==
    ASSUME NEW s, Acting(s)
    PROVE  Steady(Failed(s)) /\ InTurn(s, Failed(s))
<1> DEFINE c == Caught(s)
           a == [c EXCEPT !.frame = "idle"]
           d == Consumed(a)
           r == HandleRequestException(s)
           v == [r EXCEPT !.stage = "done"]
           t == Failed(s)
<1>1. t = IF s.frame = "data" THEN CloseHTTP(d) ELSE Unwind(v)
  BY DEF Failed
<1>2. Sound(s) /\ Lives(s) /\ s.status # "new"
  BY DEF Acting, Sound, Base, Turn
<1>3. CASE s.frame = "data"
  <2>1. t = CloseHTTP(d)
    BY <1>1, <1>3
  <2>2. Edited(s, c) /\ ~c.raised /\ c.finished = s.finished
    BY <1>2, CaughtEdited DEF Sound, Base
  <2> HIDE DEF c
  <2>3. Sound(c)
    BY <1>2, <2>2, EditedSound
  <2>4. /\ DOMAIN a = HTTPFields /\ a.status = c.status /\ a.raised = c.raised
        /\ a.frame = "idle"
        /\ SameTimers(c, a) /\ SameRequest(c, a) /\ SameRead(c, a)
        /\ SameSending(c, a) /\ SameOutline(c, a) /\ SameAmount(c, a)
        /\ a.stage = c.stage /\ a.finished = c.finished /\ a.buffered = c.buffered
        /\ a.headersWritten = c.headersWritten /\ a.length = c.length
        /\ a.code = c.code /\ a.flushes = c.flushes
    BY <2>3
    DEF Sound, Base, Types, HTTPFields, SameTimers, SameRequest, SameRead, SameSending,
        SameOutline, SameAmount
  <2> HIDE DEF a
  <2>5. c.status # "new" /\ c.frame = "data" /\ c.want = NoRead /\ c.stage = "found"
    BY <1>2, <1>3, <2>2, <2>3 DEF Edited, Sound, Base, Turn
  <2>6. Types(a) /\ Turn(a)
    BY <2>3, <2>4, <2>5
    DEF Sound, Base, Types, Turn, Kind, SameTimers, SameRequest, SameRead, SameSending,
        SameOutline, SameAmount
  <2>7. Framed(a)
    BY <2>3, <2>4
    DEF Sound, Base, Framed, Blank, Budget, Kind, Omitted, Bodyless, SameRequest,
        SameRead, SameSending, SameOutline, SameAmount
  <2>8. Awake(a)
    BY <2>3, <2>4
    DEF Sound, Awake, Attended, Posted, Timed, Sends, EndsOnce, SameTimers, SameRequest,
        SameRead, SameSending, SameOutline
  <2>9. Sound(a)
    BY <2>6, <2>7, <2>8 DEF Sound, Base
  <2>10. ~s.finished => (s.writeFinished => s.status = "lost")
    BY DEF Acting, Unfinished
  <2>11. Settles(a) /\ ~a.raised /\ a.frame = "idle" /\ a.begun = s.begun
    BY <2>2, <2>4, <2>5, <2>10
    DEF Settles, Unfinished, Lives, Edited, SameRequest, SameRead, SameOutline
  <2>12. /\ Sound(d) /\ d.raised = a.raised /\ d.status = a.status /\ d.begun = a.begun
         /\ SameRead(a, d) /\ SameHandler(a, d) /\ d.writeFinished = a.writeFinished
         /\ d.frame = "idle" => d.eaten = 0
    BY <2>9, ConsumedSound
  <2> HIDE DEF d
  <2>13. Settles(d) /\ Base(d) /\ ~d.raised /\ d.frame = "idle" /\ d.eaten = 0
    BY <2>11, <2>12 DEF Settles, Unfinished, Lives, Tidy, SameRead, SameHandler, Sound
  <2>14. Steady(t) /\ t.begun = d.begun
    BY <2>1, <2>13, CloseSteady
  <2> HIDE DEF t
  <2> QED BY <2>11, <2>12, <2>14 DEF t, InTurn
<1>4. CASE s.frame # "data"
  <2>1. t = Unwind(v)
    BY <1>1, <1>4
  <2>2. Settled(s, r)
    BY <1>2, ExceptionSettled DEF Acting
  <2> HIDE DEF r
  <2>3. /\ DOMAIN v = HTTPFields /\ v.status = r.status /\ v.raised = r.raised
        /\ v.stage = "done" /\ v.frame = r.frame
        /\ SameTimers(r, v) /\ SameRequest(r, v) /\ SameRead(r, v)
        /\ SameSending(r, v) /\ SameOutline(r, v) /\ SameAmount(r, v)
        /\ v.finished = r.finished /\ v.buffered = r.buffered
        /\ v.headersWritten = r.headersWritten /\ v.length = r.length
        /\ v.code = r.code /\ v.flushes = r.flushes
    BY <2>2
    DEF Settled, Sound, Base, Types, HTTPFields, SameTimers, SameRequest, SameRead,
        SameSending, SameOutline, SameAmount
  <2> HIDE DEF v
  <2>4. /\ r.frame \in {"idle", "finish", "emptyBody", "deferred"} /\ r.status # "new"
        /\ ~r.raised /\ r.stage \in {"prepare", "method", "preparing", "waiting"}
        /\ r.frame \in {"idle", "deferred"} => r.eaten = 0
    BY <1>2, <1>4, <2>2 DEF Acting, Lives, Settled, Stays, Begins
  <2>5. ~r.finished => Unfinished(r) /\ r.want = NoRead
    <3> HAVE ~r.finished
    <3>1. Unfinished(r) /\ Lives(r)
      BY <1>2, <2>2 DEF Settled, Lives
    <3>2. r.want # NoRead /\ r.state # "READ_HEADER" => r.stage = "found"
      BY <2>2 DEF Settled, Sound, Base, Turn
    <3> QED BY <2>4, <3>1, <3>2 DEF Unfinished
  <2>6. Types(v)
    BY <2>2, <2>3
    DEF Settled, Sound, Base, Types, SameTimers, SameRequest, SameRead, SameSending,
        SameOutline,
        SameAmount
  <2>7. r.want # NoRead /\ r.state # "READ_HEADER" => r.stage = "found"
    BY <2>2 DEF Settled, Sound, Base, Turn
  <2>8. Turn(v)
    BY <2>2, <2>3, <2>4, <2>7
    DEF Settled, Sound, Base, Turn, Kind, SameTimers, SameRequest, SameRead, SameSending,
        SameOutline, SameAmount
  <2>9. Framed(v)
    BY <2>2, <2>3
    DEF Settled, Sound, Base, Framed, Blank, Budget, Kind, Omitted, Bodyless,
        SameRequest, SameRead, SameSending, SameOutline, SameAmount
  <2>10. Awake(v)
    BY <2>2, <2>3
    DEF Settled, Sound, Awake, Attended, Posted, Timed, Sends, EndsOnce, SameTimers,
        SameRequest, SameRead, SameSending, SameOutline
  <2>11. Sound(v)
    BY <2>6, <2>8, <2>9, <2>10 DEF Sound, Base
  <2>12. /\ ~v.raised /\ v.status # "new" /\ v.begun = r.begun /\ v.unsent = r.unsent
         /\ v.frame \in {"idle", "finish", "emptyBody", "deferred"}
         /\ v.frame \in {"idle", "deferred"} => v.eaten = 0
         /\ ~v.finished => (v.writeFinished => v.status = "lost")
         /\ v.stage \notin {"preparing", "waiting"}
         /\ v.want # NoRead => Tidy(v)
    BY <2>3, <2>4, <2>5
    DEF Unfinished, Tidy, SameRequest, SameRead, SameSending, SameOutline
  <2>13. Steady(t) /\ t.begun = v.begun /\ t.unsent = v.unsent
    BY <2>1, <2>11, <2>12, UnwindSteady
  <2> HIDE DEF t
  <2>14. InTurn(s, t)
    BY <2>2, <2>12, <2>13 DEF Settled, Stays, Begins, InTurn
  <2> QED BY <2>13, <2>14 DEF t
<1> QED BY <1>3, <1>4

(* A stage is done: on to the method, or the response is finished.         *)
LEMMA StageDoneFacts ==
    ASSUME NEW s, Steady(s), Lives(s), s.frame # "data"
    PROVE  LET t == StageDone(s)
           IN /\ Sound(t) /\ ~t.raised /\ t.status # "new" /\ t.frame = s.frame
              /\ t.eaten = s.eaten /\ InTurn(s, t)
              /\ ~t.finished => (t.writeFinished => t.status = "lost")
              /\ \/ t.stage = "method" /\ Tidy(t) /\ (~t.finished => t.state # "READ_HEADER")
                 \/ t.stage = "done" /\ (t.want # NoRead => Tidy(t))
<1> DEFINE a == [s EXCEPT !.stage = "method"]
           r == ExecuteFinish(s)
           v == [r EXCEPT !.stage = "done"]
           t == StageDone(s)
<1>1. t = IF s.stage \in {"prepare", "preparing"} /\ ~s.finished THEN a ELSE v
  BY DEF StageDone
<1>2. Sound(s) /\ s.status # "new" /\ Tidy(s) /\ (~s.finished => Unfinished(s))
      /\ s.stage \in {"prepare", "method", "preparing", "waiting"}
  BY DEF Steady, Settles, Lives, Sound, Base, Turn
<1>3. CASE s.stage \in {"prepare", "preparing"} /\ ~s.finished
  <2>1. t = a
    BY <1>1, <1>3
  <2>2. /\ DOMAIN a = HTTPFields /\ a.status = s.status /\ a.raised = s.raised
        /\ a.stage = "method" /\ a.frame = s.frame
        /\ SameTimers(s, a) /\ SameRequest(s, a) /\ SameRead(s, a)
        /\ SameSending(s, a) /\ SameOutline(s, a) /\ SameAmount(s, a)
        /\ a.finished = s.finished /\ a.buffered = s.buffered
        /\ a.headersWritten = s.headersWritten /\ a.length = s.length
        /\ a.code = s.code /\ a.flushes = s.flushes
    BY DEF Steady, Sound, Base, Types, HTTPFields, SameTimers, SameRequest, SameRead,
           SameSending, SameOutline, SameAmount
  <2> HIDE DEF a
  <2>3. Types(a)
    BY <1>2, <2>2
    DEF Sound, Base, Types, SameTimers, SameRequest, SameRead, SameSending, SameOutline,
        SameAmount
  <2>4. Turn(a)
    BY <1>2, <2>2
    DEF Sound, Base, Turn, Kind, SameTimers, SameRequest, SameRead, SameSending,
        SameOutline, SameAmount
  <2>5. Framed(a)
    BY <1>2, <2>2
    DEF Sound, Base, Framed, Blank, Budget, Kind, Omitted, Bodyless, SameRequest,
        SameRead, SameSending, SameOutline, SameAmount
  <2>6. Awake(a)
    BY <1>2, <2>2
    DEF Sound, Awake, Attended, Posted, Timed, Sends, EndsOnce, SameTimers,
        SameRequest, SameRead, SameSending, SameOutline
  <2>7. Sound(a)
    BY <2>3, <2>4, <2>5, <2>6 DEF Sound, Base
  <2>8. /\ ~a.raised /\ a.status # "new" /\ a.eaten = s.eaten /\ InTurn(s, a)
        /\ ~a.finished => (a.writeFinished => a.status = "lost")
        /\ Tidy(a) /\ (~a.finished => a.state # "READ_HEADER")
    BY <1>2, <2>2
    DEF Steady, Tidy, Unfinished, InTurn, SameRequest, SameRead, SameOutline
  <2> HIDE DEF t
  <2> QED BY <2>1, <2>2, <2>7, <2>8 DEF t
<1>4. CASE ~(s.stage \in {"prepare", "preparing"} /\ ~s.finished)
  <2>1. t = v
    BY <1>1, <1>4
  <2>3. Settled(s, r)
    BY <1>2, ExecuteFinishSettled DEF Steady
  <2> HIDE DEF r
  <2>4. /\ DOMAIN v = HTTPFields /\ v.status = r.status /\ v.raised = r.raised
        /\ v.stage = "done" /\ v.frame = r.frame
        /\ SameTimers(r, v) /\ SameRequest(r, v) /\ SameRead(r, v)
        /\ SameSending(r, v) /\ SameOutline(r, v) /\ SameAmount(r, v)
        /\ v.finished = r.finished /\ v.buffered = r.buffered
        /\ v.headersWritten = r.headersWritten /\ v.length = r.length
        /\ v.code = r.code /\ v.flushes = r.flushes
    BY <2>3
    DEF Settled, Sound, Base, Types, HTTPFields, SameTimers, SameRequest, SameRead,
        SameSending, SameOutline, SameAmount
  <2> HIDE DEF v
  <2>5. /\ r.status # "new" /\ ~r.raised /\ r.stage = s.stage /\ r.frame = s.frame
        /\ r.eaten = s.eaten
    BY <2>3 DEF Settled, Stays, Begins
  <2>6. r.want # NoRead => r.state = "READ_HEADER"
    BY <1>2, <2>3, <2>5 DEF Settled, Sound, Base, Turn
  <2>7. ~r.finished => Unfinished(r) /\ r.want = NoRead
    <3> HAVE ~r.finished
    <3>1. Unfinished(r) /\ Lives(r)
      BY <2>3, <2>5 DEF Settled, Lives
    <3> QED BY <2>6, <3>1 DEF Unfinished
  <2>8. Types(v)
    BY <2>3, <2>4
    DEF Settled, Sound, Base, Types, SameTimers, SameRequest, SameRead, SameSending,
        SameOutline,
        SameAmount
  <2>9. Turn(v)
    BY <2>3, <2>4, <2>5, <2>6
    DEF Settled, Sound, Base, Turn, Kind, SameTimers, SameRequest, SameRead, SameSending,
        SameOutline, SameAmount
  <2>10. Framed(v)
    BY <2>3, <2>4
    DEF Settled, Sound, Base, Framed, Blank, Budget, Kind, Omitted, Bodyless,
        SameRequest, SameRead, SameSending, SameOutline, SameAmount
  <2>11. Awake(v)
    BY <2>3, <2>4
    DEF Settled, Sound, Awake, Attended, Posted, Timed, Sends, EndsOnce, SameTimers,
        SameRequest, SameRead, SameSending, SameOutline
  <2>12. Sound(v)
    BY <2>8, <2>9, <2>10, <2>11 DEF Sound, Base
  <2>13. /\ ~v.raised /\ v.status # "new" /\ v.frame = s.frame /\ v.eaten = s.eaten
         /\ InTurn(s, v)
         /\ ~v.finished => (v.writeFinished => v.status = "lost")
         /\ v.want # NoRead => Tidy(v)
    BY <2>3, <2>4, <2>5, <2>7
    DEF Settled, Stays, Begins, InTurn, Unfinished, Tidy, SameRequest, SameRead,
        SameSending, SameOutline
  <2> HIDE DEF t
  <2> QED BY <2>1, <2>4, <2>12, <2>13 DEF t
<1> QED BY <1>3, <1>4

-----------------------------------------------------------------------------
(* The steps of the application.                                           *)
LEMMA BecomesSteady ==
    ASSUME NEW t, Steady(t), h' = t, script' = script, config' = config
    PROVE  Steady(h)'
<1>1. Types(h)'
  BY DEF Steady, Sound, Base, Types, Wires
<1>2. Turn(h)'
  BY DEF Steady, Sound, Base, Turn, Kind, Lives
<1>3. Framed(h)'
  BY DEF Steady, Sound, Base, Framed, Blank, Budget, Kind, Omitted, Bodyless
<1>4. Awake(h)'
  BY DEF Steady, Sound, Awake, Attended, Posted, Timed, Sends, EndsOnce, Satisfied,
         LineEnd, BlankLine
<1>5. Settles(h)'
  BY DEF Steady, Settles, Unfinished, Lives, Tidy
<1> QED BY <1>1, <1>2, <1>3, <1>4, <1>5 DEF Steady, Sound, Base

LEMMA EditedActing ==
    ASSUME NEW s, NEW t, Steady(s), Lives(s), Edited(s, t), t.finished = s.finished
    PROVE  /\ Acting(t)
           /\ Tidy(t) /\ ~t.raised => Steady(t)
           /\ t.begun = s.begun /\ t.readFinished = s.readFinished /\ t.want = s.want
<1>1. Sound(t) /\ Lives(t) /\ (~t.finished => Unfinished(t))
  BY EditedSound DEF Steady, Settles
<1>2. t.status # "new"
  BY <1>1 DEF Sound, Base, Turn
<1>3. /\ t.begun = s.begun /\ t.readFinished = s.readFinished /\ t.want = s.want
      /\ t.eaten = s.eaten /\ t.frame = s.frame /\ t.stage = s.stage
  BY DEF Edited, SameRequest, SameRead
<1>4. Acting(t)
  BY <1>1, <1>3 DEF Acting, Steady, Settles
<1>5. Tidy(t) /\ ~t.raised => Steady(t)
  BY <1>1, <1>3 DEF Steady, Settles
<1> QED BY <1>3, <1>4, <1>5

(* One step of the application, with what its exception leads to.          *)
LEMMA DoesSteady ==
    ASSUME HTTPInv, NEW s, Does(s), ~s.raised => Steady(s) /\ InTurn(h, s),
           s.raised => /\ Acting(s) /\ s.begun = h.begun
                       /\ s.readFinished = h.readFinished /\ s.want = h.want
    PROVE  HTTPInv' /\ InTurn(h, h')
<1> DEFINE t == IF s.raised THEN Failed(s) ELSE s
<1>1. h' = t /\ script' = script /\ wire' = wire /\ config' = config
  BY DEF Does
<1>2. Steady(t) /\ InTurn(h, t)
  BY FailedSteady DEF InTurn
<1> HIDE DEF t
<1>3. Steady(h)'
  BY <1>1, <1>2, BecomesSteady
<1>4. wire' \in Seq(Wires)' /\ script' \in Scripts
  BY <1>1 DEF HTTPInv, Wires
<1> QED BY <1>1, <1>2, <1>3, <1>4 DEF HTTPInv, InTurn

LEMMA HandlerSteady ==
    ASSUME HTTPInv, Handler
    PROVE  HTTPInv' /\ InTurn(h, h')
<1>1. Steady(h) /\ Lives(h) /\ Sound(h) /\ Types(h) /\ Tidy(h) /\ ~h.raised
      /\ (~h.finished => Unfinished(h)) /\ h.status # "new"
  BY DEF HTTPInv, Handler, Running, OnStack, Lives, Steady, Settles, Sound, Base, Turn
<1>2. CASE AppSetsLength
  <2>1. PICK n \in 1..MaxWrites : Does([h EXCEPT !.length = n])
    BY <1>2 DEF AppSetsLength
  <2> DEFINE a == [h EXCEPT !.length = n]
  <2>2. n \in Nat /\ n > 0
    BY <2>1, HTTPAssumption
  <2>3. /\ Edited(h, a) /\ a.finished = h.finished /\ ~a.raised
        /\ a.headersWritten = h.headersWritten /\ a.code = h.code
        /\ a.flushes = h.flushes /\ a.length = n
    BY <1>1, <1>2, <2>2
    DEF AppSetsLength, Types, HTTPFields, Edited, SameTimers, SameRequest, SameRead,
        SameSending, SameOutline, SameAmount
  <2> HIDE DEF a
  <2>4. Tidy(a)
    BY <1>1, <1>2, <2>2, <2>3 DEF Tidy, AppSetsLength
  <2>5. Steady(a) /\ InTurn(h, a)
    BY <1>1, <2>3, <2>4, EditedActing DEF InTurn
  <2>6. Does(a)
    BY <2>1 DEF a
  <2> QED BY <2>3, <2>5, <2>6, DoesSteady
<1>3. CASE AppWrites
  <2> DEFINE a == [h EXCEPT !.buffered = h.buffered + 1]
  <2>1. Does(a)
    BY <1>3 DEF AppWrites
  <2>2. /\ Edited(h, a) /\ a.finished = h.finished /\ ~a.raised
        /\ a.headersWritten = h.headersWritten /\ a.flushes = h.flushes
    BY <1>1, <1>3
    DEF AppWrites, Tidy, Types, HTTPFields, Edited, SameTimers, SameRequest, SameRead,
        SameSending, SameOutline, SameAmount
  <2> HIDE DEF a
  <2>3. Tidy(a)
    BY <1>1, <2>2 DEF Tidy
  <2>4. Steady(a) /\ InTurn(h, a)
    BY <1>1, <2>2, <2>3, EditedActing DEF InTurn
  <2> QED BY <2>1, <2>2, <2>4, DoesSteady
<1>11. CASE AppSetsStatus
  <2> DEFINE a(c) == [h EXCEPT !.code = c]
  <2>1. PICK c \in StatusCodes : Does(a(c))
    BY <1>11 DEF AppSetsStatus
  <2>2. ~h.headersWritten
    BY <1>11 DEF AppSetsStatus
  <2>3. /\ Edited(h, a(c)) /\ a(c).finished = h.finished /\ ~a(c).raised
        /\ a(c).headersWritten = h.headersWritten
    BY <1>1, <2>2
    DEF Types, HTTPFields, Edited, SameTimers, SameRequest, SameRead,
        SameSending, SameOutline, SameAmount
  <2> HIDE DEF a
  <2>4. Tidy(a(c))
    BY <2>2, <2>3 DEF Tidy
  <2>5. Steady(a(c)) /\ InTurn(h, a(c))
    BY <1>1, <2>3, <2>4, EditedActing DEF InTurn
  <2> QED BY <2>1, <2>3, <2>5, DoesSteady
<1>4. CASE AppFlushes
  <2> DEFINE a == [h EXCEPT !.flushes = h.flushes + 1]
             t == Flush(a)
  <2>1. Does(t)
    BY <1>4 DEF AppFlushes
  <2>2. /\ Edited(h, a) /\ a.finished = h.finished /\ ~a.raised
        /\ a.flushes > 0
    BY <1>1
    DEF Types, HTTPFields, Edited, SameTimers, SameRequest, SameRead,
        SameSending, SameOutline, SameAmount
  <2> HIDE DEF a
  <2>3. Acting(a) /\ a.begun = h.begun /\ a.readFinished = h.readFinished /\ a.want = h.want
    BY <1>1, <2>2, EditedActing
  <2>4. ~a.finished
    BY <1>4, <2>2 DEF AppFlushes
  <2>5. Fits(a)
    BY <2>2 DEF Fits, Edited
  <2>6. Acts(a)
    BY <2>2, <2>3, <2>4 DEF Acts, Acting
  <2>7. Flushed(a, t)
    BY <2>5, <2>6, FlushFlushed
  <2> HIDE DEF t
  <2>8. Unfinished(t) /\ Lives(t)
    BY <2>6, <2>7 DEF Acts, Flushed, Unfinished, Lives, SameRead
  <2>9. Acting(t) /\ t.begun = h.begun /\ t.readFinished = h.readFinished /\ t.want = h.want
    BY <2>3, <2>7, <2>8 DEF Acting, Flushed, SameRequest, SameRead
  <2>10. ~t.raised => Steady(t)
    BY <2>2, <2>7, <2>8, <2>9 DEF Acting, Flushed, Steady, Settles, Tidy
  <2> QED BY <2>1, <2>9, <2>10, DoesSteady DEF InTurn
<1>5. ASSUME NEW a, Acts(a), Edited(h, a), a.finished = h.finished, Does(HandlerFinish(a))
      PROVE  HTTPInv' /\ InTurn(h, h')
  <2> DEFINE t == HandlerFinish(a)
  <2>1. Acting(a) /\ a.begun = h.begun /\ a.readFinished = h.readFinished /\ a.want = h.want
    BY <1>1, <1>5, EditedActing
  <2>2. Answered(a, t)
    BY <1>5, HandlerFinishAnswers
  <2>3. Does(t)
    BY <1>5
  <2> HIDE DEF t
  <2>4. t.raised => /\ Acting(t) /\ t.begun = h.begun
                    /\ t.readFinished = h.readFinished /\ t.want = h.want
    BY <2>1, <2>2 DEF Answered, Acting, Lives, Stays
  <2>5. ~t.raised => Steady(t) /\ InTurn(h, t)
    BY <2>1, <2>2
    DEF Answered, Acting, Steady, Settles, Tidy, Stays, Begins, InTurn
  <2> QED BY <2>3, <2>4, <2>5, DoesSteady
<1>6. CASE AppFinishes
  <2> DEFINE a == [h EXCEPT !.code = "304", !.buffered = 0]
  <2>1. ~h.finished
    BY <1>6 DEF AppFinishes
  <2>2. Acts(h)
    BY <1>1, <2>1 DEF Acts
  <2>3. Edited(h, h)
    BY <1>1
    DEF Types, Edited, SameTimers, SameRequest, SameRead, SameSending, SameOutline,
        SameAmount
  <2>4. CASE Does(HandlerFinish(h))
    BY <1>5, <2>2, <2>3, <2>4
  <2>5. CASE ~h.headersWritten /\ Does(HandlerFinish(a))
    <3>1. /\ Edited(h, a) /\ a.finished = h.finished /\ ~a.raised /\ a.buffered = 0
      <4>1. /\ DOMAIN a = HTTPFields /\ a.status = h.status /\ a.frame = h.frame
            /\ a.stage = h.stage /\ a.headersWritten = h.headersWritten
            /\ a.length = h.length /\ a.buffered = 0 /\ a.finished = h.finished
            /\ a.raised = h.raised /\ a.flushes = h.flushes
        BY <1>1 DEF Types, HTTPFields
      <4>2. SameTimers(h, a) /\ SameRequest(h, a) /\ SameRead(h, a)
        BY <1>1 DEF Types, HTTPFields, SameTimers, SameRequest, SameRead
      <4>3. SameSending(h, a) /\ SameOutline(h, a) /\ SameAmount(h, a)
        BY <1>1 DEF Types, HTTPFields, SameSending, SameOutline, SameAmount
      <4>4. h.length \in Nat \cup {NoLength} /\ h.flushes \in Nat
        BY <1>1 DEF Types
      <4> HIDE DEF a
      <4> QED BY <1>1, <2>5, <4>1, <4>2, <4>3, <4>4 DEF Edited
    <3>2. Does(HandlerFinish(a))
      BY <2>5
    <3> HIDE DEF a
    <3>3. Acts(a)
      BY <1>1, <2>1, <3>1, EditedSound DEF Acts
    <3> QED BY <1>5, <3>1, <3>2, <3>3
  <2> QED BY <1>6, <2>4, <2>5 DEF AppFinishes
<1>7. CASE AppThrows
  <2> DEFINE t == Raise(h)
  <2>1. Edited(h, t) /\ t.finished = h.finished /\ t.raised
    BY <1>1
    DEF Raise, Types, HTTPFields, Edited, SameTimers, SameRequest, SameRead,
        SameSending, SameOutline, SameAmount
  <2>2. Does(t)
    BY <1>7 DEF AppThrows
  <2> HIDE DEF t
  <2> QED BY <1>1, <2>1, <2>2, EditedActing, DoesSteady
<1>8. CASE AppReturns
  <2> DEFINE r == StageDone(h)
             t == IF h.frame = "data" THEN Unwind(h) ELSE Continue(r)
  <2>1. Does(t) /\ h.frame # "idle"
    BY <1>8 DEF AppReturns, OnStack
  <2>2. CASE h.frame = "data"
    <3>1. t = Unwind(h)
      BY <2>2
    <3>2. Steady(t) /\ InTurn(h, t)
      BY <1>1, <2>2, <3>1, UnwindDataSteady DEF InTurn
    <3> HIDE DEF t
    <3> QED BY <2>1, <3>2, DoesSteady DEF Steady
  <2>3. CASE h.frame # "data"
    <3>1. /\ Sound(r) /\ ~r.raised /\ r.status # "new" /\ r.frame = h.frame
          /\ r.eaten = h.eaten /\ InTurn(h, r)
          /\ ~r.finished => (r.writeFinished => r.status = "lost")
          /\ \/ r.stage = "method" /\ Tidy(r) /\ (~r.finished => r.state # "READ_HEADER")
             \/ r.stage = "done" /\ (r.want # NoRead => Tidy(r))
      BY <1>1, <2>3, StageDoneFacts
    <3>2. t = IF r.stage = "method" THEN r ELSE Unwind(r)
      BY <2>3 DEF Continue
    <3> HIDE DEF r
    <3>3. h.frame \in {"finish", "emptyBody", "deferred"} /\ (h.frame = "deferred" => h.eaten = 0)
      BY <1>1, <2>1, <2>3 DEF Steady, Settles
    <3>4. CASE r.stage = "method"
      <4>1. t = r
        BY <3>2, <3>4
      <4> HIDE DEF t
      <4>2. Settles(r)
        BY <3>1, <3>3, <3>4 DEF Settles, Unfinished, Lives
      <4>3. Steady(r)
        BY <3>1, <3>3, <4>2 DEF Steady
      <4> QED BY <2>1, <3>1, <4>1, <4>3, DoesSteady
    <3>5. CASE r.stage # "method"
      <4>1. t = Unwind(r)
        BY <3>2, <3>5
      <4>2. r.stage = "done" /\ (r.want # NoRead => Tidy(r))
        BY <3>1, <3>5
      <4>3. Steady(t) /\ t.begun = r.begun /\ t.unsent = r.unsent
        BY <3>1, <3>3, <4>1, <4>2, UnwindSteady
      <4> HIDE DEF t
      <4>4. ~t.raised /\ InTurn(h, t)
        BY <3>1, <4>3 DEF Steady, InTurn
      <4> QED BY <2>1, <4>3, <4>4, DoesSteady
    <3> QED BY <3>4, <3>5
  <2> QED BY <2>2, <2>3
<1>9. CASE AppDefers
  <2> DEFINE g == IF h.stage = "prepare" THEN "preparing" ELSE "waiting"
             a == [h EXCEPT !.stage = g]
             t == Unwind(a)
  <2>1. Does(t) /\ h.frame \in {"finish", "emptyBody", "deferred"}
    BY <1>9 DEF AppDefers
  <2>2. g \in {"preparing", "waiting"}
    OBVIOUS
  <2> HIDE DEF g
  <2>3. /\ DOMAIN a = HTTPFields /\ a.status = h.status /\ a.raised = h.raised
        /\ a.stage = g /\ a.frame = h.frame
        /\ SameTimers(h, a) /\ SameRequest(h, a) /\ SameRead(h, a)
        /\ SameSending(h, a) /\ SameOutline(h, a) /\ SameAmount(h, a)
        /\ a.finished = h.finished /\ a.buffered = h.buffered
        /\ a.headersWritten = h.headersWritten /\ a.length = h.length
        /\ a.code = h.code /\ a.flushes = h.flushes
    BY <1>1
    DEF Types, HTTPFields, SameTimers, SameRequest, SameRead, SameSending, SameOutline,
        SameAmount
  <2> HIDE DEF a
  <2>4. h.stage \in {"prepare", "method"} /\ (h.frame = "deferred" => h.eaten = 0)
    BY <1>1, <2>1 DEF Steady, Settles
  <2>5. Types(a)
    BY <1>1, <2>3
    DEF Types, SameTimers, SameRequest, SameRead, SameSending, SameOutline, SameAmount
  <2>6. Turn(a)
    BY <1>1, <2>1, <2>3, <2>4
    DEF Sound, Base, Turn, Kind, SameTimers, SameRequest, SameRead, SameSending,
        SameOutline, SameAmount
  <2>7. Framed(a)
    BY <1>1, <2>3
    DEF Sound, Base, Framed, Blank, Budget, Kind, Omitted, Bodyless, SameRequest,
        SameRead, SameSending, SameOutline, SameAmount
  <2>8. Awake(a)
    BY <1>1, <2>3
    DEF Sound, Awake, Attended, Posted, Timed, Sends, EndsOnce, SameTimers,
        SameRequest, SameRead, SameSending, SameOutline
  <2>9. Sound(a)
    BY <2>5, <2>6, <2>7, <2>8 DEF Sound, Base
  <2>10. /\ ~a.raised /\ a.status # "new" /\ a.begun = h.begun
         /\ a.frame \in {"idle", "finish", "emptyBody", "deferred"}
         /\ a.frame \in {"idle", "deferred"} => a.eaten = 0
         /\ ~a.finished => /\ a.writeFinished => a.status = "lost"
                           /\ a.state # "READ_HEADER"
         /\ Tidy(a)
    BY <1>1, <2>1, <2>3, <2>4
    DEF Unfinished, Tidy, SameRequest, SameRead, SameSending, SameOutline
  <2>11. Steady(t) /\ t.begun = a.begun
    BY <2>9, <2>10, UnwindSteady
  <2> HIDE DEF t
  <2>12. ~t.raised /\ InTurn(h, t)
    BY <2>10, <2>11 DEF Steady, InTurn
  <2> QED BY <2>1, <2>11, <2>12, DoesSteady
<1>10. CASE DeferredFires
  <2> DEFINE r == StageDone(h)
             a == [r EXCEPT !.frame = "deferred"]
             t == IF r.stage = "method" THEN a ELSE r
  <2>1. Does(t) /\ h.frame = "idle"
    BY <1>10 DEF DeferredFires, OnStack
  <2>2. /\ Sound(r) /\ ~r.raised /\ r.status # "new" /\ r.frame = h.frame
        /\ r.eaten = h.eaten /\ InTurn(h, r)
        /\ ~r.finished => (r.writeFinished => r.status = "lost")
        /\ \/ r.stage = "method" /\ Tidy(r) /\ (~r.finished => r.state # "READ_HEADER")
           \/ r.stage = "done" /\ (r.want # NoRead => Tidy(r))
    BY <1>1, <2>1, StageDoneFacts
  <2> HIDE DEF r
  <2>3. r.eaten = 0 /\ r.frame = "idle"
    BY <1>1, <2>1, <2>2 DEF Steady
  <2>4. CASE r.stage = "method"
    <3>1. t = a
      BY <2>4
    <3>2. /\ DOMAIN a = HTTPFields /\ a.status = r.status /\ a.raised = r.raised
          /\ a.stage = r.stage /\ a.frame = "deferred"
          /\ SameTimers(r, a) /\ SameRequest(r, a) /\ SameRead(r, a)
          /\ SameSending(r, a) /\ SameOutline(r, a) /\ SameAmount(r, a)
          /\ a.finished = r.finished /\ a.buffered = r.buffered
          /\ a.headersWritten = r.headersWritten /\ a.length = r.length
          /\ a.code = r.code /\ a.flushes = r.flushes
      BY <2>2
      DEF Sound, Base, Types, HTTPFields, SameTimers, SameRequest, SameRead, SameSending,
          SameOutline, SameAmount
    <3> HIDE DEF a
    <3>3. Types(a) /\ Turn(a)
      BY <2>2, <3>2
      DEF Sound, Base, Types, Turn, Kind, SameTimers, SameRequest, SameRead, SameSending,
          SameOutline, SameAmount
    <3>4. Framed(a)
      BY <2>2, <3>2
      DEF Sound, Base, Framed, Blank, Budget, Kind, Omitted, Bodyless, SameRequest,
          SameRead, SameSending, SameOutline, SameAmount
    <3>5. Awake(a)
      BY <2>2, <3>2
      DEF Sound, Awake, Attended, Posted, Timed, Sends, EndsOnce, SameTimers,
          SameRequest, SameRead, SameSending, SameOutline
    <3>6. Settles(a)
      BY <2>2, <2>4, <3>2
      DEF Settles, Unfinished, Lives, Tidy, SameRead, SameOutline
    <3>7. Steady(a)
      BY <2>2, <2>3, <3>2, <3>3, <3>4, <3>5, <3>6 DEF Steady, Sound, Base, SameRequest
    <3>8. InTurn(h, a) /\ ~a.raised
      BY <2>2, <3>2 DEF InTurn, SameRequest, SameSending
    <3> HIDE DEF t
    <3> QED BY <2>1, <3>1, <3>7, <3>8, DoesSteady
  <2>5. CASE r.stage # "method"
    <3>1. t = r
      BY <2>5
    <3>2. Settles(r)
      BY <2>2, <2>3, <2>5 DEF Settles, Unfinished, Lives
    <3>3. Steady(r)
      BY <2>2, <2>3, <3>2 DEF Steady
    <3> HIDE DEF t
    <3> QED BY <2>1, <2>2, <3>1, <3>3, DoesSteady
  <2> QED BY <2>4, <2>5
<1> QED BY <1>2, <1>3, <1>4, <1>6, <1>7, <1>8, <1>9, <1>10, <1>11 DEF Handler

-----------------------------------------------------------------------------
(* What the reactor runs.                                                  *)
LEMMA RunsSteady ==
    ASSUME HTTPInv, NEW s, Runs(s), Steady(s), wire' \in Seq(Wires)
    PROVE  HTTPInv' /\ h' = s
<1>1. h' = s /\ script' = script /\ config' = config
  BY DEF Runs
<1>2. Steady(h)'
  BY <1>1, BecomesSteady
<1>3. wire' \in Seq(Wires)' /\ script' \in Scripts
  BY <1>1 DEF HTTPInv, Wires
<1> QED BY <1>1, <1>2, <1>3 DEF HTTPInv

LEMMA ConnectedSteady ==
    ASSUME HTTPInv, Connected
    PROVE  HTTPInv' /\ h.begun = 0
<1> DEFINE a == [h EXCEPT !.status = "open"]
           t == StartRequest(a)
<1>1. Steady(h) /\ Sound(h) /\ Types(h) /\ Turn(h) /\ Settles(h) /\ h.status = "new"
  BY DEF HTTPInv, Steady, Sound, Base, Connected
<1>2. Runs(t) /\ wire' \in Seq(Wires) /\ h.frame = "idle"
  BY DEF Connected, HTTPInv, Runs, OnStack
<1>3. /\ DOMAIN a = HTTPFields /\ a.status = "open" /\ a.raised = h.raised
      /\ SameTimers(h, a) /\ SameRequest(h, a) /\ SameRead(h, a)
      /\ SameSending(h, a) /\ SameOutline(h, a) /\ SameAmount(h, a) /\ SameHandler(h, a)
  BY <1>1
  DEF Types, HTTPFields, SameTimers, SameRequest, SameRead, SameSending, SameOutline,
      SameAmount, SameHandler
<1> HIDE DEF a
<1>4. Types(a)
  BY <1>1, <1>3
  DEF Types, SameTimers, SameRequest, SameRead, SameOutline, SameAmount, SameHandler
<1>5. a.want = NoRead /\ ~a.asserted /\ ~a.unsent /\ a.frame = "idle"
  BY <1>1, <1>2, <1>3 DEF Turn, Kind, SameRead, SameSending, SameHandler
<1>6. /\ Sound(t) /\ t.raised = a.raised /\ t.status = a.status /\ SameHandler(a, t)
      /\ t.eaten = a.eaten /\ ~t.writeFinished
  BY <1>3, <1>4, <1>5, StartRequestSound
<1> HIDE DEF t
<1>7. Settles(t)
  BY <1>1, <1>2, <1>3, <1>6 DEF Turn, Kind, Settles, Unfinished, Lives, Tidy, SameHandler
<1>8. Steady(t)
  BY <1>1, <1>2, <1>3, <1>6, <1>7 DEF Steady, SameRequest
<1> QED BY <1>1, <1>2, <1>8, RunsSteady DEF Turn

LEMMA DataReceivedSteady ==
    ASSUME HTTPInv, DataReceived
    PROVE  HTTPInv' /\ h'.begun = h.begun
<1>1. PICK n \in {1, Len(wire)} :
            /\ wire' = SubSeq(wire, n + 1, Len(wire))
            /\ Runs(ReadFromBuffer([h EXCEPT !.buffer = h.buffer \o SubSeq(wire, 1, n)]))
  BY DEF DataReceived
<1> DEFINE b == h.buffer \o SubSeq(wire, 1, n)
           a == [h EXCEPT !.buffer = b]
           t == ReadFromBuffer(a)
<1>2. Steady(h) /\ Sound(h) /\ Types(h) /\ Settles(h) /\ h.status = "open" /\ h.frame = "idle"
      /\ h.eaten = 0 /\ wire \in Seq(Wires) /\ script \in Scripts
  BY <1>1 DEF HTTPInv, Steady, Sound, Base, DataReceived, Open, Runs, OnStack
<1>3. n \in 1..Len(wire)
  BY <1>2 DEF DataReceived
<1>4. b \in Seq(Wires) /\ Len(b) >= Len(h.buffer) /\ SubSeq(wire, n + 1, Len(wire)) \in Seq(Wires)
  <2> DEFINE first == SubSeq(wire, 1, n)
  <2>1. h.buffer \in Seq(Wires) /\ wire \in Seq(Wires)
    BY <1>2 DEF Types
  <2>2. first \in Seq(Wires)
    BY <2>1, <1>3
  <2>3. SubSeq(wire, n + 1, Len(wire)) \in Seq(Wires)
    BY <2>1, <1>3
  <2> HIDE DEF first
  <2>4. h.buffer \o first \in Seq(Wires) /\ Len(h.buffer \o first) >= Len(h.buffer)
    BY <2>1, <2>2
  <2> QED BY <2>3, <2>4 DEF first
<1>5. Runs(t)
  BY <1>1
<1> HIDE DEF b
<1>6. /\ DOMAIN a = HTTPFields /\ a.status = h.status /\ a.raised = h.raised
      /\ a.readFinished = h.readFinished /\ a.req = h.req /\ a.begun = h.begun
      /\ a.bytesRead = h.bytesRead /\ a.bytesToRead = h.bytesToRead
      /\ a.buffer = b /\ a.eaten = h.eaten
      /\ SameTimers(h, a) /\ SameRead(h, a)
      /\ SameSending(h, a) /\ SameOutline(h, a) /\ SameAmount(h, a) /\ SameHandler(h, a)
  BY <1>2
  DEF Types, HTTPFields, SameTimers, SameRead, SameSending, SameOutline,
      SameAmount, SameHandler
<1> HIDE DEF a
<1>7. Types(a)
  BY <1>2, <1>4, <1>6
  DEF Types, SameTimers, SameRead, SameOutline, SameAmount, SameHandler
<1>8. Turn(a)
  BY <1>2, <1>6
  DEF Sound, Base, Turn, Kind, Lives, SameRead, SameSending, SameOutline, SameAmount,
      SameHandler
<1>9. Framed(a)
  BY <1>2, <1>6
  DEF Sound, Base, Framed, Blank, Budget, Kind, Omitted, Bodyless, SameRead,
      SameSending, SameOutline, SameAmount, SameHandler
<1>10. Sends(a) /\ EndsOnce(a) /\ Timed(a)
  BY <1>2, <1>6
  DEF Sound, Awake, Attended, Sends, EndsOnce, Timed, SameTimers, SameSending,
      SameOutline, SameHandler
<1>11. Settles(a) /\ ~a.raised /\ a.frame = "idle" /\ a.eaten = 0 /\ a.status # "new"
  BY <1>2, <1>6
  DEF Steady, Settles, Unfinished, Lives, Tidy, SameRead, SameOutline, SameHandler
<1>12. Steady(t) /\ t.begun = a.begun
  BY <1>2, <1>7, <1>8, <1>9, <1>10, <1>11, ReadFromBufferSteady DEF Core, Base
<1> HIDE DEF t
<1>13. HTTPInv' /\ h' = t
  BY <1>1, <1>4, <1>5, <1>12, RunsSteady
<1> QED BY <1>6, <1>12, <1>13

LEMMA PostedReadSteady ==
    ASSUME HTTPInv, PostedRead
    PROVE  HTTPInv' /\ h'.begun = h.begun
<1> DEFINE a == [h EXCEPT !.posted = h.posted - 1]
           t == ReadFromBuffer(a)
<1>1. Runs(t) /\ wire' \in Seq(Wires)
  BY DEF PostedRead, HTTPInv
<1>2. Steady(h) /\ Sound(h) /\ Types(h) /\ Settles(h) /\ h.frame = "idle"
      /\ h.eaten = 0 /\ script \in Scripts /\ h.posted > 0 /\ h.status # "new"
  BY <1>1 DEF HTTPInv, Steady, Sound, Base, Turn, PostedRead, Runs, OnStack
<1>3. /\ DOMAIN a = HTTPFields /\ a.status = h.status /\ a.raised = h.raised
      /\ a.want = h.want /\ a.state = h.state /\ a.posted = h.posted - 1
      /\ a.asserted = h.asserted
      /\ SameTimers(h, a) /\ SameRequest(h, a)
      /\ SameSending(h, a) /\ SameOutline(h, a) /\ SameAmount(h, a) /\ SameHandler(h, a)
  BY <1>2
  DEF Types, HTTPFields, SameTimers, SameRequest, SameSending, SameOutline,
      SameAmount, SameHandler
<1> HIDE DEF a
<1>4. Types(a)
  BY <1>2, <1>3
  DEF Types, SameTimers, SameRequest, SameOutline, SameAmount, SameHandler
<1>5. Turn(a)
  BY <1>2, <1>3
  DEF Sound, Base, Turn, Kind, Lives, SameRequest, SameSending, SameOutline, SameAmount,
      SameHandler
<1>6. Framed(a)
  BY <1>2, <1>3
  DEF Sound, Base, Framed, Blank, Budget, Kind, Omitted, Bodyless, SameRequest,
      SameSending, SameOutline, SameAmount, SameHandler
<1>7. Sends(a) /\ EndsOnce(a) /\ Timed(a)
  BY <1>2, <1>3
  DEF Sound, Awake, Attended, Sends, EndsOnce, Timed, SameTimers, SameRequest,
      SameSending, SameOutline, SameHandler
<1>8. Settles(a) /\ ~a.raised /\ a.frame = "idle" /\ a.eaten = 0 /\ a.status # "new"
  BY <1>2, <1>3
  DEF Steady, Settles, Unfinished, Lives, Tidy, SameRequest, SameOutline, SameHandler
<1>9. Steady(t) /\ t.begun = a.begun
  BY <1>2, <1>4, <1>5, <1>6, <1>7, <1>8, ReadFromBufferSteady DEF Core, Base
<1> HIDE DEF t
<1>10. HTTPInv' /\ h' = t
  BY <1>1, <1>9, RunsSteady
<1> QED BY <1>3, <1>9, <1>10 DEF SameRequest

LEMMA WriteDoneSteady ==
    ASSUME HTTPInv, WriteDoneHTTP
    PROVE  HTTPInv' /\ InTurn(h, h')
<1> DEFINE a == [h EXCEPT !.unsent = FALSE, !.streamCallback = FALSE]
           c == [a EXCEPT !.pendingWrite = FALSE]
           f == FinishRequest(c)
           t == IF h.streamCallback THEN OnWriteComplete(a) ELSE a
<1>1. Runs(t) /\ wire' \in Seq(Wires)
  BY DEF WriteDoneHTTP, HTTPInv
<1>2. Steady(h) /\ Sound(h) /\ Types(h) /\ Settles(h) /\ h.frame = "idle"
      /\ h.eaten = 0 /\ h.status = "open" /\ ~h.raised /\ h.unsent
  BY <1>1 DEF HTTPInv, Steady, Sound, Base, WriteDoneHTTP, Open, Runs, OnStack
<1>3. t = IF h.streamCallback THEN (IF c.writeFinished THEN f ELSE c) ELSE a
  BY DEF OnWriteComplete
<1>4. /\ DOMAIN a = HTTPFields /\ a.status = h.status /\ a.raised = h.raised
      /\ SameTimers(h, a) /\ SameRequest(h, a) /\ SameRead(h, a)
      /\ SameOutline(h, a) /\ SameAmount(h, a) /\ SameHandler(h, a)
      /\ ~a.unsent /\ ~a.streamCallback /\ a.pendingWrite = h.pendingWrite
  BY <1>2
  DEF Types, HTTPFields, SameTimers, SameRequest, SameRead, SameOutline, SameAmount,
      SameHandler
<1> HIDE DEF a
<1>5. /\ DOMAIN c = HTTPFields /\ c.status = a.status /\ c.raised = a.raised
      /\ SameTimers(a, c) /\ SameRequest(a, c) /\ SameRead(a, c)
      /\ SameOutline(a, c) /\ SameAmount(a, c) /\ SameHandler(a, c)
      /\ c.unsent = a.unsent /\ ~c.pendingWrite
  BY <1>4
  DEF HTTPFields, SameTimers, SameRequest, SameRead, SameOutline, SameAmount, SameHandler
<1> HIDE DEF c
<1>6. ASSUME NEW b, DOMAIN b = HTTPFields, b.status = h.status, b.raised = h.raised,
             SameTimers(h, b), SameRequest(h, b), SameRead(h, b),
             SameOutline(h, b), SameAmount(h, b), SameHandler(h, b),
             ~b.unsent, b.pendingWrite = h.pendingWrite \/ ~b.pendingWrite
      PROVE  /\ Base(b) /\ Settles(b) /\ b.begun = h.begun /\ b.eaten = 0
             /\ b.readFinished = h.readFinished /\ b.want = h.want
             /\ (b.writeFinished => b.pendingWrite) => Sound(b)
  <2>1. Types(b)
    BY <1>2, <1>6
    DEF Types, SameTimers, SameRequest, SameRead, SameOutline, SameAmount, SameHandler
  <2>2. Turn(b)
    BY <1>2, <1>6
    DEF Sound, Base, Turn, Kind, Lives, SameRequest, SameRead, SameOutline, SameAmount,
        SameHandler
  <2>3. Framed(b)
    BY <1>2, <1>6
    DEF Sound, Base, Framed, Blank, Budget, Kind, Omitted, Bodyless, SameRequest,
        SameRead, SameOutline, SameAmount, SameHandler
  <2>4. Settles(b)
    BY <1>2, <1>6
    DEF Settles, Unfinished, Lives, Tidy, SameRead, SameOutline, SameHandler
  <2>5. (b.writeFinished => b.pendingWrite) => Awake(b)
    BY <1>2, <1>6
    DEF Sound, Awake, Attended, Posted, Timed, Sends, EndsOnce, SameTimers, SameRequest,
        SameRead, SameOutline, SameHandler
  <2> QED BY <1>2, <1>6, <2>1, <2>2, <2>3, <2>4, <2>5
  DEF Sound, Base, SameRequest, SameRead
<1>7. Base(a) /\ Settles(a) /\ a.begun = h.begun /\ a.eaten = 0
      /\ ((a.writeFinished => a.pendingWrite) => Sound(a))
  BY <1>4, <1>6
<1>8. /\ DOMAIN c = HTTPFields /\ c.status = h.status /\ c.raised = h.raised
      /\ SameTimers(h, c) /\ SameRequest(h, c) /\ SameRead(h, c)
      /\ SameOutline(h, c) /\ SameAmount(h, c) /\ SameHandler(h, c)
      /\ ~c.unsent /\ ~c.pendingWrite
  BY <1>4, <1>5
  DEF SameTimers, SameRequest, SameRead, SameOutline, SameAmount, SameHandler
<1>9. Base(c) /\ Settles(c) /\ c.begun = h.begun /\ c.eaten = 0
      /\ c.readFinished = h.readFinished /\ c.want = h.want
      /\ ((c.writeFinished => c.pendingWrite) => Sound(c))
  BY <1>6, <1>8
<1>10. CASE ~h.streamCallback
  <2>1. t = a
    BY <1>3, <1>10
  <2>2. a.writeFinished => a.pendingWrite
    BY <1>2, <1>4 DEF Sound, Awake, Attended, Sends, SameOutline
  <2>3. Steady(a)
    BY <1>2, <1>4, <1>7, <2>2 DEF Steady
  <2> HIDE DEF t
  <2> QED BY <1>1, <1>7, <2>1, <2>3, RunsSteady DEF InTurn
<1>11. CASE h.streamCallback /\ ~c.writeFinished
  <2>1. t = c
    BY <1>3, <1>11
  <2>2. Steady(c)
    BY <1>2, <1>8, <1>9, <1>11 DEF Steady
  <2> HIDE DEF t
  <2> QED BY <1>1, <1>9, <2>1, <2>2, RunsSteady DEF InTurn
<1>12. CASE h.streamCallback /\ c.writeFinished
  <2>1. t = f
    BY <1>3, <1>12
  <2>2. /\ Sound(f) /\ f.raised = c.raised /\ SameHandler(c, f)
        /\ f.status # "new" /\ (Stays(c, f) \/ Begins(c, f))
    BY <1>2, <1>8, <1>9, <1>12, FinishRequestSound
  <2> HIDE DEF f, t
  <2>3. c.finished /\ c.status = "open" /\ c.frame = "idle"
    BY <1>2, <1>8, <1>9, <1>12 DEF Settles, Unfinished, SameHandler
  <2>4. f.finished /\ f.frame = "idle" /\ f.eaten = 0
    BY <1>9, <2>2, <2>3 DEF SameHandler, Stays, Begins
  <2>5. Settles(f)
    BY <2>2, <2>4 DEF Settles, Tidy
  <2>6. Steady(f)
    BY <1>2, <1>8, <2>2, <2>4, <2>5 DEF Steady
  <2>7. InTurn(h, f)
    BY <1>9, <2>2 DEF Stays, Begins, InTurn
  <2> QED BY <1>1, <2>1, <2>6, <2>7, RunsSteady
<1> QED BY <1>10, <1>11, <1>12

(* Timers: one of them is left, or its handler.                            *)
LEMMA TimersSteady ==
    ASSUME NEW s, NEW t, Steady(s), DOMAIN t = HTTPFields, t.raised = s.raised,
           t.status = s.status, SameRequest(s, t), SameRead(s, t), SameResponse(s, t),
           SameHandler(s, t), t.stray \in Nat, t.due \in Nat
    PROVE  /\ Base(t) /\ Settles(t) /\ ~t.raised /\ t.begun = s.begun
           /\ t.frame \in {"idle", "deferred"} => t.eaten = 0
           /\ t.due > 0 => Steady(t)
<1>1. Types(t)
  BY
  DEF Steady, Sound, Base, Types, SameRequest, SameRead, SameResponse, SameOutline,
      SameAmount,
         SameHandler
<1>2. Turn(t)
  BY DEF Steady, Sound, Base, Turn, Kind, Lives, SameRequest, SameRead, SameResponse,
         SameSending, SameOutline, SameAmount, SameHandler
<1>3. Framed(t)
  BY
  DEF Steady, Sound, Base, Framed, Blank, Budget, Kind, Omitted, Bodyless, SameRequest,
      SameRead, SameResponse, SameSending, SameOutline, SameAmount, SameHandler
<1>4. t.due > 0 => Awake(t)
  BY
  DEF Steady, Sound, Awake, Attended, Posted, Timed, Sends, EndsOnce, SameRequest,
      SameRead, SameResponse, SameSending, SameOutline, SameHandler
<1>5. Settles(t)
  BY DEF Steady, Settles, Unfinished, Lives, Tidy, SameRead, SameResponse, SameOutline,
         SameHandler
<1> QED BY <1>1, <1>2, <1>3, <1>4, <1>5
        DEF Steady, Sound, Base, SameRequest, SameHandler

LEMMA TimerExpiresSteady ==
    ASSUME HTTPInv, TimerExpires
    PROVE  HTTPInv' /\ h'.begun = h.begun
<1>1. Steady(h) /\ Types(h) /\ wire' \in Seq(Wires)
  BY DEF TimerExpires, HTTPInv, Steady, Sound, Base
<1>2. CASE \E x \in {"header", "body"} :
              h[x] /\ Runs([h EXCEPT ![x] = FALSE, !.due = h.due + 1])
  <2>1. PICK x \in {"header", "body"} : Runs([h EXCEPT ![x] = FALSE, !.due = h.due + 1])
    BY <1>2
  <2> DEFINE t == [h EXCEPT ![x] = FALSE, !.due = h.due + 1]
  <2>2. Runs(t)
    BY <2>1
  <2>3. /\ DOMAIN t = HTTPFields /\ t.raised = h.raised /\ t.status = h.status
        /\ t.due = h.due + 1 /\ t.stray = h.stray
        /\ SameRequest(h, t) /\ SameRead(h, t) /\ SameResponse(h, t) /\ SameHandler(h, t)
    <3>1. CASE x = "header"
      BY <1>1, <3>1
      DEF Types, HTTPFields, SameRequest, SameRead, SameResponse, SameSending,
          SameOutline, SameAmount, SameHandler
    <3>2. CASE x = "body"
      BY <1>1, <3>2
      DEF Types, HTTPFields, SameRequest, SameRead, SameResponse, SameSending,
          SameOutline, SameAmount, SameHandler
    <3> QED BY <3>1, <3>2
  <2> HIDE DEF t
  <2>4. t.due \in Nat /\ t.due > 0 /\ t.stray \in Nat
    <3>1. h.due \in Nat /\ h.stray \in Nat
      BY <1>1 DEF Types
    <3> QED BY <2>3, <3>1
  <2>5. Steady(t) /\ t.begun = h.begun
    BY <1>1, <2>3, <2>4, TimersSteady
  <2> QED BY <1>1, <2>2, <2>5, RunsSteady
<1>3. CASE h.stray > 0 /\ Runs([h EXCEPT !.stray = h.stray - 1, !.due = h.due + 1])
  <2> DEFINE t == [h EXCEPT !.stray = h.stray - 1, !.due = h.due + 1]
  <2>1. Runs(t) /\ h.stray \in Nat /\ h.stray > 0 /\ h.due \in Nat
    BY <1>1, <1>3 DEF Types
  <2>2. /\ DOMAIN t = HTTPFields /\ t.raised = h.raised /\ t.status = h.status
        /\ t.due = h.due + 1 /\ t.stray = h.stray - 1
        /\ SameRequest(h, t) /\ SameRead(h, t) /\ SameResponse(h, t) /\ SameHandler(h, t)
    BY <1>1
    DEF Types, HTTPFields, SameRequest, SameRead, SameResponse, SameSending, SameOutline,
        SameAmount, SameHandler
  <2> HIDE DEF t
  <2>3. t.due \in Nat /\ t.due > 0 /\ t.stray \in Nat
    BY <2>1, <2>2
  <2>4. Steady(t) /\ t.begun = h.begun
    BY <1>1, <2>2, <2>3, TimersSteady
  <2> QED BY <1>1, <2>1, <2>4, RunsSteady
<1> QED BY <1>2, <1>3 DEF TimerExpires

LEMMA TimeoutRunsSteady ==
    ASSUME HTTPInv, TimeoutRuns
    PROVE  HTTPInv' /\ h'.begun = h.begun
<1> DEFINE a == [h EXCEPT !.due = h.due - 1]
           t == CloseHTTP(a)
<1>1. Steady(h) /\ Types(h) /\ wire' \in Seq(Wires) /\ h.due > 0 /\ Runs(t)
  BY DEF TimeoutRuns, HTTPInv, Steady, Sound, Base
<1>2. /\ DOMAIN a = HTTPFields /\ a.raised = h.raised /\ a.status = h.status
      /\ a.due = h.due - 1 /\ a.stray = h.stray
      /\ SameRequest(h, a) /\ SameRead(h, a) /\ SameResponse(h, a) /\ SameHandler(h, a)
  BY <1>1
  DEF Types, HTTPFields, SameRequest, SameRead, SameResponse, SameSending, SameOutline,
      SameAmount, SameHandler
<1> HIDE DEF a
<1>3. a.due \in Nat /\ a.stray \in Nat
  <2>1. h.due \in Nat /\ h.stray \in Nat
    BY <1>1 DEF Types
  <2> QED BY <1>1, <1>2, <2>1
<1>4. Base(a) /\ Settles(a) /\ ~a.raised /\ a.begun = h.begun
      /\ (a.frame \in {"idle", "deferred"} => a.eaten = 0)
  BY <1>1, <1>2, <1>3, TimersSteady
<1>5. Steady(t) /\ t.begun = a.begun
  BY <1>4, CloseSteady
<1> HIDE DEF t
<1> QED BY <1>1, <1>4, <1>5, RunsSteady

LEMMA DisconnectedSteady ==
    ASSUME HTTPInv, Disconnected
    PROVE  HTTPInv' /\ h'.begun = h.begun
<1> DEFINE c == ClearCallbacks(h)
           t == [c EXCEPT !.status = "lost", !.unsent = FALSE]
<1>1. /\ Steady(h) /\ Sound(h) /\ Types(h) /\ Settles(h) /\ wire' \in Seq(Wires) /\ Runs(t)
      /\ h.frame = "idle" /\ h.eaten = 0
  BY DEF Disconnected, HTTPInv, Steady, Sound, Base, Runs, OnStack
<1>2. /\ DOMAIN c = HTTPFields /\ c.raised = h.raised
      /\ SameTimers(h, c) /\ SameRequest(h, c) /\ SameRead(h, c)
      /\ SameResponse(h, c) /\ SameHandler(h, c)
  BY <1>1, ClearFacts DEF Types
<1> HIDE DEF c
<1>3. /\ DOMAIN t = HTTPFields /\ t.raised = c.raised /\ t.status = "lost"
      /\ SameTimers(c, t) /\ SameRequest(c, t) /\ SameRead(c, t)
      /\ SameOutline(c, t) /\ SameAmount(c, t) /\ SameHandler(c, t)
      /\ ~t.unsent /\ t.pendingWrite = c.pendingWrite
  BY <1>2
  DEF HTTPFields, SameTimers, SameRequest, SameRead, SameOutline, SameAmount, SameHandler
<1> HIDE DEF t
<1>4. /\ t.raised = h.raised
      /\ SameTimers(h, t) /\ SameRequest(h, t) /\ SameRead(h, t)
      /\ SameOutline(h, t) /\ SameAmount(h, t) /\ SameHandler(h, t)
      /\ t.pendingWrite = h.pendingWrite
  BY <1>2, <1>3
  DEF SameTimers, SameRequest, SameRead, SameResponse, SameSending, SameOutline,
      SameAmount, SameHandler
<1>5. Types(t) /\ Turn(t)
  BY <1>1, <1>3, <1>4
  DEF Sound, Base, Types, Turn, Kind, Lives, SameTimers, SameRequest, SameRead,
      SameOutline, SameAmount, SameHandler
<1>6. Framed(t)
  BY <1>1, <1>4
  DEF Sound, Base, Framed, Blank, Budget, Kind, Omitted, Bodyless, SameRequest,
      SameRead, SameOutline, SameAmount, SameHandler
<1>7. Awake(t)
  BY <1>3 DEF Awake, Attended, Posted, Timed, Sends, EndsOnce
<1>8. Settles(t)
  BY <1>1, <1>3, <1>4
  DEF Settles, Unfinished, Lives, Tidy, SameRead, SameOutline, SameHandler
<1>9. Steady(t) /\ t.begun = h.begun
  BY <1>1, <1>4, <1>5, <1>6, <1>7, <1>8 DEF Steady, Sound, Base, SameRequest
<1> QED BY <1>1, <1>9, RunsSteady

-----------------------------------------------------------------------------
(* The initial states: what the client sends is typed.                     *)
LEMMA FlattenTyped ==
    ASSUME NEW S, NEW seqs \in Seq(Seq(S))
    PROVE  FlattenSeq(seqs) \in Seq(S)
<1> DEFINE n == Len(seqs)
           B(f, m) == [i \in 1..m |-> IF i = 1 THEN seqs[i] ELSE f[i - 1] \o seqs[i]]
           D(f, m) == f = B(f, m)
           flatten == CHOOSE f : D(f, n)
<1>1. n \in Nat /\ \A i \in 1..n : seqs[i] \in Seq(S)
  OBVIOUS
<1>2. CASE n = 0
  <2>1. FlattenSeq(seqs) = seqs
    BY <1>2 DEF FlattenSeq
  <2>2. seqs = << >>
    BY <1>2
  <2> QED BY <2>1, <2>2
<1>3. CASE n # 0
  <2>1. FlattenSeq(seqs) = flatten[n]
    BY <1>3, Zenon DEF FlattenSeq
  <2> HIDE DEF n
  <2>2. n >= 1
    BY <1>1, <1>3
  <2>3. \E f : D(f, n)
    <3> DEFINE P(m) == \E f : D(f, m)
               T == {m \in 1..n : ~P(m)}
    <3> HIDE DEF P
    <3>1. SUFFICES ASSUME T # {} PROVE FALSE
      <4>1. n \in 1..n
        BY <1>1, <2>2
      <4>2. T = {} => P(n)
        BY <4>1
      <4> QED BY <4>2 DEF P
    <3>2. PICK m \in T : \A y \in T : m <= y
      <4>1. T \subseteq Nat /\ T # {}
        BY <1>1, <3>1
      <4> HIDE DEF T
      <4> QED BY <4>1, LeastNat
    <3>3. m \in 1..n /\ ~P(m)
      BY <3>2
    <3>4. CASE m = 1
      <4> DEFINE f == [i \in 1..1 |-> seqs[i]]
      <4>1. D(f, 1)
        OBVIOUS
      <4>2. P(1)
        BY <4>1 DEF P
      <4> QED BY <3>3, <3>4, <4>2
    <3>5. CASE m # 1
      <4>1. P(m - 1)
        <5>1. m - 1 \in 1..n /\ ~(m <= m - 1)
          BY <1>1, <3>3, <3>5
        <5> QED BY <3>2, <5>1
      <4>2. PICK g : D(g, m - 1)
        BY <4>1 DEF P
      <4> DEFINE f == [i \in 1..m |-> IF i = m THEN g[m - 1] \o seqs[m] ELSE g[i]]
      <4>3. ASSUME NEW i \in 1..m
            PROVE  f[i] = IF i = 1 THEN seqs[i] ELSE f[i - 1] \o seqs[i]
        <5>1. CASE i = m
          <6>1. i # 1 /\ m - 1 \in 1..m /\ m - 1 # m
            BY <3>3, <3>5, <5>1
          <6>2. f[i] = g[m - 1] \o seqs[m] /\ f[m - 1] = g[m - 1]
            BY <5>1, <6>1
          <6> HIDE DEF f
          <6> QED BY <5>1, <6>1, <6>2
        <5>2. CASE i # m
          <6>1. i \in 1..(m - 1) /\ (i # 1 => i - 1 \in 1..m /\ i - 1 # m)
            BY <3>3, <5>2
          <6>2. f[i] = g[i] /\ (i # 1 => f[i - 1] = g[i - 1])
            BY <5>2, <6>1
          <6> HIDE DEF f
          <6>3. B(g, m - 1)[i] = IF i = 1 THEN seqs[i] ELSE g[i - 1] \o seqs[i]
            BY <6>1
          <6>4. g = B(g, m - 1)
            BY <4>2
          <6>5. g[i] = B(g, m - 1)[i]
            BY <6>4
          <6> QED BY <6>2, <6>3, <6>5
        <5> QED BY <5>1, <5>2
      <4>4. DOMAIN f = 1..m /\ f = [i \in 1..m |-> f[i]]
        OBVIOUS
      <4> HIDE DEF f
      <4>5. f = B(f, m)
        BY <4>3, <4>4
      <4>6. P(m)
        BY <4>5 DEF P
      <4> QED BY <3>3, <4>6
    <3> QED BY <3>4, <3>5
  <2>4. D(flatten, n)
    <3> HIDE DEF D
    <3> QED BY <2>3, Zenon
  <2> HIDE DEF flatten
  <2>5. ASSUME NEW i \in 1..n
        PROVE  flatten[i] = IF i = 1 THEN seqs[i] ELSE flatten[i - 1] \o seqs[i]
    <3>1. B(flatten, n)[i] = IF i = 1 THEN seqs[i] ELSE flatten[i - 1] \o seqs[i]
      OBVIOUS
    <3>2. flatten[i] = B(flatten, n)[i]
      BY <2>4
    <3> QED BY <3>1, <3>2
  <2>6. \A i \in 1..n : flatten[i] \in Seq(S)
    <3> DEFINE T == {m \in 1..n : flatten[m] \notin Seq(S)}
    <3>1. SUFFICES ASSUME T # {} PROVE FALSE
      OBVIOUS
    <3>2. PICK m \in T : \A y \in T : m <= y
      <4>1. T \subseteq Nat /\ T # {}
        BY <3>1
      <4> HIDE DEF T
      <4> QED BY <4>1, LeastNat
    <3>3. m \in 1..n /\ flatten[m] \notin Seq(S) /\ seqs[m] \in Seq(S)
      BY <1>1, <3>2
    <3>4. m # 1 => flatten[m - 1] \in Seq(S)
      <4> HAVE m # 1
      <4>1. m - 1 \in 1..n /\ ~(m <= m - 1)
        BY <1>1, <3>3
      <4> QED BY <3>2, <4>1
    <3>5. flatten[m] = IF m = 1 THEN seqs[m] ELSE flatten[m - 1] \o seqs[m]
      BY <2>5, <3>3
    <3> HIDE DEF T
    <3>6. CASE m = 1
      BY <3>3, <3>5, <3>6
    <3>7. CASE m # 1
      <4>1. flatten[m - 1] \o seqs[m] \in Seq(S)
        BY <3>3, <3>4, <3>7, ConcatProperties
      <4> QED BY <3>3, <3>5, <3>7, <4>1
    <3> QED BY <3>6, <3>7
  <2> QED BY <1>1, <2>1, <2>2, <2>6
<1> QED BY <1>2, <1>3

LEMMA OctetsTyped ==
    ASSUME script \in Scripts, NEW i \in 1..Len(script)
    PROVE  Octets(i, script[i]) \in Seq(Wires)
<1> DEFINE k == script[i]
           data(n) == [j \in 1..n |-> <<"body", i>>]
           head == << <<"head", i>>, <<"end", i>> >>
           one == << <<"len", 1>> >>
           zero == << <<"len", 0>> >>
           chunk == one \o Line \o data(1) \o Line \o zero \o Line \o Line
           body == CASE k.body = "chunked" -> chunk
                     [] k.body \in {"none", "both"} -> << >>
                     [] OTHER -> data(k.length)
<1>1. Octets(i, k) = head \o body
  BY DEF Octets
<1>2. /\ <<"head", i>> \in Wires /\ <<"end", i>> \in Wires /\ <<"body", i>> \in Wires
      /\ <<"cr", 0>> \in Wires /\ <<"lf", 0>> \in Wires
      /\ <<"len", 0>> \in Wires /\ <<"len", 1>> \in Wires
  <2>1. ASSUME NEW x \in Names, NEW y \in Int,
               x = "head" => y \in 1..Len(script), x = "len" => y \in Nat
        PROVE  <<x, y>> \in Wires
    <3>1. <<x, y>> \in Names \X Int /\ <<x, y>>[1] = x /\ <<x, y>>[2] = y
      OBVIOUS
    <3> QED BY <2>1, <3>1 DEF Wires
  <2>2. i \in Int
    OBVIOUS
  <2> QED BY <2>1, <2>2 DEF Names
<1>3. head \in Seq(Wires) /\ one \in Seq(Wires) /\ zero \in Seq(Wires) /\ Line \in Seq(Wires)
  BY <1>2 DEF Line
<1>4. \A n \in Nat : data(n) \in Seq(Wires)
  BY <1>2, IsASeq
<1>5. k.length \in Nat
  BY KindsTyped
<1> HIDE DEF data, head, one, zero, k
<1>6. chunk \in Seq(Wires)
  <2>1. data(1) \in Seq(Wires)
    BY <1>4
  <2> QED BY <1>3, <2>1
<1>7. data(k.length) \in Seq(Wires)
  BY <1>4, <1>5
<1> HIDE DEF chunk
<1>8. body \in Seq(Wires)
  <2>1. body = chunk \/ body = << >> \/ body = data(k.length)
    <3>1. CASE k.body = "chunked"
      BY <3>1, Zenon
    <3>2. CASE k.body # "chunked" /\ k.body \in {"none", "both"}
      BY <3>2, Zenon
    <3>3. CASE k.body # "chunked" /\ k.body \notin {"none", "both"}
      BY <3>3, Zenon
    <3> QED BY <3>1, <3>2, <3>3, Zenon
  <2>2. << >> \in Seq(Wires)
    OBVIOUS
  <2> HIDE DEF body
  <2> QED BY <1>6, <1>7, <2>1, <2>2
<1> HIDE DEF body
<1>9. head \o body \in Seq(Wires)
  BY <1>3, <1>8
<1> QED BY <1>1, <1>9 DEF k

LEMMA InitSteady ==
    ASSUME HTTPInit
    PROVE  HTTPInv
<1>1. script \in Scripts
  BY DEF HTTPInit
<1>2. wire \in Seq(Wires)
  <2> DEFINE seqs == [i \in 1..Len(script) |-> Octets(i, script[i])]
  <2>1. Len(script) \in Nat
    BY <1>1, HTTPAssumption
  <2>2. \A i \in 1..Len(script) : Octets(i, script[i]) \in Seq(Wires)
    BY <1>1, OctetsTyped
  <2>3. seqs \in Seq(Seq(Wires))
    BY <2>1, <2>2, IsASeq
  <2>4. wire = FlattenSeq(seqs)
    BY DEF HTTPInit
  <2> HIDE DEF seqs
  <2> QED BY <2>3, <2>4, FlattenTyped
<1>3. DOMAIN h = HTTPFields
  BY DEF HTTPInit, HTTPFields
<1>4. /\ h.status = "new" /\ h.state = "READ_NONE" /\ h.buffer = << >> /\ h.eaten = 0
      /\ h.want = NoRead /\ h.posted = 0 /\ h.frame = "idle" /\ ~h.raised
      /\ h.bytesRead = 0 /\ h.bytesToRead = 0
      /\ ~h.readFinished /\ ~h.writeFinished /\ ~h.pendingWrite /\ ~h.unsent
      /\ ~h.chunkingOutput /\ h.expected = NoLength /\ h.stray = 0 /\ h.due = 0
      /\ h.stage = "none" /\ ~h.headersWritten /\ ~h.finished /\ h.buffered = 0
      /\ h.length = NoLength /\ h.code = "ok" /\ h.flushes = 0 /\ h.begun = 0
      /\ h.heads = 0
      /\ h.sent = 0 /\ h.ends = 0 /\ ~h.asserted
  BY DEF HTTPInit
<1>5. Types(h)
  BY <1>3, <1>4 DEF Types, NoRead, Kinds
<1>6. Turn(h)
  BY <1>4 DEF Turn, Lives
<1>7. Framed(h)
  BY <1>4 DEF Framed, Blank, NoLength
<1>8. Awake(h)
  BY <1>4 DEF Awake, Attended, Posted, Timed, Sends, EndsOnce
<1>9. Settles(h)
  BY <1>4 DEF Settles, Unfinished, Lives, Tidy, NoLength
<1> QED BY <1>1, <1>2, <1>4, <1>5, <1>6, <1>7, <1>8, <1>9 DEF HTTPInv, Steady, Sound, Base

-----------------------------------------------------------------------------
(* The inductive invariant, and what follows from it.                      *)
LEMMA NextSteady ==
    ASSUME HTTPInv, [HTTPNext]_httpVars
    PROVE  HTTPInv' /\ (h.begun > 0 => InTurn(h, h'))
<1>1. CASE Handler
  BY <1>1, HandlerSteady
<1>2. CASE Connected
  BY <1>2, ConnectedSteady
<1>3. CASE DataReceived
  BY <1>3, DataReceivedSteady DEF InTurn
<1>4. CASE PostedRead
  BY <1>4, PostedReadSteady DEF InTurn
<1>5. CASE WriteDoneHTTP
  BY <1>5, WriteDoneSteady
<1>6. CASE TimerExpires
  BY <1>6, TimerExpiresSteady DEF InTurn
<1>7. CASE TimeoutRuns
  BY <1>7, TimeoutRunsSteady DEF InTurn
<1>8. CASE Disconnected
  BY <1>8, DisconnectedSteady DEF InTurn
<1>9. CASE UNCHANGED httpVars
  <2>1. h' = h /\ script' = script /\ config' = config /\ wire' = wire
    BY <1>9 DEF httpVars
  <2>2. Steady(h)'
    BY <2>1, BecomesSteady DEF HTTPInv
  <2>3. wire' \in Seq(Wires)' /\ script' \in Scripts
    BY <2>1 DEF HTTPInv, Wires
  <2> QED BY <2>1, <2>2, <2>3 DEF HTTPInv, InTurn
<1> QED BY <1>1, <1>2, <1>3, <1>4, <1>5, <1>6, <1>7, <1>8, <1>9 DEF HTTPNext

LEMMA HTTPInvariant == HTTPSpec => []HTTPInv
<1>1. HTTPInit => HTTPInv
  BY InitSteady
<1>2. HTTPInv /\ [HTTPNext]_httpVars => HTTPInv'
  BY NextSteady
<1> QED BY <1>1, <1>2, PTL DEF HTTPSpec

(* A finished response has one header block, and the body its length says  *)
(* or one end of its chunks, however flush, finish, writes and exceptions  *)
(* of the handler mix: formatChunk counts down what was promised.          *)
THEOREM ResponsesAreFramed == HTTPSpec => []ResponseFramed
<1>1. HTTPInv => ResponseFramed
  <2> SUFFICES ASSUME HTTPInv, h.writeFinished PROVE ResponseFramed
    BY DEF ResponseFramed
  <2>1. Types(h) /\ Framed(h)
    BY DEF HTTPInv, Steady, Sound, Base
  <2>2. h.headersWritten /\ h.state # "READ_HEADER"
    BY <2>1 DEF Framed, Blank
  <2>3. Budget(h) /\ h.expected <= 0 /\ (h.chunkingOutput => h.ends = 1)
    BY <2>1, <2>2 DEF Framed
  <2>4. h.heads = 1 /\ (Omitted(h) \/ (Bodyless(h) /\ h.flushes = 0) => h.sent = 0)
    BY <2>3 DEF Budget
  <2>5. ~Omitted(h) /\ h.length # NoLength => h.sent = h.length
    BY <2>1, <2>3 DEF Budget, Types, NoLength
  <2>6. h.ends = IF ~Bodyless(h) /\ h.length = NoLength /\ Kind(h).version = "1.1"
                 THEN 1 ELSE 0
    BY <2>3 DEF Budget
  <2> QED BY <2>4, <2>5, <2>6 DEF ResponseFramed
<1> QED BY <1>1, HTTPInvariant, PTL

(* An open connection that runs no callback has something to go on with: a *)
(* posted read, a timer, or the completion of its last write.              *)
THEOREM ConnectionGoesOn == HTTPSpec => []NothingStalls
<1>1. HTTPInv => NothingStalls
  <2> SUFFICES ASSUME HTTPInv, h.status = "open", h.frame = "idle" PROVE NothingStalls
    BY DEF NothingStalls, Open, OnStack
  <2>1. Types(h) /\ Posted(h) /\ Timed(h) /\ Sends(h) /\ h.eaten = 0
    BY DEF HTTPInv, Steady, Sound, Base, Awake, Attended
  <2>2. FindReadPos(h.want, h.buffer) > 0 => Satisfied(h.want, h.buffer)
    BY <2>1, FindReadPosFinds DEF Types
  <2>3. SubSeq(h.buffer, h.eaten + 1, Len(h.buffer)) = h.buffer
    <3>1. h.eaten + 1 = 1
      BY <2>1
    <3> QED BY <2>1, <3>1 DEF Types
  <2>4. Satisfied(h.want, h.buffer) => h.posted > 0
    <3> DEFINE c == SubSeq(h.buffer, h.eaten + 1, Len(h.buffer))
    <3>1. Satisfied(h.want, c) => h.posted > 0
      BY <2>1 DEF Posted
    <3>2. c = h.buffer
      BY <2>3
    <3> HIDE DEF c
    <3> QED BY <3>1, <3>2
  <2>5. config.timeouts /\ ~h.readFinished => h.header \/ h.body \/ h.stray > 0 \/ h.due > 0
    BY <2>1 DEF Timed
  <2>6. h.writeFinished /\ ~EmptyTail => h.unsent /\ h.streamCallback
    BY <2>1 DEF Sends, EmptyTail
  <2> QED BY <2>2, <2>4, <2>5, <2>6 DEF NothingStalls
<1> QED BY <1>1, HTTPInvariant, PTL

(* The next request is begun when the body of this one has been read and   *)
(* its response has left, and no read is asked for behind a pending one.   *)
THEOREM RequestsTakeTurns == HTTPSpec => RequestsInTurn
<1> DEFINE A == /\ h.begun > 0 /\ h'.begun > h.begun =>
                        h.readFinished /\ ~h'.unsent /\ h.want = NoRead
                /\ ~h'.asserted
<1>1. HTTPInv /\ [HTTPNext]_httpVars => [A]_httpVars
  <2> SUFFICES ASSUME HTTPInv, [HTTPNext]_httpVars PROVE A
    OBVIOUS
  <2>1. HTTPInv' /\ (h.begun > 0 => InTurn(h, h'))
    BY NextSteady
  <2>2. ~h'.asserted /\ h.begun \in Nat /\ h'.begun \in Nat
    <3>1. ~h.asserted /\ h.begun \in Nat
      BY DEF HTTPInv, Steady, Sound, Base, Turn, Types
    <3>2. (~h.asserted /\ h.begun \in Nat)'
      BY <2>1 DEF HTTPInv, Steady, Sound, Base, Turn, Types
    <3> QED BY <3>1, <3>2
  <2> QED BY <2>1, <2>2 DEF InTurn
<1>2. []HTTPInv /\ [][HTTPNext]_httpVars => [][A]_httpVars
  BY <1>1, PTL
<1> QED BY <1>2, HTTPInvariant, PTL DEF HTTPSpec, RequestsInTurn
=============================================================================
