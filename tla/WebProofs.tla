------------------------------ MODULE WebProofs ------------------------------
(***************************************************************************)
(* Of one fetch of the HTTP client: the caller is answered once, and only  *)
(* an answer that is posted, or one whose connection was destroyed under   *)
(* it, may still be missing; and a response that tells its length is       *)
(* delivered with all of its body.  And of one opening handshake of        *)
(* WebSocket: what both ends hold for agreed agrees.  The methods are      *)
(* operators on the record of a fetch or of an end, so most lemmas say     *)
(* what a method does to the part of that record the invariant looks at.   *)
(***************************************************************************)
EXTENDS HTTPClient, Handshake, TLAPS, SequenceTheorems, WellFoundedInduction

Handlers == {"read", "data", "eof", "lost", "timeout", "answer", "unheard"}

FetchFields ==
    {"status", "callback", "heard", "timer", "hop", "redirects", "asks", "reading", "queue",
     "state", "want", "buffer", "posted", "code", "response", "bytesRead", "bytesToRead",
     "total", "bodySent", "raised", "asserted", "answers", "outcome", "stranded"}

(* What the argument needs of the types.                                   *)
FetchTypes(s) ==
    /\ DOMAIN s = FetchFields
    /\ s.status \in {"connecting", "open", "closing", "lost"}
    /\ s.queue \in Seq(Handlers) /\ s.posted \in Nat
    /\ s.callback \in BOOLEAN /\ s.heard \in BOOLEAN

(* The caller has not been answered, and this connection is to do it.      *)
Waits(s) == s.callback /\ s.heard

Has(q, handler) == \E i \in 1..Len(q) : q[i] = handler
OneAnswer(q) == \A i, j \in 1..Len(q) : q[i] = "answer" /\ q[j] = "answer" => i = j

(* The answer is to come, is posted or was given, and only one of these.   *)
AnswerSound(s) ==
    /\ OneAnswer(s.queue) /\ s.answers \in {0, 1}
    /\ Has(s.queue, "answer") => s.answers = 0
    /\ Waits(s) => s.answers = 0 /\ ~Has(s.queue, "answer")
    /\ ~Waits(s) => s.answers = 1 \/ Has(s.queue, "answer") \/ s.stranded

(* An open connection reads, or has read; a lost one has answered.         *)
Attended(s) ==
    /\ s.status = "open" => s.reading \/ Has(s.queue, "data") \/ Has(s.queue, "eof")
    /\ s.status = "lost" => ~s.callback

FetchSound(s) == FetchTypes(s) /\ AnswerSound(s)
ClientInv == FetchSound(fetch) /\ Attended(fetch)

-----------------------------------------------------------------------------
(* The queue.                                                              *)
LEMMA ReadyIsQueued ==
    ASSUME NEW s, NEW handler, s.queue \in Seq(Handlers)
    PROVE  IsReady(s, handler) <=> Has(s.queue, handler)
BY DEF IsReady, Has, Range

LEMMA AppendedQueue ==
    ASSUME NEW q \in Seq(Handlers), NEW x \in Handlers
    PROVE  /\ Append(q, x) \in Seq(Handlers)
           /\ \A h : Has(Append(q, x), h) <=> Has(q, h) \/ h = x
           /\ OneAnswer(q) /\ (x = "answer" => ~Has(q, "answer")) => OneAnswer(Append(q, x))
<1> DEFINE r == Append(q, x)
<1>1. /\ r \in Seq(Handlers) /\ Len(r) = Len(q) + 1 /\ r[Len(q) + 1] = x
      /\ \A i \in 1..Len(q) : r[i] = q[i]
  OBVIOUS
<1>2. 1..Len(r) = 1..Len(q) \cup {Len(q) + 1}
  BY <1>1
<1> HIDE DEF r
<1>3. \A h : Has(r, h) <=> Has(q, h) \/ h = x
  BY <1>1, <1>2 DEF Has
<1>4. ASSUME OneAnswer(q), x = "answer" => ~Has(q, "answer") PROVE OneAnswer(r)
  BY <1>1, <1>2, <1>4 DEF OneAnswer, Has
<1> QED BY <1>1, <1>3, <1>4 DEF r

LEMMA ReadsQueue ==
    ASSUME NEW q \in Seq(Handlers), NEW n \in Nat
    PROVE  LET r == q \o [i \in 1..n |-> "read"]
           IN /\ r \in Seq(Handlers)
              /\ \A h : Has(q, h) => Has(r, h)
              /\ Has(r, "answer") => Has(q, "answer")
              /\ OneAnswer(q) => OneAnswer(r)
<1> DEFINE p == [i \in 1..n |-> "read"]
           r == q \o p
<1>0. p \in Seq(Handlers) /\ Len(p) = n /\ \A i \in 1..n : p[i] = "read"
  BY DEF Handlers
<1> HIDE DEF p
<1>1. /\ r \in Seq(Handlers) /\ Len(r) = Len(q) + n
      /\ \A i \in 1..Len(q) : r[i] = q[i]
      /\ \A i \in 1..Len(r) : i > Len(q) => r[i] = "read"
  BY <1>0
<1> HIDE DEF r
<1>2. \A h : Has(q, h) => Has(r, h)
  BY <1>1 DEF Has
<1>3. Has(r, "answer") => Has(q, "answer")
  BY <1>1 DEF Has
<1>4. OneAnswer(q) => OneAnswer(r)
  BY <1>1 DEF OneAnswer
<1> QED BY <1>1, <1>2, <1>3, <1>4 DEF r, p

LEMMA PoppedQueue ==
    ASSUME NEW q \in Seq(Handlers), q # <<>>
    PROVE  /\ Tail(q) \in Seq(Handlers)
           /\ \A h : Has(q, h) <=> Has(Tail(q), h) \/ h = Head(q)
           /\ OneAnswer(q) => OneAnswer(Tail(q)) /\ (Head(q) = "answer" => ~Has(Tail(q), "answer"))
<1> DEFINE r == Tail(q)
<1>1. /\ r \in Seq(Handlers) /\ Len(r) = Len(q) - 1 /\ Head(q) = q[1] /\ Len(q) \in Nat \ {0}
      /\ \A i \in 1..Len(r) : r[i] = q[i + 1]
  OBVIOUS
<1> HIDE DEF r
<1>2. ASSUME NEW h PROVE Has(q, h) <=> Has(r, h) \/ h = Head(q)
  <2>1. ASSUME NEW i \in 1..Len(q), q[i] = h, i # 1 PROVE Has(r, h)
    <3>1. i - 1 \in 1..Len(r) /\ r[i - 1] = h
      BY <1>1, <2>1
    <3> QED BY <3>1 DEF Has
  <2>2. ASSUME NEW i \in 1..Len(r), r[i] = h PROVE Has(q, h)
    <3>1. i + 1 \in 1..Len(q) /\ q[i + 1] = h
      BY <1>1, <2>2
    <3> QED BY <3>1 DEF Has
  <2>3. Has(q, Head(q))
    BY <1>1 DEF Has
  <2> QED BY <2>1, <2>2, <2>3, <1>1 DEF Has
<1>3. ASSUME OneAnswer(q) PROVE OneAnswer(r) /\ (Head(q) = "answer" => ~Has(r, "answer"))
  <2>1. \A i, j \in 1..Len(r) : r[i] = "answer" /\ r[j] = "answer" => i + 1 = j + 1
    BY <1>1, <1>3 DEF OneAnswer
  <2>2. \A i \in 1..Len(r) : ~(q[1] = "answer" /\ r[i] = "answer")
    BY <1>1, <1>3 DEF OneAnswer
  <2> QED BY <2>1, <2>2, <1>1 DEF OneAnswer, Has
<1> QED BY <1>1, <1>2, <1>3 DEF r

-----------------------------------------------------------------------------
(* What a method may do: nobody is answered twice, a connection does not   *)
(* open again, and what is under way on an open one stays.                 *)
Goes(s, t) ==
    /\ FetchSound(t)
    /\ t.status = "open" =>
        /\ s.status = "open" /\ t.reading = s.reading
        /\ Has(s.queue, "data") => Has(t.queue, "data")
        /\ Has(s.queue, "eof") => Has(t.queue, "eof")
    /\ t.status = "lost" => s.status = "lost" /\ (t.callback => s.callback)

(* What only reads, or notes what it read.                                 *)
SamePart(s, t) ==
    /\ DOMAIN t = FetchFields /\ t.posted \in Nat
    /\ t.status = s.status /\ t.queue = s.queue /\ t.reading = s.reading
    /\ t.callback = s.callback /\ t.heard = s.heard
    /\ t.answers = s.answers /\ t.stranded = s.stranded

LEMMA GoesOn ==
    ASSUME NEW s, NEW t, NEW u, Goes(s, t), Goes(t, u)
    PROVE  Goes(s, u)
BY DEF Goes

LEMMA SameGoes ==
    ASSUME NEW s, NEW t, FetchSound(s), SamePart(s, t)
    PROVE  Goes(s, t)
BY DEF FetchSound, FetchTypes, AnswerSound, Waits, SamePart, Goes

LEMMA AttendedOn ==
    ASSUME NEW s, NEW t, Attended(s), Goes(s, t)
    PROVE  Attended(t)
BY DEF Attended, Goes, FetchSound, FetchTypes

LEMMA PostReadsGoes ==
    ASSUME NEW s, FetchSound(s)
    PROVE  Goes(s, PostReads(s))
<1> DEFINE r == s.queue \o [i \in 1..s.posted |-> "read"]
           t == PostReads(s)
<1>1. /\ DOMAIN t = FetchFields /\ t.posted = 0 /\ t.queue = r
      /\ t.status = s.status /\ t.reading = s.reading /\ t.callback = s.callback
      /\ t.heard = s.heard /\ t.answers = s.answers /\ t.stranded = s.stranded
  BY DEF FetchSound, FetchTypes, FetchFields, PostReads
<1>2. /\ r \in Seq(Handlers)
      /\ \A h : Has(s.queue, h) => Has(r, h)
      /\ Has(r, "answer") => Has(s.queue, "answer")
      /\ OneAnswer(s.queue) => OneAnswer(r)
  BY ReadsQueue DEF FetchSound, FetchTypes
<1> HIDE DEF r, t
<1>3. FetchTypes(t)
  BY <1>1, <1>2 DEF FetchSound, FetchTypes
<1>4. AnswerSound(t)
  BY <1>1, <1>2 DEF FetchSound, AnswerSound, Waits
<1>5. Goes(s, t)
  BY <1>1, <1>2, <1>3, <1>4 DEF Goes, FetchSound
<1> QED BY <1>5 DEF t

(* What posting does to the queue alone.                                   *)
LEMMA Posted ==
    ASSUME NEW s, FetchSound(s), NEW x \in Handlers
    PROVE  LET t == Post(s, x)
           IN /\ DOMAIN t = FetchFields /\ t.posted = 0
              /\ t.status = s.status /\ t.reading = s.reading /\ t.callback = s.callback
              /\ t.heard = s.heard /\ t.answers = s.answers /\ t.stranded = s.stranded
              /\ t.queue \in Seq(Handlers)
              /\ \A h : Has(t.queue, h) <=> Has(PostReads(s).queue, h) \/ h = x
              /\ x # "answer" \/ ~Has(s.queue, "answer") => OneAnswer(t.queue)
<1> DEFINE p == PostReads(s)
           t == Post(s, x)
<1>1. Goes(s, p)
  BY PostReadsGoes
<1>2. /\ DOMAIN p = FetchFields /\ p.posted = 0
      /\ p.status = s.status /\ p.reading = s.reading /\ p.callback = s.callback
      /\ p.heard = s.heard /\ p.answers = s.answers /\ p.stranded = s.stranded
      /\ p.queue = s.queue \o [i \in 1..s.posted |-> "read"]
  BY DEF FetchSound, FetchTypes, FetchFields, PostReads
<1>3. Has(p.queue, "answer") => Has(s.queue, "answer")
  BY <1>2, ReadsQueue DEF FetchSound, FetchTypes
<1>4. p.queue \in Seq(Handlers) /\ OneAnswer(p.queue)
  BY <1>1 DEF Goes, FetchSound, FetchTypes, AnswerSound
<1> HIDE DEF p
<1>5. /\ DOMAIN t = FetchFields /\ t.posted = 0 /\ t.queue = Append(p.queue, x)
      /\ t.status = p.status /\ t.reading = p.reading /\ t.callback = p.callback
      /\ t.heard = p.heard /\ t.answers = p.answers /\ t.stranded = p.stranded
  BY <1>2 DEF FetchFields, Post, p
<1> HIDE DEF t
<1>6. /\ t.queue \in Seq(Handlers)
      /\ \A h : Has(t.queue, h) <=> Has(p.queue, h) \/ h = x
      /\ x # "answer" \/ ~Has(p.queue, "answer") => OneAnswer(t.queue)
  BY <1>4, <1>5, AppendedQueue
<1> QED BY <1>2, <1>3, <1>5, <1>6 DEF p, t

(* Posting anything but the answer.                                        *)
LEMMA PostGoes ==
    ASSUME NEW s, FetchSound(s), NEW x \in Handlers \ {"answer"}
    PROVE  Goes(s, Post(s, x))
<1> DEFINE p == PostReads(s)
           t == Post(s, x)
<1>1. Goes(s, p)
  BY PostReadsGoes
<1>2. /\ DOMAIN t = FetchFields /\ t.posted = 0
      /\ t.status = s.status /\ t.reading = s.reading /\ t.callback = s.callback
      /\ t.heard = s.heard /\ t.answers = s.answers /\ t.stranded = s.stranded
      /\ t.queue \in Seq(Handlers)
      /\ \A h : Has(t.queue, h) <=> Has(p.queue, h) \/ h = x
      /\ OneAnswer(t.queue)
  BY Posted
<1>3. /\ p.status = s.status /\ p.reading = s.reading /\ p.callback = s.callback
      /\ p.heard = s.heard /\ p.answers = s.answers /\ p.stranded = s.stranded
  BY DEF FetchSound, FetchTypes, FetchFields, PostReads
<1> HIDE DEF p, t
<1>4. FetchTypes(t)
  BY <1>2 DEF FetchSound, FetchTypes
<1>5. AnswerSound(t)
  BY <1>1, <1>2, <1>3 DEF FetchSound, AnswerSound, Waits, Goes
<1>6. Goes(s, t)
  BY <1>1, <1>2, <1>3, <1>4, <1>5 DEF Goes, FetchSound
<1> QED BY <1>6 DEF t

-----------------------------------------------------------------------------
(* Closing and answering.                                                  *)
LEMMA CloseGoes ==
    ASSUME NEW s, FetchSound(s)
    PROVE  LET t == CloseClient(s)
           IN Goes(s, t) /\ t.status # "open" /\ t.callback = s.callback
<1> DEFINE p == Post(s, "lost")
           t == CloseClient(s)
           a == [s EXCEPT !.status = "closing"]
           b == [p EXCEPT !.status = "closing", !.reading = FALSE]
<1>1. Goes(s, p) /\ p.callback = s.callback /\ DOMAIN p = FetchFields
  BY PostGoes, Posted DEF Handlers
<1>2. t \in {s, a, b} /\ (t = s => s.status # "open")
  BY DEF CloseClient, Alive, FetchSound, FetchTypes, FetchFields
<1> HIDE DEF p
<1>3. Goes(s, a) /\ a.status = "closing" /\ a.callback = s.callback
  <2>1. /\ DOMAIN a = FetchFields /\ a.posted = s.posted /\ a.queue = s.queue
        /\ a.status = "closing" /\ a.callback = s.callback /\ a.heard = s.heard
        /\ a.answers = s.answers /\ a.stranded = s.stranded
    BY DEF FetchSound, FetchTypes, FetchFields
  <2> HIDE DEF a
  <2> QED BY <2>1 DEF Goes, FetchSound, FetchTypes, AnswerSound, Waits
<1>4. Goes(s, b) /\ b.status = "closing" /\ b.callback = s.callback
  <2>1. /\ DOMAIN b = FetchFields /\ b.posted = p.posted /\ b.queue = p.queue
        /\ b.status = "closing" /\ b.callback = p.callback /\ b.heard = p.heard
        /\ b.answers = p.answers /\ b.stranded = p.stranded
    BY <1>1 DEF FetchFields
  <2> HIDE DEF b
  <2> QED BY <1>1, <2>1 DEF Goes, FetchSound, FetchTypes, AnswerSound, Waits
<1>5. Goes(s, s)
  BY DEF Goes
<1> HIDE DEF t, a, b
<1>6. Goes(s, t) /\ t.status # "open" /\ t.callback = s.callback
  BY <1>2, <1>3, <1>4, <1>5
<1> QED BY <1>6 DEF t

LEMMA RunCallbackGoes ==
    ASSUME NEW s, FetchSound(s), NEW outcome
    PROVE  Goes(s, RunCallback(s, outcome)) /\ ~RunCallback(s, outcome).callback
<1> DEFINE x == IF s.heard THEN "answer" ELSE "unheard"
           p == Post(s, x)
           t == RunCallback(s, outcome)
           q == PostReads(s)
<1>1. CASE ~s.callback
  <2>1. t = s
    BY <1>1 DEF RunCallback
  <2> QED BY <1>1, <2>1 DEF Goes
<1>2. CASE s.callback
  <2>1. x \in Handlers /\ (x = "answer" <=> Waits(s)) /\ s.callback \in BOOLEAN
    BY <1>2 DEF Handlers, FetchSound, FetchTypes, Waits
  <2>2. Waits(s) => s.answers = 0 /\ ~Has(s.queue, "answer")
    BY DEF FetchSound, AnswerSound
  <2>3. t = [p EXCEPT !.callback = FALSE, !.outcome = outcome]
    BY <1>2 DEF RunCallback
  <2> HIDE DEF x
  <2>4. /\ DOMAIN p = FetchFields /\ p.posted = 0
        /\ p.status = s.status /\ p.reading = s.reading
        /\ p.heard = s.heard /\ p.answers = s.answers /\ p.stranded = s.stranded
        /\ p.queue \in Seq(Handlers)
        /\ \A h : Has(p.queue, h) <=> Has(q.queue, h) \/ h = x
        /\ OneAnswer(p.queue)
    BY <2>1, <2>2, Posted
  <2>5. Goes(s, q) /\ q.status = s.status /\ q.reading = s.reading
    BY PostReadsGoes DEF FetchSound, FetchTypes, FetchFields, PostReads
  <2>6. Has(q.queue, "answer") <=> Has(s.queue, "answer")
    BY ReadsQueue DEF FetchSound, FetchTypes, FetchFields, PostReads
  <2> HIDE DEF p, q
  <2>7. /\ DOMAIN t = FetchFields /\ t.posted = 0 /\ t.callback = FALSE
        /\ t.status = s.status /\ t.reading = s.reading
        /\ t.heard = s.heard /\ t.answers = s.answers /\ t.stranded = s.stranded
        /\ t.queue = p.queue
    BY <2>3, <2>4 DEF FetchFields
  <2> HIDE DEF t
  <2>8. FetchTypes(t)
    <3>1. t.callback \in BOOLEAN /\ t.heard \in BOOLEAN
      BY <2>7, Zenon DEF FetchSound, FetchTypes
    <3> QED BY <2>4, <2>7, <3>1 DEF FetchSound, FetchTypes
  <2>9. AnswerSound(t)
    BY <2>1, <2>2, <2>4, <2>6, <2>7 DEF FetchSound, AnswerSound, Waits
  <2>10. Goes(s, t)
    BY <2>4, <2>5, <2>7, <2>8, <2>9 DEF Goes, FetchSound
  <2> QED BY <2>7, <2>10 DEF t
<1> QED BY <1>1, <1>2

LEMMA HandleExceptionGoes ==
    ASSUME NEW s, FetchSound(s)
    PROVE  Goes(s, HandleException(s)) /\ ~HandleException(s).callback
<1> DEFINE a == [s EXCEPT !.raised = FALSE]
           b == RemoveTimeout(a)
           c == RunCallback(b, "error")
<1>1. SamePart(s, a) /\ SamePart(s, b)
  BY DEF FetchSound, FetchTypes, FetchFields, RemoveTimeout, SamePart
<1>2. HandleException(s) = IF ~s.callback THEN a ELSE CloseClient(c)
  BY DEF HandleException
<1>3. Goes(s, a) /\ Goes(s, b) /\ a.callback = s.callback
  BY <1>1, SameGoes DEF SamePart
<1> HIDE DEF a, b
<1>4. Goes(b, c) /\ ~c.callback
  BY <1>3, RunCallbackGoes DEF Goes
<1> HIDE DEF c
<1>5. Goes(c, CloseClient(c)) /\ ~CloseClient(c).callback
  BY <1>4, CloseGoes DEF Goes
<1> QED BY <1>2, <1>3, <1>4, <1>5, GoesOn

-----------------------------------------------------------------------------
(* Reading the response.                                                   *)
LEMMA ReadSame ==
    ASSUME NEW s, FetchSound(s), NEW state, NEW w
    PROVE  SamePart(s, Read(s, state, w))
BY DEF FetchSound, FetchTypes, FetchFields, Read, SamePart

LEMMA ReadGoes ==
    ASSUME NEW s, FetchSound(s), NEW state, NEW w
    PROVE  Goes(s, Read(s, state, w))
BY ReadSame, SameGoes

LEMMA ThrowGoes ==
    ASSUME NEW s, FetchSound(s)
    PROVE  Goes(s, Throw(s))
<1>1. SamePart(s, Throw(s))
  BY DEF FetchSound, FetchTypes, FetchFields, Throw, SamePart
<1> QED BY <1>1, SameGoes

LEMMA WriteBodyGoes ==
    ASSUME NEW s, FetchSound(s)
    PROVE  Goes(s, WriteBody(s))
<1> DEFINE a == [s EXCEPT !.bodySent = TRUE]
           c == CloseClient(s)
<1>1. SamePart(s, a)
  BY DEF FetchSound, FetchTypes, FetchFields, SamePart
<1>2. WriteBody(s) \in {s, Throw(c), Throw(s), a}
  BY DEF WriteBody
<1> HIDE DEF a, c
<1>3. Goes(s, c) /\ FetchSound(c)
  BY CloseGoes DEF Goes, c
<1>4. Goes(s, Throw(c))
  BY <1>3, ThrowGoes, GoesOn
<1>5. Goes(s, a) /\ Goes(s, s)
  BY <1>1, SameGoes DEF Goes
<1> QED BY <1>2, <1>4, <1>5, ThrowGoes

(* A fetch that starts anew, with the answers and the queue of the last.   *)
LEMMA FreshFetch ==
    ASSUME NEW hop, NEW redirects, NEW asks, NEW heard \in BOOLEAN
    PROVE  LET t == StartRequestTo(hop, redirects, asks, heard)
           IN /\ DOMAIN t = FetchFields /\ t.posted = 0 /\ t.status = "connecting"
              /\ t.heard = heard /\ t.callback \in BOOLEAN
              /\ t.answers = 0
              /\ t.callback => t.queue = <<>>
              /\ ~t.callback => t.queue = <<IF heard THEN "answer" ELSE "unheard">>
<1> DEFINE f == [Fresh(hop, redirects, asks) EXCEPT !.heard = heard]
           x == IF heard THEN "answer" ELSE "unheard"
           b == RemoveTimeout([f EXCEPT !.raised = FALSE])
           p == Post(b, x)
           c == RunCallback(b, "error")
<1>1. /\ DOMAIN f = FetchFields /\ f.posted = 0 /\ f.status = "connecting"
      /\ f.heard = heard /\ f.callback = TRUE /\ f.queue = <<>> /\ f.answers = 0
  BY DEF Fresh, FetchFields
<1> HIDE DEF f
<1>2. /\ DOMAIN b = FetchFields /\ b.posted = 0 /\ b.status = "connecting"
      /\ b.heard = heard /\ b.callback = TRUE /\ b.queue = <<>> /\ b.answers = 0
  BY <1>1 DEF FetchFields, RemoveTimeout
<1> HIDE DEF b
<1>3. /\ DOMAIN p = FetchFields /\ p.posted = 0 /\ p.status = "connecting" /\ p.heard = heard
      /\ p.answers = 0
      /\ p.queue = Append(<<>> \o [i \in 1..0 |-> "read"], x)
  BY <1>2 DEF FetchFields, Post, PostReads
<1>4. Append(<<>> \o [i \in 1..0 |-> "read"], x) = <<x>>
  <2>1. [i \in 1..0 |-> "read"] = <<>>
    OBVIOUS
  <2> HIDE DEF x
  <2> QED BY <2>1
<1> HIDE DEF p
<1>5. /\ DOMAIN c = FetchFields /\ c.posted = 0 /\ c.status = "connecting" /\ c.heard = heard
      /\ c.callback = FALSE /\ c.queue = <<x>> /\ c.answers = 0
  <2>1. c = [p EXCEPT !.callback = FALSE, !.outcome = "error"]
    BY <1>2 DEF RunCallback, p
  <2> QED BY <2>1, <1>3, <1>4 DEF FetchFields
<1>6. HandleException(f) = c
  <2>1. HandleException(f) = CloseClient(c)
    BY <1>1 DEF HandleException, b
  <2> HIDE DEF c
  <2> QED BY <1>5, <2>1 DEF CloseClient, Alive
<1>7. StartRequestTo(hop, redirects, asks, heard) \in {f, c}
  <2>1. StartRequestTo(hop, redirects, asks, heard) \in {f, HandleException(f)}
    BY DEF StartRequestTo, f
  <2> QED BY <2>1, <1>6
<1> HIDE DEF c
<1> QED BY <1>1, <1>5, <1>7

LEMMA ShortQueues ==
    /\ <<>> \in Seq(Handlers) /\ OneAnswer(<<>>) /\ ~Has(<<>>, "answer")
    /\ <<"answer">> \in Seq(Handlers) /\ OneAnswer(<<"answer">>) /\ Has(<<"answer">>, "answer")
    /\ <<"unheard">> \in Seq(Handlers) /\ OneAnswer(<<"unheard">>)
    /\ ~Has(<<"unheard">>, "answer")
    /\ LET q == Append(<<"answer">>, "unheard")
       IN q \in Seq(Handlers) /\ OneAnswer(q) /\ Has(q, "answer")
<1>1. /\ <<>> \in Seq(Handlers) /\ <<"answer">> \in Seq(Handlers)
      /\ <<"unheard">> \in Seq(Handlers) /\ "unheard" \in Handlers
  BY DEF Handlers
<1>2. OneAnswer(<<>>) /\ ~Has(<<>>, "answer")
  BY DEF OneAnswer, Has
<1>3. OneAnswer(<<"answer">>) /\ OneAnswer(<<"unheard">>) /\ ~Has(<<"unheard">>, "answer")
  BY DEF OneAnswer, Has
<1>4. Has(<<"answer">>, "answer")
  <2>1. 1 \in 1..Len(<<"answer">>) /\ <<"answer">>[1] = "answer"
    OBVIOUS
  <2> QED BY <2>1 DEF Has
<1> QED BY <1>1, <1>2, <1>3, <1>4, AppendedQueue

(* A redirect takes the answer along, posted or to come.                   *)
LEMMA RedirectGoes ==
    ASSUME NEW s, FetchSound(s), NEW t, NEW v, DOMAIN v = FetchFields,
           t.callback \in BOOLEAN,
           t.callback => t.queue = <<>>,
           ~t.callback => t.queue = <<IF Waits(s) THEN "answer" ELSE "unheard">>,
           v.posted = 0, v.status = "connecting", v.callback = t.callback, v.heard = Waits(s),
           v.answers = s.answers, v.stranded = s.stranded,
           v.queue = PostedAnswer(s) \o t.queue
    PROVE  Goes(s, v)
<1>1. IsReady(s, "answer") <=> Has(s.queue, "answer")
  BY ReadyIsQueued DEF FetchSound, FetchTypes
<1>2. /\ s.answers \in {0, 1} /\ (Has(s.queue, "answer") => s.answers = 0)
      /\ Waits(s) => s.answers = 0 /\ ~Has(s.queue, "answer")
      /\ ~Waits(s) => s.answers = 1 \/ Has(s.queue, "answer") \/ s.stranded
  BY DEF FetchSound, AnswerSound
<1>3. Waits(s) \in BOOLEAN
  BY Zenon DEF Waits
<1>4. CASE Waits(s)
  <2>1. v.queue = t.queue
    <3>1. PostedAnswer(s) = <<>>
      BY <1>1, <1>2, <1>4 DEF PostedAnswer
    <3> QED BY <3>1, <1>4
  <2>2. v.queue \in Seq(Handlers) /\ (Has(v.queue, "answer") <=> ~t.callback) /\ OneAnswer(v.queue)
    BY <2>1, <1>4, ShortQueues
  <2>3. AnswerSound(v)
    BY <2>2, <1>2, <1>4 DEF AnswerSound, Waits
  <2>4. FetchTypes(v)
    BY <2>2, <1>3 DEF FetchTypes
  <2> QED BY <2>3, <2>4 DEF Goes, FetchSound
<1>5. CASE ~Waits(s)
  <2>1. v.queue \in {<<>>, <<"answer">>, <<"unheard">>, Append(<<"answer">>, "unheard")}
        /\ (v.queue \in {<<"answer">>, Append(<<"answer">>, "unheard")} <=> Has(s.queue, "answer"))
    <3>1. t.queue \in {<<>>, <<"unheard">>}
      BY <1>5
    <3>2. PostedAnswer(s) = IF Has(s.queue, "answer") THEN <<"answer">> ELSE <<>>
      BY <1>1 DEF PostedAnswer
    <3>3. /\ <<>> \o <<>> = <<>> /\ <<>> \o <<"unheard">> = <<"unheard">>
          /\ <<"answer">> \o <<>> = <<"answer">>
          /\ <<"answer">> \o <<"unheard">> = Append(<<"answer">>, "unheard")
      <4>1. <<>> \in Seq(Handlers) /\ <<"answer">> \in Seq(Handlers) /\ <<"unheard">> \in Seq(Handlers)
        BY ShortQueues
      <4>2. <<"answer">> \o <<"unheard">> = Append(<<"answer">>, "unheard")
        BY <4>1, AppendIsConcat DEF Handlers
      <4>3. \A q \in Seq(Handlers) : <<>> \o q = q /\ q \o <<>> = q
        BY ConcatEmptySeq
      <4>4. <<>> \o <<>> = <<>> /\ <<>> \o <<"unheard">> = <<"unheard">>
            /\ <<"answer">> \o <<>> = <<"answer">>
        BY <4>1, <4>3, Zenon
      <4> QED BY <4>2, <4>4, Zenon
    <3>4. CASE Has(s.queue, "answer")
      <4>1. v.queue \in {<<"answer">>, Append(<<"answer">>, "unheard")}
        BY <3>1, <3>2, <3>3, <3>4
      <4> QED BY <3>4, <4>1
    <3>5. CASE ~Has(s.queue, "answer")
      <4>1. v.queue \in {<<>>, <<"unheard">>}
        BY <3>1, <3>2, <3>3, <3>5
      <4> QED BY <3>5, <4>1
    <3> QED BY <3>4, <3>5
  <2>2. /\ v.queue \in Seq(Handlers) /\ OneAnswer(v.queue)
        /\ Has(v.queue, "answer") <=> Has(s.queue, "answer")
    BY <2>1, ShortQueues
  <2>3. AnswerSound(v)
    BY <2>2, <1>2, <1>5 DEF AnswerSound, Waits
  <2>4. FetchTypes(v)
    BY <2>2, <1>3 DEF FetchTypes
  <2> QED BY <2>3, <2>4 DEF Goes, FetchSound
<1> QED BY <1>4, <1>5

LEMMA FinishGoes ==
    ASSUME NEW s, FetchSound(s)
    PROVE  Goes(s, FinishResponse(s))
<1> DEFINE t == RemoveTimeout([s EXCEPT !.state = "READ_NONE"])
           r == RunCallback(t, "response")
           x == [Throw(t) EXCEPT !.callback = FALSE, !.stranded = @ \/ s.callback]
           u == StartRequestTo(s.hop + 1, s.redirects - 1, Repeats(s), s.callback /\ s.heard)
           v == [u EXCEPT !.answers = s.answers, !.outcome = s.outcome, !.stranded = s.stranded,
                          !.queue = PostedAnswer(s) \o @]
<1>1. SamePart(s, t) /\ Goes(s, t) /\ FetchSound(t)
  <2>1. SamePart(s, t)
    BY DEF FetchSound, FetchTypes, FetchFields, RemoveTimeout, SamePart
  <2> HIDE DEF t
  <2> QED BY <2>1, SameGoes DEF Goes
<1>2. FinishResponse(s) \in {CloseClient(r), Throw(t), x, v}
  BY DEF FinishResponse
<1> HIDE DEF t
<1>3. Goes(s, CloseClient(r))
  <2>1. Goes(t, r)
    BY <1>1, RunCallbackGoes
  <2>2. Goes(r, CloseClient(r))
    BY <2>1, CloseGoes DEF Goes
  <2> QED BY <1>1, <2>1, <2>2, GoesOn
<1>31. Goes(s, Throw(t))
  BY <1>1, ThrowGoes, GoesOn
<1>4. Goes(s, x)
  <2>1. /\ DOMAIN x = FetchFields /\ x.posted = t.posted /\ x.callback = FALSE
        /\ x.queue = s.queue /\ x.status = s.status /\ x.reading = s.reading
        /\ x.heard = s.heard /\ x.answers = s.answers
        /\ x.stranded <=> s.stranded \/ s.callback
    BY <1>1 DEF FetchSound, FetchTypes, FetchFields, Throw, SamePart
  <2> HIDE DEF x
  <2>2. FetchTypes(x)
    <3>1. x.callback \in BOOLEAN /\ x.heard \in BOOLEAN
      BY <2>1, Zenon DEF FetchSound, FetchTypes
    <3> QED BY <1>1, <2>1, <3>1 DEF FetchSound, FetchTypes
  <2>3. AnswerSound(x)
    BY <2>1 DEF FetchSound, AnswerSound, Waits
  <2> QED BY <2>1, <2>2, <2>3 DEF FetchSound, Goes
<1>5. Goes(s, v)
  <2>1. Waits(s) \in BOOLEAN /\ u = StartRequestTo(s.hop + 1, s.redirects - 1, Repeats(s), Waits(s))
    BY Zenon DEF Waits
  <2> HIDE DEF u
  <2>2. /\ DOMAIN u = FetchFields /\ u.posted = 0 /\ u.status = "connecting"
        /\ u.heard = Waits(s) /\ u.callback \in BOOLEAN
        /\ u.callback => u.queue = <<>>
        /\ ~u.callback => u.queue = <<IF Waits(s) THEN "answer" ELSE "unheard">>
    BY <2>1, FreshFetch
  <2>3. /\ DOMAIN v = FetchFields /\ v.posted = 0 /\ v.status = "connecting"
        /\ v.heard = Waits(s) /\ v.callback = u.callback
        /\ v.answers = s.answers /\ v.stranded = s.stranded
        /\ v.queue = PostedAnswer(s) \o u.queue
    BY <2>2 DEF FetchFields
  <2> HIDE DEF v
  <2> QED BY <2>2, <2>3, RedirectGoes
<1> HIDE DEF r, x, v
<1> QED BY <1>2, <1>3, <1>31, <1>4, <1>5

-----------------------------------------------------------------------------
LEMMA ReadBlocksGoes ==
    ASSUME NEW s, FetchSound(s), NEW state, NEW n
    PROVE  Goes(s, ReadBlocks(s, state)) /\ Goes(s, StartBlocks(s, n, state))
<1> DEFINE a == [s EXCEPT !.bytesRead = 0, !.bytesToRead = n]
<1>1. SamePart(s, a)
  BY DEF FetchSound, FetchTypes, FetchFields, SamePart
<1>2. StartBlocks(s, n, state) = ReadBlocks(a, state)
  BY DEF StartBlocks
<1> HIDE DEF a
<1>3. Goes(s, a) /\ FetchSound(a)
  BY <1>1, SameGoes DEF Goes
<1>4. Goes(s, ReadBlocks(s, state)) /\ Goes(a, ReadBlocks(a, state))
  BY <1>3, ReadGoes DEF ReadBlocks
<1> QED BY <1>2, <1>3, <1>4, GoesOn

LEMMA ReadResponseBodyGoes ==
    ASSUME NEW s, FetchSound(s), NEW k
    PROVE  Goes(s, ReadResponseBody(s, k))
<1> DEFINE r == Read(s, "READ_UNTIL_CLOSE", [kind |-> "close", n |-> 0])
           t == [r EXCEPT !.posted = @ + 1]
<1>1. SamePart(s, r) /\ Goes(s, r)
  BY ReadSame, SameGoes
<1> HIDE DEF r
<1>2. SamePart(s, t)
  BY <1>1 DEF SamePart, FetchFields
<1>3. Goes(s, t)
  BY <1>2, SameGoes
<1>4. ReadResponseBody(s, k) \in {Throw(s), FinishResponse(s),
        StartBlocks(s, k.length, "READ_FIXED_BODY"), ReadLength(s), r, t}
  BY Zenon DEF ReadResponseBody, r
<1> HIDE DEF t
<1> QED BY <1>1, <1>3, <1>4, ThrowGoes, FinishGoes, ReadBlocksGoes, ReadGoes DEF ReadLength

LEMMA OnResponseHeadersGoes ==
    ASSUME NEW s, FetchSound(s), NEW n
    PROVE  Goes(s, OnResponseHeaders(s, n))
<1> DEFINE i == s.buffer[1][2]
           k == Here(s)[i]
           t == [s EXCEPT !.code = k.code, !.response = i]
           u == IF request.expect THEN WriteBody(s) ELSE t
<1>1. SamePart(s, t)
  BY DEF FetchSound, FetchTypes, FetchFields, SamePart
<1>2. OnResponseHeaders(s, n) \in {Throw(s), u, Throw(u), ReadResponse(u),
        FinishResponse(t), ReadResponseBody(t, k)}
  BY DEF OnResponseHeaders
<1> HIDE DEF t, k
<1>3. Goes(s, t) /\ Goes(s, u) /\ FetchSound(t) /\ FetchSound(u)
  BY <1>1, SameGoes, WriteBodyGoes DEF Goes
<1> HIDE DEF u
<1>4. Goes(u, Throw(u)) /\ Goes(u, ReadResponse(u))
  BY <1>3, ThrowGoes, ReadGoes DEF ReadResponse
<1>5. Goes(t, FinishResponse(t)) /\ Goes(t, ReadResponseBody(t, k))
  BY <1>3, FinishGoes, ReadResponseBodyGoes
<1> QED BY <1>2, <1>3, <1>4, <1>5, GoesOn, ThrowGoes

LEMMA OnBodyBlockGoes ==
    ASSUME NEW s, FetchSound(s), NEW n
    PROVE  Goes(s, OnBodyBlock(s, n))
<1> DEFINE t == [s EXCEPT !.bytesRead = @ + n, !.total = @ + n]
           w == [kind |-> "bytes", n |-> 2]
<1>1. SamePart(s, t)
  BY DEF FetchSound, FetchTypes, FetchFields, SamePart
<1>2. OnBodyBlock(s, n) \in {ReadBlocks(t, s.state), FinishResponse(t), Read(t, "READ_CHUNK_ENDS", w)}
  BY DEF OnBodyBlock
<1> HIDE DEF t
<1>3. Goes(s, t) /\ FetchSound(t)
  BY <1>1, SameGoes DEF Goes
<1>4. /\ Goes(t, ReadBlocks(t, s.state)) /\ Goes(t, FinishResponse(t))
      /\ Goes(t, Read(t, "READ_CHUNK_ENDS", w))
  BY <1>3, ReadBlocksGoes, FinishGoes, ReadGoes
<1> QED BY <1>2, <1>3, <1>4, GoesOn

LEMMA OnLengthOfChunkGoes ==
    ASSUME NEW s, FetchSound(s)
    PROVE  Goes(s, OnLengthOfChunk(s))
<1>1. OnLengthOfChunk(s) \in {Throw(s), StartBlocks(s, s.buffer[1][2], "READ_CHUNK_DATA"),
        Read(s, "READ_LAST_CHUNK_ENDS", [kind |-> "bytes", n |-> 2])}
  BY DEF OnLengthOfChunk
<1> QED BY <1>1, ThrowGoes, ReadBlocksGoes, ReadGoes

LEMMA OnResponseDataGoes ==
    ASSUME NEW s, FetchSound(s), NEW n
    PROVE  Goes(s, OnResponseData(s, n))
<1> DEFINE a == [s EXCEPT !.asserted = TRUE]
           c == [s EXCEPT !.total = @ + n]
           t == CASE s.state = "READ_HEADER" -> OnResponseHeaders(s, n)
                  [] s.state \in {"READ_FIXED_BODY", "READ_CHUNK_DATA"} -> OnBodyBlock(s, n)
                  [] s.state = "READ_CHUNK_LENGTH" -> OnLengthOfChunk(s)
                  [] s.state = "READ_CHUNK_ENDS" -> IF AtLine(s) THEN ReadLength(s) ELSE Throw(s)
                  [] s.state = "READ_LAST_CHUNK_ENDS" ->
                       IF AtLine(s) THEN FinishResponse(s) ELSE Throw(s)
                  [] s.state = "READ_UNTIL_CLOSE" -> FinishResponse(c)
                  [] OTHER -> a
<1>1. SamePart(s, a) /\ SamePart(s, c)
  BY DEF FetchSound, FetchTypes, FetchFields, SamePart
<1> HIDE DEF a, c
<1>2. t \in {OnResponseHeaders(s, n), OnBodyBlock(s, n), OnLengthOfChunk(s), ReadLength(s),
             Throw(s), FinishResponse(s), FinishResponse(c), a}
  BY Zenon
<1>3. OnResponseData(s, n) = IF t.raised THEN HandleException(t) ELSE t
  BY Zenon DEF OnResponseData, a, c
<1> HIDE DEF t
<1>4. Goes(s, a) /\ Goes(s, c) /\ FetchSound(c)
  BY <1>1, SameGoes DEF Goes
<1>5. Goes(s, FinishResponse(c))
  BY <1>4, FinishGoes, GoesOn
<1>6. Goes(s, ReadLength(s))
  BY ReadGoes DEF ReadLength
<1>7. Goes(s, t) /\ FetchSound(t)
  <2>1. Goes(s, t)
    BY <1>2, <1>4, <1>5, <1>6, ThrowGoes, FinishGoes, OnResponseHeadersGoes, OnBodyBlockGoes,
       OnLengthOfChunkGoes
  <2> QED BY <2>1 DEF Goes
<1> QED BY <1>3, <1>7, HandleExceptionGoes, GoesOn

LEMMA TakenGoes ==
    ASSUME NEW s, FetchSound(s), NEW n
    PROVE  Goes(s, Taken(s, n))
<1>1. SamePart(s, Taken(s, n))
  BY DEF FetchSound, FetchTypes, FetchFields, SamePart, Taken
<1> QED BY <1>1, SameGoes

(* A read that is met is forgotten, handled, and its octets dropped.       *)
LEMMA MetGoes ==
    ASSUME NEW s, FetchSound(s), NEW n
    PROVE  Goes(s, Taken(OnResponseData([s EXCEPT !.want = NoRead], n), n))
<1> DEFINE t == [s EXCEPT !.want = NoRead]
           u == OnResponseData(t, n)
<1>1. SamePart(s, t)
  BY DEF FetchSound, FetchTypes, FetchFields, SamePart
<1> HIDE DEF t
<1>2. Goes(s, t) /\ FetchSound(t)
  BY <1>1, SameGoes DEF Goes
<1>3. Goes(t, u)
  BY <1>2, OnResponseDataGoes
<1> HIDE DEF u
<1>4. Goes(u, Taken(u, n))
  BY <1>3, TakenGoes DEF Goes
<1>5. Goes(s, Taken(u, n))
  BY <1>2, <1>3, <1>4, GoesOn
<1> QED BY <1>5 DEF u, t

LEMMA ReadToCloseGoes ==
    ASSUME NEW s, FetchSound(s)
    PROVE  Goes(s, ReadToClose(s))
BY MetGoes DEF ReadToClose

LEMMA ReadFromBufferedGoes ==
    ASSUME NEW s, FetchSound(s)
    PROVE  Goes(s, ReadFromBuffered(s))
<1> DEFINE n == FindReadPos(s.want, s.buffer)
           m == Taken(OnResponseData([s EXCEPT !.want = NoRead], n), n)
<1>1. ReadFromBuffered(s) \in {ReadToClose(s), s, CloseClient(s), m}
  BY DEF ReadFromBuffered
<1>2. Goes(s, m)
  BY MetGoes
<1>3. Goes(s, s)
  BY DEF Goes
<1> HIDE DEF m
<1> QED BY <1>1, <1>2, <1>3, CloseGoes, ReadToCloseGoes

-----------------------------------------------------------------------------
(* The handlers.                                                           *)

(* A handler that left this state keeps the invariant.                     *)
LEMMA BecomesInv ==
    ASSUME NEW s, NEW rest, FetchSound(s), Attended(s), Becomes(s, rest)
    PROVE  ClientInv'
<1>1. Goes(s, PostReads(s)) /\ fetch' = PostReads(s)
  BY PostReadsGoes DEF Becomes
<1>2. FetchSound(fetch') /\ Attended(fetch')
  BY <1>1, AttendedOn DEF Goes
<1> QED BY <1>2 DEF ClientInv, FetchSound, FetchTypes, AnswerSound, Attended, Waits, Has, OneAnswer

LEMMA InitClient == ClientInit => ClientInv
<1> SUFFICES ASSUME ClientInit PROVE ClientInv
  OBVIOUS
<1>0. PICK a, n, b : a = Asked /\ n = request.redirects /\ b = TRUE
  OBVIOUS
<1>b. b \in BOOLEAN
  BY <1>0
<1>c. PICK t : t = StartRequestTo(1, n, a, b)
  OBVIOUS
<1>1. /\ DOMAIN t = FetchFields /\ t.posted = 0 /\ t.status = "connecting" /\ t.heard = TRUE
      /\ t.callback \in BOOLEAN /\ t.answers = 0
      /\ t.callback => t.queue = <<>>
      /\ ~t.callback => t.queue = <<"answer">>
  <2>1. /\ DOMAIN t = FetchFields /\ t.posted = 0 /\ t.status = "connecting"
        /\ t.heard = b /\ t.callback \in BOOLEAN
        /\ t.answers = 0
        /\ t.callback => t.queue = <<>>
        /\ ~t.callback => t.queue = <<IF b THEN "answer" ELSE "unheard">>
    BY <1>b, <1>c, FreshFetch
  <2> QED BY <1>0, <2>1
<1>2. fetch = t
  BY <1>0, <1>c DEF ClientInit
<1>3. /\ t.queue \in Seq(Handlers) /\ OneAnswer(t.queue)
      /\ Has(t.queue, "answer") <=> ~t.callback
  BY <1>1, ShortQueues
<1>4. FetchTypes(t)
  <2>1. t.heard \in BOOLEAN
    BY <1>1, Zenon
  <2> QED BY <1>1, <1>3, <2>1 DEF FetchTypes
<1>5. AnswerSound(t) /\ Attended(t)
  BY <1>1, <1>3 DEF AnswerSound, Attended, Waits
<1> QED BY <1>2, <1>4, <1>5 DEF ClientInv, FetchSound

(* A handler leaves the queue: but for a read that had completed, nothing  *)
(* is lost with it.                                                        *)
LEMMA PoppedSound ==
    ASSUME ClientInv, fetch.queue # <<>>, Head(fetch.queue) # "answer"
    PROVE  /\ FetchSound(Popped) /\ Popped.status = fetch.status
           /\ Popped.callback = fetch.callback
           /\ Head(fetch.queue) \notin {"data", "eof"} => Attended(Popped)
<1> DEFINE p == Popped
<1>1. /\ DOMAIN p = FetchFields /\ p.posted = fetch.posted /\ p.callback = fetch.callback
      /\ p.status = fetch.status /\ p.reading = fetch.reading /\ p.heard = fetch.heard
      /\ p.answers = fetch.answers /\ p.stranded = fetch.stranded
      /\ p.queue = Tail(fetch.queue)
  BY DEF ClientInv, FetchSound, FetchTypes, FetchFields, Popped
<1>2. /\ p.queue \in Seq(Handlers)
      /\ \A h : Has(fetch.queue, h) <=> Has(p.queue, h) \/ h = Head(fetch.queue)
      /\ OneAnswer(fetch.queue) => OneAnswer(p.queue)
  BY <1>1, PoppedQueue DEF ClientInv, FetchSound, FetchTypes
<1> HIDE DEF p
<1>3. FetchTypes(p)
  BY <1>1, <1>2 DEF ClientInv, FetchSound, FetchTypes
<1>4. AnswerSound(p)
  BY <1>1, <1>2 DEF ClientInv, FetchSound, AnswerSound, Waits
<1>5. Head(fetch.queue) \notin {"data", "eof"} => Attended(p)
  BY <1>1, <1>2 DEF ClientInv, Attended
<1> QED BY <1>1, <1>3, <1>4, <1>5 DEF FetchSound, p

(* The connection is made: whatever onConnected does with it, it reads.    *)
LEMMA ConnectsInv == ClientInv /\ Connects => ClientInv'
<1> SUFFICES ASSUME ClientInv, Connects PROVE ClientInv'
  OBVIOUS
<1> DEFINE o == OnConnected(fetch)
           s == PostReads(o)
           r == [s EXCEPT !.reading = Alive(s)]
           l == [fetch EXCEPT !.status = "lost"]
<1>0. FetchSound(fetch) /\ fetch.status = "connecting"
  BY DEF ClientInv, Connects
<1>1. CASE Becomes(r, inbound)
  <2> DEFINE t == [fetch EXCEPT !.status = "open", !.timer = request.timeout]
             u == IF request.expect THEN t ELSE WriteBody(t)
  <2>1. FetchSound(t)
    <3>1. /\ DOMAIN t = FetchFields /\ t.posted = fetch.posted /\ t.queue = fetch.queue
          /\ t.status = "open" /\ t.callback = fetch.callback /\ t.heard = fetch.heard
          /\ t.answers = fetch.answers /\ t.stranded = fetch.stranded
      BY <1>0 DEF FetchSound, FetchTypes, FetchFields
    <3> HIDE DEF t
    <3> QED BY <1>0, <3>1 DEF FetchSound, FetchTypes, AnswerSound, Waits
  <2>2. o \in {CloseClient(t), HandleException(t), ReadResponse(u)}
    BY DEF OnConnected
  <2>3. t.status = "open"
    BY <1>0 DEF FetchSound, FetchTypes, FetchFields
  <2> HIDE DEF t, o
  <2>4. FetchSound(u) /\ Goes(t, u)
    <3>1. Goes(t, t)
      BY <2>1 DEF Goes
    <3> QED BY <2>1, <3>1, WriteBodyGoes DEF Goes
  <2> HIDE DEF u
  <2>5. Goes(t, o)
    BY <2>1, <2>2, <2>4, CloseGoes, HandleExceptionGoes, ReadGoes, GoesOn DEF ReadResponse
  <2>6. FetchSound(s) /\ s.status # "lost"
    <3>1. FetchSound(o)
      BY <2>5 DEF Goes
    <3>2. Goes(o, s)
      BY <3>1, PostReadsGoes
    <3> QED BY <2>3, <2>5, <3>2 DEF Goes
  <2> HIDE DEF s
  <2>7. FetchSound(r) /\ Attended(r)
    <3>1. /\ DOMAIN r = FetchFields /\ r.posted = s.posted /\ r.queue = s.queue
          /\ r.status = s.status /\ r.callback = s.callback /\ r.heard = s.heard
          /\ r.answers = s.answers /\ r.stranded = s.stranded
          /\ s.status = "open" => r.reading
      BY <2>6 DEF FetchSound, FetchTypes, FetchFields, Alive
    <3> HIDE DEF r
    <3>2. FetchSound(r)
      BY <2>6, <3>1 DEF FetchSound, FetchTypes, AnswerSound, Waits
    <3>3. Attended(r)
      BY <2>6, <3>1 DEF Attended
    <3> QED BY <3>2, <3>3
  <2> QED BY <1>1, <2>7, BecomesInv
<1>2. CASE Becomes(HandleException(l), inbound)
  <2>1. FetchSound(l)
    <3>1. /\ DOMAIN l = FetchFields /\ l.posted = fetch.posted /\ l.queue = fetch.queue
          /\ l.status = "lost" /\ l.callback = fetch.callback /\ l.heard = fetch.heard
          /\ l.answers = fetch.answers /\ l.stranded = fetch.stranded
      BY <1>0 DEF FetchSound, FetchTypes, FetchFields
    <3> HIDE DEF l
    <3> QED BY <1>0, <3>1 DEF FetchSound, FetchTypes, AnswerSound, Waits
  <2>2. l.status = "lost"
    BY <1>0 DEF FetchSound, FetchTypes, FetchFields
  <2> HIDE DEF l
  <2>3. Goes(l, HandleException(l)) /\ ~HandleException(l).callback
    BY <2>1, HandleExceptionGoes
  <2>4. FetchSound(HandleException(l)) /\ Attended(HandleException(l))
    BY <2>2, <2>3 DEF Goes, Attended
  <2> QED BY <1>2, <2>4, BecomesInv
<1> QED BY <1>1, <1>2 DEF Connects

LEMMA ReadCompletesInv == ClientInv /\ ReadCompletes => ClientInv'
<1> SUFFICES ASSUME ClientInv, ReadCompletes PROVE ClientInv'
  OBVIOUS
<1> DEFINE s(x) == [Post(fetch, x) EXCEPT !.reading = FALSE]
<1>1. PICK x \in {"data", "eof"} : Becomes(s(x), inbound)
  BY DEF ReadCompletes
<1> DEFINE p == Post(fetch, x)
           t == s(x)
<1>2. FetchSound(fetch) /\ Attended(fetch) /\ x \in Handlers \ {"answer"}
  BY DEF ClientInv, Handlers
<1>3. Goes(fetch, p) /\ p.status = fetch.status /\ p.callback = fetch.callback /\ Has(p.queue, x)
  BY <1>2, PostGoes, Posted
<1> HIDE DEF p
<1>4. /\ DOMAIN t = FetchFields /\ t.posted = p.posted /\ t.queue = p.queue
      /\ t.status = p.status /\ t.callback = p.callback /\ t.heard = p.heard
      /\ t.answers = p.answers /\ t.stranded = p.stranded
  BY <1>3 DEF Goes, FetchSound, FetchTypes, FetchFields, p
<1> HIDE DEF s
<1>5. FetchSound(t)
  BY <1>3, <1>4 DEF Goes, FetchSound, FetchTypes, AnswerSound, Waits
<1>6. Attended(t)
  BY <1>2, <1>3, <1>4 DEF Attended
<1> QED BY <1>1, <1>5, <1>6, BecomesInv

LEMMA DeadlinePassesInv == ClientInv /\ DeadlinePasses => ClientInv'
<1> SUFFICES ASSUME ClientInv, DeadlinePasses PROVE ClientInv'
  OBVIOUS
<1> DEFINE a == RemoveTimeout(fetch)
<1>1. SamePart(fetch, a) /\ FetchSound(fetch) /\ Attended(fetch)
  BY DEF ClientInv, FetchSound, FetchTypes, FetchFields, RemoveTimeout, SamePart
<1> HIDE DEF a
<1>2. Goes(fetch, a) /\ FetchSound(a)
  BY <1>1, SameGoes DEF Goes
<1>3. Goes(a, Post(a, "timeout"))
  BY <1>2, PostGoes DEF Handlers
<1>4. Goes(fetch, Post(a, "timeout"))
  BY <1>2, <1>3, GoesOn
<1>5. FetchSound(Post(a, "timeout")) /\ Attended(Post(a, "timeout"))
  BY <1>1, <1>4, AttendedOn DEF Goes
<1> QED BY <1>5, BecomesInv DEF DeadlinePasses, a

(* A handler that runs a method on what it popped.                         *)
LEMMA HandlesInv ==
    ASSUME ClientInv, NEW handler \in Handlers \ {"data", "eof", "answer"}, NEW s,
           Handles(handler, s), FetchSound(Popped) => Goes(Popped, s)
    PROVE  ClientInv'
<1>1. fetch.queue # <<>> /\ Head(fetch.queue) = handler /\ Becomes(s, inbound)
  BY DEF Handles
<1>2. FetchSound(Popped) /\ Attended(Popped)
  BY <1>1, PoppedSound
<1>3. FetchSound(s) /\ Attended(s)
  BY <1>2, AttendedOn DEF Goes
<1> QED BY <1>1, <1>3, BecomesInv

LEMMA HandlesDataInv == ClientInv /\ HandlesData => ClientInv'
<1> SUFFICES ASSUME ClientInv, HandlesData PROVE ClientInv'
  OBVIOUS
<1>1. FetchSound(Popped) /\ Popped.status = fetch.status /\ Popped.callback = fetch.callback
  BY PoppedSound DEF HandlesData
<1>2. PICK n \in {1, Len(inbound)} \cap 1..Len(inbound) :
        LET s == PostReads(ReadFromBuffered([Popped EXCEPT !.buffer = @ \o SubSeq(inbound, 1, n)]))
        IN IF fetch.status # "open" THEN Becomes(Popped, inbound)
           ELSE Becomes([s EXCEPT !.reading = Alive(s)], SubSeq(inbound, n + 1, Len(inbound)))
  BY DEF HandlesData
<1> DEFINE p == [Popped EXCEPT !.buffer = @ \o SubSeq(inbound, 1, n)]
           o == ReadFromBuffered(p)
           s == PostReads(o)
           r == [s EXCEPT !.reading = Alive(s)]
<1>3. CASE fetch.status # "open"
  <2>1. Attended(Popped)
    BY <1>1, <1>3 DEF ClientInv, Attended
  <2> QED BY <1>1, <1>2, <1>3, <2>1, BecomesInv
<1>4. CASE fetch.status = "open"
  <2>1. SamePart(Popped, p)
    BY <1>1 DEF FetchSound, FetchTypes, FetchFields, SamePart
  <2>2. Becomes(r, SubSeq(inbound, n + 1, Len(inbound)))
    BY <1>2, <1>4
  <2> HIDE DEF p
  <2>3. FetchSound(p) /\ p.status = "open"
    BY <1>1, <1>4, <2>1, SameGoes DEF Goes, SamePart
  <2>4. Goes(p, o)
    BY <2>3, ReadFromBufferedGoes
  <2> HIDE DEF o
  <2>5. Goes(o, s)
    BY <2>4, PostReadsGoes DEF Goes
  <2> HIDE DEF s
  <2>6. FetchSound(s) /\ s.status # "lost"
    BY <2>3, <2>4, <2>5 DEF Goes
  <2>7. /\ DOMAIN r = FetchFields /\ r.posted = s.posted /\ r.queue = s.queue
        /\ r.status = s.status /\ r.callback = s.callback /\ r.heard = s.heard
        /\ r.answers = s.answers /\ r.stranded = s.stranded
        /\ s.status = "open" => r.reading
    BY <2>6 DEF FetchSound, FetchTypes, FetchFields, Alive
  <2> HIDE DEF r
  <2>8. FetchSound(r)
    BY <2>6, <2>7 DEF FetchSound, FetchTypes, AnswerSound, Waits
  <2>9. Attended(r)
    BY <2>6, <2>7 DEF Attended
  <2> QED BY <2>2, <2>8, <2>9, BecomesInv
<1> QED BY <1>3, <1>4

(* A lost connection answers before anything else runs.                    *)
LEMMA ConnectionLostGoes ==
    ASSUME NEW s, FetchSound(s)
    PROVE  FetchSound(ConnectionLost(s)) /\ Attended(ConnectionLost(s))
<1> DEFINE t == [s EXCEPT !.status = "lost", !.reading = FALSE]
           u == IF s.want.kind = "close" THEN ReadToClose(t) ELSE t
           v == HandleException(u)
<1>1. FetchSound(t) /\ t.status = "lost"
  <2>1. /\ DOMAIN t = FetchFields /\ t.posted = s.posted /\ t.queue = s.queue
        /\ t.status = "lost" /\ t.callback = s.callback /\ t.heard = s.heard
        /\ t.answers = s.answers /\ t.stranded = s.stranded
    BY DEF FetchSound, FetchTypes, FetchFields
  <2> HIDE DEF t
  <2> QED BY <2>1 DEF FetchSound, FetchTypes, AnswerSound, Waits
<1>2. ConnectionLost(s) = v
  BY DEF ConnectionLost
<1> HIDE DEF t
<1>3. Goes(t, u)
  <2>1. Goes(t, t)
    BY <1>1 DEF Goes
  <2> QED BY <1>1, <2>1, ReadToCloseGoes
<1> HIDE DEF u
<1>4. Goes(u, v) /\ ~v.callback
  BY <1>3, HandleExceptionGoes DEF Goes
<1>5. Goes(t, v)
  BY <1>3, <1>4, GoesOn
<1> HIDE DEF v
<1> QED BY <1>1, <1>2, <1>4, <1>5 DEF Goes, Attended

LEMMA HandlesEndInv == ClientInv /\ HandlesEnd => ClientInv'
<1> SUFFICES ASSUME ClientInv, HandlesEnd PROVE ClientInv'
  OBVIOUS
<1> DEFINE s == IF fetch.status = "lost" THEN Popped ELSE ConnectionLost(Popped)
<1>1. PICK handler \in {"eof", "lost"} : Handles(handler, s)
  BY DEF HandlesEnd
<1>2. FetchSound(Popped) /\ Popped.status = fetch.status /\ Popped.callback = fetch.callback
  BY <1>1, PoppedSound DEF Handles
<1>3. FetchSound(s) /\ Attended(s)
  <2>1. CASE fetch.status = "lost"
    BY <1>2, <2>1 DEF ClientInv, Attended
  <2>2. CASE fetch.status # "lost"
    BY <1>2, <2>2, ConnectionLostGoes
  <2> QED BY <2>1, <2>2
<1> HIDE DEF s
<1> QED BY <1>1, <1>3, BecomesInv DEF Handles

LEMMA HandlesAnswerInv == ClientInv /\ HandlesAnswer => ClientInv'
<1> SUFFICES ASSUME ClientInv, HandlesAnswer PROVE ClientInv'
  OBVIOUS
<1> DEFINE s == [Popped EXCEPT !.answers = @ + 1]
<1>1. CASE Handles("answer", s)
  <2>1. fetch.queue # <<>> /\ Head(fetch.queue) = "answer" /\ Becomes(s, inbound)
    BY <1>1 DEF Handles
  <2>2. /\ Tail(fetch.queue) \in Seq(Handlers)
        /\ \A h : Has(fetch.queue, h) <=> Has(Tail(fetch.queue), h) \/ h = "answer"
        /\ OneAnswer(Tail(fetch.queue)) /\ ~Has(Tail(fetch.queue), "answer")
    BY <2>1, PoppedQueue DEF ClientInv, FetchSound, FetchTypes, AnswerSound
  <2>3. fetch.answers = 0 /\ ~Waits(fetch)
    BY <2>2 DEF ClientInv, FetchSound, AnswerSound
  <2>4. /\ DOMAIN s = FetchFields /\ s.posted = fetch.posted /\ s.queue = Tail(fetch.queue)
        /\ s.status = fetch.status /\ s.callback = fetch.callback /\ s.heard = fetch.heard
        /\ s.answers = 1 /\ s.reading = fetch.reading
    BY <2>3 DEF ClientInv, FetchSound, FetchTypes, FetchFields, Popped
  <2> HIDE DEF s
  <2>5. FetchTypes(s)
    BY <2>2, <2>4 DEF ClientInv, FetchSound, FetchTypes
  <2>6. AnswerSound(s)
    BY <2>2, <2>3, <2>4 DEF AnswerSound, Waits
  <2>7. Attended(s)
    BY <2>2, <2>4 DEF ClientInv, Attended
  <2> QED BY <2>1, <2>5, <2>6, <2>7, BecomesInv DEF FetchSound
<1>2. CASE Handles("unheard", Popped)
  BY <1>2, HandlesInv DEF Handlers, Goes
<1> QED BY <1>1, <1>2 DEF HandlesAnswer

LEMMA ClientStep == ClientInv /\ [ClientNext]_clientVars => ClientInv'
<1> SUFFICES ASSUME ClientInv, [ClientNext]_clientVars PROVE ClientInv'
  OBVIOUS
<1>1. CASE HandlesRead
  BY <1>1, HandlesInv, ReadFromBufferedGoes DEF HandlesRead, Handlers
<1>2. CASE HandlesTimeout
  BY <1>2, HandlesInv, HandleExceptionGoes DEF HandlesTimeout, Handlers
<1>3. CASE ClosesClient \/ UNCHANGED clientVars
  <2>1. fetch' = fetch
    BY <1>3 DEF ClosesClient, clientVars
  <2> QED BY <2>1 DEF ClientInv, FetchSound, FetchTypes, AnswerSound, Attended, Waits, Has, OneAnswer
<1> QED BY <1>1, <1>2, <1>3, ConnectsInv, ReadCompletesInv, DeadlinePassesInv, HandlesDataInv,
           HandlesEndInv, HandlesAnswerInv DEF ClientNext

-----------------------------------------------------------------------------
(* However redirects, the deadline, closes and lost connections fall       *)
(* together, the caller of HTTPClient::fetch gets one answer, and until it *)
(* comes something that brings it is under way (runCallback,               *)
(* handleException, finish).                                               *)
THEOREM FetchIsAnswered == ClientSpec => []FetchAnswered
<1>1. ClientInit => ClientInv
  BY InitClient
<1>2. ClientInv /\ [ClientNext]_clientVars => ClientInv'
  BY ClientStep
<1>3. ClientInv => FetchAnswered
  <2> SUFFICES ASSUME ClientInv PROVE FetchAnswered
    OBVIOUS
  <2>1. \A h : IsReady(fetch, h) <=> Has(fetch.queue, h)
    BY ReadyIsQueued DEF ClientInv, FetchSound, FetchTypes
  <2>2. fetch.answers <= 1
    BY DEF ClientInv, FetchSound, AnswerSound
  <2>3. \A h : Has(fetch.queue, h) => fetch.queue # <<>>
    BY DEF Has
  <2>4. fetch.callback => \/ fetch.status = "connecting" \/ fetch.reading \/ fetch.queue # <<>>
                          \/ fetch.timer \/ Deaf
    BY <2>1, <2>3 DEF ClientInv, FetchSound, FetchTypes, Attended, Deaf
  <2>5. ~(fetch.callback /\ fetch.heard) =>
            fetch.answers = 1 \/ IsReady(fetch, "answer") \/ fetch.stranded
    BY <2>1 DEF ClientInv, FetchSound, AnswerSound, Waits
  <2> QED BY <2>2, <2>4, <2>5 DEF FetchAnswered
<1> QED BY <1>1, <1>2, <1>3, PTL DEF ClientSpec

-----------------------------------------------------------------------------
(* What the client reads.                                                  *)
Names == {"head", "more", "end", "len", "cr", "lf", "body"}
Pieces == Names \X Nat

(* st is the stream f from its octet o + 1 on.                             *)
From(st, f, o) ==
    /\ st \in Seq(Pieces) /\ Len(st) = Len(f) - o
    /\ \A j \in 1..Len(st) : st[j] = f[o + j]

(* In f are the responses of e, in turn: off[i] octets are before the i-th. *)
Laid(f, off, e, h) ==
    /\ f \in Seq(Pieces) /\ off[1] = 0 /\ off[Len(e) + 1] = Len(f)
    /\ \A i \in 1..Len(e) :
        LET r == ResponseOctets(i, e[i], h)
        IN /\ off[i] \in Nat /\ off[i + 1] = off[i] + Len(r)
           /\ \A j \in 1..Len(r) : f[off[i] + j] = r[j]

(* The next response in the stream is the i-th of e.                       *)
AtResponse(st, e, i, h) == \E f, off : Laid(f, off, e, h) /\ From(st, f, off[i])

(* In the stream are d octets of data and the end of the chunks, or what   *)
(* is left of it when the client took more than the data, d < 0.           *)
Tailing(st, d) ==
    /\ st \in Seq(Pieces) /\ Len(st) = d + 7
    /\ \A j \in 1..7 : j + d > 0 => st[j + d] = ChunkEnd[j]

AtChunk(st, n) ==
    /\ st[1] = <<"len", n>> /\ st[2] = <<"cr", 0>> /\ st[3] = <<"lf", 0>>
    /\ Tailing(st, n + 3)

(* The next octets of the stream are the body of k.                        *)
AtBody(st, k, h) ==
    ~(h \/ k.code = 304) =>
        /\ k.body = "chunked" => AtChunk(st, k.length)
        /\ k.body = "length" => Len(st) = k.length

(* A match of the read w ends at octet n of b.                             *)
Matches(w, b, n) ==
    \/ w.kind = "until" /\ n > 1 /\ b[n - 1][1] = "cr" /\ b[n][1] = "lf"
    \/ w.kind = "regex" /\ b[n][1] = "end"

LEMMA LeastNat ==
    ASSUME NEW T, T \subseteq Nat, T # {}
    PROVE  \E x \in T : \A y \in T : x <= y
<1> DEFINE R == {ss \in Nat \X Nat : ss[1] < ss[2]}
<1>1. IsWellFoundedOn(R, Nat)
  BY NatLessThanWellFounded DEF OpToRel
<1>2. PICK x \in T : \A y \in T : ~ (<<y, x>> \in R)
  <2> HIDE DEF R
  <2> QED BY <1>1, WFMin, Zenon
<1>3. ASSUME NEW y \in T PROVE ~(y < x)
  <2>1. <<y, x>> \in Nat \X Nat /\ <<y, x>>[1] = y /\ <<y, x>>[2] = x
    OBVIOUS
  <2>2. ~ (<<y, x>>[1] < <<y, x>>[2])
    BY <1>2, <2>1
  <2> QED BY <2>1, <2>2
<1> QED BY <1>3

(* What a read finds.                                                      *)
LEMMA FirstMatch ==
    ASSUME NEW b \in Seq(Pieces), NEW w, w.kind \in {"until", "regex"}
    PROVE  LET n == FindReadPos(w, b)
           IN \/ n = 0
              \/ n \in 1..Len(b) /\ Matches(w, b, n) /\ \A j \in 1..(n - 1) : ~Matches(w, b, j)
<1> DEFINE f == FindReadPos(w, b)
           T == {i \in 1..Len(b) : Matches(w, b, i)}
<1>1. f = IF \E i \in 1..Len(b) : Matches(w, b, i)
          THEN CHOOSE i \in 1..Len(b) : Matches(w, b, i) /\ \A j \in 1..(i - 1) : ~Matches(w, b, j)
          ELSE 0
  <2>1. CASE w.kind = "until"
    <3>1. \A i : Matches(w, b, i) <=> i > 1 /\ b[i - 1][1] = "cr" /\ b[i][1] = "lf"
      BY <2>1 DEF Matches
    <3>2. f = IF \E i \in 1..Len(b) : i > 1 /\ b[i - 1][1] = "cr" /\ b[i][1] = "lf"
              THEN CHOOSE i \in 1..Len(b) : (i > 1 /\ b[i - 1][1] = "cr" /\ b[i][1] = "lf") /\
                    \A j \in 1..(i - 1) : ~(j > 1 /\ b[j - 1][1] = "cr" /\ b[j][1] = "lf")
              ELSE 0
      BY <2>1, Zenon DEF FindReadPos, UpTo
    <3> QED BY <3>1, <3>2, Zenon
  <2>2. CASE w.kind = "regex"
    <3>1. \A i : Matches(w, b, i) <=> b[i][1] = "end"
      BY <2>2 DEF Matches
    <3>2. f = IF \E i \in 1..Len(b) : b[i][1] = "end"
              THEN CHOOSE i \in 1..Len(b) : b[i][1] = "end" /\ \A j \in 1..(i - 1) : ~(b[j][1] = "end")
              ELSE 0
      BY <2>2, Zenon DEF FindReadPos, UpTo
    <3> QED BY <3>1, <3>2, Zenon
  <2> QED BY <2>1, <2>2
<1> HIDE DEF f
<1>2. CASE \E i \in 1..Len(b) : Matches(w, b, i)
  <2>1. PICK x \in T : \A z \in T : x <= z
    <3>1. T # {} /\ T \subseteq Nat
      BY <1>2
    <3> HIDE DEF T
    <3> QED BY <3>1, LeastNat
  <2>2. x \in 1..Len(b) /\ Matches(w, b, x) /\ \A j \in 1..(x - 1) : ~Matches(w, b, j)
    BY <2>1
  <2> QED BY <1>1, <1>2, <2>2 DEF f
<1>3. CASE ~ \E i \in 1..Len(b) : Matches(w, b, i)
  BY <1>1, <1>3 DEF f
<1> QED BY <1>2, <1>3

LEMMA FindsBytes ==
    ASSUME NEW b, NEW w, w.kind = "bytes"
    PROVE  FindReadPos(w, b) = IF Len(b) >= w.n THEN w.n ELSE 0
BY Zenon DEF FindReadPos

-----------------------------------------------------------------------------
(* Streams that move on.                                                   *)
LEMMA Dropped ==
    ASSUME NEW st \in Seq(Pieces), NEW n \in 0..Len(st)
    PROVE  LET c == SubSeq(st, n + 1, Len(st))
           IN /\ c \in Seq(Pieces) /\ Len(c) = Len(st) - n
              /\ \A j \in 1..Len(c) : c[j] = st[n + j]
OBVIOUS

LEMMA FromDropped ==
    ASSUME NEW st, NEW f, NEW o \in Nat, From(st, f, o), Len(f) \in Nat, NEW n \in 0..Len(st)
    PROVE  From(SubSeq(st, n + 1, Len(st)), f, o + n)
<1> DEFINE c == SubSeq(st, n + 1, Len(st))
<1>1. /\ c \in Seq(Pieces) /\ Len(c) = Len(st) - n
      /\ \A j \in 1..Len(c) : c[j] = st[n + j]
  BY Dropped DEF From
<1> HIDE DEF c
<1>2. Len(st) = Len(f) - o /\ \A j \in 1..Len(st) : st[j] = f[o + j]
  BY DEF From
<1>3. ASSUME NEW j \in 1..Len(c) PROVE c[j] = f[(o + n) + j]
  <2>1. n + j \in 1..Len(st) /\ o + (n + j) = (o + n) + j
    BY <1>1
  <2> QED BY <1>1, <1>2, <2>1
<1>4. Len(c) = Len(f) - (o + n)
  BY <1>1, <1>2
<1> QED BY <1>1, <1>3, <1>4 DEF From, c

LEMMA TailingDropped ==
    ASSUME NEW st, NEW d \in Int, Tailing(st, d), NEW n \in 0..Len(st)
    PROVE  Tailing(SubSeq(st, n + 1, Len(st)), d - n)
<1> DEFINE c == SubSeq(st, n + 1, Len(st))
<1>1. /\ c \in Seq(Pieces) /\ Len(c) = Len(st) - n
      /\ \A j \in 1..Len(c) : c[j] = st[n + j]
  BY Dropped DEF Tailing
<1> HIDE DEF c
<1>2. Len(st) = d + 7 /\ \A j \in 1..7 : j + d > 0 => st[j + d] = ChunkEnd[j]
  BY DEF Tailing
<1>3. ASSUME NEW j \in 1..7, j + (d - n) > 0 PROVE c[j + (d - n)] = ChunkEnd[j]
  <2>1. j + (d - n) \in 1..Len(c) /\ n + (j + (d - n)) = j + d /\ j + d > 0
    BY <1>1, <1>2, <1>3
  <2> QED BY <1>1, <1>2, <2>1
<1>4. Len(c) = (d - n) + 7
  BY <1>1, <1>2
<1> QED BY <1>1, <1>3, <1>4 DEF Tailing, c

(* A piece of the stream, and two of its parts joined.                     *)
LEMMA PieceIs == \A what \in Names, n \in Nat : <<what, n>> \in Pieces
BY DEF Pieces

LEMMA ShiftedIn ==
    ASSUME NEW o \in Nat, NEW n \in Nat, NEW j \in 1..n
    PROVE  o + j \in 1..(o + n)
OBVIOUS

LEMMA Repeated ==
    ASSUME NEW x \in Pieces, NEW n \in Nat
    PROVE  LET d == [j \in 1..n |-> x] IN d \in Seq(Pieces) /\ Len(d) = n
OBVIOUS

Spliced(c, a, b) ==
    /\ c \in Seq(Pieces) /\ Len(c) = Len(a) + Len(b)
    /\ \A j \in 1..Len(a) : c[j] = a[j]
    /\ \A j \in 1..Len(b) : c[Len(a) + j] = b[j]

LEMMA Joins ==
    ASSUME NEW a \in Seq(Pieces), NEW b \in Seq(Pieces)
    PROVE  Spliced(a \o b, a, b)
BY DEF Spliced

LEMMA LineIs ==
    /\ Line \in Seq(Pieces) /\ Len(Line) = 2
    /\ Line[1] = <<"cr", 0>> /\ Line[2] = <<"lf", 0>>
<1>1. <<"cr", 0>> \in Pieces /\ <<"lf", 0>> \in Pieces
  BY PieceIs DEF Names
<1> QED BY <1>1 DEF Line

(* The end of the chunks: its third octet is the only length in it.        *)
LEMMA ChunkEndIs ==
    /\ ChunkEnd \in Seq(Pieces) /\ Len(ChunkEnd) = 7 /\ ChunkEnd[3] = <<"len", 0>>
    /\ \A j \in 1..7 : ChunkEnd[j][1] = "len" => j = 3
<1> DEFINE zero == << <<"len", 0>> >>
           a == Line \o zero
           b == a \o Line
<1>1. zero \in Seq(Pieces) /\ Len(zero) = 1 /\ zero[1] = <<"len", 0>>
  BY PieceIs DEF Names
<1> HIDE DEF zero
<1>2. /\ a \in Seq(Pieces) /\ Len(a) = 3
      /\ a[1] = <<"cr", 0>> /\ a[2] = <<"lf", 0>> /\ a[3] = <<"len", 0>>
  <2>1. Spliced(a, Line, zero)
    BY <1>1, LineIs, Joins
  <2> HIDE DEF a
  <2>2. a[2 + 1] = zero[1]
    BY <1>1, <2>1, LineIs DEF Spliced
  <2> QED BY <1>1, <2>1, <2>2, LineIs DEF Spliced
<1> HIDE DEF a
<1>3. /\ b \in Seq(Pieces) /\ Len(b) = 5 /\ b[3] = <<"len", 0>> /\ b[1] = <<"cr", 0>> /\ b[2] = <<"lf", 0>>
      /\ b[4] = <<"cr", 0>> /\ b[5] = <<"lf", 0>>
  <2>1. Spliced(b, a, Line)
    BY <1>2, LineIs, Joins
  <2> HIDE DEF b
  <2>2. b[3 + 1] = Line[1] /\ b[3 + 2] = Line[2] /\ b[1] = a[1] /\ b[2] = a[2] /\ b[3] = a[3]
    BY <1>2, <2>1, LineIs DEF Spliced
  <2> QED BY <1>2, <2>1, <2>2, LineIs DEF Spliced
<1> HIDE DEF b
<1>4. ChunkEnd = b \o Line
  BY DEF ChunkEnd, b, a, zero
<1>5. /\ ChunkEnd \in Seq(Pieces) /\ Len(ChunkEnd) = 7 /\ ChunkEnd[3] = <<"len", 0>>
      /\ ChunkEnd[1] = <<"cr", 0>> /\ ChunkEnd[2] = <<"lf", 0>>
      /\ ChunkEnd[4] = <<"cr", 0>> /\ ChunkEnd[5] = <<"lf", 0>>
      /\ ChunkEnd[6] = <<"cr", 0>> /\ ChunkEnd[7] = <<"lf", 0>>
  <2>1. Spliced(ChunkEnd, b, Line)
    BY <1>3, <1>4, LineIs, Joins
  <2>2. /\ ChunkEnd[5 + 1] = Line[1] /\ ChunkEnd[5 + 2] = Line[2]
        /\ ChunkEnd[1] = b[1] /\ ChunkEnd[2] = b[2] /\ ChunkEnd[4] = b[4] /\ ChunkEnd[5] = b[5]
        /\ ChunkEnd[3] = b[3]
    BY <1>3, <2>1, LineIs DEF Spliced
  <2> QED BY <1>3, <2>1, <2>2, LineIs DEF Spliced
<1>6. ASSUME NEW j \in 1..7, ChunkEnd[j][1] = "len" PROVE j = 3
  <2> HIDE DEF ChunkEnd
  <2>1. j \in {1, 2, 3, 4, 5, 6, 7}
    OBVIOUS
  <2>2. <<"cr", 0>>[1] # "len" /\ <<"lf", 0>>[1] # "len"
    OBVIOUS
  <2> QED BY <1>5, <1>6, <2>1, <2>2
<1> QED BY <1>5, <1>6

-----------------------------------------------------------------------------
(* What a server sends.                                                    *)
HeaderLength(k) == IF k.long THEN 4 ELSE 2

LEMMA ChunkedIs ==
    ASSUME NEW data \in Seq(Pieces), NEW n \in Nat, Len(data) = n
    PROVE  LET b == (<< <<"len", n>> >> \o Line) \o data \o ChunkEnd
           IN b \in Seq(Pieces) /\ AtChunk(b, n)
<1> DEFINE one == << <<"len", n>> >>
           a == one \o Line
           c == a \o data
           b == c \o ChunkEnd
<1>1. one \in Seq(Pieces) /\ Len(one) = 1 /\ one[1] = <<"len", n>>
  BY PieceIs DEF Names
<1> HIDE DEF one
<1>2. Spliced(a, one, Line)
  BY <1>1, LineIs, Joins
<1> HIDE DEF a
<1>3. /\ a \in Seq(Pieces) /\ Len(a) = 3
      /\ a[1] = <<"len", n>> /\ a[2] = <<"cr", 0>> /\ a[3] = <<"lf", 0>>
  <2>1. a[1] = one[1] /\ a[1 + 1] = Line[1] /\ a[1 + 2] = Line[2]
    BY <1>1, <1>2, LineIs DEF Spliced
  <2> QED BY <1>1, <1>2, <2>1, LineIs DEF Spliced
<1>4. Spliced(c, a, data)
  BY <1>3, Joins
<1> HIDE DEF c
<1>5. /\ c \in Seq(Pieces) /\ Len(c) = 3 + n
      /\ c[1] = <<"len", n>> /\ c[2] = <<"cr", 0>> /\ c[3] = <<"lf", 0>>
  BY <1>3, <1>4 DEF Spliced
<1>6. Spliced(b, c, ChunkEnd)
  BY <1>5, ChunkEndIs, Joins
<1> HIDE DEF b
<1>7. /\ b \in Seq(Pieces) /\ Len(b) = (n + 3) + 7
      /\ b[1] = <<"len", n>> /\ b[2] = <<"cr", 0>> /\ b[3] = <<"lf", 0>>
  <2>1. /\ b \in Seq(Pieces) /\ Len(b) = Len(c) + Len(ChunkEnd)
        /\ \A j \in 1..Len(c) : b[j] = c[j]
    BY <1>6, Zenon DEF Spliced
  <2>2. 1 \in 1..Len(c) /\ 2 \in 1..Len(c) /\ 3 \in 1..Len(c) /\ Len(b) = (n + 3) + 7
    BY <1>5, <2>1, ChunkEndIs
  <2> QED BY <1>5, <2>1, <2>2, Zenon
<1>8. ASSUME NEW j \in 1..7 PROVE b[j + (n + 3)] = ChunkEnd[j]
  <2>1. Len(c) + j = j + (n + 3)
    BY <1>5
  <2> QED BY <1>6, <2>1, ChunkEndIs DEF Spliced
<1>9. b \in Seq(Pieces) /\ AtChunk(b, n)
  BY <1>7, <1>8 DEF AtChunk, Tailing
<1> QED BY <1>9 DEF b, c, a, one

LEMMA ResponseIs ==
    ASSUME NEW i \in Nat, NEW k, k.length \in Nat, NEW h
    PROVE  LET r == ResponseOctets(i, k, h)
               n == HeaderLength(k)
           IN /\ r \in Seq(Pieces) /\ n \in 1..Len(r)
              /\ r[1] = <<"head", i>> /\ r[n][1] = "end"
              /\ \A j \in 1..(n - 1) : r[j][1] # "end"
              /\ AtBody(SubSeq(r, n + 1, Len(r)), k, h)
              /\ k.body = "close" /\ k.length = 0 => Len(r) = n
<1> DEFINE head == IF k.long THEN << <<"head", i>>, <<"more", i>>, <<"more", i>>, <<"end", i>> >>
                            ELSE << <<"head", i>>, <<"end", i>> >>
           data == [j \in 1..k.length |-> <<"body", i>>]
           body == IF h \/ k.code = 304 THEN <<>>
                   ELSE IF k.body = "chunked"
                        THEN (<< <<"len", k.length>> >> \o Line) \o data \o ChunkEnd
                        ELSE data
           r == ResponseOctets(i, k, h)
           n == HeaderLength(k)
<1>1. r = head \o body
  BY Zenon DEF ResponseOctets
<1>2. /\ head \in Seq(Pieces) /\ Len(head) = n /\ n \in {2, 4}
      /\ head[1] = <<"head", i>> /\ head[n][1] = "end"
      /\ \A j \in 1..(n - 1) : head[j][1] # "end"
  <2>1. <<"head", i>> \in Pieces /\ <<"more", i>> \in Pieces /\ <<"end", i>> \in Pieces
    BY PieceIs DEF Names
  <2>2. CASE k.long
    BY <2>1, <2>2 DEF HeaderLength
  <2>3. CASE ~k.long
    BY <2>1, <2>3 DEF HeaderLength
  <2> QED BY <2>2, <2>3
<1>3. data \in Seq(Pieces) /\ Len(data) = k.length
  <2>1. <<"body", i>> \in Pieces
    BY PieceIs DEF Names
  <2> QED BY <2>1, Repeated, Zenon
<1> HIDE DEF head, data, r, n
<1>4. /\ body \in Seq(Pieces) /\ AtBody(body, k, h)
      /\ k.body = "close" /\ k.length = 0 => Len(body) = 0
  <2>1. CASE h \/ k.code = 304
    <3>1. body = <<>>
      BY <2>1, Zenon
    <3> HIDE DEF body
    <3> QED BY <2>1, <3>1 DEF AtBody
  <2>2. CASE ~(h \/ k.code = 304) /\ k.body = "chunked"
    <3>1. body = (<< <<"len", k.length>> >> \o Line) \o data \o ChunkEnd
      BY <2>2, Zenon
    <3> HIDE DEF body
    <3>2. body \in Seq(Pieces) /\ AtChunk(body, k.length)
      BY <1>3, <3>1, ChunkedIs, Zenon
    <3> QED BY <2>2, <3>2 DEF AtBody
  <2>3. CASE ~(h \/ k.code = 304) /\ k.body # "chunked"
    <3>1. body = data
      BY <2>3, Zenon
    <3> HIDE DEF body
    <3> QED BY <1>3, <2>3, <3>1 DEF AtBody
  <2> QED BY <2>1, <2>2, <2>3
<1> HIDE DEF body
<1>5. Spliced(r, head, body)
  BY <1>1, <1>2, <1>4, Joins
<1>6. /\ r \in Seq(Pieces) /\ n \in 1..Len(r) /\ Len(r) = n + Len(body)
      /\ r[1] = <<"head", i>> /\ r[n][1] = "end"
      /\ \A j \in 1..(n - 1) : r[j][1] # "end"
  BY <1>2, <1>4, <1>5 DEF Spliced
<1>7. SubSeq(r, n + 1, Len(r)) = body
  <2> DEFINE c == SubSeq(r, n + 1, Len(r))
  <2>1. c \in Seq(Pieces) /\ Len(c) = Len(r) - n /\ \A j \in 1..Len(c) : c[j] = r[n + j]
    BY <1>6, Dropped
  <2> HIDE DEF c
  <2>2. Len(c) = Len(body) /\ \A j \in 1..Len(c) : c[j] = body[j]
    BY <1>2, <1>4, <1>5, <1>6, <2>1 DEF Spliced
  <2>3. c = body
    BY <1>4, <2>1, <2>2, SeqEqual
  <2> QED BY <2>3 DEF c
<1>8. /\ AtBody(SubSeq(r, n + 1, Len(r)), k, h)
      /\ k.body = "close" /\ k.length = 0 => Len(r) = n
  <2>1. AtBody(SubSeq(r, n + 1, Len(r)), k, h)
    BY <1>4, <1>7, Zenon
  <2>2. Len(body) = 0 => Len(r) = n
    BY <1>2, <1>6
  <2> QED BY <1>4, <2>1, <2>2, Zenon
<1> QED BY <1>6, <1>8, Zenon DEF r, n

(* FlattenSeq adds one sequence after the other.                           *)
LEMMA FlattenAdds ==
    ASSUME NEW S, NEW seqs \in Seq(Seq(S)), seqs # <<>>
    PROVE  \E g : /\ g[1] = seqs[1] /\ FlattenSeq(seqs) = g[Len(seqs)]
                  /\ \A i \in 2..Len(seqs) : g[i] = g[i - 1] \o seqs[i]
<1> DEFINE n == Len(seqs)
           B(f, m) == [i \in 1..m |-> IF i = 1 THEN seqs[i] ELSE f[i - 1] \o seqs[i]]
           D(f, m) == f = B(f, m)
           flatten == CHOOSE f : D(f, n)
<1>1. n \in Nat /\ n # 0
  OBVIOUS
<1>2. FlattenSeq(seqs) = flatten[n]
  BY <1>1, Zenon DEF FlattenSeq
<1> HIDE DEF n
<1>3. \E f : D(f, n)
  <2> DEFINE P(m) == \E f : D(f, m)
             T == {m \in 1..n : ~P(m)}
  <2> HIDE DEF P
  <2>1. SUFFICES ASSUME T # {} PROVE FALSE
    <3>1. n \in 1..n
      BY <1>1
    <3>2. T = {} => P(n)
      BY <3>1
    <3> QED BY <3>2 DEF P
  <2>2. PICK m \in T : \A y \in T : m <= y
    <3>1. T \subseteq Nat /\ T # {}
      BY <1>1, <2>1
    <3> HIDE DEF T
    <3> QED BY <3>1, LeastNat
  <2>3. m \in 1..n /\ ~P(m)
    BY <2>2
  <2>4. CASE m = 1
    <3> DEFINE f == [i \in 1..1 |-> seqs[i]]
    <3>1. D(f, 1)
      OBVIOUS
    <3>2. P(1)
      BY <3>1 DEF P
    <3> QED BY <2>3, <2>4, <3>2
  <2>5. CASE m # 1
    <3>1. P(m - 1)
      <4>1. m - 1 \in 1..n /\ ~(m <= m - 1)
        BY <1>1, <2>3, <2>5
      <4> QED BY <2>2, <4>1
    <3>2. PICK g : D(g, m - 1)
      BY <3>1 DEF P
    <3> DEFINE f == [i \in 1..m |-> IF i = m THEN g[m - 1] \o seqs[m] ELSE g[i]]
    <3>3. ASSUME NEW i \in 1..m
          PROVE  f[i] = IF i = 1 THEN seqs[i] ELSE f[i - 1] \o seqs[i]
      <4>1. CASE i = m
        <5>1. i # 1 /\ m - 1 \in 1..m /\ m - 1 # m
          BY <2>3, <2>5, <4>1
        <5>2. f[i] = g[m - 1] \o seqs[m] /\ f[m - 1] = g[m - 1]
          BY <4>1, <5>1
        <5> HIDE DEF f
        <5> QED BY <4>1, <5>1, <5>2
      <4>2. CASE i # m
        <5>1. i \in 1..(m - 1) /\ (i # 1 => i - 1 \in 1..m /\ i - 1 # m)
          BY <2>3, <4>2
        <5>2. f[i] = g[i] /\ (i # 1 => f[i - 1] = g[i - 1])
          BY <4>2, <5>1
        <5> HIDE DEF f
        <5>3. B(g, m - 1)[i] = IF i = 1 THEN seqs[i] ELSE g[i - 1] \o seqs[i]
          BY <5>1
        <5>4. g[i] = B(g, m - 1)[i]
          BY <3>2
        <5> QED BY <5>2, <5>3, <5>4
      <4> QED BY <4>1, <4>2
    <3>4. DOMAIN f = 1..m /\ f = [i \in 1..m |-> f[i]]
      OBVIOUS
    <3> HIDE DEF f
    <3>5. f = B(f, m)
      BY <3>3, <3>4
    <3>6. P(m)
      BY <3>5 DEF P
    <3> QED BY <2>3, <3>6
  <2> QED BY <2>4, <2>5
<1>4. D(flatten, n)
  <2> HIDE DEF D
  <2> QED BY <1>3, Zenon
<1> HIDE DEF flatten
<1>5. ASSUME NEW i \in 1..n
      PROVE  flatten[i] = IF i = 1 THEN seqs[i] ELSE flatten[i - 1] \o seqs[i]
  <2>1. B(flatten, n)[i] = IF i = 1 THEN seqs[i] ELSE flatten[i - 1] \o seqs[i]
    OBVIOUS
  <2>2. flatten[i] = B(flatten, n)[i]
    BY <1>4
  <2> QED BY <2>1, <2>2
<1>6. /\ flatten[1] = seqs[1]
      /\ \A i \in 2..n : flatten[i] = flatten[i - 1] \o seqs[i]
  <2> HIDE DEF D
  <2>1. 1 \in 1..n /\ \A i \in 2..n : i \in 1..n /\ i # 1
    BY <1>1
  <2> QED BY <1>5, <2>1
<1> QED BY <1>2, <1>6 DEF n

Concatenates(f, off, seqs) ==
    /\ off[1] = 0 /\ off[Len(seqs) + 1] = Len(f)
    /\ \A i \in 1..Len(seqs) :
        /\ off[i] \in Nat /\ off[i + 1] = off[i] + Len(seqs[i])
        /\ \A j \in 1..Len(seqs[i]) : f[off[i] + j] = seqs[i][j]

LEMMA FlattenLays ==
    ASSUME NEW seqs \in Seq(Seq(Pieces)), seqs # <<>>
    PROVE  /\ FlattenSeq(seqs) \in Seq(Pieces)
           /\ \E off : Concatenates(FlattenSeq(seqs), off, seqs)
<1> DEFINE n == Len(seqs)
           f == FlattenSeq(seqs)
<1>1. n \in Nat \ {0} /\ \A i \in 1..n : seqs[i] \in Seq(Pieces)
  OBVIOUS
<1>2. PICK g : /\ g[1] = seqs[1] /\ f = g[n]
               /\ \A i \in 2..n : g[i] = g[i - 1] \o seqs[i]
  BY FlattenAdds
<1> HIDE DEF n, f
<1>3. ASSUME NEW i \in 1..n PROVE g[i] \in Seq(Pieces)
  <2> DEFINE T == {m \in 1..n : g[m] \notin Seq(Pieces)}
  <2>1. SUFFICES ASSUME T # {} PROVE FALSE
    OBVIOUS
  <2>2. PICK m \in T : \A y \in T : m <= y
    <3>1. T \subseteq Nat
      BY <1>1
    <3> HIDE DEF T
    <3> QED BY <2>1, <3>1, LeastNat
  <2>3. m \in 1..n /\ g[m] \notin Seq(Pieces) /\ seqs[m] \in Seq(Pieces)
    BY <1>1, <2>2
  <2>4. m # 1
    BY <1>2, <2>3
  <2>5. m \in 2..n /\ m - 1 \in 1..n /\ ~(m <= m - 1)
    BY <1>1, <2>3, <2>4
  <2>6. g[m - 1] \in Seq(Pieces)
    BY <2>2, <2>5
  <2>7. g[m - 1] \o seqs[m] \in Seq(Pieces)
    BY <2>3, <2>6
  <2> QED BY <1>2, <2>3, <2>5, <2>7
<1>4. ASSUME NEW i \in 2..n PROVE Spliced(g[i], g[i - 1], seqs[i])
  <2>1. i - 1 \in 1..n /\ i \in 1..n
    BY <1>1
  <2>2. g[i - 1] \in Seq(Pieces) /\ seqs[i] \in Seq(Pieces)
    BY <1>1, <1>3, <2>1
  <2>3. Spliced(g[i - 1] \o seqs[i], g[i - 1], seqs[i])
    BY <2>2, Joins
  <2> QED BY <1>2, <2>3
(* What was added stays where it is.                                       *)
<1>5. ASSUME NEW i \in 1..n
      PROVE  Len(g[i]) <= Len(f) /\ \A j \in 1..Len(g[i]) : f[j] = g[i][j]
  <2> DEFINE P(m) == Len(g[i]) <= Len(g[m]) /\ \A j \in 1..Len(g[i]) : g[m][j] = g[i][j]
             T == {m \in i..n : ~P(m)}
  <2>1. SUFFICES P(n)
    BY <1>2
  <2>2. SUFFICES ASSUME T # {} PROVE FALSE
    <3>1. n \in i..n
      BY <1>1
    <3> QED BY <3>1
  <2>3. PICK m \in T : \A y \in T : m <= y
    <3>1. T \subseteq Nat
      BY <1>1
    <3> HIDE DEF T
    <3> QED BY <2>2, <3>1, LeastNat
  <2>4. m \in i..n /\ ~P(m)
    BY <2>3
  <2>5. Len(g[i]) \in Nat
    BY <1>3
  <2>6. m # i
    BY <2>4, <2>5
  <2>7. m \in 2..n /\ m - 1 \in i..n /\ ~(m <= m - 1) /\ m - 1 \in 1..n
    BY <1>1, <2>4, <2>6
  <2>8. P(m - 1)
    BY <2>3, <2>7
  <2>9. Spliced(g[m], g[m - 1], seqs[m])
    BY <1>4, <2>7
  <2>10. Len(g[m - 1]) \in Nat /\ Len(seqs[m]) \in Nat
    BY <1>1, <1>3, <2>7
  <2>11. P(m)
    <3>1. Len(g[i]) <= Len(g[m])
      <4>1. Len(g[m]) = Len(g[m - 1]) + Len(seqs[m])
        BY <2>9 DEF Spliced
      <4>2. Len(g[i]) <= Len(g[m - 1])
        BY <2>8
      <4>3. \A x, y, z \in Nat : x <= y => x <= y + z
        OBVIOUS
      <4>4. Len(g[i]) <= Len(g[m - 1]) + Len(seqs[m])
        BY <2>5, <2>10, <4>2, <4>3, Zenon
      <4> QED BY <4>1, <4>4, Zenon
    <3>2. ASSUME NEW j \in 1..Len(g[i]) PROVE g[m][j] = g[i][j]
      <4>1. j \in 1..Len(g[m - 1])
        BY <2>5, <2>8, <2>10
      <4> QED BY <2>8, <2>9, <4>1 DEF Spliced
    <3> QED BY <3>1, <3>2
  <2> QED BY <2>4, <2>11
<1> DEFINE off == [i \in 1..(n + 1) |-> IF i = 1 THEN 0 ELSE Len(g[i - 1])]
<1>6. /\ off[1] = 0 /\ off[n + 1] = Len(f)
      /\ \A i \in 2..n : off[i] = Len(g[i - 1])
      /\ \A i \in 1..n : off[i + 1] = Len(g[i])
  BY <1>1, <1>2
<1> HIDE DEF off
<1>7. ASSUME NEW i \in 1..n
      PROVE  /\ off[i] \in Nat /\ off[i + 1] = off[i] + Len(seqs[i])
             /\ \A j \in 1..Len(seqs[i]) : f[off[i] + j] = seqs[i][j]
  <2>1. CASE i = 1
    <3>1. off[i] = 0 /\ off[i + 1] = Len(seqs[i]) /\ g[i] = seqs[i] /\ Len(seqs[i]) \in Nat
      BY <1>1, <1>2, <1>6, <2>1
    <3>2. ASSUME NEW j \in 1..Len(seqs[i]) PROVE f[off[i] + j] = seqs[i][j]
      <4>1. off[i] + j = j
        BY <3>1
      <4> QED BY <1>5, <3>1, <4>1
    <3> QED BY <3>1, <3>2
  <2>2. CASE i # 1
    <3>1. i \in 2..n /\ i - 1 \in 1..n
      BY <1>1, <2>2
    <3>2. Spliced(g[i], g[i - 1], seqs[i]) /\ off[i] = Len(g[i - 1]) /\ off[i + 1] = Len(g[i])
      BY <1>4, <1>6, <3>1
    <3>3. Len(g[i - 1]) \in Nat /\ Len(seqs[i]) \in Nat
      BY <1>1, <1>3, <3>1
    <3>4. off[i] \in Nat /\ off[i + 1] = off[i] + Len(seqs[i])
      BY <3>2, <3>3 DEF Spliced
    <3>5. ASSUME NEW j \in 1..Len(seqs[i]) PROVE f[off[i] + j] = seqs[i][j]
      <4>1. off[i] + j \in 1..Len(g[i])
        <5>1. Len(g[i]) = off[i] + Len(seqs[i])
          BY <3>2, <3>4
        <5>2. off[i] \in Nat /\ Len(seqs[i]) \in Nat
          BY <3>3, <3>4, Zenon
        <5>3. off[i] + j \in 1..(off[i] + Len(seqs[i]))
          BY <5>2, ShiftedIn, Zenon
        <5> QED BY <5>1, <5>3, Zenon
      <4>2. f[off[i] + j] = g[i][off[i] + j]
        BY <1>5, <4>1
      <4>3. g[i][off[i] + j] = seqs[i][j]
        BY <3>2 DEF Spliced
      <4> QED BY <4>2, <4>3
    <3> QED BY <3>4, <3>5
  <2> QED BY <2>1, <2>2
<1>8. f \in Seq(Pieces)
  BY <1>1, <1>2, <1>3
<1>9. Concatenates(f, off, seqs)
  BY <1>6, <1>7 DEF Concatenates, n
<1> QED BY <1>8, <1>9 DEF f

-----------------------------------------------------------------------------
(* The stream of a server that conforms.                                   *)
LEMMA ResponsesTyped ==
    ASSUME NEW e, Conforms(e), NEW i \in 1..Len(e)
    PROVE  /\ Len(e) \in Nat \ {0} /\ i \in Nat
           /\ e[i].code \in Nat /\ e[i].length \in Nat
           /\ e[i].body \in {"length", "chunked", "close"}
<1> DEFINE R == [code : Nat, body : {"length", "chunked", "close"}, length : Nat,
                 long : BOOLEAN, location : BOOLEAN]
<1>1. e \in Seq(R) /\ e # <<>>
  BY Zenon DEF Conforms
<1>2. \A k \in R : /\ k.code \in Nat /\ k.length \in Nat
                  /\ k.body \in {"length", "chunked", "close"}
  OBVIOUS
<1> HIDE DEF R
<1>3. e[i] \in R /\ Len(e) \in Nat \ {0} /\ i \in Nat
  BY <1>1
<1> QED BY <1>2, <1>3

LEMMA InboundLaid ==
    ASSUME NEW e, Conforms(e), NEW h
    PROVE  /\ Inbound(e, h) \in Seq(Pieces) /\ AtResponse(Inbound(e, h), e, 1, h)
<1> DEFINE seqs == [i \in 1..Len(e) |-> ResponseOctets(i, e[i], h)]
           f == Inbound(e, h)
<1>1. ASSUME NEW i \in 1..Len(e) PROVE ResponseOctets(i, e[i], h) \in Seq(Pieces)
  <2>1. i \in Nat /\ e[i].length \in Nat
    BY ResponsesTyped
  <2> QED BY <2>1, ResponseIs
<1>2. Len(e) \in Nat \ {0}
  BY DEF Conforms
<1>3. seqs \in Seq(Seq(Pieces)) /\ seqs # <<>> /\ Len(seqs) = Len(e)
  BY <1>1, <1>2, IsASeq
<1>4. f = FlattenSeq(seqs)
  BY DEF Inbound
<1>5. \A i \in 1..Len(e) : seqs[i] = ResponseOctets(i, e[i], h)
  OBVIOUS
<1> HIDE DEF seqs, f
<1>6. f \in Seq(Pieces)
  BY <1>3, <1>4, FlattenLays
<1>7. PICK off : Concatenates(f, off, seqs)
  BY <1>3, <1>4, FlattenLays, Zenon
<1>8. Laid(f, off, e, h)
  <2>1. off[1] = 0 /\ off[Len(e) + 1] = Len(f)
    BY <1>3, <1>7 DEF Concatenates
  <2>2. ASSUME NEW i \in 1..Len(e)
        PROVE  LET r == ResponseOctets(i, e[i], h)
               IN /\ off[i] \in Nat /\ off[i + 1] = off[i] + Len(r)
                  /\ \A j \in 1..Len(r) : f[off[i] + j] = r[j]
    <3>1. seqs[i] = ResponseOctets(i, e[i], h) /\ i \in 1..Len(seqs)
      BY <1>3, <1>5
    <3>2. /\ off[i] \in Nat /\ off[i + 1] = off[i] + Len(seqs[i])
          /\ \A j \in 1..Len(seqs[i]) : f[off[i] + j] = seqs[i][j]
      BY <1>7, <3>1, Zenon DEF Concatenates
    <3> QED BY <3>1, <3>2, Zenon
  <2> QED BY <1>6, <2>1, <2>2, Zenon DEF Laid
<1>9. From(f, f, off[1])
  <2>1. off[1] = 0
    BY <1>7 DEF Concatenates
  <2> QED BY <1>6, <2>1 DEF From
<1>10. AtResponse(f, e, 1, h)
  BY <1>8, <1>9 DEF AtResponse
<1> QED BY <1>6, <1>10 DEF f

(* The client reads the header of the next response, which is in b.        *)
LEMMA HeaderRead ==
    ASSUME NEW e, Conforms(e), NEW i \in 1..Len(e), NEW h, NEW st, AtResponse(st, e, i, h),
           NEW b \in Seq(Pieces), Len(b) <= Len(st), \A j \in 1..Len(b) : b[j] = st[j],
           NEW w, w.kind = "regex", FindReadPos(w, b) # 0
    PROVE  LET n == FindReadPos(w, b)
               c == SubSeq(st, n + 1, Len(st))
           IN /\ b[1] = <<"head", i>>
              /\ IF i < Len(e) THEN AtResponse(c, e, i + 1, h) ELSE AtBody(c, e[i], h)
<1> DEFINE n == FindReadPos(w, b)
           c == SubSeq(st, n + 1, Len(st))
           r == ResponseOctets(i, e[i], h)
           m == HeaderLength(e[i])
<1>1. /\ Len(e) \in Nat \ {0} /\ i \in Nat /\ e[i].length \in Nat
  BY ResponsesTyped
<1>2. PICK f, off : Laid(f, off, e, h) /\ From(st, f, off[i])
  BY DEF AtResponse
<1>3. /\ r \in Seq(Pieces) /\ m \in 1..Len(r)
      /\ r[1] = <<"head", i>> /\ r[m][1] = "end"
      /\ \A j \in 1..(m - 1) : r[j][1] # "end"
      /\ AtBody(SubSeq(r, m + 1, Len(r)), e[i], h)
      /\ e[i].body = "close" /\ e[i].length = 0 => Len(r) = m
  BY <1>1, ResponseIs
<1> HIDE DEF m
<1>4. /\ f \in Seq(Pieces) /\ off[i] \in Nat /\ off[i + 1] = off[i] + Len(r)
      /\ \A j \in 1..Len(r) : f[off[i] + j] = r[j]
      /\ off[Len(e) + 1] = Len(f)
  BY <1>2 DEF Laid
<1>5. /\ st \in Seq(Pieces) /\ Len(st) = Len(f) - off[i]
      /\ \A j \in 1..Len(st) : st[j] = f[off[i] + j]
  BY <1>2 DEF From
<1>6. n \in 1..Len(b) /\ b[n][1] = "end" /\ \A j \in 1..(n - 1) : b[j][1] # "end"
  <2>1. n \in 1..Len(b) /\ Matches(w, b, n) /\ \A j \in 1..(n - 1) : ~Matches(w, b, j)
    BY FirstMatch
  <2> HIDE DEF n
  <2>2. \A j : Matches(w, b, j) <=> b[j][1] = "end"
    BY DEF Matches
  <2> QED BY <2>1, <2>2
<1> HIDE DEF n, r
<1>7. ASSUME NEW j \in 1..Len(b), j <= Len(r) PROVE b[j] = r[j]
  <2>1. Len(b) \in Nat /\ Len(st) \in Nat /\ Len(r) \in Nat
    BY <1>3, <1>5
  <2>2. j \in 1..Len(st) /\ j \in 1..Len(r)
    BY <1>7, <2>1
  <2>3. b[j] = st[j] /\ st[j] = f[off[i] + j] /\ f[off[i] + j] = r[j]
    BY <1>4, <1>5, <2>2, Zenon
  <2> QED BY <2>3
<1>8. n = m
  <2>1. n <= m
    <3>1. SUFFICES ASSUME n > m PROVE FALSE
      BY <1>3, <1>6
    <3>2. m \in 1..(n - 1) /\ m \in 1..Len(b) /\ m <= Len(r)
      BY <1>3, <1>6, <3>1
    <3> QED BY <1>3, <1>6, <1>7, <3>2
  <2>2. n >= m
    <3>1. SUFFICES ASSUME n < m PROVE FALSE
      BY <1>3, <1>6
    <3>2. n \in 1..(m - 1) /\ n <= Len(r)
      BY <1>3, <1>6, <3>1
    <3> QED BY <1>3, <1>6, <1>7, <3>2
  <2> QED BY <1>3, <1>6, <2>1, <2>2
<1>9. b[1] = <<"head", i>>
  <2>1. 1 \in 1..Len(b) /\ 1 <= Len(r)
    BY <1>3, <1>6
  <2>2. b[1] = r[1]
    BY <1>7, <2>1
  <2> QED BY <1>3, <2>2, Zenon
<1>10. n \in 0..Len(st)
  BY <1>5, <1>6
<1>11. From(c, f, off[i] + n)
  <2>1. off[i] \in Nat /\ Len(f) \in Nat
    BY <1>4
  <2> QED BY <1>2, <1>10, <2>1, FromDropped, Zenon
<1>12. CASE i < Len(e)
  <2>1. i \in 1..(Len(e) - 1)
    BY <1>1, <1>12
  <2>2. e[i].body = "close" /\ e[i].length = 0
    BY <2>1, Zenon DEF Conforms
  <2>3. Len(r) = m
    BY <1>3, <2>2
  <2>4. off[i + 1] = off[i] + n
    BY <1>4, <1>8, <2>3
  <2> QED BY <1>2, <1>9, <1>11, <1>12, <2>4 DEF AtResponse, n
<1>13. CASE ~(i < Len(e))
  <2>1. i = Len(e)
    BY <1>1, <1>13
  <2>2. Len(st) = Len(r) /\ \A j \in 1..Len(st) : st[j] = r[j]
    <3>1. /\ Len(st) = off[Len(e) + 1] - off[i] /\ off[i] \in Nat /\ Len(r) \in Nat
          /\ off[Len(e) + 1] = off[i] + Len(r)
      BY <1>3, <1>4, <1>5, <2>1
    <3>2. Len(st) = Len(r)
      BY <3>1
    <3>3. ASSUME NEW j \in 1..Len(st) PROVE st[j] = r[j]
      <4>1. j \in 1..Len(r)
        BY <3>2
      <4> QED BY <1>4, <1>5, <4>1, Zenon
    <3> QED BY <3>2, <3>3
  <2>3. st = r
    BY <1>3, <1>5, <2>2, SeqEqual
  <2>4. AtBody(c, e[i], h)
    BY <1>3, <1>8, <2>3
  <2> QED BY <1>9, <1>13, <2>4 DEF n
<1> QED BY <1>12, <1>13

-----------------------------------------------------------------------------
(* What the client expects of the octets it has not consumed.              *)
Delivered(s) ==
    LET k == Here(s)[s.response]
    IN /\ s.response = Len(Here(s))
       /\ ~s.asks.head /\ k.body \in {"length", "chunked"} /\ k.code # 304
             => s.total = k.length

(* The data of a response is read as its header told.                      *)
ReadsFixed(s, st, k) ==
    /\ s.state = "READ_FIXED_BODY" /\ k.body = "length"
    /\ s.want.kind = "bytes" /\ s.want.n \in Nat \ {0}
    /\ s.total = s.bytesRead /\ s.bytesToRead = k.length
    /\ Len(st) = k.length - s.total

ReadsLength(s, st, k) ==
    /\ s.state = "READ_CHUNK_LENGTH" /\ k.body = "chunked" /\ s.want.kind = "until"
    /\ IF s.total = 0 THEN AtChunk(st, k.length)
       ELSE s.total >= k.length /\ Tailing(st, (k.length - s.total) - 2)

ReadsChunk(s, st, k) ==
    /\ s.state = "READ_CHUNK_DATA" /\ k.body = "chunked"
    /\ s.want.kind = "bytes" /\ s.want.n \in Nat \ {0}
    /\ s.total = s.bytesRead /\ s.bytesToRead = k.length
    /\ Tailing(st, k.length - s.total)

ReadsChunkEnds(s, st, k) ==
    /\ s.state = "READ_CHUNK_ENDS" /\ k.body = "chunked"
    /\ s.want.kind = "bytes" /\ s.want.n = 2
    /\ s.total > 0 /\ s.total >= k.length /\ Tailing(st, k.length - s.total)

ReadsLastEnds(s, k) ==
    /\ s.state = "READ_LAST_CHUNK_ENDS" /\ k.body = "chunked"
    /\ s.want.kind = "bytes" /\ s.want.n \in Nat \ {0} /\ s.total = k.length

ReadsToClose(s, k) ==
    s.state = "READ_UNTIL_CLOSE" /\ k.body = "close" /\ s.want.kind = "close"

ReadsBody(s, st, k) ==
    \/ ReadsFixed(s, st, k) \/ ReadsLength(s, st, k) \/ ReadsChunk(s, st, k)
    \/ ReadsChunkEnds(s, st, k) \/ ReadsLastEnds(s, k) \/ ReadsToClose(s, k)

ReadsHeader(s, st) ==
    /\ s.state = "READ_HEADER" /\ s.want.kind = "regex" /\ s.total = 0
    /\ \E i \in 1..Len(Here(s)) : AtResponse(st, Here(s), i, s.asks.head)

(* The present response is the last one of its connection.                 *)
AtLast(s) == s.response = Len(Here(s)) /\ s.code = Last(Here(s)).code

Expects(s, st) ==
    ReadsHeader(s, st) \/ (AtLast(s) /\ ReadsBody(s, st, Last(Here(s))))

Placed(s) ==
    /\ DOMAIN s = FetchFields /\ s.buffer \in Seq(Pieces)
    /\ s.hop \in 1..Len(exchange) /\ s.redirects \in Nat
    /\ s.hop + s.redirects = 1 + request.redirects
    /\ s.total \in Nat /\ s.bytesRead \in Nat /\ s.bytesToRead \in Nat

Aligned(s, st) ==
    /\ Placed(s) /\ st \in Seq(Pieces)
    /\ s.want = NoRead \/ (s.status # "connecting" /\ Expects(s, st))
    /\ s.outcome = "response" =>
            s.want = NoRead /\ s.status # "connecting" /\ (s.response > 0 => Delivered(s))
    /\ s.status = "connecting" =>
            s.buffer = <<>> /\ st = Inbound(Here(s), s.asks.head) /\ s.total = 0 /\ s.want = NoRead

(* What the methods that answer, close and time leave alone.               *)
SameRead(s, t) ==
    /\ DOMAIN t = FetchFields /\ t.state = s.state /\ t.want = s.want /\ t.buffer = s.buffer
    /\ t.hop = s.hop /\ t.asks = s.asks /\ t.redirects = s.redirects /\ t.code = s.code /\ t.response = s.response
    /\ t.bytesRead = s.bytesRead /\ t.bytesToRead = s.bytesToRead /\ t.total = s.total

Kept(s, t) == SameRead(s, t) /\ (t.status = "connecting" <=> s.status = "connecting")

Calm(s, t) == Kept(s, t) /\ t.outcome \in {s.outcome, "error"}

-----------------------------------------------------------------------------
LEMMA CalmOn ==
    ASSUME NEW s, NEW t, NEW u, Calm(s, t), Calm(t, u)
    PROVE  Calm(s, u)
BY DEF Calm, Kept, SameRead

LEMMA SameReadsBody ==
    ASSUME NEW s, NEW t, t.state = s.state, t.want = s.want, t.total = s.total,
           t.bytesRead = s.bytesRead, t.bytesToRead = s.bytesToRead, NEW st, NEW k
    PROVE  ReadsBody(t, st, k) <=> ReadsBody(s, st, k)
<1>1. ReadsFixed(t, st, k) <=> ReadsFixed(s, st, k)
  BY Zenon DEF ReadsFixed
<1>2. ReadsLength(t, st, k) <=> ReadsLength(s, st, k)
  BY Zenon DEF ReadsLength
<1>3. ReadsChunk(t, st, k) <=> ReadsChunk(s, st, k)
  BY Zenon DEF ReadsChunk
<1>4. ReadsChunkEnds(t, st, k) <=> ReadsChunkEnds(s, st, k)
  BY Zenon DEF ReadsChunkEnds
<1>5. ReadsLastEnds(t, k) <=> ReadsLastEnds(s, k)
  BY Zenon DEF ReadsLastEnds
<1>6. ReadsToClose(t, k) <=> ReadsToClose(s, k)
  BY Zenon DEF ReadsToClose
<1> QED BY <1>1, <1>2, <1>3, <1>4, <1>5, <1>6, Zenon DEF ReadsBody

LEMMA SameReadExpects ==
    ASSUME NEW s, NEW t, SameRead(s, t), NEW st
    PROVE  /\ Expects(t, st) <=> Expects(s, st)
           /\ Placed(s) => Placed(t)
           /\ Delivered(t) <=> Delivered(s)
           /\ Here(t) = Here(s)
<1>1. Here(t) = Here(s)
  BY DEF Kept, SameRead, Here
<1>2. Expects(t, st) <=> Expects(s, st)
  <2>1. ReadsHeader(t, st) <=> ReadsHeader(s, st)
    BY <1>1, Zenon DEF Kept, SameRead, ReadsHeader
  <2>2. AtLast(t) <=> AtLast(s)
    BY <1>1, Zenon DEF Kept, SameRead, AtLast
  <2>3. ASSUME NEW k PROVE ReadsBody(t, st, k) <=> ReadsBody(s, st, k)
    <3>1. /\ t.state = s.state /\ t.want = s.want /\ t.total = s.total
          /\ t.bytesRead = s.bytesRead /\ t.bytesToRead = s.bytesToRead
      BY DEF SameRead
    <3> QED BY <3>1, SameReadsBody, Zenon
  <2> QED BY <1>1, <2>1, <2>2, <2>3, Zenon DEF Expects
<1>3. Placed(s) => Placed(t)
  BY DEF Kept, SameRead, Placed
<1>4. Delivered(t) <=> Delivered(s)
  <2>1. t.response = s.response /\ t.total = s.total /\ t.asks = s.asks
    BY DEF Kept, SameRead
  <2> QED BY <1>1, <2>1 DEF Delivered
<1> QED BY <1>1, <1>2, <1>3, <1>4

LEMMA CalmAligned ==
    ASSUME NEW s, NEW t, NEW st, Calm(s, t), Aligned(s, st)
    PROVE  Aligned(t, st)
<1>1. /\ Expects(t, st) <=> Expects(s, st)
      /\ Placed(t) /\ (Delivered(t) <=> Delivered(s)) /\ Here(t) = Here(s)
  BY SameReadExpects DEF Calm, Kept, Aligned
<1>2. Kept(s, t) /\ t.outcome \in {s.outcome, "error"}
  BY DEF Calm
<1>3. /\ t.want = s.want /\ t.buffer = s.buffer /\ t.total = s.total /\ t.response = s.response
      /\ t.asks = s.asks
      /\ t.status = "connecting" <=> s.status = "connecting"
      /\ t.outcome = "response" => s.outcome = "response"
  BY <1>2 DEF Kept, SameRead
<1> QED BY <1>1, <1>3, Zenon DEF Aligned

LEMMA PostReadsCalm ==
    ASSUME NEW s, DOMAIN s = FetchFields PROVE Calm(s, PostReads(s))
BY DEF Calm, Kept, SameRead, PostReads, FetchFields

LEMMA PostCalm ==
    ASSUME NEW s, NEW handler, DOMAIN s = FetchFields PROVE Calm(s, Post(s, handler))
<1> DEFINE p == PostReads(s)
<1>1. Calm(s, p)
  BY PostReadsCalm
<1>2. Post(s, handler) = [p EXCEPT !.queue = Append(@, handler)]
  BY DEF Post
<1> HIDE DEF p
<1>3. Calm(p, Post(s, handler))
  BY <1>1, <1>2 DEF Calm, Kept, SameRead, FetchFields
<1> QED BY <1>1, <1>3, CalmOn

LEMMA RemoveTimeoutCalm ==
    ASSUME NEW s, DOMAIN s = FetchFields PROVE Calm(s, RemoveTimeout(s))
BY DEF Calm, Kept, SameRead, RemoveTimeout, FetchFields

LEMMA ThrowCalm ==
    ASSUME NEW s, DOMAIN s = FetchFields PROVE Calm(s, Throw(s))
BY DEF Calm, Kept, SameRead, Throw, FetchFields

LEMMA CloseCalm ==
    ASSUME NEW s, DOMAIN s = FetchFields PROVE Calm(s, CloseClient(s))
<1> DEFINE p == Post(s, "lost")
<1>1. Calm(s, s)
  BY DEF Calm, Kept, SameRead
<1>2. CloseClient(s) \in {s, [s EXCEPT !.status = "closing"],
                          [p EXCEPT !.status = "closing", !.reading = FALSE]}
  BY Zenon DEF CloseClient
<1>3. Alive(s) \/ CloseClient(s) = s
  BY Zenon DEF CloseClient
<1>4. Calm(s, p)
  BY PostCalm
<1> HIDE DEF p
<1>5. CASE Alive(s)
  <2>1. Calm(s, [s EXCEPT !.status = "closing"])
    BY <1>5 DEF Calm, Kept, SameRead, FetchFields, Alive
  <2>2. Calm(p, [p EXCEPT !.status = "closing", !.reading = FALSE])
    BY <1>4, <1>5 DEF Calm, Kept, SameRead, FetchFields, Alive
  <2>3. Calm(s, [p EXCEPT !.status = "closing", !.reading = FALSE])
    BY <1>4, <2>2, CalmOn
  <2> QED BY <1>1, <1>2, <2>1, <2>3
<1> QED BY <1>1, <1>3, <1>5

LEMMA RunCallbackKept ==
    ASSUME NEW s, DOMAIN s = FetchFields, NEW outcome
    PROVE  LET t == RunCallback(s, outcome)
           IN Kept(s, t) /\ t.outcome \in {s.outcome, outcome}
<1> DEFINE p == Post(s, IF s.heard THEN "answer" ELSE "unheard")
<1>1. RunCallback(s, outcome) \in {s, [p EXCEPT !.callback = FALSE, !.outcome = outcome]}
  BY Zenon DEF RunCallback
<1>2. Kept(s, p) /\ Kept(s, s)
  BY PostCalm DEF Calm, Kept, SameRead
<1> HIDE DEF p
<1>3. LET t == [p EXCEPT !.callback = FALSE, !.outcome = outcome]
      IN Kept(s, t) /\ t.outcome = outcome
  BY <1>2 DEF Kept, SameRead, FetchFields
<1> QED BY <1>1, <1>2, <1>3

LEMMA HandleExceptionCalm ==
    ASSUME NEW s, DOMAIN s = FetchFields PROVE Calm(s, HandleException(s))
<1> DEFINE a == [s EXCEPT !.raised = FALSE]
           b == RemoveTimeout(a)
           c == RunCallback(b, "error")
<1>1. Calm(s, a) /\ DOMAIN a = FetchFields
  BY DEF Calm, Kept, SameRead, FetchFields
<1>2. HandleException(s) \in {a, CloseClient(c)}
  BY Zenon DEF HandleException
<1> HIDE DEF a
<1>3. Calm(a, b) /\ DOMAIN b = FetchFields
  BY <1>1, RemoveTimeoutCalm DEF Calm, Kept, SameRead
<1> HIDE DEF b
<1>4. Calm(b, c) /\ DOMAIN c = FetchFields
  BY <1>3, RunCallbackKept DEF Calm, Kept, SameRead
<1> HIDE DEF c
<1>5. Calm(c, CloseClient(c))
  BY <1>4, CloseCalm
<1> QED BY <1>1, <1>2, <1>3, <1>4, <1>5, CalmOn

LEMMA WriteBodyCalm ==
    ASSUME NEW s, DOMAIN s = FetchFields PROVE Calm(s, WriteBody(s))
<1> DEFINE c == CloseClient(s)
<1>1. Calm(s, s) /\ Calm(s, [s EXCEPT !.bodySent = TRUE])
  BY DEF Calm, Kept, SameRead, FetchFields
<1>2. Calm(s, c) /\ DOMAIN c = FetchFields
  BY CloseCalm DEF Calm, Kept, SameRead
<1>3. WriteBody(s) \in {s, Throw(c), Throw(s), [s EXCEPT !.bodySent = TRUE]}
  BY Zenon DEF WriteBody
<1> HIDE DEF c
<1>4. Calm(c, Throw(c)) /\ Calm(s, Throw(s))
  BY <1>2, ThrowCalm
<1>5. Calm(s, Throw(c))
  BY <1>2, <1>4, CalmOn
<1> QED BY <1>1, <1>3, <1>4, <1>5, Zenon

-----------------------------------------------------------------------------
(* A handler runs: its read is over, and nobody has had the response.      *)
Midway(s) ==
    Placed(s) /\ s.want = NoRead /\ s.status # "connecting" /\ s.outcome # "response"

(* The handler that found s leaves t: on the same connection, of whose     *)
(* stream st is left, or at the start of the next one.                     *)
Reached(s, t, st) ==
    \/ t.hop = s.hop /\ t.asks = s.asks /\ t.buffer = s.buffer /\ t.status # "connecting" /\ Aligned(t, st)
    \/ t.hop = s.hop + 1 /\ t.buffer = <<>> /\ Aligned(t, Inbound(Here(t), t.asks.head))

LEMMA ReachedCalm ==
    ASSUME NEW s, NEW t, NEW u, NEW st, Reached(s, t, st), Calm(t, u)
    PROVE  Reached(s, u, st)
<1>1. /\ u.hop = t.hop /\ u.asks = t.asks /\ u.buffer = t.buffer
      /\ u.status = "connecting" <=> t.status = "connecting"
  BY DEF Calm, Kept, SameRead
<1>2. Here(u) = Here(t)
  BY <1>1 DEF Here
<1>3. \A v : Aligned(t, v) => Aligned(u, v)
  BY CalmAligned
<1> QED BY <1>1, <1>2, <1>3 DEF Reached

LEMMA MidwayCalm ==
    ASSUME NEW s, Midway(s), NEW t, Calm(s, t), NEW st \in Seq(Pieces)
    PROVE  Reached(s, t, st)
<1>1. Placed(t)
  BY SameReadExpects DEF Calm, Kept, Midway
<1>2. /\ t.want = NoRead /\ t.outcome # "response" /\ t.status # "connecting"
      /\ t.hop = s.hop /\ t.asks = s.asks /\ t.buffer = s.buffer
  BY DEF Calm, Kept, SameRead, Midway
<1> QED BY <1>1, <1>2 DEF Reached, Aligned

LEMMA ReadFields ==
    ASSUME NEW s, DOMAIN s = FetchFields, NEW state, NEW w
    PROVE  LET t == Read(s, state, w)
           IN /\ DOMAIN t = FetchFields /\ t.state = state /\ t.want = w
              /\ t.buffer = s.buffer /\ t.hop = s.hop /\ t.asks = s.asks /\ t.redirects = s.redirects
              /\ t.code = s.code /\ t.response = s.response /\ t.raised = s.raised
              /\ t.bytesRead = s.bytesRead /\ t.bytesToRead = s.bytesToRead
              /\ t.total = s.total /\ t.status = s.status /\ t.outcome = s.outcome
BY DEF Read, FetchFields

LEMMA ReadReached ==
    ASSUME NEW s, Midway(s), NEW st \in Seq(Pieces), NEW state, NEW w,
           Expects(Read(s, state, w), st)
    PROVE  Reached(s, Read(s, state, w), st)
<1> DEFINE t == Read(s, state, w)
<1>1. /\ DOMAIN t = FetchFields
      /\ t.buffer = s.buffer /\ t.hop = s.hop /\ t.asks = s.asks /\ t.redirects = s.redirects
      /\ t.bytesRead = s.bytesRead /\ t.bytesToRead = s.bytesToRead
      /\ t.total = s.total /\ t.status = s.status /\ t.outcome = s.outcome
  BY ReadFields DEF Midway, Placed
<1>2. Expects(t, st)
  OBVIOUS
<1> HIDE DEF t
<1>3. Placed(t) /\ t.status # "connecting" /\ t.outcome # "response"
  BY <1>1 DEF Midway, Placed
<1>4. Aligned(t, st)
  BY <1>2, <1>3 DEF Aligned
<1> QED BY <1>1, <1>3, <1>4 DEF Reached, t

-----------------------------------------------------------------------------
(* The end of a response, and the connection after it.                     *)
LEMMA FreshAligned ==
    ASSUME NEW hop \in 1..Len(exchange), NEW redirects \in Nat, NEW asks, NEW heard,
           hop + redirects = 1 + request.redirects, Conforms(exchange[hop])
    PROVE  LET t == StartRequestTo(hop, redirects, asks, heard)
           IN /\ t.hop = hop /\ t.asks = asks /\ t.buffer = <<>> /\ DOMAIN t = FetchFields
              /\ t.outcome # "response" /\ Aligned(t, Inbound(exchange[hop], asks.head))
<1> DEFINE f == [Fresh(hop, redirects, asks) EXCEPT !.heard = heard]
           t == StartRequestTo(hop, redirects, asks, heard)
<1>1. t \in {f, HandleException(f)}
  BY Zenon DEF StartRequestTo
<1>2. /\ DOMAIN f = FetchFields /\ f.buffer = <<>> /\ f.hop = hop /\ f.redirects = redirects
      /\ f.asks = asks
      /\ f.total = 0 /\ f.bytesRead = 0 /\ f.bytesToRead = 0
      /\ f.want = NoRead /\ f.outcome = "none" /\ f.status = "connecting"
  BY DEF Fresh, FetchFields
<1> HIDE DEF f, t
<1>3. Inbound(exchange[hop], asks.head) \in Seq(Pieces)
  BY InboundLaid
<1>4. Placed(f)
  BY <1>2 DEF Placed
<1>5. Aligned(f, Inbound(exchange[hop], asks.head))
  <2>1. Here(f) = exchange[hop]
    BY <1>2 DEF Here
  <2> QED BY <1>2, <1>3, <1>4, <2>1 DEF Aligned
<1>6. Calm(f, f) /\ Calm(f, HandleException(f))
  BY <1>2, HandleExceptionCalm DEF Calm, Kept, SameRead
<1>7. Calm(f, t)
  BY <1>1, <1>6
<1>8. Aligned(t, Inbound(exchange[hop], asks.head))
  BY <1>5, <1>7, CalmAligned
<1>9. t.hop = hop /\ t.asks = asks /\ t.buffer = <<>> /\ t.outcome # "response" /\ DOMAIN t = FetchFields
  BY <1>2, <1>7 DEF Calm, Kept, SameRead
<1> QED BY <1>8, <1>9 DEF t

(* The servers are those that were assumed.                                *)
LEMMA ServersConform ==
    ASSUME exchange \in Exchanges, request \in Requests, NEW hop \in 1..Len(exchange)
    PROVE  /\ Conforms(exchange[hop]) /\ Len(exchange) \in Nat \ {0}
           /\ BlockSize \in Nat \ {0} /\ request.redirects \in Nat
           /\ Last(exchange[hop]).code \in RedirectCodes /\ Last(exchange[hop]).location
                /\ hop <= request.redirects => hop < Len(exchange)
BY ClientAssumption, ServerAssumption

LEMMA LastResponse ==
    ASSUME NEW s, AtLast(s)
    PROVE  s.response = Len(Here(s)) /\ Here(s)[s.response] = Last(Here(s))
BY DEF AtLast, Last

LEMMA FinishReached ==
    ASSUME exchange \in Exchanges, request \in Requests,
           NEW s, Midway(s), AtLast(s), Delivered(s), NEW st \in Seq(Pieces)
    PROVE  Reached(s, FinishResponse(s), st)
<1> DEFINE t == RemoveTimeout([s EXCEPT !.state = "READ_NONE"])
           r == RunCallback(t, "response")
           x == [Throw(t) EXCEPT !.callback = FALSE, !.stranded = @ \/ s.callback]
           u == StartRequestTo(s.hop + 1, s.redirects - 1, Repeats(s), s.callback /\ s.heard)
           v == [u EXCEPT !.answers = s.answers, !.outcome = s.outcome, !.stranded = s.stranded,
                          !.queue = PostedAnswer(s) \o @]
<1>1. /\ DOMAIN t = FetchFields /\ t.buffer = s.buffer /\ t.hop = s.hop /\ t.asks = s.asks
      /\ t.redirects = s.redirects /\ t.code = s.code /\ t.response = s.response
      /\ t.bytesRead = s.bytesRead /\ t.bytesToRead = s.bytesToRead /\ t.total = s.total
      /\ t.want = s.want /\ t.status = s.status /\ t.outcome = s.outcome
  BY DEF Midway, Placed, RemoveTimeout, FetchFields
<1>2. FinishResponse(s) = IF ~ShouldFollowRedirect(s) THEN CloseClient(r)
                          ELSE IF ~Here(s)[s.response].location THEN Throw(t)
                          ELSE IF client = "closed" THEN x ELSE v
  BY Zenon DEF FinishResponse
<1> HIDE DEF t
<1>3. Reached(s, CloseClient(r), st)
  <2>1. Kept(t, r) /\ r.outcome \in {t.outcome, "response"} /\ DOMAIN r = FetchFields
    BY <1>1, RunCallbackKept DEF Kept, SameRead
  <2> HIDE DEF r
  <2>2. /\ r.want = NoRead /\ r.status # "connecting" /\ r.buffer = s.buffer /\ r.hop = s.hop /\ r.asks = s.asks
        /\ r.total = s.total /\ r.response = s.response
    BY <1>1, <2>1 DEF Kept, SameRead, Midway
  <2>3. Placed(r)
    BY <1>1, <2>1 DEF Kept, SameRead, Placed, Midway
  <2>4. Delivered(r)
    BY <2>2 DEF Delivered, Here
  <2>5. Aligned(r, st)
    BY <2>2, <2>3, <2>4 DEF Aligned
  <2>6. Reached(s, r, st)
    BY <2>2, <2>5 DEF Reached
  <2>7. Calm(r, CloseClient(r))
    BY <2>1, CloseCalm
  <2> QED BY <2>6, <2>7, ReachedCalm
<1>4. Reached(s, x, st)
  <2>1. Calm(t, x)
    BY <1>1 DEF Calm, Kept, SameRead, Throw, FetchFields
  <2>2. Midway(t)
    BY <1>1 DEF Midway, Placed
  <2> HIDE DEF x
  <2>3. Reached(t, x, st)
    BY <2>1, <2>2, MidwayCalm
  <2> QED BY <1>1, <2>3 DEF Reached
<1>41. Reached(s, Throw(t), st)
  <2>1. Calm(t, Throw(t))
    BY <1>1, ThrowCalm
  <2>2. Midway(t)
    BY <1>1 DEF Midway, Placed
  <2>3. Reached(t, Throw(t), st)
    BY <2>1, <2>2, MidwayCalm
  <2> QED BY <1>1, <2>3 DEF Reached
<1>5. CASE ShouldFollowRedirect(s) /\ Here(s)[s.response].location /\ client # "closed"
  <2>1. s.redirects > 0 /\ s.code \in RedirectCodes
    BY <1>5 DEF ShouldFollowRedirect
  <2>2. /\ s.hop \in 1..Len(exchange) /\ s.redirects \in Nat
        /\ s.hop + s.redirects = 1 + request.redirects
    BY DEF Midway, Placed
  <2>3. Last(exchange[s.hop]).code \in RedirectCodes /\ Last(exchange[s.hop]).location
    BY <1>5, <2>1, LastResponse DEF AtLast, Here
  <2>4. Len(exchange) \in Nat /\ s.hop < Len(exchange)
    <3>1. Len(exchange) \in Nat /\ request.redirects \in Nat
      BY <2>2, ServersConform
    <3>2. s.hop <= request.redirects
      BY <2>1, <2>2, <3>1
    <3> QED BY <2>2, <2>3, <3>1, <3>2, ServersConform
  <2> DEFINE h == s.hop + 1
             d == s.redirects - 1
             a == Repeats(s)
  <2>5. h \in 1..Len(exchange) /\ d \in Nat
    BY <2>1, <2>2, <2>4
  <2>6. h + d = 1 + request.redirects
    BY <2>2
  <2>7. u = StartRequestTo(h, d, a, s.callback /\ s.heard)
    OBVIOUS
  <2> HIDE DEF h, d, a
  <2>8. Conforms(exchange[h])
    BY <2>5, ServersConform
  <2>9. /\ u.hop = h /\ u.asks = a /\ u.buffer = <<>> /\ DOMAIN u = FetchFields
        /\ u.outcome # "response" /\ Aligned(u, Inbound(exchange[h], a.head))
    BY <2>5, <2>6, <2>7, <2>8, FreshAligned
  <2> HIDE DEF u
  <2>10. Kept(u, v) /\ v.outcome = s.outcome
    BY <2>9 DEF Kept, SameRead, FetchFields
  <2> HIDE DEF v
  <2>11. Aligned(v, Inbound(exchange[h], a.head))
    <3>1. /\ Expects(v, Inbound(exchange[h], a.head)) <=> Expects(u, Inbound(exchange[h], a.head))
          /\ Placed(v) /\ Here(v) = Here(u)
      BY <2>9, <2>10, SameReadExpects DEF Aligned, Kept
    <3>2. /\ v.want = u.want /\ v.buffer = u.buffer /\ v.total = u.total
          /\ v.asks = u.asks
          /\ v.status = "connecting" <=> u.status = "connecting"
          /\ v.outcome # "response"
      BY <2>10 DEF Kept, SameRead, Midway
    <3> QED BY <2>9, <3>1, <3>2, Zenon DEF Aligned
  <2>12. /\ v.hop = s.hop + 1 /\ v.asks = a /\ v.buffer = <<>>
         /\ Here(v) = exchange[h]
    BY <2>9, <2>10 DEF Kept, SameRead, Here, h
  <2>13. Reached(s, v, st)
    BY <2>11, <2>12 DEF Reached
  <2> QED BY <1>2, <1>5, <2>13
<1> QED BY <1>2, <1>3, <1>4, <1>41, <1>5

-----------------------------------------------------------------------------
(* What a handler makes of the octets before those of st.                  *)
LEMMA ReadBodyReached ==
    ASSUME NEW s, Midway(s), AtLast(s), NEW st \in Seq(Pieces), NEW state, NEW w,
           ReadsBody(Read(s, state, w), st, Last(Here(s)))
    PROVE  Reached(s, Read(s, state, w), st)
<1> DEFINE t == Read(s, state, w)
<1>1. t.hop = s.hop /\ t.asks = s.asks /\ t.response = s.response /\ t.code = s.code
  BY ReadFields DEF Midway, Placed
<1>2. ReadsBody(t, st, Last(Here(s)))
  OBVIOUS
<1> HIDE DEF t
<1>3. Here(t) = Here(s)
  BY <1>1 DEF Here
<1>4. AtLast(t)
  BY <1>1, <1>3 DEF AtLast
<1>5. Expects(t, st)
  BY <1>2, <1>3, <1>4, Zenon DEF Expects
<1> QED BY <1>5, ReadReached DEF t

LEMMA FixedBlocks ==
    ASSUME NEW s, Midway(s), AtLast(s), NEW st \in Seq(Pieces), BlockSize \in Nat \ {0},
           Last(Here(s)).body = "length", s.bytesToRead > 0, s.total = s.bytesRead,
           s.bytesToRead = Last(Here(s)).length, Len(st) = Last(Here(s)).length - s.total
    PROVE  Reached(s, ReadBlocks(s, "READ_FIXED_BODY"), st)
<1> DEFINE n == IF BlockSize < s.bytesToRead THEN BlockSize ELSE s.bytesToRead
           w == [kind |-> "bytes", n |-> n]
           t == Read(s, "READ_FIXED_BODY", w)
<1>1. ReadBlocks(s, "READ_FIXED_BODY") = t
  BY DEF ReadBlocks
<1>2. n \in Nat \ {0}
  BY DEF Midway, Placed
<1> HIDE DEF n
<1>3. /\ t.state = "READ_FIXED_BODY" /\ t.want = w /\ t.total = s.total
      /\ t.bytesRead = s.bytesRead /\ t.bytesToRead = s.bytesToRead
  BY ReadFields DEF Midway, Placed
<1>4. w.kind = "bytes" /\ w.n = n
  OBVIOUS
<1>5. ReadsFixed(t, st, Last(Here(s)))
  <2> HIDE DEF t, w
  <2> QED BY <1>2, <1>3, <1>4 DEF ReadsFixed
<1>6. ReadsBody(t, st, Last(Here(s)))
  BY <1>5, Zenon DEF ReadsBody
<1> QED BY <1>1, <1>6, ReadBodyReached, Zenon

LEMMA ChunkBlocks ==
    ASSUME NEW s, Midway(s), AtLast(s), NEW st \in Seq(Pieces), BlockSize \in Nat \ {0},
           Last(Here(s)).body = "chunked", s.bytesToRead > 0, s.total = s.bytesRead,
           s.bytesToRead = Last(Here(s)).length, Tailing(st, Last(Here(s)).length - s.total)
    PROVE  Reached(s, ReadBlocks(s, "READ_CHUNK_DATA"), st)
<1> DEFINE n == IF BlockSize < s.bytesToRead THEN BlockSize ELSE s.bytesToRead
           w == [kind |-> "bytes", n |-> n]
           t == Read(s, "READ_CHUNK_DATA", w)
<1>1. ReadBlocks(s, "READ_CHUNK_DATA") = t
  BY DEF ReadBlocks
<1>2. n \in Nat \ {0}
  BY DEF Midway, Placed
<1> HIDE DEF n
<1>3. /\ t.state = "READ_CHUNK_DATA" /\ t.want = w /\ t.total = s.total
      /\ t.bytesRead = s.bytesRead /\ t.bytesToRead = s.bytesToRead
  BY ReadFields DEF Midway, Placed
<1>4. w.kind = "bytes" /\ w.n = n
  OBVIOUS
<1>5. ReadsChunk(t, st, Last(Here(s)))
  <2> HIDE DEF t, w
  <2> QED BY <1>2, <1>3, <1>4 DEF ReadsChunk
<1>6. ReadsBody(t, st, Last(Here(s)))
  BY <1>5, Zenon DEF ReadsBody
<1> QED BY <1>1, <1>6, ReadBodyReached, Zenon

Started(s, n) == [s EXCEPT !.bytesRead = 0, !.bytesToRead = n]

Counted(s, n) == [s EXCEPT !.bytesRead = @ + n, !.total = @ + n]

LEMMA StartedMidway ==
    ASSUME NEW s, Midway(s), NEW n \in Nat
    PROVE  LET t == Started(s, n)
           IN /\ Midway(t) /\ (AtLast(s) => AtLast(t)) /\ Here(t) = Here(s)
              /\ t.hop = s.hop /\ t.asks = s.asks /\ t.buffer = s.buffer
              /\ t.bytesRead = 0 /\ t.bytesToRead = n /\ t.total = s.total
<1> DEFINE t == Started(s, n)
<1>1. /\ DOMAIN t = FetchFields /\ t.hop = s.hop /\ t.asks = s.asks /\ t.buffer = s.buffer
      /\ t.bytesRead = 0 /\ t.bytesToRead = n /\ t.total = s.total
      /\ t.redirects = s.redirects /\ t.want = s.want /\ t.status = s.status
      /\ t.outcome = s.outcome /\ t.code = s.code /\ t.response = s.response
  BY DEF Midway, Placed, FetchFields, Started
<1> HIDE DEF t
<1>2. Here(t) = Here(s)
  BY <1>1 DEF Here
<1>3. Midway(t)
  BY <1>1 DEF Midway, Placed
<1>4. AtLast(s) => AtLast(t)
  BY <1>1, <1>2 DEF AtLast
<1> QED BY <1>1, <1>2, <1>3, <1>4 DEF t

LEMMA CountedMidway ==
    ASSUME NEW s, Midway(s), NEW n \in Nat
    PROVE  LET t == Counted(s, n)
           IN /\ Midway(t) /\ (AtLast(s) => AtLast(t)) /\ Here(t) = Here(s)
              /\ t.hop = s.hop /\ t.asks = s.asks /\ t.buffer = s.buffer
              /\ t.bytesRead = s.bytesRead + n /\ t.bytesToRead = s.bytesToRead
              /\ t.total = s.total + n /\ t.response = s.response
<1> DEFINE t == Counted(s, n)
<1>1. /\ DOMAIN t = FetchFields /\ t.hop = s.hop /\ t.asks = s.asks /\ t.buffer = s.buffer
      /\ t.bytesRead = s.bytesRead + n /\ t.bytesToRead = s.bytesToRead
      /\ t.total = s.total + n
      /\ t.redirects = s.redirects /\ t.want = s.want /\ t.status = s.status
      /\ t.outcome = s.outcome /\ t.code = s.code /\ t.response = s.response
  BY DEF Midway, Placed, FetchFields, Counted
<1> HIDE DEF t
<1>2. Here(t) = Here(s)
  BY <1>1 DEF Here
<1>3. Midway(t)
  <2>1. Placed(s) /\ s.want = NoRead /\ s.status # "connecting" /\ s.outcome # "response"
    BY Zenon DEF Midway
  <2>2. s.total + n \in Nat /\ s.bytesRead + n \in Nat
    <3>1. s.total \in Nat /\ s.bytesRead \in Nat
      BY <2>1, Zenon DEF Placed
    <3> QED BY <3>1
  <2>3. Placed(t)
    BY <1>1, <2>1, <2>2 DEF Placed
  <2> QED BY <1>1, <2>1, <2>3 DEF Midway
<1>4. AtLast(s) => AtLast(t)
  BY <1>1, <1>2 DEF AtLast
<1> QED BY <1>1, <1>2, <1>3, <1>4 DEF t

LEMMA MidwayServer ==
    ASSUME exchange \in Exchanges, request \in Requests, NEW s, Midway(s)
    PROVE  LET k == Last(Here(s)) IN
           /\ Conforms(Here(s)) /\ BlockSize \in Nat \ {0}
           /\ k = Here(s)[Len(Here(s))] /\ Len(Here(s)) \in Nat \ {0}
           /\ k.length \in Nat /\ k.body \in {"length", "chunked", "close"}
<1>1. Conforms(Here(s)) /\ BlockSize \in Nat \ {0}
  BY ServersConform DEF Here, Midway, Placed
<1>2. Len(Here(s)) \in Nat \ {0} /\ Last(Here(s)) = Here(s)[Len(Here(s))]
  BY <1>1 DEF Conforms, Last
<1>3. Len(Here(s)) \in 1..Len(Here(s))
  BY <1>2
<1> QED BY <1>1, <1>2, <1>3, ResponsesTyped

LEMMA StartFixed ==
    ASSUME NEW s, Midway(s), AtLast(s), s.total = 0, NEW st \in Seq(Pieces),
           BlockSize \in Nat \ {0}, NEW n \in Nat, n > 0,
           Last(Here(s)).body = "length", n = Last(Here(s)).length, Len(st) = n
    PROVE  Reached(s, StartBlocks(s, n, "READ_FIXED_BODY"), st)
<1> DEFINE u == Started(s, n)
<1>1. StartBlocks(s, n, "READ_FIXED_BODY") = ReadBlocks(u, "READ_FIXED_BODY")
  BY Zenon DEF StartBlocks, Started
<1>2. /\ Midway(u) /\ AtLast(u) /\ Here(u) = Here(s) /\ u.hop = s.hop /\ u.asks = s.asks /\ u.buffer = s.buffer
      /\ u.bytesRead = 0 /\ u.bytesToRead = n /\ u.total = s.total
  BY StartedMidway
<1> HIDE DEF u
<1>3. n = n - u.total
  BY <1>2
<1>4. Reached(u, ReadBlocks(u, "READ_FIXED_BODY"), st)
  BY <1>2, <1>3, FixedBlocks
<1> QED BY <1>1, <1>2, <1>4 DEF Reached

LEMMA StartChunk ==
    ASSUME NEW s, Midway(s), AtLast(s), s.total = 0, NEW st \in Seq(Pieces),
           BlockSize \in Nat \ {0}, NEW n \in Nat, n > 0,
           Last(Here(s)).body = "chunked", n = Last(Here(s)).length, Tailing(st, n)
    PROVE  Reached(s, StartBlocks(s, n, "READ_CHUNK_DATA"), st)
<1> DEFINE u == Started(s, n)
<1>1. StartBlocks(s, n, "READ_CHUNK_DATA") = ReadBlocks(u, "READ_CHUNK_DATA")
  BY Zenon DEF StartBlocks, Started
<1>2. /\ Midway(u) /\ AtLast(u) /\ Here(u) = Here(s) /\ u.hop = s.hop /\ u.asks = s.asks /\ u.buffer = s.buffer
      /\ u.bytesRead = 0 /\ u.bytesToRead = n /\ u.total = s.total
  BY StartedMidway
<1> HIDE DEF u
<1>3. n = n - u.total
  BY <1>2
<1>4. Reached(u, ReadBlocks(u, "READ_CHUNK_DATA"), st)
  BY <1>2, <1>3, ChunkBlocks
<1> QED BY <1>1, <1>2, <1>4 DEF Reached

LEMMA ReadResponseBodyReached ==
    ASSUME exchange \in Exchanges, request \in Requests,
           NEW s, Midway(s), AtLast(s), s.total = 0, NEW st \in Seq(Pieces),
           ~(s.asks.head \/ Last(Here(s)).code = 304), AtBody(st, Last(Here(s)), s.asks.head)
    PROVE  Reached(s, ReadResponseBody(s, Last(Here(s))), st)
<1> DEFINE k == Last(Here(s))
           b == ReadResponseBody(s, k)
           w == [kind |-> "close", n |-> 0]
           t == Read(s, "READ_UNTIL_CLOSE", w)
<1>1. /\ k.length \in Nat /\ k.body \in {"length", "chunked", "close"}
      /\ BlockSize \in Nat \ {0}
  BY MidwayServer
<1>2. /\ k.body = "chunked" => AtChunk(st, k.length)
      /\ k.body = "length" => Len(st) = k.length
  BY Zenon DEF AtBody
<1>3. s.code = k.code /\ DOMAIN s = FetchFields
  BY DEF AtLast, Midway, Placed
<1> HIDE DEF k
<1>4. CASE s.code = 204 /\ (k.body = "chunked" \/ (k.body = "length" /\ k.length > 0))
  <2>1. b = Throw(s)
    BY <1>4 DEF ReadResponseBody
  <2> QED BY <1>3, <2>1, ThrowCalm, MidwayCalm DEF k
<1>5. CASE k.body = "length" /\ k.length = 0
  <2>1. b = FinishResponse(s)
    BY <1>5 DEF ReadResponseBody
  <2>2. Delivered(s)
    BY <1>5, LastResponse DEF Delivered, k
  <2> QED BY <2>1, <2>2, FinishReached DEF k
<1>6. CASE s.code # 204 /\ k.body = "length" /\ k.length > 0
  <2>1. b = StartBlocks(s, k.length, "READ_FIXED_BODY")
    BY <1>6 DEF ReadResponseBody
  <2>2. Reached(s, StartBlocks(s, k.length, "READ_FIXED_BODY"), st)
    BY <1>1, <1>2, <1>6, StartFixed DEF k
  <2> QED BY <2>1, <2>2 DEF k
<1>7. CASE s.code # 204 /\ k.body = "chunked"
  <2> DEFINE v == [kind |-> "until", n |-> 64]
             u == Read(s, "READ_CHUNK_LENGTH", v)
  <2>1. b = u
    BY <1>7 DEF ReadResponseBody, ReadLength
  <2>2. u.state = "READ_CHUNK_LENGTH" /\ u.want = v /\ u.total = 0
    BY <1>3, ReadFields
  <2>3. v.kind = "until"
    OBVIOUS
  <2>4. ReadsLength(u, st, k)
    <3> HIDE DEF u, v
    <3> QED BY <1>2, <1>7, <2>2, <2>3 DEF ReadsLength
  <2>5. ReadsBody(u, st, k)
    BY <2>4, Zenon DEF ReadsBody
  <2> QED BY <2>1, <2>5, ReadBodyReached, Zenon DEF k
<1>8. CASE k.body = "close"
  <2>1. b = IF s.status = "lost" THEN [t EXCEPT !.posted = @ + 1] ELSE t
    BY <1>8 DEF ReadResponseBody
  <2>2. t.state = "READ_UNTIL_CLOSE" /\ t.want = w /\ DOMAIN t = FetchFields
    BY <1>3, ReadFields
  <2>3. w.kind = "close"
    OBVIOUS
  <2>4. ReadsToClose(t, k)
    <3> HIDE DEF t, w
    <3> QED BY <1>8, <2>2, <2>3 DEF ReadsToClose
  <2>5. ReadsBody(t, st, k)
    BY <2>4, Zenon DEF ReadsBody
  <2>6. Reached(s, t, st)
    BY <2>5, ReadBodyReached, Zenon DEF k
  <2> HIDE DEF t
  <2>7. Calm(t, [t EXCEPT !.posted = @ + 1])
    BY <2>2 DEF Calm, Kept, SameRead, FetchFields
  <2>8. Reached(s, [t EXCEPT !.posted = @ + 1], st)
    BY <2>6, <2>7, ReachedCalm
  <2> QED BY <2>1, <2>6, <2>8 DEF k
<1> QED BY <1>1, <1>4, <1>5, <1>6, <1>7, <1>8 DEF k

LEMMA FixedBlockReached ==
    ASSUME exchange \in Exchanges, request \in Requests,
           NEW s, Midway(s), AtLast(s), NEW st \in Seq(Pieces), NEW n \in Nat \ {0},
           s.state = "READ_FIXED_BODY", Last(Here(s)).body = "length",
           s.total = s.bytesRead, s.bytesToRead = Last(Here(s)).length,
           Len(st) = Last(Here(s)).length - (s.total + n)
    PROVE  Reached(s, OnBodyBlock(s, n), st)
<1> DEFINE k == Last(Here(s))
           t == Counted(s, n)
<1>1. OnBodyBlock(s, n) = IF t.bytesRead < t.bytesToRead THEN ReadBlocks(t, "READ_FIXED_BODY")
                          ELSE FinishResponse(t)
  BY Zenon DEF OnBodyBlock, Counted
<1>2. k.length \in Nat /\ BlockSize \in Nat \ {0}
  BY MidwayServer
<1>3. /\ Midway(t) /\ AtLast(t) /\ Here(t) = Here(s) /\ t.hop = s.hop /\ t.asks = s.asks /\ t.buffer = s.buffer
      /\ t.bytesRead = s.bytesRead + n /\ t.bytesToRead = s.bytesToRead
      /\ t.total = s.total + n
  BY CountedMidway
<1> HIDE DEF t
<1>4. s.total \in Nat /\ s.bytesRead \in Nat
  BY DEF Midway, Placed
<1>5. /\ Last(Here(t)) = k /\ t.bytesToRead = k.length /\ t.total = t.bytesRead
      /\ t.total \in Nat \ {0} /\ Len(st) = k.length - t.total
  BY <1>3, <1>4
<1>6. CASE t.bytesRead < t.bytesToRead
  <2>1. t.bytesToRead > 0
    BY <1>2, <1>3, <1>4, <1>6
  <2>2. Reached(t, ReadBlocks(t, "READ_FIXED_BODY"), st)
    BY <1>2, <1>3, <1>5, <2>1, FixedBlocks
  <2> QED BY <1>1, <1>3, <1>6, <2>2 DEF Reached
<1>7. CASE ~(t.bytesRead < t.bytesToRead)
  <2>1. t.total = k.length
    <3>1. Len(st) \in Nat
      OBVIOUS
    <3> HIDE DEF k
    <3> QED BY <1>2, <1>5, <1>7, <3>1
  <2>2. Delivered(t)
    BY <1>3, <1>5, <2>1, LastResponse DEF Delivered
  <2>3. Reached(t, FinishResponse(t), st)
    BY <1>3, <2>2, FinishReached
  <2> QED BY <1>1, <1>3, <1>7, <2>3 DEF Reached
<1> QED BY <1>6, <1>7

LEMMA ChunkBlockReached ==
    ASSUME exchange \in Exchanges, request \in Requests,
           NEW s, Midway(s), AtLast(s), NEW st \in Seq(Pieces), NEW n \in Nat \ {0},
           s.state = "READ_CHUNK_DATA", Last(Here(s)).body = "chunked",
           s.total = s.bytesRead, s.bytesToRead = Last(Here(s)).length,
           Tailing(st, Last(Here(s)).length - (s.total + n))
    PROVE  Reached(s, OnBodyBlock(s, n), st)
<1> DEFINE k == Last(Here(s))
           w == [kind |-> "bytes", n |-> 2]
           t == Counted(s, n)
           e == Read(t, "READ_CHUNK_ENDS", w)
<1>1. OnBodyBlock(s, n) = IF t.bytesRead < t.bytesToRead THEN ReadBlocks(t, "READ_CHUNK_DATA")
                          ELSE e
  BY DEF OnBodyBlock, Counted
<1>2. k.length \in Nat /\ BlockSize \in Nat \ {0}
  BY MidwayServer
<1>3. /\ Midway(t) /\ AtLast(t) /\ Here(t) = Here(s) /\ t.hop = s.hop /\ t.asks = s.asks /\ t.buffer = s.buffer
      /\ t.bytesRead = s.bytesRead + n /\ t.bytesToRead = s.bytesToRead
      /\ t.total = s.total + n
  BY CountedMidway
<1> HIDE DEF t
<1>4. s.total \in Nat /\ s.bytesRead \in Nat
  BY DEF Midway, Placed
<1>5. /\ Last(Here(t)) = k /\ t.bytesToRead = k.length /\ t.total = t.bytesRead
      /\ t.total \in Nat \ {0} /\ Tailing(st, k.length - t.total)
  BY <1>3, <1>4
<1>6. CASE t.bytesRead < t.bytesToRead
  <2>1. t.bytesToRead > 0
    BY <1>2, <1>3, <1>4, <1>6
  <2>2. Reached(t, ReadBlocks(t, "READ_CHUNK_DATA"), st)
    BY <1>2, <1>3, <1>5, <2>1, ChunkBlocks
  <2> QED BY <1>1, <1>3, <1>6, <2>2 DEF Reached
<1>7. CASE ~(t.bytesRead < t.bytesToRead)
  <2>1. e.state = "READ_CHUNK_ENDS" /\ e.want = w /\ e.total = t.total
    BY <1>3, ReadFields DEF Midway, Placed
  <2>2. w.kind = "bytes" /\ w.n = 2
    OBVIOUS
  <2>3. t.total > 0 /\ t.total >= k.length
    BY <1>2, <1>5, <1>7
  <2>4. ReadsChunkEnds(e, st, k)
    <3> HIDE DEF e, w, k
    <3>1. k.body = "chunked"
      BY DEF k
    <3> QED BY <1>5, <2>1, <2>2, <2>3, <3>1 DEF ReadsChunkEnds
  <2>5. ReadsBody(e, st, Last(Here(t)))
    BY <1>5, <2>4, Zenon DEF ReadsBody
  <2>6. Reached(t, e, st)
    BY <1>3, <2>5, ReadBodyReached, Zenon
  <2> QED BY <1>1, <1>3, <1>7, <2>6 DEF Reached
<1> QED BY <1>6, <1>7

(* b is the part of the stream that the client has in its buffer.          *)
Begins(b, st) ==
    b \in Seq(Pieces) /\ Len(b) <= Len(st) /\ \A j \in 1..Len(b) : b[j] = st[j]

LEMMA LengthRead ==
    ASSUME NEW st \in Seq(Pieces), NEW k, k.length \in Nat, AtChunk(st, k.length),
           NEW b, Begins(b, st), NEW w, w.kind = "until", FindReadPos(w, b) # 0
    PROVE  /\ b[1] = <<"len", k.length>> /\ FindReadPos(w, b) \in 0..Len(st)
           /\ Tailing(SubSeq(st, FindReadPos(w, b) + 1, Len(st)), k.length)
<1> DEFINE n == FindReadPos(w, b)
<1>1. /\ st[1] = <<"len", k.length>> /\ st[2] = <<"cr", 0>> /\ st[3] = <<"lf", 0>>
      /\ Tailing(st, k.length + 3)
  BY DEF AtChunk
<1>2. b \in Seq(Pieces) /\ Len(b) <= Len(st) /\ \A j \in 1..Len(b) : b[j] = st[j]
  BY DEF Begins
<1>3. n \in 1..Len(b) /\ Matches(w, b, n) /\ \A j \in 1..(n - 1) : ~Matches(w, b, j)
  BY <1>2, FirstMatch
<1> HIDE DEF n
<1>4. \A j : Matches(w, b, j) <=> j > 1 /\ b[j - 1][1] = "cr" /\ b[j][1] = "lf"
  BY DEF Matches
<1>5. n > 1 /\ b[n - 1][1] = "cr"
  BY <1>3, <1>4
<1>6. Len(b) \in Nat /\ Len(st) \in Nat
  BY <1>2
<1>7. b[1] = st[1]
  BY <1>2, <1>3, <1>6
<1>8. n # 2
  <2>1. SUFFICES ASSUME n = 2 PROVE FALSE
    OBVIOUS
  <2>2. b[1][1] = "cr"
    BY <1>5, <2>1
  <2>3. b[1][1] = "len"
    BY <1>1, <1>7
  <2> QED BY <2>2, <2>3
<1>9. n = 3
  <2>1. SUFFICES ASSUME n > 3 PROVE FALSE
    BY <1>3, <1>5, <1>6, <1>8
  <2>2. 3 \in 1..(n - 1) /\ 3 \in 1..Len(b) /\ 2 \in 1..Len(b)
    BY <1>3, <1>6, <2>1
  <2>3. b[2] = <<"cr", 0>> /\ b[3] = <<"lf", 0>>
    BY <1>1, <1>2, <2>2
  <2>4. Matches(w, b, 3)
    BY <1>4, <2>3
  <2> QED BY <1>3, <2>2, <2>4
<1>10. 3 \in 0..Len(st)
  BY <1>2, <1>3, <1>6, <1>9
<1>11. Tailing(SubSeq(st, 3 + 1, Len(st)), (k.length + 3) - 3)
  BY <1>1, <1>10, TailingDropped
<1>12. (k.length + 3) - 3 = k.length
  OBVIOUS
<1> QED BY <1>1, <1>7, <1>9, <1>10, <1>11, <1>12 DEF n

LEMMA OnLengthReached ==
    ASSUME exchange \in Exchanges, request \in Requests,
           NEW s, Midway(s), AtLast(s), Last(Here(s)).body = "chunked",
           NEW st \in Seq(Pieces), Begins(s.buffer, st), NEW w, w.kind = "until",
           FindReadPos(w, s.buffer) # 0,
           IF s.total = 0 THEN AtChunk(st, Last(Here(s)).length)
           ELSE s.total >= Last(Here(s)).length /\
                Tailing(st, (Last(Here(s)).length - s.total) - 2)
    PROVE  Reached(s, OnLengthOfChunk(s),
                   SubSeq(st, FindReadPos(w, s.buffer) + 1, Len(st)))
<1> DEFINE k == Last(Here(s))
           b == s.buffer
           p == FindReadPos(w, s.buffer)
           c == SubSeq(st, p + 1, Len(st))
           n == b[1][2]
           v == [kind |-> "bytes", n |-> 2]
           e == Read(s, "READ_LAST_CHUNK_ENDS", v)
<1>1. k.length \in Nat /\ BlockSize \in Nat \ {0} /\ k.body = "chunked"
  BY MidwayServer
<1>2. p \in 1..Len(b) /\ p \in 0..Len(st)
  <2>1. b \in Seq(Pieces) /\ Len(b) <= Len(st)
    BY DEF Begins
  <2>2. p \in 1..Len(b)
    BY <2>1, FirstMatch
  <2> HIDE DEF p, b
  <2> QED BY <2>1, <2>2
<1>3. c \in Seq(Pieces)
  BY <1>2, Dropped
<1>4. OnLengthOfChunk(s) = IF b[1][1] # "len" THEN Throw(s) ELSE IF n = 0 THEN e
                           ELSE IF n + s.total > MaxBodySize THEN Throw(s)
                           ELSE StartBlocks(s, n, "READ_CHUNK_DATA")
  BY Zenon DEF OnLengthOfChunk
<1>5. DOMAIN s = FetchFields /\ s.total \in Nat
  BY DEF Midway, Placed
<1>6. Reached(s, Throw(s), c)
  BY <1>3, <1>5, ThrowCalm, MidwayCalm
<1>7. ASSUME s.total = k.length PROVE Reached(s, e, c)
  <2>1. e.state = "READ_LAST_CHUNK_ENDS" /\ e.want = v /\ e.total = s.total
    BY <1>5, ReadFields
  <2>2. v.kind = "bytes" /\ v.n = 2
    OBVIOUS
  <2> HIDE DEF e, v, k, c
  <2>3. ReadsLastEnds(e, k)
    BY <1>1, <1>7, <2>1, <2>2 DEF ReadsLastEnds
  <2>4. ReadsBody(e, c, k)
    BY <2>3, Zenon DEF ReadsBody
  <2> QED BY <1>3, <2>4, ReadBodyReached, Zenon DEF e, k
<1>8. CASE s.total = 0
  <2>1. AtChunk(st, k.length)
    BY <1>8
  <2>2. b[1] = <<"len", k.length>> /\ Tailing(c, k.length)
    BY <1>1, <2>1, LengthRead
  <2>3. n = k.length
    BY <2>2
  <2> HIDE DEF c, n, e, b, k
  <2>4. CASE n = 0
    <3>1. OnLengthOfChunk(s) \in {Throw(s), e}
      BY <1>4, <2>4
    <3>2. s.total = k.length
      BY <1>8, <2>3, <2>4
    <3> QED BY <1>6, <1>7, <3>1, <3>2 DEF c
  <2>5. CASE n # 0
    <3>1. n \in Nat /\ n > 0
      BY <1>1, <2>3, <2>5
    <3>2. Reached(s, StartBlocks(s, n, "READ_CHUNK_DATA"), c)
      BY <1>1, <1>3, <1>8, <2>2, <2>3, <3>1, StartChunk DEF k
    <3>3. OnLengthOfChunk(s) \in {Throw(s), StartBlocks(s, n, "READ_CHUNK_DATA")}
      BY <1>4, <2>5
    <3> QED BY <1>6, <3>2, <3>3 DEF c
  <2> QED BY <2>4, <2>5
<1>9. CASE s.total # 0
  <2> DEFINE d == (k.length - s.total) - 2
  <2>1. s.total >= k.length /\ Tailing(st, d)
    BY <1>9
  <2>2. d \in Int /\ d <= -2 /\ (d = -2 => s.total = k.length)
    BY <1>1, <1>5, <2>1
  <2> HIDE DEF d
  <2>3. Len(st) = d + 7 /\ \A j \in 1..7 : j + d > 0 => st[j + d] = ChunkEnd[j]
    BY <2>1 DEF Tailing
  <2>4. b[1] = st[1] /\ Len(st) \in Nat /\ Len(st) > 0
    BY <1>2 DEF Begins
  <2>5. b[1] = ChunkEnd[1 - d] /\ 1 - d \in 1..7
    <3>1. 1 - d \in 1..7 /\ (1 - d) + d = 1
      BY <2>2, <2>3, <2>4
    <3> QED BY <2>3, <2>4, <3>1
  <2>6. CASE b[1][1] = "len"
    <3>1. 1 - d = 3
      BY <2>5, <2>6, ChunkEndIs
    <3>2. s.total = k.length /\ b[1] = <<"len", 0>>
      BY <2>2, <2>5, <3>1, ChunkEndIs
    <3>3. n = 0
      BY <3>2
    <3> HIDE DEF e, n, b, k, c
    <3> QED BY <1>4, <1>7, <2>6, <3>2, <3>3 DEF c
  <2>7. CASE b[1][1] # "len"
    BY <1>4, <1>6, <2>7
  <2> QED BY <2>6, <2>7
<1> QED BY <1>8, <1>9

LEMMA HeadersReached ==
    ASSUME exchange \in Exchanges, request \in Requests,
           NEW s, Midway(s), s.total = 0, NEW i \in 1..Len(Here(s)), NEW st \in Seq(Pieces),
           s.buffer[1] = <<"head", i>>, NEW n,
           IF i < Len(Here(s)) THEN AtResponse(st, Here(s), i + 1, s.asks.head) ELSE AtBody(st, Here(s)[i], s.asks.head)
    PROVE  Reached(s, OnResponseHeaders(s, n), st)
<1> DEFINE e == Here(s)
           k == e[i]
           t == [s EXCEPT !.code = k.code, !.response = i]
           u == IF request.expect THEN WriteBody(s) ELSE t
           h == OnResponseHeaders(s, n)
           w == [kind |-> "regex", n |-> MaxResponseHeader]
           r == Read(u, "READ_HEADER", w)
<1>1. s.buffer[1][1] = "head" /\ s.buffer[1][2] = i
  OBVIOUS
<1>2. h = IF k.code = 100
          THEN IF u.raised THEN u ELSE IF k.body # "close" THEN Throw(u) ELSE r
          ELSE IF t.asks.head \/ k.code = 304 THEN FinishResponse(t) ELSE ReadResponseBody(t, k)
  BY <1>1 DEF OnResponseHeaders, ReadResponse
<1>3. Conforms(e) /\ Len(e) \in Nat \ {0} /\ Last(e) = e[Len(e)] /\ DOMAIN s = FetchFields
  BY MidwayServer DEF Midway, Placed
<1>4. /\ Last(e).code # 100
      /\ \A j \in 1..(Len(e) - 1) : e[j].code = 100 /\ e[j].body = "close"
  BY <1>3, Zenon DEF Conforms
<1>5. IF k.code = 100 THEN i < Len(e) /\ k.body = "close" ELSE i = Len(e)
  <2>1. CASE i = Len(e)
    <3>1. k.code # 100
      BY <1>3, <1>4, <2>1
    <3> HIDE DEF k
    <3> QED BY <2>1, <3>1
  <2>2. CASE i # Len(e)
    <3>1. i \in 1..(Len(e) - 1)
      BY <1>3, <2>2
    <3>2. k.code = 100 /\ k.body = "close" /\ i < Len(e)
      BY <1>4, <3>1
    <3> HIDE DEF k
    <3> QED BY <3>2
  <2> QED BY <2>1, <2>2
<1>6. /\ DOMAIN t = FetchFields /\ t.hop = s.hop /\ t.asks = s.asks /\ t.buffer = s.buffer /\ t.total = s.total
      /\ t.redirects = s.redirects /\ t.want = s.want /\ t.status = s.status
      /\ t.bytesRead = s.bytesRead /\ t.bytesToRead = s.bytesToRead
      /\ t.outcome = s.outcome /\ t.code = k.code /\ t.response = i
  BY <1>3 DEF FetchFields
<1> HIDE DEF t
<1>7. Midway(t)
  BY <1>6 DEF Midway, Placed
<1>8. Here(t) = e
  BY <1>6 DEF Here
<1>9. CASE k.code = 100
  <2>1. i < Len(e) /\ k.body = "close"
    BY <1>5, <1>9
  <2>2. AtResponse(st, e, i + 1, s.asks.head)
    BY <2>1
  <2>3. /\ DOMAIN u = FetchFields /\ u.hop = s.hop /\ u.asks = s.asks /\ u.buffer = s.buffer /\ u.total = s.total
        /\ Midway(u) /\ Here(u) = e
    <3>1. CASE request.expect
      <4>1. Calm(s, WriteBody(s)) /\ u = WriteBody(s)
        BY <1>3, <3>1, WriteBodyCalm
      <4>2. Midway(WriteBody(s))
        BY <4>1 DEF Calm, Kept, SameRead, Midway, Placed
      <4> HIDE DEF u
      <4> QED BY <4>1, <4>2 DEF Calm, Kept, SameRead, Here
    <3>2. CASE ~request.expect
      <4>1. u = t
        BY <3>2
      <4> HIDE DEF u
      <4> QED BY <1>6, <1>7, <1>8, <4>1
    <3> QED BY <3>1, <3>2
  <2> HIDE DEF u, w
  <2>4. r.state = "READ_HEADER" /\ r.want = w /\ r.total = 0 /\ r.hop = s.hop /\ r.asks = s.asks
    BY <2>3, ReadFields
  <2>5. w.kind = "regex"
    BY DEF w
  <2> HIDE DEF r
  <2>6. Here(r) = e
    BY <2>4 DEF Here
  <2>7. Expects(r, st)
    <3>1. i + 1 \in 1..Len(e)
      BY <1>3, <2>1
    <3>2. ReadsHeader(r, st)
      BY <2>2, <2>4, <2>5, <2>6, <3>1, Zenon DEF ReadsHeader
    <3> QED BY <3>2, Zenon DEF Expects
  <2>8. Reached(u, r, st)
    BY <2>3, <2>7, ReadReached DEF r
  <2>9. Reached(s, r, st)
    BY <2>3, <2>8 DEF Reached
  <2>10. Calm(u, u)
    BY <2>3 DEF Calm, Kept, SameRead
  <2>11. Reached(u, u, st)
    BY <2>3, <2>10, MidwayCalm
  <2>12. Reached(s, u, st)
    BY <2>3, <2>11 DEF Reached
  <2> QED BY <1>2, <1>9, <2>1, <2>9, <2>12
<1>10. CASE k.code # 100
  <2>1. i = Len(e) /\ k = Last(e)
    BY <1>3, <1>5, <1>10
  <2>2. AtLast(t)
    <3>1. t.code = Last(e).code /\ t.response = Len(e)
      BY <1>6, <2>1
    <3> QED BY <1>8, <3>1 DEF AtLast
  <2>3. AtBody(st, Last(e), s.asks.head)
    <3>1. ~(i < Len(e))
      BY <1>3, <2>1
    <3>2. AtBody(st, k, s.asks.head)
      BY <3>1
    <3> QED BY <2>1, <3>2
  <2>4. ASSUME s.asks.head \/ k.code = 304 PROVE Reached(t, FinishResponse(t), st)
    <3>1. Here(t)[t.response] = k
      BY <1>6, <1>8
    <3>2. Delivered(t)
      BY <1>6, <2>2, <2>4, <3>1, LastResponse DEF Delivered
    <3> QED BY <1>7, <2>2, <3>2, FinishReached
  <2>5. ASSUME ~(s.asks.head \/ k.code = 304) PROVE Reached(t, ReadResponseBody(t, k), st)
    <3>1. k = Last(Here(t)) /\ t.total = 0
      BY <1>6, <1>8, <2>1
    <3>2. AtBody(st, Last(Here(t)), t.asks.head)
      BY <1>6, <1>8, <2>3
    <3>3. ~(t.asks.head \/ Last(Here(t)).code = 304)
      BY <1>6, <2>5, <3>1
    <3> HIDE DEF k
    <3>4. Reached(t, ReadResponseBody(t, Last(Here(t))), st)
      BY <1>7, <2>2, <3>1, <3>2, <3>3, ReadResponseBodyReached
    <3> QED BY <3>1, <3>4
  <2>6. Reached(t, h, st)
    <3>1. t.asks = s.asks
      BY <1>6
    <3> HIDE DEF h, k
    <3> QED BY <1>2, <1>10, <2>4, <2>5, <3>1
  <2> QED BY <1>6, <2>6 DEF Reached
<1> QED BY <1>9, <1>10

(* n octets are taken: those of a match, or all when the end is awaited.   *)
Takes(w, b, n) ==
    IF w.kind = "close" THEN n = Len(b) ELSE n = FindReadPos(w, b) /\ n # 0

LEMMA DataReached ==
    ASSUME exchange \in Exchanges, request \in Requests,
           NEW r, NEW st \in Seq(Pieces), Expects(r, st), NEW s, Midway(s), Begins(s.buffer, st),
           s.state = r.state, s.hop = r.hop, s.asks = r.asks, s.total = r.total, s.code = r.code,
           s.response = r.response, s.bytesRead = r.bytesRead, s.bytesToRead = r.bytesToRead,
           NEW n, Takes(r.want, s.buffer, n)
    PROVE  Reached(s, OnResponseData(s, n), SubSeq(st, n + 1, Len(st))) /\ n \in 0..Len(s.buffer)
<1> DEFINE b == s.buffer
           c == SubSeq(st, n + 1, Len(st))
           k == Last(Here(s))
           w == r.want
           t == CASE s.state = "READ_HEADER" -> OnResponseHeaders(s, n)
                  [] s.state \in {"READ_FIXED_BODY", "READ_CHUNK_DATA"} -> OnBodyBlock(s, n)
                  [] s.state = "READ_CHUNK_LENGTH" -> OnLengthOfChunk(s)
                  [] s.state = "READ_CHUNK_ENDS" -> IF AtLine(s) THEN ReadLength(s) ELSE Throw(s)
                  [] s.state = "READ_LAST_CHUNK_ENDS" ->
                       IF AtLine(s) THEN FinishResponse(s) ELSE Throw(s)
                  [] s.state = "READ_UNTIL_CLOSE" -> FinishResponse([s EXCEPT !.total = @ + n])
                  [] OTHER -> [s EXCEPT !.asserted = TRUE]
<1>1. OnResponseData(s, n) = IF t.raised THEN HandleException(t) ELSE t
  BY Zenon DEF OnResponseData
<1>2. Here(r) = Here(s)
  BY DEF Here
<1>3. /\ b \in Seq(Pieces) /\ Len(b) <= Len(st) /\ \A j \in 1..Len(b) : b[j] = st[j]
      /\ Len(b) \in Nat /\ Len(st) \in Nat
  BY DEF Begins
<1>4. /\ DOMAIN s = FetchFields /\ s.total \in Nat /\ s.bytesRead \in Nat /\ s.bytesToRead \in Nat
      /\ k.length \in Nat /\ k.body \in {"length", "chunked", "close"}
  BY MidwayServer DEF Midway, Placed
<1>5. SUFFICES Reached(s, t, c) /\ n \in 0..Len(b)
  <2>1. ASSUME Reached(s, t, c) PROVE Reached(s, OnResponseData(s, n), c)
    <3> HIDE DEF t, c
    <3>1. DOMAIN t = FetchFields
      BY <2>1 DEF Reached, Aligned, Placed
    <3>2. Reached(s, HandleException(t), c)
      BY <2>1, <3>1, HandleExceptionCalm, ReachedCalm
    <3> QED BY <1>1, <2>1, <3>2
  <2> HIDE DEF t
  <2> QED BY <2>1
<1>6. ASSUME n \in 0..Len(b) PROVE c \in Seq(Pieces)
  <2>1. n \in 0..Len(st)
    BY <1>3, <1>6
  <2> QED BY <2>1, Dropped
<1>7. CASE ReadsHeader(r, st)
  <2>1. PICK i \in 1..Len(Here(s)) : AtResponse(st, Here(s), i, s.asks.head)
    BY <1>2, <1>7 DEF ReadsHeader
  <2>2. s.state = "READ_HEADER" /\ w.kind = "regex" /\ s.total = 0
    BY <1>7 DEF ReadsHeader
  <2>3. t = OnResponseHeaders(s, n)
    BY <2>2
  <2>4. n = FindReadPos(w, b) /\ n # 0
    BY <2>2 DEF Takes
  <2>5. n \in 1..Len(b)
    BY <1>3, <2>2, <2>4, FirstMatch
  <2>6. Conforms(Here(s))
    BY MidwayServer
  <2>7. /\ b[1] = <<"head", i>>
        /\ IF i < Len(Here(s)) THEN AtResponse(c, Here(s), i + 1, s.asks.head) ELSE AtBody(c, Here(s)[i], s.asks.head)
    <3>1. LET m == FindReadPos(w, b)
              d == SubSeq(st, m + 1, Len(st))
          IN /\ b[1] = <<"head", i>>
             /\ IF i < Len(Here(s)) THEN AtResponse(d, Here(s), i + 1, s.asks.head) ELSE AtBody(d, Here(s)[i], s.asks.head)
      <4> HIDE DEF w, b
      <4> QED BY <1>3, <2>1, <2>2, <2>4, <2>6, HeaderRead
    <3> QED BY <2>4, <3>1
  <2>8. c \in Seq(Pieces)
    BY <1>6, <2>5
  <2>9. Reached(s, OnResponseHeaders(s, n), c)
    <3> HIDE DEF c
    <3> QED BY <2>2, <2>7, <2>8, HeadersReached
  <2> HIDE DEF t, c, b
  <2> QED BY <2>3, <2>5, <2>9
<1>8. ASSUME AtLast(r) PROVE AtLast(s)
  BY <1>2, <1>8 DEF AtLast
<1>9. ASSUME w.kind = "bytes", w.n \in Nat \ {0} PROVE n = w.n /\ n \in 1..Len(b)
  <2>1. n = FindReadPos(w, b) /\ n # 0
    BY <1>9 DEF Takes
  <2>2. FindReadPos(w, b) = IF Len(b) >= w.n THEN w.n ELSE 0
    BY <1>9, FindsBytes
  <2> HIDE DEF b, w
  <2> QED BY <1>3, <1>9, <2>1, <2>2
<1>10. CASE AtLast(r) /\ ReadsFixed(r, st, k)
  <2>1. /\ s.state = "READ_FIXED_BODY" /\ k.body = "length" /\ w.kind = "bytes"
        /\ w.n \in Nat \ {0} /\ s.total = s.bytesRead /\ s.bytesToRead = k.length
        /\ Len(st) = k.length - s.total
    BY <1>10 DEF ReadsFixed
  <2>2. n \in 1..Len(b)
    BY <1>9, <2>1
  <2>3. c \in Seq(Pieces) /\ Len(c) = k.length - (s.total + n)
    <3>1. n \in 0..Len(st)
      BY <1>3, <2>2
    <3>2. c \in Seq(Pieces) /\ Len(c) = Len(st) - n
      BY <3>1, Dropped
    <3> HIDE DEF c, k
    <3> QED BY <1>4, <2>1, <2>2, <3>2
  <2>4. t = OnBodyBlock(s, n)
    BY <2>1
  <2>5. Reached(s, OnBodyBlock(s, n), c)
    <3>1. n \in Nat \ {0}
      BY <2>2
    <3> HIDE DEF c
    <3> QED BY <1>8, <1>10, <2>1, <2>3, <3>1, FixedBlockReached
  <2> HIDE DEF t, c, b
  <2> QED BY <2>2, <2>4, <2>5
<1>11. CASE AtLast(r) /\ ReadsLength(r, st, k)
  <2>1. /\ s.state = "READ_CHUNK_LENGTH" /\ k.body = "chunked" /\ w.kind = "until"
        /\ IF s.total = 0 THEN AtChunk(st, k.length)
           ELSE s.total >= k.length /\ Tailing(st, (k.length - s.total) - 2)
    BY <1>11 DEF ReadsLength
  <2>2. n = FindReadPos(w, b) /\ n # 0
    BY <2>1 DEF Takes
  <2>3. n \in 1..Len(b)
    BY <1>3, <2>1, <2>2, FirstMatch
  <2>4. t = OnLengthOfChunk(s)
    BY <2>1
  <2>5. Reached(s, OnLengthOfChunk(s), SubSeq(st, FindReadPos(w, s.buffer) + 1, Len(st)))
    <3> HIDE DEF w
    <3> QED BY <1>8, <1>11, <2>1, <2>2, OnLengthReached
  <2>6. Reached(s, OnLengthOfChunk(s), c)
    BY <2>2, <2>5
  <2> HIDE DEF t, c, b
  <2> QED BY <2>3, <2>4, <2>6
<1>12. CASE AtLast(r) /\ ReadsChunk(r, st, k)
  <2>1. /\ s.state = "READ_CHUNK_DATA" /\ k.body = "chunked" /\ w.kind = "bytes"
        /\ w.n \in Nat \ {0} /\ s.total = s.bytesRead /\ s.bytesToRead = k.length
        /\ Tailing(st, k.length - s.total)
    BY <1>12 DEF ReadsChunk
  <2>2. n \in 1..Len(b)
    BY <1>9, <2>1
  <2>3. c \in Seq(Pieces) /\ Tailing(c, k.length - (s.total + n))
    <3>1. n \in 0..Len(st) /\ k.length - s.total \in Int
      BY <1>3, <1>4, <2>2
    <3>2. Tailing(c, (k.length - s.total) - n)
      BY <2>1, <3>1, TailingDropped
    <3>3. (k.length - s.total) - n = k.length - (s.total + n)
      BY <1>4, <2>2
    <3> QED BY <1>6, <2>2, <3>2, <3>3
  <2>4. t = OnBodyBlock(s, n)
    BY <2>1
  <2>5. Reached(s, OnBodyBlock(s, n), c)
    <3>1. n \in Nat \ {0}
      BY <2>2
    <3> HIDE DEF c
    <3> QED BY <1>8, <1>12, <2>1, <2>3, <3>1, ChunkBlockReached
  <2> HIDE DEF t, c, b
  <2> QED BY <2>2, <2>4, <2>5
<1>13. CASE AtLast(r) /\ ReadsChunkEnds(r, st, k)
  <2> DEFINE v == [kind |-> "until", n |-> 64]
             u == Read(s, "READ_CHUNK_LENGTH", v)
  <2>1. /\ s.state = "READ_CHUNK_ENDS" /\ k.body = "chunked" /\ w.kind = "bytes" /\ w.n = 2
        /\ s.total > 0 /\ s.total >= k.length /\ Tailing(st, k.length - s.total)
    BY <1>13 DEF ReadsChunkEnds
  <2>2. n = 2 /\ n \in 1..Len(b)
    BY <1>9, <2>1
  <2>3. c \in Seq(Pieces) /\ Tailing(c, (k.length - s.total) - 2)
    <3>1. n \in 0..Len(st) /\ k.length - s.total \in Int
      BY <1>3, <1>4, <2>2
    <3>2. Tailing(c, (k.length - s.total) - n)
      BY <2>1, <3>1, TailingDropped
    <3> QED BY <1>6, <2>2, <3>2
  <2>4. t \in {u, Throw(s)}
    BY <2>1 DEF ReadLength
  <2>5. u.state = "READ_CHUNK_LENGTH" /\ u.want = v /\ u.total = s.total
    BY <1>4, ReadFields
  <2>6. v.kind = "until"
    OBVIOUS
  <2> HIDE DEF t, c, u, v
  <2>7. ReadsLength(u, c, k)
    <3>1. u.total # 0
      BY <1>4, <2>1, <2>5
    <3> HIDE DEF k
    <3> QED BY <2>1, <2>3, <2>5, <2>6, <3>1 DEF ReadsLength
  <2>8. ReadsBody(u, c, Last(Here(s)))
    BY <2>7, Zenon DEF ReadsBody
  <2>9. Reached(s, u, c)
    BY <1>8, <1>13, <2>3, <2>8, ReadBodyReached DEF u
  <2>10. Reached(s, Throw(s), c)
    BY <1>4, <2>3, ThrowCalm, MidwayCalm
  <2> QED BY <2>2, <2>4, <2>9, <2>10
<1>14. CASE AtLast(r) /\ ReadsLastEnds(r, k)
  <2>1. /\ s.state = "READ_LAST_CHUNK_ENDS" /\ w.kind = "bytes" /\ w.n \in Nat \ {0}
        /\ s.total = k.length
    BY <1>14 DEF ReadsLastEnds
  <2>2. n \in 1..Len(b) /\ c \in Seq(Pieces)
    BY <1>6, <1>9, <2>1
  <2>3. t \in {FinishResponse(s), Throw(s)}
    BY <2>1
  <2> HIDE DEF t, c
  <2>4. AtLast(s)
    BY <1>8, <1>14
  <2>5. Delivered(s)
    BY <2>1, <2>4, LastResponse DEF Delivered
  <2>6. Reached(s, FinishResponse(s), c)
    BY <2>2, <2>4, <2>5, FinishReached
  <2>7. Reached(s, Throw(s), c)
    BY <1>4, <2>2, ThrowCalm, MidwayCalm
  <2> QED BY <2>2, <2>3, <2>6, <2>7
<1>15. CASE AtLast(r) /\ ReadsToClose(r, k)
  <2> DEFINE u == [s EXCEPT !.total = @ + n]
  <2>1. s.state = "READ_UNTIL_CLOSE" /\ k.body = "close" /\ w.kind = "close"
    BY <1>15 DEF ReadsToClose
  <2>2. n = Len(b)
    BY <2>1 DEF Takes
  <2>3. n \in 0..Len(b) /\ n \in Nat
    BY <1>3, <2>2
  <2>4. t = FinishResponse(u)
    BY <2>1
  <2>5. c \in Seq(Pieces)
    BY <1>6, <2>3
  <2> HIDE DEF t, c
  <2>6. /\ DOMAIN u = FetchFields /\ u.hop = s.hop /\ u.asks = s.asks /\ u.buffer = s.buffer
        /\ u.total = s.total + n /\ u.bytesRead = s.bytesRead /\ u.bytesToRead = s.bytesToRead
        /\ u.redirects = s.redirects /\ u.want = s.want /\ u.status = s.status
        /\ u.outcome = s.outcome /\ u.code = s.code /\ u.response = s.response
    BY <1>4 DEF FetchFields
  <2> HIDE DEF u
  <2>7. Midway(u)
    BY <2>3, <2>6 DEF Midway, Placed
  <2>8. Here(u) = Here(s)
    BY <2>6 DEF Here
  <2>9. AtLast(u)
    BY <1>8, <1>15, <2>6, <2>8 DEF AtLast
  <2>10. Delivered(u)
    BY <2>1, <2>8, <2>9, LastResponse DEF Delivered
  <2>11. Reached(u, FinishResponse(u), c)
    BY <2>5, <2>7, <2>9, <2>10, FinishReached
  <2>12. Reached(s, FinishResponse(u), c)
    BY <2>6, <2>11 DEF Reached
  <2> QED BY <2>3, <2>4, <2>12
<1> QED
  <2>1. ReadsHeader(r, st) \/ (AtLast(r) /\ ReadsBody(r, st, k))
    BY <1>2, Zenon DEF Expects
  <2> HIDE DEF t, c, k, b
  <2> QED BY <1>7, <1>10, <1>11, <1>12, <1>13, <1>14, <1>15, <2>1, Zenon DEF ReadsBody

(* A connection leaves "connecting", or is lost.                           *)
LEMMA StatusAligned ==
    ASSUME NEW s, NEW t, NEW st, Aligned(s, st), SameRead(s, t),
           t.outcome = s.outcome, t.status # "connecting"
    PROVE  Aligned(t, st)
<1>1. /\ Expects(t, st) <=> Expects(s, st)
      /\ Placed(t) /\ (Delivered(t) <=> Delivered(s))
  BY SameReadExpects DEF Aligned
<1>2. t.want = s.want /\ t.response = s.response
  BY DEF SameRead
<1> QED BY <1>1, <1>2 DEF Aligned

(* A handler that found s on its connection, with rest still to arrive,    *)
(* left t.                                                                 *)
Ensues(s, t, rest) ==
    \/ t.hop = s.hop /\ t.asks = s.asks /\ Aligned(t, t.buffer \o rest)
    \/ t.hop = s.hop + 1 /\ t.buffer = <<>> /\ Aligned(t, Inbound(Here(t), t.asks.head))

LEMMA EnsuesCalm ==
    ASSUME NEW s, NEW t, NEW u, NEW rest, Ensues(s, t, rest), Calm(t, u)
    PROVE  Ensues(s, u, rest)
<1>1. u.hop = t.hop /\ u.asks = t.asks /\ u.buffer = t.buffer
  BY DEF Calm, Kept, SameRead
<1>2. Here(u) = Here(t)
  BY <1>1 DEF Here
<1>3. \A v : Aligned(t, v) => Aligned(u, v)
  BY CalmAligned
<1> QED BY <1>1, <1>2, <1>3 DEF Ensues

LEMMA RestDropped ==
    ASSUME NEW b \in Seq(Pieces), NEW rest \in Seq(Pieces), NEW n \in 0..Len(b)
    PROVE  SubSeq(b \o rest, n + 1, Len(b \o rest)) = SubSeq(b, n + 1, Len(b)) \o rest
<1> DEFINE st == b \o rest
           c == SubSeq(st, n + 1, Len(st))
           d == SubSeq(b, n + 1, Len(b))
           e == d \o rest
<1>1. st \in Seq(Pieces) /\ Spliced(st, b, rest)
  BY Joins DEF Spliced
<1> HIDE DEF st
<1>2. Len(b) \in Nat /\ Len(rest) \in Nat /\ Len(st) = Len(b) + Len(rest)
  BY <1>1 DEF Spliced
<1>3. c \in Seq(Pieces) /\ Len(c) = Len(st) - n /\ \A j \in 1..Len(c) : c[j] = st[n + j]
  <2>1. n \in 0..Len(st)
    BY <1>2
  <2> QED BY <1>1, <2>1, Dropped
<1>4. d \in Seq(Pieces) /\ Len(d) = Len(b) - n /\ \A j \in 1..Len(d) : d[j] = b[n + j]
  BY Dropped
<1> HIDE DEF c, d
<1>5. Spliced(e, d, rest)
  BY <1>4, Joins
<1> HIDE DEF e
<1>6. e \in Seq(Pieces) /\ Len(e) = Len(c)
  BY <1>2, <1>3, <1>4, <1>5 DEF Spliced
<1>7. ASSUME NEW j \in 1..Len(c) PROVE c[j] = e[j]
  <2>1. c[j] = st[n + j] /\ j \in Nat
    BY <1>3
  <2>2. CASE j <= Len(d)
    <3>1. j \in 1..Len(d) /\ n + j \in 1..Len(b)
      BY <1>2, <1>4, <2>2
    <3>2. st[n + j] = b[n + j] /\ e[j] = d[j]
      BY <1>1, <1>5, <3>1 DEF Spliced
    <3> QED BY <1>4, <2>1, <3>1, <3>2
  <2>3. CASE j > Len(d)
    <3> DEFINE i == j - Len(d)
    <3>1. i \in 1..Len(rest) /\ Len(d) + i = j /\ Len(b) + i = n + j
      BY <1>2, <1>3, <1>4, <2>3
    <3> HIDE DEF i
    <3>2. st[Len(b) + i] = rest[i] /\ e[Len(d) + i] = rest[i]
      BY <1>1, <1>5, <3>1 DEF Spliced
    <3> QED BY <2>1, <3>1, <3>2
  <2>4. j <= Len(d) \/ j > Len(d)
    BY <1>2, <1>4, <2>1
  <2> QED BY <2>2, <2>3, <2>4
<1>8. c = e
  BY <1>3, <1>6, <1>7, SeqEqual
<1> QED BY <1>8 DEF c, d, e, st

(* Octets arrive in the buffer or leave it.                                *)
LEMMA BufferAligned ==
    ASSUME NEW t, NEW u, NEW st, Aligned(t, st), DOMAIN u = FetchFields,
           u.buffer \in Seq(Pieces), t.status = "connecting" => u.buffer = <<>>,
           u.state = t.state, u.want = t.want, u.hop = t.hop, u.asks = t.asks, u.redirects = t.redirects,
           u.code = t.code, u.response = t.response, u.bytesRead = t.bytesRead,
           u.bytesToRead = t.bytesToRead, u.total = t.total, u.status = t.status,
           u.outcome = t.outcome
    PROVE  Aligned(u, st)
<1>1. Here(u) = Here(t)
  BY DEF Here
<1>2. ReadsHeader(u, st) <=> ReadsHeader(t, st)
  BY <1>1, Zenon DEF ReadsHeader
<1>3. AtLast(u) <=> AtLast(t)
  BY <1>1, Zenon DEF AtLast
<1>4. ASSUME NEW k PROVE ReadsBody(u, st, k) <=> ReadsBody(t, st, k)
  BY SameReadsBody, Zenon
<1>5. Expects(u, st) <=> Expects(t, st)
  BY <1>1, <1>2, <1>3, <1>4, Zenon DEF Expects
<1>6. Delivered(u) <=> Delivered(t)
  BY <1>1 DEF Delivered
<1>7. Placed(u)
  BY DEF Aligned, Placed
<1> QED BY <1>1, <1>5, <1>6, <1>7, Zenon DEF Aligned

LEMMA TakenEnsues ==
    ASSUME NEW s, NEW t, NEW rest \in Seq(Pieces), s.buffer \in Seq(Pieces),
           NEW n \in 0..Len(s.buffer),
           Reached(s, t, SubSeq(s.buffer \o rest, n + 1, Len(s.buffer \o rest)))
    PROVE  Ensues(s, Taken(t, n), rest)
<1> DEFINE u == Taken(t, n)
           c == SubSeq(s.buffer, n + 1, Len(s.buffer))
<1>1. \/ t.hop = s.hop /\ t.asks = s.asks /\ t.buffer = s.buffer /\ t.status # "connecting" /\ Aligned(t, c \o rest)
      \/ t.hop = s.hop + 1 /\ t.buffer = <<>> /\ Aligned(t, Inbound(Here(t), t.asks.head))
  <2>1. SubSeq(s.buffer \o rest, n + 1, Len(s.buffer \o rest)) = c \o rest
    BY RestDropped
  <2> QED BY <2>1, Zenon DEF Reached
<1>2. DOMAIN t = FetchFields
  BY <1>1 DEF Aligned, Placed
<1>3. /\ u.state = t.state /\ u.want = t.want /\ u.hop = t.hop /\ u.asks = t.asks /\ u.redirects = t.redirects
      /\ u.code = t.code /\ u.response = t.response /\ u.bytesRead = t.bytesRead
      /\ u.bytesToRead = t.bytesToRead /\ u.total = t.total /\ u.status = t.status
      /\ u.outcome = t.outcome /\ DOMAIN u = FetchFields
      /\ u.buffer = SubSeq(t.buffer, n + 1, Len(t.buffer))
  BY <1>2 DEF Taken, FetchFields
<1> HIDE DEF u
<1>4. Here(u) = Here(t)
  BY <1>3 DEF Here
<1>5. c \in Seq(Pieces)
  BY Dropped
<1>6. ASSUME NEW st, Aligned(t, st), u.buffer \in Seq(Pieces), t.status = "connecting" => u.buffer = <<>>
      PROVE  Aligned(u, st)
  BY <1>3, <1>6, BufferAligned
<1>7. CASE t.hop = s.hop /\ t.asks = s.asks /\ t.buffer = s.buffer /\ t.status # "connecting" /\ Aligned(t, c \o rest)
  <2>1. u.buffer = c
    BY <1>3, <1>7
  <2>2. Aligned(u, c \o rest)
    BY <1>5, <1>6, <1>7, <2>1
  <2> QED BY <1>3, <1>7, <2>1, <2>2 DEF Ensues, u
<1>8. CASE t.hop = s.hop + 1 /\ t.buffer = <<>> /\ Aligned(t, Inbound(Here(t), t.asks.head))
  <2>1. u.buffer = <<>>
    <3>1. n \in Nat
      OBVIOUS
    <3>2. SubSeq(<<>>, n + 1, Len(<<>>)) = <<>>
      BY <3>1
    <3> QED BY <1>3, <1>8, <3>2
  <2>2. Aligned(u, Inbound(Here(u), u.asks.head))
    BY <1>3, <1>4, <1>6, <1>8, <2>1
  <2> QED BY <1>3, <1>8, <2>1, <2>2 DEF Ensues, u
<1> QED BY <1>1, <1>7, <1>8

-----------------------------------------------------------------------------
(* The handlers of the octets.                                             *)
LEMMA MetEnsues ==
    ASSUME exchange \in Exchanges, request \in Requests, NEW r, NEW rest \in Seq(Pieces),
           Aligned(r, r.buffer \o rest), r.want # NoRead, NEW n, Takes(r.want, r.buffer, n)
    PROVE  Ensues(r, Taken(OnResponseData([r EXCEPT !.want = NoRead], n), n), rest)
<1> DEFINE s == [r EXCEPT !.want = NoRead]
           st == r.buffer \o rest
           t == OnResponseData(s, n)
<1>1. /\ Placed(r) /\ Expects(r, st) /\ r.status # "connecting" /\ r.outcome # "response"
      /\ st \in Seq(Pieces) /\ r.buffer \in Seq(Pieces) /\ DOMAIN r = FetchFields
  BY DEF Aligned, Placed
<1>2. /\ DOMAIN s = FetchFields /\ s.want = NoRead /\ s.buffer = r.buffer
      /\ s.state = r.state /\ s.hop = r.hop /\ s.asks = r.asks /\ s.total = r.total /\ s.code = r.code
      /\ s.response = r.response /\ s.bytesRead = r.bytesRead /\ s.bytesToRead = r.bytesToRead
      /\ s.redirects = r.redirects /\ s.status = r.status /\ s.outcome = r.outcome
  BY <1>1 DEF FetchFields
<1> HIDE DEF s
<1>3. Midway(s)
  BY <1>1, <1>2 DEF Midway, Placed
<1>4. Begins(s.buffer, st)
  <2>1. Spliced(st, r.buffer, rest)
    BY <1>1, Joins
  <2>2. Len(r.buffer) \in Nat /\ Len(rest) \in Nat
    BY <1>1
  <2> HIDE DEF st
  <2> QED BY <1>1, <1>2, <2>1, <2>2 DEF Begins, Spliced
<1>5. Takes(r.want, s.buffer, n)
  BY <1>2
<1> HIDE DEF st
<1>6. Reached(s, t, SubSeq(st, n + 1, Len(st))) /\ n \in 0..Len(s.buffer)
  BY <1>1, <1>2, <1>3, <1>4, <1>5, DataReached
<1> HIDE DEF t
<1>7. Ensues(s, Taken(t, n), rest)
  <2>1. s.buffer \in Seq(Pieces) /\ st = s.buffer \o rest
    BY <1>1, <1>2 DEF st
  <2> QED BY <1>6, <2>1, TakenEnsues
<1>8. Ensues(r, Taken(t, n), rest)
  BY <1>2, <1>7 DEF Ensues
<1> QED BY <1>8 DEF s, t

LEMMA ToCloseEnsues ==
    ASSUME exchange \in Exchanges, request \in Requests, NEW s, NEW rest \in Seq(Pieces),
           Aligned(s, s.buffer \o rest), s.want.kind = "close"
    PROVE  Ensues(s, ReadToClose(s), rest)
<1>1. Takes(s.want, s.buffer, Len(s.buffer))
  BY Zenon DEF Takes
<1>2. s.want # NoRead
  BY DEF NoRead
<1> QED BY <1>1, <1>2, MetEnsues DEF ReadToClose

LEMMA ReadFromBufferedEnsues ==
    ASSUME exchange \in Exchanges, request \in Requests, NEW s, NEW rest \in Seq(Pieces),
           Aligned(s, s.buffer \o rest)
    PROVE  Ensues(s, ReadFromBuffered(s), rest)
<1> DEFINE n == FindReadPos(s.want, s.buffer)
           m == Taken(OnResponseData([s EXCEPT !.want = NoRead], n), n)
           f == ReadFromBuffered(s)
<1>1. Ensues(s, s, rest)
  BY DEF Ensues
<1>2. Ensues(s, CloseClient(s), rest)
  BY <1>1, CloseCalm, EnsuesCalm DEF Aligned, Placed
<1>3. CASE s.want.kind = "close"
  <2>1. f \in {ReadToClose(s), s}
    BY <1>3, Zenon DEF ReadFromBuffered
  <2> QED BY <1>1, <1>3, <2>1, ToCloseEnsues
<1>4. CASE s.want.kind # "close" /\ n = 0
  <2>1. f \in {CloseClient(s), s}
    BY <1>4, Zenon DEF ReadFromBuffered
  <2> QED BY <1>1, <1>2, <2>1
<1>5. CASE s.want.kind # "close" /\ n # 0
  <2>1. f \in {CloseClient(s), m}
    BY <1>5, Zenon DEF ReadFromBuffered
  <2>2. s.want # NoRead
    <3>1. SUFFICES ASSUME s.want = NoRead PROVE FALSE
      OBVIOUS
    <3>2. s.want.kind = "none"
      BY <3>1 DEF NoRead
    <3>3. n = 0
      BY <3>2 DEF FindReadPos
    <3> QED BY <1>5, <3>3
  <2>3. Takes(s.want, s.buffer, n)
    BY <1>5, Zenon DEF Takes
  <2>4. Ensues(s, m, rest)
    BY <2>2, <2>3, MetEnsues
  <2> HIDE DEF m, f
  <2> QED BY <1>2, <2>1, <2>4 DEF f
<1> QED BY <1>3, <1>4, <1>5

LEMMA ConnectionLostEnsues ==
    ASSUME exchange \in Exchanges, request \in Requests, NEW s, NEW rest \in Seq(Pieces),
           Aligned(s, s.buffer \o rest)
    PROVE  Ensues(s, ConnectionLost(s), rest)
<1> DEFINE t == [s EXCEPT !.status = "lost", !.reading = FALSE]
           u == IF s.want.kind = "close" THEN ReadToClose(t) ELSE t
<1>1. ConnectionLost(s) = HandleException(u)
  BY Zenon DEF ConnectionLost
<1>2. /\ SameRead(s, t) /\ t.outcome = s.outcome /\ t.status # "connecting"
      /\ t.hop = s.hop /\ t.asks = s.asks /\ t.buffer = s.buffer /\ t.want = s.want
  BY DEF Aligned, Placed, SameRead, FetchFields
<1> HIDE DEF t
<1>3. Aligned(t, s.buffer \o rest)
  BY <1>2, StatusAligned
<1>4. Aligned(t, t.buffer \o rest)
  BY <1>2, <1>3
<1>5. Ensues(t, t, rest)
  BY <1>4 DEF Ensues
<1>6. Ensues(t, u, rest)
  <2>1. CASE s.want.kind = "close"
    BY <1>2, <1>4, <2>1, ToCloseEnsues
  <2>2. CASE s.want.kind # "close"
    BY <1>5, <2>2
  <2> QED BY <2>1, <2>2
<1> HIDE DEF u
<1>7. DOMAIN u = FetchFields
  BY <1>6 DEF Ensues, Aligned, Placed
<1>8. Ensues(t, HandleException(u), rest)
  BY <1>6, <1>7, HandleExceptionCalm, EnsuesCalm
<1> QED BY <1>1, <1>2, <1>8 DEF Ensues

(* No step changes what the servers send.                                  *)
LEMMA SameResponse ==
    ASSUME NEW i, NEW k, NEW h
    PROVE  ResponseOctets(i, k, h)' = ResponseOctets(i, k, h)
BY DEF ResponseOctets

LEMMA SameInbound ==
    ASSUME NEW e, NEW h PROVE Inbound(e, h)' = Inbound(e, h)
BY SameResponse DEF Inbound

LEMMA SameLaid ==
    ASSUME NEW f, NEW off, NEW e, NEW h PROVE Laid(f, off, e, h)' <=> Laid(f, off, e, h)
BY SameResponse DEF Laid

LEMMA SameNext ==
    ASSUME NEW st, NEW e, NEW i, NEW h
    PROVE  AtResponse(st, e, i, h)' <=> AtResponse(st, e, i, h)
BY SameLaid DEF AtResponse

LEMMA SameHere == ASSUME exchange' = exchange, NEW s PROVE Here(s)' = Here(s)
BY DEF Here

LEMMA SameExpects ==
    ASSUME request' = request, exchange' = exchange, NEW s, NEW st
    PROVE  Expects(s, st)' <=> Expects(s, st)
<1>1. ReadsHeader(s, st)' <=> ReadsHeader(s, st)
  BY SameHere, SameNext DEF ReadsHeader
<1>2. AtLast(s)' <=> AtLast(s)
  BY SameHere DEF AtLast
<1> QED BY <1>1, <1>2, SameHere DEF Expects

LEMMA SameAligned ==
    ASSUME request' = request, exchange' = exchange, NEW s, NEW st, Aligned(s, st)
    PROVE  Aligned(s, st)'
<1>1. Expects(s, st)' <=> Expects(s, st)
  BY SameExpects
<1>2. Delivered(s)' <=> Delivered(s)
  BY SameHere DEF Delivered
<1>3. Placed(s)' <=> Placed(s)
  BY DEF Placed
<1>4. Inbound(Here(s), s.asks.head)' = Inbound(Here(s), s.asks.head)
  BY SameHere, SameInbound
<1> QED BY <1>1, <1>2, <1>3, <1>4 DEF Aligned

-----------------------------------------------------------------------------
(* The octets that the client has not consumed, those in its buffer and    *)
(* those that are still to arrive, are what its read expects.              *)
ClientWhole ==
    /\ exchange \in Exchanges /\ request \in Requests /\ inbound \in Seq(Pieces)
    /\ Aligned(fetch, fetch.buffer \o inbound)

LEMMA BecomesWhole ==
    ASSUME ClientWhole, NEW t, NEW rest \in Seq(Pieces), Ensues(fetch, t, rest), Becomes(t, rest)
    PROVE  ClientWhole'
<1> DEFINE p == PostReads(t)
<1>1. /\ fetch' = p /\ exchange' = exchange /\ request' = request
      /\ inbound' = IF t.hop = fetch.hop THEN rest ELSE Inbound(exchange[t.hop], t.asks.head)
  BY DEF Becomes
<1>2. DOMAIN t = FetchFields /\ fetch.hop \in Nat
  BY DEF Ensues, ClientWhole, Aligned, Placed
<1>3. Calm(t, p)
  BY <1>2, PostReadsCalm
<1> HIDE DEF p
<1>4. Ensues(fetch, p, rest) /\ p.hop = t.hop /\ p.asks = t.asks
  BY <1>3, EnsuesCalm DEF Calm, Kept, SameRead
<1>5. inbound' \in Seq(Pieces) /\ Aligned(p, p.buffer \o inbound')
  <2>1. CASE p.hop = fetch.hop /\ p.asks = fetch.asks /\ Aligned(p, p.buffer \o rest)
    BY <1>1, <1>4, <2>1
  <2>2. CASE p.hop = fetch.hop + 1 /\ p.buffer = <<>> /\ Aligned(p, Inbound(Here(p), p.asks.head))
    <3>1. inbound' = Inbound(Here(p), p.asks.head)
      BY <1>1, <1>2, <1>4, <2>2 DEF Here
    <3>2. Inbound(Here(p), p.asks.head) \in Seq(Pieces)
      BY <2>2 DEF Aligned
    <3>3. \A q \in Seq(Pieces) : <<>> \o q = q
      OBVIOUS
    <3> QED BY <2>2, <3>1, <3>2, <3>3
  <2> QED BY <1>4, <2>1, <2>2 DEF Ensues
<1>6. Aligned(fetch, fetch.buffer \o inbound)'
  BY <1>1, <1>5, SameAligned
<1> QED BY <1>1, <1>5, <1>6 DEF ClientWhole

LEMMA CalmWhole ==
    ASSUME ClientWhole, NEW t, Calm(fetch, t), Becomes(t, inbound)
    PROVE  ClientWhole'
<1>1. Ensues(fetch, fetch, inbound) /\ inbound \in Seq(Pieces)
  BY DEF Ensues, ClientWhole
<1>2. Ensues(fetch, t, inbound)
  BY <1>1, EnsuesCalm
<1> QED BY <1>1, <1>2, BecomesWhole

LEMMA InitWhole == ClientInit => ClientWhole
<1> SUFFICES ASSUME ClientInit PROVE ClientWhole
  OBVIOUS
<1>0. PICK a, n, b : a = Asked /\ n = request.redirects /\ b = TRUE
  OBVIOUS
<1>1. /\ exchange \in Exchanges /\ request \in Requests
      /\ fetch = StartRequestTo(1, n, a, b)
      /\ inbound = Inbound(exchange[1], a.head)
  BY <1>0 DEF ClientInit
<1>2. Len(exchange) \in Nat \ {0} /\ request.redirects \in Nat
  BY <1>1, ServerAssumption
<1>3. 1 \in 1..Len(exchange)
  BY <1>2
<1>4. Conforms(exchange[1])
  BY <1>1, <1>3, ServersConform
<1>5. fetch.buffer = <<>> /\ Aligned(fetch, Inbound(exchange[1], a.head))
  <2>1. n \in Nat /\ 1 + n = 1 + request.redirects
    BY <1>0, <1>2
  <2>2. PICK t, h : t = StartRequestTo(h, n, a, b) /\ h = 1
    OBVIOUS
  <2>3. h \in 1..Len(exchange) /\ h + n = 1 + request.redirects /\ Conforms(exchange[h])
    BY <1>3, <1>4, <2>1, <2>2
  <2>4. t.buffer = <<>> /\ Aligned(t, Inbound(exchange[h], a.head))
    BY <2>1, <2>2, <2>3, FreshAligned
  <2> QED BY <1>0, <1>1, <2>2, <2>4
<1>6. inbound \in Seq(Pieces)
  BY <1>1, <1>4, InboundLaid
<1>7. \A q \in Seq(Pieces) : <<>> \o q = q
  OBVIOUS
<1> QED BY <1>1, <1>5, <1>6, <1>7 DEF ClientWhole

LEMMA PoppedCalm == ASSUME ClientWhole PROVE Calm(fetch, Popped)
BY DEF ClientWhole, Aligned, Placed, Popped, Calm, Kept, SameRead, FetchFields

LEMMA PoppedAligned ==
    ASSUME ClientWhole
    PROVE  /\ Aligned(Popped, Popped.buffer \o inbound) /\ DOMAIN Popped = FetchFields
           /\ Popped.hop = fetch.hop /\ Popped.asks = fetch.asks /\ Popped.buffer = fetch.buffer
<1>1. Calm(fetch, Popped)
  BY PoppedCalm
<1>2. DOMAIN Popped = FetchFields /\ Popped.hop = fetch.hop /\ Popped.asks = fetch.asks /\ Popped.buffer = fetch.buffer
  BY <1>1 DEF Calm, Kept, SameRead
<1>3. Aligned(Popped, fetch.buffer \o inbound)
  BY <1>1, CalmAligned DEF ClientWhole
<1> QED BY <1>2, <1>3

LEMMA OnConnectedEnsues ==
    ASSUME ClientWhole, fetch.status = "connecting"
    PROVE  Ensues(fetch, OnConnected(fetch), inbound)
<1> DEFINE st == fetch.buffer \o inbound
           t == [fetch EXCEPT !.status = "open", !.timer = request.timeout]
           u == IF request.expect THEN t ELSE WriteBody(t)
           w == [kind |-> "regex", n |-> MaxResponseHeader]
           r == Read(u, "READ_HEADER", w)
           o == OnConnected(fetch)
<1>1. o \in {CloseClient(t), HandleException(t), r}
  BY Zenon DEF OnConnected, ReadResponse
<1>2. /\ Aligned(fetch, st) /\ DOMAIN fetch = FetchFields
      /\ st \in Seq(Pieces) /\ exchange \in Exchanges /\ request \in Requests
      /\ fetch.hop \in 1..Len(exchange)
  BY DEF ClientWhole, Aligned, Placed
<1>3. /\ SameRead(fetch, t) /\ t.outcome = fetch.outcome /\ t.status # "connecting"
      /\ t.hop = fetch.hop /\ t.asks = fetch.asks /\ t.buffer = fetch.buffer /\ DOMAIN t = FetchFields
      /\ t.want = fetch.want /\ t.total = fetch.total
  BY <1>2 DEF SameRead, FetchFields
<1> HIDE DEF t
<1>4. Aligned(t, st)
  BY <1>2, <1>3, StatusAligned
<1>5. Ensues(fetch, t, inbound)
  BY <1>3, <1>4 DEF Ensues
<1>6. Ensues(fetch, CloseClient(t), inbound) /\ Ensues(fetch, HandleException(t), inbound)
  BY <1>3, <1>5, CloseCalm, HandleExceptionCalm, EnsuesCalm
<1>7. /\ st = Inbound(Here(fetch), fetch.asks.head) /\ fetch.total = 0 /\ fetch.want = NoRead
      /\ fetch.outcome # "response"
  BY <1>2 DEF Aligned
<1>8. Midway(t)
  BY <1>3, <1>4, <1>7 DEF Midway, Aligned
<1>9. /\ Midway(u) /\ u.hop = fetch.hop /\ u.asks = fetch.asks /\ u.buffer = fetch.buffer /\ u.total = 0
      /\ DOMAIN u = FetchFields
  <2>1. Calm(t, t) /\ Calm(t, WriteBody(t))
    BY <1>3, WriteBodyCalm DEF Calm, Kept, SameRead
  <2>2. Calm(t, u)
    BY <2>1
  <2> HIDE DEF u
  <2> QED BY <1>3, <1>7, <1>8, <2>2 DEF Calm, Kept, SameRead, Midway, Placed
<1> HIDE DEF u
<1>10. Ensues(fetch, r, inbound)
  <2>1. r.state = "READ_HEADER" /\ r.want = w /\ r.total = 0 /\ r.hop = fetch.hop /\ r.asks = fetch.asks
        /\ r.buffer = fetch.buffer
    BY <1>9, ReadFields
  <2>2. w.kind = "regex"
    OBVIOUS
  <2> HIDE DEF r, w, st
  <2>3. Here(r) = Here(fetch)
    BY <2>1 DEF Here
  <2>4. Conforms(Here(fetch))
    BY <1>2, ServersConform DEF Here
  <2>5. 1 \in 1..Len(Here(fetch)) /\ AtResponse(st, Here(r), 1, r.asks.head)
    BY <1>7, <2>1, <2>3, <2>4, InboundLaid DEF Conforms
  <2>6. ReadsHeader(r, st)
    BY <2>1, <2>2, <2>3, <2>5, Zenon DEF ReadsHeader
  <2>7. Expects(r, st)
    BY <2>6, Zenon DEF Expects
  <2>8. Reached(u, r, st)
    BY <1>2, <1>9, <2>7, ReadReached DEF r
  <2>9. CASE r.hop = u.hop /\ r.asks = u.asks /\ Aligned(r, st)
    BY <1>9, <2>1, <2>9 DEF Ensues, st
  <2>10. CASE r.hop = u.hop + 1 /\ r.buffer = <<>> /\ Aligned(r, Inbound(Here(r), r.asks.head))
    BY <1>9, <2>10 DEF Ensues
  <2> QED BY <2>8, <2>9, <2>10 DEF Reached
<1> QED BY <1>1, <1>6, <1>10

LEMMA ConnectsWhole == ClientWhole /\ Connects => ClientWhole'
<1> SUFFICES ASSUME ClientWhole, Connects PROVE ClientWhole'
  OBVIOUS
<1> DEFINE o == OnConnected(fetch)
           s == PostReads(o)
           r == [s EXCEPT !.reading = Alive(s)]
           l == [fetch EXCEPT !.status = "lost"]
<1>1. /\ fetch.status = "connecting"
      /\ Becomes(r, inbound) \/ Becomes(HandleException(l), inbound)
  BY DEF Connects
<1>2. inbound \in Seq(Pieces) /\ DOMAIN fetch = FetchFields
  BY DEF ClientWhole, Aligned, Placed
<1>3. Ensues(fetch, o, inbound)
  BY <1>1, OnConnectedEnsues
<1> HIDE DEF o
<1>4. Calm(o, s)
  BY <1>3, PostReadsCalm DEF Ensues, Aligned, Placed
<1> HIDE DEF s
<1>5. Calm(s, r)
  BY <1>4 DEF Calm, Kept, SameRead, FetchFields
<1> HIDE DEF r
<1>6. Ensues(fetch, r, inbound)
  BY <1>3, <1>4, <1>5, CalmOn, EnsuesCalm
<1>7. Ensues(fetch, HandleException(l), inbound)
  <2>1. /\ SameRead(fetch, l) /\ l.outcome = fetch.outcome /\ l.status # "connecting"
        /\ l.hop = fetch.hop /\ l.asks = fetch.asks /\ l.buffer = fetch.buffer /\ DOMAIN l = FetchFields
    BY <1>2 DEF SameRead, FetchFields
  <2> HIDE DEF l
  <2>2. Aligned(l, l.buffer \o inbound)
    BY <2>1, StatusAligned DEF ClientWhole
  <2>3. Ensues(fetch, l, inbound)
    BY <2>1, <2>2 DEF Ensues
  <2> QED BY <2>1, <2>3, HandleExceptionCalm, EnsuesCalm
<1> QED BY <1>1, <1>2, <1>6, <1>7, BecomesWhole

LEMMA ReadCompletesWhole == ClientWhole /\ ReadCompletes => ClientWhole'
<1> SUFFICES ASSUME ClientWhole, ReadCompletes PROVE ClientWhole'
  OBVIOUS
<1>1. PICK handler : Becomes([Post(fetch, handler) EXCEPT !.reading = FALSE], inbound)
  BY DEF ReadCompletes
<1> DEFINE p == Post(fetch, handler)
           t == [p EXCEPT !.reading = FALSE]
<1>2. Calm(fetch, p)
  BY PostCalm DEF ClientWhole, Aligned, Placed
<1> HIDE DEF p
<1>3. Calm(p, t)
  BY <1>2 DEF Calm, Kept, SameRead, FetchFields
<1>4. Becomes(t, inbound)
  BY <1>1 DEF p
<1> QED BY <1>2, <1>3, <1>4, CalmOn, CalmWhole

LEMMA DeadlinePassesWhole == ClientWhole /\ DeadlinePasses => ClientWhole'
<1> SUFFICES ASSUME ClientWhole, DeadlinePasses PROVE ClientWhole'
  OBVIOUS
<1> DEFINE r == RemoveTimeout(fetch)
           t == Post(r, "timeout")
<1>1. Calm(fetch, r)
  BY RemoveTimeoutCalm DEF ClientWhole, Aligned, Placed
<1>2. Becomes(t, inbound)
  BY DEF DeadlinePasses
<1> HIDE DEF r
<1>3. Calm(r, t)
  BY <1>1, PostCalm DEF Calm, Kept, SameRead
<1> QED BY <1>1, <1>2, <1>3, CalmOn, CalmWhole

LEMMA ClosesClientWhole == ClientWhole /\ ClosesClient => ClientWhole'
<1> SUFFICES ASSUME ClientWhole, ClosesClient PROVE ClientWhole'
  OBVIOUS
<1>1. /\ exchange' = exchange /\ request' = request /\ inbound' = inbound /\ fetch' = fetch
  BY DEF ClosesClient
<1>2. Aligned(fetch, fetch.buffer \o inbound)'
  BY <1>1, SameAligned DEF ClientWhole
<1> QED BY <1>1, <1>2 DEF ClientWhole

LEMMA HandlesWhole ==
    ASSUME ClientWhole, NEW handler, NEW t, Handles(handler, t), Ensues(Popped, t, inbound)
    PROVE  ClientWhole'
<1>1. Becomes(t, inbound) /\ inbound \in Seq(Pieces)
  BY DEF Handles, ClientWhole
<1>2. Ensues(fetch, t, inbound)
  BY PoppedAligned DEF Ensues
<1> QED BY <1>1, <1>2, BecomesWhole

LEMMA HandlesReadWhole == ClientWhole /\ HandlesRead => ClientWhole'
<1> SUFFICES ASSUME ClientWhole, HandlesRead PROVE ClientWhole'
  OBVIOUS
<1>1. /\ exchange \in Exchanges /\ request \in Requests /\ inbound \in Seq(Pieces)
  BY DEF ClientWhole
<1>2. Ensues(Popped, ReadFromBuffered(Popped), inbound)
  BY <1>1, PoppedAligned, ReadFromBufferedEnsues
<1> QED BY <1>2, HandlesWhole DEF HandlesRead

LEMMA HandlesEndWhole == ClientWhole /\ HandlesEnd => ClientWhole'
<1> SUFFICES ASSUME ClientWhole, HandlesEnd PROVE ClientWhole'
  OBVIOUS
<1> DEFINE t == IF fetch.status = "lost" THEN Popped ELSE ConnectionLost(Popped)
<1>1. PICK handler : Handles(handler, t)
  BY DEF HandlesEnd
<1>2. /\ exchange \in Exchanges /\ request \in Requests /\ inbound \in Seq(Pieces)
  BY DEF ClientWhole
<1>3. Ensues(Popped, Popped, inbound)
  BY PoppedAligned DEF Ensues
<1>4. Ensues(Popped, ConnectionLost(Popped), inbound)
  BY <1>2, PoppedAligned, ConnectionLostEnsues
<1>5. Ensues(Popped, t, inbound)
  BY <1>3, <1>4
<1> HIDE DEF t
<1> QED BY <1>1, <1>5, HandlesWhole

LEMMA HandlesTimeoutWhole == ClientWhole /\ HandlesTimeout => ClientWhole'
<1> SUFFICES ASSUME ClientWhole, HandlesTimeout PROVE ClientWhole'
  OBVIOUS
<1>1. Ensues(Popped, Popped, inbound) /\ DOMAIN Popped = FetchFields
  BY PoppedAligned DEF Ensues
<1>2. Ensues(Popped, HandleException(Popped), inbound)
  BY <1>1, HandleExceptionCalm, EnsuesCalm
<1> QED BY <1>2, HandlesWhole DEF HandlesTimeout

LEMMA HandlesAnswerWhole == ClientWhole /\ HandlesAnswer => ClientWhole'
<1> SUFFICES ASSUME ClientWhole, HandlesAnswer PROVE ClientWhole'
  OBVIOUS
<1> DEFINE t == [Popped EXCEPT !.answers = @ + 1]
<1>1. Ensues(Popped, Popped, inbound) /\ DOMAIN Popped = FetchFields
  BY PoppedAligned DEF Ensues
<1>2. Calm(Popped, t)
  BY <1>1 DEF Calm, Kept, SameRead, FetchFields
<1>3. Ensues(Popped, t, inbound)
  BY <1>1, <1>2, EnsuesCalm
<1>4. Handles("answer", t) \/ Handles("unheard", Popped)
  BY DEF HandlesAnswer
<1> HIDE DEF t
<1> QED BY <1>1, <1>3, <1>4, HandlesWhole

(* Octets arrive: what was to arrive is divided, nothing else.             *)
LEMMA Divided ==
    ASSUME NEW b \in Seq(Pieces), NEW a \in Seq(Pieces), NEW n \in 0..Len(a)
    PROVE  /\ SubSeq(a, 1, n) \in Seq(Pieces) /\ SubSeq(a, n + 1, Len(a)) \in Seq(Pieces)
           /\ b \o SubSeq(a, 1, n) \in Seq(Pieces)
           /\ (b \o SubSeq(a, 1, n)) \o SubSeq(a, n + 1, Len(a)) = b \o a
<1> DEFINE x == SubSeq(a, 1, n)
           y == SubSeq(a, n + 1, Len(a))
<1>1. x \in Seq(Pieces) /\ Len(x) = n /\ \A j \in 1..n : x[j] = a[j]
  OBVIOUS
<1>2. y \in Seq(Pieces) /\ Len(y) = Len(a) - n /\ \A j \in 1..Len(y) : y[j] = a[n + j]
  BY Dropped
<1> HIDE DEF x, y
<1> DEFINE c == b \o x
           d == c \o y
           e == b \o a
<1>3. Spliced(c, b, x) /\ Spliced(e, b, a)
  BY <1>1, Joins
<1> HIDE DEF c, e
<1>4. Spliced(c, b, x) /\ Spliced(d, c, y) /\ Spliced(e, b, a)
  <2>1. c \in Seq(Pieces)
    BY <1>3 DEF Spliced
  <2> QED BY <1>2, <1>3, <2>1, Joins
<1> HIDE DEF d
<1>5. Len(b) \in Nat /\ Len(a) \in Nat /\ Len(c) = Len(b) + n /\ Len(d) = Len(e)
      /\ Len(e) = Len(b) + Len(a) /\ d \in Seq(Pieces) /\ e \in Seq(Pieces)
  BY <1>1, <1>2, <1>4 DEF Spliced
<1>6. ASSUME NEW j \in 1..Len(d) PROVE d[j] = e[j]
  <2>1. CASE j <= Len(b)
    <3>1. j \in 1..Len(b) /\ j \in 1..Len(c)
      BY <1>5, <2>1
    <3> QED BY <1>4, <3>1 DEF Spliced
  <2>2. CASE j > Len(b) /\ j <= Len(c)
    <3> DEFINE i == j - Len(b)
    <3>1. i \in 1..n /\ i \in 1..Len(a) /\ Len(b) + i = j /\ j \in 1..Len(c)
      BY <1>5, <2>2
    <3> HIDE DEF i
    <3>2. d[j] = c[j] /\ c[Len(b) + i] = x[i] /\ e[Len(b) + i] = a[i] /\ x[i] = a[i]
      BY <1>1, <1>4, <3>1 DEF Spliced
    <3> QED BY <3>1, <3>2
  <2>3. CASE j > Len(c)
    <3> DEFINE i == j - Len(c)
    <3>1. /\ i \in 1..Len(y) /\ n + i \in 1..Len(a)
          /\ Len(c) + i = j /\ Len(b) + (n + i) = j
      BY <1>2, <1>5, <2>3
    <3> HIDE DEF i
    <3>2. d[Len(c) + i] = y[i] /\ y[i] = a[n + i] /\ e[Len(b) + (n + i)] = a[n + i]
      BY <1>2, <1>4, <3>1 DEF Spliced
    <3> QED BY <3>1, <3>2
  <2>4. j \in Nat /\ Len(c) \in Nat
    BY <1>5
  <2> QED BY <1>5, <2>1, <2>2, <2>3, <2>4
<1>7. d = e
  BY <1>5, <1>6, SeqEqual
<1> QED BY <1>1, <1>2, <1>4, <1>7 DEF Spliced, x, y, c, d, e

LEMMA HandlesDataWhole == ClientWhole /\ HandlesData => ClientWhole'
<1> SUFFICES ASSUME ClientWhole, HandlesData PROVE ClientWhole'
  OBVIOUS
<1>1. PICK n \in {1, Len(inbound)} \cap 1..Len(inbound) :
        LET s == PostReads(ReadFromBuffered([Popped EXCEPT !.buffer = @ \o SubSeq(inbound, 1, n)]))
        IN IF fetch.status # "open" THEN Becomes(Popped, inbound)
           ELSE Becomes([s EXCEPT !.reading = Alive(s)], SubSeq(inbound, n + 1, Len(inbound)))
  BY DEF HandlesData
<1>2. /\ exchange \in Exchanges /\ request \in Requests /\ inbound \in Seq(Pieces)
  BY DEF ClientWhole
<1>3. CASE fetch.status # "open"
  BY <1>1, <1>3, PoppedCalm, CalmWhole
<1>4. CASE fetch.status = "open"
  <2> DEFINE a == SubSeq(inbound, 1, n)
             rest == SubSeq(inbound, n + 1, Len(inbound))
             p == [Popped EXCEPT !.buffer = @ \o a]
             o == ReadFromBuffered(p)
             s == PostReads(o)
             r == [s EXCEPT !.reading = Alive(s)]
  <2>1. Becomes(r, rest)
    BY <1>1, <1>4
  <2>2. /\ Aligned(fetch, fetch.buffer \o inbound) /\ fetch.buffer \in Seq(Pieces)
        /\ Popped.buffer = fetch.buffer /\ Popped.hop = fetch.hop /\ Popped.asks = fetch.asks
        /\ DOMAIN Popped = FetchFields /\ Calm(fetch, Popped)
    BY PoppedAligned, PoppedCalm DEF ClientWhole, Aligned, Placed
  <2>3. n \in 0..Len(inbound)
    OBVIOUS
  <2>4. /\ rest \in Seq(Pieces) /\ fetch.buffer \o a \in Seq(Pieces)
        /\ (fetch.buffer \o a) \o rest = fetch.buffer \o inbound
    BY <1>2, <2>2, <2>3, Divided
  <2> HIDE DEF a, rest
  <2>5. /\ p.buffer = fetch.buffer \o a /\ DOMAIN p = FetchFields /\ p.state = Popped.state
        /\ p.want = Popped.want /\ p.hop = Popped.hop /\ p.asks = Popped.asks /\ p.redirects = Popped.redirects
        /\ p.code = Popped.code /\ p.response = Popped.response
        /\ p.bytesRead = Popped.bytesRead /\ p.bytesToRead = Popped.bytesToRead
        /\ p.total = Popped.total /\ p.status = Popped.status /\ p.outcome = Popped.outcome
    BY <2>2 DEF FetchFields
  <2> HIDE DEF p
  <2>6. Aligned(Popped, fetch.buffer \o inbound)
    BY <2>2, CalmAligned
  <2>7. p.status # "connecting"
    BY <1>4, <2>2, <2>5 DEF Popped, FetchFields
  <2>8. Aligned(p, fetch.buffer \o inbound)
    BY <2>4, <2>5, <2>6, <2>7, BufferAligned
  <2>9. Aligned(p, p.buffer \o rest)
    BY <2>4, <2>5, <2>8
  <2>10. Ensues(p, o, rest)
    BY <1>2, <2>4, <2>9, ReadFromBufferedEnsues
  <2> HIDE DEF o
  <2>11. Calm(o, s)
    BY <2>10, PostReadsCalm DEF Ensues, Aligned, Placed
  <2> HIDE DEF s
  <2>12. Calm(s, r)
    BY <2>11 DEF Calm, Kept, SameRead, FetchFields
  <2> HIDE DEF r
  <2>13. Ensues(p, r, rest)
    BY <2>10, <2>11, <2>12, CalmOn, EnsuesCalm
  <2>14. Ensues(fetch, r, rest)
    BY <2>2, <2>5, <2>13 DEF Ensues
  <2> QED BY <2>1, <2>4, <2>14, BecomesWhole
<1> QED BY <1>3, <1>4

LEMMA WholeStep == ClientWhole /\ [ClientNext]_clientVars => ClientWhole'
<1> SUFFICES ASSUME ClientWhole, [ClientNext]_clientVars PROVE ClientWhole'
  OBVIOUS
<1>1. CASE UNCHANGED clientVars
  <2>1. /\ exchange' = exchange /\ request' = request /\ inbound' = inbound /\ fetch' = fetch
    BY <1>1 DEF clientVars
  <2>2. Aligned(fetch, fetch.buffer \o inbound)'
    BY <2>1, SameAligned DEF ClientWhole
  <2> QED BY <2>1, <2>2 DEF ClientWhole
<1> QED BY <1>1, ConnectsWhole, ReadCompletesWhole, DeadlinePassesWhole, ClosesClientWhole,
           HandlesDataWhole, HandlesReadWhole, HandlesEndWhole, HandlesTimeoutWhole,
           HandlesAnswerWhole DEF ClientNext

(* What is delivered is the last response of its connection, and one that  *)
(* tells its length has all of its body: no order of handlers, size of     *)
(* blocks, interim response or redirect loses any.                         *)
THEOREM ResponsesAreWhole == ClientSpec => []ResponseWhole
<1>1. ClientWhole => ResponseWhole
  <2> SUFFICES ASSUME ClientWhole, fetch.outcome = "response", fetch.response > 0
               PROVE  LET k == Here(fetch)[fetch.response]
                      IN /\ fetch.response = Len(Here(fetch))
                         /\ ~fetch.asks.head /\ k.body \in {"length", "chunked"} /\ k.code # 304
                               => fetch.total = k.length
    BY DEF ResponseWhole
  <2>1. Delivered(fetch)
    BY DEF ClientWhole, Aligned
  <2> QED BY <2>1 DEF Delivered
<1> QED BY <1>1, InitWhole, WholeStep, PTL DEF ClientSpec

-----------------------------------------------------------------------------
(* The opening handshake.                                                  *)

EndFields == {"factory", "state", "opened", "refused", "sent", "protocol", "deflate", "count"}

(* The response leaves room for what the client will hold for agreed.      *)
Announces(r, s) ==
    /\ (r.deflate = {}) = (s.deflate = {})
    /\ \A x \in r.deflate, y \in s.deflate :
        /\ x.serverBits \in Int /\ x.clientBits \in Int /\ y.serverBits \in Int
        /\ BitsOr(x.serverBits, DefaultWindowBits) >= y.serverBits
        /\ x.serverReset => y.serverReset
        /\ y.clientBits = BitsOr(x.clientBits, DefaultWindowBits)
        /\ x.clientReset \in BOOLEAN /\ y.clientReset = x.clientReset

EndTypes ==
    /\ DOMAIN wsClient = EndFields /\ DOMAIN wsServer = EndFields
    /\ DOMAIN wsWire = {"request", "responses"}
    /\ wsClient.factory \in ClientFactories

RequestFields ==
    {"line", "method", "http", "fragment", "hosts", "port", "upgrade", "connection", "versions",
     "version", "protocols", "originHeader", "origins", "origin", "keys", "key", "extensions",
     "offers", "params"}

(* The headers nobody changed are those the client wrote.                  *)
Unaltered(r) ==
    /\ r = [h \in RequestFields |-> r[h]]
    /\ \A h \in RequestFields \ wsChanged : r[h] = Request(wsClient.factory)[h]

(* A server that has not answered has done nothing, and the request is the *)
(* client's but for what was changed.                                      *)
Unanswered ==
    /\ wsServer.state = "CONNECTING" =>
            wsServer.opened = 0 /\ wsServer.refused = 0 /\ wsServer.sent = <<>>
            /\ wsWire.responses = <<>>
    /\ \A r \in wsWire.request : Unaltered(r)

(* A response that opens is of a server that opened, and tells as much.    *)
Answered ==
    LET r == Head(wsWire.responses)
    IN wsClient.state = "CONNECTING" /\ wsWire.responses # <<>> /\ r.code = 101 =>
        /\ wsServer.opened = 1 /\ {"protocol", "deflate"} \subseteq DOMAIN r
        /\ "protocol" \notin wsChanged => r.protocol = wsServer.protocol
        /\ {"offers", "deflate"} \intersect wsChanged = {} => Announces(r, wsServer)

HandshakeInv == EndTypes /\ Unanswered /\ Answered /\ HandshakeAgrees

-----------------------------------------------------------------------------
(* The first of the checks that holds decides, or none does.               *)
Decided(checks, n) ==
    \/ n = 0 /\ \A i \in 1..Len(checks) : ~checks[i][1]
    \/ \E i \in 1..Len(checks) : checks[i][1] /\ n = checks[i][2]

LEMMA FirstRefusalDecides ==
    ASSUME NEW checks, Len(checks) \in Nat
    PROVE  Decided(checks, FirstRefusal(checks))
<1> DEFINE I == {i \in 1..Len(checks) : checks[i][1]}
           m == CHOOSE x \in I : \A y \in I : x <= y
<1>1. FirstRefusal(checks) = (IF I # {} THEN (IF m = 0 THEN 0 ELSE checks[m][2]) ELSE 0)
  BY DEF FirstRefusal, SelectInSeq, Min
<1>2. CASE I = {}
  BY <1>1, <1>2 DEF Decided
<1>3. CASE I # {}
  <2>1. I \subseteq Nat
    OBVIOUS
  <2>2. \E x \in I : \A y \in I : x <= y
    <3> HIDE DEF I
    <3> QED BY <1>3, <2>1, LeastNat
  <2>3. m \in I
    <3> HIDE DEF I
    <3> QED BY <2>2
  <2>4. m \in 1..Len(checks) /\ checks[m][1] /\ m # 0
    <3> HIDE DEF m
    <3> QED BY <2>3
  <2> HIDE DEF m
  <2> QED BY <1>1, <1>3, <2>4 DEF Decided
<1> QED BY <1>2, <1>3

-----------------------------------------------------------------------------
(* The checks, of a request nobody changed.                                *)
LEMMA PortGiven ==
    ASSUME NEW url
    PROVE  ParseUrl(url).port # 0
<1>1. CASE url.port # 0
  BY <1>1 DEF ParseUrl
<1>2. CASE url.port = 0 /\ url.secure
  BY <1>2 DEF ParseUrl
<1>3. CASE url.port = 0 /\ ~url.secure
  BY <1>3 DEF ParseUrl
<1> QED BY <1>1, <1>2, <1>3

LEMMA LineChecks ==
    ASSUME NEW f, NEW d \in ClientFactories
    PROVE  FirstRefusal(ChecksOfLine(Request(d), f)) # 0
                <=> ExternalPort(f) \notin {0, ParseUrl(d.url).port}
<1> DEFINE r == Request(d)
           checks == ChecksOfLine(r, f)
           misses == ExternalPort(f) \notin {0, r.port}
<1>1. /\ r.line = "good" /\ r.method = "GET" /\ r.http = "1.1" /\ ~r.fragment
      /\ r.hosts = 1 /\ r.port = ParseUrl(d.url).port /\ r.port \in Nat
  BY HandshakeAssumption DEF Request, ParseUrl
<1>0. r.port # 0
  BY <1>1, PortGiven
<1> HIDE DEF r
<1>2. /\ Len(checks) = 7
      /\ (checks[1][1] <=> (r.line = "bad")) /\ (checks[2][1] <=> (r.method # "GET"))
      /\ (checks[3][1] <=> (r.http # "1.1")) /\ (checks[4][1] <=> r.fragment)
      /\ (checks[5][1] <=> (r.hosts # 1)) /\ (checks[6][1] <=> (r.port = -1))
      /\ (checks[7][1] <=> (r.port > 0 /\ ExternalPort(f) \notin {0, r.port}))
  BY DEF ChecksOfLine
<1>3. /\ checks[1][2] = 400 /\ checks[2][2] = 405 /\ checks[3][2] = 505 /\ checks[4][2] = 400
      /\ checks[5][2] = 400 /\ checks[6][2] = 400 /\ checks[7][2] = 400
  BY DEF ChecksOfLine
<1>4. Decided(checks, FirstRefusal(checks)) /\ Len(checks) = 7
  <2> HIDE DEF checks
  <2>1. Len(checks) \in Nat
    BY <1>2
  <2> QED BY <1>2, <2>1, FirstRefusalDecides, Zenon
<1> HIDE DEF checks
<1>5. ~checks[1][1] /\ ~checks[2][1] /\ ~checks[3][1] /\ ~checks[5][1]
  BY <1>1, <1>2
<1>6. ~checks[4][1] /\ ~checks[6][1]
  BY <1>1, <1>2
<1>7. checks[7][1] <=> misses
  BY <1>0, <1>1, <1>2
<1>8. (\E i \in 1..7 : checks[i][1]) <=> misses
  <2> HIDE DEF misses
  <2>1. ASSUME NEW i \in 1..7, checks[i][1] PROVE i = 7
    BY <1>5, <1>6, <2>1
  <2> QED BY <1>7, <2>1
<1>9. \A i \in 1..7 : checks[i][2] # 0
  BY <1>3
<1>10. FirstRefusal(checks) # 0 <=> \E i \in 1..7 : checks[i][1]
  BY <1>4, <1>9, Zenon DEF Decided
<1>11. FirstRefusal(checks) # 0 <=> misses
  BY <1>8, <1>10, Zenon
<1> QED BY <1>1, <1>11 DEF checks, r

RestOf(r, f) == ChecksOfVersion(r, f) \o ChecksOfOrigin(r, f)

Joined(c, v, o) ==
    /\ Len(c) = 11 /\ \A i \in 1..6 : c[i] = v[i]
    /\ \A i \in 1..5 : c[i + 6] = o[i]

LEMMA SixAndFive ==
    ASSUME NEW S, NEW v \in Seq(S), NEW o \in Seq(S), Len(v) = 6, Len(o) = 5
    PROVE  Joined(v \o o, v, o)
<1> DEFINE c == v \o o
<1>1. /\ Len(c) = Len(v) + Len(o)
      /\ \A i \in 1..(Len(v) + Len(o)) : c[i] = IF i <= Len(v) THEN v[i] ELSE o[i - Len(v)]
  BY ConcatProperties, Zenon
<1> HIDE DEF c
<1>2. Len(c) = 11 /\ \A i \in 1..11 : c[i] = IF i <= 6 THEN v[i] ELSE o[i - 6]
  <2>1. Len(v) + Len(o) = 11
    OBVIOUS
  <2> QED BY <1>1, <2>1
<1>3. ASSUME NEW i \in 1..6 PROVE c[i] = v[i]
  BY <1>2
<1>4. ASSUME NEW i \in 1..5 PROVE c[i + 6] = o[i]
  <2>1. i + 6 \in 1..11 /\ ~(i + 6 <= 6) /\ (i + 6) - 6 = i
    OBVIOUS
  <2> QED BY <1>2, <2>1
<1>5. Joined(c, v, o)
  BY <1>2, <1>3, <1>4 DEF Joined
<1> QED BY <1>5, Zenon DEF c

LEMMA RestParts ==
    ASSUME NEW r, NEW f
    PROVE  LET v == ChecksOfVersion(r, f)
               o == ChecksOfOrigin(r, f)
           IN /\ Len(RestOf(r, f)) = 11
              /\ \A i \in 1..6 : RestOf(r, f)[i] = v[i]
              /\ \A i \in 1..5 : RestOf(r, f)[i + 6] = o[i]
<1> DEFINE v == ChecksOfVersion(r, f)
           o == ChecksOfOrigin(r, f)
           S == {v[i] : i \in 1..6} \cup {o[i] : i \in 1..5}
<1>1. Len(v) = 6 /\ v \in Seq(S)
  <2>1. v = [i \in 1..6 |-> v[i]]
    BY DEF ChecksOfVersion
  <2>2. Len(v) = 6
    BY DEF ChecksOfVersion
  <2> HIDE DEF v
  <2> QED BY <2>1, <2>2
<1>2. Len(o) = 5 /\ o \in Seq(S)
  <2>1. o = [i \in 1..5 |-> o[i]]
    BY DEF ChecksOfOrigin
  <2>2. Len(o) = 5
    BY DEF ChecksOfOrigin
  <2> HIDE DEF o
  <2> QED BY <2>1, <2>2
<1> HIDE DEF v, o, S
<1>3. RestOf(r, f) = v \o o
  BY Zenon DEF RestOf, v, o
<1>4. Joined(v \o o, v, o)
  <2>1. v \in Seq(S) /\ Len(v) = 6 /\ o \in Seq(S) /\ Len(o) = 5
    BY <1>1, <1>2
  <2> QED BY <2>1, SixAndFive, Zenon
<1>5. Joined(RestOf(r, f), v, o)
  BY <1>3, <1>4, Zenon
<1> QED BY <1>5, Zenon DEF Joined, v, o

(* What the checks refuse with.                                            *)
LEMMA LineCodes ==
    ASSUME NEW r, NEW f
    PROVE  FirstRefusal(ChecksOfLine(r, f)) \in {0, 400, 405, 505}
<1> DEFINE checks == ChecksOfLine(r, f)
<1>1. Len(checks) = 7
  BY DEF ChecksOfLine
<1>2. /\ checks[1][2] = 400 /\ checks[2][2] = 405 /\ checks[3][2] = 505 /\ checks[4][2] = 400
      /\ checks[5][2] = 400 /\ checks[6][2] = 400 /\ checks[7][2] = 400
  BY DEF ChecksOfLine
<1> HIDE DEF checks
<1>3. \A i \in 1..7 : checks[i][2] \in {400, 405, 505}
  BY <1>2
<1>4. FirstRefusal(checks) = 0 \/ \E i \in 1..7 : FirstRefusal(checks) = checks[i][2]
  <2>1. Len(checks) \in Nat
    BY <1>1
  <2>2. Decided(checks, FirstRefusal(checks))
    BY <2>1, FirstRefusalDecides, Zenon
  <2> QED BY <1>1, <2>2, Zenon DEF Decided
<1>5. FirstRefusal(checks) \in {0, 400, 405, 505}
  BY <1>3, <1>4
<1> QED BY <1>5 DEF checks

LEMMA RestCodes ==
    ASSUME NEW r, NEW f
    PROVE  /\ Len(RestOf(r, f)) = 11
           /\ \A i \in 1..11 : RestOf(r, f)[i][2] \in {200, 426, 400, 503}
           /\ FirstRefusal(RestOf(r, f)) \in {0, 200, 426, 400, 503}
<1> DEFINE v == ChecksOfVersion(r, f)
           o == ChecksOfOrigin(r, f)
           checks == RestOf(r, f)
<1>1. /\ v[1][2] \in {200, 426} /\ v[2][2] = 400 /\ v[3][2] = 400 /\ v[4][2] = 400
      /\ v[5][2] = 400 /\ v[6][2] = 400
  BY DEF ChecksOfVersion
<1>2. o[1][2] = 400 /\ o[2][2] = 400 /\ o[3][2] = 400 /\ o[4][2] = 400 /\ o[5][2] = 503
  BY DEF ChecksOfOrigin
<1>3. /\ Len(checks) = 11
      /\ \A i \in 1..6 : checks[i] = v[i]
      /\ \A i \in 1..5 : checks[i + 6] = o[i]
  BY RestParts
<1> HIDE DEF v, o, checks
<1>4. \A i \in 1..6 : checks[i][2] \in {200, 426, 400}
  BY <1>1, <1>3
<1>5. ASSUME NEW i \in 7..11 PROVE checks[i][2] \in {400, 503}
  <2>1. i - 6 \in 1..5 /\ (i - 6) + 6 = i
    OBVIOUS
  <2>2. checks[i] = o[i - 6]
    BY <1>3, <2>1
  <2>3. \A k \in 1..5 : o[k][2] \in {400, 503}
    BY <1>2
  <2> QED BY <2>1, <2>2, <2>3
<1>6. ASSUME NEW i \in 1..11 PROVE checks[i][2] \in {200, 426, 400, 503}
  BY <1>4, <1>5
<1>7. FirstRefusal(checks) = 0 \/ \E i \in 1..11 : FirstRefusal(checks) = checks[i][2]
  <2>1. Len(checks) = 11 /\ Len(checks) \in Nat
    BY <1>3
  <2>2. Decided(checks, FirstRefusal(checks))
    BY <2>1, FirstRefusalDecides, Zenon
  <2> QED BY <2>1, <2>2, Zenon DEF Decided
<1>8. FirstRefusal(checks) \in {0, 200, 426, 400, 503}
  BY <1>6, <1>7
<1> QED BY <1>3, <1>6, <1>8 DEF checks

(* What an unchanged request is refused for after the port.                *)
RefusableFor(d, f) ==
    \/ SpecToProtocolVersion(d.version) \notin f.versions
    \/ Cardinality(ToSet(d.protocols)) # Len(d.protocols)
    \/ OriginHeard(d) /\ (d.origin = "invalid" \/ ~OriginAllowed(d, f))

(* The reasons for a refusal, but for the number of connections.           *)
LEMMA RestReasons ==
    ASSUME NEW r, NEW f
    PROVE  LET n == FirstRefusal(RestOf(r, f))
               reason == \/ r.upgrade \in {"none", "other"} \/ r.connection # "upgrade"
                         \/ r.versions # 1 \/ r.version \notin f.versions
                         \/ Cardinality(ToSet(r.protocols)) # Len(r.protocols)
                         \/ OriginSeen(r) /\ (r.origins > 1 \/ r.origin = "invalid")
                         \/ OriginSeen(r) /\ ~OriginAllowed(r, f)
                         \/ r.keys # 1 \/ r.key = "malformed" \/ r.extensions > 1
           IN (n = 400 => reason) /\ (n = 0 => ~reason)
<1> DEFINE v == ChecksOfVersion(r, f)
           o == ChecksOfOrigin(r, f)
           checks == RestOf(r, f)
           n == FirstRefusal(checks)
           reason == \/ r.upgrade \in {"none", "other"} \/ r.connection # "upgrade"
                     \/ r.versions # 1 \/ r.version \notin f.versions
                     \/ Cardinality(ToSet(r.protocols)) # Len(r.protocols)
                     \/ OriginSeen(r) /\ (r.origins > 1 \/ r.origin = "invalid")
                     \/ OriginSeen(r) /\ ~OriginAllowed(r, f)
                     \/ r.keys # 1 \/ r.key = "malformed" \/ r.extensions > 1
<1>1. /\ v[1][1] <=> r.upgrade = "none"
      /\ v[2][1] <=> r.upgrade = "other"
      /\ v[3][1] <=> r.connection # "upgrade"
      /\ v[4][1] <=> r.versions # 1
      /\ v[5][1] <=> r.version \notin f.versions
      /\ v[6][1] <=> Cardinality(ToSet(r.protocols)) # Len(r.protocols)
  BY DEF ChecksOfVersion
<1>2. /\ o[1][1] <=> OriginSeen(r) /\ (r.origins > 1 \/ r.origin = "invalid")
      /\ o[2][1] <=> OriginSeen(r) /\ ~OriginAllowed(r, f)
      /\ o[3][1] <=> r.keys # 1 \/ r.key = "malformed"
      /\ o[4][1] <=> r.extensions > 1
      /\ o[5][2] = 503
  BY DEF ChecksOfOrigin
<1>3. /\ Len(checks) = 11
      /\ \A i \in 1..6 : checks[i] = v[i]
      /\ \A i \in 1..5 : checks[i + 6] = o[i]
  BY RestParts
<1>4. \A i \in 1..11 : checks[i][2] # 0
  BY RestCodes
<1> HIDE DEF v, o, checks
<1>5. Decided(checks, n) /\ Len(checks) = 11
  <2>1. Len(checks) \in Nat
    BY <1>3
  <2> QED BY <1>3, <2>1, FirstRefusalDecides, Zenon
<1>6. reason <=> (\E i \in 1..6 : v[i][1]) \/ (\E i \in 1..4 : o[i][1])
  <2>1. (\E i \in 1..6 : v[i][1])
            <=> v[1][1] \/ v[2][1] \/ v[3][1] \/ v[4][1] \/ v[5][1] \/ v[6][1]
    OBVIOUS
  <2>2. (\E i \in 1..4 : o[i][1]) <=> o[1][1] \/ o[2][1] \/ o[3][1] \/ o[4][1]
    OBVIOUS
  <2> QED BY <1>1, <1>2, <2>1, <2>2
<1> HIDE DEF reason, n
<1>7. ASSUME n = 400 PROVE reason
  <2>1. PICK i \in 1..11 : checks[i][1] /\ checks[i][2] = 400
    BY <1>5, <1>7 DEF Decided
  <2>2. CASE i \in 1..6
    BY <1>3, <1>6, <2>1, <2>2
  <2>3. CASE i \in 7..11
    <3>1. PICK k \in 1..5 : i = k + 6
      <4>1. i - 6 \in 1..5 /\ i = (i - 6) + 6
        BY <2>3
      <4> QED BY <4>1
    <3>2. o[k][1] /\ o[k][2] = 400
      BY <1>3, <2>1, <3>1
    <3>3. k \in 1..4
      BY <1>2, <3>2
    <3> QED BY <1>6, <3>2, <3>3
  <2> QED BY <2>2, <2>3
<1>8. ASSUME n = 0 PROVE ~reason
  <2>1. \A i \in 1..11 : ~checks[i][1]
    BY <1>4, <1>5, <1>8, Zenon DEF Decided
  <2>2. \A i \in 1..6 : ~v[i][1]
    BY <1>3, <2>1
  <2>3. ASSUME NEW i \in 1..4 PROVE ~o[i][1]
    <3>1. i \in 1..5 /\ i + 6 \in 1..11
      OBVIOUS
    <3> QED BY <1>3, <2>1, <3>1
  <2> QED BY <1>6, <2>2, <2>3
<1> QED BY <1>7, <1>8 DEF reason, n, checks

(* The server looks for an origin in the header the client wrote it in.    *)
LEMMA OriginWritten ==
    ASSUME NEW r, NEW d \in ClientFactories,
           r.originHeader = Request(d).originHeader, r.version = Request(d).version
    PROVE  OriginSeen(r) <=> OriginHeard(d)
<1>1. /\ r.originHeader = (IF d.origin = "none" THEN "none"
                           ELSE IF d.version > 10 THEN "origin" ELSE "sec-websocket-origin")
      /\ r.version = SpecToProtocolVersion(d.version)
  BY DEF Request
<1>2. d.version \in 10..18
  BY HandshakeAssumption
<1> QED BY <1>1, <1>2 DEF OriginSeen, OriginHeard, SpecToProtocolVersion

LEMMA RestChecks ==
    ASSUME NEW f, NEW d \in ClientFactories
    PROVE  LET n == FirstRefusal(RestOf(Request(d), f))
           IN (n = 400 => RefusableFor(d, f)) /\ (n = 0 => ~RefusableFor(d, f))
<1> DEFINE r == Request(d)
           n == FirstRefusal(RestOf(r, f))
<1>1. /\ r.upgrade = "websocket" /\ r.connection = "upgrade" /\ r.versions = 1
      /\ r.version = SpecToProtocolVersion(d.version) /\ r.protocols = d.protocols
      /\ r.origins = 1 /\ r.origin = d.origin
      /\ r.keys = 1 /\ r.key = "fresh" /\ r.extensions = 1
  BY DEF Request
<1>2. OriginSeen(r) <=> OriginHeard(d)
  BY OriginWritten
<1> HIDE DEF r
<1>3. OriginAllowed(r, f) <=> OriginAllowed(d, f)
  BY <1>1 DEF OriginAllowed
<1>4. LET reason == \/ r.upgrade \in {"none", "other"} \/ r.connection # "upgrade"
                    \/ r.versions # 1 \/ r.version \notin f.versions
                    \/ Cardinality(ToSet(r.protocols)) # Len(r.protocols)
                    \/ OriginSeen(r) /\ (r.origins > 1 \/ r.origin = "invalid")
                    \/ OriginSeen(r) /\ ~OriginAllowed(r, f)
                    \/ r.keys # 1 \/ r.key = "malformed" \/ r.extensions > 1
      IN (n = 400 => reason) /\ (n = 0 => ~reason)
  BY RestReasons
<1> HIDE DEF n
<1>5. (n = 400 => RefusableFor(d, f)) /\ (n = 0 => ~RefusableFor(d, f))
  BY <1>1, <1>2, <1>3, <1>4 DEF RefusableFor
<1> QED BY <1>5 DEF n, r

-----------------------------------------------------------------------------
(* The server's answer.                                                    *)
Offer == [acceptTakeover : BOOLEAN, acceptBits : BOOLEAN,
          requestTakeover : BOOLEAN, requestBits : Int]

Acceptable(chosen) ==
    chosen = {} \/ \E o \in Offer, a \in OfferAccepts : chosen = {<<o, a>>}

LEMMA PairAnnounced ==
    ASSUME NEW o \in Offer, NEW a \in OfferAccepts, OfferAcceptValid(o, a)
    PROVE  LET x == ResponseOf(o, a)
               y == CreateFromOfferAccept(o, a)
           IN /\ x.serverBits \in Int /\ x.clientBits \in Int /\ y.serverBits \in Int
              /\ BitsOr(x.serverBits, DefaultWindowBits) >= y.serverBits
              /\ x.serverReset => y.serverReset
              /\ y.clientBits = BitsOr(x.clientBits, DefaultWindowBits)
              /\ x.clientReset \in BOOLEAN /\ y.clientReset = x.clientReset
<1> DEFINE x == ResponseOf(o, a)
           y == CreateFromOfferAccept(o, a)
<1>1. /\ o.requestTakeover \in BOOLEAN /\ o.requestBits \in Int
      /\ a.requestTakeover \in BOOLEAN /\ a.requestBits \in Int
      /\ a.takeover \subseteq BOOLEAN /\ a.bits \subseteq Int
  BY HandshakeAssumption DEF Offer
<1>2. /\ x.serverReset = o.requestTakeover /\ x.serverBits = o.requestBits
      /\ x.clientReset = a.requestTakeover /\ x.clientBits = a.requestBits
  BY DEF ResponseOf
<1>3. /\ y.serverReset = Given(a.takeover, o.requestTakeover)
      /\ y.clientReset = a.requestTakeover
      /\ y.serverBits = BitsOr(Given(a.bits, o.requestBits), DefaultWindowBits)
      /\ y.clientBits = BitsOr(a.requestBits, DefaultWindowBits)
  BY DEF CreateFromOfferAccept
<1> HIDE DEF x, y
<1>4. x.serverReset => y.serverReset
  <2> SUFFICES ASSUME o.requestTakeover PROVE Given(a.takeover, o.requestTakeover)
    BY <1>2, <1>3
  <2>1. FALSE \notin a.takeover
    BY DEF OfferAcceptValid
  <2>2. a.takeover = {} \/ a.takeover = {TRUE}
    BY <1>1, <2>1
  <2>3. CASE a.takeover = {}
    BY <2>3 DEF Given
  <2>4. CASE a.takeover = {TRUE}
    <3>1. (CHOOSE z \in a.takeover : TRUE) \in {TRUE}
      BY <2>4
    <3> QED BY <2>4, <3>1 DEF Given
  <2> QED BY <2>2, <2>3, <2>4
<1>5. y.serverBits \in Int /\ BitsOr(x.serverBits, DefaultWindowBits) >= y.serverBits
  <2>1. CASE a.bits = {}
    BY <1>1, <1>2, <1>3, <2>1 DEF Given, BitsOr, DefaultWindowBits
  <2>2. CASE a.bits # {}
    <3> DEFINE b == CHOOSE z \in a.bits : TRUE
    <3>1. b \in a.bits /\ Given(a.bits, o.requestBits) = b
      BY <2>2 DEF Given
    <3> HIDE DEF b
    <3>2. b \in 8..15 /\ (o.requestBits # 0 => b <= o.requestBits)
      BY <3>1 DEF OfferAcceptValid, WindowSizes
    <3> QED BY <1>1, <1>2, <1>3, <3>1, <3>2 DEF BitsOr, DefaultWindowBits
  <2> QED BY <2>1, <2>2
<1>6. x.clientReset \in BOOLEAN /\ y.clientReset = x.clientReset
  BY <1>1, <1>2, <1>3
<1>7. x.serverBits \in Int /\ x.clientBits \in Int /\ y.clientBits = BitsOr(x.clientBits, DefaultWindowBits)
  BY <1>1, <1>2, <1>3
<1> QED BY <1>4, <1>5, <1>6, <1>7 DEF x, y

LEMMA RefusalCode == ASSUME NEW code PROVE Refusal(code).code = code
BY DEF Refusal

LEMMA Appended ==
    ASSUME NEW x, NEW y
    PROVE  /\ Append(<<>>, x) = <<x>> /\ <<x>> # <<>> /\ Head(<<x>>) = x
           /\ Append(<<x>>, y) # <<>> /\ Head(Append(<<x>>, y)) = x
<1>1. Append(<<>>, x) = <<x>> /\ <<x>> # <<>> /\ Head(<<x>>) = x
  OBVIOUS
<1>2. <<x>> \in Seq({x, y}) /\ y \in {x, y}
  OBVIOUS
<1>3. Append(<<x>>, y) # <<>>
  BY <1>2, AppendProperties
<1>4. Head(Append(<<x>>, y)) = x
  BY <1>1, <1>2, HeadTailAppend
<1> QED BY <1>1, <1>3, <1>4

LEMMA FailKeeps ==
    ASSUME NEW s, NEW code, NEW t, DOMAIN s = EndFields, t = FailHandshake(s, code)
    PROVE  /\ DOMAIN t = EndFields /\ t.state = "CLOSED" /\ t.refused = code
           /\ t.factory = s.factory /\ t.opened = s.opened
           /\ t.protocol = s.protocol /\ t.deflate = s.deflate
           /\ s.state = "CLOSED" => t.sent = s.sent
           /\ s.state # "CLOSED" => t.sent = Append(s.sent, Refusal(code))
BY DEF EndFields, FailHandshake, ServerSends

Tells(r, s) == {"protocol", "deflate"} \subseteq DOMAIN r /\ r.protocol = s.protocol

(* What opening does to a server, closed already for a missing port or not.*)
LEMMA SucceedSound ==
    ASSUME NEW s, DOMAIN s = EndFields, s.opened = 0,
           (s.state = "CONNECTING" /\ s.sent = <<>>)
              \/ (s.state = "CLOSED" /\ s.sent = <<Refusal(400)>>),
           NEW r, NEW protocol, NEW chosen, NEW opens \in BOOLEAN
    PROVE  LET t == SucceedHandshake(s, r, protocol, chosen, opens)
           IN /\ DOMAIN t = EndFields /\ t.factory = s.factory
              /\ t.state \in {"OPEN", "CLOSED"} /\ t.opened \in {0, 1}
              /\ t.refused \in {s.refused, 500} \/ OfferUnreadable(r)
              /\ t.opened = 1 => ~OfferUnreadable(r)
              /\ t.sent # <<>>
              /\ s.state = "CLOSED" => Head(t.sent).code = 400
              /\ s.state # "CLOSED" =>
                    /\ Head(t.sent).code = 101 <=> t.opened = 1
                    /\ t.opened = 1 => Tells(Head(t.sent), t)
                    /\ t.opened = 1 /\ Acceptable(chosen) => Announces(Head(t.sent), t)
<1> DEFINE response ==
              [code |-> 101, http |-> "1.1", upgrade |-> "websocket",
               connection |-> "upgrade", accepts |-> 1, accept |-> r.key,
               protocols |-> 1, protocol |-> protocol,
               extensions |-> 1, extension |-> "deflate",
               deflate |-> {ResponseOf(c[1], c[2]) : c \in chosen}]
           u == [ServerSends(s, response) EXCEPT
                    !.state = "OPEN", !.opened = @ + 1, !.protocol = protocol,
                    !.deflate = {CreateFromOfferAccept(c[1], c[2]) : c \in chosen}]
           t == SucceedHandshake(s, r, protocol, chosen, opens)
           valid == \A c \in chosen : OfferAcceptValid(c[1], c[2])
           bad == \E c \in chosen : ~OfferAcceptValid(c[1], c[2])
           unread == OfferUnreadable(r)
<1>1. \/ t = FailHandshake(s, 500)
      \/ unread /\ t = FailHandshake(s, 400)
      \/ valid /\ ~unread /\ t = u
      \/ valid /\ ~unread /\ t = FailHandshake(u, 500)
  <2>1. t = IF protocol # "" /\ ~Contains(r.protocols, protocol) THEN FailHandshake(s, 500)
            ELSE IF unread THEN FailHandshake(s, 400)
            ELSE IF bad THEN FailHandshake(s, 500)
            ELSE IF opens THEN u ELSE FailHandshake(u, 500)
    BY DEF SucceedHandshake
  <2>2. bad <=> ~valid
    OBVIOUS
  <2> HIDE DEF t, u, valid, bad, unread
  <2>3. CASE protocol # "" /\ ~Contains(r.protocols, protocol)
    <3>1. t = FailHandshake(s, 500)
      BY <2>1, <2>3
    <3> QED BY <3>1
  <2>4. CASE ~(protocol # "" /\ ~Contains(r.protocols, protocol))
    <3>1. CASE unread
      <4>1. t = FailHandshake(s, 400)
        BY <2>1, <2>4, <3>1
      <4> QED BY <3>1, <4>1
    <3>2. CASE ~unread /\ bad
      <4>1. t = FailHandshake(s, 500)
        BY <2>1, <2>4, <3>2
      <4> QED BY <4>1
    <3>3. CASE ~unread /\ ~bad
      <4>1. t = IF opens THEN u ELSE FailHandshake(u, 500)
        BY <2>1, <2>4, <3>3, Zenon
      <4> QED BY <2>2, <3>3, <4>1, Zenon
    <3> QED BY <3>1, <3>2, <3>3
  <2> QED BY <2>3, <2>4
<1>2. /\ response.code = 101 /\ response.protocol = protocol
      /\ response.deflate = {ResponseOf(c[1], c[2]) : c \in chosen}
  OBVIOUS
<1>0. {"protocol", "deflate"} \subseteq DOMAIN response
  OBVIOUS
<1> HIDE DEF response, unread
<1>3. /\ DOMAIN u = EndFields /\ u.factory = s.factory /\ u.state = "OPEN" /\ u.opened = 1
      /\ u.refused = s.refused /\ u.protocol = protocol
      /\ u.deflate = {CreateFromOfferAccept(c[1], c[2]) : c \in chosen}
      /\ u.sent = IF s.state = "CLOSED" THEN s.sent ELSE Append(s.sent, response)
  BY DEF EndFields, ServerSends
<1> HIDE DEF u, t
<1>4. ASSUME valid, Acceptable(chosen), NEW w, w.protocol = u.protocol, w.deflate = u.deflate
      PROVE  Announces(response, w)
  <2>2. CASE chosen = {}
    <3>1. response.deflate = {} /\ w.deflate = {}
      BY <1>2, <1>3, <1>4, <2>2
    <3> QED BY <3>1 DEF Announces
  <2>3. CASE \E o \in Offer, a \in OfferAccepts : chosen = {<<o, a>>}
    <3>1. PICK o \in Offer, a \in OfferAccepts : chosen = {<<o, a>>}
      BY <2>3
    <3>2. response.deflate = {ResponseOf(o, a)}
      BY <1>2, <3>1
    <3>3. w.deflate = {CreateFromOfferAccept(o, a)}
      BY <1>3, <1>4, <3>1
    <3>4. OfferAcceptValid(o, a)
      BY <1>4, <3>1
    <3> QED BY <3>2, <3>3, <3>4, PairAnnounced DEF Announces
  <2> QED BY <1>4, <2>2, <2>3 DEF Acceptable
<1> DEFINE Good(w) ==
        /\ DOMAIN w = EndFields /\ w.factory = s.factory
        /\ w.state \in {"OPEN", "CLOSED"} /\ w.opened \in {0, 1}
        /\ w.refused \in {s.refused, 500} \/ unread
        /\ w.opened = 1 => ~unread
        /\ w.sent # <<>>
        /\ s.state = "CLOSED" => Head(w.sent).code = 400
        /\ s.state # "CLOSED" =>
            /\ Head(w.sent).code = 101 <=> w.opened = 1
            /\ w.opened = 1 => Tells(Head(w.sent), w)
            /\ w.opened = 1 /\ Acceptable(chosen) => Announces(Head(w.sent), w)
<1>5. ASSUME NEW code, code \in {400, 500}, code = 500 \/ unread
      PROVE  Good(FailHandshake(s, code))
  <2> DEFINE w == FailHandshake(s, code)
  <2>0. w = FailHandshake(s, code)
    OBVIOUS
  <2> HIDE DEF w
  <2>1. /\ DOMAIN w = EndFields /\ w.state = "CLOSED" /\ w.refused = code
        /\ w.factory = s.factory /\ w.opened = 0
        /\ s.state = "CLOSED" => w.sent = s.sent
        /\ s.state # "CLOSED" => w.sent = Append(s.sent, Refusal(code))
    BY <2>0, FailKeeps
  <2>2. ASSUME s.state = "CLOSED" PROVE Good(w)
    <3>1. w.sent # <<>> /\ Head(w.sent).code = 400
      BY <2>1, <2>2, Appended, RefusalCode
    <3> QED BY <1>5, <2>1, <2>2, <3>1
  <2>3. ASSUME s.state # "CLOSED" PROVE Good(w)
    <3>1. w.sent = <<Refusal(code)>>
      BY <2>1, <2>3, Appended
    <3>2. w.sent # <<>> /\ Head(w.sent).code = code
      BY <3>1, Appended, RefusalCode
    <3> QED BY <1>5, <2>1, <2>3, <3>2
  <2>4. Good(w)
    BY <2>2, <2>3
  <2> QED BY <2>4 DEF w
<1>6. /\ u.sent = IF s.state = "CLOSED" THEN <<Refusal(400)>> ELSE <<response>>
      /\ u.sent # <<>>
      /\ Head(u.sent) = IF s.state = "CLOSED" THEN Refusal(400) ELSE response
  <2>1. CASE s.state = "CLOSED"
    <3>1. u.sent = <<Refusal(400)>>
      BY <1>3, <2>1
    <3> QED BY <2>1, <3>1, Appended
  <2>2. CASE s.state # "CLOSED"
    <3>1. u.sent = Append(<<>>, response)
      BY <1>3, <2>2
    <3> QED BY <2>2, <3>1, Appended
  <2> QED BY <2>1, <2>2
<1>7. ASSUME valid, ~unread PROVE Good(u)
  <2>1. Acceptable(chosen) => Announces(response, u)
    BY <1>4, <1>7
  <2>2. u.sent # <<>> /\ (s.state = "CLOSED" => Head(u.sent).code = 400)
    BY <1>6, RefusalCode
  <2>3. s.state # "CLOSED" => Head(u.sent) = response
    BY <1>6
  <2>4. Tells(response, u)
    BY <1>0, <1>2, <1>3 DEF Tells
  <2> QED BY <1>2, <1>3, <1>7, <2>1, <2>2, <2>3, <2>4
<1>8. ASSUME valid, ~unread PROVE Good(FailHandshake(u, 500))
  <2> DEFINE w == FailHandshake(u, 500)
  <2>1. /\ DOMAIN w = EndFields /\ w.state = "CLOSED" /\ w.refused = 500
        /\ w.factory = s.factory /\ w.opened = 1
        /\ w.protocol = u.protocol /\ w.deflate = u.deflate
        /\ w.sent = Append(u.sent, Refusal(500))
    <3>0. w = FailHandshake(u, 500)
      OBVIOUS
    <3> HIDE DEF w
    <3>1. DOMAIN u = EndFields /\ u.state # "CLOSED"
      BY <1>3
    <3>2. /\ DOMAIN w = EndFields /\ w.state = "CLOSED" /\ w.refused = 500
          /\ w.factory = u.factory /\ w.opened = u.opened
          /\ w.protocol = u.protocol /\ w.deflate = u.deflate
          /\ w.sent = Append(u.sent, Refusal(500))
      BY <3>1, <3>0, FailKeeps
    <3> QED BY <1>3, <3>1, <3>2
  <2> HIDE DEF w
  <2>2. w.sent # <<>> /\ Head(w.sent) = IF s.state = "CLOSED" THEN Refusal(400) ELSE response
    BY <1>6, <2>1, Appended
  <2>3. Acceptable(chosen) => Announces(response, w)
    BY <1>4, <1>8, <2>1
  <2>4. s.state = "CLOSED" => Head(w.sent).code = 400
    BY <2>2, RefusalCode
  <2>5. s.state # "CLOSED" => Head(w.sent) = response
    BY <2>2
  <2>6. Tells(response, w)
    BY <1>0, <1>2, <1>3, <2>1 DEF Tells
  <2>7. Good(w)
    BY <1>2, <1>8, <2>1, <2>2, <2>3, <2>4, <2>5, <2>6
  <2> QED BY <2>7 DEF w
<1> HIDE DEF Good
<1>9. Good(t)
  BY <1>1, <1>5, <1>7, <1>8
<1> QED BY <1>9 DEF Good, t, unread

(* What a server that has not answered makes of a request.                 *)
Processed(s, t, r, chosen) ==
    LET f == s.factory
        rest == FirstRefusal(RestOf(r, f))
    IN /\ DOMAIN t = EndFields /\ t.factory = f
       /\ t.state \in {"OPEN", "CLOSED"} /\ t.opened \in {0, 1} /\ t.sent # <<>>
       /\ t.opened = 1 => FirstRefusal(ChecksOfLine(r, f)) = 0 /\ rest = 0 /\ ~OfferUnreadable(r)
       /\ t.refused = 400 => \/ FirstRefusal(ChecksOfLine(r, f)) # 0 \/ rest = 400
                             \/ MissingPort(r, f) \/ OfferUnreadable(r)
       /\ t.opened = 1 => Head(t.sent).code = 101 \/ MissingPort(r, f)
       /\ Head(t.sent).code = 101 =>
            /\ t.opened = 1 /\ Tells(Head(t.sent), t)
            /\ Acceptable(chosen) => Announces(Head(t.sent), t)

LEMMA ProcessSound ==
    ASSUME NEW s, DOMAIN s = EndFields, s.state = "CONNECTING", s.sent = <<>>,
           s.opened = 0, s.refused = 0,
           NEW r, NEW protocol, NEW chosen, NEW application
    PROVE  Processed(s, ProcessRequest(s, r, protocol, chosen, application), r, chosen)
<1> DEFINE f == s.factory
           line == FirstRefusal(ChecksOfLine(r, f))
           rest == FirstRefusal(RestOf(r, f))
           p == IF MissingPort(r, f) THEN FailHandshake(s, 400) ELSE s
           opens == application = "opens"
           t == ProcessRequest(s, r, protocol, chosen, application)
<1>1. t = IF line # 0 THEN FailHandshake(s, line)
          ELSE IF rest # 0 THEN FailHandshake(p, rest)
          ELSE IF application = "denies" THEN FailHandshake(p, 403)
          ELSE SucceedHandshake(p, r, protocol, chosen, opens)
  BY DEF ProcessRequest, RestOf
<1>2. line \in {0, 400, 405, 505} /\ rest \in {0, 200, 426, 400, 503}
  BY LineCodes, RestCodes
<1>3. /\ DOMAIN p = EndFields /\ p.factory = f /\ p.opened = 0
      /\ IF MissingPort(r, f) THEN p.state = "CLOSED" /\ p.sent = <<Refusal(400)>> /\ p.refused = 400
         ELSE p.state = "CONNECTING" /\ p.sent = <<>> /\ p.refused = 0
  <2>1. CASE MissingPort(r, f)
    <3>1. p = FailHandshake(s, 400)
      BY <2>1
    <3> HIDE DEF p
    <3>2. /\ DOMAIN p = EndFields /\ p.state = "CLOSED" /\ p.refused = 400
          /\ p.factory = f /\ p.opened = 0
          /\ p.sent = Append(<<>>, Refusal(400))
      BY <3>1, FailKeeps
    <3> QED BY <2>1, <3>2, Appended
  <2>2. CASE ~MissingPort(r, f)
    BY <2>2
  <2> QED BY <2>1, <2>2
<1> HIDE DEF line, rest, p, t, opens
<1> DEFINE Goal ==
        /\ DOMAIN t = EndFields /\ t.factory = f
        /\ t.state \in {"OPEN", "CLOSED"} /\ t.opened \in {0, 1} /\ t.sent # <<>>
        /\ t.opened = 1 => line = 0 /\ rest = 0 /\ ~OfferUnreadable(r)
        /\ t.refused = 400 => line # 0 \/ rest = 400 \/ MissingPort(r, f) \/ OfferUnreadable(r)
        /\ t.opened = 1 => Head(t.sent).code = 101 \/ MissingPort(r, f)
        /\ Head(t.sent).code = 101 =>
            /\ t.opened = 1 /\ Tells(Head(t.sent), t)
            /\ Acceptable(chosen) => Announces(Head(t.sent), t)
<1>4. ASSUME line # 0 PROVE Goal
  <2>1. t = FailHandshake(s, line)
    BY <1>1, <1>4
  <2>2. /\ DOMAIN t = EndFields /\ t.state = "CLOSED" /\ t.refused = line
        /\ t.factory = f /\ t.opened = 0
        /\ t.sent = Append(<<>>, Refusal(line))
    BY <2>1, FailKeeps
  <2>3. t.sent # <<>> /\ Head(t.sent) = Refusal(line)
    BY <2>2, Appended
  <2>4. Head(t.sent).code = line
    BY <2>3, RefusalCode
  <2> QED BY <1>2, <1>4, <2>2, <2>3, <2>4
<1>5. ASSUME line = 0, NEW code \in {rest, 403}, code # 0, t = FailHandshake(p, code),
             code \in {200, 426, 400, 503, 403}
      PROVE Goal
  <2>2. /\ DOMAIN t = EndFields /\ t.state = "CLOSED" /\ t.refused = code
        /\ t.factory = f /\ t.opened = 0
        /\ p.state = "CLOSED" => t.sent = p.sent
        /\ p.state # "CLOSED" => t.sent = Append(p.sent, Refusal(code))
    BY <1>3, <1>5, FailKeeps
  <2>3. t.sent # <<>> /\ Head(t.sent) \in {Refusal(code), Refusal(400)}
    <3>1. t.sent \in {<<Refusal(400)>>, Append(<<>>, Refusal(code))}
      <4>1. CASE MissingPort(r, f)
        <5>1. t.sent = <<Refusal(400)>>
          BY <1>3, <2>2, <4>1
        <5> QED BY <5>1
      <4>2. CASE ~MissingPort(r, f)
        <5>1. p.state # "CLOSED" /\ p.sent = <<>>
          BY <1>3, <4>2
        <5>2. t.sent = Append(<<>>, Refusal(code))
          BY <2>2, <5>1
        <5> QED BY <5>2
      <4> QED BY <4>1, <4>2
    <3>2. CASE t.sent = <<Refusal(400)>>
      BY <3>2, Appended
    <3>3. CASE t.sent = Append(<<>>, Refusal(code))
      BY <3>3, Appended
    <3> QED BY <3>1, <3>2, <3>3
  <2>4. Head(t.sent).code \in {code, 400}
    BY <2>3, RefusalCode
  <2> QED BY <1>5, <2>2, <2>3, <2>4
<1>6. ASSUME line = 0, rest = 0, t = SucceedHandshake(p, r, protocol, chosen, opens) PROVE Goal
  <2>2. (p.state = "CONNECTING" /\ p.sent = <<>>)
        \/ (p.state = "CLOSED" /\ p.sent = <<Refusal(400)>>)
    BY <1>3
  <2>1. opens \in BOOLEAN
    BY DEF opens
  <2>3. /\ DOMAIN t = EndFields /\ t.factory = p.factory
        /\ t.state \in {"OPEN", "CLOSED"} /\ t.opened \in {0, 1}
        /\ t.refused \in {p.refused, 500} \/ OfferUnreadable(r)
        /\ t.opened = 1 => ~OfferUnreadable(r)
        /\ t.sent # <<>>
        /\ p.state = "CLOSED" => Head(t.sent).code = 400
        /\ p.state # "CLOSED" =>
            /\ Head(t.sent).code = 101 <=> t.opened = 1
            /\ t.opened = 1 => Tells(Head(t.sent), t)
            /\ t.opened = 1 /\ Acceptable(chosen) => Announces(Head(t.sent), t)
    BY <1>3, <1>6, <2>1, <2>2, SucceedSound
  <2> QED BY <1>3, <1>6, <2>3
<1>7. Goal
  <2>1. CASE line = 0 /\ rest # 0
    <3>1. t = FailHandshake(p, rest)
      BY <1>1, <2>1
    <3> QED BY <1>2, <1>5, <2>1, <3>1
  <2>2. CASE line = 0 /\ rest = 0 /\ application = "denies"
    <3>1. t = FailHandshake(p, 403)
      BY <1>1, <2>2
    <3> QED BY <1>5, <2>2, <3>1
  <2>3. CASE line = 0 /\ rest = 0 /\ application # "denies"
    <3>1. t = SucceedHandshake(p, r, protocol, chosen, opens)
      BY <1>1, <2>3
    <3> QED BY <1>6, <2>3, <3>1
  <2> QED BY <1>4, <2>1, <2>2, <2>3
<1> QED BY <1>7 DEF Processed, line, rest, t

-----------------------------------------------------------------------------
(* The client's conclusion.                                                *)
LEMMA ConcludedSound ==
    ASSUME NEW s, DOMAIN s = EndFields, NEW r, NEW chosen, NEW connects \in BOOLEAN
    PROVE  LET t == ProcessResponse(s, r, chosen, connects)
           IN /\ DOMAIN t = EndFields /\ t.factory = s.factory
              /\ t.state \in {"OPEN", "CLOSED"}
              /\ t.state = "OPEN" =>
                    /\ t.protocol = r.protocol /\ (r.deflate # {} => chosen # {})
                    /\ t.deflate = {CreateFromResponseAccept(x, a) : x \in r.deflate, a \in chosen}
<1> DEFINE t == ProcessResponse(s, r, chosen, connects)
           refuses == \/ r.code # 101 \/ TRUE \in ToSet(ResponseChecks(r, s.factory))
                      \/ r.deflate # {} /\ chosen = {}
                      \/ \E x \in r.deflate : CreateResponseFromParams(x) = {}
           agreed == {CreateFromResponseAccept(x, a) : x \in r.deflate, a \in chosen}
           u == [s EXCEPT !.state = "CLOSED"]
           v == [s EXCEPT !.state = IF connects THEN "OPEN" ELSE "CLOSED", !.opened = @ + 1,
                          !.protocol = r.protocol, !.deflate = agreed]
<1>1. t = IF refuses THEN u ELSE v
  BY DEF ProcessResponse
<1>2. ~refuses => (r.deflate # {} => chosen # {})
  OBVIOUS
<1> HIDE DEF t, refuses, agreed
<1>3. DOMAIN u = EndFields /\ u.factory = s.factory /\ u.state = "CLOSED"
  BY DEF EndFields
<1>4. /\ DOMAIN v = EndFields /\ v.factory = s.factory /\ v.state \in {"OPEN", "CLOSED"}
      /\ v.protocol = r.protocol /\ v.deflate = agreed
  BY DEF EndFields
<1> HIDE DEF u, v
<1> QED BY <1>1, <1>2, <1>3, <1>4 DEF t, agreed

LEMMA ConclusionFollows ==
    ASSUME NEW r, NEW w, Announces(r, w), NEW x \in r.deflate, NEW y \in w.deflate,
           NEW a \in ResponseAccepts, ResponseAcceptValid(x, a)
    PROVE  LET z == CreateFromResponseAccept(x, a)
           IN Follows(z, y, "serverBits", "serverReset") /\ Follows(y, z, "clientBits", "clientReset")
<1> DEFINE z == CreateFromResponseAccept(x, a)
<1>1. /\ x.serverBits \in Int /\ x.clientBits \in Int /\ y.serverBits \in Int
      /\ BitsOr(x.serverBits, DefaultWindowBits) >= y.serverBits
      /\ x.serverReset => y.serverReset
      /\ y.clientBits = BitsOr(x.clientBits, DefaultWindowBits)
      /\ x.clientReset \in BOOLEAN /\ y.clientReset = x.clientReset
  BY DEF Announces
<1>2. a.takeover \subseteq BOOLEAN /\ a.bits \subseteq Int
  BY HandshakeAssumption
<1>3. /\ z.serverReset = x.serverReset
      /\ z.clientReset = Given(a.takeover, x.clientReset)
      /\ z.serverBits = BitsOr(x.serverBits, DefaultWindowBits)
      /\ z.clientBits = BitsOr(Given(a.bits, x.clientBits), DefaultWindowBits)
  BY DEF CreateFromResponseAccept
<1> HIDE DEF z
<1>4. x.clientReset => z.clientReset
  <2> SUFFICES ASSUME x.clientReset PROVE Given(a.takeover, x.clientReset)
    BY <1>3
  <2>1. FALSE \notin a.takeover
    BY DEF ResponseAcceptValid
  <2>2. a.takeover = {} \/ a.takeover = {TRUE}
    BY <1>2, <2>1
  <2>3. CASE a.takeover = {}
    BY <2>3 DEF Given
  <2>4. CASE a.takeover = {TRUE}
    <3>1. (CHOOSE k \in a.takeover : TRUE) \in {TRUE}
      BY <2>4
    <3> QED BY <2>4, <3>1 DEF Given
  <2> QED BY <2>2, <2>3, <2>4
<1>5. y.clientBits >= z.clientBits
  <2>1. CASE a.bits = {}
    BY <1>1, <1>3, <2>1 DEF Given, BitsOr, DefaultWindowBits
  <2>2. CASE a.bits # {}
    <3> DEFINE b == CHOOSE k \in a.bits : TRUE
    <3>1. b \in a.bits /\ Given(a.bits, x.clientBits) = b
      BY <2>2 DEF Given
    <3> HIDE DEF b
    <3>2. b \in 8..15 /\ (x.clientBits # 0 => b <= x.clientBits)
      BY <3>1 DEF ResponseAcceptValid, WindowSizes
    <3> QED BY <1>1, <1>3, <3>1, <3>2 DEF BitsOr, DefaultWindowBits
  <2> QED BY <2>1, <2>2
<1>6. Follows(z, y, "serverBits", "serverReset")
  BY <1>1, <1>3 DEF Follows
<1>7. Follows(y, z, "clientBits", "clientReset")
  BY <1>1, <1>4, <1>5 DEF Follows
<1> QED BY <1>6, <1>7 DEF z

-----------------------------------------------------------------------------
(* The steps.                                                              *)
LEMMA HandshakeStarts == HandshakeInit => HandshakeInv
<1> SUFFICES ASSUME HandshakeInit PROVE HandshakeInv
  OBVIOUS
<1>1. PICK f \in ClientFactories : wsClient = End(f)
  BY DEF HandshakeInit
<1>2. PICK g \in ServerFactories, n \in {1, 2} : wsServer = [End(g) EXCEPT !.count = n]
  BY DEF HandshakeInit
<1>3. /\ DOMAIN wsClient = EndFields /\ wsClient.factory = f /\ wsClient.state = "CONNECTING"
  BY <1>1 DEF End, EndFields
<1>4. /\ DOMAIN wsServer = EndFields /\ wsServer.state = "CONNECTING"
      /\ wsServer.opened = 0 /\ wsServer.refused = 0 /\ wsServer.sent = <<>>
  BY <1>2 DEF End, EndFields
<1>5. /\ DOMAIN wsWire = {"request", "responses"} /\ wsWire.request = {}
      /\ wsWire.responses = <<>> /\ wsChanged = {}
  BY DEF HandshakeInit
<1>6. EndTypes
  BY <1>3, <1>4, <1>5 DEF EndTypes
<1>7. Unanswered /\ Answered
  BY <1>4, <1>5 DEF Unanswered, Answered
<1>8. HandshakeAgrees
  BY <1>3, <1>4 DEF HandshakeAgrees, RefusedForCause
<1> QED BY <1>6, <1>7, <1>8 DEF HandshakeInv

RequestFunction(r) == r = [h \in RequestFields |-> r[h]]

LEMMA RequestIsFunction == ASSUME NEW d PROVE RequestFunction(Request(d))
BY DEF RequestFunction, Request, RequestFields

LEMMA StartHandshakeKeeps == HandshakeInv /\ StartHandshake => HandshakeInv'
<1> SUFFICES ASSUME HandshakeInv, StartHandshake PROVE HandshakeInv'
  OBVIOUS
<1>1. /\ DOMAIN wsClient' = EndFields /\ wsClient'.factory = wsClient.factory
      /\ wsClient'.state = "CONNECTING" /\ wsClient.state = "CONNECTING"
      /\ DOMAIN wsWire' = {"request", "responses"}
      /\ wsWire'.request = {Request(wsClient.factory)}
      /\ wsWire'.responses = wsWire.responses
      /\ wsServer' = wsServer /\ wsChanged' = wsChanged
  BY DEF HandshakeInv, EndTypes, EndFields, StartHandshake
<1>2. EndTypes'
  BY <1>1 DEF HandshakeInv, EndTypes
<1>3. Unaltered(Request(wsClient.factory))'
  <2>1. RequestFunction(Request(wsClient.factory))
    BY RequestIsFunction
  <2> QED BY <1>1, <2>1 DEF Unaltered, RequestFunction
<1>4. Unanswered' /\ Answered'
  BY <1>1, <1>3 DEF HandshakeInv, Unanswered, Answered
<1>5. HandshakeAgrees'
  BY <1>1 DEF HandshakeInv, HandshakeAgrees, RefusedForCause
<1> QED BY <1>2, <1>4, <1>5 DEF HandshakeInv

LEMMA ChangesRequestKeeps == HandshakeInv /\ ChangesRequest => HandshakeInv'
<1> SUFFICES ASSUME HandshakeInv, ChangesRequest PROVE HandshakeInv'
  OBVIOUS
<1>1. PICK r \in wsWire.request, change \in RequestChanges :
        /\ wsWire' = [wsWire EXCEPT !.request = {[r EXCEPT ![change[1]] = change[2]]}]
        /\ wsChanged' = wsChanged \union {change[1]}
  BY DEF ChangesRequest
<1> DEFINE q == [r EXCEPT ![change[1]] = change[2]]
<1>2. /\ DOMAIN wsWire' = {"request", "responses"} /\ wsWire'.responses = wsWire.responses
      /\ wsWire'.request = {q}
      /\ wsServer' = wsServer /\ wsClient' = wsClient /\ wsChanged \subseteq wsChanged'
  BY <1>1 DEF HandshakeInv, EndTypes, ChangesRequest
<1>3. EndTypes'
  BY <1>2 DEF HandshakeInv, EndTypes
<1>4. Unaltered(q)'
  <2>1. Unaltered(r)
    BY DEF HandshakeInv, Unanswered
  <2>2. q = [h \in RequestFields |-> q[h]] /\ \A h \in RequestFields \ {change[1]} : q[h] = r[h]
    <3>1. r = [h \in RequestFields |-> r[h]]
      BY <2>1, Zenon DEF Unaltered
    <3>2. q = [h \in RequestFields |-> IF h = change[1] THEN change[2] ELSE r[h]]
      BY <3>1
    <3> HIDE DEF q
    <3> QED BY <3>2
  <2> HIDE DEF q
  <2> QED BY <1>1, <1>2, <2>1, <2>2 DEF Unaltered
<1> HIDE DEF q
<1>5. Unanswered'
  BY <1>2, <1>4 DEF HandshakeInv, Unanswered
<1>6. Answered'
  BY <1>2 DEF HandshakeInv, Answered
<1>7. HandshakeAgrees'
  BY <1>1, <1>2 DEF HandshakeInv, HandshakeAgrees, RefusedForCause
<1> QED BY <1>3, <1>5, <1>6, <1>7 DEF HandshakeInv

LEMMA ChangesResponseKeeps == HandshakeInv /\ ChangesResponse => HandshakeInv'
<1> SUFFICES ASSUME HandshakeInv, ChangesResponse PROVE HandshakeInv'
  OBVIOUS
<1> DEFINE r == Head(wsWire.responses)
<1>1. PICK change \in ResponseChanges :
        /\ wsWire' = [wsWire EXCEPT !.responses = <<[r EXCEPT ![change[1]] = change[2]]>>]
        /\ wsChanged = {} /\ wsChanged' = {change[1]}
  BY DEF ChangesResponse
<1> DEFINE q == [r EXCEPT ![change[1]] = change[2]]
<1>2. /\ DOMAIN wsWire' = {"request", "responses"} /\ wsWire'.request = wsWire.request
      /\ wsWire'.responses = <<q>> /\ Head(wsWire'.responses) = q
      /\ wsWire.responses # <<>> /\ r.code = 101
      /\ wsServer' = wsServer /\ wsClient' = wsClient
  BY <1>1 DEF HandshakeInv, EndTypes, ChangesResponse
<1>3. EndTypes'
  BY <1>2 DEF HandshakeInv, EndTypes
<1>4. Unanswered'
  <2>1. wsServer.state # "CONNECTING"
    BY <1>2 DEF HandshakeInv, Unanswered
  <2>2. ASSUME NEW x \in wsWire.request PROVE Unaltered(x)'
    <3>1. Unaltered(x)
      BY DEF HandshakeInv, Unanswered
    <3> QED BY <1>1, <1>2, <3>1 DEF Unaltered
  <2> QED BY <1>2, <2>1, <2>2 DEF Unanswered
<1>5. Answered'
  <2> SUFFICES ASSUME wsClient.state = "CONNECTING", q.code = 101
               PROVE  /\ wsServer.opened = 1 /\ {"protocol", "deflate"} \subseteq DOMAIN q
                      /\ "protocol" # change[1] => q.protocol = wsServer.protocol
                      /\ "deflate" # change[1] => Announces(q, wsServer)
    BY <1>1, <1>2 DEF Answered
  <2>1. /\ wsServer.opened = 1 /\ {"protocol", "deflate"} \subseteq DOMAIN r
        /\ r.protocol = wsServer.protocol /\ Announces(r, wsServer)
    BY <1>1, <1>2 DEF HandshakeInv, Answered
  <2> HIDE DEF r
  <2>2. /\ DOMAIN q = DOMAIN r
        /\ "protocol" # change[1] => q.protocol = r.protocol
        /\ "deflate" # change[1] => q.deflate = r.deflate
    BY <2>1
  <2> HIDE DEF q
  <2> QED BY <2>1, <2>2 DEF Announces
<1> HIDE DEF q, r
<1>6. HandshakeAgrees'
  BY <1>1, <1>2 DEF HandshakeInv, HandshakeAgrees, RefusedForCause
<1> QED BY <1>3, <1>4, <1>5, <1>6 DEF HandshakeInv

LEMMA OpenHandshakeTimeoutKeeps == HandshakeInv /\ OpenHandshakeTimeout => HandshakeInv'
<1> SUFFICES ASSUME HandshakeInv, OpenHandshakeTimeout PROVE HandshakeInv'
  OBVIOUS
<1>1. CASE /\ wsClient.state = "CONNECTING" /\ wsClient' = [wsClient EXCEPT !.state = "CLOSED"]
           /\ UNCHANGED <<wsServer, wsWire, wsChanged>>
  <2>1. /\ DOMAIN wsClient' = EndFields /\ wsClient'.factory = wsClient.factory
        /\ wsClient'.state = "CLOSED"
    BY <1>1 DEF HandshakeInv, EndTypes, EndFields
  <2>2. EndTypes'
    BY <1>1, <2>1 DEF HandshakeInv, EndTypes
  <2>3. Unanswered' /\ Answered'
    BY <1>1, <2>1 DEF HandshakeInv, Unanswered, Answered, Unaltered
  <2>4. HandshakeAgrees'
    BY <1>1, <2>1 DEF HandshakeInv, HandshakeAgrees, RefusedForCause
  <2> QED BY <2>2, <2>3, <2>4 DEF HandshakeInv
<1>2. CASE /\ wsServer.state = "CONNECTING" /\ wsServer' = [wsServer EXCEPT !.state = "CLOSED"]
           /\ UNCHANGED <<wsClient, wsWire, wsChanged>>
  <2>1. /\ DOMAIN wsServer' = EndFields /\ wsServer'.factory = wsServer.factory
        /\ wsServer'.state = "CLOSED" /\ wsServer'.opened = 0 /\ wsServer'.refused = 0
        /\ wsServer.opened = 0 /\ wsWire.responses = <<>>
    BY <1>2 DEF HandshakeInv, EndTypes, EndFields, Unanswered
  <2>2. EndTypes'
    BY <1>2, <2>1 DEF HandshakeInv, EndTypes
  <2>3. Unanswered' /\ Answered'
    BY <1>2, <2>1 DEF HandshakeInv, Unanswered, Answered, Unaltered
  <2>4. HandshakeAgrees'
    BY <1>2, <2>1 DEF HandshakeInv, HandshakeAgrees, RefusedForCause
  <2> QED BY <2>2, <2>3, <2>4 DEF HandshakeInv
<1> QED BY <1>1, <1>2 DEF OpenHandshakeTimeout

LEMMA Elements ==
    ASSUME NEW S, NEW q \in Seq(S)
    PROVE  \A i \in DOMAIN q : q[i] \in S
OBVIOUS

LEMMA ZeroOrOne == \A n \in {0, 1} : n <= 1
OBVIOUS

LEMMA NotYetOpen == HandshakeInv /\ wsServer.state = "CONNECTING" => wsClient.state # "OPEN"
<1> SUFFICES ASSUME HandshakeInv, wsServer.state = "CONNECTING" PROVE wsClient.state # "OPEN"
  OBVIOUS
<1>1. wsServer.opened = 0
  BY DEF HandshakeInv, Unanswered
<1>2. wsClient.state = "OPEN" => wsServer.opened = 1
  BY DEF HandshakeInv, HandshakeAgrees
<1> QED BY <1>1, <1>2

LEMMA OfferRead ==
    ASSUME NEW o \in Offer, NEW x \in CreateOfferFromParams(o)
    PROVE  x \in Offer
BY DEF CreateOfferFromParams, Offer

LEMMA ChosenAcceptable ==
    ASSUME NEW f, NEW r, ToSet(r.offers) \subseteq Offer, NEW chosen \in OffersAccepted(f, r)
    PROVE  Acceptable(chosen)
<1> DEFINE offers == UNION {CreateOfferFromParams(o) : o \in ToSet(r.offers)}
<1>1. chosen = {} \/ chosen \in {{<<o, a>>} : o \in offers, a \in OfferAccepts}
  BY DEF OffersAccepted
<1>2. offers \subseteq Offer
  <2>1. ASSUME NEW x \in offers PROVE x \in Offer
    <3>1. PICK o \in ToSet(r.offers) : x \in CreateOfferFromParams(o)
      OBVIOUS
    <3> QED BY <3>1, OfferRead
  <2> QED BY <2>1
<1> HIDE DEF offers
<1> QED BY <1>1, <1>2 DEF Acceptable

(* The offers of a client are read unless a window is not permissible.     *)
LEMMA OffersOfClient ==
    ASSUME NEW d \in ClientFactories
    PROVE  /\ ToSet(d.offers) \subseteq Offer
           /\ OfferUnreadable(Request(d))
                <=> \E o \in ToSet(d.offers) : o.requestBits \notin {0} \union WindowSizes
<1>1. ToSet(d.offers) \subseteq Offer
  <2>1. d.offers \in Seq(Offer)
    BY HandshakeAssumption DEF Offer
  <2>2. \A i \in DOMAIN d.offers : d.offers[i] \in Offer
    BY <2>1, Elements, Zenon
  <2> QED BY <2>2, Zenon DEF ToSet
<1>2. Request(d).offers = d.offers /\ Request(d).params = "good"
  BY DEF Request
<1>3. OfferUnreadable(Request(d)) <=> \E o \in ToSet(d.offers) : CreateOfferFromParams(o) = {}
  <2>1. Request(d).params # "bad"
    BY <1>2
  <2> QED BY <1>2, <2>1, Zenon DEF OfferUnreadable
<1>4. ASSUME NEW o
      PROVE  CreateOfferFromParams(o) = {} <=> o.requestBits \notin {0} \union WindowSizes
  BY DEF CreateOfferFromParams
<1> QED BY <1>1, <1>3, <1>4

LEMMA ServerProcessesKeeps == HandshakeInv /\ ServerProcesses => HandshakeInv'
<1> SUFFICES ASSUME HandshakeInv, ServerProcesses PROVE HandshakeInv'
  OBVIOUS
<1>0. PICK r \in wsWire.request : \E protocol \in {"", "a", "c"},
                                   application \in {"opens", "throws", "denies"} :
        \E chosen \in OffersAccepted(wsServer.factory, r) :
            /\ wsServer' = ProcessRequest(wsServer, r, protocol, chosen, application)
            /\ wsWire' = [request |-> {}, responses |-> wsServer'.sent]
  BY DEF ServerProcesses
<1>1. PICK protocol \in {"", "a", "c"}, application \in {"opens", "throws", "denies"},
           chosen \in OffersAccepted(wsServer.factory, r) :
        /\ wsServer' = ProcessRequest(wsServer, r, protocol, chosen, application)
        /\ wsWire' = [request |-> {}, responses |-> wsServer'.sent]
  BY <1>0
<1>2. /\ wsServer.state = "CONNECTING" /\ wsServer.sent = <<>> /\ wsServer.opened = 0
      /\ wsServer.refused = 0 /\ DOMAIN wsServer = EndFields
      /\ wsClient' = wsClient /\ wsChanged' = wsChanged
  BY DEF HandshakeInv, EndTypes, Unanswered, ServerProcesses
<1> DEFINE f == wsServer.factory
           d == wsClient.factory
<1>3. Processed(wsServer, wsServer', r, chosen)
  BY <1>1, <1>2, ProcessSound
<1>4. /\ DOMAIN wsWire' = {"request", "responses"} /\ wsWire'.request = {}
      /\ wsWire'.responses = wsServer'.sent
  BY <1>1
<1>5. /\ DOMAIN wsServer' = EndFields /\ wsServer'.factory = f
      /\ wsServer'.state \in {"OPEN", "CLOSED"} /\ wsServer'.opened \in {0, 1}
  BY <1>3 DEF Processed
<1>6. d \in ClientFactories
  BY DEF HandshakeInv, EndTypes
<1>7. Unaltered(r)
  BY DEF HandshakeInv, Unanswered
<1>8. ASSUME wsChanged = {} PROVE r = Request(d)
  <2>1. /\ r = [h \in RequestFields |-> r[h]]
        /\ \A h \in RequestFields : r[h] = Request(d)[h]
    BY <1>7, <1>8 DEF Unaltered
  <2>2. Request(d) = [h \in RequestFields |-> Request(d)[h]]
    BY RequestIsFunction, Zenon DEF RequestFunction
  <2> HIDE DEF d
  <2>3. [h \in RequestFields |-> r[h]] = [h \in RequestFields |-> Request(d)[h]]
    BY <2>1
  <2> QED BY <2>1, <2>2, <2>3, Zenon
<1>9. MissingPort(r, f)
        => "port" \in wsChanged /\ ExternalPort(f) \notin {0, IF IsSecure(f) THEN 443 ELSE 80}
  <2>1. Request(d).port = ParseUrl(d.url).port
    BY DEF Request
  <2>2. Request(d).port # 0
    BY <2>1, PortGiven
  <2>3. "port" \notin wsChanged => r.port = Request(d).port
    BY <1>7 DEF Unaltered, RequestFields
  <2> QED BY <2>2, <2>3 DEF MissingPort
<1>10. {"offers", "deflate"} \intersect wsChanged = {} => Acceptable(chosen)
  <2> SUFFICES ASSUME "offers" \notin wsChanged PROVE Acceptable(chosen)
    OBVIOUS
  <2>1. r.offers = d.offers
    <3>1. r.offers = Request(d).offers
      BY <1>7 DEF Unaltered, RequestFields
    <3> QED BY <3>1 DEF Request
  <2>2. ToSet(r.offers) \subseteq Offer
    BY <1>6, <2>1, OffersOfClient
  <2> QED BY <2>2, ChosenAcceptable, Zenon
<1>11. EndTypes'
  BY <1>2, <1>4, <1>5 DEF HandshakeInv, EndTypes
<1>12. Unanswered'
  BY <1>4, <1>5 DEF Unanswered
<1>13. Answered'
  BY <1>2, <1>3, <1>4, <1>10 DEF Answered, Processed, Tells
<1>14. wsClient.state # "OPEN" /\ wsServer'.opened <= 1
  BY <1>2, <1>5, NotYetOpen, ZeroOrOne, Zenon
<1>15. RefusedForCause'
  <2> SUFFICES ASSUME wsChanged = {}
               PROVE  /\ wsServer'.refused = 400 => Refusable(f, d)
                      /\ wsServer'.opened = 1 => ~Refusable(f, d)
    BY <1>2, <1>5 DEF RefusedForCause
  <2>1. r = Request(d) /\ ~MissingPort(r, f)
    BY <1>8, <1>9
  <2>2. Refusable(f, d) <=> \/ ExternalPort(f) \notin {0, ParseUrl(d.url).port}
                            \/ RefusableFor(d, f) \/ OfferUnreadable(Request(d))
    BY <1>6, OffersOfClient DEF Refusable, RefusableFor
  <2>3. FirstRefusal(ChecksOfLine(Request(d), f)) # 0
            <=> ExternalPort(f) \notin {0, ParseUrl(d.url).port}
    BY <1>6, LineChecks
  <2>4. /\ FirstRefusal(RestOf(Request(d), f)) = 400 => RefusableFor(d, f)
        /\ FirstRefusal(RestOf(Request(d), f)) = 0 => ~RefusableFor(d, f)
    BY <1>6, RestChecks
  <2>5. /\ wsServer'.refused = 400 => \/ FirstRefusal(ChecksOfLine(r, f)) # 0
                                      \/ FirstRefusal(RestOf(r, f)) = 400
                                      \/ MissingPort(r, f) \/ OfferUnreadable(r)
        /\ wsServer'.opened = 1 => /\ FirstRefusal(ChecksOfLine(r, f)) = 0
                                   /\ FirstRefusal(RestOf(r, f)) = 0 /\ ~OfferUnreadable(r)
    BY <1>3, Zenon DEF Processed
  <2> HIDE DEF d, f
  <2>6. /\ wsServer'.refused = 400 => \/ FirstRefusal(ChecksOfLine(Request(d), f)) # 0
                                      \/ FirstRefusal(RestOf(Request(d), f)) = 400
                                      \/ OfferUnreadable(Request(d))
        /\ wsServer'.opened = 1 => /\ FirstRefusal(ChecksOfLine(Request(d), f)) = 0
                                   /\ FirstRefusal(RestOf(Request(d), f)) = 0
                                   /\ ~OfferUnreadable(Request(d))
    BY <2>1, <2>5, Zenon
  <2> QED BY <2>2, <2>3, <2>4, <2>6, Zenon
<1>16. wsServer'.opened = 1 /\ {"originHeader", "origins", "origin", "version"} \intersect wsChanged = {}
            => ~OriginHeard(d) \/ OriginAllowed(d, f)
  <2> SUFFICES ASSUME wsServer'.opened = 1,
                      {"originHeader", "origins", "origin", "version"} \intersect wsChanged = {}
               PROVE  OriginHeard(d) => OriginAllowed(d, f)
    OBVIOUS
  <2>1. /\ r.originHeader = Request(d).originHeader /\ r.version = Request(d).version
        /\ r.origin = Request(d).origin
    BY <1>7 DEF Unaltered, RequestFields
  <2>2. FirstRefusal(RestOf(r, f)) = 0
    BY <1>3 DEF Processed
  <2>3. ~(OriginSeen(r) /\ ~OriginAllowed(r, f))
    BY <2>2, RestReasons
  <2>4. OriginSeen(r) <=> OriginHeard(d)
    BY <1>6, <2>1, OriginWritten
  <2>5. r.origin = d.origin
    BY <2>1 DEF Request
  <2> QED BY <2>3, <2>4, <2>5 DEF OriginAllowed
<1>17. wsServer'.opened = 1 =>
            \/ Head(wsServer'.sent).code = 101
            \/ "port" \in wsChanged /\ ExternalPort(f) \notin {0, IF IsSecure(f) THEN 443 ELSE 80}
  BY <1>3, <1>9 DEF Processed
<1>18. HandshakeAgrees'
  <2>1. (wsClient.state # "OPEN")' /\ wsServer'.opened <= 1
    BY <1>2, <1>14, Zenon
  <2>2. (wsServer.opened = 1 /\ {"originHeader", "origins", "origin", "version"} \intersect wsChanged = {}
            => ~OriginHeard(wsClient.factory) \/ OriginAllowed(wsClient.factory, wsServer.factory))'
    BY <1>2, <1>5, <1>16
  <2>3. (wsServer.refused # 0 /\ wsServer.opened = 1 =>
            \/ Head(wsServer.sent).code = 101
            \/ /\ "port" \in wsChanged
               /\ ExternalPort(wsServer.factory)
                    \notin {0, IF IsSecure(wsServer.factory) THEN 443 ELSE 80})'
    BY <1>2, <1>5, <1>17
  <2> QED BY <1>15, <2>1, <2>2, <2>3 DEF HandshakeAgrees
<1> QED BY <1>11, <1>12, <1>13, <1>18 DEF HandshakeInv

LEMMA ClientProcessesKeeps == HandshakeInv /\ ClientProcesses => HandshakeInv'
<1> SUFFICES ASSUME HandshakeInv, ClientProcesses PROVE HandshakeInv'
  OBVIOUS
<1> DEFINE r == Head(wsWire.responses)
           d == wsClient.factory
<1>1. PICK connects \in BOOLEAN,
           chosen \in {{}} \union
                (IF d.compression THEN {{a} : a \in ResponseAccepts} ELSE {}) :
        /\ r.code = 101 => \A x \in r.deflate, a \in chosen : ResponseAcceptValid(x, a)
        /\ wsClient' = IF r.code # 101 THEN [wsClient EXCEPT !.state = "CLOSED"]
                       ELSE ProcessResponse(wsClient, r, chosen, connects)
  BY DEF ClientProcesses
<1>2. /\ wsClient.state = "CONNECTING" /\ wsWire.responses # <<>>
      /\ DOMAIN wsClient = EndFields
      /\ wsServer' = wsServer /\ wsChanged' = wsChanged
      /\ DOMAIN wsWire' = {"request", "responses"} /\ wsWire'.request = wsWire.request
  BY DEF HandshakeInv, EndTypes, ClientProcesses
<1> HIDE DEF r
<1>3. /\ DOMAIN wsClient' = EndFields /\ wsClient'.factory = d
      /\ wsClient'.state \in {"OPEN", "CLOSED"}
      /\ wsClient'.state = "OPEN" =>
            /\ r.code = 101
            /\ wsClient'.protocol = r.protocol /\ (r.deflate # {} => chosen # {})
            /\ wsClient'.deflate =
                    {CreateFromResponseAccept(x, a) : x \in r.deflate, a \in chosen}
  <2>1. CASE r.code # 101
    BY <1>1, <1>2, <2>1 DEF EndFields
  <2>2. CASE r.code = 101
    BY <1>1, <1>2, <2>2, ConcludedSound
  <2> QED BY <2>1, <2>2
<1>4. r.code = 101 =>
        /\ wsServer.opened = 1
        /\ "protocol" \notin wsChanged => r.protocol = wsServer.protocol
        /\ {"offers", "deflate"} \intersect wsChanged = {} => Announces(r, wsServer)
  BY <1>2 DEF HandshakeInv, Answered, r
<1>5. EndTypes'
  BY <1>2, <1>3 DEF HandshakeInv, EndTypes
<1>6. wsServer.state # "CONNECTING"
  BY <1>2 DEF HandshakeInv, Unanswered
<1>7. Unanswered' /\ Answered'
  BY <1>2, <1>3, <1>6 DEF HandshakeInv, Unanswered, Answered, Unaltered
<1>8. ASSUME wsClient'.state = "OPEN", {"offers", "deflate"} \intersect wsChanged = {}
      PROVE  /\ (wsClient'.deflate = {}) = (wsServer.deflate = {})
             /\ \A x \in wsClient'.deflate, y \in wsServer.deflate :
                    /\ Follows(x, y, "serverBits", "serverReset")
                    /\ Follows(y, x, "clientBits", "clientReset")
  <2>1. Announces(r, wsServer)
    BY <1>3, <1>4, <1>8
  <2>2. chosen \subseteq ResponseAccepts
    OBVIOUS
  <2>3. wsClient'.deflate = {} <=> r.deflate = {}
    BY <1>3, <1>8
  <2>4. ASSUME NEW z \in wsClient'.deflate, NEW y \in wsServer.deflate
        PROVE  /\ Follows(z, y, "serverBits", "serverReset")
               /\ Follows(y, z, "clientBits", "clientReset")
    <3>1. PICK x \in r.deflate, a \in chosen : z = CreateFromResponseAccept(x, a)
      BY <1>3, <1>8
    <3>2. ResponseAcceptValid(x, a)
      BY <1>1, <1>3, <1>8
    <3> QED BY <2>1, <2>2, <3>1, <3>2, ConclusionFollows
  <2> QED BY <1>3, <1>8, <2>1, <2>3, <2>4 DEF Announces
<1>9. HandshakeAgrees'
  <2>1. RefusedForCause'
    BY <1>2, <1>3 DEF HandshakeInv, HandshakeAgrees, RefusedForCause
  <2>2. wsClient'.state = "OPEN" =>
            wsServer.opened = 1 /\ ("protocol" \notin wsChanged => wsClient'.protocol = wsServer.protocol)
    BY <1>3, <1>4
  <2> QED BY <1>2, <1>3, <1>8, <2>1, <2>2 DEF HandshakeInv, HandshakeAgrees
<1> QED BY <1>5, <1>7, <1>9 DEF HandshakeInv

-----------------------------------------------------------------------------
(* Whatever the factories, the callbacks and whoever changes messages on   *)
(* the way: what both ends hold for agreed agrees, a client opens only on  *)
(* a server that opened, and a server refuses with 400 a request that      *)
(* nobody changed exactly when the two factories give it a reason          *)
(* (processHandshake of both ends).                                        *)
THEOREM EndsAgree == HandshakeSpec => []HandshakeAgrees
<1>1. HandshakeInit => HandshakeInv
  BY HandshakeStarts
<1>2. HandshakeInv /\ [HandshakeNext]_handshakeVars => HandshakeInv'
  <2>1. HandshakeInv /\ UNCHANGED handshakeVars => HandshakeInv'
    BY DEF HandshakeInv, EndTypes, Unanswered, Unaltered, Answered, HandshakeAgrees,
           RefusedForCause, handshakeVars
  <2> QED BY <2>1, StartHandshakeKeeps, ChangesRequestKeeps, ServerProcessesKeeps,
             ChangesResponseKeeps, ClientProcessesKeeps, OpenHandshakeTimeoutKeeps
             DEF HandshakeNext
<1>3. HandshakeInv => HandshakeAgrees
  BY DEF HandshakeInv
<1> QED BY <1>1, <1>2, <1>3, PTL DEF HandshakeSpec
=============================================================================
