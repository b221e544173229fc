--------------------------- MODULE DeferredProofs ---------------------------
(***************************************************************************)
(* Theorems about Deferred, for any number of Deferreds, callbacks and     *)
(* pauses, and any depth of re-entrance.                                   *)
(***************************************************************************)
EXTENDS Deferred, SequenceTheorems, TLAPS

Members(x) == {x.chain[j] : j \in 1..Len(x.chain)}

(* The Deferreds a callback of which is under way, and those in the chain  *)
(* of an activation.                                                       *)
Calling(s) == {d \in Deferreds : \E i \in 1..Len(s) : s[i].type = "call" /\ Head(s[i].chain) = d}
InChains(s) == {d \in Deferreds : \E i \in 1..Len(s) : s[i].type = "run" /\ d \in Members(s[i])}

(* What the frame x needs of the stack s it is put on: a callback lies on  *)
(* the activation that called it, an activation on a callback or nothing,  *)
(* and it has no Deferred in its chain of which a callback is under way.   *)
OnTop(x, s, fired) ==
    /\ x \in Frames /\ x.chain # <<>> /\ Members(x) \subseteq fired
    /\ x.type = "call" =>
         /\ s # <<>> /\ Head(s).type = "run" /\ ~Head(s).fresh
         /\ Head(Head(s).chain) = Head(x.chain)
         /\ x.arg \in {"null", "val", "err"}
    /\ x.type = "run" =>
         /\ s # <<>> => Head(s).type = "call"
         /\ Members(x) \intersect Calling(s) = {}

Below(s, i) == SubSeq(s, i + 1, Len(s))

StackOK(s, fired) ==
    /\ s \in Seq(Frames)
    /\ \A i \in 1..Len(s) : OnTop(s[i], Below(s, i), fired)

Fired == {d \in Deferreds : called[d]}

StackInv ==
    /\ StackOK(stack, Fired)
    /\ \A d \in Deferreds : running[d] <=> d \in Calling(stack)

(* A Deferred has a result once it is called, and no callback of it runs   *)
(* while it waits.                                                         *)
Results ==
    \A d \in Deferreds :
        /\ called[d] <=> result[d] # "empty"
        /\ running[d] => result[d] # "deferred"

(* The loop goes on with a Deferred that does not wait.                    *)
ReadyTop(s, res) ==
    s # <<>> /\ Head(s).type = "run" /\ ~Head(s).fresh => res[Head(Head(s).chain)] # "deferred"

Pauses ==
    \A d \in Deferreds : paused[d] = userPauses[d] + (IF result[d] = "deferred" THEN 1 ELSE 0)

(* Continuations and the Deferreds that wait: one for each, and where      *)
(* waitsFor says.                                                          *)
WillWake(d, e, cs) ==
    e \in Deferreds /\ e # d /\ \E i \in 1..Len(cs[e]) : cs[e][i] = Continuation(d)

OnlyWaker(e, i, cs) == \A j \in 1..Len(cs[e]) : cs[e][j] = cs[e][i] => i = j

Woken == \A d \in Deferreds : result[d] = "deferred" => WillWake(d, waitsFor[d], callbacks)

Wakers ==
    \A e \in Deferreds : \A i \in 1..Len(callbacks[e]) :
        callbacks[e][i].kind = "cont" =>
            /\ result[callbacks[e][i].of] = "deferred" /\ waitsFor[callbacks[e][i].of] = e
            /\ OnlyWaker(e, i, callbacks)

(* Whoever has callbacks that may run is in the chain of an activation.    *)
Attended ==
    \A d \in Deferreds :
        called[d] /\ paused[d] = 0 /\ d \notin left /\ callbacks[d] # <<>> => d \in InChains(stack)

IInv == /\ TypeOK /\ StackInv /\ Results /\ ReadyTop(stack, result)
        /\ Pauses /\ Woken /\ Wakers /\ Attended

-----------------------------------------------------------------------------
(* Stacks.                                                                 *)
LEMMA Push ==
    ASSUME NEW x \in Frames, NEW s \in Seq(Frames)
    PROVE  LET r == <<x>> \o s
           IN /\ r \in Seq(Frames) /\ Len(r) = Len(s) + 1 /\ r # <<>>
              /\ r[1] = x /\ Head(r) = x /\ Tail(r) = s
              /\ \A i \in 1..Len(s) : r[i + 1] = s[i]
<1> DEFINE r == <<x>> \o s
<1>1. <<x>> \in Seq(Frames) /\ Len(<<x>>) = 1 /\ <<x>>[1] = x /\ Len(s) \in Nat
  OBVIOUS
<1>2. /\ r \in Seq(Frames) /\ Len(r) = 1 + Len(s)
      /\ \A i \in 1..(1 + Len(s)) : r[i] = IF i <= 1 THEN <<x>>[i] ELSE s[i - 1]
  BY <1>1, ConcatProperties
<1> HIDE DEF r
<1>3. r[1] = x /\ r # <<>>
  BY <1>1, <1>2
<1>4. \A i \in 1..Len(s) : r[i + 1] = s[i]
  <2> TAKE i \in 1..Len(s)
  <2>1. i + 1 \in 1..(1 + Len(s)) /\ ~(i + 1 <= 1) /\ (i + 1) - 1 = i
    BY <1>1
  <2> QED BY <1>2, <2>1
<1>5. Head(r) = x
  BY <1>2, <1>3
<1>6. Tail(r) \in Seq(Frames) /\ Len(Tail(r)) = Len(s) /\ \A i \in 1..Len(s) : Tail(r)[i] = r[i + 1]
  BY <1>1, <1>2, <1>3
<1>7. Tail(r) = s
  BY <1>4, <1>6, SeqEqual
<1> QED BY <1>1, <1>2, <1>3, <1>4, <1>5, <1>7 DEF r

LEMMA Pop ==
    ASSUME NEW s \in Seq(Frames), s # <<>>
    PROVE  /\ Tail(s) \in Seq(Frames) /\ Head(s) \in Frames /\ Head(s) = s[1]
           /\ Len(s) \in Nat \ {0} /\ Len(Tail(s)) = Len(s) - 1
           /\ \A i \in 1..Len(Tail(s)) : Tail(s)[i] = s[i + 1]
           /\ s = <<Head(s)>> \o Tail(s)
<1>1. /\ Tail(s) \in Seq(Frames) /\ Head(s) \in Frames /\ Head(s) = s[1]
      /\ Len(s) \in Nat \ {0} /\ Len(Tail(s)) = Len(s) - 1
      /\ \A i \in 1..Len(Tail(s)) : Tail(s)[i] = s[i + 1]
  OBVIOUS
<1> DEFINE r == <<Head(s)>> \o Tail(s)
<1>2. /\ r \in Seq(Frames) /\ Len(r) = Len(Tail(s)) + 1 /\ r[1] = Head(s)
      /\ \A i \in 1..Len(Tail(s)) : r[i + 1] = Tail(s)[i]
  BY <1>1, Push
<1> HIDE DEF r
<1>3. ASSUME NEW i \in 1..Len(r) PROVE r[i] = s[i]
  <2>1. CASE i = 1
    BY <1>1, <1>2, <2>1
  <2>2. CASE i # 1
    <3>1. i - 1 \in 1..Len(Tail(s)) /\ (i - 1) + 1 = i
      BY <1>1, <1>2, <2>2
    <3> QED BY <1>1, <1>2, <3>1
  <2> QED BY <2>1, <2>2
<1>4. Len(r) = Len(s)
  BY <1>1, <1>2
<1>5. r = s
  BY <1>2, <1>3, <1>4, SeqEqual
<1> QED BY <1>1, <1>5 DEF r

LEMMA BelowIsSeq ==
    ASSUME NEW s \in Seq(Frames), NEW i \in 0..Len(s)
    PROVE  /\ Below(s, i) \in Seq(Frames) /\ Len(Below(s, i)) = Len(s) - i
           /\ \A k \in 1..(Len(s) - i) : Below(s, i)[k] = s[i + k]
<1>1. Len(s) \in Nat /\ \A k \in 1..Len(s) : s[k] \in Frames
  OBVIOUS
<1> QED BY <1>1, SubSeqProperties DEF Below

LEMMA BelowPushed ==
    ASSUME NEW x \in Frames, NEW s \in Seq(Frames)
    PROVE  /\ Below(<<x>> \o s, 1) = s
           /\ \A i \in 1..Len(s) : Below(<<x>> \o s, i + 1) = Below(s, i)
<1> DEFINE r == <<x>> \o s
<1>1. r \in Seq(Frames) /\ Len(r) = Len(s) + 1 /\ Len(s) \in Nat
      /\ \A i \in 1..Len(s) : r[i + 1] = s[i]
  BY Push
<1> HIDE DEF r
<1>2. Below(r, 1) = s
  <2>1. /\ Below(r, 1) \in Seq(Frames) /\ Len(Below(r, 1)) = Len(r) - 1
        /\ \A k \in 1..(Len(r) - 1) : Below(r, 1)[k] = r[1 + k]
    <3>1. 1 \in 0..Len(r)
      BY <1>1
    <3> QED BY <1>1, <3>1, BelowIsSeq
  <2>2. Len(r) - 1 = Len(s) /\ \A k \in 1..Len(s) : r[1 + k] = s[k]
    BY <1>1
  <2> QED BY <2>1, <2>2, SeqEqual
<1>3. ASSUME NEW i \in 1..Len(s) PROVE Below(r, i + 1) = Below(s, i)
  <2>1. /\ Below(r, i + 1) \in Seq(Frames) /\ Len(Below(r, i + 1)) = Len(r) - (i + 1)
        /\ \A k \in 1..(Len(r) - (i + 1)) : Below(r, i + 1)[k] = r[(i + 1) + k]
    <3>1. i + 1 \in 0..Len(r)
      BY <1>1
    <3> QED BY <1>1, <3>1, BelowIsSeq
  <2>2. /\ Below(s, i) \in Seq(Frames) /\ Len(Below(s, i)) = Len(s) - i
        /\ \A k \in 1..(Len(s) - i) : Below(s, i)[k] = s[i + k]
    <3>1. i \in 0..Len(s)
      BY <1>1
    <3> QED BY <3>1, BelowIsSeq
  <2>3. Len(r) - (i + 1) = Len(s) - i
    BY <1>1
  <2>4. \A k \in 1..(Len(s) - i) : r[(i + 1) + k] = s[i + k]
    <3> TAKE k \in 1..(Len(s) - i)
    <3>1. i + k \in 1..Len(s) /\ (i + k) + 1 = (i + 1) + k
      BY <1>1
    <3> QED BY <1>1, <3>1
  <2>5. ASSUME NEW k \in 1..Len(Below(s, i)) PROVE Below(r, i + 1)[k] = Below(s, i)[k]
    <3>1. k \in 1..(Len(s) - i) /\ k \in 1..(Len(r) - (i + 1))
      BY <2>2, <2>3
    <3>2. Below(r, i + 1)[k] = r[(i + 1) + k] /\ Below(s, i)[k] = s[i + k]
      BY <2>1, <2>2, <3>1
    <3> QED BY <2>4, <3>1, <3>2
  <2>6. /\ Below(r, i + 1) \in Seq(Frames) /\ Below(s, i) \in Seq(Frames)
        /\ Len(Below(r, i + 1)) = Len(Below(s, i))
    BY <2>1, <2>2, <2>3
  <2> QED BY <2>5, <2>6, SeqEqual
<1> QED BY <1>2, <1>3 DEF r

LEMMA PushOK ==
    ASSUME NEW fired, NEW s, StackOK(s, fired), NEW x, OnTop(x, s, fired)
    PROVE  StackOK(<<x>> \o s, fired)
<1> DEFINE r == <<x>> \o s
<1>1. s \in Seq(Frames) /\ x \in Frames /\ Len(s) \in Nat
  BY DEF StackOK, OnTop
<1>2. r \in Seq(Frames) /\ Len(r) = Len(s) + 1 /\ r[1] = x /\ \A i \in 1..Len(s) : r[i + 1] = s[i]
  BY <1>1, Push
<1>3. Below(r, 1) = s /\ \A i \in 1..Len(s) : Below(r, i + 1) = Below(s, i)
  BY <1>1, BelowPushed
<1> HIDE DEF r
<1>4. ASSUME NEW i \in 1..Len(r) PROVE OnTop(r[i], Below(r, i), fired)
  <2>1. CASE i = 1
    BY <1>2, <1>3, <2>1
  <2>2. CASE i # 1
    <3>1. PICK k \in 1..Len(s) : i = k + 1
      <4>1. i - 1 \in 1..Len(s) /\ i = (i - 1) + 1
        BY <1>1, <1>2, <2>2
      <4> QED BY <4>1
    <3> QED BY <1>2, <1>3, <3>1 DEF StackOK
  <2> QED BY <2>1, <2>2
<1> QED BY <1>2, <1>4 DEF StackOK, r

LEMMA PopOK ==
    ASSUME NEW fired, NEW s, StackOK(s, fired), s # <<>>
    PROVE  /\ StackOK(Tail(s), fired) /\ OnTop(Head(s), Tail(s), fired)
           /\ s = <<Head(s)>> \o Tail(s)
<1> DEFINE t == Tail(s)
           x == Head(s)
<1>1. /\ t \in Seq(Frames) /\ x \in Frames /\ x = s[1] /\ s = <<x>> \o t
      /\ Len(s) \in Nat \ {0} /\ Len(t) = Len(s) - 1
      /\ \A i \in 1..Len(t) : t[i] = s[i + 1]
  BY Pop DEF StackOK
<1> HIDE DEF t, x
<1>2. Below(s, 1) = t /\ \A i \in 1..Len(t) : Below(s, i + 1) = Below(t, i)
  BY <1>1, BelowPushed
<1>3. OnTop(x, t, fired)
  <2>1. 1 \in 1..Len(s)
    BY <1>1
  <2> QED BY <1>1, <1>2, <2>1 DEF StackOK
<1>4. ASSUME NEW i \in 1..Len(t) PROVE OnTop(t[i], Below(t, i), fired)
  <2>1. i + 1 \in 1..Len(s)
    BY <1>1
  <2>2. OnTop(s[i + 1], Below(s, i + 1), fired)
    BY <2>1 DEF StackOK
  <2> QED BY <1>1, <1>2, <2>2
<1> QED BY <1>1, <1>3, <1>4 DEF StackOK, t, x

LEMMA MoreFired ==
    ASSUME NEW fired, NEW more, fired \subseteq more, NEW s, StackOK(s, fired)
    PROVE  StackOK(s, more)
BY DEF StackOK, OnTop

LEMMA CallingPushed ==
    ASSUME NEW x \in Frames, NEW s \in Seq(Frames), x.chain # <<>>
    PROVE  Calling(<<x>> \o s) = Calling(s) \union (IF x.type = "call" THEN {Head(x.chain)} ELSE {})
<1> DEFINE r == <<x>> \o s
<1>1. r \in Seq(Frames) /\ Len(r) = Len(s) + 1 /\ Len(s) \in Nat /\ r[1] = x
      /\ \A i \in 1..Len(s) : r[i + 1] = s[i]
  BY Push
<1>2. Head(x.chain) \in Deferreds
  BY DEF Frames
<1> HIDE DEF r
<1>3. ASSUME NEW d \in Calling(r)
      PROVE  d \in Calling(s) \/ (x.type = "call" /\ d = Head(x.chain))
  <2>1. PICK i \in 1..Len(r) : r[i].type = "call" /\ Head(r[i].chain) = d
    BY DEF Calling
  <2>2. CASE i = 1
    BY <1>1, <2>1, <2>2
  <2>3. CASE i # 1
    <3>1. i - 1 \in 1..Len(s) /\ (i - 1) + 1 = i
      BY <1>1, <2>3
    <3>2. s[i - 1] = r[i]
      BY <1>1, <3>1
    <3> QED BY <2>1, <3>1, <3>2 DEF Calling
  <2> QED BY <2>2, <2>3
<1>4. ASSUME NEW d \in Calling(s) PROVE d \in Calling(r)
  <2>1. PICK i \in 1..Len(s) : s[i].type = "call" /\ Head(s[i].chain) = d
    BY DEF Calling
  <2>2. i + 1 \in 1..Len(r) /\ r[i + 1] = s[i]
    BY <1>1
  <2> QED BY <2>1, <2>2 DEF Calling
<1>5. x.type = "call" => Head(x.chain) \in Calling(r)
  <2>1. 1 \in 1..Len(r)
    BY <1>1
  <2> QED BY <1>1, <1>2, <2>1 DEF Calling
<1> QED BY <1>3, <1>4, <1>5 DEF r

LEMMA InChainsPushed ==
    ASSUME NEW x \in Frames, NEW s \in Seq(Frames)
    PROVE  InChains(<<x>> \o s) = InChains(s) \union (IF x.type = "run" THEN Members(x) ELSE {})
<1> DEFINE r == <<x>> \o s
<1>1. r \in Seq(Frames) /\ Len(r) = Len(s) + 1 /\ Len(s) \in Nat /\ r[1] = x
      /\ \A i \in 1..Len(s) : r[i + 1] = s[i]
  BY Push
<1>2. Members(x) \subseteq Deferreds
  BY DEF Frames, Members
<1> HIDE DEF r
<1>3. ASSUME NEW d \in InChains(r)
      PROVE  d \in InChains(s) \/ (x.type = "run" /\ d \in Members(x))
  <2>1. PICK i \in 1..Len(r) : r[i].type = "run" /\ d \in Members(r[i])
    BY DEF InChains
  <2>2. CASE i = 1
    BY <1>1, <2>1, <2>2
  <2>3. CASE i # 1
    <3>1. i - 1 \in 1..Len(s) /\ (i - 1) + 1 = i
      BY <1>1, <2>3
    <3>2. s[i - 1] = r[i]
      BY <1>1, <3>1
    <3> QED BY <2>1, <3>1, <3>2 DEF InChains
  <2> QED BY <2>2, <2>3
<1>4. ASSUME NEW d \in InChains(s) PROVE d \in InChains(r)
  <2>1. PICK i \in 1..Len(s) : s[i].type = "run" /\ d \in Members(s[i])
    BY DEF InChains
  <2>2. i + 1 \in 1..Len(r) /\ r[i + 1] = s[i]
    BY <1>1
  <2> QED BY <2>1, <2>2 DEF InChains
<1>5. x.type = "run" => Members(x) \subseteq InChains(r)
  <2>1. 1 \in 1..Len(r)
    BY <1>1
  <2> QED BY <1>1, <1>2, <2>1 DEF InChains
<1> QED BY <1>3, <1>4, <1>5 DEF r

LEMMA HeadIsMember ==
    ASSUME NEW x \in Frames, x.chain # <<>>
    PROVE  /\ Head(x.chain) \in Members(x) /\ Head(x.chain) \in Deferreds
           /\ Head(x.chain) = x.chain[1] /\ Members(x) \subseteq Deferreds
           /\ Len(x.chain) \in Nat \ {0}
<1>1. x.chain \in Seq(Deferreds)
  BY DEF Frames
<1>2. Len(x.chain) \in Nat \ {0} /\ Head(x.chain) = x.chain[1]
  BY <1>1
<1>3. \A j \in 1..Len(x.chain) : x.chain[j] \in Deferreds
  BY <1>1
<1> QED BY <1>2, <1>3 DEF Members

(* A Deferred whose callback is under way is in the chain of the           *)
(* activation below.                                                       *)
LEMMA CallingInChains ==
    ASSUME NEW fired, NEW s, StackOK(s, fired)
    PROVE  Calling(s) \subseteq InChains(s)
<1> SUFFICES ASSUME NEW d \in Calling(s) PROVE d \in InChains(s)
  OBVIOUS
<1>1. PICK i \in 1..Len(s) : s[i].type = "call" /\ Head(s[i].chain) = d
  BY DEF Calling
<1>2. s \in Seq(Frames) /\ OnTop(s[i], Below(s, i), fired)
  BY DEF StackOK
<1> DEFINE b == Below(s, i)
<1>3. b # <<>> /\ Head(b).type = "run" /\ Head(Head(b).chain) = d
  BY <1>1, <1>2 DEF OnTop
<1>4. /\ b \in Seq(Frames) /\ Len(b) = Len(s) - i /\ \A k \in 1..(Len(s) - i) : b[k] = s[i + k]
  <2>1. i \in 0..Len(s)
    BY <1>2
  <2> QED BY <1>2, <2>1, BelowIsSeq
<1> HIDE DEF b
<1>5. Len(b) \in Nat \ {0} /\ Head(b) = b[1]
  BY <1>3, <1>4
<1>6. i + 1 \in 1..Len(s) /\ s[i + 1] = b[1]
  BY <1>2, <1>4, <1>5
<1>7. s[i + 1].chain # <<>> /\ s[i + 1] \in Frames
  BY <1>2, <1>6 DEF StackOK, OnTop
<1>8. d \in Members(s[i + 1]) /\ d \in Deferreds
  BY <1>3, <1>5, <1>6, <1>7, HeadIsMember
<1> QED BY <1>3, <1>5, <1>6, <1>8 DEF InChains

LEMMA ActivatedOK ==
    ASSUME NEW fired, StackOK(stack, fired), NEW more, fired \subseteq more,
           NEW d \in Deferreds, d \in more, AppTurn, running[d] <=> d \in Calling(stack)
    PROVE  /\ StackOK(Activated(d), more)
           /\ Calling(Activated(d)) = Calling(stack)
           /\ InChains(stack) \union {d} \subseteq InChains(Activated(d))
           /\ ReadyTop(Activated(d), result) /\ ReadyTop(Activated(d), result')
<1> DEFINE x == Activation(d)
<1>1. StackOK(stack, more) /\ stack \in Seq(Frames)
  BY MoreFired DEF StackOK
<1>2. stack # <<>> => Head(stack).type = "call"
  BY DEF AppTurn
<1>3. CASE running[d]
  <2>1. Activated(d) = stack
    BY <1>3 DEF Activated
  <2>2. ReadyTop(stack, result) /\ ReadyTop(stack, result')
    BY <1>2 DEF ReadyTop
  <2> QED BY <1>1, <1>3, <2>1, <2>2, CallingInChains
<1>4. CASE ~running[d]
  <2>1. Activated(d) = <<x>> \o stack
    BY <1>4 DEF Activated
  <2>2. /\ x.type = "run" /\ x.fresh = TRUE /\ x.chain = <<d>> /\ x.arg = "empty"
        /\ x \in Frames /\ x.chain # <<>>
    BY DEF Activation, Frames, Values
  <2>3. Members(x) = {d}
    BY <2>2 DEF Members
  <2> HIDE DEF x
  <2>4. OnTop(x, stack, more)
    BY <1>2, <1>4, <2>2, <2>3 DEF OnTop
  <2>5. StackOK(<<x>> \o stack, more)
    BY <1>1, <2>4, PushOK
  <2>6. Calling(<<x>> \o stack) = Calling(stack)
    BY <1>1, <2>2, CallingPushed
  <2>7. InChains(<<x>> \o stack) = InChains(stack) \union {d}
    BY <1>1, <2>2, <2>3, InChainsPushed
  <2>8. Head(<<x>> \o stack).fresh
    BY <1>1, <2>2, Push
  <2> QED BY <2>1, <2>5, <2>6, <2>7, <2>8 DEF ReadyTop
<1> QED BY <1>3, <1>4

(* What is known of the stack inside the loop.                             *)
LEMMA TopOK ==
    ASSUME StackInv, stack # <<>>
    PROVE  /\ StackOK(Tail(stack), Fired) /\ OnTop(Top, Tail(stack), Fired)
           /\ Top \in Frames /\ Top.chain # <<>> /\ Top.chain \in Seq(Deferreds)
           /\ Current \in Deferreds /\ called[Current] /\ Current \in Members(Top)
           /\ Calling(stack) = Calling(Tail(stack))
                                 \union (IF Top.type = "call" THEN {Current} ELSE {})
           /\ InChains(stack) = InChains(Tail(stack))
                                 \union (IF Top.type = "run" THEN Members(Top) ELSE {})
<1> DEFINE t == Tail(stack)
           x == Head(stack)
<1>1. StackOK(t, Fired) /\ OnTop(x, t, Fired) /\ stack = <<x>> \o t
  BY PopOK DEF StackInv
<1>2. Top = x /\ Current = Head(x.chain)
  BY DEF Top, Current
<1> HIDE DEF t, x
<1>3. x \in Frames /\ x.chain # <<>> /\ Members(x) \subseteq Fired /\ t \in Seq(Frames)
  BY <1>1 DEF OnTop, StackOK
<1>4. x.chain \in Seq(Deferreds) /\ Head(x.chain) \in Deferreds /\ Head(x.chain) \in Members(x)
  BY <1>3, HeadIsMember DEF Frames
<1>5. called[Head(x.chain)]
  BY <1>3, <1>4 DEF Fired
<1>6. Calling(stack) = Calling(t) \union (IF x.type = "call" THEN {Head(x.chain)} ELSE {})
  BY <1>1, <1>3, CallingPushed
<1>7. InChains(stack) = InChains(t) \union (IF x.type = "run" THEN Members(x) ELSE {})
  BY <1>1, <1>3, InChainsPushed
<1> QED BY <1>1, <1>2, <1>3, <1>4, <1>5, <1>6, <1>7 DEF t, x

(* An activation goes on to the next Deferred of its chain, or ends.       *)
LEMMA PopChainOK ==
    ASSUME NEW fired, NEW rest, StackOK(rest, fired), NEW f, OnTop(f, rest, fired), f.type = "run"
    PROVE  /\ StackOK(PopChain(f, rest), fired)
           /\ Calling(PopChain(f, rest)) = Calling(rest)
           /\ InChains(rest) \union (Members(f) \ {Head(f.chain)}) \subseteq InChains(PopChain(f, rest))
           /\ \A res : ReadyTop(PopChain(f, rest), res)
<1> DEFINE g == [f EXCEPT !.chain = Tail(@), !.fresh = TRUE]
<1>1. /\ f \in Frames /\ f.chain # <<>> /\ f.chain \in Seq(Deferreds) /\ Members(f) \subseteq fired
      /\ rest # <<>> => Head(rest).type = "call"
      /\ Members(f) \intersect Calling(rest) = {} /\ rest \in Seq(Frames)
  BY DEF OnTop, StackOK, Frames
<1>2. /\ Len(f.chain) \in Nat \ {0} /\ Head(f.chain) = f.chain[1]
      /\ Tail(f.chain) \in Seq(Deferreds) /\ Len(Tail(f.chain)) = Len(f.chain) - 1
      /\ \A i \in 1..Len(Tail(f.chain)) : Tail(f.chain)[i] = f.chain[i + 1]
  BY <1>1
<1>3. CASE Len(f.chain) = 1
  <2>1. PopChain(f, rest) = rest
    BY <1>3 DEF PopChain
  <2>2. Members(f) = {Head(f.chain)}
    BY <1>2, <1>3 DEF Members
  <2>3. \A res : ReadyTop(rest, res)
    BY <1>1 DEF ReadyTop
  <2> QED BY <2>1, <2>2, <2>3
<1>4. CASE Len(f.chain) # 1
  <2>1. PopChain(f, rest) = <<g>> \o rest
    BY <1>4 DEF PopChain
  <2>2. g \in Frames /\ g.type = "run" /\ g.chain = Tail(f.chain) /\ g.fresh = TRUE
    BY <1>1, <1>2 DEF Frames
  <2> HIDE DEF g
  <2>3. g.chain # <<>>
    <3>1. Len(g.chain) # 0
      BY <1>2, <1>4, <2>2
    <3> QED BY <3>1
  <2>4. Members(g) \subseteq Members(f)
    <3> SUFFICES ASSUME NEW i \in 1..Len(g.chain) PROVE g.chain[i] \in Members(f)
      BY DEF Members
    <3>1. i + 1 \in 1..Len(f.chain) /\ g.chain[i] = f.chain[i + 1]
      BY <1>2, <2>2
    <3> QED BY <3>1 DEF Members
  <2>5. Members(f) \ {Head(f.chain)} \subseteq Members(g)
    <3> SUFFICES ASSUME NEW i \in 1..Len(f.chain), f.chain[i] # f.chain[1]
                 PROVE  f.chain[i] \in Members(g)
      BY <1>2 DEF Members
    <3>1. i - 1 \in 1..Len(g.chain) /\ (i - 1) + 1 = i
      BY <1>2, <2>2
    <3>2. g.chain[i - 1] = f.chain[i]
      BY <1>2, <2>2, <3>1
    <3> QED BY <3>1, <3>2 DEF Members
  <2>6. OnTop(g, rest, fired)
    BY <1>1, <2>2, <2>3, <2>4 DEF OnTop
  <2>7. StackOK(<<g>> \o rest, fired)
    BY <2>6, PushOK
  <2>8. Calling(<<g>> \o rest) = Calling(rest)
    BY <1>1, <2>2, <2>3, CallingPushed
  <2>9. InChains(<<g>> \o rest) = InChains(rest) \union Members(g)
    BY <1>1, <2>2, InChainsPushed
  <2>10. Head(<<g>> \o rest).fresh
    BY <1>1, <2>2, Push
  <2> QED BY <2>1, <2>5, <2>7, <2>8, <2>9, <2>10 DEF ReadyTop
<1> QED BY <1>3, <1>4

(* The activation on top is replaced by another.                           *)
LEMMA ReplaceOK ==
    ASSUME NEW fired, NEW rest, StackOK(rest, fired), NEW g, OnTop(g, rest, fired), g.type = "run"
    PROVE  /\ StackOK(<<g>> \o rest, fired) /\ Calling(<<g>> \o rest) = Calling(rest)
           /\ InChains(<<g>> \o rest) = InChains(rest) \union Members(g)
           /\ <<g>> \o rest \in Seq(Frames) /\ Head(<<g>> \o rest) = g
<1>1. g \in Frames /\ g.chain # <<>> /\ rest \in Seq(Frames)
  BY DEF OnTop, StackOK
<1>2. StackOK(<<g>> \o rest, fired)
  BY PushOK
<1>3. Calling(<<g>> \o rest) = Calling(rest)
  BY <1>1, CallingPushed
<1>4. InChains(<<g>> \o rest) = InChains(rest) \union Members(g)
  BY <1>1, InChainsPushed
<1>5. <<g>> \o rest \in Seq(Frames) /\ Head(<<g>> \o rest) = g
  BY <1>1, Push
<1> QED BY <1>2, <1>3, <1>4, <1>5

-----------------------------------------------------------------------------
(* Callback lists.                                                         *)
LEMMA UserEntryAdded ==
    ASSUME TypeOK, Woken, Wakers, NEW d \in Deferreds, NEW k \in {"ok", "err", "both"},
           callbacks' = [callbacks EXCEPT ![d] = Append(@, UserEntry(k))],
           UNCHANGED <<result, waitsFor>>
    PROVE  Woken' /\ Wakers' /\ callbacks' \in [Deferreds -> Seq(Entries)]
<1> DEFINE u == UserEntry(k)
           c == callbacks[d]
           a == Append(c, u)
<1>1. u \in Entries /\ u.kind # "cont" /\ \A e : u # Continuation(e)
  BY DEF UserEntry, Entries, Continuation
<1>2. callbacks \in [Deferreds -> Seq(Entries)] /\ c \in Seq(Entries)
  BY DEF TypeOK
<1> HIDE DEF u, c
<1>3. /\ a \in Seq(Entries) /\ Len(c) \in Nat /\ Len(a) = Len(c) + 1 /\ a[Len(c) + 1] = u
      /\ \A i \in 1..Len(c) : a[i] = c[i]
  BY <1>1, <1>2
<1> HIDE DEF a
<1>4. \A e \in Deferreds : callbacks'[e] = IF e = d THEN a ELSE callbacks[e]
  BY <1>2 DEF a, c, u
<1>5. callbacks' \in [Deferreds -> Seq(Entries)]
  BY <1>1, <1>2, <1>3 DEF a, c, u
<1>6. Woken'
  <2> SUFFICES ASSUME NEW e \in Deferreds, result[e] = "deferred"
               PROVE  WillWake(e, waitsFor[e], callbacks')
    BY DEF Woken
  <2>1. WillWake(e, waitsFor[e], callbacks)
    BY DEF Woken
  <2>2. PICK i \in 1..Len(callbacks[waitsFor[e]]) : callbacks[waitsFor[e]][i] = Continuation(e)
    BY <2>1 DEF WillWake
  <2>3. CASE waitsFor[e] = d
    <3>1. i \in 1..Len(a) /\ a[i] = Continuation(e)
      BY <1>3, <2>2, <2>3 DEF c
    <3> QED BY <1>4, <2>1, <2>3, <3>1 DEF WillWake
  <2>4. CASE waitsFor[e] # d
    BY <1>4, <2>1, <2>2, <2>4 DEF WillWake
  <2> QED BY <2>3, <2>4
<1>7. Wakers'
  <2> SUFFICES ASSUME NEW e \in Deferreds, NEW i \in 1..Len(callbacks'[e]),
                      callbacks'[e][i].kind = "cont"
               PROVE  /\ result[callbacks'[e][i].of] = "deferred"
                      /\ waitsFor[callbacks'[e][i].of] = e
                      /\ OnlyWaker(e, i, callbacks')
    BY DEF Wakers
  <2>1. CASE e = d
    <3>0. callbacks'[e] = a /\ i # Len(c) + 1
      BY <1>1, <1>3, <1>4, <2>1
    <3>1. i \in 1..Len(c) /\ a[i] = c[i]
      BY <1>3, <3>0
    <3>2. result[c[i].of] = "deferred" /\ waitsFor[c[i].of] = d /\ OnlyWaker(d, i, callbacks)
      BY <2>1, <3>0, <3>1 DEF Wakers, c
    <3>3. ASSUME NEW j \in 1..Len(a), a[j] = c[i] PROVE i = j
      <4>1. j # Len(c) + 1
        BY <1>1, <1>3, <3>0, <3>1, <3>3
      <4>2. j \in 1..Len(c) /\ a[j] = c[j]
        BY <1>3, <4>1
      <4> QED BY <3>2, <3>3, <4>2 DEF OnlyWaker, c
    <3> QED BY <2>1, <3>0, <3>1, <3>2, <3>3 DEF OnlyWaker
  <2>2. CASE e # d
    <3>1. callbacks'[e] = callbacks[e]
      BY <1>4, <2>2
    <3>2. result[callbacks[e][i].of] = "deferred" /\ waitsFor[callbacks[e][i].of] = e
          /\ OnlyWaker(e, i, callbacks)
      BY <3>1 DEF Wakers
    <3> QED BY <3>1, <3>2 DEF OnlyWaker
  <2> QED BY <2>1, <2>2
<1> QED BY <1>5, <1>6, <1>7

(* The first callback x of d is taken: whatever it is, the Continuations   *)
(* of the others stay.                                                     *)
OthersWoken(x, cs) ==
    \A e \in Deferreds :
        result[e] = "deferred" /\ x # Continuation(e) => WillWake(e, waitsFor[e], cs)

OtherWakers(x, d, cs) ==
    \A e \in Deferreds : \A i \in 1..Len(cs[e]) :
        cs[e][i].kind = "cont" =>
            /\ result[cs[e][i].of] = "deferred" /\ waitsFor[cs[e][i].of] = e
            /\ cs[e][i].of \in Deferreds
            /\ e = d => cs[e][i] # x
            /\ OnlyWaker(e, i, cs)

LEMMA OtherWaker ==
    ASSUME NEW x, NEW d, NEW cs, OtherWakers(x, d, cs), NEW e \in Deferreds,
           NEW i \in 1..Len(cs[e]), cs[e][i].kind = "cont"
    PROVE  /\ result[cs[e][i].of] = "deferred" /\ waitsFor[cs[e][i].of] = e
           /\ cs[e][i].of \in Deferreds
           /\ e = d => cs[e][i] # x
           /\ OnlyWaker(e, i, cs)
BY DEF OtherWakers

LEMMA EntryTaken ==
    ASSUME TypeOK, Woken, Wakers, NEW d \in Deferreds, callbacks[d] # <<>>,
           callbacks' = [callbacks EXCEPT ![d] = Tail(@)]
    PROVE  /\ callbacks' \in [Deferreds -> Seq(Entries)] /\ Head(callbacks[d]) \in Entries
           /\ OthersWoken(Head(callbacks[d]), callbacks')
           /\ OtherWakers(Head(callbacks[d]), d, callbacks')
<1> DEFINE c == callbacks[d]
           t == Tail(c)
<1>1. callbacks \in [Deferreds -> Seq(Entries)] /\ c \in Seq(Entries) /\ c # <<>>
  BY DEF TypeOK
<1> HIDE DEF c
<1>2. /\ t \in Seq(Entries) /\ Len(c) \in Nat \ {0} /\ Len(t) = Len(c) - 1 /\ Head(c) = c[1]
      /\ Head(c) \in Entries /\ \A i \in 1..Len(t) : t[i] = c[i + 1]
  BY <1>1
<1> HIDE DEF t
<1>3. \A e \in Deferreds : callbacks'[e] = IF e = d THEN t ELSE callbacks[e]
  BY <1>1 DEF t, c
<1>4. callbacks' \in [Deferreds -> Seq(Entries)] /\ Head(callbacks[d]) \in Entries
  BY <1>1, <1>2 DEF t, c
<1>5. ASSUME NEW e \in Deferreds, result[e] = "deferred", Head(callbacks[d]) # Continuation(e)
      PROVE  WillWake(e, waitsFor[e], callbacks')
  <2>1. WillWake(e, waitsFor[e], callbacks)
    BY <1>5 DEF Woken
  <2>2. PICK i \in 1..Len(callbacks[waitsFor[e]]) : callbacks[waitsFor[e]][i] = Continuation(e)
    BY <2>1 DEF WillWake
  <2>3. CASE waitsFor[e] = d
    <3>1. i # 1
      BY <1>2, <1>5, <2>2, <2>3 DEF c
    <3>2. i - 1 \in 1..Len(t) /\ (i - 1) + 1 = i
      BY <1>2, <2>2, <2>3, <3>1 DEF c
    <3>3. t[i - 1] = Continuation(e)
      BY <1>2, <2>2, <2>3, <3>2 DEF c
    <3> QED BY <1>3, <2>1, <2>3, <3>2, <3>3 DEF WillWake
  <2>4. CASE waitsFor[e] # d
    BY <1>3, <2>1, <2>2, <2>4 DEF WillWake
  <2> QED BY <2>3, <2>4
<1>6. ASSUME NEW e \in Deferreds, NEW i \in 1..Len(callbacks'[e]), callbacks'[e][i].kind = "cont"
      PROVE  /\ result[callbacks'[e][i].of] = "deferred" /\ waitsFor[callbacks'[e][i].of] = e
             /\ callbacks'[e][i].of \in Deferreds
             /\ e = d => callbacks'[e][i] # Head(callbacks[d])
             /\ OnlyWaker(e, i, callbacks')
  <2>0. callbacks'[e][i].of \in Deferreds
    <3>1. callbacks'[e][i] \in Entries
      BY <1>4
    <3> QED BY <1>6, <3>1 DEF Entries
  <2>1. CASE e = d
    <3>0. callbacks'[e] = t
      BY <1>3, <2>1
    <3>1. i \in 1..Len(t) /\ i + 1 \in 1..Len(c) /\ t[i] = c[i + 1]
      BY <1>2, <3>0
    <3>2. result[c[i + 1].of] = "deferred" /\ waitsFor[c[i + 1].of] = d
          /\ OnlyWaker(d, i + 1, callbacks)
      BY <1>6, <2>1, <3>0, <3>1 DEF Wakers, c
    <3>3. t[i] # Head(c)
      <4>1. 1 \in 1..Len(c) /\ i + 1 # 1
        BY <1>2, <3>1
      <4> QED BY <1>2, <3>1, <3>2, <4>1 DEF OnlyWaker, c
    <3>4. ASSUME NEW j \in 1..Len(t), t[j] = t[i] PROVE i = j
      <4>1. j + 1 \in 1..Len(c) /\ c[j + 1] = c[i + 1]
        BY <1>2, <3>1, <3>4
      <4>2. i + 1 = j + 1
        BY <3>2, <4>1 DEF OnlyWaker, c
      <4> QED BY <3>1, <4>2
    <3>5. OnlyWaker(e, i, callbacks')
      BY <3>0, <3>1, <3>4 DEF OnlyWaker
    <3> QED BY <2>0, <2>1, <3>0, <3>1, <3>2, <3>3, <3>5 DEF c
  <2>2. CASE e # d
    <3>1. callbacks'[e] = callbacks[e]
      BY <1>3, <2>2
    <3>2. result[callbacks[e][i].of] = "deferred" /\ waitsFor[callbacks[e][i].of] = e
          /\ OnlyWaker(e, i, callbacks)
      BY <1>6, <3>1 DEF Wakers
    <3> QED BY <2>0, <2>2, <3>1, <3>2 DEF OnlyWaker
  <2> QED BY <2>1, <2>2
<1>7. OthersWoken(Head(callbacks[d]), callbacks')
  BY <1>5 DEF OthersWoken
<1>8. OtherWakers(Head(callbacks[d]), d, callbacks')
  BY <1>6 DEF OtherWakers
<1> QED BY <1>4, <1>7, <1>8

LEMMA UserEntryTaken ==
    ASSUME TypeOK, Woken, Wakers, NEW d \in Deferreds, callbacks[d] # <<>>,
           Head(callbacks[d]).kind # "cont", callbacks' = [callbacks EXCEPT ![d] = Tail(@)],
           waitsFor' = waitsFor,
           \A e \in Deferreds : result'[e] = "deferred" <=> result[e] = "deferred"
    PROVE  Woken' /\ Wakers' /\ callbacks' \in [Deferreds -> Seq(Entries)]
<1>1. \A e : Head(callbacks[d]) # Continuation(e)
  BY DEF Continuation
<1>2. /\ callbacks' \in [Deferreds -> Seq(Entries)]
      /\ OthersWoken(Head(callbacks[d]), callbacks')
      /\ OtherWakers(Head(callbacks[d]), d, callbacks')
  BY EntryTaken
<1>3. Woken'
  BY <1>1, <1>2 DEF Woken, OthersWoken
<1>4. ASSUME NEW e \in Deferreds, NEW i \in 1..Len(callbacks'[e]), callbacks'[e][i].kind = "cont"
      PROVE  /\ result'[callbacks'[e][i].of] = "deferred" /\ waitsFor'[callbacks'[e][i].of] = e
             /\ OnlyWaker(e, i, callbacks')
  <2> DEFINE cs == callbacks'
             x == Head(callbacks[d])
  <2>1. OtherWakers(x, d, cs) /\ i \in 1..Len(cs[e]) /\ cs[e][i].kind = "cont"
    BY <1>2, <1>4
  <2> HIDE DEF cs, x
  <2>2. /\ result[cs[e][i].of] = "deferred" /\ waitsFor[cs[e][i].of] = e
        /\ cs[e][i].of \in Deferreds /\ OnlyWaker(e, i, cs)
    BY <2>1, OtherWaker
  <2> QED BY <2>2 DEF cs
<1>5. Wakers'
  BY <1>4 DEF Wakers
<1> QED BY <1>2, <1>3, <1>5

-----------------------------------------------------------------------------
LEMMA InitInv == Init => IInv
<1> SUFFICES ASSUME Init PROVE IInv
  OBVIOUS
<1> USE DEF Init
<1>1. TypeOK
  BY DeferredAssumption DEF TypeOK, Values, Entries
<1>2. StackInv
  <2>1. Calling(<<>>) = {}
    BY DEF Calling
  <2> QED BY <2>1 DEF StackInv, StackOK
<1>3. Results /\ ReadyTop(stack, result) /\ Pauses
  BY DEF Results, ReadyTop, Pauses
<1>4. Woken /\ Wakers /\ Attended
  BY DEF Woken, Wakers, Attended
<1> QED BY <1>1, <1>2, <1>3, <1>4 DEF IInv

(* A Deferred is started, if a callback of it is not under way.            *)
LEMMA ActivatedStep ==
    ASSUME StackInv, NEW d \in Deferreds, AppTurn, Fired \subseteq Fired', d \in Fired',
           stack' = Activated(d), running' = running
    PROVE  /\ StackInv' /\ ReadyTop(stack', result')
           /\ InChains(stack) \union {d} \subseteq InChains(stack')
           /\ stack' \in Seq(Frames)
<1>1. StackOK(stack, Fired) /\ (running[d] <=> d \in Calling(stack))
  BY DEF StackInv
<1>2. /\ StackOK(Activated(d), Fired') /\ Calling(Activated(d)) = Calling(stack)
      /\ InChains(stack) \union {d} \subseteq InChains(Activated(d))
      /\ ReadyTop(Activated(d), result')
  BY <1>1, ActivatedOK
<1>3. StackInv'
  BY <1>2 DEF StackInv
<1> QED BY <1>2, <1>3 DEF StackOK

(* A step outside the loop that leaves the stack alone.                    *)
LEMMA StackStays ==
    ASSUME StackInv, AppTurn, stack' = stack, running' = running, called' = called
    PROVE  StackInv' /\ ReadyTop(stack', result')
<1>1. ReadyTop(stack, result')
  BY DEF ReadyTop, AppTurn
<1>2. Fired' = Fired
  BY DEF Fired
<1> QED BY <1>1, <1>2 DEF StackInv

LEMMA AddCallbackStep ==
    ASSUME IInv, NEW d \in Deferreds, NEW k \in {"ok", "err", "both"}, AddCallback(d, k)
    PROVE  IInv'
<1> USE DEF AddCallback
<1>1. Woken' /\ Wakers' /\ callbacks' \in [Deferreds -> Seq(Entries)]
  BY UserEntryAdded DEF IInv
<1>2. Fired' = Fired
  BY DEF Fired
<1>3. /\ StackInv' /\ ReadyTop(stack', result') /\ InChains(stack) \subseteq InChains(stack')
      /\ (called[d] => d \in InChains(stack')) /\ stack' \in Seq(Frames)
  <2>1. CASE called[d]
    <3>1. d \in Fired'
      BY <1>2, <2>1 DEF Fired
    <3>2. stack' = Activated(d)
      BY <2>1
    <3> QED BY <1>2, <2>1, <3>1, <3>2, ActivatedStep DEF IInv
  <2>2. CASE ~called[d]
    <3>1. stack' = stack
      BY <2>2
    <3> QED BY <2>2, <3>1, StackStays DEF IInv, TypeOK
  <2> QED BY <2>1, <2>2
<1>4. TypeOK'
  <2>1. added' \in 0..MaxCallbacks
    BY DeferredAssumption DEF IInv, TypeOK
  <2>2. left' \subseteq Deferreds
    BY DEF IInv, TypeOK
  <2> QED BY <1>1, <1>3, <2>1, <2>2 DEF IInv, TypeOK
<1>5. Results' /\ Pauses'
  BY DEF IInv, Results, Pauses
<1>6. Attended'
  <2> SUFFICES ASSUME NEW e \in Deferreds, called[e], paused[e] = 0, e \notin left',
                      callbacks'[e] # <<>>
               PROVE  e \in InChains(stack')
    BY DEF Attended
  <2>1. CASE e = d
    BY <1>3, <2>1
  <2>2. CASE e # d
    <3>1. callbacks'[e] = callbacks[e] /\ e \notin left
      BY <2>2 DEF IInv, TypeOK
    <3> QED BY <1>3, <3>1 DEF IInv, Attended
  <2> QED BY <2>1, <2>2
<1> QED BY <1>1, <1>3, <1>4, <1>5, <1>6 DEF IInv

(* callback, errback and cancel.                                           *)
LEMMA StartStep ==
    ASSUME IInv, NEW d \in Deferreds, NEW v \in {"val", "err"}, AppTurn, ~called[d],
           StartRunCallbacks(d, v), suppress' \in [Deferreds -> BOOLEAN]
    PROVE  IInv'
<1> USE DEF StartRunCallbacks
<1>1. /\ called' \in [Deferreds -> BOOLEAN] /\ result' \in [Deferreds -> Values]
      /\ \A e \in Deferreds : called'[e] = (e = d \/ called[e])
      /\ \A e \in Deferreds : result'[e] = IF e = d THEN v ELSE result[e]
  BY DEF IInv, TypeOK, Values
<1>2. Fired \subseteq Fired' /\ d \in Fired'
  BY <1>1 DEF Fired
<1>3. /\ StackInv' /\ ReadyTop(stack', result')
      /\ InChains(stack) \union {d} \subseteq InChains(stack') /\ stack' \in Seq(Frames)
  BY <1>2, ActivatedStep DEF IInv
<1>4. TypeOK'
  BY <1>1, <1>3 DEF IInv, TypeOK
<1>5. result[d] = "empty"
  BY DEF IInv, Results
<1>6. Results' /\ Pauses'
  <2>1. Results'
    BY <1>1 DEF IInv, Results
  <2>2. Pauses'
    BY <1>1, <1>5 DEF IInv, Pauses
  <2> QED BY <2>1, <2>2
<1>7. \A e \in Deferreds : result'[e] = "deferred" <=> result[e] = "deferred"
  BY <1>1, <1>5
<1>8. Woken'
  BY <1>7 DEF IInv, Woken
<1>9. Wakers'
  <2> SUFFICES ASSUME NEW e \in Deferreds, NEW i \in 1..Len(callbacks[e]),
                      callbacks[e][i].kind = "cont"
               PROVE  /\ result'[callbacks[e][i].of] = "deferred"
                      /\ waitsFor[callbacks[e][i].of] = e /\ OnlyWaker(e, i, callbacks)
    BY DEF Wakers
  <2>1. callbacks[e][i] \in Entries
    BY DEF IInv, TypeOK
  <2>2. callbacks[e][i].of \in Deferreds
    BY <2>1 DEF Entries
  <2> QED BY <1>7, <2>2 DEF IInv, Wakers
<1>10. Attended'
  BY <1>1, <1>3 DEF IInv, Attended
<1> QED BY <1>3, <1>4, <1>6, <1>8, <1>9, <1>10 DEF IInv

LEMMA FireLateStep ==
    ASSUME IInv, NEW d \in Deferreds, FireLate(d)
    PROVE  IInv'
<1> USE DEF FireLate
<1>1. StackInv' /\ ReadyTop(stack', result')
  BY StackStays DEF IInv
<1>2. TypeOK'
  BY DEF IInv, TypeOK
<1>3. Results' /\ Pauses' /\ Woken' /\ Wakers' /\ Attended'
  BY DEF IInv, Results, Pauses, Woken, Wakers, Attended
<1> QED BY <1>1, <1>2, <1>3 DEF IInv

LEMMA PauseStep ==
    ASSUME IInv, NEW d \in Deferreds, Pause(d)
    PROVE  IInv'
<1> USE DEF Pause
<1>1. StackInv' /\ ReadyTop(stack', result')
  BY StackStays DEF IInv
<1>2. /\ paused \in [Deferreds -> Nat] /\ userPauses \in [Deferreds -> 0..MaxPauses]
      /\ userPauses[d] \in 0..MaxPauses /\ MaxPauses \in Nat
  BY DeferredAssumption DEF IInv, TypeOK
<1>3. /\ \A e \in Deferreds : paused'[e] = IF e = d THEN paused[e] + 1 ELSE paused[e]
      /\ \A e \in Deferreds : userPauses'[e] = IF e = d THEN userPauses[e] + 1 ELSE userPauses[e]
      /\ paused' \in [Deferreds -> Nat] /\ userPauses' \in [Deferreds -> 0..MaxPauses]
  BY <1>2
<1>4. TypeOK'
  BY <1>3 DEF IInv, TypeOK
<1>5. Results' /\ Woken' /\ Wakers'
  BY DEF IInv, Results, Woken, Wakers
<1>6. Pauses'
  BY <1>2, <1>3 DEF IInv, Pauses
<1>7. Attended'
  <2> SUFFICES ASSUME NEW e \in Deferreds, called[e], paused'[e] = 0, e \notin left, callbacks[e] # <<>>
               PROVE  e \in InChains(stack)
    BY DEF Attended
  <2>1. paused[e] = 0
    BY <1>2, <1>3
  <2> QED BY <2>1 DEF IInv, Attended
<1> QED BY <1>1, <1>4, <1>5, <1>6, <1>7 DEF IInv

LEMMA UnpauseStep ==
    ASSUME IInv, NEW d \in Deferreds, Unpause(d)
    PROVE  IInv'
<1> USE DEF Unpause
<1>1. /\ paused \in [Deferreds -> Nat] /\ userPauses \in [Deferreds -> 0..MaxPauses]
      /\ userPauses[d] \in 0..MaxPauses /\ MaxPauses \in Nat /\ paused[d] \in Nat
  BY DeferredAssumption DEF IInv, TypeOK
<1>2. paused[d] > 0
  BY <1>1 DEF IInv, Pauses
<1>3. /\ \A e \in Deferreds : paused'[e] = IF e = d THEN paused[e] - 1 ELSE paused[e]
      /\ \A e \in Deferreds : userPauses'[e] = IF e = d THEN userPauses[e] - 1 ELSE userPauses[e]
      /\ paused' \in [Deferreds -> Nat] /\ userPauses' \in [Deferreds -> 0..MaxPauses]
  BY <1>1, <1>2
<1>4. Fired' = Fired
  BY DEF Fired
<1>5. /\ StackInv' /\ ReadyTop(stack', result') /\ InChains(stack) \subseteq InChains(stack')
      /\ (paused[d] = 1 /\ called[d] => d \in InChains(stack')) /\ stack' \in Seq(Frames)
  <2>1. CASE paused[d] = 1 /\ called[d]
    <3>1. d \in Fired'
      BY <1>4, <2>1 DEF Fired
    <3>2. stack' = Activated(d)
      BY <2>1
    <3> QED BY <1>4, <3>1, <3>2, ActivatedStep DEF IInv
  <2>2. CASE ~(paused[d] = 1 /\ called[d])
    <3>1. stack' = stack
      BY <2>2
    <3> QED BY <2>2, <3>1, StackStays DEF IInv, TypeOK
  <2> QED BY <2>1, <2>2
<1>6. TypeOK'
  <2>1. left' \subseteq Deferreds
    BY DEF IInv, TypeOK
  <2> QED BY <1>3, <1>5, <2>1 DEF IInv, TypeOK
<1>7. Results' /\ Woken' /\ Wakers'
  BY DEF IInv, Results, Woken, Wakers
<1>8. Pauses'
  BY <1>1, <1>3 DEF IInv, Pauses
<1>9. Attended'
  <2> SUFFICES ASSUME NEW e \in Deferreds, called[e], paused'[e] = 0, e \notin left', callbacks[e] # <<>>
               PROVE  e \in InChains(stack')
    BY DEF Attended
  <2>1. CASE e = d
    <3>1. paused[d] = 1
      BY <1>1, <1>3, <2>1
    <3> QED BY <1>5, <2>1, <3>1
  <2>2. CASE e # d
    <3>1. paused[e] = 0 /\ e \notin left
      BY <1>3, <2>2
    <3> QED BY <1>5, <3>1 DEF IInv, Attended
  <2> QED BY <2>1, <2>2
<1> QED BY <1>5, <1>6, <1>7, <1>8, <1>9 DEF IInv

-----------------------------------------------------------------------------
(* The loop.  What it finds on top may run.                                *)
LEMMA EnteredReady ==
    ASSUME IInv, Entered
    PROVE  /\ Current \in Deferreds /\ called[Current] /\ ~running[Current]
           /\ result[Current] \in {"null", "val", "err"}
           /\ stack # <<>> /\ Top.type = "run"
<1>1. stack # <<>> /\ Top.type = "run" /\ (Top.fresh => paused[Current] = 0)
  BY DEF Entered, InLoop, Top
<1>2. /\ OnTop(Top, Tail(stack), Fired) /\ Current \in Deferreds /\ called[Current]
      /\ Current \in Members(Top) /\ Calling(stack) = Calling(Tail(stack))
  BY <1>1, TopOK DEF IInv
<1>3. ~running[Current]
  BY <1>1, <1>2 DEF IInv, StackInv, OnTop
<1>4. result[Current] # "deferred"
  <2>1. CASE Top.fresh
    <3>1. paused[Current] = 0 /\ userPauses[Current] \in Nat
      BY <1>1, <1>2, <2>1, DeferredAssumption DEF IInv, TypeOK
    <3> QED BY <1>2, <3>1 DEF IInv, Pauses
  <2>2. CASE ~Top.fresh
    BY <1>1, <2>2 DEF IInv, ReadyTop, Top, Current
  <2> QED BY <2>1, <2>2
<1>5. result[Current] # "empty" /\ result[Current] \in Values
  BY <1>2 DEF IInv, Results, TypeOK
<1> QED BY <1>1, <1>2, <1>3, <1>4, <1>5 DEF Values

LEMMA RunPausedStep ==
    ASSUME IInv, RunPaused
    PROVE  IInv'
<1> USE DEF RunPaused, objVars
<1>1. stack # <<>> /\ Top.type = "run" /\ Top.fresh /\ stack' = Tail(stack)
  BY DEF InLoop, Top
<1>2. /\ StackOK(Tail(stack), Fired) /\ OnTop(Top, Tail(stack), Fired)
      /\ Current \in Deferreds /\ Top.chain \in Seq(Deferreds) /\ Top.chain # <<>>
      /\ Calling(stack) = Calling(Tail(stack))
      /\ InChains(stack) = InChains(Tail(stack)) \union Members(Top)
  BY <1>1, TopOK DEF IInv
<1>3. Fired' = Fired
  BY DEF Fired
<1>4. StackInv' /\ ReadyTop(stack', result')
  <2>1. StackInv'
    BY <1>1, <1>2, <1>3 DEF IInv, StackInv
  <2>2. ReadyTop(stack', result')
    BY <1>1, <1>2 DEF OnTop, ReadyTop
  <2> QED BY <2>1, <2>2
<1>5. {Top.chain[i] : i \in 2..Len(Top.chain)} \subseteq Deferreds
  BY <1>2
<1>6. TypeOK'
  BY <1>1, <1>2, <1>5 DEF IInv, TypeOK, StackOK
<1>7. Results' /\ Pauses' /\ Woken' /\ Wakers'
  BY DEF IInv, Results, Pauses, Woken, Wakers
<1>8. Attended'
  <2> SUFFICES ASSUME NEW e \in Deferreds, called[e], paused[e] = 0, e \notin left', callbacks[e] # <<>>
               PROVE  e \in InChains(stack')
    BY DEF Attended
  <2>1. e \in InChains(stack)
    BY DEF IInv, Attended
  <2>2. ASSUME e \in Members(Top) PROVE FALSE
    <3>1. PICK i \in 1..Len(Top.chain) : e = Top.chain[i]
      BY <2>2 DEF Members
    <3>2. e # Current /\ Current = Top.chain[1]
      BY <1>2 DEF Current
    <3>3. i \in 2..Len(Top.chain)
      BY <1>2, <3>1, <3>2
    <3> QED BY <3>1, <3>3
  <2> QED BY <1>1, <1>2, <2>1, <2>2
<1> QED BY <1>4, <1>6, <1>7, <1>8 DEF IInv

LEMMA RunFinishedStep ==
    ASSUME IInv, RunFinished
    PROVE  IInv'
<1> USE DEF RunFinished, objVars
<1>1. stack # <<>> /\ Top.type = "run" /\ Current \in Deferreds
  BY EnteredReady
<1>2. /\ StackOK(Tail(stack), Fired) /\ OnTop(Top, Tail(stack), Fired)
      /\ Calling(stack) = Calling(Tail(stack))
      /\ InChains(stack) = InChains(Tail(stack)) \union Members(Top)
  BY <1>1, TopOK DEF IInv
<1>3. /\ StackOK(stack', Fired) /\ Calling(stack') = Calling(stack)
      /\ InChains(stack) \ {Current} \subseteq InChains(stack') /\ ReadyTop(stack', result')
  BY <1>1, <1>2, PopChainOK DEF Current
<1>4. Fired' = Fired
  BY DEF Fired
<1>5. StackInv'
  BY <1>3, <1>4 DEF IInv, StackInv
<1>6. TypeOK'
  BY <1>3 DEF IInv, TypeOK, StackOK
<1>7. Results' /\ Pauses' /\ Woken' /\ Wakers'
  BY DEF IInv, Results, Pauses, Woken, Wakers
<1>8. Attended'
  BY <1>3 DEF IInv, Attended
<1> QED BY <1>3, <1>5, <1>6, <1>7, <1>8 DEF IInv

(* The activation on top when it goes on with the same Deferred.           *)
LEMMA GoesOn ==
    ASSUME StackInv, stack # <<>>, Top.type = "run"
    PROVE  LET g == [Top EXCEPT !.fresh = FALSE]
           IN /\ OnTop(g, Tail(stack), Fired) /\ Members(g) = Members(Top)
              /\ g.type = "run" /\ g.fresh = FALSE /\ g.chain = Top.chain /\ g \in Frames
<1> DEFINE g == [Top EXCEPT !.fresh = FALSE]
<1>1. OnTop(Top, Tail(stack), Fired) /\ Top \in Frames /\ Top.chain # <<>>
  BY TopOK
<1>2. g \in Frames /\ g.type = "run" /\ g.fresh = FALSE /\ g.chain = Top.chain
  BY <1>1 DEF Frames
<1> HIDE DEF g
<1>3. Members(g) = Members(Top)
  BY <1>2 DEF Members
<1>4. OnTop(g, Tail(stack), Fired)
  BY <1>1, <1>2, <1>3 DEF OnTop
<1> QED BY <1>2, <1>3, <1>4 DEF g

LEMMA RunPassStep ==
    ASSUME IInv, RunPass
    PROVE  IInv'
<1> USE DEF RunPass
<1> DEFINE g == [Top EXCEPT !.fresh = FALSE]
           t == Tail(stack)
<1>1. stack # <<>> /\ Top.type = "run" /\ Current \in Deferreds /\ result[Current] # "deferred"
  BY EnteredReady
<1>2. /\ StackOK(t, Fired) /\ Calling(stack) = Calling(t)
      /\ InChains(stack) = InChains(t) \union Members(Top)
  BY <1>1, TopOK DEF IInv
<1>3. OnTop(g, t, Fired) /\ Members(g) = Members(Top) /\ g.type = "run" /\ g.chain = Top.chain
  BY <1>1, GoesOn DEF IInv
<1>4. stack' = <<g>> \o t
  OBVIOUS
<1> HIDE DEF g, t
<1>5. /\ StackOK(stack', Fired) /\ Calling(stack') = Calling(stack)
      /\ InChains(stack') = InChains(stack) /\ Head(stack') = g
  <2> DEFINE b == <<g>> \o t
  <2>1. /\ StackOK(b, Fired) /\ Calling(b) = Calling(t)
        /\ InChains(b) = InChains(t) \union Members(g) /\ Head(b) = g
    BY <1>2, <1>3, ReplaceOK
  <2>2. stack' = b
    BY <1>4
  <2> HIDE DEF b
  <2> QED BY <1>2, <1>3, <2>1, <2>2
<1>6. Fired' = Fired
  BY DEF Fired
<1>7. StackInv' /\ ReadyTop(stack', result')
  <2>1. StackInv'
    BY <1>5, <1>6 DEF IInv, StackInv
  <2>2. ReadyTop(stack', result')
    BY <1>1, <1>3, <1>5 DEF ReadyTop, Current
  <2> QED BY <2>1, <2>2
<1>8. Woken' /\ Wakers' /\ callbacks' \in [Deferreds -> Seq(Entries)]
  <2>1. callbacks[Current] # <<>> /\ Head(callbacks[Current]).kind # "cont"
    OBVIOUS
  <2> QED BY <1>1, <2>1, UserEntryTaken DEF IInv
<1>9. TypeOK'
  BY <1>5, <1>8 DEF IInv, TypeOK, StackOK
<1>10. Results' /\ Pauses'
  BY DEF IInv, Results, Pauses
<1>11. Attended'
  <2>1. \A e \in Deferreds : callbacks'[e] # <<>> => callbacks[e] # <<>>
    BY DEF IInv, TypeOK
  <2> QED BY <1>5, <2>1 DEF IInv, Attended
<1> QED BY <1>7, <1>8, <1>9, <1>10, <1>11 DEF IInv

LEMMA PushTwo ==
    ASSUME NEW x \in Frames, NEW g \in Frames, NEW t \in Seq(Frames)
    PROVE  <<x, g>> \o t = <<x>> \o (<<g>> \o t)
<1>1. <<x>> \in Seq(Frames) /\ <<g>> \in Seq(Frames)
  OBVIOUS
<1>2. (<<x>> \o <<g>>) \o t = <<x>> \o (<<g>> \o t)
  BY <1>1, ConcatAssociative
<1>3. <<x>> \o <<g>> = <<x, g>>
  <2> DEFINE r == <<x>> \o <<g>>
             q == <<x, g>>
  <2>1. r \in Seq(Frames) /\ Len(r) = 2 /\ r[1] = x /\ r[2] = g
    <3>1. <<g>> \in Seq(Frames) /\ Len(<<g>>) = 1 /\ <<g>>[1] = g
      OBVIOUS
    <3>2. /\ r \in Seq(Frames) /\ Len(r) = Len(<<g>>) + 1 /\ r[1] = x
          /\ \A i \in 1..Len(<<g>>) : r[i + 1] = <<g>>[i]
      BY <3>1, Push
    <3> HIDE DEF r
    <3>3. 1 \in 1..Len(<<g>>) /\ r[1 + 1] = g
      BY <3>1, <3>2
    <3> QED BY <3>1, <3>2, <3>3
  <2>2. q \in Seq(Frames) /\ Len(q) = 2 /\ q[1] = x /\ q[2] = g
    OBVIOUS
  <2> HIDE DEF r, q
  <2>3. \A i \in 1..Len(r) : r[i] = q[i]
    BY <2>1, <2>2
  <2>4. r = q
    BY <2>1, <2>2, <2>3, SeqEqual
  <2> QED BY <2>4 DEF r, q
<1> QED BY <1>2, <1>3

LEMMA RunEntryStep ==
    ASSUME IInv, RunEntry
    PROVE  IInv'
<1> USE DEF RunEntry
<1> DEFINE g == [Top EXCEPT !.fresh = FALSE]
           t == Tail(stack)
           b == <<g>> \o t
           x == Call(Current, result[Current])
<1>1. /\ stack # <<>> /\ Top.type = "run" /\ Current \in Deferreds /\ called[Current]
      /\ result[Current] \in {"null", "val", "err"}
  BY EnteredReady
<1>2. /\ StackOK(t, Fired) /\ Calling(stack) = Calling(t)
      /\ InChains(stack) = InChains(t) \union Members(Top)
  BY <1>1, TopOK DEF IInv
<1>3. OnTop(g, t, Fired) /\ Members(g) = Members(Top) /\ g.type = "run" /\ g.fresh = FALSE
      /\ g.chain = Top.chain /\ g \in Frames
  BY <1>1, GoesOn DEF IInv
<1>4. /\ x \in Frames /\ x.type = "call" /\ x.chain = <<Current>> /\ x.chain # <<>>
      /\ x.arg \in {"null", "val", "err"} /\ Head(x.chain) = Current
  BY <1>1 DEF Call, Frames, Values
<1>5. Members(x) = {Current}
  BY <1>4 DEF Members
<1>6. stack' = <<x, g>> \o t
  OBVIOUS
<1> HIDE DEF g, t, x
<1>7. stack' = <<x>> \o b
  BY <1>2, <1>3, <1>4, <1>6, PushTwo DEF StackOK
<1>8. /\ StackOK(b, Fired) /\ Calling(b) = Calling(t)
      /\ InChains(b) = InChains(t) \union Members(g) /\ Head(b) = g /\ b \in Seq(Frames)
  BY <1>2, <1>3, ReplaceOK
<1>9. b # <<>>
  BY <1>2, <1>3, Push DEF StackOK
<1> HIDE DEF b
<1>10. OnTop(x, b, Fired)
  <2>1. Current \in Fired /\ Head(g.chain) = Current
    BY <1>1, <1>3 DEF Fired, Current
  <2> QED BY <1>3, <1>4, <1>5, <1>8, <1>9, <2>1 DEF OnTop
<1>11. /\ StackOK(stack', Fired) /\ Calling(stack') = Calling(stack) \union {Current}
       /\ InChains(stack') = InChains(stack) /\ Head(stack') = x
  <2>1. StackOK(stack', Fired)
    BY <1>7, <1>8, <1>10, PushOK
  <2>2. Calling(stack') = Calling(stack) \union {Current}
    BY <1>2, <1>4, <1>7, <1>8, CallingPushed
  <2>3. InChains(stack') = InChains(stack)
    BY <1>2, <1>3, <1>4, <1>7, <1>8, InChainsPushed
  <2>4. Head(stack') = x
    BY <1>4, <1>7, <1>8, Push
  <2> QED BY <2>1, <2>2, <2>3, <2>4
<1>12. Fired' = Fired
  BY DEF Fired
<1>13. /\ running' \in [Deferreds -> BOOLEAN] /\ result' \in [Deferreds -> Values]
       /\ \A e \in Deferreds : running'[e] = (e = Current \/ running[e])
       /\ \A e \in Deferreds : result'[e] = IF e = Current THEN "null" ELSE result[e]
  BY <1>1 DEF IInv, TypeOK, Values
<1>14. StackInv' /\ ReadyTop(stack', result')
  <2>1. StackInv'
    BY <1>1, <1>11, <1>12, <1>13 DEF IInv, StackInv
  <2>2. ReadyTop(stack', result')
    BY <1>4, <1>11 DEF ReadyTop
  <2> QED BY <2>1, <2>2
<1>15. \A e \in Deferreds : result'[e] = "deferred" <=> result[e] = "deferred"
  BY <1>1, <1>13
<1>16. Woken' /\ Wakers' /\ callbacks' \in [Deferreds -> Seq(Entries)]
  <2>1. callbacks[Current] # <<>> /\ Head(callbacks[Current]).kind # "cont"
    OBVIOUS
  <2> QED BY <1>1, <1>15, <2>1, UserEntryTaken DEF IInv
<1>17. TypeOK'
  BY <1>11, <1>13, <1>16 DEF IInv, TypeOK, StackOK
<1>18. Results' /\ Pauses'
  <2>1. Results'
    BY <1>1, <1>13 DEF IInv, Results
  <2>2. Pauses'
    BY <1>15 DEF IInv, Pauses
  <2> QED BY <2>1, <2>2
<1>19. Attended'
  <2>1. \A e \in Deferreds : callbacks'[e] # <<>> => callbacks[e] # <<>>
    BY DEF IInv, TypeOK
  <2> QED BY <1>11, <2>1 DEF IInv, Attended
<1> QED BY <1>14, <1>16, <1>17, <1>18, <1>19 DEF IInv

(* A Continuation o of c: o gets the result and need no longer wait.       *)
LEMMA RunContinuationStep ==
    ASSUME IInv, RunContinuation
    PROVE  IInv'
<1> USE DEF RunContinuation
<1> DEFINE t == Tail(stack)
           c == Current
           entry == Head(callbacks[c])
           o == entry.of
           h == [Top EXCEPT !.chain = <<o>> \o @, !.fresh = TRUE]
           b == <<h>> \o t
<1>1. /\ stack # <<>> /\ Top.type = "run" /\ c \in Deferreds /\ called[c] /\ ~running[c]
      /\ result[c] \in {"null", "val", "err"}
  BY EnteredReady
<1>2. /\ StackOK(t, Fired) /\ Calling(stack) = Calling(t) /\ OnTop(Top, t, Fired)
      /\ InChains(stack) = InChains(t) \union Members(Top)
      /\ Top \in Frames /\ Top.chain \in Seq(Deferreds)
  BY <1>1, TopOK DEF IInv
<1>3. /\ entry.kind = "cont" /\ callbacks[c] # <<>> /\ stack' = b
      /\ callbacks' = [callbacks EXCEPT ![c] = Tail(@)]
      /\ result' = [result EXCEPT ![o] = result[c], ![c] = "null"]
      /\ waitsFor' = [waitsFor EXCEPT ![o] = 0] /\ paused' = [paused EXCEPT ![o] = @ - 1]
      /\ UNCHANGED <<called, suppress, running, userPauses, left, added>>
  OBVIOUS
<1> HIDE DEF b, h, entry, RunContinuation
<1>4. /\ callbacks' \in [Deferreds -> Seq(Entries)] /\ entry \in Entries
      /\ OthersWoken(entry, callbacks') /\ OtherWakers(entry, c, callbacks')
  BY <1>1, <1>3, EntryTaken DEF IInv, entry
<1>5. o \in Deferreds /\ entry = Continuation(o)
  BY <1>3, <1>4 DEF Entries, Continuation
<1>6. result[o] = "deferred" /\ waitsFor[o] = c
  <2>1. 1 \in 1..Len(callbacks[c]) /\ callbacks[c][1] = entry
    BY <1>1, <1>3 DEF IInv, TypeOK, entry
  <2> QED BY <1>1, <1>3, <2>1 DEF IInv, Wakers
<1>7. o # c /\ called[o] /\ ~running[o]
  BY <1>1, <1>5, <1>6 DEF IInv, Results
<1> HIDE DEF o, c
<1>8. /\ h \in Frames /\ h.type = "run" /\ h.fresh = TRUE /\ h.chain = <<o>> \o Top.chain
      /\ Members(h) = Members(Top) \union {o} /\ h.chain # <<>>
  <2> DEFINE q == Top.chain
             w == <<o>> \o q
  <2>1. <<o>> \in Seq(Deferreds) /\ Len(<<o>>) = 1 /\ <<o>>[1] = o
    BY <1>5
  <2>2. /\ w \in Seq(Deferreds) /\ Len(w) = 1 + Len(q) /\ Len(q) \in Nat
        /\ \A i \in 1..(1 + Len(q)) : w[i] = IF i <= 1 THEN <<o>>[i] ELSE q[i - 1]
    BY <1>2, <2>1, ConcatProperties
  <2>3. h.type = "run" /\ h.fresh = TRUE /\ h.chain = w /\ h \in Frames
    BY <1>1, <1>2, <2>2 DEF h, Frames
  <2> HIDE DEF w, q
  <2>4. w[1] = o /\ \A i \in 1..Len(q) : i + 1 \in 1..Len(w) /\ w[i + 1] = q[i]
    <3>1. w[1] = o
      BY <2>1, <2>2
    <3>2. ASSUME NEW i \in 1..Len(q) PROVE i + 1 \in 1..Len(w) /\ w[i + 1] = q[i]
      <4>1. i + 1 \in 1..(1 + Len(q)) /\ ~(i + 1 <= 1) /\ (i + 1) - 1 = i
        BY <2>2
      <4> QED BY <2>2, <4>1
    <3> QED BY <3>1, <3>2
  <2>5. ASSUME NEW i \in 1..Len(w) PROVE w[i] = o \/ w[i] \in Members(Top)
    <3>1. CASE i = 1
      BY <2>4, <3>1
    <3>2. CASE i # 1
      <4>1. i - 1 \in 1..Len(q) /\ (i - 1) + 1 = i
        BY <2>2, <3>2
      <4>2. w[i] = q[i - 1]
        BY <2>4, <4>1
      <4> QED BY <4>1, <4>2 DEF Members, q
    <3> QED BY <3>1, <3>2
  <2>6. o \in Members(h) /\ Members(Top) \subseteq Members(h)
    <3>1. 1 \in 1..Len(w)
      BY <2>2
    <3> QED BY <2>3, <2>4, <3>1 DEF Members, q
  <2>7. Members(h) \subseteq Members(Top) \union {o}
    BY <2>3, <2>5 DEF Members
  <2>8. h.chain # <<>>
    BY <2>2, <2>3
  <2> QED BY <2>3, <2>6, <2>7, <2>8 DEF w, q
<1>9. OnTop(h, t, Fired)
  <2>1. o \in Fired /\ o \notin Calling(t)
    BY <1>2, <1>5, <1>7 DEF IInv, StackInv, Fired
  <2> QED BY <1>1, <1>2, <1>8, <2>1 DEF OnTop
<1>10. /\ StackOK(b, Fired) /\ Calling(b) = Calling(t)
       /\ InChains(b) = InChains(t) \union Members(h) /\ Head(b) = h
  BY <1>2, <1>8, <1>9, ReplaceOK DEF b
<1>11. Fired' = Fired
  BY <1>3 DEF Fired
<1>12. StackInv' /\ ReadyTop(stack', result') /\ InChains(stack') = InChains(stack) \union {o}
  <2>1. StackInv'
    BY <1>2, <1>3, <1>10, <1>11 DEF IInv, StackInv
  <2>2. ReadyTop(stack', result')
    BY <1>3, <1>8, <1>10 DEF ReadyTop
  <2>3. InChains(stack') = InChains(stack) \union {o}
    BY <1>2, <1>3, <1>8, <1>10
  <2> QED BY <2>1, <2>2, <2>3
<1>13. /\ \A e \in Deferreds : result'[e] = IF e = c THEN "null" ELSE IF e = o THEN result[c] ELSE result[e]
       /\ \A e \in Deferreds : waitsFor'[e] = IF e = o THEN 0 ELSE waitsFor[e]
       /\ \A e \in Deferreds : paused'[e] = IF e = o THEN paused[e] - 1 ELSE paused[e]
       /\ paused[o] = userPauses[o] + 1 /\ userPauses[o] \in Nat /\ paused[o] \in Nat
       /\ result' \in [Deferreds -> Values] /\ waitsFor' \in [Deferreds -> 0..N]
       /\ paused' \in [Deferreds -> Nat]
  <2>1. result \in [Deferreds -> Values] /\ waitsFor \in [Deferreds -> 0..N]
        /\ paused \in [Deferreds -> Nat] /\ result[c] \in Values
    BY <1>1 DEF IInv, TypeOK, Values
  <2>2. \A e \in Deferreds : result'[e] = IF e = c THEN "null" ELSE IF e = o THEN result[c] ELSE result[e]
    BY <1>3, <1>7, <2>1
  <2>3. result' \in [Deferreds -> Values]
    BY <1>1, <1>3, <2>1 DEF Values
  <2>4. /\ \A e \in Deferreds : waitsFor'[e] = IF e = o THEN 0 ELSE waitsFor[e]
        /\ \A e \in Deferreds : paused'[e] = IF e = o THEN paused[e] - 1 ELSE paused[e]
    BY <1>3, <2>1
  <2>5. waitsFor' \in [Deferreds -> 0..N]
    <3>1. 0 \in 0..N
      BY DeferredAssumption
    <3> QED BY <1>3, <2>1, <3>1
  <2>6. paused[o] = userPauses[o] + 1 /\ userPauses[o] \in Nat /\ paused[o] \in Nat
    BY <1>5, <1>6, <2>1, DeferredAssumption DEF IInv, Pauses, TypeOK
  <2>7. paused' \in [Deferreds -> Nat]
    <3>1. paused[o] - 1 \in Nat
      BY <2>6
    <3> QED BY <1>3, <2>1, <3>1
  <2> QED BY <2>2, <2>3, <2>4, <2>5, <2>6, <2>7
<1>14. TypeOK'
  BY <1>3, <1>4, <1>10, <1>13 DEF IInv, TypeOK, StackOK
<1>15. Results'
  BY <1>1, <1>3, <1>5, <1>7, <1>13 DEF IInv, Results
<1>16. Pauses'
  <2> SUFFICES ASSUME NEW e \in Deferreds
               PROVE  paused'[e] = userPauses[e] + (IF result'[e] = "deferred" THEN 1 ELSE 0)
    BY <1>3 DEF Pauses
  <2>1. CASE e = o
    BY <1>1, <1>7, <1>13, <2>1
  <2>2. CASE e = c
    BY <1>1, <1>7, <1>13, <2>2 DEF IInv, Pauses
  <2>3. CASE e # o /\ e # c
    BY <1>13, <2>3 DEF IInv, Pauses
  <2> QED BY <2>1, <2>2, <2>3
<1>17. Woken'
  <2> SUFFICES ASSUME NEW e \in Deferreds, result'[e] = "deferred"
               PROVE  WillWake(e, waitsFor'[e], callbacks')
    BY DEF Woken
  <2>1. e # o /\ e # c /\ result[e] = "deferred" /\ waitsFor'[e] = waitsFor[e]
    BY <1>1, <1>7, <1>13
  <2>2. entry # Continuation(e)
    BY <1>5, <2>1 DEF Continuation
  <2> QED BY <1>4, <2>1, <2>2 DEF OthersWoken
<1>18. Wakers'
  <2>1. ASSUME NEW e \in Deferreds, NEW i \in 1..Len(callbacks'[e]), callbacks'[e][i].kind = "cont"
        PROVE  /\ result'[callbacks'[e][i].of] = "deferred" /\ waitsFor'[callbacks'[e][i].of] = e
               /\ OnlyWaker(e, i, callbacks')
    <3> DEFINE cs == callbacks'
               k == cs[e][i]
    <3>1. OtherWakers(entry, c, cs) /\ i \in 1..Len(cs[e]) /\ cs[e][i].kind = "cont"
      BY <1>4, <2>1
    <3>2. k \in Entries
      BY <1>4, <2>1
    <3> HIDE DEF cs
    <3>3. /\ result[k.of] = "deferred" /\ waitsFor[k.of] = e /\ k.of \in Deferreds
          /\ (e = c => k # entry) /\ OnlyWaker(e, i, cs)
      BY <3>1, OtherWaker
    <3>4. k = Continuation(k.of)
      BY <3>1, <3>2 DEF Entries, Continuation
    <3> HIDE DEF k
    <3>5. k.of # c /\ k.of # o
      BY <1>1, <1>5, <1>6, <3>3, <3>4
    <3>6. result'[k.of] = "deferred" /\ waitsFor'[k.of] = e
      BY <1>13, <3>3, <3>5
    <3> QED BY <3>3, <3>6 DEF cs, k
  <2> QED BY <2>1 DEF Wakers
<1>19. Attended'
  <2> SUFFICES ASSUME NEW e \in Deferreds, called[e], paused'[e] = 0, e \notin left, callbacks'[e] # <<>>
               PROVE  e \in InChains(stack')
    BY <1>3 DEF Attended
  <2>1. CASE e = o
    BY <1>12, <2>1
  <2>2. CASE e # o
    <3>1. callbacks[e] # <<>>
      BY <1>1, <1>3 DEF IInv, TypeOK
    <3>2. paused[e] = 0
      BY <1>13, <2>2
    <3> QED BY <1>12, <3>1, <3>2 DEF IInv, Attended
  <2> QED BY <2>1, <2>2
<1> QED BY <1>12, <1>14, <1>15, <1>16, <1>17, <1>18, <1>19 DEF IInv

-----------------------------------------------------------------------------
(* What is known when a callback returns.                                  *)
LEMMA ReturnTop ==
    ASSUME IInv, InCallback
    PROVE  LET t == Tail(stack)
               f == Head(t)
           IN /\ stack # <<>> /\ t # <<>> /\ Current \in Deferreds /\ called[Current]
              /\ result[Current] # "deferred" /\ result[Current] # "empty"
              /\ f.type = "run" /\ Head(f.chain) = Current /\ ~f.fresh /\ f = stack[2]
              /\ StackOK(t, Fired) /\ StackOK(Tail(t), Fired) /\ OnTop(f, Tail(t), Fired)
              /\ Calling(stack) = Calling(t) \union {Current} /\ Current \notin Calling(t)
              /\ Calling(t) = Calling(Tail(t))
              /\ InChains(stack) = InChains(t)
              /\ InChains(t) = InChains(Tail(t)) \union Members(f)
<1> DEFINE t == Tail(stack)
           f == Head(t)
<1>1. stack # <<>> /\ Top.type = "call" /\ StackInv
  BY DEF InCallback, Top, IInv
<1>2. /\ StackOK(t, Fired) /\ OnTop(Top, t, Fired) /\ Current \in Deferreds /\ called[Current]
      /\ Calling(stack) = Calling(t) \union {Current} /\ InChains(stack) = InChains(t)
  BY <1>1, TopOK
<1>3. running[Current]
  BY <1>1, <1>2 DEF StackInv
<1>4. result[Current] # "deferred" /\ result[Current] # "empty"
  BY <1>2, <1>3 DEF IInv, Results
<1>5. t # <<>> /\ f.type = "run" /\ ~f.fresh /\ Head(f.chain) = Current
  BY <1>1, <1>2 DEF OnTop, Current
<1>6. f = stack[2]
  <2>1. stack \in Seq(Frames)
    BY <1>1 DEF StackInv, StackOK
  <2>2. /\ t \in Seq(Frames) /\ Len(t) \in Nat
        /\ \A i \in 1..Len(t) : t[i] = stack[i + 1]
    BY <1>1, <2>1, Pop
  <2> HIDE DEF t
  <2>3. f = t[1] /\ 1 \in 1..Len(t)
    BY <1>5, <2>2
  <2>4. t[1] = stack[1 + 1]
    BY <2>2, <2>3
  <2> QED BY <2>3, <2>4
<1> HIDE DEF t
<1>7. StackOK(Tail(t), Fired) /\ OnTop(f, Tail(t), Fired) /\ t = <<f>> \o Tail(t)
  BY <1>2, <1>5, PopOK
<1> HIDE DEF f
<1>8. f \in Frames /\ f.chain # <<>> /\ Tail(t) \in Seq(Frames)
  BY <1>7 DEF OnTop, StackOK
<1>9. Calling(t) = Calling(Tail(t)) /\ InChains(t) = InChains(Tail(t)) \union Members(f)
  <2> DEFINE q == Tail(t)
  <2>1. q \in Seq(Frames) /\ t = <<f>> \o q
    BY <1>7, <1>8
  <2> HIDE DEF q
  <2>2. Calling(<<f>> \o q) = Calling(q)
    BY <1>5, <1>8, <2>1, CallingPushed
  <2>3. InChains(<<f>> \o q) = InChains(q) \union Members(f)
    BY <1>5, <1>8, <2>1, InChainsPushed
  <2> QED BY <2>1, <2>2, <2>3 DEF q
<1>10. Current \notin Calling(t)
  <2>1. Current \in Members(f)
    BY <1>5, <1>8, HeadIsMember
  <2> QED BY <1>5, <1>7, <1>9, <2>1 DEF OnTop
<1> QED BY <1>1, <1>2, <1>4, <1>5, <1>6, <1>7, <1>9, <1>10 DEF t, f

(* The parts of the invariant that no returning value disturbs.            *)
LEMMA ReturnStep ==
    ASSUME IInv, InCallback, stack' = Tail(stack),
           running' = [running EXCEPT ![Current] = FALSE],
           result' \in [Deferreds -> Values],
           \A d \in Deferreds : /\ result'[d] = "deferred" <=> result[d] = "deferred"
                                /\ result'[d] = "empty" <=> result[d] = "empty",
           UNCHANGED <<called, suppress, paused, callbacks, waitsFor, userPauses, left, added>>
    PROVE  IInv'
<1> DEFINE t == Tail(stack)
           c == Current
<1>1. /\ t # <<>> /\ c \in Deferreds /\ result[c] # "deferred"
      /\ Head(Head(t).chain) = c /\ StackOK(t, Fired)
      /\ Calling(stack) = Calling(t) \union {c} /\ c \notin Calling(t)
      /\ InChains(stack) = InChains(t)
  BY ReturnTop
<1>2. stack' = t
  OBVIOUS
<1> HIDE DEF t, c
<1>3. \A d \in Deferreds : running'[d] = (d # c /\ running[d])
  BY <1>1 DEF IInv, TypeOK, c
<1>4. running' \in [Deferreds -> BOOLEAN]
  BY <1>1 DEF IInv, TypeOK, c
<1>5. Fired' = Fired
  BY DEF Fired
<1>6. StackInv'
  BY <1>1, <1>2, <1>3, <1>5 DEF IInv, StackInv
<1>7. ReadyTop(stack', result')
  BY <1>1, <1>2 DEF ReadyTop
<1>8. TypeOK'
  BY <1>1, <1>2, <1>4 DEF IInv, TypeOK, StackOK
<1>9. Results' /\ Pauses'
  <2>1. Results'
    BY <1>3 DEF IInv, Results
  <2>2. Pauses'
    BY DEF IInv, Pauses
  <2> QED BY <2>1, <2>2
<1>10. Woken'
  BY DEF IInv, Woken
<1>11. Wakers'
  <2> SUFFICES ASSUME NEW e \in Deferreds, NEW i \in 1..Len(callbacks[e]),
                      callbacks[e][i].kind = "cont"
               PROVE  /\ result'[callbacks[e][i].of] = "deferred"
                      /\ waitsFor[callbacks[e][i].of] = e /\ OnlyWaker(e, i, callbacks)
    BY DEF Wakers, OnlyWaker
  <2>1. /\ result[callbacks[e][i].of] = "deferred" /\ waitsFor[callbacks[e][i].of] = e
        /\ OnlyWaker(e, i, callbacks)
    BY DEF IInv, Wakers
  <2>2. callbacks[e][i] \in Entries
    BY DEF IInv, TypeOK
  <2>3. callbacks[e][i].of \in Deferreds
    BY <2>2 DEF Entries
  <2> QED BY <2>1, <2>3
<1>12. Attended'
  BY <1>1, <1>2 DEF IInv, Attended
<1> QED BY <1>6, <1>7, <1>8, <1>9, <1>10, <1>11, <1>12 DEF IInv

LEMMA ReturnValueStep ==
    ASSUME IInv, NEW v \in {"val", "err"}, ReturnValue(v)
    PROVE  IInv'
<1> USE DEF ReturnValue
<1>1. Current \in Deferreds /\ result[Current] # "deferred" /\ result[Current] # "empty"
  BY ReturnTop
<1>2. result \in [Deferreds -> Values] /\ v \in Values
  BY DEF IInv, TypeOK, Values
<1>3. \A d \in Deferreds : result'[d] = IF d = Current THEN v ELSE result[d]
  BY <1>1, <1>2
<1>4. result' \in [Deferreds -> Values]
  BY <1>1, <1>2
<1>5. \A d \in Deferreds : /\ result'[d] = "deferred" <=> result[d] = "deferred"
                           /\ result'[d] = "empty" <=> result[d] = "empty"
  BY <1>1, <1>3
<1> QED BY <1>4, <1>5, ReturnStep

LEMMA ReturnFiredStep ==
    ASSUME IInv, NEW e \in Deferreds, ReturnFired(e)
    PROVE  IInv'
<1> USE DEF ReturnFired
<1>1. Current \in Deferreds /\ result[Current] # "deferred" /\ result[Current] # "empty"
  BY ReturnTop
<1>2. result \in [Deferreds -> Values] /\ "null" \in Values
  BY DEF IInv, TypeOK, Values
<1>3. result[e] # "deferred" /\ result[e] # "empty"
  BY DEF NoResultYet
<1>4. \A d \in Deferreds : result'[d] = IF d = e \/ d = Current THEN "null" ELSE result[d]
  BY <1>1, <1>2
<1>5. result' \in [Deferreds -> Values]
  BY <1>1, <1>2
<1>6. \A d \in Deferreds : /\ result'[d] = "deferred" <=> result[d] = "deferred"
                           /\ result'[d] = "empty" <=> result[d] = "empty"
  <2> TAKE d \in Deferreds
  <2>1. CASE d = e \/ d = Current
    <3>1. result'[d] = "null"
      BY <1>4, <2>1
    <3>2. result[d] # "deferred" /\ result[d] # "empty"
      BY <1>1, <1>3, <2>1
    <3> QED BY <3>1, <3>2
  <2>2. CASE ~(d = e \/ d = Current)
    <3>1. result'[d] = result[d]
      BY <1>4, <2>2
    <3> QED BY <3>1
  <2> QED BY <2>1, <2>2
<1> QED BY <1>5, <1>6, ReturnStep

(* c comes to wait for e, whose callbacks get a Continuation of c.         *)
LEMMA ReturnPendingStep ==
    ASSUME IInv, NEW e \in Deferreds, ReturnPending(e)
    PROVE  IInv'
<1> DEFINE t == Tail(stack)
           c == Current
           f == Head(t)
           k == Continuation(c)
           l == callbacks[e]
           a == Append(l, k)
<1>1. /\ c \in Deferreds /\ called[c] /\ result[c] # "deferred" /\ result[c] # "empty"
      /\ f.type = "run" /\ Head(f.chain) = c /\ f = stack[2]
      /\ StackOK(Tail(t), Fired) /\ OnTop(f, Tail(t), Fired)
      /\ Calling(stack) = Calling(t) \union {c} /\ c \notin Calling(t)
      /\ Calling(t) = Calling(Tail(t)) /\ InChains(stack) = InChains(t)
      /\ InChains(t) = InChains(Tail(t)) \union Members(f)
  BY ReturnTop DEF ReturnPending
<1>2. /\ e > c /\ NoResultYet(e) /\ stack' = PopChain(stack[2], Tail(t))
      /\ running' = [running EXCEPT ![c] = FALSE]
      /\ result' = [result EXCEPT ![c] = "deferred"]
      /\ waitsFor' = [waitsFor EXCEPT ![c] = e] /\ paused' = [paused EXCEPT ![c] = @ + 1]
      /\ callbacks' = [callbacks EXCEPT ![e] = a]
      /\ UNCHANGED <<called, suppress, userPauses, left, added>>
  BY DEF ReturnPending
<1> HIDE DEF t, c, f
<1>3. e # c /\ c \in 1..N /\ e \in 1..N
  BY <1>1, <1>2, DeferredAssumption DEF Deferreds
<1>4. /\ StackOK(stack', Fired) /\ Calling(stack') = Calling(t)
      /\ InChains(stack) \ {c} \subseteq InChains(stack') /\ ReadyTop(stack', result')
  <2> DEFINE q == Tail(t)
             p == PopChain(f, q)
  <2>1. /\ StackOK(p, Fired) /\ Calling(p) = Calling(q)
        /\ InChains(q) \union (Members(f) \ {Head(f.chain)}) \subseteq InChains(p)
        /\ \A res : ReadyTop(p, res)
    BY <1>1, PopChainOK
  <2>2. stack' = p
    BY <1>1, <1>2
  <2> HIDE DEF p
  <2>3. InChains(stack) \ {c} \subseteq InChains(stack')
    BY <1>1, <2>1, <2>2
  <2> QED BY <1>1, <2>1, <2>2, <2>3
<1>5. Fired' = Fired
  BY <1>2 DEF Fired
<1>6. /\ \A d \in Deferreds : running'[d] = (d # c /\ running[d])
      /\ running' \in [Deferreds -> BOOLEAN]
  BY <1>1, <1>2 DEF IInv, TypeOK
<1>7. StackInv'
  BY <1>1, <1>4, <1>5, <1>6 DEF IInv, StackInv
<1>8. /\ \A d \in Deferreds : result'[d] = IF d = c THEN "deferred" ELSE result[d]
      /\ \A d \in Deferreds : waitsFor'[d] = IF d = c THEN e ELSE waitsFor[d]
      /\ \A d \in Deferreds : paused'[d] = IF d = c THEN paused[d] + 1 ELSE paused[d]
      /\ \A d \in Deferreds : paused[d] \in Nat /\ userPauses[d] \in Nat
      /\ result' \in [Deferreds -> Values] /\ waitsFor' \in [Deferreds -> 0..N]
      /\ paused' \in [Deferreds -> Nat]
  <2>1. result \in [Deferreds -> Values] /\ waitsFor \in [Deferreds -> 0..N]
        /\ paused \in [Deferreds -> Nat] /\ "deferred" \in Values
    BY DEF IInv, TypeOK, Values
  <2>2. /\ \A d \in Deferreds : result'[d] = IF d = c THEN "deferred" ELSE result[d]
        /\ \A d \in Deferreds : waitsFor'[d] = IF d = c THEN e ELSE waitsFor[d]
        /\ \A d \in Deferreds : paused'[d] = IF d = c THEN paused[d] + 1 ELSE paused[d]
    BY <1>2, <2>1
  <2>3. \A d \in Deferreds : paused[d] \in Nat /\ userPauses[d] \in Nat
    BY DeferredAssumption DEF IInv, TypeOK
  <2>4. result' \in [Deferreds -> Values]
    BY <1>1, <1>2, <2>1
  <2>5. waitsFor' \in [Deferreds -> 0..N]
    <3>1. e \in 0..N
      BY <1>3, DeferredAssumption
    <3> QED BY <1>1, <1>2, <2>1, <3>1
  <2>6. paused' \in [Deferreds -> Nat]
    <3>1. paused[c] + 1 \in Nat
      BY <1>1, <2>3
    <3> QED BY <1>1, <1>2, <2>1, <3>1
  <2> QED BY <2>2, <2>3, <2>4, <2>5, <2>6
<1>9. /\ k \in Entries /\ k.kind = "cont" /\ k.of = c
      /\ \A d : k = Continuation(d) => d = c
  BY <1>1 DEF Continuation, Entries
<1>10. callbacks \in [Deferreds -> Seq(Entries)] /\ l \in Seq(Entries)
  BY DEF IInv, TypeOK
<1> HIDE DEF k, l
<1>11. /\ a \in Seq(Entries) /\ Len(l) \in Nat /\ Len(a) = Len(l) + 1 /\ a[Len(l) + 1] = k
       /\ \A i \in 1..Len(l) : a[i] = l[i]
  BY <1>9, <1>10
<1> HIDE DEF a
<1>12. /\ \A d \in Deferreds : callbacks'[d] = IF d = e THEN a ELSE callbacks[d]
       /\ callbacks' \in [Deferreds -> Seq(Entries)]
  BY <1>2, <1>10, <1>11
<1>13. TypeOK'
  BY <1>2, <1>4, <1>6, <1>8, <1>12 DEF IInv, TypeOK, StackOK
<1>14. Results'
  BY <1>1, <1>2, <1>6, <1>8 DEF IInv, Results
<1>15. Pauses'
  <2> SUFFICES ASSUME NEW d \in Deferreds
               PROVE  paused'[d] = userPauses[d] + (IF result'[d] = "deferred" THEN 1 ELSE 0)
    BY <1>2 DEF Pauses
  <2>1. paused[d] = userPauses[d] + (IF result[d] = "deferred" THEN 1 ELSE 0)
    BY DEF IInv, Pauses
  <2>2. CASE d = c
    BY <1>1, <1>8, <2>1, <2>2
  <2>3. CASE d # c
    BY <1>8, <2>1, <2>3
  <2> QED BY <2>2, <2>3
<1>16. Woken'
  <2> SUFFICES ASSUME NEW d \in Deferreds, result'[d] = "deferred"
               PROVE  WillWake(d, waitsFor'[d], callbacks')
    BY DEF Woken
  <2>1. CASE d = c
    <3>1. waitsFor'[d] = e /\ callbacks'[e] = a
      BY <1>8, <1>12, <2>1
    <3>2. Len(l) + 1 \in 1..Len(a) /\ a[Len(l) + 1] = Continuation(d)
      BY <1>11, <2>1 DEF k
    <3> QED BY <1>3, <2>1, <3>1, <3>2 DEF WillWake
  <2>2. CASE d # c
    <3> DEFINE w == waitsFor[d]
    <3>1. WillWake(d, w, callbacks) /\ waitsFor'[d] = w
      BY <1>8, <2>2 DEF IInv, Woken
    <3>2. PICK i \in 1..Len(callbacks[w]) : callbacks[w][i] = Continuation(d)
      BY <3>1 DEF WillWake
    <3>3. w \in Deferreds /\ w # d
      BY <3>1 DEF WillWake
    <3> HIDE DEF w
    <3>4. CASE w = e
      <4>1. i \in 1..Len(a) /\ a[i] = Continuation(d)
        BY <1>11, <3>2, <3>4 DEF l
      <4> QED BY <1>12, <3>1, <3>3, <3>4, <4>1 DEF WillWake
    <3>5. CASE w # e
      BY <1>12, <3>1, <3>2, <3>3, <3>5 DEF WillWake
    <3> QED BY <3>4, <3>5
  <2> QED BY <2>1, <2>2
<1>17. ASSUME NEW d \in Deferreds, NEW i \in 1..Len(callbacks[d]), callbacks[d][i].kind = "cont"
       PROVE  /\ result'[callbacks[d][i].of] = "deferred" /\ waitsFor'[callbacks[d][i].of] = d
              /\ OnlyWaker(d, i, callbacks) /\ callbacks[d][i] # k
  <2>1. /\ result[callbacks[d][i].of] = "deferred" /\ waitsFor[callbacks[d][i].of] = d
        /\ OnlyWaker(d, i, callbacks)
    BY <1>17 DEF IInv, Wakers
  <2>2. callbacks[d][i] \in Entries
    BY <1>10
  <2>3. callbacks[d][i].of \in Deferreds
    BY <1>17, <2>2 DEF Entries
  <2>4. callbacks[d][i].of # c
    BY <1>1, <2>1
  <2>5. callbacks[d][i] # k
    BY <1>9, <2>4
  <2> QED BY <1>8, <2>1, <2>3, <2>4, <2>5
<1>18. Wakers'
  <2>1. ASSUME NEW d \in Deferreds, NEW i \in 1..Len(callbacks'[d]), callbacks'[d][i].kind = "cont"
        PROVE  /\ result'[callbacks'[d][i].of] = "deferred" /\ waitsFor'[callbacks'[d][i].of] = d
               /\ OnlyWaker(d, i, callbacks')
    <3>1. CASE d # e
      <4>1. callbacks'[d] = callbacks[d]
        BY <1>12, <3>1
      <4>2. i \in 1..Len(callbacks[d]) /\ callbacks[d][i].kind = "cont"
        BY <2>1, <4>1
      <4> QED BY <1>17, <4>1, <4>2 DEF OnlyWaker
    <3>2. CASE d = e /\ i = Len(l) + 1
      <4>1. callbacks'[d] = a /\ a[i] = k
        BY <1>11, <1>12, <3>2
      <4>2. result'[k.of] = "deferred" /\ waitsFor'[k.of] = e
        BY <1>1, <1>8, <1>9
      <4>3. ASSUME NEW j \in 1..Len(a), a[j] = k PROVE i = j
        <5> SUFFICES ASSUME j # Len(l) + 1 PROVE FALSE
          BY <3>2
        <5>1. j \in 1..Len(callbacks[e]) /\ callbacks[e][j] = k
          BY <1>11, <4>3 DEF l
        <5> QED BY <1>9, <1>17, <5>1
      <4> QED BY <3>2, <4>1, <4>2, <4>3 DEF OnlyWaker
    <3>3. CASE d = e /\ i # Len(l) + 1
      <4>1. callbacks'[d] = a
        BY <1>12, <3>3
      <4>2. i \in 1..Len(l) /\ a[i] = l[i] /\ l[i].kind = "cont"
        BY <1>11, <2>1, <3>3, <4>1
      <4>3. /\ result'[l[i].of] = "deferred" /\ waitsFor'[l[i].of] = e
            /\ OnlyWaker(e, i, callbacks) /\ l[i] # k
        BY <1>17, <4>2 DEF l
      <4>4. ASSUME NEW j \in 1..Len(a), a[j] = l[i] PROVE i = j
        <5>1. j # Len(l) + 1
          BY <1>11, <4>3, <4>4
        <5>2. j \in 1..Len(l) /\ a[j] = l[j]
          BY <1>11, <5>1
        <5> QED BY <4>3, <4>4, <5>2 DEF OnlyWaker, l
      <4> QED BY <3>3, <4>1, <4>2, <4>3, <4>4 DEF OnlyWaker
    <3> QED BY <3>1, <3>2, <3>3
  <2> QED BY <2>1 DEF Wakers
<1>19. Attended'
  <2> SUFFICES ASSUME NEW d \in Deferreds, called[d], paused'[d] = 0, d \notin left, callbacks'[d] # <<>>
               PROVE  d \in InChains(stack')
    BY <1>2 DEF Attended
  <2>1. d # c
    <3>1. paused[c] + 1 # 0
      BY <1>1, <1>8
    <3> QED BY <1>1, <1>8, <3>1
  <2>2. paused[d] = 0
    BY <1>8, <2>1
  <2>3. d # e
    <3>1. result[e] = "empty" => ~called[e]
      BY DEF IInv, Results
    <3>2. result[e] = "deferred" => paused[e] # 0
      BY <1>8 DEF IInv, Pauses
    <3> SUFFICES ASSUME d = e PROVE FALSE
      OBVIOUS
    <3>3. ~(paused[e] > 0)
      BY <2>2
    <3> QED BY <1>2, <2>2, <3>1, <3>2, <3>3 DEF NoResultYet
  <2>4. callbacks[d] # <<>>
    BY <1>12, <2>3
  <2> QED BY <1>4, <2>1, <2>2, <2>4 DEF IInv, Attended
<1> QED BY <1>4, <1>7, <1>13, <1>14, <1>15, <1>16, <1>18, <1>19 DEF IInv

-----------------------------------------------------------------------------
LEMMA CancelStep ==
    ASSUME IInv, NEW d \in Deferreds, Cancel(d)
    PROVE  IInv'
<1> DEFINE v(t) == IF Cancellers[t] = "fires" THEN "val" ELSE "err"
<1>1. PICK t \in Deferreds :
         /\ AppTurn /\ ~called[t] /\ StartRunCallbacks(t, v(t))
         /\ suppress' = [suppress EXCEPT ![t] = (Cancellers[t] = "none")]
  BY DEF Cancel
<1>2. v(t) \in {"val", "err"}
  OBVIOUS
<1>3. suppress' \in [Deferreds -> BOOLEAN]
  BY <1>1 DEF IInv, TypeOK
<1> HIDE DEF v
<1> QED BY <1>1, <1>2, <1>3, StartStep

LEMMA NextInv == IInv /\ [Next]_vars => IInv'
<1> SUFFICES ASSUME IInv, [Next]_vars PROVE IInv'
  OBVIOUS
<1>1. ASSUME NEW d \in Deferreds, NEW k \in {"ok", "err", "both"}, AddCallback(d, k) PROVE IInv'
  BY <1>1, AddCallbackStep
<1>2. ASSUME NEW d \in Deferreds, NEW v \in {"val", "err"}, Fire(d, v) PROVE IInv'
  <2>1. AppTurn /\ ~called[d] /\ StartRunCallbacks(d, v) /\ suppress' \in [Deferreds -> BOOLEAN]
    BY <1>2 DEF Fire, IInv, TypeOK
  <2> QED BY <2>1, StartStep
<1>3. ASSUME NEW d \in Deferreds, FireLate(d) PROVE IInv'
  BY <1>3, FireLateStep
<1>4. ASSUME NEW d \in Deferreds, Pause(d) PROVE IInv'
  BY <1>4, PauseStep
<1>5. ASSUME NEW d \in Deferreds, Unpause(d) PROVE IInv'
  BY <1>5, UnpauseStep
<1>6. ASSUME NEW d \in Deferreds, Cancel(d) PROVE IInv'
  BY <1>6, CancelStep
<1>7. ASSUME Loop PROVE IInv'
  BY <1>7, RunPausedStep, RunFinishedStep, RunContinuationStep, RunPassStep, RunEntryStep
     DEF Loop
<1>8. ASSUME Return PROVE IInv'
  BY <1>8, ReturnValueStep, ReturnPendingStep, ReturnFiredStep DEF Return
<1>9. CASE UNCHANGED vars
  BY <1>9 DEF vars, objVars, IInv, TypeOK, StackInv, Fired, Results, ReadyTop, Pauses, Woken,
              Wakers, WillWake, OnlyWaker, Attended
<1> QED BY <1>1, <1>2, <1>3, <1>4, <1>5, <1>6, <1>7, <1>8, <1>9 DEF Next, Application

LEMMA Invariant == Spec => []IInv
BY InitInv, NextInv, PTL DEF Spec

-----------------------------------------------------------------------------
(* Every variable keeps its type; _paused never becomes negative           *)
(* (defer.h 361-374, 432-439).                                             *)
THEOREM TypeCorrect == Spec => []TypeOK
<1>1. IInv => TypeOK
  BY DEF IInv
<1> QED BY <1>1, Invariant, PTL

(* _paused counts the pauses of the application and the Deferred waited    *)
(* for, and nothing else; and whoever waits is woken by one Continuation,  *)
(* which is where it waits (defer.h 361-396, defer.cpp 90-99, 110-120).    *)
THEOREM WaitsCounted == Spec => []WaitsMatch
<1>1. IInv => WaitsMatch
  <2> SUFFICES ASSUME IInv, NEW d \in Deferreds
               PROVE  /\ result[d] = "deferred" =>
                            \E p \in Waking(d) : p[1] = waitsFor[d] /\ Waking(d) = {p}
                      /\ result[d] # "deferred" => Waking(d) = {}
    BY DEF IInv, Pauses, WaitsMatch
  <2>1. ASSUME NEW p \in Waking(d)
        PROVE  /\ result[d] = "deferred" /\ \E i \in 1..Len(callbacks[waitsFor[d]]) :
                      /\ p = <<waitsFor[d], i>> /\ waitsFor[d] \in Deferreds
                      /\ callbacks[waitsFor[d]][i] = Continuation(d)
                      /\ OnlyWaker(waitsFor[d], i, callbacks)
    <3>0. PICK e \in Deferreds :
             p \in {<<e, i>> : i \in {j \in DOMAIN callbacks[e] :
                                          callbacks[e][j] = Continuation(d)}}
      BY Zenon DEF Waking
    <3>1. PICK i \in DOMAIN callbacks[e] : p = <<e, i>> /\ callbacks[e][i] = Continuation(d)
      BY <3>0
    <3>2. i \in 1..Len(callbacks[e])
      BY DEF IInv, TypeOK
    <3>3. callbacks[e][i].kind = "cont" /\ callbacks[e][i].of = d
      BY <3>1 DEF Continuation
    <3>4. result[d] = "deferred" /\ waitsFor[d] = e /\ OnlyWaker(e, i, callbacks)
      BY <3>2, <3>3 DEF IInv, Wakers
    <3> QED BY <3>1, <3>2, <3>4
  <2>2. ASSUME result[d] = "deferred"
        PROVE  \E p \in Waking(d) : p[1] = waitsFor[d] /\ Waking(d) = {p}
    <3>1. WillWake(d, waitsFor[d], callbacks)
      BY <2>2 DEF IInv, Woken
    <3> DEFINE w == waitsFor[d]
    <3>2. PICK i \in 1..Len(callbacks[w]) : callbacks[w][i] = Continuation(d)
      BY <3>1 DEF WillWake
    <3>3. w \in Deferreds /\ i \in DOMAIN callbacks[w]
      BY <3>1 DEF WillWake, IInv, TypeOK
    <3>4. <<w, i>> \in Waking(d)
      BY <3>2, <3>3 DEF Waking
    <3>5. ASSUME NEW p \in Waking(d) PROVE p = <<w, i>>
      <4>1. PICK j \in 1..Len(callbacks[w]) :
               p = <<w, j>> /\ callbacks[w][j] = Continuation(d) /\ OnlyWaker(w, j, callbacks)
        BY <2>1
      <4>2. i = j
        BY <3>2, <4>1 DEF OnlyWaker
      <4> QED BY <4>1, <4>2
    <3>6. Waking(d) = {<<w, i>>} /\ <<w, i>>[1] = w
      BY <3>4, <3>5
    <3> QED BY <3>4, <3>6
  <2> QED BY <2>1, <2>2
<1> QED BY <1>1, Invariant, PTL

(* A callback of a Deferred is called only when the one before it has      *)
(* returned, however deep runCallbacks is re-entered, and with a result    *)
(* (defer.cpp 62-128).                                                     *)
THEOREM CallbacksDoNotNest == Spec => []CallbacksInTurn
<1>1. IInv => CallbacksInTurn
  <2> SUFFICES ASSUME IInv PROVE CallbacksInTurn
    OBVIOUS
  <2>1. /\ stack \in Seq(Frames) /\ DOMAIN stack = 1..Len(stack) /\ Len(stack) \in Nat
        /\ \A i \in 1..Len(stack) : OnTop(stack[i], Below(stack, i), Fired)
    BY DEF IInv, StackInv, StackOK
  <2> DEFINE calls(d) == {i \in DOMAIN stack :
                            stack[i].type = "call" /\ Head(stack[i].chain) = d}
  <2>2. ASSUME NEW d \in Deferreds PROVE running[d] <=> calls(d) # {}
    <3>1. running[d] <=> d \in Calling(stack)
      BY DEF IInv, StackInv
    <3>2. d \in Calling(stack) <=> \E i \in DOMAIN stack :
                 stack[i].type = "call" /\ Head(stack[i].chain) = d
      BY <2>1 DEF Calling
    <3> QED BY <3>1, <3>2
  <2>3. ASSUME NEW d \in Deferreds, NEW i \in calls(d), NEW j \in calls(d), i < j PROVE FALSE
    <3>1. /\ i \in 1..Len(stack) /\ j \in 1..Len(stack)
          /\ stack[i].type = "call" /\ Head(stack[i].chain) = d
          /\ stack[j].type = "call" /\ Head(stack[j].chain) = d
      BY <2>1
    <3> HIDE DEF calls
    <3> DEFINE b == Below(stack, i)
               g == stack[i + 1]
               r == Below(stack, i + 1)
    <3>2. b # <<>> /\ Head(b).type = "run" /\ Head(Head(b).chain) = d
      BY <2>1, <3>1 DEF OnTop
    <3>3. /\ b \in Seq(Frames) /\ Len(b) = Len(stack) - i
          /\ \A k \in 1..(Len(stack) - i) : b[k] = stack[i + k]
      <4>1. i \in 0..Len(stack)
        BY <2>1, <3>1
      <4> QED BY <2>1, <4>1, BelowIsSeq
    <3>4. i + 1 \in 1..Len(stack) /\ 1 \in 1..(Len(stack) - i)
      BY <2>1, <2>3, <3>1
    <3>5. Head(b) = g
      <4> HIDE DEF b
      <4>1. Head(b) = b[1]
        BY <3>2, <3>3
      <4> QED BY <3>3, <3>4, <4>1
    <3>6. OnTop(g, r, Fired)
      BY <2>1, <3>4
    <3> HIDE DEF b
    <3>7. g.type = "run" /\ Head(g.chain) = d
      BY <3>2, <3>5
    <3> HIDE DEF g
    <3>8. d \in Members(g) /\ Members(g) \intersect Calling(r) = {}
      BY <3>6, <3>7, HeadIsMember DEF OnTop
    <3>9. j # i + 1
      BY <3>1, <3>7 DEF g
    <3>10. /\ r \in Seq(Frames) /\ Len(r) = Len(stack) - (i + 1)
           /\ \A k \in 1..(Len(stack) - (i + 1)) : r[k] = stack[(i + 1) + k]
      <4>1. i + 1 \in 0..Len(stack)
        BY <2>1, <3>4
      <4> QED BY <2>1, <4>1, BelowIsSeq
    <3> HIDE DEF r
    <3>11. /\ j - (i + 1) \in 1..(Len(stack) - (i + 1)) /\ (i + 1) + (j - (i + 1)) = j
      BY <2>1, <2>3, <3>1, <3>9
    <3>12. r[j - (i + 1)] = stack[j] /\ j - (i + 1) \in 1..Len(r)
      BY <3>10, <3>11
    <3>13. d \in Calling(r)
      BY <3>1, <3>12 DEF Calling
    <3> QED BY <3>8, <3>13
  <2>4. ASSUME NEW d \in Deferreds, NEW i \in calls(d), NEW j \in calls(d) PROVE i = j
    <3>1. i \in 1..Len(stack) /\ j \in 1..Len(stack)
      BY <2>1
    <3>2. ~(i < j) /\ ~(j < i)
      BY <2>3
    <3> HIDE DEF calls
    <3> QED BY <2>1, <3>1, <3>2
  <2>5. ASSUME NEW i \in DOMAIN stack, stack[i].type = "call"
        PROVE  stack[i].arg \in {"null", "val", "err"}
    BY <2>1, <2>5 DEF OnTop
  <2> QED BY <2>2, <2>4, <2>5 DEF CallbacksInTurn
<1> QED BY <1>1, Invariant, PTL

(* When everything has returned, whoever has callbacks to run is paused or *)
(* was left behind for a paused Deferred (defer.cpp 72-128, defer.h        *)
(* 280-306, 361-374).                                                      *)
THEOREM NoneStranded == Spec => []NothingStranded
<1>1. IInv => NothingStranded
  <2> SUFFICES ASSUME IInv, stack = <<>>, NEW d \in Deferreds,
                      called[d], paused[d] = 0, d \notin left
               PROVE  callbacks[d] = <<>>
    BY DEF NothingStranded
  <2>1. InChains(<<>>) = {}
    BY DEF InChains
  <2> QED BY <2>1 DEF IInv, Attended
<1> QED BY <1>1, Invariant, PTL

=============================================================================
