------------------------- MODULE TCPConnectionProofs -------------------------
(***************************************************************************)
(* Proofs about TCPConnection for every set of buffer sizes, every         *)
(* producer limit and every bound.                                         *)
(***************************************************************************)
EXTENDS TCPConnection, SequenceTheorems, TLAPS

(* How the flags relate to each other, to _error and to the producer.      *)
Phases ==
    /\ disconnecting => connected /\ error # "none"
    /\ disconnected => ~connected
    /\ aborting => disconnecting /\ error \in {"Abort", "Sys"}
    /\ ~connected /\ ~disconnected =>
          /\ writeQueue = <<>> /\ accepted = 0 /\ error = "none"
          /\ ~reading /\ ~writing /\ closePosted = 0 /\ frame = "idle"
          /\ ~pendingProducing /\ producer = "none"
    /\ connected /\ ~disconnecting => error = "none"
    /\ frame = "made" => connected
    /\ frame # "idle" => ~reading
    /\ pausing > 0 => connected
    /\ owed => producer = "pull" \/ (producer = "streaming" /\ producerPaused)

(* What the queue holds while a write is outstanding, or is not.           *)
WriteInFlight ==
    /\ writeOp \in {"pending", "ok"} => writeQueue # <<>>
    /\ writeOp = "ok" => /\ writeOpBytes > 0
                         /\ consumed + writeOpBytes =< Head(writeQueue)
    /\ writeOp # "ok" => writeOpBytes = 0
    /\ connected /\ writeOp = "aborted" => aborting
    /\ disconnected => writeOp # "pending"
    /\ readOp = "aborted" => ~sockOpen
    /\ connected /\ readOp = "aborted" => aborting \/ ~writing

(* A close the application asked for waits for the write outstanding.      *)
CloseWaits ==
    connected /\ error = "Done" /\ "close" \notin lapses /\ writeQueue # <<>> =>
        writing /\ closePosted = 0 /\ readOp # "aborted"

(* A posted closeSocket runs with nothing to read, on the way to the end.  *)
PostedCloses == closePosted > 0 => ~reading /\ (disconnecting \/ disconnected)

(* doWrite posted the lambda when it emptied the queue of a producer.      *)
DrainedIsRemembered ==
    owed /\ writeQueue = <<>> => pendingProducing \/ disconnecting

(* The end of a connection the application closed.                         *)
Lossless ==
    disconnected /\ error = "Done" /\ "close" \notin lapses => sent = accepted

(* Stated apart because the provers use it on primed variables.            *)
LEMMA PlusZero == \A x \in Nat : x + 0 = x
  OBVIOUS

-----------------------------------------------------------------------------
(* Operators on the queue.                                                 *)

(* The queue q continues the stream after byte c, up to byte a.            *)
Continues(q, c, a) ==
    /\ Len(q) \in Nat /\ c \in Nat /\ a \in Nat /\ c =< a
    /\ Len(q) = 0 => c = a
    /\ Len(q) > 0 => q[Len(q)] = a
    /\ \A i \in 1..Len(q) : q[i] \in Nat /\ c < q[i]
    /\ \A i, j \in 1..Len(q) : i < j => q[i] < q[j]

QueueOK(q, c, a) == q \in Seq(Nat) /\ Continues(q, c, a)

(* A write extends the queue.                                              *)
LEMMA AppendOK ==
    ASSUME NEW q, NEW c, NEW a, NEW n \in Nat \ {0}, QueueOK(q, c, a)
    PROVE  QueueOK(Append(q, a + n), c, a + n) /\ Len(Append(q, a + n)) > 0
<1> DEFINE r == Append(q, a + n)
<1>0. Continues(q, c, a)
  BY DEF QueueOK
<1>1. /\ r \in Seq(Nat) /\ Len(r) = Len(q) + 1
      /\ r[Len(q) + 1] = a + n /\ \A i \in 1..Len(q) : r[i] = q[i]
  BY <1>0, AppendProperties DEF QueueOK, Continues
<1> HIDE DEF r
<1>2. ASSUME NEW i \in 1..Len(q) PROVE q[i] =< a
  <2>1. CASE i = Len(q)
    BY <1>0, <2>1 DEF Continues
  <2>2. CASE i < Len(q)
    BY <1>0, <2>2 DEF Continues
  <2> QED BY <1>0, <2>1, <2>2 DEF Continues
<1>3. ASSUME NEW i \in 1..Len(r) PROVE r[i] \in Nat /\ c < r[i]
  <2>1. CASE i = Len(q) + 1
    BY <1>0, <1>1, <2>1 DEF Continues
  <2>2. CASE i \in 1..Len(q)
    BY <1>0, <1>1, <2>2 DEF Continues
  <2> QED BY <1>0, <1>1, <2>1, <2>2 DEF Continues
<1>4. ASSUME NEW i \in 1..Len(r), NEW j \in 1..Len(r), i < j
      PROVE  r[i] < r[j]
  <2>0. i \in 1..Len(q) /\ r[i] = q[i]
    BY <1>0, <1>1, <1>4 DEF Continues
  <2>1. CASE j = Len(q) + 1
    BY <1>0, <1>1, <1>2, <2>0, <2>1 DEF Continues
  <2>2. CASE j \in 1..Len(q)
    BY <1>0, <1>1, <1>4, <2>0, <2>2 DEF Continues
  <2> QED BY <1>0, <1>1, <2>1, <2>2 DEF Continues
<1>5. Continues(r, c, a + n)
  BY <1>0, <1>1, <1>3, <1>4 DEF Continues
<1> QED BY <1>0, <1>1, <1>5 DEF r, QueueOK, Continues

(* The front buffer lies between what was consumed and what was accepted.  *)
LEMMA HeadOK ==
    ASSUME NEW q, NEW c, NEW a, QueueOK(q, c, a), q # <<>>
    PROVE  /\ Len(q) > 0 /\ Head(q) = q[1] /\ q[1] \in Nat
           /\ c < q[1] /\ q[1] =< a /\ c \in Nat /\ a \in Nat
<1>1. Continues(q, c, a) /\ Len(q) > 0
  BY EmptySeq DEF QueueOK
<1>2. Head(q) = q[1] /\ q[1] \in Nat /\ c < q[1]
  BY <1>1 DEF Continues, QueueOK
<1>3. CASE Len(q) = 1
  BY <1>1, <1>2, <1>3 DEF Continues
<1>4. CASE Len(q) > 1
  BY <1>1, <1>2, <1>4 DEF Continues
<1> QED BY <1>1, <1>2, <1>3, <1>4 DEF Continues

(* handleWrite pops the front buffer once all of it was transferred.       *)
LEMMA PopOK ==
    ASSUME NEW q, NEW c, NEW a, NEW t \in Nat, QueueOK(q, c, a), Len(q) > 0,
           c =< t, t =< Head(q)
    PROVE  QueueOK(IF t >= Head(q) THEN Tail(q) ELSE q, t, a)
<1>0. Continues(q, c, a)
  BY DEF QueueOK
<1>1. q # <<>>
  BY <1>0, EmptySeq DEF QueueOK
<1>2. Head(q) = q[1] /\ q[1] \in Nat
  BY <1>1, HeadOK
<1>3. ASSUME NEW i \in 1..Len(q), i > 1 PROVE q[1] < q[i]
  BY <1>0, <1>3 DEF Continues
<1>4. q[1] =< a
  BY <1>1, HeadOK
<1>5. CASE t = Head(q)
  <2> DEFINE r == Tail(q)
  <2>1. /\ r \in Seq(Nat) /\ Len(r) = Len(q) - 1
        /\ \A i \in 1..Len(r) : r[i] = q[i + 1]
    BY <1>1, HeadTailProperties DEF QueueOK
  <2> HIDE DEF r
  <2>2. Len(r) = 0 => t = a
    <3>1. Len(r) = 0 => Len(q) = 1
      BY <2>1, <1>0 DEF Continues
    <3>2. Len(q) = 1 => q[1] = a
      BY <1>0 DEF Continues
    <3> QED BY <3>1, <3>2, <1>2, <1>5
  <2>3. Len(r) > 0 => r[Len(r)] = a
    <3>1. Len(r) > 0 => Len(r) \in 1..Len(r) /\ Len(r) + 1 = Len(q)
      BY <2>1, <1>0 DEF Continues
    <3> QED BY <3>1, <2>1, <1>0 DEF Continues
  <2>4. ASSUME NEW i \in 1..Len(r) PROVE r[i] \in Nat /\ t < r[i]
    <3>1. i + 1 \in 1..Len(q) /\ i + 1 > 1 /\ r[i] = q[i + 1]
      BY <2>1, <1>0 DEF Continues
    <3> QED BY <3>1, <1>2, <1>3, <1>5, <1>0 DEF Continues
  <2>5. ASSUME NEW i \in 1..Len(r), NEW j \in 1..Len(r), i < j
        PROVE  r[i] < r[j]
    <3>1. /\ i + 1 \in 1..Len(q) /\ r[i] = q[i + 1]
          /\ j + 1 \in 1..Len(q) /\ r[j] = q[j + 1] /\ i + 1 < j + 1
      BY <2>1, <2>5, <1>0 DEF Continues
    <3> QED BY <3>1, <1>0 DEF Continues
  <2>6. Continues(r, t, a)
    BY <2>1, <2>2, <2>3, <2>4, <2>5, <1>0, <1>2, <1>4, <1>5 DEF Continues
  <2>7. (IF t >= Head(q) THEN Tail(q) ELSE q) = r
    BY <1>2, <1>5 DEF r
  <2>8. QueueOK(r, t, a)
    BY <2>1, <2>6 DEF QueueOK
  <2> QED BY <2>7, <2>8
<1>6. CASE t < Head(q)
  <2>1. ASSUME NEW i \in 1..Len(q) PROVE t < q[i]
    BY <1>0, <1>2, <1>3, <1>6 DEF Continues
  <2>2. Continues(q, t, a)
    BY <2>1, <1>0, <1>2, <1>4, <1>6 DEF Continues
  <2> QED BY <1>2, <1>6, <2>2 DEF QueueOK
<1> QED BY <1>2, <1>5, <1>6

(* The loop of doWrite stops in buffer j, after byte p.                    *)
LEMMA DropOK ==
    ASSUME NEW q, NEW c, NEW a, QueueOK(q, c, a),
           NEW j \in 1..Len(q), NEW p \in BufferStart(q, c, j)..(q[j] - 1)
    PROVE  /\ QueueOK(SubSeq(q, j, Len(q)), p, a)
           /\ Len(SubSeq(q, j, Len(q))) > 0
           /\ c =< p
<1> DEFINE r == SubSeq(q, j, Len(q))
<1>0. Continues(q, c, a) /\ j \in Int /\ Len(q) \in Int /\ j =< Len(q)
  BY DEF QueueOK, Continues
<1>1. /\ r \in Seq(Nat) /\ Len(r) = Len(q) - j + 1
      /\ \A i \in 1..Len(r) : r[i] = q[j + i - 1]
  <2>1. \A i \in j..Len(q) : q[i] \in Nat
    BY <1>0 DEF Continues
  <2>2. /\ r \in Seq(Nat) /\ Len(r) = IF j =< Len(q) THEN Len(q) - j + 1 ELSE 0
        /\ \A i \in 1..(Len(q) - j + 1) : r[i] = q[j + i - 1]
    BY <1>0, <2>1, SubSeqProperties
  <2> HIDE DEF r
  <2> QED BY <2>2, <1>0
<1> HIDE DEF r
<1>2. BufferStart(q, c, j) \in Nat /\ c =< BufferStart(q, c, j)
  BY <1>0 DEF Continues, BufferStart
<1>3. p \in Nat /\ p < q[j] /\ c =< p /\ c \in Nat /\ a \in Nat /\ q[j] \in Nat
  BY <1>0, <1>2 DEF Continues
<1>4. Len(r) \in 1..Len(r) /\ r[Len(r)] = q[Len(q)] /\ q[Len(q)] = a
  <2>1. Len(r) \in 1..Len(r) /\ j + Len(r) - 1 = Len(q)
    BY <1>0, <1>1
  <2>2. r[Len(r)] = q[j + Len(r) - 1]
    BY <2>1, <1>1
  <2>3. q[Len(q)] = a
    BY <1>0, <2>1 DEF Continues
  <2> QED BY <2>1, <2>2, <2>3
<1>5. q[j] =< a
  <2>1. CASE j = Len(q)
    <3>1. q[Len(q)] = a
      BY <1>4
    <3> QED BY <3>1, <2>1, <1>3
  <2>2. CASE j < Len(q)
    BY <1>0, <1>4, <2>2 DEF Continues
  <2> QED BY <1>0, <2>1, <2>2
<1>6. ASSUME NEW i \in 1..Len(r) PROVE r[i] \in Nat /\ p < r[i]
  <2>1. j + i - 1 \in 1..Len(q) /\ r[i] = q[j + i - 1]
    BY <1>0, <1>1
  <2>2. CASE i = 1
    BY <2>1, <2>2, <1>0, <1>3
  <2>3. CASE i > 1
    <3>1. j < j + i - 1
      BY <2>3, <1>0, <1>1
    <3>2. q[j] < q[j + i - 1] /\ q[j + i - 1] \in Nat
      BY <2>1, <3>1, <1>0 DEF Continues
    <3> QED BY <3>2, <2>1, <1>3
  <2> QED BY <2>2, <2>3, <1>1
<1>7. ASSUME NEW i \in 1..Len(r), NEW k \in 1..Len(r), i < k
      PROVE  r[i] < r[k]
  <2>1. /\ j + i - 1 \in 1..Len(q) /\ r[i] = q[j + i - 1]
        /\ j + k - 1 \in 1..Len(q) /\ r[k] = q[j + k - 1]
        /\ j + i - 1 < j + k - 1
    BY <1>0, <1>1, <1>7
  <2> QED BY <2>1, <1>0 DEF Continues
<1>8. Continues(r, p, a) /\ Len(r) > 0
  <2>1. Len(r) \in Nat /\ Len(r) > 0
    BY <1>0, <1>1
  <2>2. p =< a
    BY <1>3, <1>5
  <2> QED BY <1>3, <1>4, <1>6, <1>7, <2>1, <2>2 DEF Continues
<1> QED BY <1>1, <1>3, <1>8 DEF r, QueueOK

-----------------------------------------------------------------------------
(* The inductive invariant.                                                *)

(* StreamIntact, said with the operators of the lemmas.                    *)
Stream ==
    /\ QueueOK(writeQueue, consumed, accepted)
    /\ sent = consumed + writeOpBytes
    /\ sent =< accepted

IInv ==
    /\ TypeOK
    /\ FlagsTrackOperations
    /\ Phases
    /\ Stream
    /\ WriteInFlight
    /\ OpenIsActive
    /\ LostExactlyOnce
    /\ CancelledHasReason
    /\ WaitingProducerIsRemembered
    /\ CloseWaits
    /\ PostedCloses
    /\ DrainedIsRemembered
    /\ Lossless

LEMMA StreamImpliesIntact == IInv => StreamIntact
<1> SUFFICES ASSUME IInv PROVE StreamIntact
  OBVIOUS
<1>1. Continues(writeQueue, consumed, accepted) /\ writeQueue \in Seq(Nat)
  BY DEF IInv, Stream, QueueOK
<1>2. writeQueue = <<>> => sent = accepted
  BY <1>1 DEF IInv, Stream, Continues, WriteInFlight, TypeOK
<1>3. writeQueue # <<>> => Len(writeQueue) > 0
  BY <1>1, EmptySeq
<1> QED BY <1>1, <1>2, <1>3 DEF IInv, Stream, Continues, StreamIntact

LEMMA InitInv == Init => IInv
<1> SUFFICES ASSUME Init PROVE IInv
  OBVIOUS
<1>1. TypeOK
  <2>1. FlagsOK
    BY DEF Init, FlagsOK
  <2>2. CountersOK
    BY SizeAssumption DEF Init, CountersOK
  <2> QED
    BY <2>1, <2>2, EmptySeq DEF Init, TypeOK, Errors, ReadOps, WriteOps
<1>2. Stream
  <2>1. QueueOK(<<>>, 0, 0)
    BY EmptySeq DEF QueueOK, Continues
  <2> QED BY <2>1 DEF Init, Stream
<1> QED
  BY <1>1, <1>2
  DEF Init, IInv, FlagsTrackOperations, Phases, WriteInFlight, OpenIsActive,
      LostExactlyOnce, CancelledHasReason, WaitingProducerIsRemembered,
      CloseWaits, PostedCloses, DrainedIsRemembered, Lossless

-----------------------------------------------------------------------------
(* The steps.  One lemma per action, one step per conjunct of IInv.         *)

USE DEF Errors, ReadOps, WriteOps, Cancelled, Closed, DoRead, DoClose, DoAbort,
        CloseSocket, WriteDone, flagVars, byteVars, prodVars, sockVars, callVars,
        In, Lapses

LEMMA LoseConnectionInv ==
    ASSUME IInv, LoseConnection PROVE IInv'
<1> USE DEF LoseConnection
<1>1. FlagsOK'
  BY DEF IInv, TypeOK, FlagsOK
<1>2. CountersOK'
  BY SizeAssumption DEF IInv, TypeOK, CountersOK, LostExactlyOnce
<1>3. TypeOK'
  BY <1>1, <1>2 DEF IInv, TypeOK
<1>4. FlagsTrackOperations' /\ Phases'
  BY DEF IInv, Phases, FlagsTrackOperations, PostedCloses
<1>5. Stream' /\ WriteInFlight'
  BY DEF IInv, Phases, FlagsTrackOperations, OpenIsActive, Stream, WriteInFlight
<1>6. OpenIsActive' /\ WaitingProducerIsRemembered' /\ CancelledHasReason'
  BY DEF IInv, TypeOK, Phases, FlagsTrackOperations, OpenIsActive, WriteInFlight,
         LostExactlyOnce, WaitingProducerIsRemembered, CancelledHasReason,
         DrainedIsRemembered
<1>7. LostExactlyOnce'
  BY DEF IInv, LostExactlyOnce, Phases
<1>8. CloseWaits' /\ PostedCloses' /\ DrainedIsRemembered'
  BY DEF IInv, TypeOK, CountersOK, Phases, FlagsTrackOperations, CloseWaits,
         PostedCloses, DrainedIsRemembered, WriteInFlight, LostExactlyOnce
<1>9. Lossless'
  BY StreamImpliesIntact
  DEF IInv, TypeOK, CountersOK, StreamIntact, Lossless, Phases,
      FlagsTrackOperations, WriteInFlight, CloseWaits, PostedCloses
<1> QED BY <1>3, <1>4, <1>5, <1>6, <1>7, <1>8, <1>9 DEF IInv

LEMMA AbortConnectionInv ==
    ASSUME IInv, AbortConnection PROVE IInv'
<1> USE DEF AbortConnection
<1>1. FlagsOK'
  BY DEF IInv, TypeOK, FlagsOK
<1>2. CountersOK'
  BY SizeAssumption DEF IInv, TypeOK, CountersOK, LostExactlyOnce
<1>3. TypeOK'
  BY <1>1, <1>2 DEF IInv, TypeOK
<1>4. FlagsTrackOperations' /\ Phases'
  BY DEF IInv, Phases, FlagsTrackOperations, PostedCloses
<1>5. Stream' /\ WriteInFlight'
  BY DEF IInv, Phases, FlagsTrackOperations, OpenIsActive, Stream, WriteInFlight
<1>6. OpenIsActive' /\ WaitingProducerIsRemembered' /\ CancelledHasReason'
  BY DEF IInv, TypeOK, Phases, FlagsTrackOperations, OpenIsActive, WriteInFlight,
         LostExactlyOnce, WaitingProducerIsRemembered, CancelledHasReason,
         DrainedIsRemembered
<1>7. LostExactlyOnce'
  BY DEF IInv, LostExactlyOnce, Phases
<1>8. CloseWaits' /\ PostedCloses' /\ DrainedIsRemembered'
  BY DEF IInv, TypeOK, CountersOK, Phases, FlagsTrackOperations, CloseWaits,
         PostedCloses, DrainedIsRemembered, WriteInFlight, LostExactlyOnce
<1>9. Lossless'
  BY StreamImpliesIntact
  DEF IInv, TypeOK, CountersOK, StreamIntact, Lossless, Phases,
      FlagsTrackOperations, WriteInFlight, CloseWaits, PostedCloses
<1> QED BY <1>3, <1>4, <1>5, <1>6, <1>7, <1>8, <1>9 DEF IInv

LEMMA RegisterProducerInv ==
    ASSUME NEW kind \in {"streaming", "pull"}, IInv, RegisterProducer(kind) PROVE IInv'
<1> USE DEF RegisterProducer
<1>1. FlagsOK'
  BY DEF IInv, TypeOK, FlagsOK
<1>2. CountersOK'
  BY SizeAssumption DEF IInv, TypeOK, CountersOK, LostExactlyOnce
<1>3. TypeOK'
  BY <1>1, <1>2 DEF IInv, TypeOK
<1>4. FlagsTrackOperations' /\ Phases'
  BY DEF IInv, Phases, FlagsTrackOperations, PostedCloses
<1>5. Stream' /\ WriteInFlight'
  BY DEF IInv, Phases, FlagsTrackOperations, OpenIsActive, Stream, WriteInFlight
<1>6. OpenIsActive' /\ WaitingProducerIsRemembered' /\ CancelledHasReason'
  BY DEF IInv, TypeOK, Phases, FlagsTrackOperations, OpenIsActive, WriteInFlight,
         LostExactlyOnce, WaitingProducerIsRemembered, CancelledHasReason,
         DrainedIsRemembered
<1>7. LostExactlyOnce'
  BY DEF IInv, LostExactlyOnce, Phases
<1>8. CloseWaits' /\ PostedCloses' /\ DrainedIsRemembered'
  BY DEF IInv, TypeOK, CountersOK, Phases, FlagsTrackOperations, CloseWaits,
         PostedCloses, DrainedIsRemembered, WriteInFlight, LostExactlyOnce
<1>9. Lossless'
  BY StreamImpliesIntact
  DEF IInv, TypeOK, CountersOK, StreamIntact, Lossless, Phases,
      FlagsTrackOperations, WriteInFlight, CloseWaits, PostedCloses
<1> QED BY <1>3, <1>4, <1>5, <1>6, <1>7, <1>8, <1>9 DEF IInv

LEMMA UnregisterProducerInv ==
    ASSUME IInv, UnregisterProducer PROVE IInv'
<1> USE DEF UnregisterProducer
<1>1. FlagsOK'
  BY DEF IInv, TypeOK, FlagsOK
<1>2. CountersOK'
  BY SizeAssumption DEF IInv, TypeOK, CountersOK, LostExactlyOnce
<1>3. TypeOK'
  BY <1>1, <1>2 DEF IInv, TypeOK
<1>4. FlagsTrackOperations' /\ Phases'
  BY DEF IInv, Phases, FlagsTrackOperations, PostedCloses
<1>5. Stream' /\ WriteInFlight'
  BY DEF IInv, Phases, FlagsTrackOperations, OpenIsActive, Stream, WriteInFlight
<1>6. OpenIsActive' /\ WaitingProducerIsRemembered' /\ CancelledHasReason'
  BY DEF IInv, TypeOK, Phases, FlagsTrackOperations, OpenIsActive, WriteInFlight,
         LostExactlyOnce, WaitingProducerIsRemembered, CancelledHasReason,
         DrainedIsRemembered
<1>7. LostExactlyOnce'
  BY DEF IInv, LostExactlyOnce, Phases
<1>8. CloseWaits' /\ PostedCloses' /\ DrainedIsRemembered'
  BY DEF IInv, TypeOK, CountersOK, Phases, FlagsTrackOperations, CloseWaits,
         PostedCloses, DrainedIsRemembered, WriteInFlight, LostExactlyOnce
<1>9. Lossless'
  BY StreamImpliesIntact
  DEF IInv, TypeOK, CountersOK, StreamIntact, Lossless, Phases,
      FlagsTrackOperations, WriteInFlight, CloseWaits, PostedCloses
<1> QED BY <1>3, <1>4, <1>5, <1>6, <1>7, <1>8, <1>9 DEF IInv

LEMMA CbConnectInv ==
    ASSUME IInv, CbConnect PROVE IInv'
<1> USE DEF CbConnect
<1>1. FlagsOK'
  BY DEF IInv, TypeOK, FlagsOK
<1>2. CountersOK'
  BY SizeAssumption DEF IInv, TypeOK, CountersOK, LostExactlyOnce
<1>3. TypeOK'
  BY <1>1, <1>2 DEF IInv, TypeOK
<1>4. FlagsTrackOperations' /\ Phases'
  BY DEF IInv, Phases, FlagsTrackOperations, PostedCloses
<1>5. Stream' /\ WriteInFlight'
  BY DEF IInv, Phases, FlagsTrackOperations, OpenIsActive, Stream, WriteInFlight
<1>6. OpenIsActive' /\ WaitingProducerIsRemembered' /\ CancelledHasReason'
  BY DEF IInv, TypeOK, Phases, FlagsTrackOperations, OpenIsActive, WriteInFlight,
         LostExactlyOnce, WaitingProducerIsRemembered, CancelledHasReason,
         DrainedIsRemembered
<1>7. LostExactlyOnce'
  BY DEF IInv, LostExactlyOnce, Phases
<1>8. CloseWaits' /\ PostedCloses' /\ DrainedIsRemembered'
  BY DEF IInv, TypeOK, CountersOK, Phases, FlagsTrackOperations, CloseWaits,
         PostedCloses, DrainedIsRemembered, WriteInFlight, LostExactlyOnce
<1>9. Lossless'
  BY StreamImpliesIntact
  DEF IInv, TypeOK, CountersOK, StreamIntact, Lossless, Phases,
      FlagsTrackOperations, WriteInFlight, CloseWaits, PostedCloses
<1> QED BY <1>3, <1>4, <1>5, <1>6, <1>7, <1>8, <1>9 DEF IInv

LEMMA ConnectionMadeReturnsInv ==
    ASSUME IInv, ConnectionMadeReturns PROVE IInv'
<1> USE DEF ConnectionMadeReturns
<1>1. FlagsOK'
  BY DEF IInv, TypeOK, FlagsOK
<1>2. CountersOK'
  BY SizeAssumption DEF IInv, TypeOK, CountersOK, LostExactlyOnce
<1>3. TypeOK'
  BY <1>1, <1>2 DEF IInv, TypeOK
<1>4. FlagsTrackOperations' /\ Phases'
  BY DEF IInv, Phases, FlagsTrackOperations, PostedCloses
<1>5. Stream' /\ WriteInFlight'
  BY DEF IInv, Phases, FlagsTrackOperations, OpenIsActive, Stream, WriteInFlight
<1>6. OpenIsActive' /\ WaitingProducerIsRemembered' /\ CancelledHasReason'
  BY DEF IInv, TypeOK, Phases, FlagsTrackOperations, OpenIsActive, WriteInFlight,
         LostExactlyOnce, WaitingProducerIsRemembered, CancelledHasReason,
         DrainedIsRemembered
<1>7. LostExactlyOnce'
  BY DEF IInv, LostExactlyOnce, Phases
<1>8. CloseWaits' /\ PostedCloses' /\ DrainedIsRemembered'
  BY DEF IInv, TypeOK, CountersOK, Phases, FlagsTrackOperations, CloseWaits,
         PostedCloses, DrainedIsRemembered, WriteInFlight, LostExactlyOnce
<1>9. Lossless'
  BY StreamImpliesIntact
  DEF IInv, TypeOK, CountersOK, StreamIntact, Lossless, Phases,
      FlagsTrackOperations, WriteInFlight, CloseWaits, PostedCloses
<1> QED BY <1>3, <1>4, <1>5, <1>6, <1>7, <1>8, <1>9 DEF IInv

LEMMA CbReadDataInv ==
    ASSUME IInv, CbReadData PROVE IInv'
<1> USE DEF CbReadData
<1>1. FlagsOK'
  BY DEF IInv, TypeOK, FlagsOK
<1>2. CountersOK'
  BY SizeAssumption DEF IInv, TypeOK, CountersOK, LostExactlyOnce
<1>3. TypeOK'
  BY <1>1, <1>2 DEF IInv, TypeOK
<1>4. FlagsTrackOperations' /\ Phases'
  BY DEF IInv, Phases, FlagsTrackOperations, PostedCloses
<1>5. Stream' /\ WriteInFlight'
  BY DEF IInv, Phases, FlagsTrackOperations, OpenIsActive, Stream, WriteInFlight
<1>6. OpenIsActive' /\ WaitingProducerIsRemembered' /\ CancelledHasReason'
  BY DEF IInv, TypeOK, Phases, FlagsTrackOperations, OpenIsActive, WriteInFlight,
         LostExactlyOnce, WaitingProducerIsRemembered, CancelledHasReason,
         DrainedIsRemembered
<1>7. LostExactlyOnce'
  BY DEF IInv, LostExactlyOnce, Phases
<1>8. CloseWaits' /\ PostedCloses' /\ DrainedIsRemembered'
  BY DEF IInv, TypeOK, CountersOK, Phases, FlagsTrackOperations, CloseWaits,
         PostedCloses, DrainedIsRemembered, WriteInFlight, LostExactlyOnce
<1>9. Lossless'
  BY StreamImpliesIntact
  DEF IInv, TypeOK, CountersOK, StreamIntact, Lossless, Phases,
      FlagsTrackOperations, WriteInFlight, CloseWaits, PostedCloses
<1> QED BY <1>3, <1>4, <1>5, <1>6, <1>7, <1>8, <1>9 DEF IInv

LEMMA DataReceivedReturnsInv ==
    ASSUME IInv, DataReceivedReturns PROVE IInv'
<1> USE DEF DataReceivedReturns
<1>1. FlagsOK'
  BY DEF IInv, TypeOK, FlagsOK
<1>2. CountersOK'
  BY SizeAssumption DEF IInv, TypeOK, CountersOK, LostExactlyOnce
<1>3. TypeOK'
  BY <1>1, <1>2 DEF IInv, TypeOK
<1>4. FlagsTrackOperations' /\ Phases'
  BY DEF IInv, Phases, FlagsTrackOperations, PostedCloses
<1>5. Stream' /\ WriteInFlight'
  BY DEF IInv, Phases, FlagsTrackOperations, OpenIsActive, Stream, WriteInFlight
<1>6. OpenIsActive' /\ WaitingProducerIsRemembered' /\ CancelledHasReason'
  BY DEF IInv, TypeOK, Phases, FlagsTrackOperations, OpenIsActive, WriteInFlight,
         LostExactlyOnce, WaitingProducerIsRemembered, CancelledHasReason,
         DrainedIsRemembered
<1>7. LostExactlyOnce'
  BY DEF IInv, LostExactlyOnce, Phases
<1>8. CloseWaits' /\ PostedCloses' /\ DrainedIsRemembered'
  BY DEF IInv, TypeOK, CountersOK, Phases, FlagsTrackOperations, CloseWaits,
         PostedCloses, DrainedIsRemembered, WriteInFlight, LostExactlyOnce
<1>9. Lossless'
  BY StreamImpliesIntact
  DEF IInv, TypeOK, CountersOK, StreamIntact, Lossless, Phases,
      FlagsTrackOperations, WriteInFlight, CloseWaits, PostedCloses
<1> QED BY <1>3, <1>4, <1>5, <1>6, <1>7, <1>8, <1>9 DEF IInv

LEMMA CallbackThrowsInv ==
    ASSUME IInv, CallbackThrows PROVE IInv'
<1> USE DEF CallbackThrows
<1>1. FlagsOK'
  BY DEF IInv, TypeOK, FlagsOK
<1>2. CountersOK'
  BY SizeAssumption DEF IInv, TypeOK, CountersOK, LostExactlyOnce
<1>3. TypeOK'
  BY <1>1, <1>2 DEF IInv, TypeOK
<1>4. FlagsTrackOperations' /\ Phases'
  BY DEF IInv, Phases, FlagsTrackOperations, PostedCloses
<1>5. Stream' /\ WriteInFlight'
  BY DEF IInv, Phases, FlagsTrackOperations, OpenIsActive, Stream, WriteInFlight
<1>6. OpenIsActive' /\ WaitingProducerIsRemembered' /\ CancelledHasReason'
  BY DEF IInv, TypeOK, Phases, FlagsTrackOperations, OpenIsActive, WriteInFlight,
         LostExactlyOnce, WaitingProducerIsRemembered, CancelledHasReason,
         DrainedIsRemembered
<1>7. LostExactlyOnce'
  BY DEF IInv, LostExactlyOnce, Phases
<1>8. CloseWaits' /\ PostedCloses' /\ DrainedIsRemembered'
  BY DEF IInv, TypeOK, CountersOK, Phases, FlagsTrackOperations, CloseWaits,
         PostedCloses, DrainedIsRemembered, WriteInFlight, LostExactlyOnce
<1>9. Lossless'
  BY StreamImpliesIntact
  DEF IInv, TypeOK, CountersOK, StreamIntact, Lossless, Phases,
      FlagsTrackOperations, WriteInFlight, CloseWaits, PostedCloses
<1> QED BY <1>3, <1>4, <1>5, <1>6, <1>7, <1>8, <1>9 DEF IInv

LEMMA PauseProducingThrowsInv ==
    ASSUME IInv, PauseProducingThrows PROVE IInv'
<1> USE DEF PauseProducingThrows
<1>1. FlagsOK'
  BY DEF IInv, TypeOK, FlagsOK
<1>2. CountersOK'
  BY SizeAssumption DEF IInv, TypeOK, CountersOK, LostExactlyOnce
<1>3. TypeOK'
  BY <1>1, <1>2 DEF IInv, TypeOK
<1>4. FlagsTrackOperations' /\ Phases'
  BY DEF IInv, Phases, FlagsTrackOperations, PostedCloses
<1>5. Stream' /\ WriteInFlight'
  BY DEF IInv, Phases, FlagsTrackOperations, OpenIsActive, Stream, WriteInFlight
<1>6. OpenIsActive' /\ WaitingProducerIsRemembered' /\ CancelledHasReason'
  BY DEF IInv, TypeOK, Phases, FlagsTrackOperations, OpenIsActive, WriteInFlight,
         LostExactlyOnce, WaitingProducerIsRemembered, CancelledHasReason,
         DrainedIsRemembered
<1>7. LostExactlyOnce'
  BY DEF IInv, LostExactlyOnce, Phases
<1>8. CloseWaits' /\ PostedCloses' /\ DrainedIsRemembered'
  BY DEF IInv, TypeOK, CountersOK, Phases, FlagsTrackOperations, CloseWaits,
         PostedCloses, DrainedIsRemembered, WriteInFlight, LostExactlyOnce
<1>9. Lossless'
  BY StreamImpliesIntact
  DEF IInv, TypeOK, CountersOK, StreamIntact, Lossless, Phases,
      FlagsTrackOperations, WriteInFlight, CloseWaits, PostedCloses
<1> QED BY <1>3, <1>4, <1>5, <1>6, <1>7, <1>8, <1>9 DEF IInv

LEMMA CbReadIgnoredInv ==
    ASSUME IInv, CbReadIgnored PROVE IInv'
<1> USE DEF CbReadIgnored
<1>1. FlagsOK'
  BY DEF IInv, TypeOK, FlagsOK
<1>2. CountersOK'
  BY SizeAssumption DEF IInv, TypeOK, CountersOK, LostExactlyOnce
<1>3. TypeOK'
  BY <1>1, <1>2 DEF IInv, TypeOK
<1>4. FlagsTrackOperations' /\ Phases'
  BY DEF IInv, Phases, FlagsTrackOperations, PostedCloses
<1>5. Stream' /\ WriteInFlight'
  BY DEF IInv, Phases, FlagsTrackOperations, OpenIsActive, Stream, WriteInFlight
<1>6. OpenIsActive' /\ WaitingProducerIsRemembered' /\ CancelledHasReason'
  BY DEF IInv, TypeOK, Phases, FlagsTrackOperations, OpenIsActive, WriteInFlight,
         LostExactlyOnce, WaitingProducerIsRemembered, CancelledHasReason,
         DrainedIsRemembered
<1>7. LostExactlyOnce'
  BY DEF IInv, LostExactlyOnce, Phases
<1>8. CloseWaits' /\ PostedCloses' /\ DrainedIsRemembered'
  BY DEF IInv, TypeOK, CountersOK, Phases, FlagsTrackOperations, CloseWaits,
         PostedCloses, DrainedIsRemembered, WriteInFlight, LostExactlyOnce
<1>9. Lossless'
  BY StreamImpliesIntact
  DEF IInv, TypeOK, CountersOK, StreamIntact, Lossless, Phases,
      FlagsTrackOperations, WriteInFlight, CloseWaits, PostedCloses
<1> QED BY <1>3, <1>4, <1>5, <1>6, <1>7, <1>8, <1>9 DEF IInv

LEMMA CbReadFailedInv ==
    ASSUME IInv, CbReadFailed PROVE IInv'
<1> USE DEF CbReadFailed
<1>1. FlagsOK'
  BY DEF IInv, TypeOK, FlagsOK
<1>2. CountersOK'
  BY SizeAssumption DEF IInv, TypeOK, CountersOK, LostExactlyOnce
<1>3. TypeOK'
  BY <1>1, <1>2 DEF IInv, TypeOK
<1>4. FlagsTrackOperations' /\ Phases'
  BY DEF IInv, Phases, FlagsTrackOperations, PostedCloses
<1>5. Stream' /\ WriteInFlight'
  BY DEF IInv, Phases, FlagsTrackOperations, OpenIsActive, Stream, WriteInFlight
<1>6. OpenIsActive' /\ WaitingProducerIsRemembered' /\ CancelledHasReason'
  BY DEF IInv, TypeOK, Phases, FlagsTrackOperations, OpenIsActive, WriteInFlight,
         LostExactlyOnce, WaitingProducerIsRemembered, CancelledHasReason,
         DrainedIsRemembered
<1>7. LostExactlyOnce'
  BY DEF IInv, LostExactlyOnce, Phases
<1>8. CloseWaits' /\ PostedCloses' /\ DrainedIsRemembered'
  BY DEF IInv, TypeOK, CountersOK, Phases, FlagsTrackOperations, CloseWaits,
         PostedCloses, DrainedIsRemembered, WriteInFlight, LostExactlyOnce
<1>9. Lossless'
  BY StreamImpliesIntact
  DEF IInv, TypeOK, CountersOK, StreamIntact, Lossless, Phases,
      FlagsTrackOperations, WriteInFlight, CloseWaits, PostedCloses
<1> QED BY <1>3, <1>4, <1>5, <1>6, <1>7, <1>8, <1>9 DEF IInv

LEMMA CbWriteFailedInv ==
    ASSUME IInv, CbWriteFailed PROVE IInv'
<1> USE DEF CbWriteFailed
<1>1. FlagsOK'
  BY DEF IInv, TypeOK, FlagsOK
<1>2. CountersOK'
  BY SizeAssumption DEF IInv, TypeOK, CountersOK, LostExactlyOnce
<1>3. TypeOK'
  BY <1>1, <1>2 DEF IInv, TypeOK
<1>4. FlagsTrackOperations' /\ Phases'
  BY DEF IInv, Phases, FlagsTrackOperations, PostedCloses
<1>5. Stream' /\ WriteInFlight'
  BY DEF IInv, Phases, FlagsTrackOperations, OpenIsActive, Stream, WriteInFlight
<1>6. OpenIsActive' /\ WaitingProducerIsRemembered' /\ CancelledHasReason'
  BY DEF IInv, TypeOK, Phases, FlagsTrackOperations, OpenIsActive, WriteInFlight,
         LostExactlyOnce, WaitingProducerIsRemembered, CancelledHasReason,
         DrainedIsRemembered
<1>7. LostExactlyOnce'
  BY DEF IInv, LostExactlyOnce, Phases
<1>8. CloseWaits' /\ PostedCloses' /\ DrainedIsRemembered'
  BY DEF IInv, TypeOK, CountersOK, Phases, FlagsTrackOperations, CloseWaits,
         PostedCloses, DrainedIsRemembered, WriteInFlight, LostExactlyOnce
<1>9. Lossless'
  BY StreamImpliesIntact
  DEF IInv, TypeOK, CountersOK, StreamIntact, Lossless, Phases,
      FlagsTrackOperations, WriteInFlight, CloseWaits, PostedCloses
<1> QED BY <1>3, <1>4, <1>5, <1>6, <1>7, <1>8, <1>9 DEF IInv

LEMMA PostedCloseInv ==
    ASSUME IInv, PostedClose PROVE IInv'
<1> USE DEF PostedClose
<1>1. FlagsOK'
  BY DEF IInv, TypeOK, FlagsOK
<1>2. CountersOK'
  BY SizeAssumption DEF IInv, TypeOK, CountersOK, LostExactlyOnce
<1>3. TypeOK'
  BY <1>1, <1>2 DEF IInv, TypeOK
<1>4. FlagsTrackOperations' /\ Phases'
  BY DEF IInv, Phases, FlagsTrackOperations, PostedCloses
<1>5. Stream' /\ WriteInFlight'
  BY DEF IInv, Phases, FlagsTrackOperations, OpenIsActive, Stream, WriteInFlight
<1>6. OpenIsActive' /\ WaitingProducerIsRemembered' /\ CancelledHasReason'
  BY DEF IInv, TypeOK, Phases, FlagsTrackOperations, OpenIsActive, WriteInFlight,
         LostExactlyOnce, WaitingProducerIsRemembered, CancelledHasReason,
         DrainedIsRemembered
<1>7. LostExactlyOnce'
  BY DEF IInv, LostExactlyOnce, Phases
<1>8. CloseWaits' /\ PostedCloses' /\ DrainedIsRemembered'
  BY DEF IInv, TypeOK, CountersOK, Phases, FlagsTrackOperations, CloseWaits,
         PostedCloses, DrainedIsRemembered, WriteInFlight, LostExactlyOnce
<1>9. Lossless'
  <2>1. CASE disconnected
    BY <2>1 DEF IInv, Lossless
  <2>2. CASE ~disconnected
    <3>1. connected /\ ~(closePosted = 0)
      BY <2>2 DEF IInv, PostedCloses, Phases
    <3>2. error = "Done" /\ "close" \notin lapses => writeQueue = <<>>
      BY <3>1 DEF IInv, CloseWaits
    <3>3. writeQueue = <<>> => sent = accepted
      BY StreamImpliesIntact DEF StreamIntact
    <3>4. error' = error /\ lapses' = lapses /\ sent' = sent /\ accepted' = accepted
      BY <2>2
    <3> QED BY <3>2, <3>3, <3>4 DEF Lossless
  <2> QED BY <2>1, <2>2
<1> QED BY <1>3, <1>4, <1>5, <1>6, <1>7, <1>8, <1>9 DEF IInv

LEMMA PostedProduceInv ==
    ASSUME IInv, PostedProduce PROVE IInv'
<1> USE DEF PostedProduce
<1>1. FlagsOK'
  BY DEF IInv, TypeOK, FlagsOK
<1>2. CountersOK'
  BY SizeAssumption DEF IInv, TypeOK, CountersOK, LostExactlyOnce
<1>3. TypeOK'
  BY <1>1, <1>2 DEF IInv, TypeOK
<1>4. FlagsTrackOperations' /\ Phases'
  BY DEF IInv, Phases, FlagsTrackOperations, PostedCloses
<1>5. Stream' /\ WriteInFlight'
  BY DEF IInv, Phases, FlagsTrackOperations, OpenIsActive, Stream, WriteInFlight
<1>6. OpenIsActive' /\ WaitingProducerIsRemembered' /\ CancelledHasReason'
  BY DEF IInv, TypeOK, Phases, FlagsTrackOperations, OpenIsActive, WriteInFlight,
         LostExactlyOnce, WaitingProducerIsRemembered, CancelledHasReason,
         DrainedIsRemembered
<1>7. LostExactlyOnce'
  BY DEF IInv, LostExactlyOnce, Phases
<1>8. CloseWaits' /\ PostedCloses' /\ DrainedIsRemembered'
  BY DEF IInv, TypeOK, CountersOK, Phases, FlagsTrackOperations, CloseWaits,
         PostedCloses, DrainedIsRemembered, WriteInFlight, LostExactlyOnce
<1>9. Lossless'
  BY StreamImpliesIntact
  DEF IInv, TypeOK, CountersOK, StreamIntact, Lossless, Phases,
      FlagsTrackOperations, WriteInFlight, CloseWaits, PostedCloses
<1> QED BY <1>3, <1>4, <1>5, <1>6, <1>7, <1>8, <1>9 DEF IInv

LEMMA ReadCompletesInv ==
    ASSUME NEW result \in {"ok", "eof", "err"}, IInv, ReadCompletes(result) PROVE IInv'
<1> USE DEF ReadCompletes
<1>1. FlagsOK'
  BY DEF IInv, TypeOK, FlagsOK
<1>2. CountersOK'
  BY SizeAssumption DEF IInv, TypeOK, CountersOK, LostExactlyOnce
<1>3. TypeOK'
  BY <1>1, <1>2 DEF IInv, TypeOK
<1>4. FlagsTrackOperations' /\ Phases'
  BY DEF IInv, Phases, FlagsTrackOperations, PostedCloses
<1>5. Stream' /\ WriteInFlight'
  BY DEF IInv, Phases, FlagsTrackOperations, OpenIsActive, Stream, WriteInFlight
<1>6. OpenIsActive' /\ WaitingProducerIsRemembered' /\ CancelledHasReason'
  BY DEF IInv, TypeOK, Phases, FlagsTrackOperations, OpenIsActive, WriteInFlight,
         LostExactlyOnce, WaitingProducerIsRemembered, CancelledHasReason,
         DrainedIsRemembered
<1>7. LostExactlyOnce'
  BY DEF IInv, LostExactlyOnce, Phases
<1>8. CloseWaits' /\ PostedCloses' /\ DrainedIsRemembered'
  BY DEF IInv, TypeOK, CountersOK, Phases, FlagsTrackOperations, CloseWaits,
         PostedCloses, DrainedIsRemembered, WriteInFlight, LostExactlyOnce
<1>9. Lossless'
  BY StreamImpliesIntact
  DEF IInv, TypeOK, CountersOK, StreamIntact, Lossless, Phases,
      FlagsTrackOperations, WriteInFlight, CloseWaits, PostedCloses
<1> QED BY <1>3, <1>4, <1>5, <1>6, <1>7, <1>8, <1>9 DEF IInv

LEMMA WriteCompletesInv ==
    ASSUME IInv, WriteCompletes PROVE IInv'
<1> USE DEF WriteCompletes
<1>1. FlagsOK'
  BY DEF IInv, TypeOK, FlagsOK
<1>2. CountersOK'
  <2>1. writeQueue # <<>>
    BY DEF IInv, WriteInFlight
  <2>2. Head(writeQueue) \in Nat /\ consumed \in Nat
    BY <2>1, HeadOK DEF IInv, Stream
  <2> QED BY <2>2 DEF IInv, TypeOK, CountersOK
<1>3. TypeOK'
  BY <1>1, <1>2 DEF IInv, TypeOK
<1>4. FlagsTrackOperations' /\ Phases'
  BY DEF IInv, Phases, FlagsTrackOperations, PostedCloses
<1>5. Stream' /\ WriteInFlight'
  <2>1. writeQueue # <<>>
    BY DEF IInv, WriteInFlight
  <2>2. /\ Head(writeQueue) \in Nat /\ consumed \in Nat /\ accepted \in Nat
        /\ consumed < Head(writeQueue) /\ Head(writeQueue) =< accepted
    BY <2>1, HeadOK DEF IInv, Stream
  <2>3. writeOpBytes = 0 /\ sent = consumed /\ sent \in Nat
    BY <2>2 DEF IInv, Stream, WriteInFlight
  <2>4. PICK n \in 1..(Head(writeQueue) - consumed) :
           writeOpBytes' = n /\ sent' = sent + n
    OBVIOUS
  <2>5. Stream'
    BY <2>2, <2>3, <2>4 DEF IInv, Stream
  <2>6. WriteInFlight'
    <3>1. consumed + writeOpBytes' =< Head(writeQueue) /\ writeOpBytes' > 0
      BY <2>2, <2>4
    <3>2. writeQueue' = writeQueue /\ consumed' = consumed
      OBVIOUS
    <3> QED BY <2>1, <3>1, <3>2 DEF IInv, WriteInFlight
  <2> QED BY <2>5, <2>6
<1>6. OpenIsActive' /\ WaitingProducerIsRemembered' /\ CancelledHasReason'
  BY DEF IInv, TypeOK, Phases, FlagsTrackOperations, OpenIsActive, WriteInFlight,
         LostExactlyOnce, WaitingProducerIsRemembered, CancelledHasReason,
         DrainedIsRemembered
<1>7. LostExactlyOnce'
  BY DEF IInv, LostExactlyOnce, Phases
<1>8. CloseWaits' /\ PostedCloses' /\ DrainedIsRemembered'
  BY DEF IInv, TypeOK, CountersOK, Phases, FlagsTrackOperations, CloseWaits,
         PostedCloses, DrainedIsRemembered, WriteInFlight, LostExactlyOnce
<1>9. Lossless'
  BY StreamImpliesIntact
  DEF IInv, TypeOK, CountersOK, StreamIntact, Lossless, Phases,
      FlagsTrackOperations, WriteInFlight, CloseWaits, PostedCloses
<1> QED BY <1>3, <1>4, <1>5, <1>6, <1>7, <1>8, <1>9 DEF IInv

LEMMA WriteBreaksInv ==
    ASSUME IInv, WriteBreaks PROVE IInv'
<1> USE DEF WriteBreaks
<1>1. FlagsOK'
  BY DEF IInv, TypeOK, FlagsOK
<1>2. CountersOK'
  BY SizeAssumption DEF IInv, TypeOK, CountersOK, LostExactlyOnce
<1>3. TypeOK'
  BY <1>1, <1>2 DEF IInv, TypeOK
<1>4. FlagsTrackOperations' /\ Phases'
  BY DEF IInv, Phases, FlagsTrackOperations, PostedCloses
<1>5. Stream' /\ WriteInFlight'
  BY DEF IInv, Phases, FlagsTrackOperations, OpenIsActive, Stream, WriteInFlight
<1>6. OpenIsActive' /\ WaitingProducerIsRemembered' /\ CancelledHasReason'
  BY DEF IInv, TypeOK, Phases, FlagsTrackOperations, OpenIsActive, WriteInFlight,
         LostExactlyOnce, WaitingProducerIsRemembered, CancelledHasReason,
         DrainedIsRemembered
<1>7. LostExactlyOnce'
  BY DEF IInv, LostExactlyOnce, Phases
<1>8. CloseWaits' /\ PostedCloses' /\ DrainedIsRemembered'
  BY DEF IInv, TypeOK, CountersOK, Phases, FlagsTrackOperations, CloseWaits,
         PostedCloses, DrainedIsRemembered, WriteInFlight, LostExactlyOnce
<1>9. Lossless'
  BY StreamImpliesIntact
  DEF IInv, TypeOK, CountersOK, StreamIntact, Lossless, Phases,
      FlagsTrackOperations, WriteInFlight, CloseWaits, PostedCloses
<1> QED BY <1>3, <1>4, <1>5, <1>6, <1>7, <1>8, <1>9 DEF IInv

(* doWrite, whatever the socket does: what is left in the queue continues  *)
(* the stream, and either nothing is left, or a write is outstanding, or   *)
(* the connection is being closed.                                         *)
WriteOutcome(resume) ==
    \/ /\ writing' = FALSE /\ writeOp' = "none" /\ writeQueue' = <<>>
       /\ pendingProducing' = (pendingProducing \/ resume)
       /\ UNCHANGED <<error, disconnecting, sockOpen, readOp, closePosted>>
    \/ /\ writing' = TRUE /\ writeOp' = "pending" /\ writeQueue' # <<>>
       /\ sockOpen
       /\ UNCHANGED <<error, disconnecting, sockOpen, readOp, closePosted,
                      pendingProducing>>
    \/ /\ error' = "Sys" /\ disconnecting' = TRUE
       /\ writing' = FALSE /\ writeOp' = "none"
       /\ DoClose(FALSE)
       /\ UNCHANGED pendingProducing

LEMMA DoWriteOK ==
    ASSUME NEW q, NEW from, NEW a, NEW resume,
           QueueOK(q, from, a), Len(q) > 0, sent = from, DoWrite(q, from, resume)
    PROVE  /\ QueueOK(writeQueue', consumed', a)
           /\ sent' = consumed' /\ sent =< sent' /\ sent' \in Nat /\ sent' =< a
           /\ WriteOutcome(resume)
<1>0. Continues(q, from, a)
  BY DEF QueueOK
<1>1. from \in Nat /\ a \in Nat /\ q[Len(q)] = a /\ Len(q) \in Nat
  BY <1>0 DEF Continues
<1>2. ASSUME NEW j \in 1..Len(q), NEW p \in BufferStart(q, from, j)..(q[j] - 1),
             writeQueue' = SubSeq(q, j, Len(q)), consumed' = p,
             sent' = sent + (p - from)
      PROVE  /\ QueueOK(writeQueue', consumed', a) /\ writeQueue' # <<>>
             /\ sent' = consumed' /\ sent =< sent' /\ sent' \in Nat /\ sent' =< a
  <2>1. QueueOK(writeQueue', p, a) /\ Len(writeQueue') > 0 /\ from =< p
    BY <1>2, DropOK
  <2>2. writeQueue' # <<>>
    BY <2>1, EmptySeq DEF QueueOK
  <2>3. p \in Nat /\ p =< a
    BY <2>1 DEF QueueOK, Continues
  <2> QED BY <1>1, <1>2, <2>1, <2>2, <2>3
<1>3. CASE WriteDrained(q, from, resume)
  <2>1. consumed' = a /\ sent' = a /\ sent =< a /\ writeQueue' = <<>>
    BY <1>0, <1>1, <1>3 DEF WriteDrained, Continues
  <2>2. QueueOK(<<>>, a, a)
    BY <1>1, EmptySeq DEF QueueOK, Continues
  <2>3. WriteOutcome(resume)
    BY <1>3 DEF WriteDrained, WriteOutcome
  <2> QED BY <1>1, <2>1, <2>2, <2>3
<1>4. CASE WriteBlocked(q, from)
  <2>1. PICK j \in 1..Len(q) : \E p \in BufferStart(q, from, j)..(q[j] - 1) :
           /\ writeQueue' = SubSeq(q, j, Len(q))
           /\ consumed' = p
           /\ sent' = sent + (p - from)
    BY <1>4 DEF WriteBlocked
  <2>2. /\ QueueOK(writeQueue', consumed', a) /\ writeQueue' # <<>>
        /\ sent' = consumed' /\ sent =< sent' /\ sent' \in Nat /\ sent' =< a
    BY <2>1, <1>2
  <2>3. WriteOutcome(resume)
    BY <1>4, <2>2 DEF WriteBlocked, WriteOutcome
  <2> QED BY <2>2, <2>3
<1>5. CASE WriteFailed(q, from)
  <2>1. PICK j \in 1..Len(q) :
           /\ writeQueue' = SubSeq(q, j, Len(q))
           /\ consumed' = BufferStart(q, from, j)
           /\ sent' = sent + (BufferStart(q, from, j) - from)
    BY <1>5 DEF WriteFailed
  <2>2. BufferStart(q, from, j) \in Nat /\ q[j] \in Nat
        /\ BufferStart(q, from, j) < q[j]
    BY <1>0, <1>1 DEF Continues, BufferStart
  <2>3. BufferStart(q, from, j) \in BufferStart(q, from, j)..(q[j] - 1)
    BY <2>2
  <2>4. /\ QueueOK(writeQueue', consumed', a)
        /\ sent' = consumed' /\ sent =< sent' /\ sent' \in Nat /\ sent' =< a
    BY <2>1, <2>3, <1>2
  <2>5. WriteOutcome(resume)
    BY <1>5 DEF WriteFailed, WriteOutcome
  <2> QED BY <2>4, <2>5
<1> QED BY <1>3, <1>4, <1>5 DEF DoWrite

(* The rest of a call that queued q, or that returns from pauseProducing.  *)
StartedFrom(q) ==
    /\ QueueOK(q, consumed, accepted')
    /\ accepted' \in 0..MaxBytes /\ accepted' \in Nat
    /\ accepted \in Nat /\ accepted =< accepted'
    /\ writeQueue # <<>> => q # <<>> /\ Head(q) = Head(writeQueue)
    /\ q = <<>> => writeQueue = <<>> /\ ~(owed' /\ ~owed)
    /\ error = "Done" => q = writeQueue
    /\ connected
    /\ pausing' \in Nat /\ (pausing' > 0 => pausing > 0)
    /\ lapses' = lapses \ {"write"}
    /\ owed' \in BOOLEAN /\ (owed' => owed \/ producer = "pull")
    /\ UNCHANGED <<connected, disconnected, aborting, reading, producer,
                   producerPaused, writeOpBytes, frame, lost, packets>>

LEMMA StartWritingOK ==
    ASSUME NEW q, IInv, StartedFrom(q), StartWriting(q)
    PROVE  IInv' /\ sent =< sent'
<1> DEFINE resume == producer = "pull"
                        \/ (producer = "streaming" /\ producerPaused)
<1>0. /\ connected /\ ~disconnected
      /\ resume \in BOOLEAN /\ (owed' => resume)
      /\ (~disconnecting => error = "none")
  BY DEF StartedFrom, IInv, Phases, TypeOK, FlagsOK
<1>1. \/ /\ writing
         /\ writeQueue' = q
         /\ UNCHANGED <<writing, consumed, sent, pendingProducing, error,
                        disconnecting, sockOpen, readOp, writeOp, closePosted,
                        crashed>>
      \/ /\ ~writing /\ q # <<>>
         /\ DoWrite(q, consumed, resume)
         /\ UNCHANGED crashed
      \/ /\ ~writing /\ q = <<>>
         /\ crashed' = TRUE
         /\ UNCHANGED <<writing, byteVars, pendingProducing, error,
                        disconnecting, sockOpen, readOp, writeOp, closePosted>>
  BY DEF StartWriting
<1> HIDE DEF resume
<1>2. /\ lapses' \subseteq Lapses /\ ("close" \in lapses' <=> "close" \in lapses)
      /\ ("read" \in lapses' <=> "read" \in lapses)
  BY DEF StartedFrom, IInv, TypeOK
<1>3. CASE writing
  <2>0. /\ writeQueue' = q
        /\ UNCHANGED <<flagVars, reading, writing, consumed, sent,
                       pendingProducing, sockVars, producer, producerPaused,
                       frame, crashed, lost, packets>>
    BY <1>1, <1>3 DEF StartedFrom
  <2>1. FlagsOK'
    BY <2>0 DEF StartedFrom, IInv, TypeOK, FlagsOK
  <2>2. CountersOK'
    BY <2>0 DEF StartedFrom, IInv, TypeOK, CountersOK
  <2>3. TypeOK'
    BY <1>2, <2>0, <2>1, <2>2 DEF StartedFrom, IInv, TypeOK, QueueOK
  <2>4. FlagsTrackOperations' /\ Phases'
    BY <1>0, <2>0 DEF StartedFrom, IInv, Phases, FlagsTrackOperations
  <2>5. Stream'
    <3>1. sent' =< accepted'
      BY <2>0 DEF StartedFrom, IInv, TypeOK, CountersOK, Stream
    <3> QED BY <2>0, <3>1 DEF StartedFrom, IInv, Stream
  <2>6. WriteInFlight'
    BY <1>3, <2>0 DEF StartedFrom, IInv, WriteInFlight
  <2>7. OpenIsActive' /\ WaitingProducerIsRemembered' /\ CancelledHasReason'
    BY <1>2, <1>3, <2>0 DEF IInv, OpenIsActive, WaitingProducerIsRemembered,
                            CancelledHasReason
  <2>8. LostExactlyOnce' /\ PostedCloses' /\ Lossless'
    BY <1>0, <1>3, <2>0 DEF IInv, LostExactlyOnce, PostedCloses, Lossless
  <2>9. CloseWaits' /\ DrainedIsRemembered'
    BY <1>2, <1>3, <2>0
    DEF StartedFrom, IInv, CloseWaits, DrainedIsRemembered
  <2>10. sent =< sent'
    BY <2>0 DEF IInv, TypeOK, CountersOK
  <2> QED BY <2>3, <2>4, <2>5, <2>6, <2>7, <2>8, <2>9, <2>10 DEF IInv
<1>4. CASE ~writing /\ q = <<>>
  <2>0. /\ writeQueue = <<>> /\ crashed' = TRUE
        /\ UNCHANGED <<flagVars, reading, writing, byteVars, pendingProducing,
                       sockVars, producer, producerPaused, frame, lost, packets>>
    BY <1>1, <1>4 DEF StartedFrom
  <2>1. FlagsOK'
    BY <2>0 DEF StartedFrom, IInv, TypeOK, FlagsOK
  <2>2. CountersOK'
    BY <2>0 DEF StartedFrom, IInv, TypeOK, CountersOK
  <2>3. TypeOK'
    BY <1>2, <2>0, <2>1, <2>2 DEF StartedFrom, IInv, TypeOK
  <2>4. FlagsTrackOperations' /\ Phases'
    BY <1>0, <2>0 DEF StartedFrom, IInv, Phases, FlagsTrackOperations
  <2>5. Stream' /\ WriteInFlight'
    BY <2>0 DEF IInv, Stream, WriteInFlight
  <2>6. OpenIsActive' /\ WaitingProducerIsRemembered' /\ CancelledHasReason'
    BY <1>2, <1>4, <2>0
    DEF StartedFrom, IInv, OpenIsActive, WaitingProducerIsRemembered,
        CancelledHasReason, DrainedIsRemembered
  <2>7. LostExactlyOnce' /\ PostedCloses' /\ Lossless'
    BY <1>0, <2>0 DEF IInv, LostExactlyOnce, PostedCloses, Lossless
  <2>8. CloseWaits' /\ DrainedIsRemembered'
    BY <1>4, <2>0 DEF StartedFrom, IInv, CloseWaits, DrainedIsRemembered
  <2>9. sent =< sent'
    BY <2>0 DEF IInv, TypeOK, CountersOK
  <2> QED BY <2>3, <2>4, <2>5, <2>6, <2>7, <2>8, <2>9 DEF IInv
<1>5. CASE ~writing /\ q # <<>>
  <2>0. sent = consumed /\ writeOp = "none" /\ writeOpBytes = 0
        /\ consumed \in Nat /\ Len(q) > 0
    BY <1>5, EmptySeq DEF StartedFrom, QueueOK, Continues, IInv, TypeOK, CountersOK,
          Stream, WriteInFlight, FlagsTrackOperations
  <2>1. /\ QueueOK(writeQueue', consumed', accepted')
        /\ sent' = consumed' /\ sent =< sent' /\ sent' \in Nat /\ sent' =< accepted'
        /\ WriteOutcome(resume) /\ crashed' = crashed
    BY <1>1, <1>5, <2>0, DoWriteOK DEF StartedFrom
  <2>2. FlagsOK'
    BY <1>0, <2>1 DEF StartedFrom, WriteOutcome, IInv, TypeOK, FlagsOK
  <2>3. CountersOK'
    BY <2>0, <2>1
    DEF StartedFrom, WriteOutcome, IInv, TypeOK, CountersOK, QueueOK, Continues
  <2>4. TypeOK'
    BY <1>2, <2>1, <2>2, <2>3 DEF StartedFrom, WriteOutcome, IInv, TypeOK, QueueOK
  <2>5. FlagsTrackOperations' /\ Phases'
    BY <1>0, <1>5, <2>1
    DEF StartedFrom, WriteOutcome, IInv, Phases, FlagsTrackOperations
  <2>6. Stream'
    <3>1. writeOpBytes' = 0
      BY <2>0 DEF StartedFrom
    <3>2. consumed' \in Nat /\ sent' = consumed'
      BY <2>1
    <3> QED BY <2>1, <3>1, <3>2, PlusZero DEF Stream
  <2>7. WriteInFlight'
    BY <1>0, <1>5, <2>0, <2>1
    DEF StartedFrom, WriteOutcome, IInv, WriteInFlight, FlagsTrackOperations, Phases,
        LostExactlyOnce
  <2>8. OpenIsActive' /\ WaitingProducerIsRemembered' /\ CancelledHasReason'
    BY <1>0, <1>2, <1>5, <2>1
    DEF StartedFrom, WriteOutcome, IInv, Phases, OpenIsActive,
        WaitingProducerIsRemembered, CancelledHasReason, FlagsTrackOperations
  <2>9. LostExactlyOnce' /\ Lossless'
    BY <1>0, <2>1 DEF StartedFrom, IInv, LostExactlyOnce, Lossless
  <2>10. PostedCloses'
    BY <1>0, <1>5, <2>0, <2>1
    DEF StartedFrom, WriteOutcome, IInv, PostedCloses, TypeOK, CountersOK
  <2>11. CloseWaits' /\ DrainedIsRemembered'
    BY <1>0, <1>2, <1>5, <2>0, <2>1
    DEF StartedFrom, WriteOutcome, IInv, CloseWaits, DrainedIsRemembered
  <2> QED BY <2>1, <2>4, <2>5, <2>6, <2>7, <2>8, <2>9, <2>10, <2>11 DEF IInv
<1> QED BY <1>3, <1>4, <1>5

LEMMA WriteInv ==
    ASSUME NEW n \in BufferSizes, IInv, Write(n) PROVE IInv' /\ sent =< sent'
<1> DEFINE q == Append(writeQueue, accepted + n)
           pauses == producer = "streaming"
                       /\ accepted + n - consumed > WriteBufferSize
<1>1. QueueOK(q, consumed, accepted + n) /\ Len(q) > 0 /\ q # <<>>
  <2>1. QueueOK(writeQueue, consumed, accepted) /\ n \in Nat \ {0}
    BY SizeAssumption DEF IInv, Stream
  <2>2. QueueOK(q, consumed, accepted + n) /\ Len(q) > 0
    BY <2>1, AppendOK
  <2> QED BY <2>2, EmptySeq
<1>2. writeQueue # <<>> => Head(q) = Head(writeQueue)
  <2>1. ASSUME writeQueue # <<>> PROVE Head(q) = Head(writeQueue)
    <3>1. writeQueue \in Seq(Nat) /\ Len(writeQueue) > 0 /\ accepted + n \in Nat
      BY <2>1, HeadOK, SizeAssumption DEF IInv, Stream, QueueOK, TypeOK, CountersOK
    <3>2. Head(writeQueue) = writeQueue[1] /\ q[1] = writeQueue[1]
      BY <2>1, <3>1, AppendProperties DEF q
    <3>3. Head(q) = q[1]
      BY <1>1, HeadOK
    <3> QED BY <3>2, <3>3
  <2> QED BY <2>1
<1>3. /\ ~Closed /\ accepted + n =< MaxBytes /\ accepted' = accepted + n
      /\ \/ /\ pauses
            /\ writeQueue' = q
            /\ producerPaused' = TRUE /\ owed' = TRUE
            /\ pausing' = pausing + 1
            /\ UNCHANGED <<writing, consumed, sent, pendingProducing, error,
                           disconnecting, sockOpen, readOp, writeOp, closePosted,
                           lapses, crashed>>
         \/ /\ owed' = (owed \/ producer = "pull")
            /\ StartWriting(q)
            /\ lapses' = lapses \ {"write"}
            /\ UNCHANGED <<producerPaused, pausing>>
      /\ UNCHANGED <<connected, disconnected, aborting, reading, producer,
                     writeOpBytes, frame, lost, packets>>
  BY DEF Write
<1>4. /\ pauses => producer = "streaming"
      /\ accepted' \in 0..MaxBytes /\ accepted' \in Nat
      /\ accepted \in Nat /\ accepted =< accepted'
      /\ connected /\ ~disconnecting /\ ~disconnected /\ error = "none"
  <2>1. /\ accepted' \in 0..MaxBytes /\ accepted' \in Nat
        /\ accepted \in Nat /\ accepted =< accepted'
    BY <1>3, SizeAssumption DEF IInv, TypeOK, CountersOK
  <2> QED BY <1>3, <2>1 DEF IInv, Phases
<1> HIDE DEF q, pauses
<1>5. CASE pauses /\ pausing' = pausing + 1
  <2>0. /\ writeQueue' = q /\ writeQueue' # <<>> /\ owed' = TRUE
        /\ producerPaused' = TRUE /\ pausing' = pausing + 1
        /\ producer = "streaming" /\ pausing' > 0 /\ pausing' \in Nat
        /\ UNCHANGED <<flagVars, reading, writing, consumed, sent,
                       pendingProducing, sockVars, producer, frame, lapses,
                       crashed, lost, packets>>
    <3>1. pausing \in Nat /\ pausing' # pausing
      BY <1>5 DEF IInv, TypeOK, CountersOK
    <3> QED BY <1>1, <1>3, <1>4, <1>5, <3>1
  <2>1. FlagsOK'
    BY <2>0 DEF IInv, TypeOK, FlagsOK
  <2>2. CountersOK'
    BY <1>4, <2>0 DEF IInv, TypeOK, CountersOK
  <2>3. TypeOK'
    BY <1>1, <2>0, <2>1, <2>2 DEF IInv, TypeOK, QueueOK
  <2>4. FlagsTrackOperations' /\ Phases'
    BY <1>4, <2>0 DEF IInv, Phases, FlagsTrackOperations
  <2>5. Stream'
    <3>1. sent' =< accepted'
      BY <1>4, <2>0 DEF IInv, TypeOK, CountersOK, Stream
    <3> QED BY <1>1, <1>3, <2>0, <3>1 DEF IInv, Stream
  <2>6. WriteInFlight'
    BY <1>2, <2>0 DEF IInv, WriteInFlight
  <2>7. OpenIsActive' /\ WaitingProducerIsRemembered' /\ CancelledHasReason'
    BY <2>0 DEF IInv, OpenIsActive, WaitingProducerIsRemembered,
                CancelledHasReason
  <2>8. LostExactlyOnce' /\ PostedCloses' /\ Lossless' /\ CloseWaits'
        /\ DrainedIsRemembered'
    BY <1>4, <2>0
    DEF IInv, LostExactlyOnce, PostedCloses, Lossless, CloseWaits,
        DrainedIsRemembered
  <2>9. sent =< sent'
    BY <2>0 DEF IInv, TypeOK, CountersOK
  <2> QED BY <2>3, <2>4, <2>5, <2>6, <2>7, <2>8, <2>9 DEF IInv
<1>6. CASE StartWriting(q) /\ lapses' = lapses \ {"write"} /\ pausing' = pausing
           /\ owed' = (owed \/ producer = "pull") /\ producerPaused' = producerPaused
  <2>1. StartedFrom(q)
    BY <1>1, <1>2, <1>3, <1>4, <1>6
    DEF StartedFrom, IInv, TypeOK, FlagsOK, CountersOK
  <2> QED BY <1>6, <2>1, StartWritingOK
<1> QED BY <1>3, <1>5, <1>6

LEMMA PauseProducingReturnsInv ==
    ASSUME IInv, PauseProducingReturns PROVE IInv' /\ sent =< sent'
<1>1. StartedFrom(writeQueue) /\ StartWriting(writeQueue)
  <2>1. QueueOK(writeQueue, consumed, accepted') /\ accepted' = accepted
    BY DEF PauseProducingReturns, IInv, Stream
  <2>2. pausing' \in Nat /\ (pausing' > 0 => pausing > 0) /\ connected
    BY DEF PauseProducingReturns, IInv, TypeOK, CountersOK, Phases
  <2> QED BY <2>1, <2>2
          DEF PauseProducingReturns, StartedFrom, IInv, TypeOK, FlagsOK, CountersOK
<1> QED BY <1>1, StartWritingOK

LEMMA CbWriteOkInv ==
    ASSUME IInv, CbWriteOk PROVE IInv' /\ sent =< sent'
<1> DEFINE taken == consumed + writeOpBytes
           q == IF taken >= Head(writeQueue) THEN Tail(writeQueue) ELSE writeQueue
           resume == producer = "pull" \/ (producer = "streaming" /\ producerPaused)
<1>1. /\ QueueOK(q, taken, accepted) /\ (q # <<>> => Len(q) > 0)
      /\ sent = taken /\ taken \in Nat /\ taken =< accepted
      /\ (q = <<>> => taken = accepted)
  <2>1. writeQueue # <<>> /\ QueueOK(writeQueue, consumed, accepted)
        /\ taken =< Head(writeQueue) /\ sent = taken /\ sent =< accepted
        /\ taken \in Nat /\ consumed =< taken
    BY DEF CbWriteOk, IInv, Stream, WriteInFlight, TypeOK, CountersOK
  <2>2. QueueOK(q, taken, accepted)
    BY <2>1, HeadOK, PopOK
  <2> HIDE DEF q, taken
  <2>3. q # <<>> => Len(q) > 0
    BY <2>2, EmptySeq DEF QueueOK
  <2>4. q = <<>> => taken = accepted
    BY <2>2, EmptySeq DEF QueueOK, Continues
  <2>5. taken =< accepted
    BY <2>2 DEF QueueOK, Continues
  <2> QED BY <2>1, <2>2, <2>3, <2>4, <2>5
<1>2. /\ frame = "idle" /\ pausing = 0 /\ writeOp = "ok" /\ writeOpBytes' = 0
      /\ UNCHANGED <<reading, accepted, callVars, packets>>
      /\ writing
  BY DEF CbWriteOk, IInv, FlagsTrackOperations
<1>3. \/ /\ (disconnecting /\ q = <<>>) \/ aborting
         /\ writeQueue' = q /\ consumed' = taken
         /\ writing' = FALSE
         /\ CloseSocket(error, readOp, "none")
         /\ UNCHANGED <<sent, producerPaused, pendingProducing, closePosted>>
      \/ /\ ~aborting /\ ~disconnected /\ q # <<>>
         /\ DoWrite(q, taken, resume)
         /\ UNCHANGED <<connected, disconnected, aborting, producer,
                        producerPaused, owed, lost>>
      \/ /\ ~aborting /\ ~disconnecting /\ ~disconnected /\ q = <<>>
         /\ writeQueue' = q /\ consumed' = taken
         /\ writing' = FALSE /\ writeOp' = "none"
         /\ WriteDone
         /\ UNCHANGED <<flagVars, sent, producer, pendingProducing, sockOpen,
                        readOp, closePosted, lost>>
      \/ /\ disconnected
         /\ writeQueue' = q /\ consumed' = taken
         /\ writing' = FALSE /\ writeOp' = "none"
         /\ UNCHANGED <<flagVars, sent, prodVars, sockOpen, readOp,
                        closePosted, lost>>
  BY DEF CbWriteOk
<1> HIDE DEF q, taken, resume
<1>4. CASE ~(~aborting /\ ~disconnected /\ q # <<>>)
  <2>0. /\ writeQueue' = q /\ consumed' = taken /\ sent' = sent
        /\ writing' = FALSE /\ writeOp' = "none"
        /\ closePosted' = closePosted
    BY <1>3, <1>4
  <2>1. FlagsOK'
    BY <1>2, <1>3, <1>4 DEF IInv, TypeOK, FlagsOK
  <2>2. CountersOK'
    BY <1>1, <1>2, <1>3, <1>4, <2>0 DEF IInv, TypeOK, CountersOK, LostExactlyOnce
  <2>3. TypeOK'
    BY <1>1, <1>2, <1>3, <1>4, <2>0, <2>1, <2>2 DEF IInv, TypeOK, QueueOK
  <2>4. FlagsTrackOperations' /\ Phases'
    BY <1>2, <1>3, <1>4 DEF IInv, Phases, FlagsTrackOperations
  <2>5. Stream'
    BY <1>1, <1>2, <2>0 DEF IInv, Stream
  <2>6. WriteInFlight'
    BY <1>2, <1>3, <1>4, <2>0 DEF IInv, WriteInFlight, Phases, FlagsTrackOperations
  <2>7. OpenIsActive' /\ WaitingProducerIsRemembered' /\ CancelledHasReason'
    BY <1>2, <1>3, <1>4, <2>0
    DEF IInv, Phases, OpenIsActive, WaitingProducerIsRemembered, LostExactlyOnce,
        CancelledHasReason, FlagsTrackOperations
  <2>8. LostExactlyOnce'
    BY <1>3, <1>4 DEF IInv, LostExactlyOnce, Phases
  <2>9. PostedCloses' /\ CloseWaits' /\ DrainedIsRemembered'
    BY <1>2, <1>3, <1>4, <2>0
    DEF IInv, TypeOK, CountersOK, PostedCloses, CloseWaits, DrainedIsRemembered,
        Phases, LostExactlyOnce
  <2>10. Lossless'
    BY <1>1, <1>2, <1>3, <1>4, <2>0 DEF IInv, Lossless, Phases
  <2>11. sent =< sent'
    BY <2>0 DEF IInv, TypeOK, CountersOK
  <2> QED BY <2>3, <2>4, <2>5, <2>6, <2>7, <2>8, <2>9, <2>10, <2>11 DEF IInv
<1>5. CASE ~aborting /\ ~disconnected /\ q # <<>>
  <2>0. /\ DoWrite(q, taken, resume)
        /\ UNCHANGED <<connected, disconnected, aborting, producer,
                       producerPaused, owed, lost>>
        /\ connected /\ writeQueue # <<>>
    BY <1>2, <1>3, <1>5 DEF IInv, Phases, FlagsTrackOperations, WriteInFlight
  <2>1. /\ QueueOK(writeQueue', consumed', accepted')
        /\ sent' = consumed' /\ sent =< sent' /\ sent' \in Nat /\ sent' =< accepted'
        /\ WriteOutcome(resume)
    BY <1>1, <1>2, <1>5, <2>0, DoWriteOK
  <2>2. FlagsOK'
    BY <1>2, <2>0, <2>1 DEF resume, WriteOutcome, IInv, TypeOK, FlagsOK
  <2>3. CountersOK'
    BY <1>2, <2>0, <2>1 DEF WriteOutcome, IInv, TypeOK, CountersOK, QueueOK, Continues
  <2>4. TypeOK'
    BY <1>2, <2>0, <2>1, <2>2, <2>3 DEF WriteOutcome, IInv, TypeOK, QueueOK
  <2>5. FlagsTrackOperations' /\ Phases'
    BY <1>2, <1>5, <2>0, <2>1 DEF WriteOutcome, IInv, Phases, FlagsTrackOperations
  <2>6. Stream'
    <3>1. writeOpBytes' = 0
      BY <1>2
    <3>2. consumed' \in Nat /\ sent' = consumed'
      BY <2>1
    <3> QED BY <2>1, <3>1, <3>2, PlusZero DEF Stream
  <2>7. WriteInFlight'
    BY <1>2, <1>5, <2>0, <2>1
    DEF WriteOutcome, IInv, WriteInFlight, FlagsTrackOperations, Phases
  <2>8. OpenIsActive' /\ WaitingProducerIsRemembered' /\ CancelledHasReason'
    <3>1. OpenIsActive'
      BY <1>2, <1>5, <2>0, <2>1
      DEF WriteOutcome, IInv, OpenIsActive, FlagsTrackOperations
    <3>2. WaitingProducerIsRemembered'
      BY <1>2, <1>5, <2>0, <2>1
      DEF resume, WriteOutcome, IInv, Phases, WaitingProducerIsRemembered
    <3>3. CancelledHasReason'
      BY <1>2, <1>5, <2>0, <2>1 DEF WriteOutcome, IInv, CancelledHasReason, Phases
    <3> QED BY <3>1, <3>2, <3>3
  <2>9. LostExactlyOnce' /\ Lossless'
    BY <1>5, <2>0 DEF IInv, LostExactlyOnce, Lossless
  <2>10. PostedCloses' /\ CloseWaits'
    BY <1>2, <1>5, <2>0, <2>1
    DEF WriteOutcome, IInv, PostedCloses, CloseWaits, Phases, TypeOK, CountersOK
  <2>11. DrainedIsRemembered'
    BY <1>2, <2>0, <2>1
    DEF resume, WriteOutcome, IInv, Phases, DrainedIsRemembered
  <2> QED BY <2>1, <2>4, <2>5, <2>6, <2>7, <2>8, <2>9, <2>10, <2>11 DEF IInv
<1> QED BY <1>4, <1>5

LEMMA NextInv == IInv /\ [Next]_vars => IInv'
<1> SUFFICES ASSUME IInv, [Next]_vars PROVE IInv'
  OBVIOUS
<1>1. CASE Application
  BY <1>1, WriteInv, LoseConnectionInv, AbortConnectionInv,
     RegisterProducerInv, UnregisterProducerInv
  DEF Application
<1>2. CASE Handler
  BY <1>2, CbConnectInv, ConnectionMadeReturnsInv, CbReadDataInv,
     DataReceivedReturnsInv, CallbackThrowsInv, PauseProducingReturnsInv,
     PauseProducingThrowsInv, CbReadIgnoredInv, CbReadFailedInv, CbWriteOkInv,
     CbWriteFailedInv, PostedCloseInv, PostedProduceInv
  DEF Handler
<1>3. CASE Network
  BY <1>3, ReadCompletesInv, WriteCompletesInv, WriteBreaksInv DEF Network
<1>4. CASE UNCHANGED vars
  <2>1. TypeOK'
    BY <1>4 DEF IInv, vars, TypeOK, FlagsOK, CountersOK
  <2>2. Stream' /\ WriteInFlight'
    BY <1>4 DEF IInv, vars, Stream, WriteInFlight
  <2> QED
    BY <1>4, <2>1, <2>2
    DEF IInv, vars, FlagsTrackOperations, Phases, OpenIsActive,
        LostExactlyOnce, CancelledHasReason, WaitingProducerIsRemembered,
        CloseWaits, PostedCloses, DrainedIsRemembered, Lossless
<1> QED BY <1>1, <1>2, <1>3, <1>4 DEF Next

(* The inductive invariant holds in every reachable state.                 *)
THEOREM Invariance == Spec => []IInv
  BY InitInv, NextInv, PTL DEF Spec

(* Every variable keeps its type, whatever the application, the handlers   *)
(* and the network do in whatever order.                                   *)
THEOREM TypeCorrect == Spec => []TypeOK
<1>1. IInv => TypeOK
  BY DEF IInv
<1> QED BY <1>1, Invariance, PTL

(* What doWrite and handleWrite leave in _writeQueue continues the stream  *)
(* exactly where the kernel stopped: no byte is sent twice or skipped.     *)
THEOREM StreamCorrect == Spec => []StreamIntact
  BY StreamImpliesIntact, Invariance, PTL

(* connectionLost is called exactly once, when the connection becomes      *)
(* disconnected, and the producer was stopped before.                      *)
THEOREM LostOnce == Spec => []LostExactlyOnce
<1>1. IInv => LostExactlyOnce
  BY DEF IInv
<1> QED BY <1>1, Invariance, PTL

(* While the connection is open, only an exception of the application      *)
(* leaves it with queued bytes that nobody writes, or without a read.      *)
THEOREM NeverStalled == Spec => []OpenIsActive
<1>1. IInv => OpenIsActive
  BY DEF IInv
<1> QED BY <1>1, Invariance, PTL

(* A producer that waits for resumeProducing is not forgotten.             *)
THEOREM ProducerRemembered == Spec => []WaitingProducerIsRemembered
<1>1. IInv => WaitingProducerIsRemembered
  BY DEF IInv
<1> QED BY <1>1, Invariance, PTL

(* The assertions at tcp.cpp:121 and tcp.cpp:215 cannot fail.              *)
THEOREM AssertionsHold == Spec => []CancelledHasReason
<1>1. IInv => CancelledHasReason
  BY DEF IInv
<1> QED BY <1>1, Invariance, PTL

-----------------------------------------------------------------------------
(* The connection keeps the promise of Transport.                          *)

LEMMA InitRefines == Init => Abstract!Init
  BY DEF Init, Abstract!Init, Phase, Reason

(* A step that closes the socket is the Close of Transport: the reason is  *)
(* "graceful" only if everything was sent.                                 *)
LEMMA CloseRefines ==
    ASSUME IInv, IInv', connected, ~disconnected, disconnected',
           UNCHANGED <<accepted, sent>>
    PROVE  Abstract!Close
<1>1. Phase \in {"open", "closing"} /\ Phase' = "closed"
  BY DEF Phase
<1>2. CASE error' = "Done" /\ "close" \notin lapses'
  <2>1. sent = accepted
    BY <1>2 DEF IInv, Lossless
  <2> QED BY <1>1, <1>2, <2>1 DEF Abstract!Close, Reason
<1>3. CASE ~(error' = "Done" /\ "close" \notin lapses')
  BY <1>1, <1>3 DEF Abstract!Close, Reason
<1> QED BY <1>2, <1>3

(* A step that sends, or that starts closing, without taking bytes.        *)
LEMMA TransferRefines ==
    ASSUME IInv, connected, ~disconnected, connected', ~disconnected',
           disconnecting => disconnecting',
           sent' \in sent..accepted, UNCHANGED accepted
    PROVE  Abstract!Transfer
  BY DEF Abstract!Transfer, Phase, Reason, IInv, TypeOK, FlagsOK

LEMMA WriteRefines ==
    ASSUME IInv, IInv', NEW n \in BufferSizes, Write(n) PROVE Abstract!Accept
<1>1. Phase = "open" /\ Reason' = Reason /\ Phase' \in {"open", "closing"}
  BY DEF Write, Phase, Reason
<1>2. accepted' = accepted + n /\ accepted \in Nat /\ n \in Nat \ {0}
  BY SizeAssumption DEF Write, IInv, TypeOK, CountersOK
<1>3. sent' \in Nat /\ sent' =< accepted'
  BY DEF IInv, TypeOK, CountersOK, Stream
<1>4. sent \in Nat /\ sent =< sent'
  BY WriteInv DEF IInv, TypeOK, CountersOK
<1> QED BY <1>1, <1>2, <1>3, <1>4 DEF Abstract!Accept

LEMMA PauseProducingReturnsRefines ==
    ASSUME IInv, IInv', PauseProducingReturns PROVE Abstract!Transfer
<1>1. /\ connected /\ ~disconnected /\ connected' /\ ~disconnected'
      /\ accepted' = accepted
  BY DEF PauseProducingReturns, IInv, Phases
<1>2. disconnecting => disconnecting'
  BY DEF PauseProducingReturns, StartWriting, DoWrite, WriteDrained, WriteBlocked,
         WriteFailed
<1>3. sent' \in sent..accepted
  <2>1. sent' \in Nat /\ sent' =< accepted'
    BY DEF IInv, TypeOK, CountersOK, Stream
  <2>2. sent \in Nat /\ accepted \in Nat
    BY SizeAssumption DEF IInv, TypeOK, CountersOK
  <2> QED BY <1>1, <2>1, <2>2, PauseProducingReturnsInv
<1> QED BY <1>1, <1>2, <1>3, TransferRefines

LEMMA CbWriteOkRefines ==
    ASSUME IInv, IInv', CbWriteOk
    PROVE  Abstract!Close \/ Abstract!Transfer \/ UNCHANGED Abstract!vars
<1>1. CASE disconnected
  BY <1>1 DEF CbWriteOk, Abstract!vars, Phase, Reason, IInv, Phases
<1>2. CASE ~disconnected /\ disconnected'
  <2>1. connected /\ UNCHANGED <<accepted, sent>>
    BY <1>2 DEF CbWriteOk, IInv, Phases, FlagsTrackOperations
  <2> QED BY <1>2, <2>1, CloseRefines
<1>3. CASE ~disconnected /\ ~disconnected'
  <2>1. connected /\ connected' /\ (disconnecting => disconnecting')
        /\ accepted' = accepted
    BY <1>3 DEF CbWriteOk, DoWrite, WriteDrained, WriteBlocked, WriteFailed,
                IInv, Phases, FlagsTrackOperations
  <2>2. sent' \in Nat /\ sent' =< accepted' /\ sent \in Nat /\ accepted \in Nat
    <3>1. sent' \in Nat /\ sent' =< accepted'
      BY DEF IInv, TypeOK, CountersOK, Stream
    <3>2. sent \in Nat /\ accepted \in Nat
      BY SizeAssumption DEF IInv, TypeOK, CountersOK
    <3> QED BY <3>1, <3>2
  <2>3. sent' \in sent..accepted
    BY <2>1, <2>2, CbWriteOkInv
  <2> QED BY <1>3, <2>1, <2>3, TransferRefines
<1> QED BY <1>1, <1>2, <1>3 DEF IInv, TypeOK, FlagsOK

(* What can end the connection besides cbWrite.                            *)
LEMMA EndRefines ==
    ASSUME IInv, IInv', CbReadFailed \/ CbWriteFailed \/ PostedClose
    PROVE  Abstract!Close \/ UNCHANGED Abstract!vars
<1>1. CASE disconnected
  BY <1>1 DEF CbReadFailed, CbWriteFailed, PostedClose, Abstract!vars, Phase, Reason
<1>2. CASE ~disconnected
  <2>1. connected /\ disconnected' /\ UNCHANGED <<accepted, sent>>
    BY <1>2 DEF CbReadFailed, CbWriteFailed, PostedClose, IInv, Phases,
                FlagsTrackOperations, PostedCloses, TypeOK, CountersOK
  <2> QED BY <1>2, <2>1, CloseRefines
<1> QED BY <1>1, <1>2

LEMMA StartCloseRefines ==
    ASSUME IInv, IInv', LoseConnection \/ AbortConnection
    PROVE  Abstract!Transfer
<1>1. connected /\ ~disconnected /\ connected' /\ ~disconnected' /\ disconnecting'
      /\ sent' = sent /\ accepted' = accepted
  BY DEF LoseConnection, AbortConnection
<1>2. sent \in sent..accepted
  BY DEF IInv, TypeOK, CountersOK, Stream
<1> QED BY <1>1, <1>2, TransferRefines

LEMMA WriteCompletesRefines ==
    ASSUME IInv, IInv', WriteCompletes
    PROVE  Abstract!Transfer
<1>1. connected /\ ~disconnected /\ connected' /\ ~disconnected'
      /\ disconnecting' = disconnecting /\ accepted' = accepted
  BY DEF WriteCompletes, IInv, WriteInFlight, Phases, FlagsTrackOperations
<1>2. sent' \in Nat /\ sent' =< accepted' /\ sent \in Nat /\ accepted \in Nat
  <2>1. sent' \in Nat /\ sent' =< accepted'
    BY DEF IInv, TypeOK, CountersOK, Stream
  <2>2. sent \in Nat /\ accepted \in Nat
    BY SizeAssumption DEF IInv, TypeOK, CountersOK
  <2> QED BY <2>1, <2>2
<1>3. sent =< sent'
  <2>1. writeQueue # <<>>
    BY DEF WriteCompletes, IInv, WriteInFlight
  <2>2. Head(writeQueue) \in Nat /\ consumed \in Nat
    BY <2>1, HeadOK DEF IInv, Stream
  <2> QED BY <1>2, <2>2 DEF WriteCompletes
<1> QED BY <1>1, <1>2, <1>3, TransferRefines

LEMMA OthersRefine ==
    ASSUME IInv,
           \/ \E kind \in {"streaming", "pull"} : RegisterProducer(kind)
           \/ UnregisterProducer \/ ConnectionMadeReturns \/ CbReadData
           \/ DataReceivedReturns \/ CallbackThrows \/ PauseProducingThrows
           \/ CbReadIgnored \/ PostedProduce \/ WriteBreaks
           \/ \E result \in {"ok", "eof", "err"} : ReadCompletes(result)
    PROVE  UNCHANGED Abstract!vars
  BY DEF RegisterProducer, UnregisterProducer, ConnectionMadeReturns, CbReadData,
         DataReceivedReturns, CallbackThrows, PauseProducingThrows,
         CbReadIgnored, PostedProduce, WriteBreaks,
         ReadCompletes, Abstract!vars, Phase, Reason

LEMMA CbConnectRefines == ASSUME IInv, CbConnect PROVE Abstract!Open
  BY DEF CbConnect, Abstract!Open, Phase, Reason, IInv, Phases

LEMMA NextRefines == IInv /\ IInv' /\ [Next]_vars => [Abstract!Next]_(Abstract!vars)
<1> SUFFICES ASSUME IInv, IInv', [Next]_vars
             PROVE  Abstract!Next \/ UNCHANGED Abstract!vars
  OBVIOUS
<1>1. CASE UNCHANGED vars
  BY <1>1 DEF vars, Abstract!vars, Phase, Reason
<1>2. CASE Next
  BY <1>2, CbConnectRefines, OthersRefine, WriteCompletesRefines,
     StartCloseRefines, EndRefines, CbWriteOkRefines, WriteRefines,
     PauseProducingReturnsRefines
  DEF Next, Application, Handler, Network, Abstract!Next
<1> QED BY <1>1, <1>2

(* TCPConnection implements Transport: bytes are taken only while the      *)
(* connection is open, leave in order, the end is final, and an end with   *)
(* the reason of loseConnection means that everything was sent, if nobody  *)
(* called it ahead of the bytes of a write still under way.                *)
THEOREM Implementation == Spec => ImplementsTransport
  BY InitRefines, NextRefines, Invariance, PTL
  DEF Spec, ImplementsTransport, Abstract!Spec
=============================================================================
