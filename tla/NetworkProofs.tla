---------------------------- MODULE NetworkProofs ----------------------------
(***************************************************************************)
(* Theorems about the smaller parts of Network: a task pool or concurrent  *)
(* queue, the listener of a reactor, a datagram connection, and the connect *)
(* of an endpoint, each for every value of its constants.  The proofs about *)
(* the fifth part are in SSLConnectionProofs.                              *)
(***************************************************************************)
EXTENDS TaskPool, Server, Datagram, Endpoint, TLAPS

-----------------------------------------------------------------------------
(***************************************************************************)
(* TaskPool, for any set of threads and any number of tasks and resets.    *)
(***************************************************************************)

(* Futures are broken only by the destructor, after which no thread is     *)
(* left, and only for tasks nobody took.  A queue has no owner.            *)
GoneIsFinal ==
    /\ owner # "gone" => broken = {}
    /\ owner = "gone" => \A w \in Threads : worker[w] \notin {"ready", "waiting", "task"}
    /\ \A t \in broken : t > taken
    /\ ~pool => owner = "free"

PoolInv == PoolTypeOK /\ EachTaskOnce /\ NoLostWakeup /\ GoneIsFinal

-----------------------------------------------------------------------------
LEMMA PoolInitInv == PoolInit => PoolInv
<1> SUFFICES ASSUME PoolInit PROVE PoolInv
  OBVIOUS
<1> USE DEF PoolInit
<1>1. PoolTypeOK
  <2>1. pool \in BOOLEAN /\ stopped \in BOOLEAN /\ terminated \in BOOLEAN
    OBVIOUS
  <2>2. taskList \in Seq(Nat) /\ accepted \in Nat /\ taken \in Nat /\ resets \in Nat
    BY SMT
  <2>3. worker \in [Threads -> {"none", "ready", "waiting", "task", "exited"}]
        /\ current \in [Threads -> Nat]
    BY SMT
  <2> QED BY <2>1, <2>2, <2>3 DEF PoolTypeOK
<1>2. EachTaskOnce
  BY SMT DEF EachTaskOnce, ListExact
<1>3. NoLostWakeup /\ GoneIsFinal
  BY DEF NoLostWakeup, GoneIsFinal, Waiting
<1> QED BY <1>1, <1>2, <1>3 DEF PoolInv

(* What appending does to the list.                                        *)
LEMMA AppendKeepsList ==
    ASSUME PoolInv, Append1
    PROVE  ListExact' /\ taskList' \in Seq(Nat) /\ accepted' \in Nat
<1>0. taskList \in Seq(Nat) /\ accepted \in Nat /\ taken \in Nat
  BY DEF PoolInv, PoolTypeOK
<1>0a. ListExact
  BY DEF PoolInv, EachTaskOnce
<1>0b. taskList' = Append(taskList, accepted + 1) /\ accepted' = accepted + 1
       /\ taken' = taken
  BY DEF Append1
<1> USE <1>0, <1>0a, <1>0b DEF ListExact
<1>1. accepted + 1 \in Nat /\ Len(taskList) \in Nat /\ accepted - taken \in Int
  BY SMT
<1>2. taskList' \in Seq(Nat) /\ Len(taskList') = Len(taskList) + 1
  BY <1>1, SMT
<1>3. \A i \in 1..Len(taskList') : taskList'[i] = taken + i
  <2> TAKE i \in 1..Len(taskList')
  <2>1. CASE i = Len(taskList) + 1
    BY <2>1, <1>1, SMT
  <2>2. CASE i # Len(taskList) + 1
    <3>1. i \in 1..Len(taskList)
      BY <2>2, <1>1, <1>2, SMT
    <3>2. taskList'[i] = taskList[i]
      BY <3>1, <1>1, SMT
    <3> QED BY <3>1, <3>2, SMT
  <2> QED BY <2>1, <2>2
<1> QED BY <1>1, <1>2, <1>3, SMT

(* What taking the front does to it.                                       *)
LEMMA TailKeepsList ==
    ASSUME PoolInv, taskList # <<>>, taskList' = Tail(taskList), taken' = taken + 1,
           accepted' = accepted
    PROVE  /\ ListExact' /\ taskList' \in Seq(Nat) /\ taken' \in Nat
           /\ Head(taskList) = taken + 1
<1> USE DEF PoolInv, PoolTypeOK, EachTaskOnce, ListExact
<1>1. Len(taskList) \in Nat \ {0} /\ 1 \in 1..Len(taskList)
  BY SMT
<1>2. taskList' \in Seq(Nat) /\ Len(taskList') = Len(taskList) - 1
  BY <1>1, SMT
<1>3. Head(taskList) = taskList[1] /\ taskList[1] = taken + 1
  BY <1>1, SMT
<1>4. \A i \in 1..Len(taskList') : taskList'[i] = taken' + i
  <2> TAKE i \in 1..Len(taskList')
  <2>1. i \in Nat /\ i + 1 \in 1..Len(taskList)
    BY <1>1, <1>2, SMT
  <2>2. taskList'[i] = taskList[i + 1]
    BY <2>1, <1>2, <1>1, SMT
  <2> QED BY <2>1, <2>2, SMT
<1> QED BY <1>1, <1>2, <1>3, <1>4, SMT

(* Waking threads up changes no thread that executes a task, and leaves    *)
(* one awake.                                                              *)
LEMMA NotifyOneWakes ==
    ASSUME PoolInv, NotifyOne
    PROVE  /\ worker' \in [Threads -> {"none", "ready", "waiting", "task", "exited"}]
           /\ \A w \in Threads : worker'[w] = "task" <=> worker[w] = "task"
           /\ Waiting # {} => \E w \in Threads : worker'[w] = "ready"
           /\ \A w \in Threads : worker'[w] = "waiting" => worker[w] = "waiting"
           /\ \A w \in Threads :
                worker'[w] \in {"ready", "waiting", "task"}
                    <=> worker[w] \in {"ready", "waiting", "task"}
<1> USE DEF PoolInv, PoolTypeOK
<1>1. CASE Waiting = {}
  BY <1>1 DEF NotifyOne
<1>2. CASE Waiting # {}
  <2>1. PICK w \in Waiting : worker' = [worker EXCEPT ![w] = "ready"]
    BY <1>2 DEF NotifyOne
  <2>2. w \in Threads /\ worker[w] = "waiting"
    BY DEF Waiting
  <2> QED BY <2>1, <2>2
<1> QED BY <1>1, <1>2

LEMMA AllNotifiedWakes ==
    ASSUME PoolInv, worker' = AllNotified
    PROVE  /\ worker' \in [Threads -> {"none", "ready", "waiting", "task", "exited"}]
           /\ \A w \in Threads : worker'[w] = "task" <=> worker[w] = "task"
           /\ \A w \in Threads : worker'[w] # "waiting"
           /\ \A w \in Threads :
                worker'[w] \in {"ready", "waiting", "task"}
                    <=> worker[w] \in {"ready", "waiting", "task"}
BY DEF PoolInv, PoolTypeOK, AllNotified

-----------------------------------------------------------------------------
(* One step per action.                                                    *)

LEMMA AppendPoolInv == PoolInv /\ Append1 /\ owner # "gone" => PoolInv'
<1> SUFFICES ASSUME PoolInv, Append1, owner # "gone" PROVE PoolInv'
  OBVIOUS
<1>1. ListExact' /\ taskList' \in Seq(Nat) /\ accepted' \in Nat
  BY AppendKeepsList
<1>2. NotifyOne
  BY DEF Append1
<1>3. PoolTypeOK'
  BY <1>1, <1>2, NotifyOneWakes DEF PoolInv, PoolTypeOK, Append1
<1>4. EachTaskOnce'
  BY <1>1, <1>2, NotifyOneWakes DEF PoolInv, EachTaskOnce, Append1
<1>5. NoLostWakeup'
  BY <1>2, NotifyOneWakes DEF PoolInv, NoLostWakeup, Waiting, Live, Append1
<1>6. GoneIsFinal'
  BY DEF PoolInv, GoneIsFinal, Append1
<1> QED BY <1>3, <1>4, <1>5, <1>6 DEF PoolInv

LEMMA PushPoolInv == PoolInv /\ (Push \/ Enqueue) => PoolInv'
BY AppendPoolInv DEF Push, Enqueue, Usable, PoolInv, GoneIsFinal

LEMMA StopPoolInv == PoolInv /\ (StopPool \/ Terminate \/ Destroy) => PoolInv'
<1> SUFFICES ASSUME PoolInv, StopPool \/ Terminate \/ Destroy PROVE PoolInv'
  OBVIOUS
<1>0. worker' = AllNotified
  BY DEF StopPool, Terminate, Destroy
<1>1. PoolTypeOK'
  BY <1>0, AllNotifiedWakes DEF PoolInv, PoolTypeOK, StopPool, Terminate, Destroy
<1>2. EachTaskOnce'
  BY <1>0, AllNotifiedWakes
     DEF PoolInv, EachTaskOnce, ListExact, StopPool, Terminate, Destroy
<1>3. NoLostWakeup'
  BY <1>0, AllNotifiedWakes DEF NoLostWakeup, Waiting
<1>4. GoneIsFinal'
  BY <1>0, AllNotifiedWakes DEF PoolInv, GoneIsFinal, StopPool, Terminate, Destroy, Usable
<1> QED BY <1>1, <1>2, <1>3, <1>4 DEF PoolInv

LEMMA ResetPoolInv == PoolInv /\ Reset => PoolInv'
<1> SUFFICES ASSUME PoolInv, Reset PROVE PoolInv'
  OBVIOUS
<1>0. stopped' \in BOOLEAN /\ terminated' \in BOOLEAN
  BY DEF Reset
<1>0a. resets' \in Nat
  BY SMT DEF PoolInv, PoolTypeOK, Reset
<1>1. PoolTypeOK'
  BY <1>0, <1>0a DEF PoolInv, PoolTypeOK, Reset
<1>2. EachTaskOnce' /\ GoneIsFinal'
  BY DEF PoolInv, EachTaskOnce, ListExact, GoneIsFinal, Reset
<1>3. NoLostWakeup'
  BY DEF PoolInv, NoLostWakeup, Waiting, Live, Reset
<1> QED BY <1>1, <1>2, <1>3 DEF PoolInv

LEMMA TakePoolInv == ASSUME NEW w \in Threads, PoolInv, Take(w, "task") PROVE PoolInv'
<1> USE DEF Take
<1>0. worker[w] = "ready" /\ worker \in [Threads -> {"none", "ready", "waiting", "task", "exited"}]
  BY DEF PoolInv, PoolTypeOK
<1>0a. owner # "gone" /\ broken = {}
  BY <1>0 DEF PoolInv, GoneIsFinal
<1>1. CASE /\ ~terminated /\ taskList # <<>>
           /\ taskList' = Tail(taskList)
           /\ taken' = taken + 1
           /\ worker' = [worker EXCEPT ![w] = "task"]
           /\ current' = [current EXCEPT ![w] = Head(taskList)]
  <2>1. /\ ListExact' /\ taskList' \in Seq(Nat) /\ taken' \in Nat
        /\ Head(taskList) = taken + 1
    BY <1>1, TailKeepsList
  <2>2. taken \in Nat /\ current \in [Threads -> Nat]
    BY DEF PoolInv, PoolTypeOK
  <2>3. PoolTypeOK'
    <3>1. current' \in [Threads -> Nat]
      BY <1>1, <2>1, <2>2, SMT
    <3>2. worker' \in [Threads -> {"none", "ready", "waiting", "task", "exited"}]
      BY <1>1, <1>0
    <3> QED BY <2>1, <3>1, <3>2 DEF PoolInv, PoolTypeOK
  <2>4. EachTaskOnce'
    <3>1. finished' \subseteq 1..taken' /\ (taken + 1) \notin finished
      BY <1>1, <2>2, SMT DEF PoolInv, EachTaskOnce
    <3>2. finished' \cap broken' = {}
      BY DEF PoolInv, EachTaskOnce
    <3>3. \A v \in Threads \ {w} :
             worker'[v] = worker[v] /\ current'[v] = current[v]
      BY <1>1, <1>0, <2>2
    <3>4. worker'[w] = "task" /\ current'[w] = taken + 1
      BY <1>1, <1>0, <2>1, <2>2
    <3>5. \A v \in Threads : worker[v] = "task" =>
             current[v] \in 1..taken /\ current[v] # taken + 1
      BY <2>2, SMT DEF PoolInv, EachTaskOnce
    <3>6. 1..taken \subseteq 1..taken' /\ taken + 1 \in 1..taken'
      BY <1>1, <2>2, SMT
    <3>7. ASSUME NEW u \in Threads, worker'[u] = "task"
          PROVE  /\ current'[u] \in 1..taken'
                 /\ current'[u] \notin finished'
                 /\ \A v \in Threads \ {u} :
                        worker'[v] = "task" => current'[v] # current'[u]
      <4>1. CASE u = w
        BY <4>1, <3>1, <3>3, <3>4, <3>5, <3>6
      <4>2. CASE u # w
        <5>1. worker[u] = "task" /\ current'[u] = current[u]
          BY <4>2, <3>3, <3>7
        <5>2. current[u] \notin finished
              /\ \A v \in Threads \ {u} :
                    worker[v] = "task" => current[v] # current[u]
          BY <5>1 DEF PoolInv, EachTaskOnce
        <5> QED BY <5>1, <5>2, <3>3, <3>4, <3>5, <3>6
      <4> QED BY <4>1, <4>2
    <3> QED BY <2>1, <3>1, <3>2, <3>7 DEF EachTaskOnce
  <2>5. NoLostWakeup'
    BY <1>1, <1>0 DEF PoolInv, NoLostWakeup, Waiting, Live
  <2>6. GoneIsFinal'
    BY <1>0a DEF PoolInv, GoneIsFinal
  <2> QED BY <2>3, <2>4, <2>5, <2>6 DEF PoolInv
<1>2. CASE /\ terminated \/ (taskList = <<>> /\ stopped)
           /\ worker' = [worker EXCEPT ![w] = "exited"]
           /\ UNCHANGED <<taskList, taken, current>>
  <2>1. PoolTypeOK'
    BY <1>2, <1>0 DEF PoolInv, PoolTypeOK
  <2>2. EachTaskOnce'
    BY <1>2, <1>0 DEF PoolInv, EachTaskOnce, ListExact
  <2>3. NoLostWakeup'
    BY <1>2, <1>0 DEF PoolInv, NoLostWakeup, Waiting, Live
  <2>4. GoneIsFinal'
    BY <1>2, <1>0a DEF PoolInv, GoneIsFinal
  <2> QED BY <2>1, <2>2, <2>3, <2>4 DEF PoolInv
<1>3. CASE /\ ~terminated /\ taskList = <<>> /\ ~stopped
           /\ worker' = [worker EXCEPT ![w] = "waiting"]
           /\ UNCHANGED <<taskList, taken, current>>
  <2>1. PoolTypeOK'
    BY <1>3, <1>0 DEF PoolInv, PoolTypeOK
  <2>2. EachTaskOnce'
    BY <1>3, <1>0 DEF PoolInv, EachTaskOnce, ListExact
  <2>3. NoLostWakeup'
    BY <1>3 DEF PoolInv, NoLostWakeup, Waiting, Live
  <2>4. GoneIsFinal'
    BY <1>3, <1>0a DEF PoolInv, GoneIsFinal
  <2> QED BY <2>1, <2>2, <2>3, <2>4 DEF PoolInv
<1> QED BY <1>1, <1>2, <1>3

LEMMA ExecutePoolInv == ASSUME NEW w \in Threads, PoolInv, Execute(w) PROVE PoolInv'
<1> USE DEF Execute
<1>0. worker[w] = "task" /\ worker \in [Threads -> {"none", "ready", "waiting", "task", "exited"}]
      /\ current \in [Threads -> Nat] /\ taken \in Nat
  BY DEF PoolInv, PoolTypeOK
<1>0a. owner # "gone" /\ broken = {}
  BY <1>0 DEF PoolInv, GoneIsFinal
<1>0b. current[w] \in 1..taken
  BY <1>0 DEF PoolInv, EachTaskOnce
<1>0c. current[w] \in Nat
  BY <1>0
<1>1. PoolTypeOK'
  BY <1>0, <1>0c DEF PoolInv, PoolTypeOK
<1>2. EachTaskOnce'
  <2>1. \A v \in Threads : worker'[v] = "task" =>
            v # w /\ worker[v] = "task" /\ current'[v] = current[v]
    BY <1>0
  <2>2. finished' \subseteq 1..taken' /\ finished' \cap broken' = {}
    BY <1>0a, <1>0b DEF PoolInv, EachTaskOnce
  <2>3. ASSUME NEW v \in Threads, worker'[v] = "task"
        PROVE  current'[v] \notin finished'
    <3>1. worker[v] = "task" /\ v # w /\ current'[v] = current[v]
      BY <2>1, <2>3
    <3>2. current[v] \notin finished /\ current[v] # current[w]
      BY <3>1, <1>0 DEF PoolInv, EachTaskOnce
    <3> QED BY <3>1, <3>2
  <2> QED BY <2>1, <2>2, <2>3 DEF PoolInv, EachTaskOnce, ListExact
<1>3. NoLostWakeup'
  BY <1>0 DEF PoolInv, NoLostWakeup, Waiting, Live
<1>4. GoneIsFinal'
  BY <1>0a DEF PoolInv, GoneIsFinal
<1> QED BY <1>1, <1>2, <1>3, <1>4 DEF PoolInv

(* A thread begins to call dequeue, or a condition variable wakes it.      *)
LEMMA ReadyPoolInv ==
    ASSUME NEW w \in Threads, PoolInv, WakeSpuriously(w) \/ CallDequeue(w)
    PROVE  PoolInv'
<1> USE DEF WakeSpuriously, CallDequeue
<1>0. worker[w] # "task" /\ worker \in [Threads -> {"none", "ready", "waiting", "task", "exited"}]
      /\ worker' = [worker EXCEPT ![w] = "ready"]
  BY DEF PoolInv, PoolTypeOK
<1>0a. owner # "gone"
  BY DEF PoolInv, GoneIsFinal
<1>1. PoolTypeOK'
  BY <1>0 DEF PoolInv, PoolTypeOK
<1>2. EachTaskOnce'
  BY <1>0 DEF PoolInv, EachTaskOnce, ListExact
<1>3. NoLostWakeup'
  BY <1>0 DEF PoolInv, NoLostWakeup, Waiting, Live
<1>4. GoneIsFinal'
  BY <1>0a DEF PoolInv, GoneIsFinal
<1> QED BY <1>1, <1>2, <1>3, <1>4 DEF PoolInv

LEMMA TryDequeuePoolInv == ASSUME NEW w \in Threads, PoolInv, TryDequeue(w) PROVE PoolInv'
<1> USE DEF TryDequeue
<1>1. /\ ListExact' /\ taskList' \in Seq(Nat) /\ taken' \in Nat
      /\ Head(taskList) = taken + 1
  BY TailKeepsList
<1>2. taken \in Nat /\ owner # "gone" /\ broken = {}
  BY DEF PoolInv, PoolTypeOK, GoneIsFinal
<1>3. taken + 1 \in Nat /\ 1..taken \subseteq 1..taken' /\ taken + 1 \in 1..taken'
  BY <1>2, SMT
<1>4. PoolTypeOK'
  BY <1>1, <1>3 DEF PoolInv, PoolTypeOK
<1>5. EachTaskOnce'
  <2>1. \A v \in Threads : worker[v] = "task" => current[v] # taken + 1
    BY <1>2, SMT DEF PoolInv, EachTaskOnce
  <2>2. finished' = finished \cup {taken + 1}
    BY <1>1
  <2> QED BY <1>1, <1>2, <1>3, <2>1, <2>2 DEF PoolInv, EachTaskOnce
<1>6. NoLostWakeup'
  BY DEF PoolInv, NoLostWakeup, Waiting, Live
<1>7. GoneIsFinal'
  BY <1>2 DEF PoolInv, GoneIsFinal
<1> QED BY <1>4, <1>5, <1>6, <1>7 DEF PoolInv

(* The owner starts or joins the threads.                                  *)
LEMMA OwnerPoolInv == PoolInv /\ (Start \/ CallWait \/ WaitReturns) => PoolInv'
<1> SUFFICES ASSUME PoolInv, Start \/ CallWait \/ WaitReturns PROVE PoolInv'
  OBVIOUS
<1> USE DEF Start, CallWait, WaitReturns, Joined
<1>1. PoolTypeOK'
  BY DEF PoolInv, PoolTypeOK
<1>2. EachTaskOnce'
  BY DEF PoolInv, PoolTypeOK, EachTaskOnce, ListExact
<1>3. NoLostWakeup'
  BY DEF PoolInv, PoolTypeOK, NoLostWakeup, Waiting, Live
<1>4. GoneIsFinal'
  BY DEF PoolInv, PoolTypeOK, GoneIsFinal
<1> QED BY <1>1, <1>2, <1>3, <1>4 DEF PoolInv

LEMMA DestroyEndsPoolInv == PoolInv /\ DestroyEnds => PoolInv'
<1> SUFFICES ASSUME PoolInv, DestroyEnds PROVE PoolInv'
  OBVIOUS
<1> USE DEF DestroyEnds
<1>0. taskList \in Seq(Nat) /\ taken \in Nat /\ Len(taskList) \in Nat
      /\ DOMAIN taskList = 1..Len(taskList)
  BY SMT DEF PoolInv, PoolTypeOK
<1>1. \A t \in broken' : t \in Nat /\ t > taken
  <2> TAKE t \in broken'
  <2>1. PICK i \in 1..Len(taskList) : t = taskList[i]
    BY <1>0
  <2>2. taskList[i] = taken + i
    BY DEF PoolInv, EachTaskOnce, ListExact
  <2> QED BY <1>0, <2>1, <2>2, SMT
<1>2. PoolTypeOK'
  BY <1>1 DEF PoolInv, PoolTypeOK
<1>3. finished' \cap broken' = {}
  BY <1>0, <1>1, SMT DEF PoolInv, EachTaskOnce
<1>4. EachTaskOnce'
  BY <1>3 DEF PoolInv, PoolTypeOK, EachTaskOnce, ListExact
<1>5. NoLostWakeup'
  BY DEF PoolInv, PoolTypeOK, NoLostWakeup, Waiting, Live
<1>6. GoneIsFinal'
  BY <1>1 DEF PoolInv, PoolTypeOK, GoneIsFinal
<1> QED BY <1>2, <1>4, <1>5, <1>6 DEF PoolInv

LEMMA StutterPoolInv == PoolInv /\ UNCHANGED poolVars => PoolInv'
BY DEF poolVars, PoolInv, PoolTypeOK, EachTaskOnce, ListExact, NoLostWakeup,
       GoneIsFinal, Waiting, Live

LEMMA PoolStepInv == PoolInv /\ [PoolNext]_poolVars => PoolInv'
<1> SUFFICES ASSUME PoolInv, [PoolNext]_poolVars PROVE PoolInv'
  OBVIOUS
<1>1. CASE Push \/ Enqueue
  BY <1>1, PushPoolInv
<1>2. CASE StopPool \/ Terminate \/ Destroy
  BY <1>2, StopPoolInv
<1>3. CASE Reset
  BY <1>3, ResetPoolInv
<1>4. CASE Start \/ CallWait \/ WaitReturns
  BY <1>4, OwnerPoolInv
<1>5. CASE DestroyEnds
  BY <1>5, DestroyEndsPoolInv
<1>6. ASSUME NEW w \in Threads,
             ThreadStep(w) \/ WakeSpuriously(w) \/ CallDequeue(w) \/ TryDequeue(w)
      PROVE  PoolInv'
  BY <1>6, TakePoolInv, ExecutePoolInv, ReadyPoolInv, TryDequeuePoolInv
     DEF ThreadStep, Pop, Dequeue
<1>7. CASE UNCHANGED poolVars
  BY <1>7, StutterPoolInv
<1> QED BY <1>1, <1>2, <1>3, <1>4, <1>5, <1>6, <1>7 DEF PoolNext

-----------------------------------------------------------------------------
THEOREM PoolInvariant == PoolSpec => []PoolInv
<1>1. PoolInit => PoolInv
  BY PoolInitInv
<1>2. PoolInv /\ [PoolNext]_poolVars => PoolInv'
  BY PoolStepInv
<1> QED BY <1>1, <1>2, PTL DEF PoolSpec

(* Whatever the threads do, the list is exact, and no task is executed     *)
(* twice, by two threads, or after its future was broken (push, pop and    *)
(* the destructor of TaskPool; enqueue and dequeue of ConcurrentQueue).    *)
THEOREM TasksRunOnce == PoolSpec => []EachTaskOnce
<1>1. PoolInv => EachTaskOnce
  BY DEF PoolInv
<1> QED BY <1>1, PoolInvariant, PTL

(* However many threads wait, push, stop and terminate leave none asleep   *)
(* that should be awake (notify_one and notify_all).                       *)
THEOREM WakeupsKept == PoolSpec => []NoLostWakeup
<1>1. PoolInv => NoLostWakeup
  BY DEF PoolInv
<1> QED BY <1>1, PoolInvariant, PTL

-----------------------------------------------------------------------------
(***************************************************************************)
(* The listener of Server, for any number of sub-reactors, connections,    *)
(* starts and stops.                                                       *)
(***************************************************************************)

AcceptStates == {"pending", "ok", "failed", "aborted"}

(* The types that the argument needs, and how stops are numbered.          *)
ListenerTypes ==
    /\ connected \in BOOLEAN /\ acceptorOpen \in BOOLEAN
    /\ accepts \in Seq(AcceptStates)
    /\ serverPorts \in Nat /\ stops \in Nat

(* The Deferred that connectionLost has moved out is another one than that *)
(* of the listener, which a stop makes, and has not fired.                 *)
DeferredsApart ==
    /\ deferred \in 0..stops /\ local \in 0..stops /\ fired \subseteq 1..stops
    /\ deferred \notin fired
    /\ deferred # 0 => deferred # local

(* The second half of StopIsClean.                                         *)
ListenerClean ==
    slips \intersect {"startedTwice", "lostTwice"} = {} =>
        /\ serverPorts = IF connected THEN 1 ELSE 0
        /\ deferred # 0 => connected /\ ~acceptorOpen
        /\ accepts # <<>> => connected

ListenerInv == ListenerTypes /\ DeferredsApart /\ ListenerClean

-----------------------------------------------------------------------------
LEMMA ListenerInitInv == ServerInit => ListenerInv
<1> SUFFICES ASSUME ServerInit PROVE ListenerInv
  OBVIOUS
<1>1. /\ connected = FALSE /\ acceptorOpen = FALSE /\ accepts = <<>> /\ stops = 0
      /\ serverPorts = 0 /\ deferred = 0 /\ local = 0 /\ fired = {}
  BY DEF ServerInit
<1>2. ListenerTypes
  <2>1. <<>> \in Seq(AcceptStates)
    OBVIOUS
  <2> QED BY <1>1, <2>1 DEF ListenerTypes
<1>3. DeferredsApart
  BY <1>1 DEF DeferredsApart
<1>4. ListenerClean
  BY <1>1 DEF ListenerClean
<1> QED BY <1>2, <1>3, <1>4 DEF ListenerInv

-----------------------------------------------------------------------------
(* What a step does to the accepts: none becomes outstanding on a listener *)
(* that is not connected.                                                  *)
KeepsAccepts ==
    /\ accepts' \in Seq(AcceptStates)
    /\ accepts' # <<>> => accepts # <<>> \/ connected

(* Steps that leave the listener alone but for its accepts.                *)
LEMMA AcceptInv ==
    ASSUME ListenerInv, UNCHANGED <<stopVars, acceptorOpen, stops, slips>>, KeepsAccepts
    PROVE  ListenerInv'
<1>1. ListenerTypes'
  BY DEF ListenerInv, ListenerTypes, KeepsAccepts, stopVars
<1>2. DeferredsApart'
  BY DEF ListenerInv, DeferredsApart, stopVars
<1>3. ListenerClean'
  BY DEF ListenerInv, ListenerClean, KeepsAccepts, stopVars
<1> QED BY <1>1, <1>2, <1>3 DEF ListenerInv

(* doAccept, and the ends of cbAccept, q being the accepts left over.      *)
LEMMA EndKeepsAccepts ==
    ASSUME NEW q \in Seq(AcceptStates), q # <<>> => accepts # <<>> \/ connected,
           CbAcceptEnds(q, connected) \/ CbAcceptEnds(q, FALSE)
    PROVE  KeepsAccepts
<1>1. CASE connected /\ accepts' = Append(q, IF acceptorOpen THEN "pending" ELSE "failed")
  <2>1. (IF acceptorOpen THEN "pending" ELSE "failed") \in AcceptStates
    BY DEF AcceptStates
  <2> QED BY <1>1, <2>1 DEF KeepsAccepts
<1>2. CASE accepts' = q
  BY <1>2 DEF KeepsAccepts
<1> QED BY <1>1, <1>2 DEF CbAcceptEnds, DoAccept

LEMMA LeftKeepsAccepts ==
    ASSUME NEW q \in Seq(AcceptStates), q # <<>> => accepts # <<>> \/ connected,
           NEW where, CbAcceptLeft(q) \/ CallsBack(where, q)
    PROVE  KeepsAccepts
BY DEF CbAcceptLeft, CallsBack, KeepsAccepts

LEMMA TailOfAccepts ==
    ASSUME ListenerTypes, NEW how, Handles(how)
    PROVE  accepts # <<>> /\ Tail(accepts) \in Seq(AcceptStates)
BY DEF ListenerTypes, Handles

LEMMA ReactorInv ==
    ASSUME ListenerInv,
           \/ Run \/ RunReturns \/ Stop \/ (\E r \in Reactors : LoopEnds(r))
           \/ (\E s \in Subs : SubRun(s) \/ SubStop(s) \/ SubCbAccept(s))
    PROVE  ListenerInv'
<1>1. UNCHANGED <<acceptVars, stopVars, stops, slips>>
  BY DEF Run, RunReturns, Stop, LoopEnds, SubRun, SubStop, SubCbAccept, listenerVars
<1>2. UNCHANGED <<accepts, acceptorOpen>>
  BY <1>1 DEF acceptVars
<1>3. KeepsAccepts
  BY <1>2 DEF ListenerInv, ListenerTypes, KeepsAccepts
<1> QED BY <1>1, <1>2, <1>3, AcceptInv

-----------------------------------------------------------------------------
LEMMA StartThrowsInv == ListenerInv /\ StartThrows => ListenerInv'
<1> SUFFICES ASSUME ListenerInv, StartThrows PROVE ListenerInv'
  OBVIOUS
<1>1. /\ UNCHANGED <<stopVars, accepts, stops>> /\ acceptorOpen' = TRUE
      /\ slips' = slips \union {x \in {"startedTwice"} : connected}
  BY DEF StartThrows
<1>2. ListenerTypes'
  BY <1>1 DEF ListenerInv, ListenerTypes, stopVars
<1>3. DeferredsApart'
  BY <1>1 DEF ListenerInv, DeferredsApart, stopVars
<1>4. ListenerClean'
  BY <1>1 DEF ListenerInv, ListenerClean, stopVars
<1> QED BY <1>2, <1>3, <1>4 DEF ListenerInv

LEMMA StartListeningInv == ListenerInv /\ StartListening => ListenerInv'
<1> SUFFICES ASSUME ListenerInv, StartListening PROVE ListenerInv'
  OBVIOUS
<1>1. /\ UNCHANGED <<stops, deferred, local, fired>>
      /\ acceptorOpen' = TRUE /\ connected' = TRUE
      /\ slips' = slips \union {x \in {"startedTwice"} : connected}
  BY DEF StartListening
<1>2. serverPorts' = serverPorts + 1 /\ accepts' = Append(accepts, "pending")
  BY DEF StartListening, DoAccept
<1>3. "pending" \in AcceptStates
  BY DEF AcceptStates
<1>4. ListenerTypes'
  BY <1>1, <1>2, <1>3 DEF ListenerInv, ListenerTypes
<1>5. DeferredsApart'
  BY <1>1 DEF ListenerInv, DeferredsApart
<1>6. ListenerClean'
  <2> SUFFICES ASSUME slips' \intersect {"startedTwice", "lostTwice"} = {}
               PROVE  serverPorts' = 1 /\ deferred' = 0
    BY <1>1 DEF ListenerClean
  <2>1. ~connected /\ slips \intersect {"startedTwice", "lostTwice"} = {}
    BY <1>1
  <2>2. serverPorts = 0 /\ deferred = 0
    BY <2>1 DEF ListenerInv, ListenerClean
  <2> QED BY <1>1, <1>2, <2>2
<1> QED BY <1>4, <1>5, <1>6 DEF ListenerInv

(* stopListening: accepts that are outstanding are cancelled.              *)
LEMMA StopListeningInv == ListenerInv /\ StopListening => ListenerInv'
<1> SUFFICES ASSUME ListenerInv, StopListening PROVE ListenerInv'
  OBVIOUS
<1>1. /\ UNCHANGED <<connected, local, serverPorts, fired>> /\ stops' = stops + 1
      /\ slips \subseteq slips'
      /\ slips' \subseteq slips \union {"stoppedInside"}
  BY DEF StopListening
<1>2. stops \in Nat /\ deferred \in 0..stops /\ local \in 0..stops /\ fired \subseteq 1..stops
  BY DEF ListenerInv, ListenerTypes, DeferredsApart
<1>3. local \in 0..(stops + 1) /\ fired \subseteq 1..(stops + 1) /\ stops + 1 \in Nat
  BY <1>2
<1>4. CASE connected
  <2>1. deferred' = stops + 1 /\ acceptorOpen' = FALSE
    BY <1>4 DEF StopListening
  <2>2. /\ accepts' \in Seq(AcceptStates)
        /\ accepts' # <<>> => accepts # <<>>
    <3>1. accepts' = [i \in DOMAIN accepts |->
                        IF accepts[i] = "pending" THEN "aborted" ELSE accepts[i]]
      BY <1>4 DEF StopListening
    <3>2. accepts \in [1..Len(accepts) -> AcceptStates] /\ Len(accepts) \in Nat
      BY DEF ListenerInv, ListenerTypes
    <3>3. accepts' \in [1..Len(accepts) -> AcceptStates]
      BY <3>1, <3>2 DEF AcceptStates
    <3>4. accepts' \in Seq(AcceptStates)
      BY <3>2, <3>3
    <3>5. DOMAIN accepts' = DOMAIN accepts
      BY <3>1
    <3> QED BY <3>4, <3>5
  <2>3. ListenerTypes'
    BY <1>1, <1>3, <2>1, <2>2 DEF ListenerInv, ListenerTypes
  <2>4. DeferredsApart'
    BY <1>1, <1>2, <1>3, <2>1 DEF DeferredsApart
  <2>5. ListenerClean'
    BY <1>1, <1>4, <2>1 DEF ListenerInv, ListenerClean
  <2> QED BY <2>3, <2>4, <2>5 DEF ListenerInv
<1>5. CASE ~connected
  <2>1. UNCHANGED <<deferred, acceptorOpen, accepts>>
    BY <1>5 DEF StopListening
  <2>2. ListenerTypes'
    BY <1>1, <1>3, <2>1 DEF ListenerInv, ListenerTypes
  <2>3. deferred \in 0..(stops + 1)
    BY <1>2
  <2>4. DeferredsApart'
    BY <1>1, <1>3, <2>1, <2>3 DEF ListenerInv, DeferredsApart
  <2>5. ListenerClean'
    BY <1>1, <2>1 DEF ListenerInv, ListenerClean
  <2> QED BY <2>2, <2>4, <2>5 DEF ListenerInv
<1> QED BY <1>4, <1>5

LEMMA KernelInv == ListenerInv /\ (PeerConnects \/ AcceptFails) => ListenerInv'
<1> SUFFICES ASSUME ListenerInv, NEW how \in {"ok", "failed"}, Completes(how)
             PROVE  ListenerInv'
  BY DEF PeerConnects, AcceptFails
<1>1. UNCHANGED <<stopVars, acceptorOpen, stops, slips>>
  BY DEF Completes
<1>2. PICK i \in DOMAIN accepts : accepts' = [accepts EXCEPT ![i] = how]
  BY DEF Completes
<1>3. how \in AcceptStates /\ accepts \in Seq(AcceptStates)
  BY DEF AcceptStates, ListenerInv, ListenerTypes
<1>4. accepts' \in Seq(AcceptStates) /\ accepts # <<>>
  BY <1>2, <1>3
<1> QED BY <1>1, <1>4, AcceptInv DEF KeepsAccepts

-----------------------------------------------------------------------------
(* The rest of connectionLost, from the flag on: the Deferred d, which is  *)
(* the listener's no longer, may fire.                                     *)
LEMMA AfterStopKeeps ==
    ASSUME NEW q \in Seq(AcceptStates), q # <<>> => accepts # <<>> \/ connected,
           NEW conn \in {connected, FALSE}, NEW d, AfterStop(q, conn, d)
    PROVE  KeepsAccepts /\ fired' \subseteq fired \union ({d} \ {0})
<1>1. fired' \subseteq fired \union ({d} \ {0})
  BY DEF AfterStop
<1>2. CASE disconnecting /\ d # 0 /\ d \notin fired
  <2>1. CallsBack("callback", q)
    BY <1>2 DEF AfterStop
  <2> QED BY <1>1, <2>1, LeftKeepsAccepts
<1>3. CASE disconnecting /\ d # 0 /\ d \in fired
  <2>1. CbAcceptLeft(q)
    BY <1>3 DEF AfterStop
  <2> QED BY <1>1, <2>1, LeftKeepsAccepts
<1>4. CASE ~(disconnecting /\ d # 0)
  <2>1. CbAcceptEnds(q, conn)
    BY <1>4 DEF AfterStop
  <2> QED BY <1>1, <2>1, EndKeepsAccepts
<1> QED BY <1>2, <1>3, <1>4

(* The end of the listener: its Deferred is moved out, and may fire.  It   *)
(* was clean before only if no other accept is left.                       *)
LEMMA ConnectionLostInv == ListenerInv /\ CbAcceptAborted => ListenerInv'
<1> SUFFICES ASSUME ListenerInv, CbAcceptAborted PROVE ListenerInv'
  OBVIOUS
<1>1. /\ local' = deferred /\ deferred' = 0 /\ connected' = FALSE
      /\ serverPorts' = (IF serverPorts = 0 THEN 0 ELSE serverPorts - 1)
      /\ slips' = slips \union {x \in {"lostTwice"} : Tail(accepts) # <<>>}
      /\ UNCHANGED <<acceptorOpen, stops>>
  BY DEF CbAcceptAborted
<1>2. accepts # <<>> /\ Tail(accepts) \in Seq(AcceptStates)
  BY TailOfAccepts DEF CbAcceptAborted, ListenerInv
<1>3. \/ CallsBack("stopFactory", Tail(accepts)) /\ UNCHANGED fired
      \/ AfterStop(Tail(accepts), FALSE, deferred)
  BY DEF CbAcceptAborted
<1>4. /\ accepts' = Tail(accepts)
      /\ fired' \subseteq fired \union ({deferred} \ {0})
  <2>1. CASE CallsBack("stopFactory", Tail(accepts)) /\ UNCHANGED fired
    BY <2>1 DEF CallsBack
  <2>2. CASE AfterStop(Tail(accepts), FALSE, deferred)
    <3>1. accepts' = Tail(accepts)
      BY <2>2 DEF AfterStop, CallsBack, CbAcceptLeft, CbAcceptEnds
    <3>2. fired' \subseteq fired \union ({deferred} \ {0})
      BY <2>2, <1>2, AfterStopKeeps
    <3> QED BY <3>1, <3>2
  <2> QED BY <1>3, <2>1, <2>2
<1>5. ListenerTypes'
  <2>1. serverPorts' \in Nat
    BY <1>1 DEF ListenerInv, ListenerTypes
  <2> QED BY <1>1, <1>2, <1>4, <2>1 DEF ListenerInv, ListenerTypes
<1>6. DeferredsApart'
  <2>1. /\ stops \in Nat /\ deferred \in 0..stops /\ fired \subseteq 1..stops
    BY DEF ListenerInv, ListenerTypes, DeferredsApart
  <2>2. fired' \subseteq 1..stops /\ 0 \notin fired'
    BY <1>4, <2>1
  <2> QED BY <1>1, <2>1, <2>2 DEF DeferredsApart
<1>7. ListenerClean'
  <2> SUFFICES ASSUME slips' \intersect {"startedTwice", "lostTwice"} = {}
               PROVE  serverPorts' = 0 /\ accepts' = <<>>
    BY <1>1 DEF ListenerClean
  <2>1. Tail(accepts) = <<>> /\ slips \intersect {"startedTwice", "lostTwice"} = {}
    BY <1>1
  <2>2. connected /\ serverPorts = 1
    BY <1>2, <2>1 DEF ListenerInv, ListenerClean
  <2> QED BY <1>1, <1>4, <2>1, <2>2
<1> QED BY <1>5, <1>6, <1>7 DEF ListenerInv

(* The callbacks of connectionLost return; stopFactory may throw instead.  *)
LEMMA CallbacksInv == ListenerInv /\ ConnectionLostReturns => ListenerInv'
<1> SUFFICES ASSUME ListenerInv, ConnectionLostReturns PROVE ListenerInv'
  OBVIOUS
<1>1. UNCHANGED <<acceptorOpen, connected, deferred, local, serverPorts, stops, slips>>
  BY DEF ConnectionLostReturns
<1>2. accepts \in Seq(AcceptStates)
  BY DEF ListenerInv, ListenerTypes
<1>3. KeepsAccepts /\ fired' \subseteq fired \union ({local} \ {0})
  <2>1. CASE StopFactoryReturns \/ ErrbackReturns
    <3>1. AfterStop(accepts, connected, local)
      BY <2>1 DEF StopFactoryReturns, ErrbackReturns
    <3> QED BY <1>2, <3>1, AfterStopKeeps
  <2>2. CASE StopFactoryThrows
    <3>1. CallsBack("errback", accepts) \/ CbAcceptLeft(accepts)
      BY <2>2 DEF StopFactoryThrows
    <3>2. fired' \subseteq fired \union ({local} \ {0})
      BY <2>2 DEF StopFactoryThrows
    <3> QED BY <1>2, <3>1, <3>2, LeftKeepsAccepts
  <2>3. CASE CallbackReturns
    <3>1. CbAcceptEnds(accepts, connected) /\ UNCHANGED fired
      BY <2>3 DEF CallbackReturns
    <3> QED BY <1>2, <3>1, EndKeepsAccepts
  <2> QED BY <2>1, <2>2, <2>3 DEF ConnectionLostReturns
<1>4. ListenerTypes'
  BY <1>1, <1>3 DEF ListenerInv, ListenerTypes, KeepsAccepts
<1>5. DeferredsApart'
  <2>1. /\ stops \in Nat /\ deferred \in 0..stops /\ local \in 0..stops
        /\ fired \subseteq 1..stops /\ deferred \notin fired
        /\ deferred # 0 => deferred # local
    BY DEF ListenerInv, ListenerTypes, DeferredsApart
  <2>2. fired' \subseteq 1..stops /\ deferred \notin fired'
    BY <1>3, <2>1
  <2> QED BY <1>1, <2>1, <2>2 DEF DeferredsApart
<1>6. ListenerClean'
  BY <1>1, <1>3 DEF ListenerInv, ListenerClean, KeepsAccepts
<1> QED BY <1>4, <1>5, <1>6 DEF ListenerInv

-----------------------------------------------------------------------------
(* The other completions of an accept touch nothing but the accepts.       *)
LEMMA CbAcceptFailedInv == ListenerInv /\ CbAcceptFailed => ListenerInv'
<1> SUFFICES ASSUME ListenerInv, CbAcceptFailed PROVE ListenerInv'
  OBVIOUS
<1>1. /\ UNCHANGED <<stopVars, acceptorOpen, stops, slips>>
      /\ CbAcceptEnds(Tail(accepts), connected)
  BY DEF CbAcceptFailed
<1>2. accepts # <<>> /\ Tail(accepts) \in Seq(AcceptStates)
  BY TailOfAccepts DEF CbAcceptFailed, ListenerInv
<1> QED BY <1>1, <1>2, EndKeepsAccepts, AcceptInv

LEMMA CbAcceptOkInv == ListenerInv /\ CbAcceptOk => ListenerInv'
<1> SUFFICES ASSUME ListenerInv, CbAcceptOk PROVE ListenerInv'
  OBVIOUS
<1>1. UNCHANGED <<stopVars, acceptorOpen, stops, slips>> /\ accepts' = <<>>
  BY DEF CbAcceptOk, CallsBack, CbAcceptLeft
<1>2. KeepsAccepts
  BY <1>1 DEF KeepsAccepts
<1> QED BY <1>1, <1>2, AcceptInv

LEMMA ProtocolInv ==
    ListenerInv /\ (BuildProtocolReturns \/ ConnectionMadeThrows) => ListenerInv'
<1> SUFFICES ASSUME ListenerInv, BuildProtocolReturns \/ ConnectionMadeThrows
             PROVE  ListenerInv'
  OBVIOUS
<1>1. UNCHANGED <<stopVars, acceptorOpen, stops, slips>>
  BY DEF BuildProtocolReturns, ConnectionMadeThrows
<1>2. \/ CallsBack("connectionMade", accepts) \/ CbAcceptLeft(accepts)
      \/ CbAcceptEnds(accepts, connected)
  BY DEF BuildProtocolReturns, HandOver, ConnectionMadeThrows
<1>3. accepts \in Seq(AcceptStates)
  BY DEF ListenerInv, ListenerTypes
<1>4. KeepsAccepts
  BY <1>2, <1>3, EndKeepsAccepts, LeftKeepsAccepts
<1> QED BY <1>1, <1>4, AcceptInv

LEMMA OrphanInv == ListenerInv /\ CbAcceptOrphan => ListenerInv'
<1> SUFFICES ASSUME ListenerInv, CbAcceptOrphan PROVE ListenerInv'
  OBVIOUS
<1>1. /\ UNCHANGED <<stopVars, acceptorOpen, stops, slips>>
      /\ UNCHANGED accepts \/ CbAcceptLeft(Tail(accepts))
  BY DEF CbAcceptOrphan, acceptVars
<1>2. accepts # <<>> /\ Tail(accepts) \in Seq(AcceptStates)
  BY TailOfAccepts DEF CbAcceptOrphan, ListenerInv
<1>3. accepts \in Seq(AcceptStates)
  BY DEF ListenerInv, ListenerTypes
<1>4. KeepsAccepts
  BY <1>1, <1>2, <1>3, LeftKeepsAccepts DEF KeepsAccepts
<1> QED BY <1>1, <1>4, AcceptInv

LEMMA ListenerStepInv == ListenerInv /\ [ServerNext]_serverVars => ListenerInv'
<1> SUFFICES ASSUME ListenerInv, [ServerNext]_serverVars PROVE ListenerInv'
  OBVIOUS
<1>1. CASE ServerNext
  <2>1. CASE CbAccept
    BY <2>1, ConnectionLostInv, CallbacksInv, CbAcceptFailedInv, CbAcceptOkInv, ProtocolInv,
       OrphanInv DEF CbAccept
  <2> QED BY <1>1, <2>1, ReactorInv, StartThrowsInv, StartListeningInv, StopListeningInv,
             KernelInv DEF ServerNext
<1>2. CASE UNCHANGED serverVars
  <2>1. UNCHANGED <<stopVars, acceptorOpen, accepts, stops, slips>>
    BY <1>2 DEF serverVars, listenerVars, acceptVars
  <2>2. KeepsAccepts
    BY <2>1 DEF ListenerInv, ListenerTypes, KeepsAccepts
  <2> QED BY <2>1, <2>2, AcceptInv
<1> QED BY <1>1, <1>2

-----------------------------------------------------------------------------
(* However starts, stops, accepts and errors interleave, from outside or   *)
(* from inside stopFactory, the Deferred or the protocol, the factory has  *)
(* a port exactly while the listener is connected, and no Deferred of      *)
(* stopListening fires twice or before its accepts were answered: until    *)
(* the listener is started while it is connected, or has two accepts       *)
(* cancelled (startListening, stopListening, cbAccept and connectionLost   *)
(* of TCPListener).                                                        *)
THEOREM ListenerStopsCleanly == ServerSpec => []StopIsClean
<1>1. ServerInit => ListenerInv
  BY ListenerInitInv
<1>2. ListenerInv /\ [ServerNext]_serverVars => ListenerInv'
  BY ListenerStepInv
<1>3. ListenerInv => StopIsClean
  BY DEF ListenerInv, DeferredsApart, ListenerClean, StopIsClean
<1> QED BY <1>1, <1>2, <1>3, PTL DEF ServerSpec

-----------------------------------------------------------------------------
(***************************************************************************)
(* Datagram, for any number of datagrams, starts and stops.                *)
(***************************************************************************)

DatagramTypes ==
    /\ sockOpen \in BOOLEAN /\ dgReading \in BOOLEAN /\ transport \in BOOLEAN
    /\ starting \in BOOLEAN
    /\ handling \in {"none", "handleRead", "stopProtocol", "callback"}
    /\ recvOp \in {"none", "pending", "data", "failed", "aborted"}

(* Stops are numbered, and a Deferred is of a stop that was made.  Only    *)
(* inside its callbacks is one that has fired still _d.                    *)
StopsNumbered ==
    /\ dgStops \in Nat /\ dgDeferred \in 0..dgStops /\ dgFired \subseteq 1..dgStops
    /\ dgDeferred \in dgFired => handling = "callback"

(* Inside a callback its handler's operation is done; a start is from      *)
(* outside or from the callbacks of the Deferred.                          *)
CallbacksNest ==
    /\ starting => /\ ports = 0 /\ transport /\ recvOp = "none"
                   /\ handling = "none" /\ Lasting => ~dgReading
                   /\ handling = "callback" => ~Lasting
                   /\ handling \in {"none", "callback"}
    /\ handling = "handleRead" => ports = 1
    /\ handling = "stopProtocol" => ports = 0 /\ transport
    /\ handling = "callback" => (Lasting => ports = 0)
    /\ handling # "none" => dgReading /\ recvOp = "none"

(* A protocol with a port has its transport, and reads or should.          *)
PortsInv ==
    /\ ports \in {0, 1}
    /\ ports = 1 => transport
    /\ recvOp # "none" => ports = 1 /\ dgReading
    /\ Idle /\ Lasting => (ports = 1 <=> dgReading)

(* An operation is cancelled only by closing the socket, which stays       *)
(* closed while nothing else opens it.                                     *)
SocketInv ==
    /\ recvOp = "pending" => sockOpen
    /\ "reopened" \notin dgSlips /\ recvOp = "aborted" => ~sockOpen
    /\ "reopened" \notin dgSlips /\ Lasting /\ ports = 0 /\ ~starting => ~sockOpen

DatagramInv == DatagramTypes /\ StopsNumbered /\ CallbacksNest /\ PortsInv /\ SocketInv

-----------------------------------------------------------------------------
LEMMA DatagramInitInv == DatagramInit => DatagramInv
<1> SUFFICES ASSUME DatagramInit PROVE DatagramInv
  OBVIOUS
<1> USE DEF DatagramInit
<1>1. DatagramTypes
  BY DEF DatagramTypes
<1>2. StopsNumbered
  <2>1. 0 \in Nat /\ 0 \in 0..0 /\ {} \subseteq 1..0
    OBVIOUS
  <2> QED BY <2>1 DEF StopsNumbered
<1>3. CallbacksNest /\ PortsInv
  BY DEF CallbacksNest, PortsInv, Idle
<1>4. SocketInv
  BY DEF SocketInv
<1> QED BY <1>1, <1>2, <1>3, <1>4 DEF DatagramInv

(* A start from outside finds a protocol that neither has a port nor       *)
(* reads, unless something is wrong already.                               *)
LEMMA StartOkInv == DatagramInv /\ StartListeningOk => DatagramInv'
<1> SUFFICES ASSUME DatagramInv, StartListeningOk PROVE DatagramInv'
  OBVIOUS
<1> USE DEF DatagramInv, StartListeningOk, Idle, protocolVars
<1>1. DatagramTypes'
  BY DEF DatagramTypes
<1>2. StopsNumbered'
  BY DEF StopsNumbered, DatagramTypes
<1>3. CallbacksNest'
  BY DEF CallbacksNest, DatagramTypes, PortsInv, Lasting
<1>4. PortsInv'
  BY DEF CallbacksNest, DatagramTypes, PortsInv, Lasting
<1>5. SocketInv'
  BY DEF CallbacksNest, DatagramTypes, PortsInv, SocketInv, Lasting
<1> QED BY <1>1, <1>2, <1>3, <1>4, <1>5

LEMMA StartFailsInv == DatagramInv /\ StartListeningFails => DatagramInv'
<1> SUFFICES ASSUME DatagramInv, StartListeningFails PROVE DatagramInv'
  OBVIOUS
<1>1. /\ UNCHANGED <<recvOp, dgReading, ports, transport, dgDeferred, handling, starting, dgFired>>
      /\ dgStops' = dgStops /\ ~transport
  BY DEF StartListeningFails, callbackVars
<1>2. /\ sockOpen' = sockOpen \/ sockOpen' = TRUE
      /\ dgSlips' = dgSlips \union {"startFailed"}
  BY DEF StartListeningFails
<1>3. ~Lasting'
  BY <1>2 DEF Lasting
<1>4. recvOp = "none" /\ ~starting /\ handling # "stopProtocol"
  BY <1>1 DEF DatagramInv, PortsInv, CallbacksNest
<1>5. DatagramTypes'
  BY <1>1, <1>2 DEF DatagramInv, DatagramTypes
<1>6. StopsNumbered'
  BY <1>1 DEF DatagramInv, StopsNumbered
<1>7. CallbacksNest'
  BY <1>1, <1>3, <1>4 DEF DatagramInv, CallbacksNest
<1>8. PortsInv'
  BY <1>1, <1>3 DEF DatagramInv, PortsInv
<1>9. SocketInv'
  BY <1>1, <1>3, <1>4 DEF SocketInv
<1> QED BY <1>5, <1>6, <1>7, <1>8, <1>9 DEF DatagramInv

LEMMA StartReturnsInv == DatagramInv /\ StartProtocolReturns => DatagramInv'
<1> SUFFICES ASSUME DatagramInv, StartProtocolReturns PROVE DatagramInv'
  OBVIOUS
<1> USE DEF DatagramInv, StartProtocolReturns, Idle, DoRead
<1>1. DatagramTypes'
  BY DEF DatagramTypes
<1>2. StopsNumbered'
  BY DEF StopsNumbered, DatagramTypes
<1>3. CallbacksNest'
  BY DEF CallbacksNest, DatagramTypes, PortsInv, Lasting
<1>4. PortsInv'
  BY DEF CallbacksNest, DatagramTypes, PortsInv, Lasting
<1>5. SocketInv'
  BY DEF CallbacksNest, DatagramTypes, PortsInv, SocketInv, Lasting
<1> QED BY <1>1, <1>2, <1>3, <1>4, <1>5

LEMMA StartProtocolThrowsInv == DatagramInv /\ StartProtocolThrows => DatagramInv'
<1> SUFFICES ASSUME DatagramInv, StartProtocolThrows PROVE DatagramInv'
  OBVIOUS
<1> USE DEF DatagramInv, StartProtocolThrows, Idle, protocolVars
<1>1. DatagramTypes'
  BY DEF DatagramTypes
<1>2. StopsNumbered'
  BY DEF StopsNumbered, DatagramTypes
<1>3. CallbacksNest'
  BY DEF CallbacksNest, DatagramTypes, PortsInv, Lasting
<1>4. PortsInv'
  BY DEF CallbacksNest, DatagramTypes, PortsInv, Lasting
<1>5. SocketInv'
  BY DEF CallbacksNest, DatagramTypes, PortsInv, SocketInv, Lasting
<1> QED BY <1>1, <1>2, <1>3, <1>4, <1>5

LEMMA StopNowInv == DatagramInv /\ StopListeningNow => DatagramInv'
<1> SUFFICES ASSUME DatagramInv, StopListeningNow PROVE DatagramInv'
  OBVIOUS
<1> USE DEF DatagramInv, StopListeningNow, Idle, LoseConnection, protocolVars, callbackVars
<1>1. DatagramTypes'
  BY DEF DatagramTypes
<1>2. StopsNumbered'
  <2>1. /\ dgStops \in Nat /\ dgDeferred \in 0..dgStops /\ dgFired \subseteq 1..dgStops
        /\ dgDeferred \in dgFired => handling = "callback"
    BY DEF StopsNumbered
  <2>2. /\ dgStops' = dgStops + 1 /\ dgDeferred' \in {dgStops + 1, dgDeferred}
        /\ UNCHANGED <<dgFired, handling>>
    OBVIOUS
  <2>3. /\ dgStops + 1 \in Nat /\ dgFired \subseteq 1..(dgStops + 1)
        /\ dgStops + 1 \in 0..(dgStops + 1) /\ dgDeferred \in 0..(dgStops + 1)
        /\ dgStops + 1 \notin dgFired
    BY <2>1
  <2> QED BY <2>1, <2>2, <2>3 DEF StopsNumbered
<1>3. CallbacksNest'
  BY DEF CallbacksNest, DatagramTypes, PortsInv, Lasting
<1>4. PortsInv'
  BY DEF CallbacksNest, DatagramTypes, PortsInv, Lasting
<1>5. SocketInv'
  BY DEF CallbacksNest, DatagramTypes, PortsInv, SocketInv, Lasting
<1> QED BY <1>1, <1>2, <1>3, <1>4, <1>5

LEMMA LoseNowInv == DatagramInv /\ LoseConnectionNow => DatagramInv'
<1> SUFFICES ASSUME DatagramInv, LoseConnectionNow PROVE DatagramInv'
  OBVIOUS
<1> USE DEF DatagramInv, LoseConnectionNow, Idle, LoseConnection, protocolVars, callbackVars
<1>1. DatagramTypes'
  BY DEF DatagramTypes
<1>2. StopsNumbered'
  BY DEF StopsNumbered, DatagramTypes
<1>3. CallbacksNest'
  BY DEF CallbacksNest, DatagramTypes, PortsInv, Lasting
<1>4. PortsInv'
  BY DEF CallbacksNest, DatagramTypes, PortsInv, Lasting
<1>5. SocketInv'
  BY DEF CallbacksNest, DatagramTypes, PortsInv, SocketInv, Lasting
<1> QED BY <1>1, <1>2, <1>3, <1>4, <1>5

LEMMA ConnectInv == DatagramInv /\ Connect => DatagramInv'
<1> SUFFICES ASSUME DatagramInv, Connect PROVE DatagramInv'
  OBVIOUS
<1> USE DEF DatagramInv, Connect, Idle, protocolVars, callbackVars
<1>1. DatagramTypes'
  BY DEF DatagramTypes
<1>2. StopsNumbered'
  BY DEF StopsNumbered, DatagramTypes
<1>3. CallbacksNest'
  BY DEF CallbacksNest, DatagramTypes, PortsInv, Lasting
<1>4. PortsInv'
  BY DEF CallbacksNest, DatagramTypes, PortsInv, Lasting
<1>5. SocketInv'
  <2>1. sockOpen' = sockOpen \/ sockOpen' = TRUE
    OBVIOUS
  <2>2. dgSlips' = dgSlips \union {x \in {"reopened"} : sockOpen' # sockOpen}
    OBVIOUS
  <2>3. CASE sockOpen' = sockOpen
    <3>1. dgSlips' = dgSlips
      BY <2>2, <2>3
    <3> QED BY <2>3, <3>1 DEF SocketInv, Lasting
  <2>4. CASE sockOpen' = TRUE /\ sockOpen' # sockOpen
    BY <2>2, <2>4 DEF SocketInv
  <2> QED BY <2>1, <2>3, <2>4
<1> QED BY <1>1, <1>2, <1>3, <1>4, <1>5

LEMMA WriteInv == DatagramInv /\ WriteDatagram => DatagramInv'
<1> SUFFICES ASSUME DatagramInv, WriteDatagram PROVE DatagramInv'
  OBVIOUS
<1> USE DEF DatagramInv, WriteDatagram, Idle, protocolVars, callbackVars
<1>1. DatagramTypes'
  BY DEF DatagramTypes
<1>2. StopsNumbered'
  BY DEF StopsNumbered, DatagramTypes
<1>3. CallbacksNest'
  BY DEF CallbacksNest, DatagramTypes, PortsInv, Lasting
<1>4. PortsInv'
  BY DEF CallbacksNest, DatagramTypes, PortsInv, Lasting
<1>5. SocketInv'
  BY DEF CallbacksNest, DatagramTypes, PortsInv, SocketInv, Lasting
<1> QED BY <1>1, <1>2, <1>3, <1>4, <1>5

LEMMA ReceiveInv == DatagramInv /\ ReceiveCompletes => DatagramInv'
<1> SUFFICES ASSUME DatagramInv, ReceiveCompletes PROVE DatagramInv'
  OBVIOUS
<1> USE DEF DatagramInv, ReceiveCompletes, Idle, protocolVars, callbackVars
<1>1. DatagramTypes'
  BY DEF DatagramTypes
<1>2. StopsNumbered'
  BY DEF StopsNumbered, DatagramTypes
<1>3. CallbacksNest'
  BY DEF CallbacksNest, DatagramTypes, PortsInv, Lasting
<1>4. PortsInv'
  BY DEF CallbacksNest, DatagramTypes, PortsInv, Lasting
<1>5. SocketInv'
  BY DEF CallbacksNest, DatagramTypes, PortsInv, SocketInv, Lasting
<1> QED BY <1>1, <1>2, <1>3, <1>4, <1>5

(* The end of a connection: its socket was closed.                         *)
LEMMA AbortedInv == DatagramInv /\ CbReadAborted => DatagramInv'
<1> SUFFICES ASSUME DatagramInv, CbReadAborted PROVE DatagramInv'
  OBVIOUS
<1> USE DEF DatagramInv, CbReadAborted, Idle
<1>0. ports = 1 /\ ports' = 0
  BY DEF PortsInv
<1>1. DatagramTypes'
  BY DEF DatagramTypes
<1>2. StopsNumbered'
  BY DEF StopsNumbered, DatagramTypes
<1>3. CallbacksNest'
  BY <1>0 DEF CallbacksNest, DatagramTypes, PortsInv, Lasting
<1>4. PortsInv'
  BY <1>0 DEF CallbacksNest, DatagramTypes, PortsInv, Lasting
<1>5. SocketInv'
  BY <1>0 DEF CallbacksNest, DatagramTypes, PortsInv, SocketInv, Lasting
<1> QED BY <1>1, <1>2, <1>3, <1>4, <1>5

LEMMA StopReturnsInv == DatagramInv /\ StopProtocolReturns => DatagramInv'
<1> SUFFICES ASSUME DatagramInv, StopProtocolReturns PROVE DatagramInv'
  OBVIOUS
<1>1. /\ UNCHANGED <<sockOpen, ports, starting, dgSlips, dgDeferred>> /\ dgStops' = dgStops
      /\ handling = "stopProtocol" /\ ~starting /\ transport' = FALSE
  BY DEF StopProtocolReturns, Inside
<1>2. /\ ports = 0 /\ dgReading /\ recvOp = "none" /\ dgDeferred \notin dgFired
      /\ "reopened" \notin dgSlips /\ Lasting => ~sockOpen
  BY <1>1 DEF DatagramInv, CallbacksNest, SocketInv, StopsNumbered
<1>3. CASE dgDeferred = 0
  <2>1. UNCHANGED <<recvOp, dgFired>> /\ handling' = "none" /\ dgReading' = FALSE
    BY <1>3 DEF StopProtocolReturns, LostEnds
  <2>2. DatagramTypes'
    BY <1>1, <2>1 DEF DatagramInv, DatagramTypes
  <2>3. StopsNumbered'
    BY <1>1, <1>2, <2>1 DEF DatagramInv, StopsNumbered
  <2>4. CallbacksNest' /\ PortsInv' /\ SocketInv'
    BY <1>1, <1>2, <2>1 DEF CallbacksNest, PortsInv, SocketInv, Lasting, Idle
  <2> QED BY <2>2, <2>3, <2>4 DEF DatagramInv
<1>4. CASE dgDeferred # 0
  <2>1. /\ UNCHANGED <<recvOp, dgReading>> /\ handling' = "callback"
        /\ dgFired' = dgFired \cup {dgDeferred}
    BY <1>4 DEF StopProtocolReturns
  <2>2. DatagramTypes'
    BY <1>1, <2>1 DEF DatagramInv, DatagramTypes
  <2>3. StopsNumbered'
    BY <1>1, <1>4, <2>1 DEF DatagramInv, StopsNumbered
  <2>4. CallbacksNest' /\ PortsInv' /\ SocketInv'
    BY <1>1, <1>2, <2>1 DEF CallbacksNest, PortsInv, SocketInv, Lasting, Idle
  <2> QED BY <2>2, <2>3, <2>4 DEF DatagramInv
<1> QED BY <1>3, <1>4

LEMMA StopThrowsInv == DatagramInv /\ StopProtocolThrows => DatagramInv'
<1> SUFFICES ASSUME DatagramInv, StopProtocolThrows PROVE DatagramInv'
  OBVIOUS
<1> USE DEF DatagramInv, StopProtocolThrows, Idle, Inside, protocolVars
<1>1. DatagramTypes'
  BY DEF DatagramTypes
<1>2. StopsNumbered'
  BY DEF StopsNumbered, DatagramTypes
<1>3. CallbacksNest'
  BY DEF CallbacksNest, DatagramTypes, PortsInv, Lasting
<1>4. PortsInv'
  BY DEF CallbacksNest, DatagramTypes, PortsInv, Lasting
<1>5. SocketInv'
  BY DEF CallbacksNest, DatagramTypes, PortsInv, SocketInv, Lasting
<1> QED BY <1>1, <1>2, <1>3, <1>4, <1>5

LEMMA DeferredReturnsInv == DatagramInv /\ DeferredReturns => DatagramInv'
<1> SUFFICES ASSUME DatagramInv, DeferredReturns PROVE DatagramInv'
  OBVIOUS
<1> USE DEF DatagramInv, DeferredReturns, Idle, Inside, LostEnds
<1>1. DatagramTypes'
  BY DEF DatagramTypes
<1>2. StopsNumbered'
  BY DEF StopsNumbered, DatagramTypes
<1>3. CallbacksNest'
  BY DEF CallbacksNest, DatagramTypes, PortsInv, Lasting
<1>4. PortsInv'
  BY DEF CallbacksNest, DatagramTypes, PortsInv, Lasting
<1>5. SocketInv'
  BY DEF CallbacksNest, DatagramTypes, PortsInv, SocketInv, Lasting
<1> QED BY <1>1, <1>2, <1>3, <1>4, <1>5

LEMMA ReadOtherInv == DatagramInv /\ CbReadOther => DatagramInv'
<1> SUFFICES ASSUME DatagramInv, CbReadOther PROVE DatagramInv'
  OBVIOUS
<1> USE DEF DatagramInv, CbReadOther, Idle, ReadOn, DoRead, protocolVars
<1>1. DatagramTypes'
  BY DEF DatagramTypes
<1>2. StopsNumbered'
  BY DEF StopsNumbered, DatagramTypes
<1>3. CallbacksNest'
  BY DEF CallbacksNest, DatagramTypes, PortsInv, Lasting
<1>4. PortsInv'
  BY DEF CallbacksNest, DatagramTypes, PortsInv, Lasting
<1>5. SocketInv'
  BY DEF CallbacksNest, DatagramTypes, PortsInv, SocketInv, Lasting
<1> QED BY <1>1, <1>2, <1>3, <1>4, <1>5

LEMMA HandleReturnsInv == DatagramInv /\ HandleReadReturns => DatagramInv'
<1> SUFFICES ASSUME DatagramInv, HandleReadReturns PROVE DatagramInv'
  OBVIOUS
<1> USE DEF DatagramInv, HandleReadReturns, Idle, Inside, ReadOn, DoRead, protocolVars
<1>1. DatagramTypes'
  BY DEF DatagramTypes
<1>2. StopsNumbered'
  BY DEF StopsNumbered, DatagramTypes
<1>3. CallbacksNest'
  BY DEF CallbacksNest, DatagramTypes, PortsInv, Lasting
<1>4. PortsInv'
  BY DEF CallbacksNest, DatagramTypes, PortsInv, Lasting
<1>5. SocketInv'
  BY DEF CallbacksNest, DatagramTypes, PortsInv, SocketInv, Lasting
<1> QED BY <1>1, <1>2, <1>3, <1>4, <1>5

LEMMA HandleThrowsInv == DatagramInv /\ HandleReadThrows => DatagramInv'
<1> SUFFICES ASSUME DatagramInv, HandleReadThrows PROVE DatagramInv'
  OBVIOUS
<1> USE DEF DatagramInv, HandleReadThrows, Idle, Inside, protocolVars
<1>1. DatagramTypes'
  BY DEF DatagramTypes
<1>2. StopsNumbered'
  BY DEF StopsNumbered, DatagramTypes
<1>3. CallbacksNest'
  BY DEF CallbacksNest, DatagramTypes, PortsInv, Lasting
<1>4. PortsInv'
  BY DEF CallbacksNest, DatagramTypes, PortsInv, Lasting
<1>5. SocketInv'
  BY DEF CallbacksNest, DatagramTypes, PortsInv, SocketInv, Lasting
<1> QED BY <1>1, <1>2, <1>3, <1>4, <1>5

LEMMA DatagramStepInv == DatagramInv /\ [DatagramNext]_datagramVars => DatagramInv'
<1> SUFFICES ASSUME DatagramInv, [DatagramNext]_datagramVars PROVE DatagramInv'
  OBVIOUS
<1>1. CASE DatagramNext
  BY <1>1, StartOkInv, StartFailsInv, StartReturnsInv, StartProtocolThrowsInv, StopNowInv,
     LoseNowInv, ConnectInv, WriteInv, ReceiveInv, AbortedInv, StopReturnsInv, StopThrowsInv,
     DeferredReturnsInv, ReadOtherInv, HandleReturnsInv, HandleThrowsInv
     DEF DatagramNext, CbRead
<1>2. CASE UNCHANGED datagramVars
  BY <1>2 DEF datagramVars, protocolVars, callbackVars, DatagramInv, DatagramTypes,
     StopsNumbered, CallbacksNest, PortsInv, SocketInv, Idle, Lasting
<1> QED BY <1>1, <1>2

-----------------------------------------------------------------------------
(* Whatever is read, stopped, written and started again, from outside or   *)
(* inside a callback, a read is outstanding only for a started protocol,   *)
(* a Deferred of stopListening fires once, and between handlers the        *)
(* protocol has its port exactly while the connection reads or should and  *)
(* no socket without it, until a start fails half way, stopProtocol throws *)
(* or the Deferred starts the connection again (startListening and         *)
(* handleRead of UDPConnection, connectionLost of DatagramConnection).     *)
THEOREM DatagramStopsCleanly == DatagramSpec => []DatagramStopIsClean
<1>1. DatagramInit => DatagramInv
  BY DatagramInitInv
<1>2. DatagramInv /\ [DatagramNext]_datagramVars => DatagramInv'
  BY DatagramStepInv
<1>3. DatagramInv => DatagramStopIsClean
  BY DEF DatagramInv, StopsNumbered, PortsInv, SocketInv, DatagramStopIsClean, Idle
<1> QED BY <1>1, <1>2, <1>3, PTL DEF DatagramSpec

-----------------------------------------------------------------------------
(***************************************************************************)
(* Endpoint: the invariant the run checks, joined by what can be outstanding *)
(* at which point of the single attempt a Deferred of connect stands for.  *)
(***************************************************************************)

Operations == {"none", "pending", "ok", "err", "aborted"}
TimerStates == {"none", "armed", "fired"}

EndpointModes ==
    /\ state \in {"kDisconnected", "kConnecting", "kConnected", "kDisconnecting"}
    /\ resolveOp \in Operations /\ connectOp \in Operations
    /\ timer \in TimerStates /\ patience \in TimerStates
    /\ told \in {"none", "made", "lost"}
    /\ session \in {"none", "waiting", "done", "expired", "cancelled"}

EndpointFlags ==
    /\ connection \in BOOLEAN /\ live \in BOOLEAN /\ factoryStarted \in BOOLEAN
    /\ onConnection \in BOOLEAN /\ timedOut \in BOOLEAN /\ lateTimeout \in BOOLEAN
    /\ thrown \in BOOLEAN /\ crashed \in BOOLEAN
    /\ brokenOff \in BOOLEAN /\ lookupDropped \in BOOLEAN

Outstanding == resolveOp # "none" \/ connectOp # "none"

(* Before connect nothing has happened.                                    *)
Unused ==
    answer = "idle" =>
        /\ state = "kDisconnected" /\ ~Outstanding /\ ~connection /\ ~live
        /\ timer = "none" /\ patience = "none" /\ told = "none" /\ ~thrown
        /\ session = "none" /\ ~factoryStarted /\ ~brokenOff /\ ~timedOut

(* While an operation is outstanding its handler finds the Deferred, no    *)
(* protocol has been told anything, and the Deferred is unanswered unless  *)
(* the attempt was aborted.                                                *)
Attempting ==
    /\ resolveOp # "none" => connectOp = "none" /\ ~connection
    /\ Outstanding =>
        /\ onConnection /\ ~live /\ told = "none" /\ ~brokenOff
        /\ state \in {"kConnecting", "kDisconnecting"}
        /\ state = "kConnecting" => answer = "none"
        /\ connection => state = "kConnecting"
        /\ resolveOp = "aborted" \/ connectOp = "aborted" =>
                error \in {"UserAbort", "Timeout"}

(* What a callback waits for, and a time-out that came, follow the answer. *)
Afterwards ==
    /\ answer = "none" => session = "none" /\ ~timedOut
    /\ timedOut => session # "waiting"
    /\ live => told = "made"

EndpointInv ==
    /\ EndpointModes /\ EndpointFlags /\ Unused /\ Attempting /\ Afterwards
    /\ ConnectKeepsWord

-----------------------------------------------------------------------------
(* connect: an address is connected at once, where bind may throw, and a   *)
(* name is looked up first.                                                *)
LEMMA ConnectEndpointKeeps == EndpointInv /\ ConnectEndpoint => EndpointInv'
<1> SUFFICES ASSUME EndpointInv, ConnectEndpoint PROVE EndpointInv'
  OBVIOUS
<1> USE DEF EndpointInv, ConnectKeepsWord, ConnectEndpoint, C!StartConnecting, C!Binds,
        C!DoConnect, C!StartTimeout, endpointGhosts, C!timerVars
<1>1. EndpointModes' BY DEF EndpointModes, Operations, TimerStates
<1>2. EndpointFlags' BY DEF EndpointFlags
<1>3. Unused' BY DEF Unused, Outstanding
<1>4. Attempting'
  <2>1. CASE host = "ip"
    <3>1. PICK isBound \in C!Binds : C!DoConnect(isBound) /\ resolveOp' = resolveOp
      BY <2>1
    <3>2. /\ resolveOp' = "none" /\ connectOp' \in {"none", "pending"}
          /\ connectOp' = "pending" => isBound
          /\ thrown' <=> ~isBound
      BY <3>1 DEF Unused, Outstanding
    <3> QED BY <3>2 DEF Attempting, Outstanding, Unused
  <2>2. CASE host = "name"
    <3>1. resolveOp' = "pending" /\ connectOp' = "none" /\ ~connection' /\ ~thrown'
      BY <2>2 DEF Unused, Outstanding
    <3> QED BY <3>1 DEF Attempting, Outstanding, Unused
  <2> QED BY <2>1, <2>2
<1>5. Afterwards' BY DEF Afterwards, Unused, Outstanding
<1>6. AnswerIsTrue' BY DEF AnswerIsTrue
<1>7. ConnectIsAwaited' BY DEF ConnectIsAwaited
<1>8. TimeoutIsOfConnect' BY DEF TimeoutIsOfConnect
<1> QED BY <1>1, <1>2, <1>3, <1>4, <1>5, <1>6, <1>7, <1>8

(* The application cancels: the attempt, if any of it is left, is          *)
(* aborted, and the Deferred says so.                                      *)
LEMMA CancelKeeps == EndpointInv /\ Cancel => EndpointInv'
<1> SUFFICES ASSUME EndpointInv, Cancel PROVE EndpointInv'
  OBVIOUS
<1> USE DEF EndpointInv, ConnectKeepsWord, Cancel, CancelDeferred, StopConnecting,
        Alive, Answers, C!AbortConnecting, C!CancelledConnect, C!CancelledResolve,
        C!CancelTimeout, portVars, endpointGhosts, attemptVars
<1>1. EndpointModes' BY DEF EndpointModes, Operations, TimerStates
<1>2. EndpointFlags' BY DEF EndpointFlags
<1>3. Unused' BY DEF Unused, Outstanding
<1>4. Attempting' BY DEF Attempting, Outstanding
<1>5. Afterwards' BY DEF Afterwards
<1>6. AnswerIsTrue' BY DEF AnswerIsTrue
<1>7. ConnectIsAwaited' BY DEF ConnectIsAwaited
<1>8. TimeoutIsOfConnect' BY DEF TimeoutIsOfConnect, Attempting, Outstanding, Unused,
      Afterwards, AnswerIsTrue, ConnectIsAwaited, EndpointModes, EndpointFlags,
      Operations, TimerStates
<1> QED BY <1>1, <1>2, <1>3, <1>4, <1>5, <1>6, <1>7, <1>8

(* The Deferred that a callback waits for ends by itself.                  *)
LEMMA SessionEndsKeeps == EndpointInv /\ SessionEnds => EndpointInv'
<1> SUFFICES ASSUME EndpointInv, SessionEnds PROVE EndpointInv'
  OBVIOUS
<1> USE DEF EndpointInv, ConnectKeepsWord, SessionEnds, connectorVars, resultVars,
        endpointGhosts, attemptVars, portVars
<1>1. EndpointModes' BY DEF EndpointModes, Operations, TimerStates
<1>2. EndpointFlags' BY DEF EndpointFlags
<1>3. Unused' BY DEF Unused, Outstanding
<1>4. Attempting' BY DEF Attempting, Outstanding
<1>5. Afterwards' BY DEF Afterwards
<1>6. AnswerIsTrue' BY DEF AnswerIsTrue
<1>7. ConnectIsAwaited' BY DEF ConnectIsAwaited
<1>8. TimeoutIsOfConnect' BY DEF TimeoutIsOfConnect
<1> QED BY <1>1, <1>2, <1>3, <1>4, <1>5, <1>6, <1>7, <1>8

(* asio and the clock move what is outstanding, and nothing else.          *)
LEMMA ResolveCompletesKeeps == EndpointInv /\ ResolveCompletes => EndpointInv'
<1> SUFFICES ASSUME EndpointInv, ResolveCompletes PROVE EndpointInv'
  OBVIOUS
<1> USE DEF EndpointInv, ConnectKeepsWord, ResolveCompletes, C!ResolveCompletes,
        wrapperVars, C!timerVars, C!portVars, C!retryVars, C!faultVars, resultVars,
        endpointGhosts
<1>1. EndpointModes' BY DEF EndpointModes, Operations, TimerStates
<1>2. EndpointFlags' BY DEF EndpointFlags
<1>3. Unused' BY DEF Unused, Outstanding
<1>4. Attempting' BY DEF Attempting, Outstanding
<1>5. Afterwards' BY DEF Afterwards
<1>6. AnswerIsTrue' BY DEF AnswerIsTrue
<1>7. ConnectIsAwaited' BY DEF ConnectIsAwaited
<1>8. TimeoutIsOfConnect' BY DEF TimeoutIsOfConnect
<1> QED BY <1>1, <1>2, <1>3, <1>4, <1>5, <1>6, <1>7, <1>8

LEMMA ConnectCompletesKeeps == EndpointInv /\ ConnectCompletes => EndpointInv'
<1> SUFFICES ASSUME EndpointInv, ConnectCompletes PROVE EndpointInv'
  OBVIOUS
<1> USE DEF EndpointInv, ConnectKeepsWord, ConnectCompletes, C!ConnectCompletes,
        wrapperVars, C!timerVars, C!portVars, C!retryVars, C!faultVars, resultVars,
        endpointGhosts
<1>1. EndpointModes' BY DEF EndpointModes, Operations, TimerStates
<1>2. EndpointFlags' BY DEF EndpointFlags
<1>3. Unused' BY DEF Unused, Outstanding
<1>4. Attempting' BY DEF Attempting, Outstanding
<1>5. Afterwards' BY DEF Afterwards
<1>6. AnswerIsTrue' BY DEF AnswerIsTrue
<1>7. ConnectIsAwaited' BY DEF ConnectIsAwaited
<1>8. TimeoutIsOfConnect' BY DEF TimeoutIsOfConnect
<1> QED BY <1>1, <1>2, <1>3, <1>4, <1>5, <1>6, <1>7, <1>8

LEMMA TimeoutExpiresKeeps == EndpointInv /\ TimeoutExpires => EndpointInv'
<1> SUFFICES ASSUME EndpointInv, TimeoutExpires PROVE EndpointInv'
  OBVIOUS
<1> USE DEF EndpointInv, ConnectKeepsWord, TimeoutExpires, C!TimeoutExpires,
        wrapperVars, C!portVars, C!retryVars, C!faultVars, C!attemptVars, resultVars,
        endpointGhosts
<1>1. EndpointModes' BY DEF EndpointModes, Operations, TimerStates
<1>2. EndpointFlags' BY DEF EndpointFlags
<1>3. Unused' BY DEF Unused, Outstanding
<1>4. Attempting' BY DEF Attempting, Outstanding
<1>5. Afterwards' BY DEF Afterwards
<1>6. AnswerIsTrue' BY DEF AnswerIsTrue
<1>7. ConnectIsAwaited' BY DEF ConnectIsAwaited
<1>8. TimeoutIsOfConnect' BY DEF TimeoutIsOfConnect
<1> QED BY <1>1, <1>2, <1>3, <1>4, <1>5, <1>6, <1>7, <1>8

LEMMA PatienceExpiresKeeps == EndpointInv /\ PatienceExpires => EndpointInv'
<1> SUFFICES ASSUME EndpointInv, PatienceExpires PROVE EndpointInv'
  OBVIOUS
<1> USE DEF EndpointInv, ConnectKeepsWord, PatienceExpires, connectorVars,
        endpointGhosts, attemptVars, portVars
<1>1. EndpointModes' BY DEF EndpointModes, Operations, TimerStates
<1>2. EndpointFlags' BY DEF EndpointFlags
<1>3. Unused' BY DEF Unused, Outstanding
<1>4. Attempting' BY DEF Attempting, Outstanding
<1>5. Afterwards' BY DEF Afterwards
<1>6. AnswerIsTrue' BY DEF AnswerIsTrue
<1>7. ConnectIsAwaited' BY DEF ConnectIsAwaited
<1>8. TimeoutIsOfConnect' BY DEF TimeoutIsOfConnect
<1> QED BY <1>1, <1>2, <1>3, <1>4, <1>5, <1>6, <1>7, <1>8

(* The end of a failed or aborted operation finds the Deferred in the      *)
(* factory, and answers it unless the canceller did.                       *)
LEMMA CbResolveFailedKeeps == EndpointInv /\ CbResolveFailed => EndpointInv'
<1> SUFFICES ASSUME EndpointInv, CbResolveFailed PROVE EndpointInv'
  OBVIOUS
<1> USE DEF EndpointInv, ConnectKeepsWord, CbResolveFailed, ConnectionFailed, C!DoStop,
        C!CancelTimeout, Answers, resultVars, endpointGhosts
<1>1. EndpointModes' BY DEF EndpointModes, Operations, TimerStates
<1>2. EndpointFlags' BY DEF EndpointFlags
<1>3. Unused' BY DEF Unused, Outstanding, Attempting
<1>4. Attempting' BY DEF Attempting, Outstanding
<1>5. Afterwards' BY DEF Afterwards
<1>6. AnswerIsTrue' BY DEF AnswerIsTrue, Attempting, Outstanding
<1>7. ConnectIsAwaited' BY DEF ConnectIsAwaited, Attempting, Outstanding
<1>8. TimeoutIsOfConnect' BY DEF TimeoutIsOfConnect, Afterwards
<1> QED BY <1>1, <1>2, <1>3, <1>4, <1>5, <1>6, <1>7, <1>8

(* A lookup that ends well goes on to the connect, in which bind may       *)
(* throw.                                                                  *)
LEMMA CbResolveOkKeeps == EndpointInv /\ CbResolveOk => EndpointInv'
<1> SUFFICES ASSUME EndpointInv, CbResolveOk PROVE EndpointInv'
  OBVIOUS
<1> USE DEF EndpointInv, ConnectKeepsWord, CbResolveOk, C!CbResolveOk, C!Binds,
        C!DoConnect, resultVars, C!timerVars, C!portVars, C!retryVars
<1>1. EndpointModes' BY DEF EndpointModes, Operations, TimerStates
<1>2. EndpointFlags' BY DEF EndpointFlags
<1>3. Unused' BY DEF Unused, Outstanding
<1>4. Attempting' BY DEF Attempting, Outstanding
<1>5. Afterwards' BY DEF Afterwards
<1>6. AnswerIsTrue' BY DEF AnswerIsTrue
<1>7. ConnectIsAwaited' BY DEF ConnectIsAwaited
<1>8. TimeoutIsOfConnect' BY DEF TimeoutIsOfConnect
<1> QED BY <1>1, <1>2, <1>3, <1>4, <1>5, <1>6, <1>7, <1>8

LEMMA CbConnectFailedKeeps == EndpointInv /\ CbConnectFailed => EndpointInv'
<1> SUFFICES ASSUME EndpointInv, CbConnectFailed PROVE EndpointInv'
  OBVIOUS
<1> USE DEF EndpointInv, ConnectKeepsWord, CbConnectFailed, ConnectionFailed, C!DoStop,
        C!CancelTimeout, Answers, resultVars, endpointGhosts
<1>1. EndpointModes' BY DEF EndpointModes, Operations, TimerStates
<1>2. EndpointFlags' BY DEF EndpointFlags
<1>3. Unused' BY DEF Unused, Outstanding, Attempting
<1>4. Attempting' BY DEF Attempting, Outstanding
<1>5. Afterwards' BY DEF Afterwards
<1>6. AnswerIsTrue' BY DEF AnswerIsTrue, Attempting, Outstanding
<1>7. ConnectIsAwaited' BY DEF ConnectIsAwaited, Attempting, Outstanding
<1>8. TimeoutIsOfConnect' BY DEF TimeoutIsOfConnect, Afterwards
<1> QED BY <1>1, <1>2, <1>3, <1>4, <1>5, <1>6, <1>7, <1>8

(* The two handlers that end half way.                                     *)
LEMMA CbConnectThrowsKeeps == EndpointInv /\ CbConnectThrows => EndpointInv'
<1> SUFFICES ASSUME EndpointInv, CbConnectThrows PROVE EndpointInv'
  OBVIOUS
<1> USE DEF EndpointInv, ConnectKeepsWord, CbConnectThrows, C!CbConnectThrows,
        wrapperVars, C!timerVars, C!portVars, C!retryVars, resultVars, endpointGhosts
<1>1. EndpointModes' BY DEF EndpointModes, Operations, TimerStates
<1>2. EndpointFlags' BY DEF EndpointFlags
<1>3. Unused' BY DEF Unused, Outstanding
<1>4. Attempting' BY DEF Attempting, Outstanding
<1>5. Afterwards' BY DEF Afterwards
<1>6. AnswerIsTrue' BY DEF AnswerIsTrue
<1>7. ConnectIsAwaited' BY DEF ConnectIsAwaited
<1>8. TimeoutIsOfConnect' BY DEF TimeoutIsOfConnect
<1> QED BY <1>1, <1>2, <1>3, <1>4, <1>5, <1>6, <1>7, <1>8

LEMMA CbConnectAbortedKeeps == EndpointInv /\ CbConnectAborted => EndpointInv'
<1> SUFFICES ASSUME EndpointInv, CbConnectAborted PROVE EndpointInv'
  OBVIOUS
<1> USE DEF EndpointInv, ConnectKeepsWord, CbConnectAborted, C!CbConnectAborted,
        wrapperVars, C!timerVars, C!portVars, C!retryVars, resultVars, endpointGhosts
<1>1. EndpointModes' BY DEF EndpointModes, Operations, TimerStates
<1>2. EndpointFlags' BY DEF EndpointFlags
<1>3. Unused' BY DEF Unused, Outstanding
<1>4. Attempting' BY DEF Attempting, Outstanding
<1>5. Afterwards' BY DEF Afterwards
<1>6. AnswerIsTrue' BY DEF AnswerIsTrue
<1>7. ConnectIsAwaited' BY DEF ConnectIsAwaited
<1>8. TimeoutIsOfConnect' BY DEF TimeoutIsOfConnect
<1> QED BY <1>1, <1>2, <1>3, <1>4, <1>5, <1>6, <1>7, <1>8

(* A connect that succeeded finds an unanswered Deferred: an aborted       *)
(* attempt has no _connection any more.                                    *)
LEMMA CbConnectOkKeeps == EndpointInv /\ CbConnectOk => EndpointInv'
<1> SUFFICES ASSUME EndpointInv, CbConnectOk PROVE EndpointInv'
  OBVIOUS
<1> USE DEF EndpointInv, ConnectKeepsWord, CbConnectOk, BuildProtocol, Answers,
        C!CancelTimeout, portVars, resultVars
<1>1. EndpointModes' BY DEF EndpointModes, Operations, TimerStates
<1>2. EndpointFlags' BY DEF EndpointFlags
<1>3. Unused' BY DEF Unused, Outstanding
<1>4. Attempting' BY DEF Attempting, Outstanding
<1>5. Afterwards' BY DEF Afterwards, Attempting, Outstanding
<1>6. AnswerIsTrue' BY DEF AnswerIsTrue, Attempting, Outstanding
<1>7. ConnectIsAwaited' BY DEF ConnectIsAwaited
<1>8. TimeoutIsOfConnect' BY DEF TimeoutIsOfConnect
<1> QED BY <1>1, <1>2, <1>3, <1>4, <1>5, <1>6, <1>7, <1>8

LEMMA CbConnectCancelledKeeps == EndpointInv /\ CbConnectCancelled => EndpointInv'
<1> SUFFICES ASSUME EndpointInv, CbConnectCancelled PROVE EndpointInv'
  OBVIOUS
<1> USE DEF EndpointInv, ConnectKeepsWord, CbConnectCancelled, BuildProtocol, Answers,
        C!CancelTimeout, portVars
<1>1. EndpointModes' BY DEF EndpointModes, Operations, TimerStates
<1>2. EndpointFlags' BY DEF EndpointFlags
<1>3. Unused' BY DEF Unused, Outstanding
<1>4. Attempting' BY DEF Attempting, Outstanding
<1>5. Afterwards' BY DEF Afterwards, Attempting, Outstanding
<1>6. AnswerIsTrue' BY DEF AnswerIsTrue
<1>7. ConnectIsAwaited' BY DEF ConnectIsAwaited
<1>8. TimeoutIsOfConnect' BY DEF TimeoutIsOfConnect, Afterwards
<1> QED BY <1>1, <1>2, <1>3, <1>4, <1>5, <1>6, <1>7, <1>8

LEMMA CbConnectBrokenKeeps == EndpointInv /\ CbConnectBroken => EndpointInv'
<1> SUFFICES ASSUME EndpointInv, CbConnectBroken PROVE EndpointInv'
  OBVIOUS
<1> USE DEF EndpointInv, ConnectKeepsWord, CbConnectBroken, BuildProtocol, Answers,
        C!CancelTimeout, portVars, resultVars
<1>1. EndpointModes' BY DEF EndpointModes, Operations, TimerStates
<1>2. EndpointFlags' BY DEF EndpointFlags
<1>3. Unused' BY DEF Unused, Outstanding
<1>4. Attempting' BY DEF Attempting, Outstanding
<1>5. Afterwards' BY DEF Afterwards
<1>6. AnswerIsTrue' BY DEF AnswerIsTrue
<1>7. ConnectIsAwaited' BY DEF ConnectIsAwaited
<1>8. TimeoutIsOfConnect' BY DEF TimeoutIsOfConnect
<1> QED BY <1>1, <1>2, <1>3, <1>4, <1>5, <1>6, <1>7, <1>8

LEMMA CbConnectRefusedKeeps == EndpointInv /\ CbConnectRefused => EndpointInv'
<1> SUFFICES ASSUME EndpointInv, CbConnectRefused PROVE EndpointInv'
  OBVIOUS
<1> USE DEF EndpointInv, ConnectKeepsWord, CbConnectRefused, BuildProtocol, Answers,
        C!CancelTimeout, C!ConnectionLost, C!DoStop
<1>1. EndpointModes' BY DEF EndpointModes, Operations, TimerStates
<1>2. EndpointFlags' BY DEF EndpointFlags
<1>3. Unused' BY DEF Unused, Outstanding
<1>4. Attempting' BY DEF Attempting, Outstanding
<1>5. Afterwards' BY DEF Afterwards
<1>6. AnswerIsTrue' BY DEF AnswerIsTrue, Attempting, Outstanding
<1>7. ConnectIsAwaited' BY DEF ConnectIsAwaited
<1>8. TimeoutIsOfConnect' BY DEF TimeoutIsOfConnect, Attempting, Outstanding, Afterwards
<1> QED BY <1>1, <1>2, <1>3, <1>4, <1>5, <1>6, <1>7, <1>8

(* What comes after the attempt.                                           *)
LEMMA CbLostKeeps == EndpointInv /\ CbLost => EndpointInv'
<1> SUFFICES ASSUME EndpointInv, CbLost PROVE EndpointInv'
  OBVIOUS
<1> USE DEF EndpointInv, ConnectKeepsWord, CbLost, C!ConnectionLost, C!DoStop,
        resultVars, endpointGhosts
<1>1. EndpointModes' BY DEF EndpointModes, Operations, TimerStates
<1>2. EndpointFlags' BY DEF EndpointFlags
<1>3. Unused' BY DEF Unused, Outstanding
<1>4. Attempting' BY DEF Attempting, Outstanding
<1>5. Afterwards' BY DEF Afterwards
<1>6. AnswerIsTrue' BY DEF AnswerIsTrue, Afterwards
<1>7. ConnectIsAwaited' BY DEF ConnectIsAwaited
<1>8. TimeoutIsOfConnect' BY DEF TimeoutIsOfConnect
<1> QED BY <1>1, <1>2, <1>3, <1>4, <1>5, <1>6, <1>7, <1>8

LEMMA CbTimeoutKeeps == EndpointInv /\ CbTimeout => EndpointInv'
<1> SUFFICES ASSUME EndpointInv, CbTimeout PROVE EndpointInv'
  OBVIOUS
<1> USE DEF EndpointInv, ConnectKeepsWord, CbTimeout, C!CbTimeout, C!AbortConnecting,
        C!CancelledConnect, C!CancelledResolve, wrapperVars, C!portVars, C!retryVars,
        C!faultVars, resultVars, endpointGhosts
<1>1. EndpointModes' BY DEF EndpointModes, Operations, TimerStates
<1>2. EndpointFlags' BY DEF EndpointFlags
<1>3. Unused' BY DEF Unused, Outstanding
<1>4. Attempting' BY DEF Attempting, Outstanding
<1>5. Afterwards' BY DEF Afterwards
<1>6. AnswerIsTrue' BY DEF AnswerIsTrue
<1>7. ConnectIsAwaited' BY DEF ConnectIsAwaited
<1>8. TimeoutIsOfConnect' BY DEF TimeoutIsOfConnect
<1> QED BY <1>1, <1>2, <1>3, <1>4, <1>5, <1>6, <1>7, <1>8

LEMMA CbPatienceKeeps == EndpointInv /\ CbPatience => EndpointInv'
<1> SUFFICES ASSUME EndpointInv, CbPatience PROVE EndpointInv'
  OBVIOUS
<1> USE DEF EndpointInv, ConnectKeepsWord, CbPatience, CancelDeferred, StopConnecting,
        Alive, Answers, C!AbortConnecting, C!CancelledConnect, C!CancelledResolve,
        C!CancelTimeout, portVars, endpointGhosts, attemptVars
<1>1. EndpointModes' BY DEF EndpointModes, Operations, TimerStates
<1>2. EndpointFlags' BY DEF EndpointFlags
<1>3. Unused' BY DEF Unused, Outstanding
<1>4. Attempting' BY DEF Attempting, Outstanding
<1>5. Afterwards' BY DEF Afterwards
<1>6. AnswerIsTrue' BY DEF AnswerIsTrue
<1>7. ConnectIsAwaited' BY DEF ConnectIsAwaited
<1>8. TimeoutIsOfConnect' BY DEF TimeoutIsOfConnect, Afterwards
<1> QED BY <1>1, <1>2, <1>3, <1>4, <1>5, <1>6, <1>7, <1>8

-----------------------------------------------------------------------------
LEMMA EndpointInitInv == EndpointInit => EndpointInv
BY DEF EndpointInit, C!Init, EndpointInv, EndpointModes, EndpointFlags, Operations,
       TimerStates, Unused, Attempting, Outstanding, Afterwards, ConnectKeepsWord,
       AnswerIsTrue, ConnectIsAwaited, TimeoutIsOfConnect

LEMMA EndpointStepInv == EndpointInv /\ [EndpointNext]_endpointVars => EndpointInv'
<1> SUFFICES ASSUME EndpointInv, [EndpointNext]_endpointVars PROVE EndpointInv'
  OBVIOUS
<1>1. CASE EndpointNext
  BY <1>1, ConnectEndpointKeeps, CancelKeeps, SessionEndsKeeps, ResolveCompletesKeeps,
     ConnectCompletesKeeps, TimeoutExpiresKeeps, PatienceExpiresKeeps,
     CbResolveFailedKeeps, CbResolveOkKeeps, CbConnectFailedKeeps, CbConnectThrowsKeeps,
     CbConnectAbortedKeeps, CbConnectOkKeeps, CbConnectCancelledKeeps,
     CbConnectBrokenKeeps, CbConnectRefusedKeeps, CbLostKeeps, CbTimeoutKeeps,
     CbPatienceKeeps
     DEF EndpointNext
<1>2. CASE UNCHANGED endpointVars
  BY <1>2
     DEF EndpointInv, EndpointModes, EndpointFlags, Unused, Attempting, Outstanding,
         Afterwards, ConnectKeepsWord, AnswerIsTrue, ConnectIsAwaited,
         TimeoutIsOfConnect, endpointVars, connectorVars, wrapperVars, attemptVars,
         portVars, resultVars, endpointGhosts
<1> QED BY <1>1, <1>2

-----------------------------------------------------------------------------
(* However lookups, connects, cancels, time-outs and the handlers they     *)
(* overtake interleave, the Deferred of connect is true to the connection, *)
(* stays where the outstanding handler finds it, and its time-out is about *)
(* nothing else (TCPClientEndpoint::connect, WrappingFactory, addTimeout). *)
THEOREM ConnectKeepsItsWord == EndpointSpec => []ConnectKeepsWord
<1>1. EndpointInit => EndpointInv
  BY EndpointInitInv
<1>2. EndpointInv /\ [EndpointNext]_endpointVars => EndpointInv'
  BY EndpointStepInv
<1>3. EndpointInv => ConnectKeepsWord
  BY DEF EndpointInv
<1> QED BY <1>1, <1>2, <1>3, PTL DEF EndpointSpec

(* The answer is final: no handler, cancel or time-out that comes later    *)
(* changes what the Deferred of connect said (Deferred::callback throws    *)
(* AlreadyCalledError, and no handler of the factory gets that far unless  *)
(* the Deferred was answered inside it).                                   *)
AnswerIsFinal == [][answer \notin {"idle", "none"} => answer' = answer]_endpointVars

THEOREM AnsweredOnce == EndpointSpec => AnswerIsFinal
<1>1. EndpointInit => EndpointInv
  BY EndpointInitInv
<1>2. EndpointInv /\ [EndpointNext]_endpointVars => EndpointInv'
  BY EndpointStepInv
<1>3. ASSUME EndpointInv, [EndpointNext]_endpointVars, answer \notin {"idle", "none"}
      PROVE  answer' = answer
  <2>1. CASE UNCHANGED endpointVars
    BY <2>1 DEF endpointVars, wrapperVars, resultVars
  <2>2. CASE CbResolveFailed \/ CbConnectFailed
    BY <1>3, <2>2 DEF CbResolveFailed, CbConnectFailed, ConnectionFailed, resultVars
  <2>3. CASE CbConnectOk \/ CbConnectCancelled \/ CbConnectRefused
    <3>1. state = "kConnecting" /\ connectOp = "ok"
      BY <1>3, <2>3 DEF CbConnectOk, CbConnectCancelled, CbConnectRefused, BuildProtocol,
                        EndpointInv, Attempting, Outstanding
    <3>2. answer = "none"
      BY <1>3, <3>1 DEF EndpointInv, Attempting, Outstanding
    <3> QED BY <1>3, <3>2
  <2>4. CASE Cancel \/ CbPatience
    BY <1>3, <2>4 DEF Cancel, CbPatience, CancelDeferred
  <2>5. CASE \/ SessionEnds \/ ResolveCompletes \/ ConnectCompletes \/ TimeoutExpires
             \/ PatienceExpires \/ CbResolveOk \/ CbConnectThrows \/ CbConnectAborted
             \/ CbConnectBroken \/ CbLost \/ CbTimeout
    BY <2>5 DEF SessionEnds, ResolveCompletes, ConnectCompletes, TimeoutExpires,
                PatienceExpires, CbResolveOk, CbConnectThrows, CbConnectAborted,
                CbConnectBroken, CbLost, CbTimeout, wrapperVars, resultVars
  <2>6. CASE ConnectEndpoint
    BY <1>3, <2>6 DEF ConnectEndpoint
  <2> QED BY <1>3, <2>1, <2>2, <2>3, <2>4, <2>5, <2>6 DEF EndpointNext
<1> QED BY <1>1, <1>2, <1>3, PTL DEF EndpointSpec, AnswerIsFinal
=============================================================================
