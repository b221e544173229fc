------------------------------ MODULE TaskPool ------------------------------
(***************************************************************************)
(* TaskPool (common/threading/taskpool.h and .cpp) and ConcurrentQueue     *)
(* (common/threading/concurrentqueue.h): a list under a mutex, a condition *)
(* variable, and threads that take from the list until they are told to    *)
(* stop.  Each critical section is one step.  `pool` tells which of the    *)
(* two classes the behaviour is of.                                        *)
(*                                                                         *)
(* Values are numbered in the order in which they are accepted.  The pool  *)
(* is started, joined and destroyed by one owner; everything else may be   *)
(* called by any thread, as it locks the mutex.                            *)
(***************************************************************************)
EXTENDS Integers, Sequences, FiniteSets

CONSTANTS
    Threads,    \* the pool's threads, or the consumers of a queue
    MaxTasks,   \* bound: tasks submitted
    MaxResets   \* bound: calls of reset

ASSUME PoolAssumption ==
    /\ Threads # {}
    /\ MaxTasks \in Nat
    /\ MaxResets \in Nat

VARIABLES
    pool,                 \* TRUE: a TaskPool, FALSE: a ConcurrentQueue
    taskList,             \* _taskList, _queue
    stopped, terminated,  \* _stopped, _terminated
    worker,               \* where each thread is
    current,              \* the task it executes, 0: none
    owner,                \* what the owner of the pool is doing
    accepted, taken,      \* ghosts: values pushed, values popped
    finished,             \* ghost: tasks whose future is ready
    broken,               \* ghost: tasks whose future is broken
    resets

poolVars == <<pool, taskList, stopped, terminated, worker, current, owner,
              accepted, taken, finished, broken, resets>>

(* Threads that exist, and those that wait for the condition variable.     *)
Live == {w \in Threads : worker[w] \in {"ready", "waiting", "task"}}
Waiting == {w \in Threads : worker[w] = "waiting"}

PoolInit ==
    /\ pool \in BOOLEAN
    /\ taskList = <<>>
    /\ stopped = FALSE /\ terminated = FALSE
    /\ worker = [w \in Threads |-> "none"]
    /\ current = [w \in Threads |-> 0]
    /\ owner = "free"
    /\ accepted = 0 /\ taken = 0
    /\ finished = {} /\ broken = {}
    /\ resets = 0

-----------------------------------------------------------------------------
(* The condition variable.                                                 *)

(* Mutant: nobody is told.                                                 *)
NotifyNobody == worker' = worker

NotifyOne ==
    IF Waiting = {} THEN worker' = worker
    ELSE \E w \in Waiting : worker' = [worker EXCEPT ![w] = "ready"]

AllNotified ==
    [w \in Threads |-> IF worker[w] = "waiting" THEN "ready" ELSE worker[w]]

(* A condition variable may wake a thread for no reason.                   *)
WakeSpuriously(w) ==
    /\ worker[w] = "waiting"
    /\ worker' = [worker EXCEPT ![w] = "ready"]
    /\ UNCHANGED <<pool, taskList, stopped, terminated, current, owner,
                   accepted, taken, finished, broken, resets>>

-----------------------------------------------------------------------------
(* Calls of any thread.                                                    *)

(* The object may be used until it is destroyed, and while the destructor  *)
(* waits by the tasks that still execute.                                  *)
Usable ==
    \/ owner \in {"free", "joining"}
    \/ owner = "destroying" /\ \E w \in Threads : worker[w] = "task"

Append1 ==
    /\ accepted < MaxTasks
    /\ accepted' = accepted + 1
    /\ taskList' = Append(taskList, accepted + 1)
    /\ NotifyOne
    /\ UNCHANGED <<pool, stopped, terminated, current, owner, taken,
                   finished, broken, resets>>

(* submit and push accept a task whatever state the pool is in.            *)
Push == pool /\ Usable /\ Append1

(* enqueue refuses (and changes nothing) once stopped or terminated.       *)
Enqueue == ~pool /\ ~terminated /\ ~stopped /\ Append1

StopPool ==
    /\ Usable
    /\ stopped' = TRUE
    /\ worker' = AllNotified
    /\ UNCHANGED <<pool, taskList, terminated, current, owner, accepted,
                   taken, finished, broken, resets>>

Terminate ==
    /\ Usable
    /\ terminated' = TRUE
    /\ worker' = AllNotified
    /\ UNCHANGED <<pool, taskList, stopped, current, owner, accepted,
                   taken, finished, broken, resets>>

Reset ==
    /\ Usable /\ resets < MaxResets
    /\ stopped' = FALSE /\ terminated' = FALSE
    /\ resets' = resets + 1
    /\ UNCHANGED <<pool, taskList, worker, current, owner, accepted, taken,
                   finished, broken>>

-----------------------------------------------------------------------------
(* The threads.                                                            *)

(* The loop of pop and dequeue, from one acquisition of the mutex to the   *)
(* next or to the return.  A task is executed; a value dequeued is the     *)
(* caller's, who may call again.                                           *)
Take(w, got) ==
    /\ worker[w] = "ready"
    /\ \/ /\ ~terminated /\ taskList # <<>>
          /\ taskList' = Tail(taskList)
          /\ taken' = taken + 1
          /\ worker' = [worker EXCEPT ![w] = got]
          /\ current' = [current EXCEPT ![w] = Head(taskList)]
       \/ /\ terminated \/ (taskList = <<>> /\ stopped)
          /\ worker' = [worker EXCEPT ![w] = "exited"]
          /\ UNCHANGED <<taskList, taken, current>>
       \/ /\ ~terminated /\ taskList = <<>> /\ ~stopped
          /\ worker' = [worker EXCEPT ![w] = "waiting"]
          /\ UNCHANGED <<taskList, taken, current>>
    /\ UNCHANGED <<pool, stopped, terminated, owner, accepted, finished,
                   broken, resets>>

(* Mutant: the front is read and removed in two critical sections.         *)
PopTwice(w) ==
    /\ pool
    /\ \/ Take(w, "task")
       \/ /\ worker[w] = "ready" /\ ~terminated /\ taskList # <<>>
          /\ worker' = [worker EXCEPT ![w] = "task"]
          /\ current' = [current EXCEPT ![w] = Head(taskList)]
          /\ UNCHANGED <<pool, taskList, stopped, terminated, owner, accepted,
                         taken, finished, broken, resets>>

Pop(w) == pool /\ Take(w, "task")

Dequeue(w) == ~pool /\ Take(w, "task")

(* process after execute: a task that throws settles its future as well.   *)
Execute(w) ==
    /\ worker[w] = "task"
    /\ worker' = [worker EXCEPT ![w] = "ready"]
    /\ current' = [current EXCEPT ![w] = 0]
    /\ finished' = finished \cup {current[w]}
    /\ UNCHANGED <<pool, taskList, stopped, terminated, owner, accepted,
                   taken, broken, resets>>

(* A consumer calls dequeue for the first time, or after it returned       *)
(* nothing.                                                                *)
CallDequeue(w) ==
    /\ ~pool /\ worker[w] \in {"none", "exited"}
    /\ worker' = [worker EXCEPT ![w] = "ready"]
    /\ UNCHANGED <<pool, taskList, stopped, terminated, current, owner,
                   accepted, taken, finished, broken, resets>>

(* tryDequeue does not wait: a consumer outside dequeue takes the front.   *)
TryDequeue(w) ==
    /\ ~pool /\ worker[w] \in {"none", "exited"}
    /\ ~terminated /\ taskList # <<>>
    /\ taskList' = Tail(taskList)
    /\ taken' = taken + 1
    /\ finished' = finished \cup {Head(taskList)}
    /\ UNCHANGED <<pool, stopped, terminated, worker, current, owner,
                   accepted, broken, resets>>

-----------------------------------------------------------------------------
(* The owner of the pool.                                                  *)

(* _threads is empty before the first start and after each wait.           *)
Joined == \A w \in Threads : worker[w] = "none"

Start ==
    /\ pool /\ owner = "free"
    /\ Joined /\ ~stopped /\ ~terminated
    /\ worker' = [w \in Threads |-> "ready"]
    /\ UNCHANGED <<pool, taskList, stopped, terminated, current, owner,
                   accepted, taken, finished, broken, resets>>

CallWait ==
    /\ pool /\ owner = "free"
    /\ owner' = "joining"
    /\ UNCHANGED <<pool, taskList, stopped, terminated, worker, current,
                   accepted, taken, finished, broken, resets>>

WaitReturns ==
    /\ owner = "joining" /\ Live = {}
    /\ owner' = "free"
    /\ worker' = [w \in Threads |-> "none"]
    /\ UNCHANGED <<pool, taskList, stopped, terminated, current, accepted,
                   taken, finished, broken, resets>>

(* Mutant: the destructor stops the threads without telling them.          *)
DestroyQuietly ==
    /\ pool /\ owner = "free"
    /\ terminated' = TRUE
    /\ owner' = "destroying"
    /\ UNCHANGED <<pool, taskList, stopped, worker, current, accepted, taken,
                   finished, broken, resets>>

(* ~TaskPool: terminate, wait, and dispose of the tasks that are left.     *)
Destroy ==
    /\ pool /\ owner = "free"
    /\ terminated' = TRUE
    /\ worker' = AllNotified
    /\ owner' = "destroying"
    /\ UNCHANGED <<pool, taskList, stopped, current, accepted, taken,
                   finished, broken, resets>>

DestroyEnds ==
    /\ owner = "destroying" /\ Live = {}
    /\ owner' = "gone"
    /\ worker' = [w \in Threads |-> "none"]
    /\ broken' = {taskList[i] : i \in DOMAIN taskList}
    /\ UNCHANGED <<pool, taskList, stopped, terminated, current, accepted,
                   taken, finished, resets>>

-----------------------------------------------------------------------------
ThreadStep(w) == Pop(w) \/ Dequeue(w) \/ Execute(w)

PoolNext ==
    \/ Push \/ Enqueue \/ StopPool \/ Terminate \/ Reset
    \/ Start \/ CallWait \/ WaitReturns \/ Destroy \/ DestroyEnds
    \/ \E w \in Threads :
        \/ ThreadStep(w) \/ WakeSpuriously(w)
        \/ CallDequeue(w) \/ TryDequeue(w)

(* Threads are scheduled, tasks return, and a join returns when it can.    *)
PoolFairness ==
    /\ \A w \in Threads : WF_poolVars(ThreadStep(w))
    /\ WF_poolVars(WaitReturns \/ DestroyEnds)

PoolSpec == PoolInit /\ [][PoolNext]_poolVars

-----------------------------------------------------------------------------
(* Properties.                                                             *)

(* Every variable has its type.                                            *)
PoolTypeOK ==
    /\ pool \in BOOLEAN /\ stopped \in BOOLEAN /\ terminated \in BOOLEAN
    /\ taskList \in Seq(Nat)
    /\ worker \in [Threads -> {"none", "ready", "waiting", "task", "exited"}]
    /\ current \in [Threads -> Nat]
    /\ owner \in {"free", "joining", "destroying", "gone"}
    /\ accepted \in Nat /\ taken \in Nat /\ resets \in Nat
    /\ finished \subseteq Nat /\ broken \subseteq Nat

(* The list holds, in order, exactly the tasks accepted and not yet taken. *)
ListExact ==
    /\ Len(taskList) = accepted - taken
    /\ \A i \in 1..Len(taskList) : taskList[i] = taken + i

(* A task is in one place: in the list, in its turn, or with one thread,   *)
(* or settled.  None is executed twice or by two threads, and none whose   *)
(* future was broken by the destructor is ever executed (push_back, front  *)
(* and pop_front, each under the mutex).                                   *)
EachTaskOnce ==
    /\ ListExact
    /\ \A w \in Threads : worker[w] = "task" =>
        /\ current[w] \in 1..taken
        /\ current[w] \notin finished
        /\ \A v \in Threads \ {w} : worker[v] = "task" => current[v] # current[w]
    /\ finished \subseteq 1..taken
    /\ finished \cap broken = {}

(* No wake-up is lost: while there is something to do, some thread that    *)
(* exists is awake (push notifies one, whoever takes goes round again),    *)
(* and after stop or terminate nobody sleeps.                              *)
NoLostWakeup ==
    /\ taskList # <<>> /\ Waiting # {} => Live # Waiting
    /\ stopped \/ terminated => Waiting = {}

(* stop and terminate end every thread, the ones that sleep and the ones   *)
(* in a task, unless reset takes them back before; so join and the         *)
(* destructor return.                                                      *)
StopEndsThreads ==
    \A w \in Threads :
        (stopped \/ terminated) /\ w \in Live
            ~> w \notin Live \/ ~(stopped \/ terminated)

(* An accepted task is taken from the list by a thread, unless the pool is *)
(* terminated or has no thread.                                            *)
AcceptedTaskRuns ==
    \A t \in 1..MaxTasks :
        (accepted >= t /\ taken < t) ~> (taken >= t \/ terminated \/ Live = {})

(* Tasks are taken and threads are ended, whatever stop, terminate, reset  *)
(* and push do to each other (taskpool.cpp 11-63).                         *)
PoolMakesProgress == StopEndsThreads /\ AcceptedTaskRuns
=============================================================================
