------------------------------ MODULE Deferred ------------------------------
(***************************************************************************)
(* The Deferreds of core/network/defer.h and defer.cpp: callbacks that run *)
(* when a result arrives, results that are themselves Deferreds, pauses    *)
(* and cancellation.                                                       *)
(*                                                                         *)
(* A callback is code of the application and may do to any Deferred what   *)
(* code outside callbacks may do, so runCallbacks is re-entered from its   *)
(* own loop.  A step is therefore one turn of that loop, the return of one *)
(* callback, or one call of the application, and `stack` holds what is     *)
(* under way, innermost first: activations of runCallbacks, each with its  *)
(* chain (current first), and callbacks that have not returned.            *)
(*                                                                         *)
(* A callback returns only Deferreds numbered higher than its own, so that *)
(* none waits for itself.                                                  *)
(***************************************************************************)
EXTENDS Integers, Sequences

CONSTANTS
    N,            \* Deferreds
    Cancellers,   \* what the _canceller of each does: "none" is set,
                  \* "quiet" leaves it to cancel(), "fires" calls callback
    MaxCallbacks, \* bound: callbacks the application adds
    MaxPauses     \* bound: pauses of one Deferred in force at once

ASSUME DeferredAssumption ==
    /\ N \in Nat
    /\ Cancellers \in [1..N -> {"none", "quiet", "fires"}]
    /\ MaxCallbacks \in Nat
    /\ MaxPauses \in Nat

Deferreds == 1..N

(* Values are abstracted to what decides which callback runs; "null" is    *)
(* the value nullptr makes, and which Deferred a "deferred" one holds is   *)
(* in waitsFor.                                                            *)
Values == {"empty", "null", "val", "err", "deferred"}

(* A pair of callback and errback, by the results it does anything to, or  *)
(* the Continuation of a Deferred.                                         *)
UserEntry(k) == [kind |-> k, of |-> 0]
Continuation(d) == [kind |-> "cont", of |-> d]
Entries == [kind : {"ok", "err", "both"}, of : {0}]
              \cup [kind : {"cont"}, of : Deferreds]

VARIABLES
    called, suppress,  \* _called, _suppressAlreadyCalled
    running,           \* _runningCallbacks
    paused,            \* _paused
    callbacks,         \* _callbacks
    result, waitsFor,  \* _result
    stack,             \* what is under way
    userPauses,        \* pauses of the application, not yet undone
    left,              \* Deferreds an activation left behind (see RunPaused)
    added              \* callbacks added so far

objVars == <<called, suppress, running, paused, callbacks, result, waitsFor>>
vars == <<objVars, stack, userPauses, left, added>>

Frames == [type : {"run", "call"}, chain : Seq(Deferreds), fresh : BOOLEAN,
           arg : Values]

Activation(d) == [type |-> "run", chain |-> <<d>>, fresh |-> TRUE, arg |-> "empty"]
Call(d, v) == [type |-> "call", chain |-> <<d>>, fresh |-> FALSE, arg |-> v]

Init ==
    /\ called = [d \in Deferreds |-> FALSE]
    /\ suppress = [d \in Deferreds |-> FALSE]
    /\ running = [d \in Deferreds |-> FALSE]
    /\ paused = [d \in Deferreds |-> 0]
    /\ callbacks = [d \in Deferreds |-> <<>>]
    /\ result = [d \in Deferreds |-> "empty"]
    /\ waitsFor = [d \in Deferreds |-> 0]
    /\ stack = <<>>
    /\ userPauses = [d \in Deferreds |-> 0]
    /\ left = {}
    /\ added = 0

-----------------------------------------------------------------------------
(* The application: outside callbacks, or inside the innermost one.        *)

AppTurn == IF stack = <<>> THEN TRUE ELSE Head(stack).type = "call"

(* Mutant: the loop is entered again from inside a callback.               *)
ActivatedAgain(d) == <<Activation(d)>> \o stack

(* runCallbacks returns at once while a callback of the same Deferred runs.*)
Activated(d) == IF running[d] THEN stack ELSE <<Activation(d)>> \o stack

(* addCallback, addErrback and addBoth, by way of addCallbacks.            *)
AddCallback(d, k) ==
    /\ AppTurn /\ added < MaxCallbacks
    /\ added' = added + 1
    /\ callbacks' = [callbacks EXCEPT ![d] = Append(@, UserEntry(k))]
    /\ stack' = IF called[d] THEN Activated(d) ELSE stack
    /\ left' = IF called[d] THEN left \ {d} ELSE left
    /\ UNCHANGED <<called, suppress, running, paused, result, waitsFor,
                   userPauses>>

(* startRunCallbacks of a Deferred not called yet.                         *)
StartRunCallbacks(d, v) ==
    /\ called' = [called EXCEPT ![d] = TRUE]
    /\ result' = [result EXCEPT ![d] = v]
    /\ stack' = Activated(d)
    /\ UNCHANGED <<running, paused, callbacks, waitsFor, userPauses,
                   left, added>>

(* callback and errback, and with them the two functions chainDeferred     *)
(* adds.                                                                   *)
Fire(d, v) ==
    /\ AppTurn /\ ~called[d]
    /\ StartRunCallbacks(d, v)
    /\ UNCHANGED suppress

(* The result of an operation that was cancelled meanwhile is dropped once.*)
(* Otherwise a second result is an AlreadyCalledError of the caller.       *)
FireLate(d) ==
    /\ AppTurn /\ called[d] /\ suppress[d]
    /\ suppress' = [suppress EXCEPT ![d] = FALSE]
    /\ UNCHANGED <<called, running, paused, callbacks, result, waitsFor,
                   stack, userPauses, left, added>>

Pause(d) ==
    /\ AppTurn /\ userPauses[d] < MaxPauses
    /\ paused' = [paused EXCEPT ![d] = @ + 1]
    /\ userPauses' = [userPauses EXCEPT ![d] = @ + 1]
    /\ UNCHANGED <<called, suppress, running, callbacks, result, waitsFor,
                   stack, left, added>>

(* Mutant: unpause runs the callbacks whatever else pauses the Deferred.   *)
UnpauseForgets(d) ==
    /\ AppTurn /\ userPauses[d] > 0
    /\ paused' = [paused EXCEPT ![d] = 0]
    /\ userPauses' = [userPauses EXCEPT ![d] = @ - 1]
    /\ stack' = IF called[d] THEN Activated(d) ELSE stack
    /\ left' = IF called[d] THEN left \ {d} ELSE left
    /\ UNCHANGED <<called, suppress, running, callbacks, result, waitsFor,
                   added>>

Unpause(d) ==
    /\ AppTurn /\ userPauses[d] > 0
    /\ paused' = [paused EXCEPT ![d] = @ - 1]
    /\ userPauses' = [userPauses EXCEPT ![d] = @ - 1]
    /\ stack' = IF paused[d] = 1 /\ called[d] THEN Activated(d) ELSE stack
    /\ left' = IF paused[d] = 1 /\ called[d] THEN left \ {d} ELSE left
    /\ UNCHANGED <<called, suppress, running, callbacks, result, waitsFor,
                   added>>

(* cancel() of a Deferred that waits for another cancels that one.         *)
CancelTarget[d \in Deferreds] ==
    IF called[d] /\ result[d] = "deferred" THEN CancelTarget[waitsFor[d]] ELSE d

Cancel(d) ==
    \E t \in Deferreds :
        /\ t = CancelTarget[d]
        /\ AppTurn /\ ~called[t]
        /\ StartRunCallbacks(t, IF Cancellers[t] = "fires" THEN "val" ELSE "err")
        /\ suppress' = [suppress EXCEPT ![t] = (Cancellers[t] = "none")]

-----------------------------------------------------------------------------
(* runCallbacks.                                                           *)

InLoop == stack # <<>> /\ Head(stack).type = "run"
Top == Head(stack)
Current == Head(Top.chain)

(* Mutant: _paused is not tested.                                          *)
EnteredPaused == InLoop

(* Past the test of _paused, which is made when Current comes to the front *)
(* of the chain and not again between its callbacks.                       *)
Entered == InLoop /\ (Top.fresh => paused[Current] = 0)

(* The stack after the activation f has finished with its current.         *)
PopChain(f, rest) ==
    IF Len(f.chain) = 1 THEN rest
    ELSE <<[f EXCEPT !.chain = Tail(@), !.fresh = TRUE]>> \o rest

(* The loop returns when Current is paused, and with it forgets the other  *)
(* Deferreds of the chain, which may have callbacks to run.                *)
RunPaused ==
    /\ InLoop /\ Top.fresh /\ paused[Current] > 0
    /\ stack' = Tail(stack)
    /\ left' = left \cup {Top.chain[i] : i \in 2..Len(Top.chain)}
    /\ UNCHANGED <<objVars, userPauses, added>>

RunFinished ==
    /\ Entered /\ callbacks[Current] = <<>>
    /\ stack' = PopChain(Top, Tail(stack))
    /\ UNCHANGED <<objVars, userPauses, left, added>>

(* Mutant: the Deferred that waited is not run.                            *)
RunContinuationOnly ==
    /\ Entered /\ callbacks[Current] # <<>>
    /\ LET entry == Head(callbacks[Current]) IN
       /\ entry.kind = "cont"
       /\ result' = [result EXCEPT ![entry.of] = result[Current],
                                   ![Current] = "null"]
       /\ waitsFor' = [waitsFor EXCEPT ![entry.of] = 0]
       /\ paused' = [paused EXCEPT ![entry.of] = @ - 1]
       /\ stack' = <<[Top EXCEPT !.fresh = FALSE]>> \o Tail(stack)
    /\ callbacks' = [callbacks EXCEPT ![Current] = Tail(@)]
    /\ UNCHANGED <<called, suppress, running, userPauses, left,
                   added>>

(* A Continuation hands the result over and puts its Deferred, which need  *)
(* no longer wait, at the front of the chain.                              *)
RunContinuation ==
    /\ Entered /\ callbacks[Current] # <<>>
    /\ LET entry == Head(callbacks[Current]) IN
       /\ entry.kind = "cont"
       /\ result' = [result EXCEPT ![entry.of] = result[Current],
                                   ![Current] = "null"]
       /\ waitsFor' = [waitsFor EXCEPT ![entry.of] = 0]
       /\ paused' = [paused EXCEPT ![entry.of] = @ - 1]
       /\ stack' = <<[Top EXCEPT !.chain = <<entry.of>> \o @, !.fresh = TRUE]>>
                      \o Tail(stack)
    /\ callbacks' = [callbacks EXCEPT ![Current] = Tail(@)]
    /\ UNCHANGED <<called, suppress, running, userPauses, left,
                   added>>

(* Whether the pair k has a function for the result v, other than the one  *)
(* that returns its argument.                                              *)
HandlesResult(k, v) == k = "both" \/ (k = "err" <=> v = "err")

RunPass ==
    /\ Entered /\ callbacks[Current] # <<>>
    /\ LET entry == Head(callbacks[Current]) IN
       entry.kind # "cont" /\ ~HandlesResult(entry.kind, result[Current])
    /\ callbacks' = [callbacks EXCEPT ![Current] = Tail(@)]
    /\ stack' = <<[Top EXCEPT !.fresh = FALSE]>> \o Tail(stack)
    /\ UNCHANGED <<called, suppress, running, paused, result, waitsFor,
                   userPauses, left, added>>

(* The callback is called, with _result moved into its argument.           *)
RunEntry ==
    /\ Entered /\ callbacks[Current] # <<>>
    /\ LET entry == Head(callbacks[Current]) IN
       entry.kind # "cont" /\ HandlesResult(entry.kind, result[Current])
    /\ callbacks' = [callbacks EXCEPT ![Current] = Tail(@)]
    /\ running' = [running EXCEPT ![Current] = TRUE]
    /\ result' = [result EXCEPT ![Current] = "null"]
    /\ stack' = <<Call(Current, result[Current]), [Top EXCEPT !.fresh = FALSE]>>
                   \o Tail(stack)
    /\ UNCHANGED <<called, suppress, paused, waitsFor, userPauses, left,
                   added>>

-----------------------------------------------------------------------------
(* The innermost callback returns.                                         *)

InCallback == stack # <<>> /\ Head(stack).type = "call"

(* It returns a value, or throws.                                          *)
ReturnValue(v) ==
    /\ InCallback
    /\ running' = [running EXCEPT ![Current] = FALSE]
    /\ result' = [result EXCEPT ![Current] = v]
    /\ stack' = Tail(stack)
    /\ UNCHANGED <<called, suppress, paused, callbacks, waitsFor,
                   userPauses, left, added>>

NoResultYet(e) ==
    result[e] = "empty" \/ result[e] = "deferred" \/ paused[e] > 0

(* Mutant: the Deferred that waits is not paused.                          *)
ReturnPendingUnpaused(e) ==
    /\ InCallback /\ e > Current /\ NoResultYet(e)
    /\ running' = [running EXCEPT ![Current] = FALSE]
    /\ result' = [result EXCEPT ![Current] = "deferred"]
    /\ waitsFor' = [waitsFor EXCEPT ![Current] = e]
    /\ callbacks' = [callbacks EXCEPT ![e] = Append(@, Continuation(Current))]
    /\ stack' = PopChain(stack[2], Tail(Tail(stack)))
    /\ UNCHANGED <<called, suppress, paused, userPauses, left, added>>

(* It returns a Deferred with no result to give yet: Current waits.        *)
ReturnPending(e) ==
    /\ InCallback /\ e > Current /\ NoResultYet(e)
    /\ running' = [running EXCEPT ![Current] = FALSE]
    /\ result' = [result EXCEPT ![Current] = "deferred"]
    /\ waitsFor' = [waitsFor EXCEPT ![Current] = e]
    /\ paused' = [paused EXCEPT ![Current] = @ + 1]
    /\ callbacks' = [callbacks EXCEPT ![e] = Append(@, Continuation(Current))]
    /\ stack' = PopChain(stack[2], Tail(Tail(stack)))
    /\ UNCHANGED <<called, suppress, userPauses, left, added>>

(* It returns a Deferred that has a result.  `resultResult` refers to the  *)
(* very _result that is set to nullptr before it is read, so Current gets  *)
(* nullptr, and an error is lost.                                          *)
ReturnFired(e) ==
    /\ InCallback /\ e > Current /\ ~NoResultYet(e)
    /\ running' = [running EXCEPT ![Current] = FALSE]
    /\ result' = [result EXCEPT ![e] = "null", ![Current] = "null"]
    /\ stack' = Tail(stack)
    /\ UNCHANGED <<called, suppress, paused, callbacks, waitsFor,
                   userPauses, left, added>>

-----------------------------------------------------------------------------

Application ==
    \E d \in Deferreds :
        \/ \E k \in {"ok", "err", "both"} : AddCallback(d, k)
        \/ \E v \in {"val", "err"} : Fire(d, v)
        \/ FireLate(d)
        \/ Pause(d) \/ Unpause(d)
        \/ Cancel(d)

Loop == RunPaused \/ RunFinished \/ RunContinuation \/ RunPass \/ RunEntry

Return ==
    \/ \E v \in {"val", "err"} : ReturnValue(v)
    \/ \E e \in Deferreds : ReturnPending(e) \/ ReturnFired(e)

Next == Application \/ Loop \/ Return

Spec == Init /\ [][Next]_vars

-----------------------------------------------------------------------------
(* Properties.                                                             *)

(* Every variable has its type.                                            *)
TypeOK ==
    /\ called \in [Deferreds -> BOOLEAN] /\ suppress \in [Deferreds -> BOOLEAN]
    /\ running \in [Deferreds -> BOOLEAN]
    /\ paused \in [Deferreds -> Nat] /\ userPauses \in [Deferreds -> 0..MaxPauses]
    /\ callbacks \in [Deferreds -> Seq(Entries)]
    /\ result \in [Deferreds -> Values] /\ waitsFor \in [Deferreds -> 0..N]
    /\ stack \in Seq(Frames)
    /\ left \subseteq Deferreds
    /\ added \in 0..MaxCallbacks

(* The Deferreds whose callbacks hold a Continuation of d, by position.    *)
Waking(d) ==
    UNION {{<<e, i>> : i \in {j \in DOMAIN callbacks[e] :
                                callbacks[e][j] = Continuation(d)}} : e \in Deferreds}

(* A Deferred is paused by the application's pauses and by the one         *)
(* Deferred it waits for, and by nothing else: _paused counts exactly      *)
(* these.  A Deferred that waits will be woken, by exactly one             *)
(* Continuation, which is where its result says; any other has none.       *)
WaitsMatch ==
    \A d \in Deferreds :
        LET waits == result[d] = "deferred" IN
        /\ paused[d] = userPauses[d] + (IF waits THEN 1 ELSE 0)
        /\ waits => \E p \in Waking(d) : p[1] = waitsFor[d] /\ Waking(d) = {p}
        /\ ~waits => Waking(d) = {}

(* Callbacks of one Deferred never nest: whatever a callback does to its   *)
(* own Deferred or to one it waits for, the next callback starts only      *)
(* after it has returned (_runningCallbacks and RunningGuard), and then it *)
(* is given a result, never a Deferred and never nothing.                  *)
CallbacksInTurn ==
    /\ \A d \in Deferreds :
        LET calls == {i \in DOMAIN stack :
                        stack[i].type = "call" /\ Head(stack[i].chain) = d}
        IN  /\ running[d] <=> calls # {}
            /\ \A i, j \in calls : i = j
    /\ \A i \in DOMAIN stack :
        stack[i].type = "call" => stack[i].arg \in {"null", "val", "err"}

(* When everything has returned, a Deferred that has its result and is not *)
(* paused has run all its callbacks, except one that handed its result to  *)
(* a paused Deferred and was left behind for it.                           *)
NothingStranded ==
    stack = <<>> =>
        \A d \in Deferreds :
            called[d] /\ paused[d] = 0 /\ d \notin left => callbacks[d] = <<>>
=============================================================================
