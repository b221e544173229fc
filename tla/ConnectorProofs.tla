-------------------------- MODULE ConnectorProofs --------------------------
(***************************************************************************)
(* The invariants of Connector, proved for every value of the constants.   *)
(* The inductive invariant is Connector's Inv: the invariants the runs     *)
(* check, joined by Phases, which says what can be outstanding in each     *)
(* state, and TimersBounded.  Each action has a lemma of its own.          *)
(***************************************************************************)
EXTENDS Connector, TLAPS

(* What startConnecting does when the connector accepts it: the timer it   *)
(* arms replaces one that is not armed, and it waits for one operation, or *)
(* an exception has left it.                                               *)
LEMMA StartConnectingEffect ==
    ASSUME Inv, state = "kDisconnected", StartConnecting
    PROVE  /\ state' = "kConnecting" /\ factoryStarted' = TRUE
           /\ numPorts' = numPorts + 1 /\ unreported' = unreported + 1
           /\ host' = host /\ error' = error /\ live' = live /\ ~live' /\ crashed' = crashed
           /\ resolveOp' \in {"none", "pending"} /\ connectOp' \in {"none", "pending"}
           /\ resolveOp' # "none" => connectOp' = "none" /\ ~connection'
           /\ connection' \in BOOLEAN /\ thrown' \in BOOLEAN
           /\ resolveOp' = "none" /\ connectOp' = "none" => thrown'
           /\ \/ timer' = timer /\ lateTimers' = lateTimers
              \/ timer' = "armed" /\ timer = "fired" /\ lateTimers' = lateTimers + 1
              \/ timer' = "armed" /\ timer = "none" /\ lateTimers' = lateTimers
<1> USE DEF Inv, TypeOK
<1>1. /\ resolveOp = "none" /\ connectOp = "none" /\ ~live /\ ~factoryStarted
      /\ ~connection /\ timer \in {"none", "fired"}
  BY DEF Phases, FlagsOK, ModesOK, Timers
<1>2. /\ state' = "kConnecting" /\ factoryStarted' = TRUE
      /\ numPorts' = numPorts + 1 /\ unreported' = unreported + 1
      /\ host' = host /\ error' = error /\ live' = live /\ crashed' = crashed
  BY <1>1 DEF StartConnecting
<1>3. CASE host = "ip"
  <2>1. PICK bound \in Binds : DoConnect(bound) /\ StartTimeout(bound) /\ resolveOp' = resolveOp
    BY <1>3 DEF StartConnecting
  <2>2. bound \in BOOLEAN BY <2>1 DEF Binds
  <2>3. \/ timer' = timer /\ lateTimers' = lateTimers
        \/ timer' = "armed" /\ timer = "fired" /\ lateTimers' = lateTimers + 1
        \/ timer' = "armed" /\ timer = "none" /\ lateTimers' = lateTimers
    BY <1>1, <2>1 DEF StartTimeout, timerVars
  <2>4. /\ connection' \in BOOLEAN /\ thrown' \in BOOLEAN
        /\ connectOp' \in {"none", "pending"} /\ resolveOp' = "none"
        /\ connectOp' = "none" => thrown'
    BY <1>1, <2>1, <2>2 DEF DoConnect, FlagsOK
  <2> QED BY <1>1, <1>2, <2>3, <2>4
<1>4. CASE host = "name"
  <2>1. /\ resolveOp' = "pending" /\ StartTimeout(TRUE)
        /\ connection' = connection /\ connectOp' = connectOp /\ thrown' = thrown
    BY <1>4 DEF StartConnecting
  <2>2. \/ timer' = timer /\ lateTimers' = lateTimers
        \/ timer' = "armed" /\ timer = "fired" /\ lateTimers' = lateTimers + 1
        \/ timer' = "armed" /\ timer = "none" /\ lateTimers' = lateTimers
    BY <1>1, <2>1 DEF StartTimeout, timerVars
  <2> QED BY <1>1, <1>2, <2>1, <2>2 DEF FlagsOK
<1> QED BY <1>3, <1>4 DEF ModesOK

LEMMA StartInv ==
    ASSUME Inv, ~crashed, Start
    PROVE  Inv'
<1> USE ConnectorAssumption DEF Inv, TypeOK
<1>1. /\ StartConnecting /\ state = "kDisconnected" /\ retryTimer = "none"
      /\ retryTimer' = retryTimer /\ retries' = retries /\ retryConnector' = retryConnector
      /\ starts < MaxStarts /\ starts' = starts + 1 /\ stoppedTrying' = FALSE
  BY DEF Start, retryVars
<1>2. FlagsOK' BY <1>1, StartConnectingEffect DEF FlagsOK
<1>3. ModesOK' BY <1>1, StartConnectingEffect DEF ModesOK, States, Ops, Timers
<1>4. numPorts' \in Nat /\ unreported' \in Nat /\ retries' \in Nat /\ starts' \in 0..MaxStarts
  BY <1>1, StartConnectingEffect DEF CountersOK
<1>5. TimersBounded' /\ lateTimers' <= starts'
  <2>1. lateTimers \in Int /\ starts \in Int /\ MaxStarts \in Int
    BY DEF CountersOK
  <2>2. lateTimers + (IF timer = "none" THEN 0 ELSE 1) <= starts
    BY DEF TimersBounded
  <2>3. CASE timer' = timer /\ lateTimers' = lateTimers
    BY <1>1, <2>1, <2>2, <2>3 DEF TimersBounded
  <2>4. CASE timer' = "armed" /\ timer = "fired" /\ lateTimers' = lateTimers + 1
    BY <1>1, <2>1, <2>2, <2>4 DEF TimersBounded
  <2>5. CASE timer' = "armed" /\ timer = "none" /\ lateTimers' = lateTimers
    BY <1>1, <2>1, <2>2, <2>5 DEF TimersBounded
  <2> QED BY <1>1, <2>3, <2>4, <2>5, StartConnectingEffect
<1>6. lateTimers' \in 0..MaxStarts
  <2>1. lateTimers' \in Int /\ lateTimers' >= 0
    BY <1>1, StartConnectingEffect DEF CountersOK
  <2>2. starts' \in Int /\ MaxStarts \in Int /\ starts' <= MaxStarts
    BY <1>4
  <2> QED BY <1>5, <2>1, <2>2
<1>7. CountersOK' BY <1>4, <1>6 DEF CountersOK
<1>8. OneAttempt' BY <1>1, StartConnectingEffect DEF OneAttempt
<1>9. StateIsKept' BY <1>1, StartConnectingEffect DEF StateIsKept
<1>10. AbortHasReason' BY <1>1, StartConnectingEffect DEF AbortHasReason
<1>11. FactoryBalanced'
  <2>1. ~factoryStarted BY <1>1 DEF Phases
  <2> QED BY <1>1, <2>1, StartConnectingEffect DEF FactoryBalanced, CountersOK
<1>12. KeepsTrying' BY <1>1, StartConnectingEffect DEF KeepsTrying
<1>13. Phases'
  <2>1. starts' > 0 BY <1>1 DEF CountersOK
  <2>2. retryTimer' = "none" BY <1>1
  <2> QED BY <1>1, <2>1, <2>2, StartConnectingEffect DEF Phases
<1> QED BY <1>2, <1>3, <1>5, <1>7, <1>8, <1>9, <1>10, <1>11, <1>12, <1>13

LEMMA StopConnectingInv ==
    ASSUME Inv, ~crashed, StopConnecting
    PROVE  Inv'
<1> USE ConnectorAssumption DEF Inv, TypeOK
<1>1. FlagsOK' BY DEF FlagsOK, StopConnecting, AbortConnecting, CancelledConnect, CancelledResolve, timerVars, portVars, retryVars, faultVars
<1>2. ModesOK' BY DEF ModesOK, States, Ops, Timers, StopConnecting, AbortConnecting, CancelledConnect, CancelledResolve, timerVars, portVars, retryVars, faultVars
<1>3. CountersOK' /\ TimersBounded'
  BY DEF FlagsOK, ModesOK, CountersOK, TimersBounded, States, Ops, Timers, Phases, FactoryBalanced, StopConnecting, AbortConnecting, CancelledConnect, CancelledResolve, timerVars, portVars, retryVars, faultVars
<1>4. OneAttempt' BY DEF FlagsOK, ModesOK, OneAttempt, Phases, States, Ops, Timers, StopConnecting, AbortConnecting, CancelledConnect, CancelledResolve, timerVars, portVars, retryVars, faultVars
<1>5. StateIsKept' BY DEF FlagsOK, ModesOK, OneAttempt, StateIsKept, Phases, StopConnecting, AbortConnecting, CancelledConnect, CancelledResolve, timerVars, portVars, retryVars, faultVars
<1>6. AbortHasReason' BY DEF FlagsOK, ModesOK, AbortHasReason, OneAttempt, Phases, StopConnecting, AbortConnecting, CancelledConnect, CancelledResolve, timerVars, portVars, retryVars, faultVars
<1>7. FactoryBalanced' BY DEF FlagsOK, ModesOK, CountersOK, FactoryBalanced, OneAttempt, StateIsKept, Phases, StopConnecting, AbortConnecting, CancelledConnect, CancelledResolve, timerVars, portVars, retryVars, faultVars
<1>8. KeepsTrying' BY DEF FlagsOK, ModesOK, CountersOK, KeepsTrying, Phases, StopConnecting, AbortConnecting, CancelledConnect, CancelledResolve, timerVars, portVars, retryVars, faultVars
<1>9. Phases' BY DEF FlagsOK, ModesOK, CountersOK, Phases, OneAttempt, StateIsKept, States, Ops, Timers, StopConnecting, AbortConnecting, CancelledConnect, CancelledResolve, timerVars, portVars, retryVars, faultVars
<1> QED BY <1>1, <1>2, <1>3, <1>4, <1>5, <1>6, <1>7, <1>8, <1>9

LEMMA StopTryingInv ==
    ASSUME Inv, ~crashed, StopTrying
    PROVE  Inv'
<1> USE ConnectorAssumption DEF Inv, TypeOK
<1>1. FlagsOK' BY DEF FlagsOK, StopTrying, AbortConnecting, CancelledConnect, CancelledResolve, CancelTimeout, attemptVars, timerVars, portVars, faultVars
<1>2. ModesOK' BY DEF ModesOK, States, Ops, Timers, StopTrying, AbortConnecting, CancelledConnect, CancelledResolve, CancelTimeout, attemptVars, timerVars, portVars, faultVars
<1>3. CountersOK' /\ TimersBounded'
  BY DEF FlagsOK, ModesOK, CountersOK, TimersBounded, States, Ops, Timers, Phases, FactoryBalanced, StopTrying, AbortConnecting, CancelledConnect, CancelledResolve, CancelTimeout, attemptVars, timerVars, portVars, faultVars
<1>4. OneAttempt' BY DEF FlagsOK, ModesOK, OneAttempt, Phases, States, Ops, Timers, StopTrying, AbortConnecting, CancelledConnect, CancelledResolve, CancelTimeout, attemptVars, timerVars, portVars, faultVars
<1>5. StateIsKept' BY DEF FlagsOK, ModesOK, OneAttempt, StateIsKept, Phases, StopTrying, AbortConnecting, CancelledConnect, CancelledResolve, CancelTimeout, attemptVars, timerVars, portVars, faultVars
<1>6. AbortHasReason' BY DEF FlagsOK, ModesOK, AbortHasReason, OneAttempt, Phases, StopTrying, AbortConnecting, CancelledConnect, CancelledResolve, CancelTimeout, attemptVars, timerVars, portVars, faultVars
<1>7. FactoryBalanced' BY DEF FlagsOK, ModesOK, CountersOK, FactoryBalanced, OneAttempt, StateIsKept, Phases, StopTrying, AbortConnecting, CancelledConnect, CancelledResolve, CancelTimeout, attemptVars, timerVars, portVars, faultVars
<1>8. KeepsTrying' BY DEF FlagsOK, ModesOK, CountersOK, KeepsTrying, Phases, StopTrying, AbortConnecting, CancelledConnect, CancelledResolve, CancelTimeout, attemptVars, timerVars, portVars, faultVars
<1>9. Phases' BY DEF FlagsOK, ModesOK, CountersOK, Phases, OneAttempt, StateIsKept, States, Ops, Timers, StopTrying, AbortConnecting, CancelledConnect, CancelledResolve, CancelTimeout, attemptVars, timerVars, portVars, faultVars
<1> QED BY <1>1, <1>2, <1>3, <1>4, <1>5, <1>6, <1>7, <1>8, <1>9

LEMMA ResolveCompletesInv ==
    ASSUME Inv, ~crashed, ResolveCompletes
    PROVE  Inv'
<1> USE ConnectorAssumption DEF Inv, TypeOK
<1>1. FlagsOK' BY DEF FlagsOK, ResolveCompletes, timerVars, portVars, retryVars, faultVars
<1>2. ModesOK' BY DEF ModesOK, States, Ops, Timers, ResolveCompletes, timerVars, portVars, retryVars, faultVars
<1>3. CountersOK' /\ TimersBounded'
  BY DEF FlagsOK, ModesOK, CountersOK, TimersBounded, States, Ops, Timers, Phases, FactoryBalanced, ResolveCompletes, timerVars, portVars, retryVars, faultVars
<1>4. OneAttempt' BY DEF FlagsOK, ModesOK, OneAttempt, Phases, States, Ops, Timers, ResolveCompletes, timerVars, portVars, retryVars, faultVars
<1>5. StateIsKept' BY DEF FlagsOK, ModesOK, OneAttempt, StateIsKept, Phases, ResolveCompletes, timerVars, portVars, retryVars, faultVars
<1>6. AbortHasReason' BY DEF FlagsOK, ModesOK, AbortHasReason, OneAttempt, Phases, ResolveCompletes, timerVars, portVars, retryVars, faultVars
<1>7. FactoryBalanced' BY DEF FlagsOK, ModesOK, CountersOK, FactoryBalanced, OneAttempt, StateIsKept, Phases, ResolveCompletes, timerVars, portVars, retryVars, faultVars
<1>8. KeepsTrying' BY DEF FlagsOK, ModesOK, CountersOK, KeepsTrying, Phases, ResolveCompletes, timerVars, portVars, retryVars, faultVars
<1>9. Phases' BY DEF FlagsOK, ModesOK, CountersOK, Phases, OneAttempt, StateIsKept, States, Ops, Timers, ResolveCompletes, timerVars, portVars, retryVars, faultVars
<1> QED BY <1>1, <1>2, <1>3, <1>4, <1>5, <1>6, <1>7, <1>8, <1>9

LEMMA ConnectCompletesInv ==
    ASSUME Inv, ~crashed, ConnectCompletes
    PROVE  Inv'
<1> USE ConnectorAssumption DEF Inv, TypeOK
<1>1. FlagsOK' BY DEF FlagsOK, ConnectCompletes, timerVars, portVars, retryVars, faultVars
<1>2. ModesOK' BY DEF ModesOK, States, Ops, Timers, ConnectCompletes, timerVars, portVars, retryVars, faultVars
<1>3. CountersOK' /\ TimersBounded'
  BY DEF FlagsOK, ModesOK, CountersOK, TimersBounded, States, Ops, Timers, Phases, FactoryBalanced, ConnectCompletes, timerVars, portVars, retryVars, faultVars
<1>4. OneAttempt' BY DEF FlagsOK, ModesOK, OneAttempt, Phases, States, Ops, Timers, ConnectCompletes, timerVars, portVars, retryVars, faultVars
<1>5. StateIsKept' BY DEF FlagsOK, ModesOK, OneAttempt, StateIsKept, Phases, ConnectCompletes, timerVars, portVars, retryVars, faultVars
<1>6. AbortHasReason' BY DEF FlagsOK, ModesOK, AbortHasReason, OneAttempt, Phases, ConnectCompletes, timerVars, portVars, retryVars, faultVars
<1>7. FactoryBalanced' BY DEF FlagsOK, ModesOK, CountersOK, FactoryBalanced, OneAttempt, StateIsKept, Phases, ConnectCompletes, timerVars, portVars, retryVars, faultVars
<1>8. KeepsTrying' BY DEF FlagsOK, ModesOK, CountersOK, KeepsTrying, Phases, ConnectCompletes, timerVars, portVars, retryVars, faultVars
<1>9. Phases' BY DEF FlagsOK, ModesOK, CountersOK, Phases, OneAttempt, StateIsKept, States, Ops, Timers, ConnectCompletes, timerVars, portVars, retryVars, faultVars
<1> QED BY <1>1, <1>2, <1>3, <1>4, <1>5, <1>6, <1>7, <1>8, <1>9

LEMMA TimeoutExpiresInv ==
    ASSUME Inv, ~crashed, TimeoutExpires
    PROVE  Inv'
<1> USE ConnectorAssumption DEF Inv, TypeOK
<1>1. FlagsOK' BY DEF FlagsOK, TimeoutExpires, attemptVars, portVars, retryVars, faultVars
<1>2. ModesOK' BY DEF ModesOK, States, Ops, Timers, TimeoutExpires, attemptVars, portVars, retryVars, faultVars
<1>3. CountersOK' /\ TimersBounded'
  BY DEF FlagsOK, ModesOK, CountersOK, TimersBounded, States, Ops, Timers, Phases, FactoryBalanced, TimeoutExpires, attemptVars, portVars, retryVars, faultVars
<1>4. OneAttempt' BY DEF FlagsOK, ModesOK, OneAttempt, Phases, States, Ops, Timers, TimeoutExpires, attemptVars, portVars, retryVars, faultVars
<1>5. StateIsKept' BY DEF FlagsOK, ModesOK, OneAttempt, StateIsKept, Phases, TimeoutExpires, attemptVars, portVars, retryVars, faultVars
<1>6. AbortHasReason' BY DEF FlagsOK, ModesOK, AbortHasReason, OneAttempt, Phases, TimeoutExpires, attemptVars, portVars, retryVars, faultVars
<1>7. FactoryBalanced' BY DEF FlagsOK, ModesOK, CountersOK, FactoryBalanced, OneAttempt, StateIsKept, Phases, TimeoutExpires, attemptVars, portVars, retryVars, faultVars
<1>8. KeepsTrying' BY DEF FlagsOK, ModesOK, CountersOK, KeepsTrying, Phases, TimeoutExpires, attemptVars, portVars, retryVars, faultVars
<1>9. Phases' BY DEF FlagsOK, ModesOK, CountersOK, Phases, OneAttempt, StateIsKept, States, Ops, Timers, TimeoutExpires, attemptVars, portVars, retryVars, faultVars
<1> QED BY <1>1, <1>2, <1>3, <1>4, <1>5, <1>6, <1>7, <1>8, <1>9

LEMMA RetryExpiresInv ==
    ASSUME Inv, ~crashed, RetryExpires
    PROVE  Inv'
<1> USE ConnectorAssumption DEF Inv, TypeOK
<1>1. FlagsOK' BY DEF FlagsOK, RetryExpires, attemptVars, timerVars, portVars, faultVars
<1>2. ModesOK' BY DEF ModesOK, States, Ops, Timers, RetryExpires, attemptVars, timerVars, portVars, faultVars
<1>3. CountersOK' /\ TimersBounded'
  BY DEF FlagsOK, ModesOK, CountersOK, TimersBounded, States, Ops, Timers, Phases, FactoryBalanced, RetryExpires, attemptVars, timerVars, portVars, faultVars
<1>4. OneAttempt' BY DEF FlagsOK, ModesOK, OneAttempt, Phases, States, Ops, Timers, RetryExpires, attemptVars, timerVars, portVars, faultVars
<1>5. StateIsKept' BY DEF FlagsOK, ModesOK, OneAttempt, StateIsKept, Phases, RetryExpires, attemptVars, timerVars, portVars, faultVars
<1>6. AbortHasReason' BY DEF FlagsOK, ModesOK, AbortHasReason, OneAttempt, Phases, RetryExpires, attemptVars, timerVars, portVars, faultVars
<1>7. FactoryBalanced' BY DEF FlagsOK, ModesOK, CountersOK, FactoryBalanced, OneAttempt, StateIsKept, Phases, RetryExpires, attemptVars, timerVars, portVars, faultVars
<1>8. KeepsTrying' BY DEF FlagsOK, ModesOK, CountersOK, KeepsTrying, Phases, RetryExpires, attemptVars, timerVars, portVars, faultVars
<1>9. Phases' BY DEF FlagsOK, ModesOK, CountersOK, Phases, OneAttempt, StateIsKept, States, Ops, Timers, RetryExpires, attemptVars, timerVars, portVars, faultVars
<1> QED BY <1>1, <1>2, <1>3, <1>4, <1>5, <1>6, <1>7, <1>8, <1>9

LEMMA CbResolveFailedInv ==
    ASSUME Inv, ~crashed, CbResolveFailed
    PROVE  Inv'
<1> USE ConnectorAssumption DEF Inv, TypeOK
<1>1. FlagsOK' BY DEF FlagsOK, CbResolveFailed, ConnectionFailed, Retry, DoStop, CancelTimeout, faultVars
<1>2. ModesOK' BY DEF ModesOK, States, Ops, Timers, CbResolveFailed, ConnectionFailed, Retry, DoStop, CancelTimeout, faultVars
<1>3. CountersOK' /\ TimersBounded'
  BY DEF FlagsOK, ModesOK, CountersOK, TimersBounded, States, Ops, Timers, Phases, FactoryBalanced, CbResolveFailed, ConnectionFailed, Retry, DoStop, CancelTimeout, faultVars
<1>4. OneAttempt' BY DEF FlagsOK, ModesOK, OneAttempt, Phases, States, Ops, Timers, CbResolveFailed, ConnectionFailed, Retry, DoStop, CancelTimeout, faultVars
<1>5. StateIsKept' BY DEF FlagsOK, ModesOK, OneAttempt, StateIsKept, Phases, CbResolveFailed, ConnectionFailed, Retry, DoStop, CancelTimeout, faultVars
<1>6. AbortHasReason' BY DEF FlagsOK, ModesOK, AbortHasReason, OneAttempt, Phases, CbResolveFailed, ConnectionFailed, Retry, DoStop, CancelTimeout, faultVars
<1>7. FactoryBalanced' BY DEF FlagsOK, ModesOK, CountersOK, FactoryBalanced, OneAttempt, StateIsKept, Phases, CbResolveFailed, ConnectionFailed, Retry, DoStop, CancelTimeout, faultVars
<1>8. KeepsTrying' BY DEF FlagsOK, ModesOK, CountersOK, KeepsTrying, Phases, CbResolveFailed, ConnectionFailed, Retry, DoStop, CancelTimeout, faultVars
<1>9. Phases' BY DEF FlagsOK, ModesOK, CountersOK, Phases, OneAttempt, StateIsKept, States, Ops, Timers, CbResolveFailed, ConnectionFailed, Retry, DoStop, CancelTimeout, faultVars
<1> QED BY <1>1, <1>2, <1>3, <1>4, <1>5, <1>6, <1>7, <1>8, <1>9

LEMMA CbResolveOkInv ==
    ASSUME Inv, ~crashed, CbResolveOk
    PROVE  Inv'
<1> USE ConnectorAssumption DEF Inv, TypeOK
<1>1. FlagsOK' BY DEF FlagsOK, CbResolveOk, DoConnect, Binds, timerVars, portVars, retryVars
<1>2. ModesOK' BY DEF ModesOK, States, Ops, Timers, CbResolveOk, DoConnect, Binds, timerVars, portVars, retryVars
<1>3. CountersOK' /\ TimersBounded'
  BY DEF FlagsOK, ModesOK, CountersOK, TimersBounded, States, Ops, Timers, Phases, FactoryBalanced, CbResolveOk, DoConnect, Binds, timerVars, portVars, retryVars
<1>4. OneAttempt' BY DEF FlagsOK, ModesOK, OneAttempt, Phases, States, Ops, Timers, CbResolveOk, DoConnect, Binds, timerVars, portVars, retryVars
<1>5. StateIsKept' BY DEF FlagsOK, ModesOK, OneAttempt, StateIsKept, Phases, CbResolveOk, DoConnect, Binds, timerVars, portVars, retryVars
<1>6. AbortHasReason' BY DEF FlagsOK, ModesOK, AbortHasReason, OneAttempt, Phases, CbResolveOk, DoConnect, Binds, timerVars, portVars, retryVars
<1>7. FactoryBalanced' BY DEF FlagsOK, ModesOK, CountersOK, FactoryBalanced, OneAttempt, StateIsKept, Phases, CbResolveOk, DoConnect, Binds, timerVars, portVars, retryVars
<1>8. KeepsTrying' BY DEF FlagsOK, ModesOK, CountersOK, KeepsTrying, Phases, CbResolveOk, DoConnect, Binds, timerVars, portVars, retryVars
<1>9. Phases'
  <2>1. resolveOp' = "none" /\ ~live /\ factoryStarted /\ retryTimer = "none"
    BY DEF CbResolveOk, Phases, OneAttempt, FlagsOK
  <2>2. connection' => state' = "kConnecting"
    BY DEF CbResolveOk, Phases
  <2> QED BY <2>1, <2>2 DEF Phases, CbResolveOk, timerVars, portVars, retryVars
<1> QED BY <1>1, <1>2, <1>3, <1>4, <1>5, <1>6, <1>7, <1>8, <1>9

LEMMA CbConnectFailedInv ==
    ASSUME Inv, ~crashed, CbConnectFailed
    PROVE  Inv'
<1> USE ConnectorAssumption DEF Inv, TypeOK
<1>1. FlagsOK' BY DEF FlagsOK, CbConnectFailed, ConnectionFailed, Retry, DoStop, CancelTimeout, faultVars
<1>2. ModesOK' BY DEF ModesOK, States, Ops, Timers, CbConnectFailed, ConnectionFailed, Retry, DoStop, CancelTimeout, faultVars
<1>3. CountersOK' /\ TimersBounded'
  BY DEF FlagsOK, ModesOK, CountersOK, TimersBounded, States, Ops, Timers, Phases, FactoryBalanced, CbConnectFailed, ConnectionFailed, Retry, DoStop, CancelTimeout, faultVars
<1>4. OneAttempt' BY DEF FlagsOK, ModesOK, OneAttempt, Phases, States, Ops, Timers, CbConnectFailed, ConnectionFailed, Retry, DoStop, CancelTimeout, faultVars
<1>5. StateIsKept' BY DEF FlagsOK, ModesOK, OneAttempt, StateIsKept, Phases, CbConnectFailed, ConnectionFailed, Retry, DoStop, CancelTimeout, faultVars
<1>6. AbortHasReason' BY DEF FlagsOK, ModesOK, AbortHasReason, OneAttempt, Phases, CbConnectFailed, ConnectionFailed, Retry, DoStop, CancelTimeout, faultVars
<1>7. FactoryBalanced' BY DEF FlagsOK, ModesOK, CountersOK, FactoryBalanced, OneAttempt, StateIsKept, Phases, CbConnectFailed, ConnectionFailed, Retry, DoStop, CancelTimeout, faultVars
<1>8. KeepsTrying' BY DEF FlagsOK, ModesOK, CountersOK, KeepsTrying, Phases, CbConnectFailed, ConnectionFailed, Retry, DoStop, CancelTimeout, faultVars
<1>9. Phases' BY DEF FlagsOK, ModesOK, CountersOK, Phases, OneAttempt, StateIsKept, States, Ops, Timers, CbConnectFailed, ConnectionFailed, Retry, DoStop, CancelTimeout, faultVars
<1> QED BY <1>1, <1>2, <1>3, <1>4, <1>5, <1>6, <1>7, <1>8, <1>9

LEMMA CbConnectThrowsInv ==
    ASSUME Inv, ~crashed, CbConnectThrows
    PROVE  Inv'
<1> USE ConnectorAssumption DEF Inv, TypeOK
<1>1. FlagsOK' BY DEF FlagsOK, CbConnectThrows, timerVars, portVars, retryVars
<1>2. ModesOK' BY DEF ModesOK, States, Ops, Timers, CbConnectThrows, timerVars, portVars, retryVars
<1>3. CountersOK' /\ TimersBounded'
  BY DEF FlagsOK, ModesOK, CountersOK, TimersBounded, States, Ops, Timers, Phases, FactoryBalanced, CbConnectThrows, timerVars, portVars, retryVars
<1>4. OneAttempt' BY DEF FlagsOK, ModesOK, OneAttempt, Phases, States, Ops, Timers, CbConnectThrows, timerVars, portVars, retryVars
<1>5. StateIsKept' BY DEF FlagsOK, ModesOK, OneAttempt, StateIsKept, Phases, CbConnectThrows, timerVars, portVars, retryVars
<1>6. AbortHasReason' BY DEF FlagsOK, ModesOK, AbortHasReason, OneAttempt, Phases, CbConnectThrows, timerVars, portVars, retryVars
<1>7. FactoryBalanced' BY DEF FlagsOK, ModesOK, CountersOK, FactoryBalanced, OneAttempt, StateIsKept, Phases, CbConnectThrows, timerVars, portVars, retryVars
<1>8. KeepsTrying' BY DEF FlagsOK, ModesOK, CountersOK, KeepsTrying, Phases, CbConnectThrows, timerVars, portVars, retryVars
<1>9. Phases' BY DEF FlagsOK, ModesOK, CountersOK, Phases, OneAttempt, StateIsKept, States, Ops, Timers, CbConnectThrows, timerVars, portVars, retryVars
<1> QED BY <1>1, <1>2, <1>3, <1>4, <1>5, <1>6, <1>7, <1>8, <1>9

LEMMA CbConnectAbortedInv ==
    ASSUME Inv, ~crashed, CbConnectAborted
    PROVE  Inv'
<1> USE ConnectorAssumption DEF Inv, TypeOK
<1>1. FlagsOK' BY DEF FlagsOK, CbConnectAborted, timerVars, portVars, retryVars
<1>2. ModesOK' BY DEF ModesOK, States, Ops, Timers, CbConnectAborted, timerVars, portVars, retryVars
<1>3. CountersOK' /\ TimersBounded'
  BY DEF FlagsOK, ModesOK, CountersOK, TimersBounded, States, Ops, Timers, Phases, FactoryBalanced, CbConnectAborted, timerVars, portVars, retryVars
<1>4. OneAttempt' BY DEF FlagsOK, ModesOK, OneAttempt, Phases, States, Ops, Timers, CbConnectAborted, timerVars, portVars, retryVars
<1>5. StateIsKept' BY DEF FlagsOK, ModesOK, OneAttempt, StateIsKept, Phases, CbConnectAborted, timerVars, portVars, retryVars
<1>6. AbortHasReason' BY DEF FlagsOK, ModesOK, AbortHasReason, OneAttempt, Phases, CbConnectAborted, timerVars, portVars, retryVars
<1>7. FactoryBalanced' BY DEF FlagsOK, ModesOK, CountersOK, FactoryBalanced, OneAttempt, StateIsKept, Phases, CbConnectAborted, timerVars, portVars, retryVars
<1>8. KeepsTrying' BY DEF FlagsOK, ModesOK, CountersOK, KeepsTrying, Phases, CbConnectAborted, timerVars, portVars, retryVars
<1>9. Phases' BY DEF FlagsOK, ModesOK, CountersOK, Phases, OneAttempt, StateIsKept, States, Ops, Timers, CbConnectAborted, timerVars, portVars, retryVars
<1> QED BY <1>1, <1>2, <1>3, <1>4, <1>5, <1>6, <1>7, <1>8, <1>9

LEMMA CbConnectOkInv ==
    ASSUME Inv, ~crashed, CbConnectOk
    PROVE  Inv'
<1> USE ConnectorAssumption DEF Inv, TypeOK
<1>1. FlagsOK' BY DEF FlagsOK, CbConnectOk, CancelTimeout, portVars, faultVars
<1>2. ModesOK' BY DEF ModesOK, States, Ops, Timers, CbConnectOk, CancelTimeout, portVars, faultVars
<1>3. CountersOK' /\ TimersBounded'
  BY DEF FlagsOK, ModesOK, CountersOK, TimersBounded, States, Ops, Timers, Phases, FactoryBalanced, CbConnectOk, CancelTimeout, portVars, faultVars
<1>4. OneAttempt' BY DEF FlagsOK, ModesOK, OneAttempt, Phases, States, Ops, Timers, CbConnectOk, CancelTimeout, portVars, faultVars
<1>5. StateIsKept' BY DEF FlagsOK, ModesOK, OneAttempt, StateIsKept, Phases, CbConnectOk, CancelTimeout, portVars, faultVars
<1>6. AbortHasReason' BY DEF FlagsOK, ModesOK, AbortHasReason, OneAttempt, Phases, CbConnectOk, CancelTimeout, portVars, faultVars
<1>7. FactoryBalanced' BY DEF FlagsOK, ModesOK, CountersOK, FactoryBalanced, OneAttempt, StateIsKept, Phases, CbConnectOk, CancelTimeout, portVars, faultVars
<1>8. KeepsTrying' BY DEF FlagsOK, ModesOK, CountersOK, KeepsTrying, Phases, CbConnectOk, CancelTimeout, portVars, faultVars
<1>9. Phases' BY DEF FlagsOK, ModesOK, CountersOK, Phases, OneAttempt, StateIsKept, States, Ops, Timers, CbConnectOk, CancelTimeout, portVars, faultVars
<1> QED BY <1>1, <1>2, <1>3, <1>4, <1>5, <1>6, <1>7, <1>8, <1>9

LEMMA CbConnectRefusedInv ==
    ASSUME Inv, ~crashed, CbConnectRefused
    PROVE  Inv'
<1> USE ConnectorAssumption DEF Inv, TypeOK
<1>1. FlagsOK' BY DEF FlagsOK, CbConnectRefused, ConnectionLost, Retry, DoStop, CancelTimeout, faultVars
<1>2. ModesOK' BY DEF ModesOK, States, Ops, Timers, CbConnectRefused, ConnectionLost, Retry, DoStop, CancelTimeout, faultVars
<1>3. CountersOK' /\ TimersBounded'
  BY DEF FlagsOK, ModesOK, CountersOK, TimersBounded, States, Ops, Timers, Phases, FactoryBalanced, CbConnectRefused, ConnectionLost, Retry, DoStop, CancelTimeout, faultVars
<1>4. OneAttempt' BY DEF FlagsOK, ModesOK, OneAttempt, Phases, States, Ops, Timers, CbConnectRefused, ConnectionLost, Retry, DoStop, CancelTimeout, faultVars
<1>5. StateIsKept' BY DEF FlagsOK, ModesOK, OneAttempt, StateIsKept, Phases, CbConnectRefused, ConnectionLost, Retry, DoStop, CancelTimeout, faultVars
<1>6. AbortHasReason' BY DEF FlagsOK, ModesOK, AbortHasReason, OneAttempt, Phases, CbConnectRefused, ConnectionLost, Retry, DoStop, CancelTimeout, faultVars
<1>7. FactoryBalanced' BY DEF FlagsOK, ModesOK, CountersOK, FactoryBalanced, OneAttempt, StateIsKept, Phases, CbConnectRefused, ConnectionLost, Retry, DoStop, CancelTimeout, faultVars
<1>8. KeepsTrying' BY DEF FlagsOK, ModesOK, CountersOK, KeepsTrying, Phases, CbConnectRefused, ConnectionLost, Retry, DoStop, CancelTimeout, faultVars
<1>9. Phases' BY DEF FlagsOK, ModesOK, CountersOK, Phases, OneAttempt, StateIsKept, States, Ops, Timers, CbConnectRefused, ConnectionLost, Retry, DoStop, CancelTimeout, faultVars
<1> QED BY <1>1, <1>2, <1>3, <1>4, <1>5, <1>6, <1>7, <1>8, <1>9

LEMMA CbLostInv ==
    ASSUME Inv, ~crashed, CbLost
    PROVE  Inv'
<1> USE ConnectorAssumption DEF Inv, TypeOK
<1>1. FlagsOK' BY DEF FlagsOK, CbLost, ConnectionLost, Retry, DoStop, timerVars, faultVars
<1>2. ModesOK' BY DEF ModesOK, States, Ops, Timers, CbLost, ConnectionLost, Retry, DoStop, timerVars, faultVars
<1>3. CountersOK' /\ TimersBounded'
  BY DEF FlagsOK, ModesOK, CountersOK, TimersBounded, States, Ops, Timers, Phases, FactoryBalanced, CbLost, ConnectionLost, Retry, DoStop, timerVars, faultVars
<1>4. OneAttempt' BY DEF FlagsOK, ModesOK, OneAttempt, Phases, States, Ops, Timers, CbLost, ConnectionLost, Retry, DoStop, timerVars, faultVars
<1>5. StateIsKept' BY DEF FlagsOK, ModesOK, OneAttempt, StateIsKept, Phases, CbLost, ConnectionLost, Retry, DoStop, timerVars, faultVars
<1>6. AbortHasReason' BY DEF FlagsOK, ModesOK, AbortHasReason, OneAttempt, Phases, CbLost, ConnectionLost, Retry, DoStop, timerVars, faultVars
<1>7. FactoryBalanced' BY DEF FlagsOK, ModesOK, CountersOK, FactoryBalanced, OneAttempt, StateIsKept, Phases, CbLost, ConnectionLost, Retry, DoStop, timerVars, faultVars
<1>8. KeepsTrying' BY DEF FlagsOK, ModesOK, CountersOK, KeepsTrying, Phases, CbLost, ConnectionLost, Retry, DoStop, timerVars, faultVars
<1>9. Phases'
  <2>1. /\ resolveOp' = "none" /\ connectOp' = "none" /\ ~live' /\ ~connection'
        /\ ~factoryStarted' /\ state' = "kDisconnected"
    BY DEF CbLost, ConnectionLost, DoStop, Phases, OneAttempt, FlagsOK
  <2>2. starts' = starts /\ starts > 0 BY DEF CbLost, Phases, FlagsOK
  <2>3. timer' # "armed" BY DEF CbLost, timerVars, OneAttempt, StateIsKept, Phases
  <2> QED BY <2>1, <2>2, <2>3 DEF Phases
<1> QED BY <1>1, <1>2, <1>3, <1>4, <1>5, <1>6, <1>7, <1>8, <1>9

LEMMA CbTimeoutInv ==
    ASSUME Inv, ~crashed, CbTimeout
    PROVE  Inv'
<1> USE ConnectorAssumption DEF Inv, TypeOK
<1>1. FlagsOK' BY DEF FlagsOK, CbTimeout, AbortConnecting, CancelledConnect, CancelledResolve, portVars, retryVars, faultVars
<1>2. ModesOK' BY DEF ModesOK, States, Ops, Timers, CbTimeout, AbortConnecting, CancelledConnect, CancelledResolve, portVars, retryVars, faultVars
<1>3. CountersOK' /\ TimersBounded'
  BY DEF FlagsOK, ModesOK, CountersOK, TimersBounded, States, Ops, Timers, Phases, FactoryBalanced, CbTimeout, AbortConnecting, CancelledConnect, CancelledResolve, portVars, retryVars, faultVars
<1>4. OneAttempt' BY DEF FlagsOK, ModesOK, OneAttempt, Phases, States, Ops, Timers, CbTimeout, AbortConnecting, CancelledConnect, CancelledResolve, portVars, retryVars, faultVars
<1>5. StateIsKept' BY DEF FlagsOK, ModesOK, OneAttempt, StateIsKept, Phases, CbTimeout, AbortConnecting, CancelledConnect, CancelledResolve, portVars, retryVars, faultVars
<1>6. AbortHasReason' BY DEF FlagsOK, ModesOK, AbortHasReason, OneAttempt, Phases, CbTimeout, AbortConnecting, CancelledConnect, CancelledResolve, portVars, retryVars, faultVars
<1>7. FactoryBalanced' BY DEF FlagsOK, ModesOK, CountersOK, FactoryBalanced, OneAttempt, StateIsKept, Phases, CbTimeout, AbortConnecting, CancelledConnect, CancelledResolve, portVars, retryVars, faultVars
<1>8. KeepsTrying' BY DEF FlagsOK, ModesOK, CountersOK, KeepsTrying, Phases, CbTimeout, AbortConnecting, CancelledConnect, CancelledResolve, portVars, retryVars, faultVars
<1>9. Phases' BY DEF FlagsOK, ModesOK, CountersOK, Phases, OneAttempt, StateIsKept, States, Ops, Timers, CbTimeout, AbortConnecting, CancelledConnect, CancelledResolve, portVars, retryVars, faultVars
<1> QED BY <1>1, <1>2, <1>3, <1>4, <1>5, <1>6, <1>7, <1>8, <1>9

LEMMA CbRetryAcceptedInv ==
    ASSUME Inv, ~crashed, CbRetry, state = "kDisconnected"
    PROVE  Inv'
<1> USE ConnectorAssumption DEF Inv, TypeOK
<1>1. /\ StartConnecting /\ state = "kDisconnected" /\ starts > 0
      /\ retryTimer' = "none" /\ retries' = retries /\ retryConnector' = retryConnector
      /\ timer = "none" /\ lateTimers = 0
      /\ starts' = starts /\ stoppedTrying' = stoppedTrying
  BY DEF CbRetry, Phases, ModesOK, Timers
<1>2. FlagsOK' BY <1>1, StartConnectingEffect DEF FlagsOK
<1>3. ModesOK' BY <1>1, StartConnectingEffect DEF ModesOK, States, Ops, Timers
<1>4. numPorts' \in Nat /\ unreported' \in Nat /\ retries' \in Nat /\ starts' \in 0..MaxStarts
  BY <1>1, StartConnectingEffect DEF CountersOK
<1>5. TimersBounded' /\ lateTimers' <= starts'
  <2>1. lateTimers \in Int /\ starts \in Int /\ MaxStarts \in Int
    BY DEF CountersOK
  <2>2. lateTimers + (IF timer = "none" THEN 0 ELSE 1) <= starts
    BY DEF TimersBounded
  <2>3. CASE timer' = timer /\ lateTimers' = lateTimers
    BY <1>1, <2>1, <2>2, <2>3 DEF TimersBounded
  <2>4. CASE timer' = "armed" /\ timer = "fired" /\ lateTimers' = lateTimers + 1
    BY <1>1, <2>1, <2>2, <2>4 DEF TimersBounded
  <2>5. CASE timer' = "armed" /\ timer = "none" /\ lateTimers' = lateTimers
    BY <1>1, <2>1, <2>2, <2>5 DEF TimersBounded
  <2> QED BY <1>1, <2>3, <2>4, <2>5, StartConnectingEffect
<1>6. lateTimers' \in 0..MaxStarts
  <2>1. lateTimers' \in Int /\ lateTimers' >= 0
    BY <1>1, StartConnectingEffect DEF CountersOK
  <2>2. starts' \in Int /\ MaxStarts \in Int /\ starts' <= MaxStarts
    BY <1>4
  <2> QED BY <1>5, <2>1, <2>2
<1>7. CountersOK' BY <1>4, <1>6 DEF CountersOK
<1>8. OneAttempt' BY <1>1, StartConnectingEffect DEF OneAttempt
<1>9. StateIsKept' BY <1>1, StartConnectingEffect DEF StateIsKept
<1>10. AbortHasReason' BY <1>1, StartConnectingEffect DEF AbortHasReason
<1>11. FactoryBalanced'
  <2>1. ~factoryStarted BY <1>1 DEF Phases
  <2> QED BY <1>1, <2>1, StartConnectingEffect DEF FactoryBalanced, CountersOK
<1>12. KeepsTrying' BY <1>1, StartConnectingEffect DEF KeepsTrying
<1>13. Phases'
  <2>1. starts' > 0 BY <1>1 DEF CountersOK
  <2>2. retryTimer' = "none" BY <1>1
  <2> QED BY <1>1, <2>1, <2>2, StartConnectingEffect DEF Phases
<1> QED BY <1>2, <1>3, <1>5, <1>7, <1>8, <1>9, <1>10, <1>11, <1>12, <1>13

LEMMA CbRetryRefusedInv ==
    ASSUME Inv, ~crashed, CbRetry, state # "kDisconnected"
    PROVE  Inv'
<1> USE DEF Inv, TypeOK
<1>1. /\ retryTimer' = "none" /\ retryTimer = "fired" /\ thrown' = TRUE
      /\ UNCHANGED <<host, state, error, connection, resolveOp, connectOp, timer, lateTimers, live>>
      /\ UNCHANGED <<factoryStarted, numPorts, unreported, crashed, retries, retryConnector, stoppedTrying, starts>>
  BY DEF CbRetry, attemptVars, timerVars, portVars
<1>2. FlagsOK' /\ ModesOK' /\ CountersOK' BY <1>1 DEF FlagsOK, ModesOK, CountersOK, Timers
<1>3. OneAttempt' /\ AbortHasReason' BY <1>1 DEF OneAttempt, AbortHasReason
<1>4. StateIsKept' BY <1>1 DEF StateIsKept
<1>5. FactoryBalanced' /\ TimersBounded' BY <1>1 DEF FactoryBalanced, TimersBounded
<1>6. KeepsTrying' BY <1>1 DEF KeepsTrying
<1>7. Phases' BY <1>1 DEF Phases
<1> QED BY <1>2, <1>3, <1>4, <1>5, <1>6, <1>7
THEOREM NextInv == ASSUME Inv, [Next]_vars PROVE Inv'
<1>1. CASE UNCHANGED vars
  BY <1>1 DEF Inv, TypeOK, FlagsOK, ModesOK, CountersOK, OneAttempt,
      StateIsKept, AbortHasReason, FactoryBalanced, KeepsTrying, Phases,
      TimersBounded, vars, attemptVars, timerVars, portVars, retryVars, faultVars
<1>2. CASE ~crashed /\ Application
  BY <1>2, StartInv, StopConnectingInv, StopTryingInv DEF Application
<1>3. CASE ~crashed /\ Network
  BY <1>3, ResolveCompletesInv, ConnectCompletesInv, TimeoutExpiresInv,
     RetryExpiresInv DEF Network
<1>4. CASE ~crashed /\ Handler
  BY <1>4, CbResolveFailedInv, CbResolveOkInv, CbConnectFailedInv,
     CbConnectThrowsInv, CbConnectAbortedInv, CbConnectOkInv,
     CbConnectRefusedInv, CbLostInv, CbTimeoutInv, CbRetryAcceptedInv,
     CbRetryRefusedInv DEF Handler
<1> QED BY <1>1, <1>2, <1>3, <1>4 DEF Next

(* The inductive invariant of the connector.                               *)
THEOREM Invariance == Spec => []Inv
<1>1. Init => Inv
  <2> SUFFICES ASSUME Init PROVE Inv
    OBVIOUS
  <2>1. FlagsOK BY DEF Init, FlagsOK
  <2>2. ModesOK
    BY ConnectorAssumption DEF Init, ModesOK, States, Ops, Timers
  <2>3. CountersOK BY ConnectorAssumption DEF Init, CountersOK
  <2>4. OneAttempt /\ StateIsKept /\ AbortHasReason /\ Phases
    BY DEF Init, OneAttempt, StateIsKept, AbortHasReason, Phases
  <2>5. FactoryBalanced BY ConnectorAssumption DEF Init, FactoryBalanced
  <2>6. KeepsTrying /\ TimersBounded
    BY DEF Init, KeepsTrying, TimersBounded
  <2> QED BY <2>1, <2>2, <2>3, <2>4, <2>5, <2>6 DEF Inv, TypeOK
<1>2. Inv /\ [Next]_vars => Inv' BY NextInv
<1> QED BY <1>1, <1>2, PTL DEF Spec

(* Every variable keeps its type: the counters stay within their bounds,   *)
(* and no report is made of an attempt that was not begun.                 *)
THEOREM TypeCorrect == Spec => []TypeOK
<1>1. Inv => TypeOK BY DEF Inv
<1> QED BY <1>1, Invariance, PTL

(* No two of resolving, connecting, connected and waiting to retry         *)
(* overlap, whatever the order of stops, timeouts, late timeouts and       *)
(* retries.                                                                *)
THEOREM AttemptsDoNotOverlap == Spec => []OneAttempt
<1>1. Inv => OneAttempt BY DEF Inv
<1> QED BY <1>1, Invariance, PTL

(* kConnecting has an operation outstanding and kConnected a connection,   *)
(* unless a handler threw.                                                 *)
THEOREM StateKept == Spec => []StateIsKept
<1>1. Inv => StateIsKept BY DEF Inv
<1> QED BY <1>1, Invariance, PTL

(* The handler of an aborted operation finds the reason in _error.         *)
THEOREM AbortExplained == Spec => []AbortHasReason
<1>1. Inv => AbortHasReason BY DEF Inv
<1> QED BY <1>1, Invariance, PTL

(* doStart and doStop of the factory are balanced on every path.           *)
THEOREM PortsBalanced == Spec => []FactoryBalanced
<1>1. Inv => FactoryBalanced BY DEF Inv
<1> QED BY <1>1, Invariance, PTL

(* A disconnected reconnecting client has a retry scheduled until it gives *)
(* up or stopTrying is called.                                             *)
THEOREM RetryScheduled == Spec => []KeepsTrying
<1>1. Inv => KeepsTrying BY DEF Inv
<1> QED BY <1>1, Invariance, PTL
=============================================================================
