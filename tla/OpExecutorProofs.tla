--------------------------- MODULE OpExecutorProofs ---------------------------
(***************************************************************************)
(* Theorems about OpExecutor, for every Op, retry profile and order of     *)
(* answers, timers and Ctrl-C.                                             *)
(***************************************************************************)
EXTENDS OpExecutor, TLAPS

\* The compensation phases, reversed, are as many phases.
LEMMA ReversedPlan == Reverse(OnFailure) \in Seq(Phase) /\ Len(Reverse(OnFailure)) = Len(OnFailure)
<1> DEFINE n == Len(OnFailure)
<1>1. OnFailure \in Seq(Phase) /\ n \in Nat
  BY PlanType
<1>2. \A i \in 1..n : OnFailure[n - i + 1] \in Phase
  BY <1>1
<1> QED
  BY <1>1, <1>2 DEF Reverse

LEMMA PlanIsPhases == Plan \in Seq(Phase)
  BY ReversedPlan, PlanType DEF Plan

-----------------------------------------------------------------------------
(* Type correctness. *)

\* The position stays in the plan because it is 1 until a plan is begun.
TypeInv == TypeOK /\ (run = "starting" => at = 1)

LEMMA TypeInit == Init => TypeInv
<1> SUFFICES ASSUME Init PROVE TypeInv
  OBVIOUS
<1>1. run = "starting" /\ at = 1 /\ ~Working
  BY DEF Init, Working
<1>2. status \in [Step -> StepStatus] /\ attempt \in [Step -> Nat]
  BY DEF Init, StepStatus
<1>3. live \subseteq Attempts /\ signalled \subseteq Attempts /\ aborted \in BOOLEAN
  BY DEF Init
<1>4. at \in Nat \ {0}
  BY <1>1
<1> QED
  BY <1>1, <1>2, <1>3, <1>4, Zenon DEF TypeInv, TypeOK

\* Calling an activity keeps the types.
LEMMA TypeCall ==
  ASSUME TypeInv, NEW s \in Step, NEW n \in Nat \ {0}, Call(s, n), UNCHANGED <<run, at, aborted>>
  PROVE  TypeInv'
<1> USE DEF TypeInv, TypeOK, StepStatus, Attempts
<1>1. TellAtBirth(s, n) \subseteq Attempts
  BY DEF TellAtBirth
<1>2. /\ attempt' \in [Step -> Nat] /\ status' \in [Step -> StepStatus]
      /\ live' \subseteq Attempts /\ signalled' \subseteq Attempts
  BY <1>1 DEF Call
<1> QED
  BY <1>2 DEF Working, Ended, Plan

\* Every step keeps the types of what steps keep track of.
LEMMA TypeStep == ASSUME TypeInv, [Next]_vars PROVE TypeInv'
<1> USE DEF TypeInv, TypeOK
<1>1. CASE Start
  <2>1. Main # <<>> => Len(Main) >= 1
    BY PlanType
  <2> QED
    BY <1>1, <2>1 DEF Start, Working, Ended, Plan
<1>2. CASE PhaseSucceeds
  <2>1. Len(Main) \in Nat /\ at \in 1..Len(Main)
    BY <1>2, PlanType DEF PhaseSucceeds, Working, Plan
  <2> QED
    BY <1>2, <2>1 DEF PhaseSucceeds, Working, Ended, Plan
<1>3. CASE PhaseFails
  <2>1. OnFailure # <<>> => Len(Reverse(OnFailure)) >= 1
    BY PlanType, ReversedPlan
  <2>2. status' \in [Step -> StepStatus]
    BY <1>3 DEF PhaseFails, SkipRest, StepStatus
  <2>3. \/ run' = "failed" /\ at' = at
        \/ run' = "compensating" /\ at' = 1 /\ OnFailure # <<>>
    BY <1>3 DEF PhaseFails
  <2> QED
    BY <1>3, <2>1, <2>2, <2>3 DEF PhaseFails, Working, Ended, Plan
<1>4. CASE CompensationPhaseEnds
  <2>1. Len(Plan) \in Nat /\ at \in 1..Len(Plan)
    BY <1>4, PlanIsPhases DEF CompensationPhaseEnds, Working
  <2>2. status' \in [Step -> StepStatus]
    BY <1>4 DEF CompensationPhaseEnds, SkipRest, StepStatus
  <2>3. \/ run' = "failed" /\ at' = at
        \/ run' = run /\ at' = at + 1 /\ at # Len(Plan)
    BY <1>4 DEF CompensationPhaseEnds, CompensationOver
  <2> QED
    BY <1>4, <2>1, <2>2, <2>3 DEF CompensationPhaseEnds, Working, Ended, Plan
<1>5. ASSUME NEW s \in Step, StartStep(s) PROVE TypeInv'
  <2>1. CASE s \in Unknown
    BY <1>5, <2>1 DEF StartStep, StepStatus, Working, Ended, Plan
  <2>2. CASE s \notin Unknown
    BY <1>5, <2>2, TypeCall DEF StartStep
  <2> QED
    BY <2>1, <2>2
<1>6. ASSUME NEW s \in Step, Retry(s) PROVE TypeInv'
  <2>1. attempt[s] + 1 \in Nat \ {0}
    OBVIOUS
  <2> QED
    BY <1>6, <2>1, TypeCall DEF Retry
<1>7. ASSUME NEW s \in Step, Timeout(s) PROVE TypeInv'
  <2>1. Awaited(s) \in Attempts
    BY DEF Awaited, Attempts
  <2> QED
    BY <1>7, <2>1 DEF Timeout, StepStatus, Attempts, Working, Ended, Plan
<1>8. ASSUME NEW s \in Step, Answer(s) PROVE TypeInv'
  <2>1. status' \in [Step -> StepStatus]
    BY <1>8 DEF Answer, StepStatus
  <2> QED
    BY <1>8, <2>1 DEF Answer, Attempts, Working, Ended, Plan
<1>9. ASSUME NEW s \in Step, EndUnawaited(s) PROVE TypeInv'
  BY <1>9 DEF EndUnawaited, Attempts, Working, Ended, Plan
<1>10. CASE Abort
  <2>1. \A s \in Step : Awaited(s) \in Attempts
    BY DEF Awaited, Attempts
  <2> QED
    BY <1>10, <2>1 DEF Abort, Attempts, Working, Ended, Plan
<1>11. CASE UNCHANGED vars
  BY <1>11 DEF vars, Working, Ended, Plan
<1> QED
  BY <1>1, <1>2, <1>3, <1>4, <1>5, <1>6, <1>7, <1>8, <1>9, <1>10, <1>11
  DEF Next, Work, Exited

LEMMA TypeInvariant == Spec => []TypeInv
<1>1. TypeInv /\ [Next]_vars => TypeInv'
  BY TypeStep
<1> QED
  BY TypeInit, <1>1, PTL DEF Spec

\* The state of the executor is well-typed, and its position is in the plan.
THEOREM TypeCorrect == Spec => []TypeOK
<1>1. TypeInv => TypeOK
  BY DEF TypeInv
<1> QED
  BY TypeInvariant, <1>1, PTL

-----------------------------------------------------------------------------
(* Attempts that are given up have been told. *)

\* What a call adds is told if it has to be; the other attempts of the step were
\* given up before.
LEMMA ToldCall ==
  ASSUME TypeInv, NoUntoldOrphan, NEW s \in Step, NEW n \in Nat, ~Waiting(s), Call(s, n),
         UNCHANGED aborted
  PROVE  NoUntoldOrphan'
<1> SUFFICES ASSUME NEW p \in live', aborted' \/ ~(Waiting(p[1])' /\ p = Awaited(p[1])')
             PROVE  p \in signalled'
  BY DEF NoUntoldOrphan
<1>1. PICK t \in Step, k \in Nat : p = <<t, k>>
  BY DEF TypeInv, TypeOK, Attempts, Call
<1>2. CASE p = <<s, n>>
  <2>1. attempt'[s] = n /\ status'[s] = "attempting"
    BY DEF Call, TypeInv, TypeOK
  <2>2. aborted
    BY <1>2, <2>1 DEF Waiting, Awaited
  <2> QED
    BY <1>2, <2>2 DEF Call, TellAtBirth
<1>3. CASE p # <<s, n>>
  <2>1. p \in live
    BY <1>3 DEF Call
  <2>2. aborted \/ ~(Waiting(t) /\ p = Awaited(t))
    <3>1. CASE t = s
      BY <3>1
    <3>2. CASE t # s
      BY <3>2, <1>1 DEF Call, Waiting, Awaited, TypeInv, TypeOK
    <3> QED
      BY <3>1, <3>2
  <2>3. p \in signalled
    BY <1>1, <2>1, <2>2 DEF NoUntoldOrphan
  <2> QED
    BY <2>3 DEF Call
<1> QED
  BY <1>2, <1>3

LEMMA ToldStep == ASSUME TypeInv, NoUntoldOrphan, [Next]_vars PROVE NoUntoldOrphan'
<1>1. ASSUME UNCHANGED <<attempt, live, signalled, aborted>>, 
             \A s \in Step : status[s] = "attempting" => status'[s] = "attempting"
      PROVE  NoUntoldOrphan'
  <2> SUFFICES ASSUME NEW p \in live, aborted \/ ~(Waiting(p[1])' /\ p = Awaited(p[1])')
               PROVE  p \in signalled
    BY <1>1 DEF NoUntoldOrphan
  <2>1. p[1] \in Step
    BY DEF TypeInv, TypeOK, Attempts
  <2> QED
    BY <1>1, <2>1 DEF NoUntoldOrphan, Waiting, Awaited
<1>2. CASE Start \/ PhaseSucceeds \/ UNCHANGED vars
  BY <1>2, <1>1 DEF Start, PhaseSucceeds, vars
<1>3. CASE PhaseFails \/ CompensationPhaseEnds
  <2>1. \A s \in Step : status[s] = "attempting" => status'[s] = "attempting"
    BY <1>3 DEF PhaseFails, CompensationPhaseEnds, SkipRest
  <2> QED
    BY <1>3, <2>1, <1>1 DEF PhaseFails, CompensationPhaseEnds
<1>4. ASSUME NEW s \in Step, StartStep(s) PROVE NoUntoldOrphan'
  <2>1. CASE s \in Unknown
    <3>1. \A t \in Step : status[t] = "attempting" => status'[t] = "attempting"
      BY <1>4, <2>1 DEF StartStep, TypeInv, TypeOK
    <3> QED
      BY <1>4, <2>1, <3>1, <1>1 DEF StartStep
  <2>2. CASE s \notin Unknown
    BY <1>4, <2>2, ToldCall DEF StartStep, Waiting
  <2> QED
    BY <2>1, <2>2
<1>5. ASSUME NEW s \in Step, Retry(s) PROVE NoUntoldOrphan'
  <2>1. attempt[s] + 1 \in Nat
    BY DEF TypeInv, TypeOK
  <2> QED
    BY <1>5, <2>1, ToldCall DEF Retry, Waiting
<1>6. ASSUME NEW s \in Step, NEW n \in Nat, n = attempt[s], Waiting(s),
             live' \subseteq live, <<s, n>> \in live' => <<s, n>> \in signalled',
             signalled \subseteq signalled', UNCHANGED <<attempt, aborted>>,
             \A t \in Step \ {s} : status'[t] = status[t]
      PROVE  NoUntoldOrphan'
  <2> SUFFICES ASSUME NEW p \in live', aborted \/ ~(Waiting(p[1])' /\ p = Awaited(p[1])')
               PROVE  p \in signalled'
    BY <1>6 DEF NoUntoldOrphan
  <2>1. PICK t \in Step, k \in Nat : p = <<t, k>>
    BY <1>6 DEF TypeInv, TypeOK, Attempts
  <2>2. CASE p = <<s, n>>
    BY <2>2, <1>6
  <2>3. CASE p # <<s, n>>
    <3>1. aborted \/ ~(Waiting(t) /\ p = Awaited(t))
      BY <1>6, <2>1, <2>3 DEF Waiting, Awaited
    <3> QED
      BY <3>1, <2>1, <1>6 DEF NoUntoldOrphan
  <2> QED
    BY <2>2, <2>3
<1>7. ASSUME NEW s \in Step, Timeout(s) \/ Answer(s) PROVE NoUntoldOrphan'
  <2>1. attempt[s] \in Nat
    BY DEF TypeInv, TypeOK
  <2>2. \A t \in Step \ {s} : status'[t] = status[t]
    BY <1>7 DEF Timeout, Answer, TypeInv, TypeOK
  <2>3. <<s, attempt[s]>> \in live' => <<s, attempt[s]>> \in signalled'
    BY <1>7 DEF Timeout, Answer, Awaited
  <2> QED
    BY <1>7, <2>1, <2>2, <2>3, <1>6 DEF Timeout, Answer
<1>8. ASSUME NEW s \in Step, EndUnawaited(s) PROVE NoUntoldOrphan'
  BY <1>8 DEF EndUnawaited, NoUntoldOrphan, Waiting, Awaited
<1>9. CASE Abort
  <2> SUFFICES ASSUME NEW p \in live PROVE p \in signalled'
    BY <1>9 DEF NoUntoldOrphan, Abort
  <2>1. PICK t \in Step, k \in Nat : p = <<t, k>>
    BY DEF TypeInv, TypeOK, Attempts
  <2>2. CASE Waiting(t) /\ p = Awaited(t)
    BY <1>9, <2>2 DEF Abort
  <2>3. CASE ~(Waiting(t) /\ p = Awaited(t))
    BY <1>9, <2>1, <2>3 DEF Abort, NoUntoldOrphan
  <2> QED
    BY <2>2, <2>3
<1> QED
  BY <1>2, <1>3, <1>4, <1>5, <1>7, <1>8, <1>9 DEF Next, Work, Exited

\* Whatever the order of timers, retries and Ctrl-C: an attempt that is no longer
\* waited for, or that outlives an abort, has had its AbortSignal fire.
THEOREM OrphansTold == Spec => []NoUntoldOrphan
<1>1. Init => NoUntoldOrphan
  BY DEF Init, NoUntoldOrphan
<1>2. TypeInv /\ NoUntoldOrphan /\ [Next]_vars => NoUntoldOrphan'
  BY ToldStep
<1> QED
  BY TypeInvariant, <1>1, <1>2, PTL DEF Spec

-----------------------------------------------------------------------------
(* The retry budget. *)

\* A step that sleeps before its next attempt has one left.
Budget == /\ RetriesBounded
          /\ \A s \in Step : status[s] = "sleeping" => attempt[s] < MaxAttempts[s]

LEMMA BudgetStep == ASSUME TypeInv, Budget, [Next]_vars PROVE Budget'
<1> USE DEF TypeInv, TypeOK, Budget, RetriesBounded
<1> USE MaxAttemptsType
<1>1. ASSUME UNCHANGED attempt,
             \A s \in Step : status'[s] = "sleeping" =>
               status[s] = "sleeping" \/ attempt[s] < MaxAttempts[s]
      PROVE  Budget'
  BY <1>1
<1>2. CASE Start \/ PhaseSucceeds \/ Abort \/ UNCHANGED vars
  BY <1>2, <1>1 DEF Start, PhaseSucceeds, Abort, vars
<1>3. CASE PhaseFails \/ CompensationPhaseEnds
  BY <1>3, <1>1 DEF PhaseFails, CompensationPhaseEnds, SkipRest
<1>4. ASSUME NEW s \in Step, NEW n \in Nat, n <= MaxAttempts[s], Call(s, n) PROVE Budget'
  BY <1>4 DEF Call
<1>5. ASSUME NEW s \in Step, StartStep(s) PROVE Budget'
  <2>1. 1 <= MaxAttempts[s]
    OBVIOUS
  <2>2. CASE s \in Unknown
    BY <1>5, <2>2, <1>1 DEF StartStep
  <2>3. CASE s \notin Unknown
    BY <1>5, <2>1, <2>3, <1>4 DEF StartStep
  <2> QED
    BY <2>2, <2>3
<1>6. ASSUME NEW s \in Step, Retry(s) PROVE Budget'
  <2>1. attempt[s] + 1 \in Nat /\ attempt[s] + 1 <= MaxAttempts[s]
    BY <1>6 DEF Retry
  <2> QED
    BY <1>6, <2>1, <1>4 DEF Retry
<1>7. ASSUME NEW s \in Step, Timeout(s) \/ Answer(s) \/ EndUnawaited(s) PROVE Budget'
  BY <1>7, <1>1 DEF Timeout, Answer, EndUnawaited, CanRetry
<1> QED
  BY <1>2, <1>3, <1>5, <1>6, <1>7 DEF Next, Work, Exited

\* No step is tried more often than its profile says.
THEOREM RetryBudget == Spec => []RetriesBounded
<1>1. Init => Budget
  BY MaxAttemptsType DEF Init, Budget, RetriesBounded
<1>2. TypeInv /\ Budget /\ [Next]_vars => Budget'
  BY BudgetStep
<1>3. Budget => RetriesBounded
  BY DEF Budget
<1> QED
  BY TypeInvariant, <1>1, <1>2, <1>3, PTL DEF Spec

-----------------------------------------------------------------------------
(* Compensation waits for the Op. *)

Busy(s) == status[s] \in {"attempting", "sleeping"}

\* The steps of a sequential phase come to their end one after the other.
InTurn(ph) == ph \notin Parallel =>
  \A i, j \in DOMAIN Body[ph] :
    i < j /\ status[Body[ph][j]] # "waiting" => status[Body[ph][i]] = "ok"

\* While the Op runs, only steps of its current phase are under way, later
\* phases are untouched, and a sequential phase keeps to its order.
WaitInv ==
  /\ run = "starting" => \A s \in Step : status[s] = "waiting"
  /\ run = "running" =>
       /\ \A s \in Step : Busy(s) => s \in ToSet(Body[Main[at]])
       /\ \A k \in (at + 1)..Len(Main) : \A s \in ToSet(Body[Main[k]]) : status[s] = "waiting"
       /\ InTurn(Main[at])
  /\ CompensationWaits

\* Steps are places: those of the Op are not those of its compensation, nor are
\* those of one phase those of another.
LEMMA PlacesApart ==
  /\ \A ph \in Phase : Body[ph] \in Seq(Step) /\ ToSet(Body[ph]) \subseteq Step
  /\ \A k \in 1..Len(Main) : Main[k] \in Phase /\ Main[k] \in ToSet(Main)
  /\ \A k, l \in 1..Len(Main) :
       k # l => ToSet(Body[Main[k]]) \cap ToSet(Body[Main[l]]) = {}
  /\ \A k \in 1..Len(OnFailure) : ToSet(Body[Reverse(OnFailure)[k]]) \cap StepsIn(Main) = {}
<1>1. \A ph \in Phase : Body[ph] \in Seq(Step) /\ ToSet(Body[ph]) \subseteq Step
  BY BodyType DEF ToSet
<1>2. \A k \in 1..Len(Main) : Main[k] \in Phase /\ Main[k] \in ToSet(Main)
  BY PlanType DEF ToSet
<1>4. ASSUME NEW k \in 1..Len(Main), NEW l \in 1..Len(Main), k # l
      PROVE  ToSet(Body[Main[k]]) \cap ToSet(Body[Main[l]]) = {}
  <2>1. Main[k] # Main[l]
    BY <1>4, Places, PlanType DEF IsInjective
  <2> QED
    BY <2>1, <1>2, Places
<1>5. ASSUME NEW k \in 1..Len(OnFailure)
      PROVE  ToSet(Body[Reverse(OnFailure)[k]]) \cap StepsIn(Main) = {}
  <2> DEFINE ph == Reverse(OnFailure)[k]
  <2>1. ph \in ToSet(OnFailure) /\ ph \in Phase
    BY PlanType DEF Reverse, ToSet
  <2>2. \A qh \in ToSet(Main) : qh \in Phase /\ qh # ph
    BY <2>1, Places, PlanType DEF ToSet
  <2> QED
    BY <2>1, <2>2, Places DEF StepsIn
<1> QED
  BY <1>1, <1>2, <1>4, <1>5

\* When the current phase is over, nothing is under way.
LEMMA SettledIsIdle ==
  ASSUME TypeInv, WaitInv, run = "running", Settled(Main[at])
  PROVE  \A s \in Step : ~Busy(s)
<1> SUFFICES ASSUME NEW s \in Step, Busy(s) PROVE FALSE
  OBVIOUS
<1> DEFINE ph == Main[at]
<1>1. ph \in Phase /\ Body[ph] \in Seq(Step) /\ s \in ToSet(Body[ph])
  BY PlacesApart DEF TypeInv, TypeOK, Working, Plan, WaitInv
<1>2. status[s] \notin {"ok", "fail", "waiting"}
  BY DEF Busy
<1>3. ph \notin Parallel /\ Failed(ph)
  BY <1>1, <1>2 DEF Settled
<1>4. PICK i \in DOMAIN Body[ph] : status[Body[ph][i]] = "fail"
  BY <1>1, <1>3 DEF Failed, ToSet
<1>5. PICK j \in DOMAIN Body[ph] : Body[ph][j] = s
  BY <1>1 DEF ToSet
<1>6. InTurn(ph)
  BY DEF WaitInv
<1>7. i \in Nat /\ j \in Nat /\ i # j
  BY <1>1, <1>2, <1>4, <1>5
<1>8. CASE i < j
  BY <1>2, <1>3, <1>4, <1>5, <1>6, <1>8 DEF InTurn
<1>9. CASE j < i
  BY <1>2, <1>3, <1>4, <1>5, <1>6, <1>9 DEF InTurn
<1> QED
  BY <1>7, <1>8, <1>9

\* A step that is under way goes on or comes to its end.
LEMMA WaitBusy ==
  ASSUME TypeInv, WaitInv, NEW s \in Step, Busy(s), UNCHANGED <<run, at>>,
         status'[s] # "waiting", \A t \in Step \ {s} : status'[t] = status[t]
  PROVE  WaitInv'
<1>1. CASE run = "running"
  <2> DEFINE ph == Main[at]
  <2>1. at \in 1..Len(Main) /\ ph \in Phase /\ Body[ph] \in Seq(Step) /\ s \in ToSet(Body[ph])
    BY <1>1, PlacesApart DEF TypeInv, TypeOK, Working, Plan, WaitInv
  <2>2. \A t \in Step : Busy(t)' => t \in ToSet(Body[ph])
    BY <1>1, <2>1 DEF Busy, WaitInv
  <2>3. \A k \in (at + 1)..Len(Main) : \A t \in ToSet(Body[Main[k]]) : status'[t] = "waiting"
    <3> SUFFICES ASSUME NEW k \in (at + 1)..Len(Main), NEW t \in ToSet(Body[Main[k]])
                 PROVE  status'[t] = "waiting"
      OBVIOUS
    <3>1. k \in 1..Len(Main) /\ k # at /\ status[t] = "waiting"
      BY <1>1, <2>1, PlanType DEF WaitInv
    <3>2. t \in Step /\ t # s
      BY <2>1, <3>1, PlacesApart
    <3> QED
      BY <3>1, <3>2
  <2>4. InTurn(ph)'
    <3> SUFFICES ASSUME ph \notin Parallel, NEW i \in DOMAIN Body[ph], NEW j \in DOMAIN Body[ph],
                        i < j, status'[Body[ph][j]] # "waiting"
                 PROVE  status'[Body[ph][i]] = "ok"
      BY DEF InTurn
    <3>1. Body[ph][i] \in Step /\ Body[ph][j] \in Step
      BY <2>1
    <3>2. status[Body[ph][j]] # "waiting"
      BY <3>1 DEF Busy
    <3>3. status[Body[ph][i]] = "ok"
      BY <1>1, <3>2 DEF WaitInv, InTurn
    <3> QED
      BY <3>1, <3>3 DEF Busy
  <2> QED
    BY <1>1, <2>2, <2>3, <2>4 DEF WaitInv, CompensationWaits
<1>2. CASE run \in {"compensating", "failed", "ok"}
  <2>1. s \notin StepsIn(Main)
    BY <1>2 DEF WaitInv, CompensationWaits, Busy
  <2>2. StepsIn(Main) \subseteq Step
    BY PlanType, PlacesApart DEF StepsIn, ToSet
  <2> QED
    BY <1>2, <2>1, <2>2 DEF WaitInv, CompensationWaits
<1>3. CASE run = "starting"
  BY <1>3 DEF WaitInv, Busy
<1>4. CASE run = "gated"
  BY <1>4 DEF WaitInv, CompensationWaits
<1> QED
  BY <1>1, <1>2, <1>3, <1>4 DEF TypeInv, TypeOK, Working, Ended

\* A step of the current phase is begun when it is its turn.
LEMMA WaitStart ==
  ASSUME TypeInv, WaitInv, NEW s \in Step, Reached(s), status[s] = "waiting",
         UNCHANGED <<run, at>>, \A t \in Step \ {s} : status'[t] = status[t]
  PROVE  WaitInv'
<1>1. at \in 1..Len(Plan) /\ run \in {"running", "compensating"}
  BY DEF Reached, TypeInv, TypeOK, Working
<1>2. CASE run = "running"
  <2> DEFINE ph == Main[at]
  <2>1. at \in 1..Len(Main) /\ ph \in Phase /\ Body[ph] \in Seq(Step) /\ Plan = Main
    BY <1>1, <1>2, PlacesApart DEF Plan
  <2>2. PICK m \in DOMAIN Body[ph] :
          /\ Body[ph][m] = s
          /\ ph \in Parallel \/ \A j \in 1..(m - 1) : status[Body[ph][j]] = "ok"
    BY <2>1 DEF Reached
  <2>3. s \in ToSet(Body[ph])
    BY <2>1, <2>2 DEF ToSet
  <2>4. \A t \in Step : Busy(t)' => t \in ToSet(Body[ph])
    BY <1>2, <2>3 DEF Busy, WaitInv
  <2>5. \A k \in (at + 1)..Len(Main) : \A t \in ToSet(Body[Main[k]]) : status'[t] = "waiting"
    <3> SUFFICES ASSUME NEW k \in (at + 1)..Len(Main), NEW t \in ToSet(Body[Main[k]])
                 PROVE  status'[t] = "waiting"
      OBVIOUS
    <3>1. k \in 1..Len(Main) /\ k # at /\ status[t] = "waiting"
      BY <1>2, <2>1, PlanType DEF WaitInv
    <3>2. t \in Step
      BY <3>1, PlacesApart
    <3>3. t # s
      BY <2>1, <2>3, <3>1, PlacesApart
    <3> QED
      BY <3>1, <3>2, <3>3
  <2>6. InTurn(ph)'
    <3> SUFFICES ASSUME ph \notin Parallel, NEW i \in DOMAIN Body[ph], NEW j \in DOMAIN Body[ph],
                        i < j, status'[Body[ph][j]] # "waiting"
                 PROVE  status'[Body[ph][i]] = "ok"
      BY DEF InTurn
    <3>1. Body[ph][i] \in Step /\ Body[ph][j] \in Step /\ i \in Nat /\ j \in Nat /\ m \in Nat
      BY <2>1
    <3>2. status[Body[ph][i]] = "ok"
      <4>1. CASE Body[ph][j] = s
        <5>1. j = m
          BY <2>1, <2>2, <4>1, Places DEF IsInjective
        <5>2. i \in 1..(m - 1)
          BY <2>1, <3>1, <5>1
        <5> QED
          BY <2>2, <5>2
      <4>2. CASE Body[ph][j] # s
        BY <1>2, <3>1, <4>2 DEF WaitInv, InTurn
      <4> QED
        BY <4>1, <4>2
    <3> QED
      BY <3>1, <3>2
  <2> QED
    BY <1>2, <2>4, <2>5, <2>6 DEF WaitInv, CompensationWaits
<1>3. CASE run = "compensating"
  <2>1. at \in 1..Len(OnFailure) /\ Plan = Reverse(OnFailure)
    BY <1>1, <1>3, ReversedPlan DEF Plan
  <2>2. s \in ToSet(Body[Reverse(OnFailure)[at]])
    BY <2>1 DEF Reached, ToSet
  <2>3. s \notin StepsIn(Main)
    BY <2>1, <2>2, PlacesApart
  <2>4. StepsIn(Main) \subseteq Step
    BY PlanType, PlacesApart DEF StepsIn, ToSet
  <2> QED
    BY <1>3, <2>3, <2>4 DEF WaitInv, CompensationWaits
<1> QED
  BY <1>1, <1>2, <1>3

\* A plan is left or begun, or a phase of the compensation ends, with nothing of
\* the Op under way.
LEMMA WaitLeave ==
  ASSUME TypeInv, WaitInv,
         \A s \in Step : status'[s] = status[s] \/ status'[s] = "skipped",
         run' \in {"ok", "failed", "compensating", "gated"},
         run \in {"ok", "failed", "compensating"} \/ \A s \in Step : ~Busy(s)
  PROVE  WaitInv'
<1>1. StepsIn(Main) \subseteq Step
  BY PlanType, PlacesApart DEF StepsIn, ToSet
<1> QED
  BY <1>1 DEF WaitInv, CompensationWaits, Busy

LEMMA WaitStep == ASSUME TypeInv, WaitInv, [Next]_vars PROVE WaitInv'
<1>1. CASE Start
  <2>1. \A s \in Step : status[s] = "waiting" /\ status'[s] = "waiting"
    BY <1>1 DEF Start, WaitInv
  <2>2. CASE run' = "running"
    <3>1. at' = 1 /\ Len(Main) >= 1 /\ Main[1] \in Phase /\ Body[Main[1]] \in Seq(Step)
      BY <1>1, <2>2, PlanType, PlacesApart DEF Start, TypeInv
    <3>2. \A k \in 1..Len(Main) : \A s \in ToSet(Body[Main[k]]) : s \in Step
      BY PlacesApart
    <3> QED
      BY <2>1, <2>2, <3>1, <3>2, PlanType DEF WaitInv, Busy, InTurn, CompensationWaits
  <2>3. CASE run' # "running"
    <3>1. run' \in {"gated", "ok", "failed"}
      BY <1>1, <2>3 DEF Start
    <3> QED
      BY <2>1, <3>1, WaitLeave DEF Busy
  <2> QED
    BY <2>2, <2>3
<1>2. CASE PhaseSucceeds
  <2>1. run = "running" /\ at \in 1..Len(Main) /\ UNCHANGED status
    BY <1>2 DEF PhaseSucceeds, TypeInv, TypeOK, Working, Plan
  <2>2. \A s \in Step : ~Busy(s)
    BY <1>2, <2>1, SettledIsIdle DEF PhaseSucceeds
  <2>3. CASE run' = run
    <3>1. at' = at + 1 /\ at' \in 1..Len(Main)
      BY <1>2, <2>1, <2>3, PlanType DEF PhaseSucceeds
    <3>2. \A k \in at'..Len(Main) : \A s \in ToSet(Body[Main[k]]) : status'[s] = "waiting"
      BY <2>1, <3>1 DEF WaitInv
    <3>3. InTurn(Main[at])'
      <4>1. Main[at'] \in Phase /\ Body[Main[at']] \in Seq(Step)
        BY <3>1, PlacesApart
      <4>2. \A j \in DOMAIN Body[Main[at']] : status'[Body[Main[at']][j]] = "waiting"
        BY <3>1, <3>2, <4>1 DEF ToSet
      <4> QED
        BY <4>2 DEF InTurn
    <3> QED
      BY <2>1, <2>2, <2>3, <3>1, <3>2, <3>3 DEF WaitInv, Busy, CompensationWaits
  <2>4. CASE run' # run
    BY <1>2, <2>1, <2>2, <2>4, WaitLeave DEF PhaseSucceeds
  <2> QED
    BY <2>3, <2>4
<1>3. CASE PhaseFails
  <2>1. \A s \in Step : ~Busy(s)
    BY <1>3, SettledIsIdle DEF PhaseFails
  <2>2. \A s \in Step : status'[s] = status[s] \/ status'[s] = "skipped"
    BY <1>3 DEF PhaseFails, SkipRest
  <2> QED
    BY <1>3, <2>1, <2>2, WaitLeave DEF PhaseFails
<1>4. CASE CompensationPhaseEnds
  <2>1. \A s \in Step : status'[s] = status[s] \/ status'[s] = "skipped"
    BY <1>4 DEF CompensationPhaseEnds, SkipRest
  <2> QED
    BY <1>4, <2>1, WaitLeave DEF CompensationPhaseEnds
<1>5. ASSUME NEW s \in Step, StartStep(s) PROVE WaitInv'
  <2>1. \A t \in Step \ {s} : status'[t] = status[t]
    BY <1>5 DEF StartStep, Call, TypeInv, TypeOK
  <2> QED
    BY <1>5, <2>1, WaitStart DEF StartStep
<1>6. ASSUME NEW s \in Step, Timeout(s) \/ Answer(s) \/ Retry(s) PROVE WaitInv'
  <2>1. Busy(s)
    BY <1>6 DEF Timeout, Answer, Retry, Busy, Waiting
  <2>2. status'[s] # "waiting" /\ \A t \in Step \ {s} : status'[t] = status[t]
    BY <1>6 DEF Timeout, Answer, Retry, Call, TypeInv, TypeOK
  <2> QED
    BY <1>6, <2>1, <2>2, WaitBusy DEF Timeout, Answer, Retry
<1>7. CASE UNCHANGED <<run, at, status>>
  BY <1>7 DEF WaitInv, Busy, InTurn, CompensationWaits
<1> QED
  BY <1>1, <1>2, <1>3, <1>4, <1>5, <1>6, <1>7 DEF Next, Work, Exited, Abort, EndUnawaited, vars

\* Compensation, and the end of the command, wait until no step of the Op is
\* under way or due to be tried again: parallel phases settle before they fail.
THEOREM Waits == Spec => []CompensationWaits
<1>1. Init => WaitInv
  BY DEF Init, WaitInv, CompensationWaits
<1>2. TypeInv /\ WaitInv /\ [Next]_vars => WaitInv'
  BY WaitStep
<1>3. WaitInv => CompensationWaits
  BY DEF WaitInv
<1> QED
  BY TypeInvariant, <1>1, <1>2, <1>3, PTL DEF Spec

\* After an abort the Op begins no phase and no compensation.
THEOREM AbortStops == Spec => AbortStopsPhases
<1>1. ASSUME [Next]_vars PROVE aborted /\ run # "compensating" => run' # "compensating" /\ at' = at
  BY <1>1 DEF Next, Work, Start, PhaseSucceeds, PhaseFails, CompensationPhaseEnds, MayGoOn,
     StartStep, Timeout, Retry, Call, Answer, EndUnawaited, Abort, Exited, vars
<1> QED
  BY <1>1, PTL DEF Spec, AbortStopsPhases

-----------------------------------------------------------------------------
(* What has failed is compensated. *)

\* The phases before the current one have done all their steps, those of the
\* compensation have come to an end of each; before that, none of its steps has
\* begun.
EndsInv ==
  /\ run = "starting" => \A s \in Step : status[s] = "waiting"
  /\ run = "running" =>
       /\ \A k \in 1..(at - 1) : \A s \in ToSet(Body[Main[k]]) : status[s] = "ok"
       /\ \A s \in StepsIn(OnFailure) : status[s] = "waiting"
  /\ run = "compensating" =>
       \A k \in 1..(at - 1) : \A s \in ToSet(Body[Reverse(OnFailure)[k]]) : status[s] # "waiting"
  /\ FailureIsCompensated

\* The steps of the Op and of its compensation, by the place of their phase.
LEMMA StepsByPhase ==
  /\ StepsIn(Main) \subseteq Step /\ StepsIn(OnFailure) \subseteq Step
  /\ \A s \in StepsIn(Main) : \E k \in 1..Len(Main) : s \in ToSet(Body[Main[k]])
  /\ \A s \in StepsIn(OnFailure) :
       \E k \in 1..Len(OnFailure) : s \in ToSet(Body[Reverse(OnFailure)[k]])
  /\ \A k \in 1..Len(Main) : ToSet(Body[Main[k]]) \cap StepsIn(OnFailure) = {}
<1>1. StepsIn(Main) \subseteq Step /\ StepsIn(OnFailure) \subseteq Step
  BY PlanType, PlacesApart DEF StepsIn, ToSet
<1>2. \A s \in StepsIn(Main) : \E k \in 1..Len(Main) : s \in ToSet(Body[Main[k]])
  <2>1. \A ph \in ToSet(Main) : \E k \in 1..Len(Main) : ph = Main[k]
    BY PlanType DEF ToSet
  <2> QED
    BY <2>1 DEF StepsIn
<1>3. ASSUME NEW s \in StepsIn(OnFailure)
      PROVE  \E k \in 1..Len(OnFailure) : s \in ToSet(Body[Reverse(OnFailure)[k]])
  <2>1. PICK ph \in ToSet(OnFailure) : s \in ToSet(Body[ph])
    BY DEF StepsIn
  <2>2. PICK i \in 1..Len(OnFailure) : ph = OnFailure[i]
    BY <2>1, PlanType DEF ToSet
  <2> DEFINE k == Len(OnFailure) - i + 1
  <2>3. k \in 1..Len(OnFailure) /\ Len(OnFailure) - k + 1 = i
    BY <2>2, PlanType
  <2>4. Reverse(OnFailure)[k] = ph
    BY <2>2, <2>3 DEF Reverse
  <2> QED
    BY <2>1, <2>3, <2>4
<1>4. ASSUME NEW k \in 1..Len(Main)
      PROVE  ToSet(Body[Main[k]]) \cap StepsIn(OnFailure) = {}
  <2>1. Main[k] \in Phase /\ Main[k] \in ToSet(Main)
    BY PlacesApart
  <2>2. \A ph \in ToSet(OnFailure) : ph \in Phase /\ ph # Main[k]
    BY <2>1, Places, PlanType DEF ToSet
  <2> QED
    BY <2>1, <2>2, Places DEF StepsIn
<1> QED
  BY <1>1, <1>2, <1>3, <1>4

\* A step begins, goes on or comes to its end.
LEMMA EndsOneStep ==
  ASSUME TypeInv, WaitInv, EndsInv, UNCHANGED <<run, at, aborted>>,
         NEW s \in Step, status[s] \notin {"ok", "fail", "skipped"}, status'[s] # "waiting",
         status[s] = "waiting" => Reached(s),
         \A t \in Step \ {s} : status'[t] = status[t]
  PROVE  EndsInv'
<1>1. CASE run = "running"
  <2>1. at \in 1..Len(Main) /\ Plan = Main /\ Main \in Seq(Phase)
    BY <1>1, PlanType DEF TypeInv, TypeOK, Working, Plan
  <2>2. s \in ToSet(Body[Main[at]])
    <3>1. CASE status[s] = "waiting"
      BY <2>1, <3>1 DEF Reached, ToSet
    <3>2. CASE status[s] # "waiting"
      <4>1. Busy(s)
        BY <3>2 DEF Busy, TypeInv, TypeOK, StepStatus
      <4> QED
        BY <1>1, <4>1 DEF WaitInv
    <3> QED
      BY <3>1, <3>2
  <2>3. s \notin StepsIn(OnFailure)
    BY <2>1, <2>2, StepsByPhase
  <2>4. \A t \in StepsIn(OnFailure) : status'[t] = "waiting"
    BY <1>1, <2>3, StepsByPhase DEF EndsInv
  <2>5. ASSUME NEW k \in 1..(at - 1), NEW t \in ToSet(Body[Main[k]]) PROVE status'[t] = "ok"
    <3>1. status[t] = "ok" /\ k \in 1..Len(Main)
      BY <1>1, <2>1, <2>5 DEF EndsInv
    <3>2. t \in Step
      BY <3>1, PlacesApart
    <3> QED
      BY <3>1, <3>2
  <2> QED
    BY <1>1, <2>4, <2>5 DEF EndsInv, FailureIsCompensated
<1>2. \A t \in Step : status[t] # "waiting" => status'[t] # "waiting"
  OBVIOUS
<1>3. CASE run = "compensating"
  <2>1. at \in 1..Len(OnFailure)
    BY <1>3, ReversedPlan DEF TypeInv, TypeOK, Working, Plan
  <2>2. \A k \in 1..(at - 1) : Reverse(OnFailure)[k] \in Phase
    BY <2>1, ReversedPlan
  <2>3. \A k \in 1..(at - 1) : \A t \in ToSet(Body[Reverse(OnFailure)[k]]) : t \in Step
    BY <2>2, PlacesApart
  <2> QED
    BY <1>2, <1>3, <2>3 DEF EndsInv, FailureIsCompensated
<1>4. CASE run = "failed"
  BY <1>2, <1>4, StepsByPhase DEF EndsInv, FailureIsCompensated
<1>5. CASE run = "ok"
  <2>1. status[s] # "waiting"
    BY <1>5 DEF Reached, Working
  <2> QED
    BY <1>5, <2>1, StepsByPhase DEF EndsInv, FailureIsCompensated
<1>6. CASE run = "starting"
  BY <1>6 DEF EndsInv, Reached, Working
<1>7. CASE run = "gated"
  BY <1>7 DEF EndsInv, FailureIsCompensated
<1> QED
  BY <1>1, <1>3, <1>4, <1>5, <1>6, <1>7 DEF TypeInv, TypeOK, Working, Ended

LEMMA EndsStep == ASSUME TypeInv, WaitInv, EndsInv, [Next]_vars PROVE EndsInv'
<1>1. CASE Start
  <2>1. \A s \in Step : status'[s] = "waiting"
    BY <1>1 DEF Start, EndsInv
  <2>2. run' = "running" => at' = 1
    BY <1>1 DEF Start, TypeInv
  <2>3. run' = "ok" => StepsIn(Main) = {}
    BY <1>1 DEF Start, StepsIn, ToSet
  <2>4. run' = "failed" => aborted'
    BY <1>1 DEF Start, MayGoOn
  <2>5. run' \in {"running", "ok", "failed", "gated"}
    BY <1>1 DEF Start
  <2>6. \A s \in StepsIn(OnFailure) : status'[s] = "waiting"
    BY <2>1, StepsByPhase
  <2> QED
    BY <2>2, <2>3, <2>4, <2>5, <2>6 DEF EndsInv, FailureIsCompensated
<1>2. CASE PhaseSucceeds
  <2>1. run = "running" /\ at \in 1..Len(Main) /\ UNCHANGED status
    BY <1>2 DEF PhaseSucceeds, TypeInv, TypeOK, Working, Plan
  <2>2. \A s \in ToSet(Body[Main[at]]) : status[s] = "ok"
    BY <1>2 DEF PhaseSucceeds, Settled, Failed
  <2>3. \A k \in 1..at : \A s \in ToSet(Body[Main[k]]) : status[s] = "ok"
    <3>1. \A k \in 1..at : k = at \/ k \in 1..(at - 1)
      BY <2>1
    <3> QED
      BY <2>1, <2>2, <3>1 DEF EndsInv
  <2>4. CASE run' = "running"
    <3>1. at' = at + 1
      BY <1>2, <2>4 DEF PhaseSucceeds
    <3> QED
      BY <2>1, <2>3, <2>4, <3>1 DEF EndsInv, FailureIsCompensated
  <2>5. CASE run' = "ok"
    <3>1. at = Len(Main)
      BY <1>2, <2>1, <2>5 DEF PhaseSucceeds
    <3>2. \A s \in StepsIn(Main) : status'[s] = "ok"
      BY <2>1, <2>3, <3>1, StepsByPhase
    <3> QED
      BY <2>1, <2>5, <3>2 DEF EndsInv, FailureIsCompensated
  <2>6. CASE run' = "failed"
    BY <1>2, <2>1, <2>6 DEF PhaseSucceeds, MayGoOn, EndsInv, FailureIsCompensated
  <2> QED
    BY <1>2, <2>1, <2>4, <2>5, <2>6 DEF PhaseSucceeds
<1>3. CASE PhaseFails
  <2>1. CASE run' = "compensating"
    <3>1. 1..(at' - 1) = {}
      BY <1>3, <2>1 DEF PhaseFails
    <3> QED
      BY <2>1, <3>1 DEF EndsInv, FailureIsCompensated
  <2>2. CASE run' = "failed"
    <3>1. OnFailure = <<>> => StepsIn(OnFailure) = {}
      BY DEF StepsIn, ToSet
    <3>2. aborted' \/ OnFailure = <<>>
      BY <1>3, <2>2 DEF PhaseFails
    <3> QED
      BY <2>2, <3>1, <3>2 DEF EndsInv, FailureIsCompensated
  <2> QED
    BY <1>3, <2>1, <2>2 DEF PhaseFails
<1>4. CASE CompensationPhaseEnds
  <2>1. /\ run = "compensating" /\ at \in 1..Len(OnFailure)
        /\ Plan = Reverse(OnFailure) /\ Len(Plan) = Len(OnFailure)
    BY <1>4, ReversedPlan DEF CompensationPhaseEnds, TypeInv, TypeOK, Working, Plan
  <2>2. ASSUME NEW k \in 1..at, NEW s \in ToSet(Body[Reverse(OnFailure)[k]])
        PROVE  status'[s] # "waiting"
    <3>1. s \in Step
      <4>1. Reverse(OnFailure)[k] \in Phase
        BY <2>1, ReversedPlan
      <4> QED
        BY <2>2, <4>1, PlacesApart
    <3>2. CASE k = at
      BY <1>4, <2>1, <2>2, <3>1, <3>2 DEF CompensationPhaseEnds, SkipRest
    <3>3. CASE k # at
      <4>1. k \in 1..(at - 1)
        BY <2>1, <3>3
      <4>2. status[s] # "waiting"
        BY <2>1, <2>2, <4>1 DEF EndsInv
      <4> QED
        BY <1>4, <3>1, <4>2 DEF CompensationPhaseEnds, SkipRest
    <3> QED
      BY <3>2, <3>3
  <2>3. CASE run' = "failed"
    <3>1. at = Len(OnFailure)
      BY <1>4, <2>1, <2>3 DEF CompensationPhaseEnds, CompensationOver
    <3>2. \A s \in StepsIn(OnFailure) : status'[s] # "waiting"
      BY <2>2, <3>1, StepsByPhase
    <3> QED
      BY <2>3, <3>2 DEF EndsInv, FailureIsCompensated
  <2>4. CASE run' = "compensating"
    <3>1. at' - 1 = at
      BY <1>4, <2>1, <2>4 DEF CompensationPhaseEnds
    <3> QED
      BY <2>2, <2>4, <3>1 DEF EndsInv, FailureIsCompensated
  <2> QED
    BY <1>4, <2>1, <2>3, <2>4 DEF CompensationPhaseEnds
<1>5. ASSUME NEW s \in Step, StartStep(s) PROVE EndsInv'
  <2>1. status'[s] # "waiting" /\ \A t \in Step \ {s} : status'[t] = status[t]
    BY <1>5 DEF StartStep, Call, TypeInv, TypeOK
  <2> QED
    BY <1>5, <2>1, EndsOneStep DEF StartStep
<1>6. ASSUME NEW s \in Step, Timeout(s) \/ Answer(s) \/ Retry(s) PROVE EndsInv'
  <2>1. status[s] \in {"attempting", "sleeping"}
    BY <1>6 DEF Timeout, Answer, Retry, Waiting
  <2>2. status'[s] # "waiting" /\ \A t \in Step \ {s} : status'[t] = status[t]
    BY <1>6 DEF Timeout, Answer, Retry, Call, TypeInv, TypeOK
  <2> QED
    BY <1>6, <2>1, <2>2, EndsOneStep DEF Timeout, Answer, Retry
<1>7. CASE Abort
  BY <1>7 DEF Abort, Ended, EndsInv, FailureIsCompensated
<1>8. CASE UNCHANGED <<run, at, status, aborted>>
  BY <1>8 DEF EndsInv, FailureIsCompensated
<1> QED
  BY <1>1, <1>2, <1>3, <1>4, <1>5, <1>6, <1>7, <1>8 DEF Next, Work, Exited, EndUnawaited, vars

\* A run that fails without an abort has gone through every compensation phase,
\* also after one that failed; one that ends well has compensated nothing.
THEOREM Compensates == Spec => []FailureIsCompensated
<1>1. Init => WaitInv /\ EndsInv
  <2>1. Init => WaitInv
    BY DEF Init, WaitInv, CompensationWaits
  <2>2. Init => EndsInv
    BY DEF Init, EndsInv, FailureIsCompensated
  <2> QED
    BY <2>1, <2>2
<1>2. TypeInv /\ WaitInv /\ EndsInv /\ [Next]_vars => WaitInv' /\ EndsInv'
  BY WaitStep, EndsStep
<1>3. EndsInv => FailureIsCompensated
  BY DEF EndsInv
<1> QED
  BY TypeInvariant, <1>1, <1>2, <1>3, PTL DEF Spec
=============================================================================
