------------------------------ MODULE OpExecutor ------------------------------
(***************************************************************************)
(* chant run <op> in local mode: the executor of op/local-executor.ts and  *)
(* the Ctrl-C handling around it (cli/handlers/run.ts, runOpLocal).        *)
(*                                                                         *)
(* Each activity step is tried up to MaxAttempts times, each attempt       *)
(* against a timer.  The executor waits for one attempt of a step at a     *)
(* time; one it has stopped waiting for can go on running in the world.    *)
(***************************************************************************)
EXTENDS Integers, Sequences, SequencesExt

CONSTANTS
  Step,         \* the steps of the Op
  Phase,        \* its phases
  Body,         \* the steps of each phase, in order
  Parallel,     \* the phases whose steps run together
  Main,         \* the phases of the Op
  OnFailure,    \* its compensation phases
  Gate,         \* the steps that wait for a signal
  Unknown,      \* the steps that name an activity nobody provides
  MaxAttempts   \* of each step's retry profile

ASSUME BodyType == Body \in [Phase -> Seq(Step)] /\ Parallel \subseteq Phase
ASSUME PlanType == Main \in Seq(Phase) /\ OnFailure \in Seq(Phase)
\* A step is one place in one phase, which is run once at most.
ASSUME Places == /\ \A ph \in Phase : IsInjective(Body[ph])
                 /\ \A ph, qh \in Phase : ph # qh => ToSet(Body[ph]) \cap ToSet(Body[qh]) = {}
                 /\ IsInjective(Main) /\ ToSet(Main) \cap ToSet(OnFailure) = {}
ASSUME MaxAttemptsType == MaxAttempts \in [Step -> Nat \ {0}]

VARIABLES
  run,        \* how far the Op is
  at,         \* the phase it is at, in Main or in the reversed OnFailure
  status,     \* how far each step is
  attempt,    \* the last attempt made of each step
  live,       \* the attempts that run in the world, waited for or not
  signalled,  \* the attempts whose AbortSignal has fired
  aborted     \* whether the run's signal has fired

vars == <<run, at, status, attempt, live, signalled, aborted>>

Attempts == Step \X Nat

Init == /\ run = "starting" /\ at = 1
        /\ status = [s \in Step |-> "waiting"]
        /\ attempt = [s \in Step |-> 0]
        /\ live = {} /\ signalled = {}
        /\ aborted = FALSE

Plan == IF run = "compensating" THEN Reverse(OnFailure) ELSE Main
Working == run \in {"running", "compensating"}

\* A gate anywhere in the Op is refused before anything runs; a caller may hand
\* over a signal that has fired already.
HasGate == \E ph \in ToSet(Main) \cup ToSet(OnFailure) : ToSet(Body[ph]) \cap Gate # {}

\* Mutant: the signal is not consulted between phases.
MayGoOnAlways == TRUE

MayGoOn == ~aborted

Start == /\ run = "starting"
         /\ run' = IF HasGate THEN "gated"
                   ELSE IF Main = <<>> THEN "ok"
                   ELSE IF MayGoOn THEN "running" ELSE "failed"
         /\ UNCHANGED <<at, status, attempt, live, signalled, aborted>>

-----------------------------------------------------------------------------
(* One step: attempts, timeouts, retries. *)

\* A step of the current phase whose turn it is.
Reached(s) ==
  /\ Working
  /\ \E i \in DOMAIN Body[Plan[at]] :
       /\ Body[Plan[at]][i] = s
       /\ Plan[at] \in Parallel \/ \A j \in 1..(i - 1) : status[Body[Plan[at]][j]] = "ok"

\* Mutant: an attempt made after the run was aborted is not told.
TellNobody(s, n) == {}

\* A new attempt finds out at once that the run has been aborted.
TellAtBirth(s, n) == IF aborted THEN {<<s, n>>} ELSE {}

\* Call the activity.
Call(s, n) == /\ attempt' = [attempt EXCEPT ![s] = n]
              /\ live' = live \cup {<<s, n>>}
              /\ signalled' = signalled \cup TellAtBirth(s, n)
              /\ status' = [status EXCEPT ![s] = "attempting"]

StartStep(s) ==
  /\ status[s] = "waiting"
  /\ Reached(s)
  /\ IF s \in Unknown
     THEN status' = [status EXCEPT ![s] = "fail"] /\ UNCHANGED <<attempt, live, signalled>>
     ELSE Call(s, 1)
  /\ UNCHANGED <<run, at, aborted>>

\* Mutant: one attempt too many.
CanRetryOnceMore(s) == ~aborted /\ attempt[s] <= MaxAttempts[s]

CanRetry(s) == ~aborted /\ attempt[s] < MaxAttempts[s]

\* The attempt that is waited for.
Awaited(s) == <<s, attempt[s]>>
Waiting(s) == status[s] = "attempting"

\* The activity returns, or throws an error its profile lets retry or does not.
Answer(s) ==
  /\ Waiting(s)
  /\ Awaited(s) \in live
  /\ live' = live \ {Awaited(s)}
  /\ \E next \in {"ok", "fail"} \cup (IF CanRetry(s) THEN {"sleeping"} ELSE {}) :
       status' = [status EXCEPT ![s] = next]
  /\ UNCHANGED <<run, at, attempt, signalled, aborted>>

\* Mutant: an abort disarms the timer.
TimeoutUnlessAborted(s) ==
  /\ Waiting(s) /\ ~aborted
  /\ signalled' = signalled \cup {Awaited(s)}
  /\ status' = [status EXCEPT ![s] = IF CanRetry(s) THEN "sleeping" ELSE "fail"]
  /\ UNCHANGED <<run, at, attempt, live, aborted>>

\* The timer fires first: the attempt is told to stop, and given up.
Timeout(s) ==
  /\ Waiting(s)
  /\ signalled' = signalled \cup {Awaited(s)}
  /\ status' = [status EXCEPT ![s] = IF CanRetry(s) THEN "sleeping" ELSE "fail"]
  /\ UNCHANGED <<run, at, attempt, live, aborted>>

\* The back-off sleep ends; it is not cut short by an abort.
Retry(s) == /\ status[s] = "sleeping"
            /\ Call(s, attempt[s] + 1)
            /\ UNCHANGED <<run, at, aborted>>

\* An attempt nobody waits for ends; what it answers is dropped.
EndUnawaited(s) == /\ \E n \in 1..attempt[s] :
                        /\ <<s, n>> \in live
                        /\ Waiting(s) => n # attempt[s]
                        /\ live' = live \ {<<s, n>>}
                   /\ UNCHANGED <<run, at, status, attempt, signalled, aborted>>

-----------------------------------------------------------------------------
(* Phases, compensation, Ctrl-C. *)

Failed(ph) == \E s \in ToSet(Body[ph]) : status[s] = "fail"

\* Mutant: a parallel phase is over with its first failure.
SettledEarly(ph) == Failed(ph) \/ \A s \in ToSet(Body[ph]) : status[s] = "ok"

\* All steps of a parallel phase are waited for.
Settled(ph) == \/ \A s \in ToSet(Body[ph]) : status[s] \in {"ok", "fail"}
               \/ ph \notin Parallel /\ Failed(ph)

SkipRest == status' = [s \in Step |->
                         IF s \in ToSet(Body[Plan[at]]) /\ status[s] = "waiting" THEN "skipped"
                         ELSE status[s]]

PhaseSucceeds ==
  /\ run = "running"
  /\ Settled(Main[at]) /\ ~Failed(Main[at])
  /\ IF at = Len(Main) THEN run' = "ok" /\ UNCHANGED at
     ELSE IF MayGoOn THEN at' = at + 1 /\ UNCHANGED run
     ELSE run' = "failed" /\ UNCHANGED at
  /\ UNCHANGED <<status, attempt, live, signalled, aborted>>

\* Compensation, unless the run was aborted.
PhaseFails ==
  /\ run = "running"
  /\ Settled(Main[at]) /\ Failed(Main[at])
  /\ SkipRest
  /\ IF aborted \/ OnFailure = <<>> THEN run' = "failed" /\ UNCHANGED at
     ELSE run' = "compensating" /\ at' = 1
  /\ UNCHANGED <<attempt, live, signalled, aborted>>

\* Mutant: the first compensation phase that fails is the last.
CompensationOverAtFailure == at = Len(Plan) \/ Failed(Plan[at])

CompensationOver == at = Len(Plan)

CompensationPhaseEnds ==
  /\ run = "compensating"
  /\ Settled(Plan[at])
  /\ SkipRest
  /\ IF CompensationOver THEN run' = "failed" /\ UNCHANGED at
     ELSE at' = at + 1 /\ UNCHANGED run
  /\ UNCHANGED <<attempt, live, signalled, aborted>>

\* A signal is handled between two turns of the event loop: nothing the
\* executor could do at once is left to do.
BetweenTurns == /\ \A s \in Step : ~(status[s] = "waiting" /\ Reached(s))
                /\ Working => ~Settled(Plan[at])

Ended == run \in {"ok", "failed", "gated"}

\* Ctrl-C: every attempt that is waited for is told.
Abort == /\ ~aborted /\ ~Ended
         /\ BetweenTurns
         /\ aborted' = TRUE
         /\ signalled' = signalled \cup {Awaited(s) : s \in {t \in Step : Waiting(t)}}
         /\ UNCHANGED <<run, at, status, attempt, live>>

\* What the executor does by itself, timers included.
Work == \/ Start \/ PhaseSucceeds \/ PhaseFails \/ CompensationPhaseEnds
        \/ \E s \in Step : StartStep(s) \/ Timeout(s) \/ Retry(s)

\* The command has exited, but for the attempts it left behind.
Exited == Ended /\ UNCHANGED vars

Next == \/ Work \/ Abort \/ Exited
        \/ \E s \in Step : Answer(s) \/ EndUnawaited(s)

Spec == Init /\ [][Next]_vars

\* Timers fire and ready continuations run; no activity has to answer.
FairSpec == Spec /\ WF_vars(Work)

-----------------------------------------------------------------------------
(* Properties. *)

StepStatus == {"waiting", "attempting", "sleeping", "ok", "fail", "skipped"}

\* Every variable has its type, and the position is one of the plan.
TypeOK ==
  /\ Working \/ Ended \/ run = "starting"
  /\ at \in Nat \ {0}
  /\ Working => at \in 1..Len(Plan)
  /\ status \in [Step -> StepStatus]
  /\ attempt \in [Step -> Nat]
  /\ live \subseteq Attempts
  /\ signalled \subseteq Attempts
  /\ aborted \in BOOLEAN

\* The retry budget of the profile is never exceeded, whether attempts throw or
\* time out (the loop of runStep).
RetriesBounded == \A s \in Step : attempt[s] <= MaxAttempts[s]

\* An attempt that still runs although it is given up, or although the run was
\* aborted, has had its AbortSignal fire: whatever the order of timers, retries
\* and Ctrl-C (callWithTimeout).
NoUntoldOrphan ==
  \A p \in live : aborted \/ ~(Waiting(p[1]) /\ p = Awaited(p[1])) => p \in signalled

StepsIn(phases) == UNION {ToSet(Body[ph]) : ph \in ToSet(phases)}

\* Compensation starts when every step of the Op has come to its end: none is
\* waited for or will be tried again beside it, nor after the run.
CompensationWaits ==
  run \in {"compensating", "failed", "ok"} =>
    \A s \in StepsIn(Main) : status[s] \notin {"attempting", "sleeping"}

\* A failed run that was not aborted has gone through every compensation phase,
\* also after one that failed; a run that is ok has done every step and has
\* compensated nothing.
FailureIsCompensated ==
  /\ run = "failed" /\ ~aborted => \A s \in StepsIn(OnFailure) : status[s] # "waiting"
  /\ run = "ok" => /\ \A s \in StepsIn(Main) : status[s] = "ok"
                   /\ \A s \in StepsIn(OnFailure) : status[s] = "waiting"

\* Once aborted, no further phase of the Op begins, and its compensation does not
\* begin either, however the steps under way come to their end.
AbortStopsPhases ==
  [][aborted /\ run # "compensating" => run' # "compensating" /\ at' = at]_vars

\* The Op always comes to an end, also when activities never answer and
\* however often they are to be retried.
Terminates == <>Ended
=============================================================================
