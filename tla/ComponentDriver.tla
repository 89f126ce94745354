--------------------------- MODULE ComponentDriver ---------------------------
(***************************************************************************)
(* chant run --components <name|all> on the local executor: selection and  *)
(* pre-flight (components/cli-support.ts), the interpret driver            *)
(* (components/driver.ts) and the recording of releases afterwards         *)
(* (cli/handlers/run.ts).                                                  *)
(*                                                                         *)
(* A composition is a forest of phases: a phase holds steps and phases,    *)
(* run one after the other or all together.  The components of a wave run  *)
(* concurrently in one process, so every await is a point where another    *)
(* component, or another branch of a parallel phase, may go on.            *)
(***************************************************************************)
EXTENDS Integers, Sequences, SequencesExt

CONSTANTS
  Component,    \* the discovered components
  Phase, Step,  \* the nodes of their compositions
  Body,         \* what each phase holds, in order
  Parallel,     \* the phases whose entries run together
  OnFailure,    \* the compensation phases each phase declares
  Deploy,       \* the deploy phases of each component
  Rollback,     \* its component-level rollback phases
  Gate,         \* the steps that wait for a signal
  Compensable,  \* the steps whose capability declares a rollback
  Publisher,    \* the steps that promote an artifact by digest
  Applier,      \* the steps that deploy a stack and return its outputs
  Hyphenated,   \* the components whose name has a hyphen
  Refers,       \* the references to outputs in each step's input
  DependsOns,   \* dependsOn declarations a project may have
  Seeds         \* sets of outputs --seed-outputs may provide

Node == Phase \cup Step

\* "@<component>.publish.<field>", and {stackOutput: {stack, name}}.
Reference == [form : {"artifact", "stack"}, of : Component]
Entries(ph) == ToSet(Body[ph])

ASSUME NodeType == Phase \cap Step = {} /\ Parallel \subseteq Phase
ASSUME BodyType == Body \in [Phase -> Seq(Node)] /\ OnFailure \in [Phase -> Seq(Phase)]
ASSUME PlanType == Deploy \in [Component -> Seq(Phase)] /\ Rollback \in [Component -> Seq(Phase)]
ASSUME StepType == /\ Gate \subseteq Step /\ Compensable \subseteq Step
                   /\ Publisher \subseteq Step /\ Applier \subseteq Step
                   /\ Refers \in [Step -> SUBSET Reference]
ASSUME GraphType == /\ Hyphenated \subseteq Component
                    /\ \A needs \in DependsOns : Component \subseteq DOMAIN needs
                    /\ Seeds \subseteq SUBSET Reference
\* Compositions are nested literals: phases hold one another to a finite depth, and
\* every phase and step has one place, as an entry of one phase or at the top.
ASSUME NestingType ==
  \A S \in SUBSET Phase : S # {} =>
    \E ph \in S : S \cap (Entries(ph) \cup ToSet(OnFailure[ph])) = {}
ASSUME PlaceType ==
  /\ \A ph \in Phase : /\ IsInjective(Body[ph])
                       /\ \A q \in Phase \ {ph} : Entries(ph) \cap Entries(q) = {}
  /\ \A c \in Component :
       /\ IsInjective(Deploy[c])
       /\ \A ph \in Phase : Entries(ph) \cap (ToSet(Deploy[c]) \cup ToSet(Rollback[c])) = {}
       /\ \A d \in Component \ {c} : ToSet(Deploy[c]) \cap ToSet(Deploy[d]) = {}
       /\ \A d \in Component : ToSet(Deploy[c]) \cap ToSet(Rollback[d]) = {}

VARIABLES
  run,        \* how far the command is
  target,     \* the components it was asked to run
  deps,       \* dependsOn of each, as this run sees it
  remaining,  \* components not yet placed in a wave
  waves,      \* the waves, in order
  wave,       \* the wave that is running
  stage,      \* how far each component is
  at,         \* the phase it is at, in its deploy or in its reversed rollback
  status,     \* how far each phase and step is
  exec,       \* what each node has executed, in composition order
  executed,   \* what each component has executed and not yet unwound
  unwound,    \* the records of its unwind
  outputs,    \* the references whose value is known
  resolved,   \* those of a step that were found when its input was resolved
  declined,   \* why the run records no release at all, if it does not
  recorded,   \* the components whose release is in the local ledger
  warned      \* those for which a warning says that recording it failed

plan == <<target, deps, remaining, waves>>
deploy == <<stage, at, status, exec, executed, unwound, outputs, resolved>>
releases == <<declined, recorded, warned>>
vars == <<run, plan, wave, deploy, releases>>

Init == /\ run = "idle"
        /\ target = {} /\ remaining = {}
        /\ deps = [c \in Component |-> {}]
        /\ waves = <<>> /\ wave = 0
        /\ stage = [c \in Component |-> "waiting"]
        /\ at = [c \in Component |-> 1]
        /\ status = [n \in Node |-> "waiting"]
        /\ exec = [n \in Node |-> <<>>]
        /\ executed = [c \in Component |-> <<>>]
        /\ unwound = [c \in Component |-> <<>>]
        /\ outputs = {}
        /\ resolved = [s \in Step |-> {}]
        /\ declined = "no" /\ recorded = {} /\ warned = {}

-----------------------------------------------------------------------------
(* Selection, pre-flight and the waves. *)

\* Everything a gate search visits below a node.
Below[n \in Node] ==
  IF n \in Step THEN {n}
  ELSE UNION {Below[m] : m \in Entries(n) \cup ToSet(OnFailure[n])}

\* Mutant: the search looks at the entries of the phases only.
GatedAtTop(c) ==
  \E ph \in ToSet(Deploy[c]) \cup ToSet(Rollback[c]) : Entries(ph) \cap Gate # {}

Gated(c) == \E ph \in ToSet(Deploy[c]) \cup ToSet(Rollback[c]) : Below[ph] \cap Gate # {}

\* Everything: the components the parameters disable sit out, and count as
\* satisfied for those that depend on them.
SelectAll(off, needs) ==
  /\ target' = Component \ off
  /\ deps' = [c \in Component |-> needs[c] \ off]
  /\ remaining' = target'
  /\ UNCHANGED waves
  /\ run' = IF \E c \in target' : Gated(c) THEN "gated"
            ELSE IF \E c \in target' : ~(deps'[c] \subseteq target') THEN "unknown"
            ELSE "layering"

\* One component: its dependencies are taken to have run in an earlier job.
SelectOne(c, off) ==
  /\ target' = IF c \in off THEN {} ELSE {c}
  /\ waves' = IF c \in off THEN <<>> ELSE <<{c}>>
  /\ UNCHANGED <<deps, remaining>>
  /\ run' = IF c \in off THEN "disabled" ELSE IF Gated(c) THEN "gated" ELSE "running"

Select ==
  /\ run = "idle"
  /\ \E off \in SUBSET Component, seed \in Seeds, needs \in DependsOns :
       /\ outputs' = seed
       /\ SelectAll(off, needs) \/ \E c \in Component : SelectOne(c, off)
  /\ UNCHANGED <<wave, stage, at, status, exec, executed, unwound, resolved, releases>>

\* Mutant: a component is placed when one of its dependencies is.
PlaceableEarly(c) == deps[c] = {} \/ \E d \in deps[c] : d \notin remaining

\* Every dependency has been placed in an earlier wave.
Placeable(c) == deps[c] \cap remaining = {}

\* Mutant: no guard against a wave that stays empty.
LayerForever ==
  LET next == {c \in remaining : Placeable(c)} IN
  /\ run = "layering"
  /\ IF remaining = {} THEN run' = "running" /\ UNCHANGED <<waves, remaining>>
     ELSE /\ waves' = IF next = {} THEN waves ELSE Append(waves, next)
          /\ remaining' = remaining \ next
          /\ UNCHANGED run
  /\ UNCHANGED <<target, deps, wave, deploy, releases>>

\* One wave: what depends on nothing that is still to be placed.
Layer ==
  LET next == {c \in remaining : Placeable(c)} IN
  /\ run = "layering"
  /\ IF remaining = {} THEN run' = "running" /\ UNCHANGED <<waves, remaining>>
     ELSE IF next = {} THEN run' = "cyclic" /\ UNCHANGED <<waves, remaining>>
     ELSE /\ waves' = Append(waves, next)
          /\ remaining' = remaining \ next
          /\ UNCHANGED run
  /\ UNCHANGED <<target, deps, wave, deploy, releases>>

\* Mutant: the next wave starts whatever became of the last one.
WaveEndedAnyhow == wave > 0 => \A c \in waves[wave] : stage[c] \in {"ok", "failed"}

\* The whole wave is awaited, and must have succeeded.
WaveSucceeded == wave > 0 => \A c \in waves[wave] : stage[c] = "ok"

NextWave ==
  /\ run = "running"
  /\ wave < Len(waves)
  /\ WaveSucceeded
  /\ wave' = wave + 1
  /\ stage' = [c \in Component |-> IF c \in waves[wave'] THEN "deploying" ELSE stage[c]]
  /\ UNCHANGED <<run, plan, at, status, exec, executed, unwound, outputs, resolved, releases>>

-----------------------------------------------------------------------------
(* One component. *)

Running(c) == stage[c] \in {"deploying", "compensating"}

\* Its deploy phases, or its rollback phases from the last to the first.
Plan(c) == IF stage[c] = "deploying" THEN Deploy[c] ELSE Reverse(Rollback[c])
Current(c) == Plan(c)[at[c]]

\* An entry of a running phase is reached at once when the phase is parallel,
\* otherwise when the entries before it succeeded.
Reached(n) ==
  \/ \E c \in Component : Running(c) /\ at[c] <= Len(Plan(c)) /\ n = Current(c)
  \/ \E ph \in Phase : \E i \in DOMAIN Body[ph] :
       /\ status[ph] = "running"
       /\ Body[ph][i] = n
       /\ ph \in Parallel \/ \A j \in 1..(i - 1) : status[Body[ph][j]] = "ok"

StartPhase(ph) ==
  /\ status[ph] = "waiting"
  /\ Reached(ph)
  /\ status' = [status EXCEPT ![ph] = "running"]
  /\ UNCHANGED <<run, plan, wave, stage, at, exec, executed, unwound, outputs, resolved, releases>>

\* A component named without a hyphen is taken for a phase of the step's own component,
\* since "@<phase>.<field>" is tried first: what is found under that name is undefined.
LookedUp(r) == r.form = "stack" \/ r.of \in Hyphenated

\* A reference to an output that is not there resolves to undefined.
StartStep(s) ==
  /\ status[s] = "waiting"
  /\ Reached(s)
  /\ status' = [status EXCEPT ![s] = "running"]
  /\ resolved' = [resolved EXCEPT ![s] = {r \in Refers[s] \cap outputs : LookedUp(r)}]
  /\ UNCHANGED <<run, plan, wave, stage, at, exec, executed, unwound, outputs, releases>>

\* Its capability returns, or throws.
FinishStep(s) ==
  /\ status[s] = "running"
  /\ \/ /\ status' = [status EXCEPT ![s] = "ok"]
        /\ exec' = [exec EXCEPT ![s] = <<s>>]
     \/ /\ status' = [status EXCEPT ![s] = "fail"]
        /\ UNCHANGED exec
  /\ UNCHANGED <<run, plan, wave, stage, at, executed, unwound, outputs, resolved, releases>>

Failed(ph) == \E n \in Entries(ph) : status[n] = "fail"

\* Mutant: a parallel phase ends with its first failure.
SettledEarly(ph) == Failed(ph) \/ \A n \in Entries(ph) : status[n] = "ok"

\* A parallel phase waits for all its entries, a sequential one stops at a failure.
Settled(ph) == \/ \A n \in Entries(ph) : status[n] \in {"ok", "fail"}
               \/ ph \notin Parallel /\ Failed(ph)

\* Mutants: the executed steps collected last to first; those of a phase that
\* fails left out.
CollectedBackwards(ph) == FlattenSeq([i \in DOMAIN Body[ph] |-> exec[Reverse(Body[ph])[i]]])
CollectedUnlessFailed(ph) ==
  IF Failed(ph) THEN <<>> ELSE FlattenSeq([i \in DOMAIN Body[ph] |-> exec[Body[ph][i]]])

\* What a phase hands to its caller, in the order of its entries.
Collected(ph) == FlattenSeq([i \in DOMAIN Body[ph] |-> exec[Body[ph][i]]])

SettlePhase(ph) ==
  /\ status[ph] = "running"
  /\ Settled(ph)
  /\ status' = [n \in Node |->
        IF n = ph THEN IF Failed(ph) THEN "fail" ELSE "ok"
        ELSE IF n \in Entries(ph) /\ status[n] = "waiting" THEN "skipped"
        ELSE status[n]]
  /\ exec' = [exec EXCEPT ![ph] = Collected(ph)]
  /\ UNCHANGED <<run, plan, wave, stage, at, executed, unwound, outputs, resolved, releases>>

\* The next deploy phase, or the unwind of all that was executed.
AfterDeployPhase(c) ==
  /\ stage[c] = "deploying"
  /\ at[c] <= Len(Plan(c))
  /\ status[Current(c)] \in {"ok", "fail"}
  /\ executed' = [executed EXCEPT ![c] = @ \o exec[Current(c)]]
  /\ IF status[Current(c)] = "ok"
     THEN at' = [at EXCEPT ![c] = @ + 1] /\ UNCHANGED stage
     ELSE at' = [at EXCEPT ![c] = 1] /\ stage' = [stage EXCEPT ![c] = "unwinding"]
  /\ UNCHANGED <<run, plan, wave, status, exec, unwound, outputs, resolved, releases>>

\* Mutant: what rollback phases execute is collected for the unwind as well.
AfterRollbackPhaseCollecting(c) ==
  /\ stage[c] = "compensating"
  /\ at[c] <= Len(Plan(c))
  /\ status[Current(c)] \in {"ok", "fail"}
  /\ at' = [at EXCEPT ![c] = @ + 1]
  /\ executed' = [executed EXCEPT ![c] = @ \o exec[Current(c)]]
  /\ UNCHANGED <<run, plan, wave, stage, status, exec, unwound, outputs, resolved, releases>>

\* A rollback phase that fails does not stop the ones after it.
AfterRollbackPhase(c) ==
  /\ stage[c] = "compensating"
  /\ at[c] <= Len(Plan(c))
  /\ status[Current(c)] \in {"ok", "fail"}
  /\ at' = [at EXCEPT ![c] = @ + 1]
  /\ UNCHANGED <<run, plan, wave, stage, status, exec, executed, unwound, outputs, resolved,
                 releases>>

\* The steps of a component, whether one promotes an artifact, and what it provides.
StepsBelow[n \in Node] == IF n \in Step THEN {n} ELSE UNION {StepsBelow[m] : m \in Entries(n)}
StepsOf == [c \in Component |-> UNION {StepsBelow[ph] : ph \in ToSet(Deploy[c])}]
Publishes(c) == StepsOf[c] \cap Publisher # {}
Provided(r) ==
  IF r.form = "artifact" THEN Publishes(r.of) ELSE StepsOf[r.of] \cap Applier # {}

DeployDone(c) ==
  /\ stage[c] = "deploying"
  /\ at[c] > Len(Plan(c))
  /\ stage' = [stage EXCEPT ![c] = "ok"]
  /\ outputs' = outputs \cup {r \in Reference : r.of = c /\ Provided(r)}
  /\ UNCHANGED <<run, plan, wave, at, status, exec, executed, unwound, resolved, releases>>

\* The last step executed is unwound first.
UnwindNext(c) == Last(executed[c])

\* Its capability's rollback returns or throws; one that declares none is
\* recorded as opted out.  The unwind goes on in any case.
Unwind(c) ==
  /\ stage[c] = "unwinding"
  /\ executed[c] # <<>>
  /\ \E result \in IF UnwindNext(c) \in Compensable THEN {"rolledBack", "fail"}
                   ELSE {"optedOut"} :
       unwound' = [unwound EXCEPT ![c] = Append(@, [step |-> UnwindNext(c), result |-> result])]
  /\ executed' = [executed EXCEPT ![c] = Front(@)]
  /\ UNCHANGED <<run, plan, wave, stage, at, status, exec, outputs, resolved, releases>>

UnwindDone(c) ==
  /\ stage[c] = "unwinding"
  /\ executed[c] = <<>>
  /\ stage' = [stage EXCEPT ![c] = "compensating"]
  /\ UNCHANGED <<run, plan, wave, at, status, exec, executed, unwound, outputs, resolved, releases>>

RollbackDone(c) ==
  /\ stage[c] = "compensating"
  /\ at[c] > Len(Plan(c))
  /\ stage' = [stage EXCEPT ![c] = "failed"]
  /\ UNCHANGED <<run, plan, wave, at, status, exec, executed, unwound, outputs, resolved, releases>>

-----------------------------------------------------------------------------
(* The end of the run. *)

WaveOver == wave > 0 /\ \A c \in waves[wave] : stage[c] \in {"ok", "failed"}

RunFails == /\ run = "running"
            /\ WaveOver
            /\ \E c \in waves[wave] : stage[c] = "failed"
            /\ run' = "failed"
            /\ UNCHANGED <<plan, wave, deploy, releases>>

\* --no-release-record (or release.autoRecord: false) and an environment that names
\* no actor hold for every component of the run, and neither is reported.
Declines == {"no", "opted-out", "no-actor"}

RunSucceeds == /\ run = "running"
               /\ wave = Len(waves)
               /\ WaveSucceeded
               /\ run' = "recording"
               /\ declined' \in Declines
               /\ UNCHANGED <<plan, wave, deploy, recorded, warned>>

\* Mutant: a release for every component that could have published.
ToRecordAll ==
  {c \in Component : declined = "no" /\ Publishes(c)} \ (recorded \cup warned)

\* The components of the run that promoted an artifact.
ToRecord ==
  {c \in target : declined = "no" /\ stage[c] = "ok" /\ Publishes(c)}
    \ (recorded \cup warned)

\* One component after the other: read HEAD, append a record and push it (the release
\* command of LifecycleBranch).  Whatever throws on the way is only warned about: before
\* the record is committed, or after, when the push is turned away as stale.
RecordRelease(c) ==
  /\ run = "recording"
  /\ c \in ToRecord
  /\ \/ recorded' = recorded \cup {c} /\ warned' \in {warned, warned \cup {c}}
     \/ warned' = warned \cup {c} /\ UNCHANGED recorded
  /\ UNCHANGED <<run, plan, wave, deploy, declined>>

RecordingDone == /\ run = "recording"
                 /\ ToRecord = {}
                 /\ run' = "ok"
                 /\ UNCHANGED <<plan, wave, deploy, releases>>

Ended == run \in {"ok", "failed", "gated", "disabled", "unknown", "cyclic"}

\* The command has exited.
Exited == Ended /\ UNCHANGED vars

ComponentStep(c) == \/ AfterDeployPhase(c) \/ AfterRollbackPhase(c) \/ DeployDone(c)
                    \/ Unwind(c) \/ UnwindDone(c) \/ RollbackDone(c) \/ RecordRelease(c)

Work == \/ Select \/ Layer \/ NextWave
        \/ \E c \in Component : ComponentStep(c)
        \/ \E ph \in Phase : StartPhase(ph) \/ SettlePhase(ph)
        \/ \E s \in Step : StartStep(s) \/ FinishStep(s)
        \/ RunFails \/ RunSucceeds \/ RecordingDone

Next == Work \/ Exited

Spec == Init /\ [][Next]_vars

\* The event loop runs whatever is ready, and every capability settles.
FairSpec == Spec /\ WF_vars(Work)
-----------------------------------------------------------------------------
(* Properties. *)

Stage == {"waiting", "deploying", "unwinding", "compensating", "ok", "failed"}
NodeStatus == {"waiting", "running", "ok", "fail", "skipped"}
UnwindRecord == [step : Step, result : {"rolledBack", "fail", "optedOut"}]

\* Every variable has its type; what a component has executed are steps of its
\* own deploy composition.
TypeOK ==
  /\ Ended \/ run \in {"idle", "layering", "running", "recording"}
  /\ target \subseteq Component /\ remaining \subseteq target
  /\ waves \in Seq(SUBSET Component) /\ wave \in 0..Len(waves)
  /\ stage \in [Component -> Stage]
  /\ at \in [Component -> Nat \ {0}]
  /\ status \in [Node -> NodeStatus]
  /\ exec \in [Node -> Seq(Step)]
  /\ \A c \in Component : executed[c] \in Seq(StepsOf[c])
  /\ unwound \in [Component -> Seq(UnwindRecord)]
  /\ outputs \subseteq Reference
  /\ resolved \in [Step -> SUBSET Reference]
  /\ declined \in Declines
  /\ recorded \subseteq Component /\ warned \subseteq Component

\* A component that gave up and unwound has accounted, exactly once, for every
\* step of its deploy that returned: also for those of the parallel siblings
\* of the step that failed, and for those of earlier phases (rollbackExecuted).
UnwindAccountsForAll ==
  \A c \in Component : stage[c] \in {"compensating", "failed"} =>
    /\ {unwound[c][i].step : i \in DOMAIN unwound[c]} = {s \in StepsOf[c] : status[s] = "ok"}
    /\ IsInjective([i \in DOMAIN unwound[c] |-> unwound[c][i].step])

GivenUp(c) == stage[c] \in {"unwinding", "compensating", "failed"}

\* From the moment a component starts to unwind, no step of its deploy starts,
\* returns or throws any more: nothing is created behind the unwind's back.
UnwindFreezesDeploy ==
  [][\A c \in Component : GivenUp(c) => \A s \in StepsOf[c] : status'[s] = status[s]]_vars

\* A component starts when the components it depends on have all succeeded,
\* whatever ran beside them (the waves of resolveComponentGraph).
DependenciesFirst ==
  \A c \in Component : stage[c] # "waiting" => \A d \in deps[c] : stage[d] = "ok"

\* A failure stops the run: no component starts once another has failed or is
\* being unwound (the wave loop of runInterpretDriver).
NoStartAfterFailure ==
  [][\A c, d \in Component : stage[c] = "waiting" /\ GivenUp(d) => stage'[c] = "waiting"]_vars

Published(c) == Publishes(c) /\ stage[c] = "ok"

\* Every step that has begun found those of its references, of the ones given, that
\* are to what a component its own one depends on provides.
Found(references) ==
  \A c \in Component : \A s \in StepsOf[c] :
    status[s] \in {"running", "ok", "fail"} =>
      {r \in Refers[s] \cap references : r.of \in deps[c] /\ Provided(r)} \subseteq resolved[s]

\* A stack output, or an artifact of a component with a hyphen in its name, that comes
\* from a component its own depends on is never undefined to a step, even though
\* concurrent components write the outputs while steps resolve them.  An artifact of a
\* component without a hyphen is undefined to every step (driver.ts:264).
WiringResolved == Found({r \in Reference : LookedUp(r)})

\* Releases are recorded for deploys that took place: never for a component that sat
\* out, in a run that failed or before the last wave has succeeded.  A run that ends
\* well lacks the release of a deploy only when recording was opted out of or no actor
\* is known; otherwise it has said so.
ReleasesMatch ==
  /\ recorded \cup warned # {} =>
       /\ run \in {"recording", "ok"} /\ declined = "no"
       /\ \A c \in target : stage[c] = "ok"
  /\ \A c \in recorded \cup warned : Published(c)
  /\ run = "ok" /\ declined = "no" => {c \in Component : Published(c)} \subseteq recorded \cup warned

\* A composition with a gate is turned away before anything is done: no gate is
\* ever reached, wherever it is nested, with steps done that would have to wait
\* beside it (findComponentGate).
GatesTurnedAway ==
  /\ \A s \in Gate : status[s] = "waiting"
  /\ run = "gated" => \A n \in Node : status[n] = "waiting"

\* The command always comes to an end: on a dependency cycle, with failing
\* steps, failing rollbacks and failing rollback phases.  Each capability is
\* taken to settle; the driver itself has no timeout.
Terminates == <>Ended

\* <<r, s>>: the composition runs r to its end before s, which is in a later
\* phase or later in a sequential one.
InOrder(nodes) == UNION {StepsBelow[nodes[ij[1]]] \X StepsBelow[nodes[ij[2]]] :
                    ij \in {p \in (DOMAIN nodes) \X (DOMAIN nodes) : p[1] < p[2]}}
Precedes == (UNION {InOrder(Deploy[c]) : c \in Component})
              \cup (UNION {InOrder(Body[ph]) : ph \in Phase \ Parallel})

\* The stage of the saga, and the steps that returned and are not unwound.
SagaStage(c) == CASE stage[c] = "waiting" -> "none"
                  [] stage[c] = "deploying" -> "going"
                  [] stage[c] = "ok" -> "done"
                  [] stage[c] = "unwinding" -> "undoing"
                  [] stage[c] \in {"compensating", "failed"} -> "undone"
Did(c) == {s \in StepsOf[c] : status[s] = "ok"}
            \ {unwound[c][i].step : i \in DOMAIN unwound[c]}

Saga == INSTANCE ComponentSaga WITH saga <- [c \in Component |-> SagaStage(c)],
                                    did <- [c \in Component |-> Did(c)]

\* The driver implements the saga: all steps of a deploy are done in an order
\* the composition allows, or the deploy is given up and each of those done is
\* dealt with before the ones it built upon.
ImplementsSaga == Saga!SagaSpec
=============================================================================
