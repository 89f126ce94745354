# A verification of chant's stateful core

chant compiles TypeScript declarations to the documents of many providers, and
runs what it has compiled: it deploys components, executes operations ("Ops"),
and keeps what it observed and released on an orphan git branch,
`chant/lifecycle`. The compiler is a pure function. The part that is hard to
test is the rest: several processes that share a branch without a lock, an
executor that unwinds half-finished deploys, another that races activities
against timers and Ctrl-C, generated workflows that survive their workers,
reconcilers and appliers that act on listings others are changing, plans read
from a cloud that moves. That part is modelled here in TLA+, checked with TLC
on small instances and, where it matters most, proved with TLAPS for all of them.

All paths below are relative to `src/packages/core/src/` unless they start with
`src/`. `PROJECT.json` maps every definition to its lines.

## 1. Inventory

### Components with state and concurrency

**The lifecycle branch** (`lifecycle/git.ts`).
State: the commit objects, `refs/heads/chant/lifecycle` and the remote-tracking
ref of each checkout, the branch on the remote. Operations: write one file
(`writeBlobToPath`: `hash-object`, `ls-tree` of the root and of each directory,
`mktree`, `rev-parse`, `commit-tree`, `update-ref`, each a subprocess that is
awaited), add a record to a file of records (`appendReleaseRecordLine`), push
with a lease, fetch. Hard: there is no lock, `update-ref` states no expected
value, the tree and the parent are read at different moments, the lease is read
when the push starts, failures of subprocesses are read as "nothing there".
Correct when a write disturbs nothing else, records are never lost, a push never
overwrites what its author has not seen, and an accepted push means the data are
on the remote.

**Its writers** (`lifecycle/release-ledger.ts`, `lifecycle/snapshot.ts`,
`lifecycle/observation-baseline.ts`, `components/manifest-persistence.ts`,
`cli/handlers/components.ts`, `cli/handlers/lifecycle.ts`). Each is a script over
the branch: fetch or not, which files, one push at the end.

**The component driver** (`components/driver.ts`), entered from
`cli/handlers/run.ts` through `components/cli-support.ts`. State, all in memory:
which components are placed in which wave, how far each phase and step is, what
was executed, the outputs published so far. Operations: layer the `dependsOn`
graph, run a wave concurrently, run phases with nested and parallel entries,
unwind on failure, run the rollback phases. Afterwards `run.ts` records the
releases. Hard: parallel siblings of a step that fails, what must be unwound and
in which order, and outputs written by one component while another resolves them.
Correct when the deploy is a saga.

**The local Op executor** (`op/local-executor.ts`), entered from `runOpLocal` in
`cli/handlers/run.ts`. State: phase, step and attempt counters in memory,
AbortControllers, and attempts that go on running in the world. Hard: timeout
against late answer, retries beside zombies, Ctrl-C at any moment, compensation.
Correct when the budget of retries holds, nothing is waited for once compensation
begins, attempts left behind have been told, and the Op ends.

**Runs through Temporal** (`cli/handlers/run.ts`, the workflows generated by
`src/lexicons/temporal/src/component-op/serializer.ts` and
`src/lexicons/temporal/src/op/serializer.ts`). State: the workflow's history on
the server, the activities queued or running, the worker process a command
spawns, signals sent to gates. Operations: spawn a worker, start the workflow,
poll, signal, cancel; retry an activity, unwind or compensate. Hard: branches of a
`Promise.all` go on when one of them has thrown, workers die in the middle of an
attempt, a command dies and leaves its worker. Correct when it is the same saga as
the local driver, and nothing is left behind.

**The Fly applier** (`src/lexicons/fly/src/op/activities/fly-apply.ts`). State: none
of its own; the app, its resources and the leases on its machines live on the
server. Operations: apply a plan kind by kind, prune, delete, each mutation of a
machine under a lease, and wait for what was started. Hard: appliers overlap, are
killed, lose answers, act on listings that are old, lease twice. Correct when a run
reaches its plan from anything, gives back its leases and spares what is not its own.

**The reconcile loop** (`reconcile.ts`). State within a run: the budget of
requests, what was skipped, failed, blocked; across runs only the provider's.
Operations: fetch, diff, resolve renames, ask the removal cap, apply entry by
entry. Hard: the budget may end anywhere, requests fail, others edit. Correct when
"completed" means converged and repeated runs get there.

**Plan and live diff** (`cli/handlers/lifecycle.ts`, `observation.ts`,
`lifecycle/live-diff.ts`, `lifecycle/change-set.ts`, `lifecycle/snapshot.ts`). State:
the last snapshot. Operations: observe stack by stack, merge, compare, classify.
Hard: a read takes time and is partial, and absence looks like failure. Correct
when nothing is proposed on the strength of what was not seen; an owner chain is the
place where the code does not keep to that.

**Watch mode and sandboxed discovery** (`cli/watch.ts`, `cli/commands/build.ts`,
`discovery/index.ts`, `discovery/sandbox/fork.ts`). State: pending files and the
debounce timer, builds under way, modules the process has imported, children.
Hard: builds overlap, a child's answer races its timeout and its exit. Correct when
the output follows the source and no child outlives its build.

**Others with state**, not modelled: lifecycle rollback (`lifecycle/rollback.ts`)
and the emulator lifecycle (`op/emulator-lifecycle.ts`).

### Pure components

Affected and replay, discovery's graph and cycle detection and
`codegen/topo-sort.ts` are algorithms over one project. The fold evaluator, build
and serialization, lint and audit, import and migration, the language servers and
the lexicons are transformations of syntax and documents, whose properties are
about formats; they are out of scope.

### Interactions

`run.ts` hands the driver a selection; each component of a wave runs in the same
process and event loop; the driver's outputs are shared by reference. When the
run has succeeded `run.ts` adds one record per published component to the
release ledger, that is, it becomes one of the processes of the lifecycle branch.
Snapshots, `lifecycle diff --update-baseline`, build manifests and
`components release` are others, in the same checkout or in CI runners. A
component or an Op runs either on the local executors or as a workflow generated
from the same declaration. The Fly applier is an activity of an Op, so two attempts
of one step may overlap. A plan reads the snapshots that other commands put on the
lifecycle branch.

## 2. Modules

| Module | Models | Role |
|---|---|---|
| `LifecycleStore` | what the branch promises | abstract specification |
| `LifecycleBranch` | `lifecycle/git.ts` and its writers | detailed, refines `LifecycleStore` |
| `MCLifecycleBranch` | two or three processes in two checkouts, up to three files | instances |
| `LifecycleBranchProofs` | | proofs, the refinement of `LifecycleStore` among them |
| `ComponentSaga` | what a component deploy promises | abstract specification |
| `ComponentDriver` | `components/driver.ts`, parts of `cli-support.ts`, `run.ts`, `auto-release.ts` | detailed, refines `ComponentSaga` |
| `MCComponentDriver` | three components, four graphs | instances |
| `ComponentDriverProofs` | | proofs |
| `OpExecutor` | `op/local-executor.ts`, `runOpLocal` | detailed |
| `MCOpExecutor` | an Op of three phases and two compensation phases | instances |
| `OpExecutorProofs` | | proofs |
| `DurableWorkflow` | the generated workflows, `runComponentTemporal`, `runOpTemporal`, `runOpSignal`, `runOpCancel` | detailed, refines `ComponentSaga` |
| `MCDurableWorkflow` | two components and one Op, one command and a worker started by hand | instances |
| `DurableWorkflowProofs` | | proofs |
| `FlyApply` | `fly-apply.ts` and the Machines API as it is used | detailed |
| `MCFlyApply` | two revisions of one stack, two appliers | instances |
| `FlyApplyProofs` | | proofs |
| `Reconcile` | `reconcile.ts` and a provider | detailed |
| `MCReconcile` | three configurations of two collections of three keys | instances |
| `ReconcileProofs` | | proofs |
| `LivePlan` | `lifecycle plan`, `lifecycle diff --live`, `takeSnapshot` | detailed |
| `MCLivePlan` | two stacks, a runtime child, a dependency | instances |
| `LivePlanProofs` | | proofs |
| `WatchBuild` | `build --watch` and the fork of a sandboxed child | detailed |
| `MCWatchBuild` | two files, two edits | instances |
| `WatchBuildProofs` | | proofs |

### LifecycleBranch

A file is the sequence of the tokens of the writes it consists of: one for a snapshot or
a manifest, which are replaced, one per record for a ledger, which is added to, one per
acceptance for a baseline, where an acceptance takes the place of an earlier one of the
same entity and path or is added (`Accepted`). A commit is a record of its parent, its
history, its tree, and the file it was made for. Refs are commit numbers, 0 for none.

| Action | Code |
|---|---|
| `Begin` | a command starts: what it fetches and writes is the command's record |
| `FetchAnswered`, `FetchFails` | `fetchLifecycle`; the refspec has no `+`, so git moves the branch only forward, but moves the remote-tracking ref in any case |
| `Compose` | `git show` of the old file and `hash-object`; a `git show` that fails reads as no file |
| `ListRoot`, `ListDir` | `readTree`: root, then each directory through the branch name again |
| `CommitTree` | `mktree`, `rev-parse` for the parent, `commit-tree` |
| `UpdateRef` | `update-ref`, then the next file or the push |
| `ReadLease`, `PushNowhere`, `PushAccepted`, `PushRejected`, `PushUnanswered` | `pushLifecycle` |
| `Stop` | a step throws, or the process is killed |
| `Checkout` | the environment replaces a checkout, with or without a remote-tracking ref |

Granularity: an action ends where another process can see or change a ref.
`mktree` and `commit-tree` depend on nothing that can change, so they are one
action with the `rev-parse` between them. A commit object nobody refers to has
no effect, which is why a crash between `commit-tree` and `update-ref` is `Stop`.
`Fallible` names the reads that may fail, which the code takes for nothing there:
`git show` of the old file, the listings of the root and of a directory, `rev-parse` of
the parent (the commit is then a root), of the lease, and `git remote`.
git itself is modelled from how `git.ts` uses it: a lease holds when the remote
ref is the expected one or already the one pushed, and a push that is accepted
moves the remote-tracking ref.

### ComponentDriver

A composition is a forest of phases. `status` has an entry for every phase and
step, `exec` what each has executed in composition order, `executed` the
component's list which the unwind consumes from the end, `unwound` the records
it leaves.

| Action | Code |
|---|---|
| `Select` | `resolveComponentTargets` and the checks of `runComponents`; for one component and for all, with some disabled and some outputs seeded |
| `Layer` | one wave of `resolveComponentGraph`, or its cycle error |
| `NextWave` | the wave loop of `runInterpretDriver` |
| `StartPhase`, `StartStep`, `FinishStep`, `SettlePhase` | `runPhase` and `runCapabilityStep`; `FinishStep` is the capability returning or throwing |
| `AfterDeployPhase`, `DeployDone` | the deploy loop and the publishing of outputs in `runComponentDeploy` |
| `Unwind`, `UnwindDone` | one step of `rollbackExecuted` and its end |
| `AfterRollbackPhase`, `RollbackDone` | the rollback phases, in reverse |
| `RunFails`, `RunSucceeds`, `RecordRelease`, `RecordingDone` | the end of `runInterpretDriver` and `recordAutoReleasesForRun` |

The entries of a parallel phase start one at a time, and continuations run in any order,
so the model has every order of the event loop and some more; what holds in it holds in
the code. Releases are recorded in any order, the code takes the order of the results,
which is that of the waves. `recorded` means committed to the ledger, `warned` that
something threw: before the commit (no `HEAD`, a record that is refused), or after it,
when the push is stale. `declined` is why a run records nothing and does not say so: it
was opted out of, or no actor is known. A step that refers to the output of a component
records which of these the driver resolved; one that is missing resolves to undefined,
as in the code. A reference to an artifact names a component, one to a stack output does
so as well; the first is looked up among the outputs of components only when the
component has a hyphen in its name (`LookedUp`), or else among the phases of the step's
own component, where nothing of that name is. `resolveStepInput` stands outside the
`try` (`components/driver.ts:343`); nothing the model passes to it makes it throw. The
build manifest that `run.ts` persists after the releases is a command of
`LifecycleBranch`. Library callers that skip the gate search, and would meet a gate in
mid-run, are not modelled. Two assumptions say that compositions are trees, as nested
literals are: phases hold one another to a finite depth (`NestingType`), and a phase or
step has one place, as an entry of one phase or in one component's deploy (`PlaceType`).

### OpExecutor

A step is waiting, attempting, sleeping between attempts, ok, failed or skipped;
`live` holds the attempts that run in the world, `signalled` those whose
AbortSignal has fired. `Answer` is the awaited attempt returning or throwing (an
error that its profile lets retry or does not), `Timeout` the timer winning the
race, `EndUnawaited` an attempt ending that nobody waits for. A Ctrl-C is handled
between two turns of the event loop (`BetweenTurns`): the executor has done all
it can do at once. Durations are abstracted: any timer may fire at any moment.

### DurableWorkflow

`act` is what the server knows of each activity, `host` the worker its attempt runs
on, `executed` the list the generated code keeps, `todo` what it is rolling back.
Workflow code runs from one await to the next, so whatever it does about one event
(schedule what is reached, catch, begin to unwind) is part of the action of that
event. An Op's workflow and a component's are the same machine with another way to
go backwards: compensation phases, or the unwind and the rollback phases. Some
profiles of an Op's activities name errors that are not retried, so an attempt of an
Op may be its last before the tries are used up (`MayEnd`). The saga it
implements is that of a component: its steps, the stage its code is in (`Stage`), and
what the code has noted and not yet rolled back. The answer to the last activity may
complete the workflow in the same step. A workflow that fails without a rollback phase
to go through stays "undoing" in the saga's eyes: there is no further event.

| Action | Code |
|---|---|
| `Pick`, `Succeed`, `Fail` | an activity on a worker, and the retry policy `serializer.ts` gives it; an activity the worker does not register fails |
| `Settle` | the server gives up an attempt whose worker is gone |
| `Signal`, `PassGate` | `runOpSignal` and the condition of the generated gate, which goes on at its timeout too |
| `Cancel` | `runOpCancel`; the generated code has no scope that would compensate |
| `Spawn`, `Start`, `StartRefused`, `PollClosed`, `PollFails` | `runComponentTemporal` and `runOpTemporal` |
| `Killed`, `WorkerDies`, `WorkerStarted` | external: a command or a worker dies, one is started by hand |

### FlyApply

Resources have an identity the server never reuses, a kind, a name, a
configuration, the marker, a state and a version. Each HTTP request is an action, so
a listing is old by the time its result is used. `alone` remembers whether anybody
else has done something since a run began.

| Action | Code |
|---|---|
| `Begin`, `GetApp`, `CreateApp` | `flyApply` up to the first entry, `applyApp` |
| `Inspect`, `Create`, `CreateRefused`, `SetSecret`, `Applied` | one entry of the plan, in the order of kinds |
| `Acquire`, `AcquireRefused`, `Mutate`, `LeaseLost`, `Release`, `ReleaseLost` | `withLease` with `acquireLease` and `releaseLease` |
| `Waited`, `WaitFails` | `waitForMachine` |
| `ListToPrune`, `Prune` | the four prune functions |
| `FindDoomed`, `DeleteApp` | `flyDelete` |
| `Throws`, `Killed` | any request fails; the process dies, its lease with nobody to release it |
| `MachineStarts`, `MachineReaped`, `LeaseExpires`, `CreatedOutside` | the Machines API and other users |

### Reconcile

A run visits its turns (a cycle in a scope); `left` holds the entries of the turn it
applies, `half` a create whose first request is done. `Skip`, `FetchFails` and `Fetch`
are the beginning of a turn in `runReconcile`, with its diff, renames, guardrail and dry
run; `Aborts` is an exception of the diff or the guardrails, which ends the run without
a result; `SkipEntry`, `CreateRequest`, `LastRequest` and `EntryFails` its loop over
entries; `Leave` the end of a turn and of the run. `fetchLive` and `apply` of a cycle
are given to `runReconcile` by the caller, and so external: a fetch is some requests, a
create two, the second of which fills in what the first has made. Deletes come after
creates and updates, in the order of the code.

### LivePlan

One command reads while source, cloud and snapshot change. `Look` is one stack's
`describeResources` coming to one name: it is there, it is not, or it could not be
read (then it is in `holes`). `ReadThrows` is the exception that takes all that was
read with it. `Missing`, `RuntimeChildren`, `Orphan`, `Disappeared`, `Drifted` and
`Action` are the classifications of `diffLive` and `buildChangeSet`, operators over
what has been read. A resource is read with the verdict on its owner chain
(`Follow`): it reaches a declared entity if the one that owns it has been read before
by the same stack, it is unknown if a hop of it cannot be read, and it is neither
otherwise. Only the first makes a runtime child (`RuntimeChildren`); the others are
orphans. `absent` and `marked` are history variables of the properties. A snapshot is
one step, partial in every way the code allows.

### WatchBuild

A file's content is the number of the edit that made it. `Notice` and `Fire` are
the watcher's callback and its debounce timer, which may fire at any moment; `Read`
one file of one build, folded or executed, where an executed file of the process
comes from the module cache; `Fork`, `Answers`, `SendFails`, `Dies`, `Handle` and
`TimesOut` the child, whose events wait in `inbox` until the parent handles them;
`BuildWithoutChild` and `BuildWithChild` the end of a build and its output. The one
child of a build stands for the child of its executed files and that of its policies.
In a project with an Op (`op`) a good build also writes the workflow, the worker and the
activities under `dist/ops`, in the directory that is watched, which raises a notice
(`Generates`). What the policies' child rejects is caught around every build but the
first, which it ends together with the process (`FirstBuildThrows`).

## 3. What is checked

Each passing run explores its instance completely.

| Run | Properties | What it shows |
|---|---|---|
| `lifecycle_two_clones` | `LedgerGrows`, `WritePreservesOthers`, `LocalFastForward`, `NoBlindOverwrite`, `PushedMeansOnRemote`, `ImplementsStore` | one command at a time per checkout, one of which is replaced: the branch is an indivisible store, nothing recorded is lost along a history, what is reported pushed is on the remote |
| `lifecycle_shared_clone` | `NoCrossWiring`, `OwnLedgerGrows` | what is left when commands share a checkout and when any read of git fails |
| `driver` | `UnwindAccountsForAll`, `UnwindFreezesDeploy`, `DependenciesFirst`, `NoStartAfterFailure`, `WiringResolved`, `ReleasesMatch`, `GatesTurnedAway`, `ImplementsSaga`, `Terminates` | waves, failures, unwind, releases, gates; the driver is a saga and ends |
| `op` | `RetriesBounded`, `NoUntoldOrphan`, `CompensationWaits`, `FailureIsCompensated`, `AbortStopsPhases`, `Terminates` | retries, orphans, compensation, Ctrl-C; the Op ends although activities may never answer |
| `temporal` | `TypeOK`, `NoWorkerLeft`, `ImplementsSaga`, `PollingEnds` | the generated workflow is the driver's saga for the steps it has noted; no worker of a component stays; polling ends |
| `fly` | `TypeOK`, `ForeignSpared`, `WaitedMeansRunning`, `ReleaseFrees`, `AppliedMeansConverged` | overlapping appliers: what a prune may tear down, leases, waits; a run alone reaches its plan |
| `reconcile` | `TypeOK`, `CompletedMeansConverged`, `Converges` | "completed" is not said too early; repeated runs reconcile everything |
| `live_plan` | `ProposalsAreGrounded`, `AllClearIsComplete` | no create on the strength of what was not seen, and no delete but that of a child whose owner chain was not; no all-clear either |
| `watch` | `ChildrenReaped`, `EditsPayForBuilds`, `OutputFollows` | no child is left, no build begins without an edit, and the output follows the source |

Every property of these runs has a mutant in `PROJECT.json`: a plausible bug in
a definition, written next to it under the comment "Mutant", which breaks the
property under the run's own configuration.

### Bounds, and why they are enough

*Lifecycle.* Two checkouts, since the remote is the only thing they share and a
third adds no new relation between a checkout and it. Three writes (`MaxWrites`):
one that is on the remote and two that diverge. Three files, a ledger in a directory
of its own and the snapshots of two lexicons in another one, so that a command
writes two in a row, beside what it must leave alone. One checkout is replaced
(`MaxCheckouts`), before, between or after the writes. The two operators are
interchangeable (`Operators` permutes checkouts and processes together); symmetry is
used in a run of safety properties only. Where a checkout is shared, two processes
share it and a third has a checkout without a remote to itself: two writes, since
what a write may disturb is what the one before has put there; files that are added
to and files that are replaced; any read of git may fail (`Fallible`), in no other
run.

*Driver.* Three components that can be run, in four graphs: two waves, three waves, a
cycle, an unknown name. Their compositions have what the code treats differently: a
sequential phase, a parallel one holding a step and a nested sequential phase, a step
after another, capabilities with and without rollback, several rollback phases of which
any may fail, a phase with `onFailure`, a component that deploys a stack, two that
publish, and one that refers to the stack of the first and the artifact of the second,
whose name stands for one with a hyphen (`Hyphenated`). Two more components hold a gate,
one in a nested phase, one in a compensation. Every subset may be disabled; outputs may
be seeded.

*Op.* A sequential phase before and after a parallel one with two steps of
different budgets, two compensation phases of which one has two steps; budgets
of one, two and three attempts; one activity that nobody provides, in the last
compensation phase. One Ctrl-C, since the second one exits the process. The
refusal of an Op with a gate is a single test before the run and stays out of
the instance.

*Temporal.* A component whose first phase is parallel, with a step beside a nested
sequential phase, then a gate, and a rollback phase; a component that has neither gate
nor rollback phase, so that it ends with a step or with an unwind; an Op with two
activities in parallel, a gate after them, and two compensation phases. Two attempts,
the smallest number that has a retry. One command, whose worker and whose exit are what
matters, and one worker somebody starts by hand, which also registers the component
activities the spawned one does not know.

*Fly.* Two revisions of a stack, of which the newer changes a machine, drops
another, adds a volume it mounts and a secret; the older is applied without pruning
or deleted, the newer with pruning; a machine is made by hand. Two runs
(`MaxRuns`), since an overlap has two, or one follows what another left half done.
Six identities, more than can exist at once; `Unused` gives out one only when nobody
refers to it any more.

*Reconcile.* Two collections of three keys in every initial state, against
everything wanted, a rename, and nothing wanted of most; one key not owned, one
entry the provider always refuses; a budget of six requests, of which three go into
fetching, so that the rest does not do for one run; one outage or exception
(`MaxOutages`) and one edit by others, anywhere.

*Live plan.* Two stacks with a declared name each, a runtime child, a dependency, two
versions. One change (`MaxChanges`) of source or cloud anywhere, before, between or
after the reads, and any number of partial snapshots: every state of source and cloud
is initial, so that a change can take away or bring back whatever a read or a snapshot
depends on. That nothing needs a second change is what the theorems show, which are
for any number.

*Watch.* Two files, of which one never folds and is executed, in the process or in a
child. Two edits, one of which leaves a file that cannot be built: three builds
(`MaxBuilds`), any two of which may overlap, and no fourth is ever due:
`EditsPayForBuilds` shows that the bound cuts nothing off in `watch`, where there is no
Op (`OpChoices`). With one, builds go on for ever, and what holds is what `Reaps`
proves.

### Fairness

`ComponentDriver!FairSpec` is weak fairness of the command's own steps, a
capability settling among them. The event loop runs whatever is ready; the
driver has no timeout, so a capability that never settles does stop it, and
termination is stated under that assumption. `OpExecutor!FairSpec` is weak
fairness of the executor's steps and timers only: no activity has to answer,
no attempt left behind has to end, and nobody has to press Ctrl-C.
`DurableWorkflow!FairSpec` is weak fairness of the server (tasks are handed out to a
worker that polls, attempts are settled or time out, a gate's timer runs) and of
polling; nobody has to signal, and workers need not live: `PollingEnds` is about
runs in which some worker stays. `Reconcile!FairSpec` is weak fairness of a run's
steps and strong fairness of starting one in apply mode: a schedule comes round,
though dry runs may come between. `WatchBuild!FairSpec` is weak fairness of
notifications, timers, reads and settled promises; no child has to answer or exit,
which is what the timeout is for. The lifecycle branch, the Fly applier and the
plan are checked for safety only: they are straight-line scripts of subprocesses or
requests, and end when those do.

### Where the program differs from what is said of it

These runs check what a comment or a page says, and TLC finds a behaviour of the
code that differs. `PROJECT.json` quotes the lines.

| Run | Property | What happens |
|---|---|---|
| `finding_recovery` | `RemoteKeepsHistory` | push rejected, fetch as recommended, retry: the other operator's commit is dropped, since the fetch has moved the lease but not the branch |
| `finding_temporal` | `EveryStepUnwound` | a step of a parallel phase that returns after its sibling has failed is never rolled back by the generated workflow |
| `finding_race` | `LedgerAppendOnly` | two releases at once in one checkout: the later commit descends from the earlier and lacks its record, the parent being read after the tree and `update-ref` being given no expected value |

`NoBlindOverwrite`, which does hold, is the exact guarantee left by the first: a
push drops only what the checkout's remote-tracking ref has seen. `ImplementsSaga`
of the `temporal` run is what is left by the second: the saga of the noted steps.
`LedgerGrows`, which needs each checkout to run one command at a time, is what is left
by the third, and `OwnLedgerGrows`, which does not need it of other checkouts.

Other differences show in the models, without a run of their own. The first five are
behaviours of the model that a property names as its exception.

- A `git show` that fails for whatever reason reads as no ledger
  (`lifecycle/git.ts:140`), and the next release writes it anew with its one record
  (`:226`), where the comment at 208 says that no deploy rewrites a line. `missed` marks
  such a write, and `OwnLedgerGrows` excepts it.
- `@name.publish.uri` of a component without a hyphen in its name matches the form of a
  reference to a phase first (`components/driver.ts:235`, `:264`), and comes to undefined
  although the artifact is there; the comment at 250 makes no such difference. `LookedUp`
  is the condition, and `WiringResolved` is about what satisfies it.
- An object whose owner chain could not be read, or whose declared owner was not read,
  stays an orphan (`lifecycle/live-diff.ts:292`) and is proposed for deletion if it
  carries the marker, where `lifecycle/change-set.ts:169` says that a runtime child with
  a marker taken over from its owner must never be. `ProposalsAreGrounded` says that this
  is the one case.
- Each good build of a project with an Op writes files under the directory that is
  watched (`cli/commands/build.ts:497`), which `shouldWatch` (`cli/watch.ts:25`) takes for
  changes: builds go on for ever. `EditsPayForBuilds` and `OutputFollows` are about
  projects without one.
- A file that is executed in the process is imported once (`discovery/import.ts:14`), so
  under `--watch` its later edits never reach the output, although the documentation of
  watch mode speaks of full rebuilds. `OutputFollows` excepts such files.
- An exception of a diff or a guardrail is outside every `try` of `runReconcile`
  (`reconcile.ts:562`, `:568`) and ends the run without a result (`Aborts`), where line
  509 says that a run continues when a cycle errs.
- When a read fails altogether, the undeclared resources of the last snapshot are
  reported as disappeared and counted as drift (`lifecycle/live-diff.ts:307`), since
  `unobservedAll` lists the declared ones only; so are, each time, the dependencies a
  snapshot records.
- A fresh clone has a remote-tracking ref but no local branch; a command that writes
  without fetching makes an orphan root, and its lease holds
  (`lifecycle/git.ts:100`), so its push replaces the history. `NoBlindOverwrite`
  allows it, `RemoteKeepsHistory` does not.
- A failing `ls-tree` is read as an empty directory (`lifecycle/git.ts:478`, `:495`),
  and the commit that follows lacks its files; a failing `rev-parse` makes the commit a
  root (`:464`). `Fallible = {}` excludes both.
- A push that fails for any reason but a stale lease returns false
  (`PushUnanswered`), where `lifecycle/git.ts:385` says that only a missing remote
  does; after an auto-recorded release the result is not looked at
  (`components/auto-release.ts:208`).
- The driver's header says that `onFailure` phases run (`components/driver.ts:17`);
  after the unwind it runs the component's rollback phases only
  (`components/driver.ts:593`).
- A run of several components that fails records no release (`ReleasesMatch`), also
  not for those that were deployed and stay deployed.
- After Ctrl-C a back-off still ends in another call (`op/local-executor.ts:201`),
  and the next step of a sequential phase still starts, although line 281 says that
  no new work is.
- The worker a component command spawns does not register the two activities the
  generated workflow calls (the model's `Registered`), so their attempts fail there; a
  gate that times out lets the workflow go on; a cancelled workflow compensates
  nothing; when an Op's workflow cannot be started its worker stays
  (`cli/handlers/run.ts:1247`), which is why `NoWorkerLeft` speaks of components.
- A machine whose configuration is as planned is left as it is, also when it is
  stopped (`fly-apply.ts:476`), while `src/lexicons/fly/README.md:48` says that each
  machine is waited for.
- An apply updates a machine of the declared name whether it carries the marker or
  not, while line 49 of that README says that a machine without it is never modified;
  `ForeignSpared` says what does hold, that a prune spares it.
- In a rename the old resource is deleted although the creation of the new one has
  just failed (`reconcile.ts:604`), the guardrail having counted the two as one
  update.
- `update` is only ever relative to the last snapshot, although
  `lifecycle/change-set.ts:12` says that no mutation is decided from one, and
  without a snapshot a changed resource is a `noop`. The comment at line 97 says that
  delete is not emitted there; line 176 emits it.
- Of two builds that overlap the older may write last, and the first build's policies
  may end the watcher (`cli/commands/build.ts:668`). `OutputFollows` excepts both, so
  what an overtaken build leaves is described and not ruled out.
- Releases are declined without a word when no actor is known
  (`components/auto-release.ts:180`), or when recording is opted out of.

## 4. What is proved

Constants are arbitrary: any number of checkouts, processes, files, phases, steps.

| Theorem | Property | Assumptions beyond the constants' types |
|---|---|---|
| `LifecycleBranchProofs!TypeCorrect` | `TypeOK` (checked by no run) | none |
| `LifecycleBranchProofs!LedgerSafe` | `LedgerGrows` | `Exclusive`, `Fallible = {}` |
| `LifecycleBranchProofs!WritesPreserve` | `WritePreservesOthers` | the same |
| `LifecycleBranchProofs!FastForward` | `LocalFastForward` | the same |
| `LifecycleBranchProofs!BlindOverwrite` | `NoBlindOverwrite` | the same |
| `LifecycleBranchProofs!Implements` | `ImplementsStore` | the same |
| `LifecycleBranchProofs!PushedIsThere` | `PushedMeansOnRemote` | the same, and `NamesOnce` |
| `LifecycleBranchProofs!NeverCrossed` | `NoCrossWiring` | none |
| `LifecycleBranchProofs!OwnLedger` | `OwnLedgerGrows` | none |
| `ComponentDriverProofs!Dependencies` | `DependenciesFirst` | none |
| `ComponentDriverProofs!StopsAtFailure` | `NoStartAfterFailure` | none |
| `ComponentDriverProofs!Releases` | `ReleasesMatch` | none |
| `ComponentDriverProofs!UnwindFreezes` | `UnwindFreezesDeploy` | `NestingType`, `PlaceType` |
| `ComponentDriverProofs!UnwindComplete` | `UnwindAccountsForAll` | the same |
| `ComponentDriverProofs!SagaImplemented` | `ImplementsSaga` | the same |
| `ComponentDriverProofs!Wiring` | `WiringResolved` | the same |
| `ComponentDriverProofs!TurnedAway` | `GatesTurnedAway` | the same |
| `ComponentDriverProofs!TypeCorrect` | `TypeOK` (checked by no run) | the same |
| `OpExecutorProofs!TypeCorrect` | `TypeOK` (checked by no run) | none |
| `OpExecutorProofs!OrphansTold` | `NoUntoldOrphan` | none |
| `OpExecutorProofs!RetryBudget` | `RetriesBounded` | none |
| `OpExecutorProofs!Waits` | `CompensationWaits` | `Places` |
| `OpExecutorProofs!AbortStops` | `AbortStopsPhases` | none |
| `OpExecutorProofs!Compensates` | `FailureIsCompensated` | `Places` |
| `DurableWorkflowProofs!TypeCorrect` | `TypeOK` | `TaskType` |
| `DurableWorkflowProofs!TakesItsWorker` | `NoWorkerLeft` | none |
| `DurableWorkflowProofs!SagaImplemented` | `ImplementsSaga` | `TaskType` |
| `DurableWorkflowProofs!SequentialUnwound` | the finding does not arise in a component without parallel steps | `TaskType` |
| `FlyApplyProofs!TypeCorrect` | `TypeOK` | none |
| `FlyApplyProofs!SparesForeign` | `ForeignSpared` | none |
| `FlyApplyProofs!RunsWhatWasSent` | `WaitedMeansRunning` | none |
| `FlyApplyProofs!Frees` | `ReleaseFrees` | none |
| `FlyApplyProofs!Converges` | `AppliedMeansConverged` | `OneMachineOfAName` |
| `ReconcileProofs!TypeCorrect` | `TypeOK` | none |
| `ReconcileProofs!Converged` | `CompletedMeansConverged` | none |
| `LivePlanProofs!Grounded` | `ProposalsAreGrounded` | none |
| `LivePlanProofs!AllClear` | `AllClearIsComplete` | none |
| `WatchBuildProofs!Reaps` | `ChildrenReaped` | none |
| `WatchBuildProofs!TypeCorrect` | `TypeOK` (checked by no run) | none |
| `WatchBuildProofs!EditsPay` | `EditsPayForBuilds` | none |

*LifecycleBranch.* `Exclusive` says that each checkout runs one command at a time;
nothing in chant enforces it, and `LedgerGrows` fails without it, as `finding_race`
shows. `Fallible = {}` says that the reads of git succeed; `WritePreservesOthers` and
`LedgerGrows` fail without it. Type correctness needs to know that a process in the
middle of a write has a file left to write (`WorkLeft`). The next five follow from one
inductive invariant, `SafetyInv`: every commit is one write on top of its parent, and
its history is its parent's and itself (`CommitIsOneWrite`); and what a process has read
and built is still what its checkout's branch holds (`Current`): the content it is about
to write is composed from the file as it is, the view it has listed is the tree as it
is, the commit it has made is a child of the branch as it is, the lease it holds is the
remote-tracking ref as it is. `Current` is what exclusivity buys: another process in the
same checkout could move the branch between any two of those steps. `LedgerGrows` is
part of the invariant because a new commit has to extend what all its ancestors hold,
not only its parent. `Implements` maps each step to the store: an `UpdateRef` records
its write, a fetch that forwards the branch integrates, a push the remote takes
publishes, answered or not, a new checkout resets, and every other step is a stutter.
`PushedIsThere` adds `Landed`: a write of the running command is on its checkout's
branch, under a file that is not to be written again, or is the one being made. That no
command names a file twice (`NamesOnce`) is what the code's loops over lexicons and
components give; a snapshot written twice would replace itself. Two theorems need
neither assumption; the second says in its property that the ledger itself was read
(`missed` remembers when it was not). `NeverCrossed` rests on `WireInv`: commits, the
trees processes have read and the contents they are about to write hold under each path
only what was issued for it, from whatever moments a tree is put together. `OwnLedger`
rests on `OwnInv`: what a command alone in its checkout will write, having read its
ledger, is one record more than the ledger there holds now.

*ComponentDriver.* The waves are one invariant, `WaveInv`: a component of the run is in
one wave or still to be placed, with what it depends on in waves before its own
(`WavesLayered`); what has started is in a wave up to the current one, and the waves
before that have succeeded (`WavesFollowed`); what is recorded follows
(`Recorded`). The unwind needs to know where things may run, `PlaceInv`:
what runs is inside phases that run (`RunningInside`), what runs of a deploy is at or
inside the phase its component is at (`RunningDeploys`), a sequential phase has
one entry under way, after those that have succeeded (`InTurn`), and
nothing of a phase is entered before the phase is (`NotEntered`). A phase that
settles therefore leaves nothing running in it, which is what lets the unwind begin.
`WiringInv` adds that a component whose steps have begun has started (`BegunStarted`),
so that its dependencies are deployed and their outputs there (`OutputsThere`), and
what the driver looks up among these was found (`Wired`).
Gates are never met because nothing is entered but what was searched, `GateInv`: a
run begins when none of its components holds a gate, and whatever is entered holds none
below it.

Everything about compositions rests on their being finite trees, and the functions
over them (`Below`, `StepsBelow`) are recursive. They are reasoned about without
induction over an operator: the set of the phases for which a fact fails has, by
`NestingType`, a member that holds no other one, and there the recursion unfolds once.
In this way a function over the tree is shown to exist, what is below a node to be the
least set closed under its entries, two entries of a phase to have nothing in common
below them (`PlaceType`), and the order of a composition (`Precedes`) to put each of two
steps of different entries before the other as the entries are.

`WorkInv` says what is executed: a phase that has ended holds, in composition order,
the steps below it that succeeded (`ExecHeld`, `OkEntries`); a component is at one phase
after those it is done with (`DeploysInTurn`); and what it has executed and what its
unwind records add up to the steps of its deploy that returned, with nothing in both
(`Accounts`). The steps a component still has to unwind stand in an
order the composition allows, so the last one has nothing built upon it left, which is
the step of the saga an `Unwind` is. A capability that returns is the saga's `Do`: its
predecessors are done because a sequential phase has one entry under way. A wave is its
start of several components at once.

*OpExecutor.* `NoUntoldOrphan` is inductive relative to the types. The budget needs that
a step asleep has an attempt left (`Budget`). `CompensationWaits` needs to know where
busy steps can be: `WaitInv` says that a step under way or asleep belongs to the current
phase, that in a sequential phase the steps before it have succeeded and those after it
have not begun, and that later phases of the Op have not begun. `EndsInv` follows the
phases to their ends: those before the current one have done all their steps, and in the
compensation, which goes on after a failure, have at least tried them. That a step has
one place in one phase, run once (`Places`), is a matter of identity: the code's steps
are objects in a list, and two places are two steps.

*DurableWorkflow.* `WorkerInv`: the worker of a component's command is up only while
the command is starting or polling, or when it was killed; nothing the workflow does
changes that. The types need to know what is left to undo (`WorkTypes`): distinct steps
that were executed, none of them begun but the first, and only while the code unwinds;
and that an attempt which is queued is within the policy. Whatever the code does about
one event only queues what is idle (`Queues`), so each action is judged by what the
server knew before it (`Ahead`). That a rollback is not a step, nor is a gate
(`TaskType`), is how the tasks are named. The saga needs `FlowInv`: a step is begun
when all that comes before it is over, so no step comes before itself (`Begun`); while
the code deploys, only steps of the deploy phases begin, none has failed and each that is
done has been noted (`Deploying`); the list of noted steps is in an order of the
composition, although parallel branches append to it as they return, what is left to
roll back is in the opposite order, and a rollback is under way for the first of these
and no other (`Unwinding`). A step that returns when the unwind has begun is appended to
a list that is no longer read, which is a stutter of the saga, and the finding above.
Nothing is assumed of the composition here: what is below a phase is the same set on
both sides. `SequentialUnwound` draws the line around that finding: when of any two
steps of a component one comes before the other (`Sequential`), nothing is under way
any more once a step has failed, so each step that is done is rolled back or on the
list (`AllListed`), and the list is empty when the rollback phases begin. It takes no
more than one parallel phase for `EveryStepUnwound` to fail, as the run shows.

*FlyApply.* `LeaseInv`: a lease an applier holds on the machine it is at is the one
whose nonce it knows (`KnowsItsNonce`), also after it had to acquire a second time.
`MachineInv` says what old information is still good for: the identity an applier is at,
or has seen in a listing, is still a machine of the kind that was found there, with the
marker if it had it, or nothing any more (`AtAMachine`, `SeenIsPrunable`); and a machine
waited for is at the version its applier has sent, with that configuration, or at a
later one (`AwaitsItsOwn`). It rests on identities never being given out again while
somebody refers to them, and on what may become of a resource under its identity
(`Evolves`): it may vanish or gain the marker and versions, but not lose them.
`Converges` rests on `SoloInv`, what a run knows while nobody else is at work
(`Others`): every entry it has dealt with is there as declared, whatever it has done
since (`SoFarThere`); the machine at hand is the one the entry at hand declares
(`AtItsEntry`); and of the kinds already listed nothing is left to prune but what is
doomed, none of it declared (`PrunesInTurn`). The server goes on meanwhile: machines
start, leases of killed runs lapse. That a plan declares one machine of a name
(`OneMachineOfAName`) is not checked by the code, which would update one machine to each
of two such entries in turn; the server holds one machine of a name in an app.

*Reconcile.* `ConvergeInv`: every turn left behind without an error, a block or
something deferred is settled, unless others touched it since (`VisitedSettled`);
while a turn is applied, every key that is not settled still has an entry left
(`LeftCovers`), which is what makes a budget that ends in the middle harmless; and
only a run without errors and without anything skipped says it completed
(`ResultTells`).

*LivePlan.* `ReadInv`: from the beginning of a reading on, the history variables hold
what was absent and what had the marker at any moment of it (`Witnessed`); a declared
name is still to be asked for, or was read, could not be read, or was absent at some
moment (`DeclaredAccounted`); a name read with the marker had it then
(`MarkedWitnessed`). A stack is asked for all that is declared before it sweeps
(`DeclaredFirst`), so the chain of a child whose owner has been read reaches it or has
a hop that cannot be read (`ChainsFollowed`).

*WatchBuild.* `ReapInv`: the event of an exit comes from a child that is dead, that of
an error from one never spawned (`EventsAreTrue`), so settling on either needs no
signal; only what was forked has a promise to settle (`SettledAfterFork`).
A notification still to come and the files taken down for the next build each stand
for an edit of their own (`Paid`), so edits pay for builds, unless builds write what is
watched.

## 5. What is model-checked only

Liveness under fairness (`Terminates` of both local executors, `PollingEnds`, `Converges`
of the reconcile loop, `OutputFollows`) stays with TLC, being out of the prover's
reach. Every safety invariant, action property and refinement a passing run checks is
proved. The properties of the three findings are refuted, each by one run;
`SequentialUnwound` proves where that of the second does hold. That repeated
reconcile runs converge depends on the budget: each run starts from the first turn
again, so the fetches, the entries that are refused every time and one entry more must
fit into it. The instance's budget of six does; with one that does not, later turns
starve.

## 6. What is not modelled

The content of snapshots, records and manifests and their validation; the
wording of messages, progress events and reports; parameters and configuration;
how a lexicon reads its cloud. Crashes of the two local executors: nothing is
persisted, so nothing is resumed (`components/driver.ts:27` names this as the
boundary to the Temporal executor). A second Ctrl-C, which kills the process.
Lifecycle rollback and the emulator lifecycle are single commands started by hand
whose hazards one test would show. By far the
largest part of the repository is the compiler, its provider catalogues, most of
which are generated, its lint rules and its documentation examples: functions from
documents to documents without a state that could go wrong between two steps. Every
component without a module is listed in `PROJECT.json` with its reason.

## 7. Plan

Done: every component of section 1 with concurrency or failures of its own, and the
proofs of what its runs check, liveness apart.

1. *Composition.* `ComponentDriver` with `LifecycleBranch`: a release that is
   reported is on the remote or was warned about.
2. *Proofs.* That a run of the Fly applier and of the reconcile loop takes a bounded
   number of steps, a measure that does without fairness.
3. *Pure algorithms.* Topological order and cycle detection, `affected`, `replay`.
