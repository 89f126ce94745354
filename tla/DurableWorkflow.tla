---------------------------- MODULE DurableWorkflow ----------------------------
(***************************************************************************)
(* chant run --temporal: the workflow that is generated for a component    *)
(* (lexicons/temporal/src/component-op/serializer.ts) or for an Op         *)
(* (lexicons/temporal/src/op/serializer.ts), the workers that run it and   *)
(* the commands that spawn a worker, start the workflow and poll it        *)
(* (core cli/handlers/run.ts).                                             *)
(*                                                                         *)
(* The server is external: it keeps the workflow's history and its queue   *)
(* of activities, retries them by the policy the generated code gives, and *)
(* lets workflow code go on only while some worker polls.  Workflow code   *)
(* runs between two awaits, so what it does about one event is one step.   *)
(***************************************************************************)
EXTENDS Naturals, Sequences, FiniteSets, SequencesExt

CONSTANTS
  Design,      \* the workflows that may be run: records of kind, main, back
  Phase,       \* phases of those, nested ones included
  Body,        \* their entries: steps, nested phases, gates
  Parallel,    \* phases declared parallel
  Step,        \* capability steps or activities
  Gate,        \* gates
  Command,     \* invocations of chant run --temporal
  Hand,        \* a worker somebody starts by hand
  Registered,  \* names of the activities each worker registers
  MaxAttempts  \* attempts the retry policy allows

Undo(s) == <<"undo", s>>
Task == Step \cup {Undo(s) : s \in Step}

ASSUME DesignType == \A d \in Design : /\ d.kind \in {"component", "op"}
                                       /\ d.main \in Seq(Phase) /\ d.back \in Seq(Phase)
ASSUME BodyType == Body \in [Phase -> Seq(Phase \cup Step \cup Gate)]
ASSUME AttemptsType == MaxAttempts \in Nat \ {0}
ASSUME HandType == Hand \notin Command

VARIABLES
  design,     \* the workflow that is run
  status,     \* of its one run
  mode,       \* where its code is: "deploy", "unwind" or "back"
  act,        \* its activities
  host,       \* the worker of an activity's attempt
  tries,      \* attempts so far
  signalled,  \* gates whose signal has been sent
  passed,     \* gates that have been passed
  executed,   \* steps in the order they returned, as the code has noted them
  todo,       \* steps still to be rolled back, the first one under way
  up,         \* workers that poll
  pc,         \* stage of each command
  exit,       \* exit code of each command: 2 for none
  release     \* whether a release has been recorded

flow == <<design, status, mode, executed, todo, passed>>
tasks == <<act, host, tries>>
commands == <<pc, exit, release>>
vars == <<flow, tasks, signalled, up, commands>>

Worker == Command \cup {Hand}
None == "none"

\* A rollback is not a step, nor is a gate, and no worker is nobody.
ASSUME TaskType == /\ \A s \in Step : Undo(s) \notin Step
                   /\ Step \cap Gate = {}
                   /\ None \notin Worker

-----------------------------------------------------------------------------
(* The order the generated code imposes. *)

Entries(p) == SelectSeq(Body[p], LAMBDA e : e \notin Gate)
Gates(p) == SelectSeq(Body[p], LAMBDA e : e \in Gate)

\* The steps and gates in a phase, nested ones included.
Under[p \in Phase] ==
  UNION {IF e \in Phase THEN Under[e] ELSE {e} : e \in ToSet(Body[p])}
Leaves(e) == IF e \in Phase THEN Under[e] ELSE {e}

InTurn(nodes) ==
  UNION {Leaves(nodes[ij[1]]) \X Leaves(nodes[ij[2]]) :
           ij \in {p \in (DOMAIN nodes) \X (DOMAIN nodes) : p[1] < p[2]}}

\* The gates of a phase come after its other entries, whatever was declared.
InPhase(p) ==
  (IF p \in Parallel THEN {} ELSE InTurn(Entries(p)))
    \cup InTurn(Gates(p))
    \cup UNION {Leaves(e) \X ToSet(Gates(p)) : e \in ToSet(Entries(p))}

\* <<x, y>>: y is reached when x is over.  Compensation goes backwards.
Order == UNION {InPhase(p) : p \in Phase}
           \cup UNION {InTurn(d.main) \cup InTurn(Reverse(d.back)) : d \in Design}
Earlier[y \in Step \cup Gate] == {x \in Step \cup Gate : <<x, y>> \in Order}

Main == UNION {Under[p] : p \in ToSet(design.main)}
Back == UNION {Under[p] : p \in ToSet(design.back)}

Over(x, a, ps) == IF x \in Gate THEN x \in ps ELSE a[x] = "done"

\* The code reaches x.  A branch of a parallel phase goes on although another
\* one has thrown.
Reached(x, a, ps, m) == /\ x \in Main \/ (m = "back" /\ x \in Back)
                        /\ \A y \in Earlier[x] : Over(y, a, ps)

Scheduled(a, ps, m) ==
  [t \in Task |-> IF t \in Step /\ a[t] = "idle" /\ Reached(t, a, ps, m)
                  THEN "queued" ELSE a[t]]

Init == /\ design \in Design
        /\ status = "none"
        /\ mode = "deploy"
        /\ act = [t \in Task |-> "idle"]
        /\ host = [t \in Task |-> None]
        /\ tries = [t \in Task |-> 0]
        /\ signalled = {}
        /\ passed = {}
        /\ executed = <<>>
        /\ todo = <<>>
        /\ up = {}
        /\ pc = [c \in Command |-> "idle"]
        /\ exit = [c \in Command |-> 2]
        /\ release = FALSE

-----------------------------------------------------------------------------
(* What the workflow's code does when one of the things it awaits is over: *)
(* a and ps are the activities and the passed gates by then, e its list of *)
(* executed steps.                                                         *)

Close(a, outcome) == /\ status' = outcome
                     /\ act' = a
                     /\ UNCHANGED <<mode, todo>>

GoOn(a, ps, m) == /\ act' = Scheduled(a, ps, m)
                  /\ mode' = m
                  /\ UNCHANGED status

\* In the catch: roll back the steps that are left, one at a time, then run the
\* compensation phases, then throw.
Compensate(a, ps, left) ==
  \/ /\ left # <<>>
     /\ todo' = left
     /\ GoOn([a EXCEPT ![Undo(left[1])] = "queued"], ps, "unwind")
  \/ /\ left = <<>> /\ design.back # <<>>
     /\ todo' = left
     /\ GoOn(a, ps, "back")
  \/ /\ left = <<>> /\ design.back = <<>>
     /\ Close(a, "failed")

\* Mutant: in the order they were executed.
ToUndoForwards(e) == IF design.kind = "component" THEN e ELSE <<>>

\* [...executed].reverse(): a copy.  The workflow of an Op keeps no such list.
ToUndo(e) == IF design.kind = "component" THEN Reverse(e) ELSE <<>>

Broken(a, scope) == \E x \in scope \cap Step : a[x] = "failed"
AllOver(a, ps, scope) == \A x \in scope : Over(x, a, ps)
UndoOver(a) == a[Undo(todo[1])] \in {"done", "failed"}

React(a, ps, e) ==
  /\ passed' = ps
  /\ executed' = e
  /\ design' = design
  /\ \/ /\ mode = "deploy" /\ Broken(a, Main)
        /\ Compensate(a, ps, ToUndo(e))
     \/ /\ mode = "deploy" /\ AllOver(a, ps, Main)
        /\ Close(a, "completed")
     \/ /\ mode = "deploy" /\ ~Broken(a, Main) /\ ~AllOver(a, ps, Main)
        /\ todo' = todo
        /\ GoOn(a, ps, "deploy")
     \/ /\ mode = "unwind" /\ UndoOver(a)
        /\ Compensate(a, ps, Tail(todo))
     \/ /\ mode = "unwind" /\ ~UndoOver(a)
        /\ todo' = todo
        /\ GoOn(a, ps, "unwind")
     \/ /\ mode = "back" /\ (Broken(a, Back) \/ AllOver(a, ps, Back))
        /\ Close(a, "failed")
     \/ /\ mode = "back" /\ ~Broken(a, Back) /\ ~AllOver(a, ps, Back)
        /\ todo' = todo
        /\ GoOn(a, ps, "back")

-----------------------------------------------------------------------------
(* Activities. *)

\* The activity a task is a call of.
Called(t) == IF design.kind = "op" THEN "activity of the Op"
             ELSE IF t \in Step THEN "runCapabilityStep" ELSE "rollbackCapabilityStep"

Pick(t, w) ==
  /\ status = "running"
  /\ act[t] = "queued"
  /\ w \in up
  /\ act' = [act EXCEPT ![t] = "running"]
  /\ host' = [host EXCEPT ![t] = w]
  /\ tries' = [tries EXCEPT ![t] = @ + 1]
  /\ UNCHANGED <<flow, signalled, up, commands>>

Succeed(t) ==
  /\ status = "running"
  /\ act[t] = "running"
  /\ host[t] \in up
  /\ Called(t) \in Registered[host[t]]
  /\ host' = [host EXCEPT ![t] = None]
  /\ React([act EXCEPT ![t] = "done"], passed,
           IF t \in Step /\ design.kind = "component" THEN Append(executed, t) ELSE executed)
  /\ UNCHANGED <<tries, signalled, up, commands>>

\* Mutant: without an end.
MayRetryForever(t) == TRUE

\* maximumAttempts
MayRetry(t) == tries[t] < MaxAttempts

\* Some profiles of Op activities name errors that are not retried at all.
MayEnd(t) == ~MayRetry(t) \/ design.kind = "op"

\* The capability throws, the worker knows no such activity, or its 20 minutes
\* are over, as they will be when the worker is gone.
Fail(t) ==
  /\ status = "running"
  /\ act[t] = "running"
  /\ host' = [host EXCEPT ![t] = None]
  /\ \/ /\ MayRetry(t)
        /\ act' = [act EXCEPT ![t] = "queued"]
        /\ UNCHANGED flow
     \/ /\ MayEnd(t)
        /\ up # {}
        /\ React([act EXCEPT ![t] = "failed"], passed, executed)
  /\ UNCHANGED <<tries, signalled, up, commands>>

-----------------------------------------------------------------------------
(* Gates and cancellation. *)

AtGate(g) == /\ status = "running"
             /\ g \notin passed
             /\ Reached(g, act, passed, mode)

\* chant run signal.  It may come before the gate is reached.
Signal(g) ==
  /\ status = "running"
  /\ g \in (Main \cup Back) \ passed
  /\ signalled' = signalled \cup {g}
  /\ UNCHANGED <<flow, tasks, up, commands>>

\* Mutant: the gate waits for its signal alone.
OpensWhenSignalled(g) == g \in signalled

\* condition(() => cleared, timeout): its result is not looked at, so the code
\* goes on after the timeout as it does after the signal.
Opens(g) == TRUE

PassGate(g) ==
  /\ AtGate(g)
  /\ Opens(g)
  /\ up # {}
  /\ React(act, passed \cup {g}, executed)
  /\ UNCHANGED <<host, tries, signalled, up, commands>>

\* chant run cancel: whatever is awaited throws, and so does every call the catch
\* makes, as it is in the cancelled scope too.
Cancel ==
  /\ status = "running"
  /\ up # {}
  /\ Close(act, IF mode = "deploy" THEN "cancelled" ELSE "failed")
  /\ UNCHANGED <<design, executed, passed, host, tries, signalled, up, commands>>

-----------------------------------------------------------------------------
(* Commands: runComponentTemporal and runOpTemporal. *)

\* The worker is spawned before the workflow is started.
Spawn(c) ==
  /\ pc[c] = "idle"
  /\ pc' = [pc EXCEPT ![c] = "starting"]
  /\ up' = up \cup {c}
  /\ UNCHANGED <<flow, tasks, signalled, exit, release>>

End(c, code) == /\ pc' = [pc EXCEPT ![c] = "ended"]
                /\ exit' = [exit EXCEPT ![c] = code]

\* Mutant: the worker of a component is left behind as that of an Op is.
AfterFailedStartAsOp(c) == up

\* The command for a component kills its worker then, that for an Op does not.
AfterFailedStart(c) == IF design.kind = "component" THEN up \ {c} ELSE up

\* workflow.start.  The server's answer may be lost.
Start(c) ==
  /\ pc[c] = "starting"
  /\ status = "none"
  /\ status' = "running"
  /\ act' = Scheduled(act, passed, mode)
  /\ \/ /\ pc' = [pc EXCEPT ![c] = "polling"]
        /\ UNCHANGED <<exit, up>>
     \/ /\ End(c, 1)
        /\ up' = AfterFailedStart(c)
  /\ UNCHANGED <<design, mode, executed, todo, passed, host, tries, signalled, release>>

\* The start is refused: workflowIdConflictPolicy is FAIL, or the server cannot
\* be reached.
StartRefused(c) ==
  /\ pc[c] = "starting"
  /\ End(c, 1)
  /\ up' = AfterFailedStart(c)
  /\ UNCHANGED <<flow, tasks, signalled, release>>

\* The poll that finds the workflow closed.
PollClosed(c) ==
  /\ pc[c] = "polling"
  /\ status # "running"
  /\ End(c, IF status = "completed" THEN 0 ELSE 1)
  /\ up' = up \ {c}
  /\ release' = (release \/ (status = "completed" /\ design.kind = "component"))
  /\ UNCHANGED <<flow, tasks, signalled>>

\* A poll that throws ends the command, and its worker.
PollFails(c) ==
  /\ pc[c] = "polling"
  /\ End(c, 1)
  /\ up' = up \ {c}
  /\ UNCHANGED <<flow, tasks, signalled, release>>

\* The command is killed; its worker, a process of its own, need not be.
Killed(c) ==
  /\ pc[c] \in {"starting", "polling"}
  /\ pc' = [pc EXCEPT ![c] = "killed"]
  /\ up' \in {up, up \ {c}}
  /\ UNCHANGED <<flow, tasks, signalled, exit, release>>

\* A worker dies, or cannot load its profile: the command does not watch it.
WorkerDies(w) ==
  /\ w \in up
  /\ up' = up \ {w}
  /\ UNCHANGED <<flow, tasks, signalled, commands>>

\* npx tsx dist/components/<name>/worker.ts
WorkerStarted ==
  /\ up' = up \cup {Hand}
  /\ UNCHANGED <<flow, tasks, signalled, commands>>

Settle(t) == Succeed(t) \/ Fail(t)

Next == \/ \E t \in Task : (\E w \in Worker : Pick(t, w)) \/ Settle(t)
        \/ \E g \in Gate : Signal(g) \/ PassGate(g)
        \/ Cancel
        \/ \E c \in Command : \/ Spawn(c) \/ Start(c) \/ StartRefused(c)
                              \/ PollClosed(c) \/ PollFails(c) \/ Killed(c)
        \/ \E w \in Worker : WorkerDies(w)
        \/ WorkerStarted

Spec == Init /\ [][Next]_vars

\* The server's timers run and workers take what is queued; a command polls.
FairSpec ==
  /\ Spec
  /\ \A t \in Task : WF_vars(\E w \in Worker : Pick(t, w)) /\ WF_vars(Settle(t))
  /\ \A g \in Gate : WF_vars(PassGate(g))
  /\ \A c \in Command : WF_vars(PollClosed(c))

-----------------------------------------------------------------------------
(* Properties. *)

\* Every variable stays within its type: attempts within the retry policy, each
\* running attempt on a worker, nothing to undo unless unwinding.
TypeOK ==
  /\ design \in Design
  /\ status \in {"none", "running", "completed", "failed", "cancelled"}
  /\ mode \in {"deploy", "unwind", "back"}
  /\ act \in [Task -> {"idle", "queued", "running", "done", "failed"}]
  /\ host \in [Task -> Worker \cup {None}]
  /\ \A t \in Task : host[t] # None <=> act[t] = "running"
  /\ tries \in [Task -> 0..MaxAttempts]
  /\ signalled \subseteq Gate /\ passed \subseteq Gate
  /\ IsInjective(executed) /\ ToSet(executed) \subseteq {s \in Step : act[s] = "done"}
  /\ ToSet(todo) \subseteq ToSet(executed)
  /\ up \subseteq Worker
  /\ pc \in [Command -> {"idle", "starting", "polling", "ended", "killed"}]
  /\ exit \in [Command -> 0..2]
  /\ release \in BOOLEAN

Undone == {s \in Step : act[Undo(s)] \in {"done", "failed"}}

\* What the code has noted as executed when it decides what to roll back.
Noted == IF mode = "deploy" THEN ToSet(executed)
         ELSE Undone \cup ToSet(todo)

Stage == CASE status = "none" -> "none"
           [] status = "completed" -> "done"
           [] status = "running" /\ mode = "deploy" -> "going"
           [] status = "failed" /\ mode = "back" -> "undone"
           [] OTHER -> "undoing"

Components == {d \in Design : d.kind = "component"}
Steps(d) == Step \cap UNION {Under[p] : p \in ToSet(d.main)}

Saga == INSTANCE ComponentSaga WITH
          Component <- Components,
          StepsOf <- [d \in Components |-> Steps(d)],
          Precedes <- Order,
          saga <- [d \in Components |-> IF d = design THEN Stage ELSE "none"],
          did <- [d \in Components |-> IF d = design THEN (Noted \ Undone) \cap Steps(d) ELSE {}]

\* The durable workflow implements the same saga as the local driver, across
\* worker crashes, retries and gates, for the steps its code has noted when it
\* catches the failure: a cancelled run gives up without dealing with any.
ImplementsSaga == Saga!SagaSpec

\* A command for a component leaves no worker behind, however its start or its
\* polling fails, unless it was killed itself.
NoWorkerLeft ==
  design.kind = "component" =>
    \A c \in up \cap Command : pc[c] \in {"starting", "polling", "killed"}

\* As long as some worker stays, a workflow that is polled comes to its end:
\* every activity is settled or given up, every gate opens in the end.
PollingEnds == <>[](up # {}) => \A c \in Command : []<>(pc[c] # "polling")

\* A deploy that failed has rolled back each step that was executed: what
\* docs/components/orchestration.mdx:41 says of both executors.
EveryStepUnwound ==
  status = "failed" /\ design.kind = "component" /\ mode = "back" =>
    \A s \in Main \cap Step : act[s] = "done" => s \in Undone
=============================================================================
