------------------------ MODULE DurableWorkflowProofs ------------------------
(***************************************************************************)
(* Theorems about DurableWorkflow, for every workflow, every set of        *)
(* commands and workers, and any number of attempts.                       *)
(***************************************************************************)
EXTENDS DurableWorkflow, SequenceTheorems, TLAPS

-----------------------------------------------------------------------------
(* Workers. *)

\* A command for a component has a worker only while it polls, or was killed.
WorkerInv == /\ pc \in [Command -> {"idle", "starting", "polling", "ended", "killed"}]
             /\ NoWorkerLeft

\* The workflow, and who works on it, do not change the commands or the workers.
LEMMA FlowKeepsWorkers ==
  ASSUME WorkerInv, design' = design, up' = up, pc' = pc
  PROVE  WorkerInv'
BY DEF WorkerInv, NoWorkerLeft

LEMMA ReactKeepsDesign ==
  ASSUME NEW a, NEW ps, NEW e, React(a, ps, e)
  PROVE  design' = design
BY DEF React

LEMMA WorkerStep ==
  ASSUME WorkerInv, [Next]_vars
  PROVE  WorkerInv'
<1>1. ASSUME NEW t \in Task, (\E w \in Worker : Pick(t, w)) \/ Settle(t)
      PROVE  WorkerInv'
  <2>1. up' = up /\ pc' = pc
    BY <1>1 DEF Pick, Settle, Succeed, Fail, commands
  <2>2. design' = design
    BY <1>1, ReactKeepsDesign DEF Pick, Settle, Succeed, Fail, flow
  <2> QED
    BY <2>1, <2>2, FlowKeepsWorkers
<1>2. ASSUME NEW g \in Gate, Signal(g) \/ PassGate(g)
      PROVE  WorkerInv'
  BY <1>2, ReactKeepsDesign, FlowKeepsWorkers DEF Signal, PassGate, flow, commands
<1>3. CASE Cancel
  BY <1>3, FlowKeepsWorkers DEF Cancel, commands
<1>4. ASSUME NEW c \in Command,
             Spawn(c) \/ Start(c) \/ StartRefused(c) \/ PollClosed(c) \/ PollFails(c) \/ Killed(c)
      PROVE  WorkerInv'
  <2> USE DEF WorkerInv, NoWorkerLeft, flow
  <2>1. CASE Spawn(c)
    BY <1>4, <2>1 DEF Spawn
  <2>2. CASE Start(c)
    BY <1>4, <2>2 DEF Start, End, AfterFailedStart
  <2>3. CASE StartRefused(c)
    BY <1>4, <2>3 DEF StartRefused, End, AfterFailedStart
  <2>4. CASE PollClosed(c) \/ PollFails(c)
    BY <1>4, <2>4 DEF PollClosed, PollFails, End
  <2>5. CASE Killed(c)
    BY <1>4, <2>5 DEF Killed
  <2> QED
    BY <1>4, <2>1, <2>2, <2>3, <2>4, <2>5
<1>5. ASSUME NEW w \in Worker, WorkerDies(w)
      PROVE  WorkerInv'
  BY <1>5 DEF WorkerDies, WorkerInv, NoWorkerLeft, flow, commands
<1>6. CASE WorkerStarted
  BY <1>6, HandType DEF WorkerStarted, WorkerInv, NoWorkerLeft, flow, commands
<1>7. CASE UNCHANGED vars
  BY <1>7, FlowKeepsWorkers DEF vars, flow, commands
<1> QED
  BY <1>1, <1>2, <1>3, <1>4, <1>5, <1>6, <1>7 DEF Next

\* A command for a component takes its worker with it, however its start or its
\* polling fails and whatever becomes of the workflow, unless it was killed itself.
THEOREM TakesItsWorker == Spec => []NoWorkerLeft
<1>1. Init => WorkerInv
  BY DEF Init, WorkerInv, NoWorkerLeft
<1>2. WorkerInv /\ [Next]_vars => WorkerInv'
  BY WorkerStep
<1>3. WorkerInv => NoWorkerLeft
  BY DEF WorkerInv
<1> QED
  BY <1>1, <1>2, <1>3, PTL DEF Spec

-----------------------------------------------------------------------------
(* Type correctness: the attempts, and what is left to undo. *)

\* Attempts are counted from the first; what is still to be undone has not been
\* begun, but for the first, and is only there while the code unwinds.
WorkTypes ==
  /\ design \in Design
  /\ status \in {"none", "running", "completed", "failed", "cancelled"}
  /\ mode \in {"deploy", "unwind", "back"}
  /\ act \in [Task -> {"idle", "queued", "running", "done", "failed"}]
  /\ host \in [Task -> Worker \cup {None}]
  /\ \A t \in Task : host[t] # None <=> act[t] = "running"
  /\ tries \in [Task -> 0..MaxAttempts]
  /\ \A t \in Task : /\ act[t] = "idle" => tries[t] = 0
                     /\ act[t] = "queued" => tries[t] < MaxAttempts
  /\ passed \subseteq Gate
  /\ executed \in Seq(Step) /\ IsInjective(executed)
  /\ ToSet(executed) \subseteq {s \in Step : act[s] = "done"}
  /\ todo \in Seq(Step) /\ ToSet(todo) \subseteq ToSet(executed)
  /\ \A i, j \in 1..Len(todo) : todo[i] = todo[j] => i = j
  /\ \A i \in 2..Len(todo) : act[Undo(todo[i])] = "idle"
  /\ mode = "deploy" => todo = <<>> /\ \A s \in Step : act[Undo(s)] = "idle"
  /\ mode = "unwind" => todo # <<>>

CommandTypes ==
  /\ signalled \subseteq Gate
  /\ up \subseteq Worker
  /\ pc \in [Command -> {"idle", "starting", "polling", "ended", "killed"}]
  /\ exit \in [Command -> 0..2]
  /\ release \in BOOLEAN

TaskState == {"idle", "queued", "running", "done", "failed"}

\* What a step does to the activities the code knows of before it reacts.
Ahead(a) == /\ a \in [Task -> TaskState]
            /\ \A t \in Task : /\ a[t] = "idle" <=> act[t] = "idle"
                               /\ a[t] = "queued" => act[t] = "queued"
                               /\ act[t] = "done" => a[t] = "done"

\* What the code does to them: it may only queue what is idle.
Queues(a) == /\ act' \in [Task -> TaskState]
             /\ \A t \in Task : act'[t] = a[t] \/ (a[t] = "idle" /\ act'[t] = "queued")

\* What is left to undo, and where the code is.
LeftOver(e) ==
  /\ status' \in {"none", "running", "completed", "failed", "cancelled"}
  /\ mode' \in {"deploy", "unwind", "back"}
  /\ todo' \in Seq(Step) /\ ToSet(todo') \subseteq ToSet(e)
  /\ \A i, j \in 1..Len(todo') : todo'[i] = todo'[j] => i = j
  /\ \A i \in 2..Len(todo') : act'[Undo(todo'[i])] = "idle"
  /\ mode' = "deploy" => todo' = <<>> /\ \A s \in Step : act'[Undo(s)] = "idle"
  /\ mode' = "unwind" => todo' # <<>>

LEMMA UndoTasks ==
  /\ Step \subseteq Task
  /\ \A s \in Step : Undo(s) \in Task /\ Undo(s) \notin Step
  /\ \A s, r \in Step : Undo(s) = Undo(r) => s = r
<1>1. \A s, r \in Step : Undo(s) = Undo(r) => s = r
  BY DEF Undo
<1> QED
  BY <1>1, TaskType DEF Task

LEMMA ScheduledQueues ==
  ASSUME NEW a \in [Task -> TaskState], NEW ps, NEW m
  PROVE  /\ Scheduled(a, ps, m) \in [Task -> TaskState]
         /\ \A t \in Task : \/ Scheduled(a, ps, m)[t] = a[t]
                            \/ t \in Step /\ a[t] = "idle" /\ Scheduled(a, ps, m)[t] = "queued"
BY DEF Scheduled, TaskState

\* Steps that may be rolled back next.
MayBeLeft(a, e, left) ==
  /\ left \in Seq(Step) /\ ToSet(left) \subseteq ToSet(e)
  /\ \A i, j \in 1..Len(left) : left[i] = left[j] => i = j
  /\ \A i \in 1..Len(left) : a[Undo(left[i])] = "idle"

\* The catch: the steps left are begun one at a time.
LEMMA CompensateLeaves ==
  ASSUME NEW a, NEW ps, NEW left, NEW e, WorkTypes, Ahead(a), MayBeLeft(a, e, left),
         mode \in {"deploy", "unwind"},
         mode = "unwind" \/ \A s \in Step : a[Undo(s)] = "idle",
         ToSet(todo) \subseteq ToSet(e), Compensate(a, ps, left)
  PROVE  Queues(a) /\ LeftOver(e)
<1> USE DEF Ahead, MayBeLeft
<1>1. CASE left # <<>> /\ todo' = left
           /\ GoOn([a EXCEPT ![Undo(left[1])] = "queued"], ps, "unwind")
  <2> DEFINE u == Undo(left[1])
             b == [a EXCEPT ![u] = "queued"]
  <2>1. 1 \in 1..Len(left) /\ left[1] \in Step
    BY <1>1
  <2>2. u \in Task /\ a[u] = "idle"
    BY <2>1, UndoTasks
  <2>3. b \in [Task -> TaskState] /\ b[u] = "queued" /\ \A t \in Task \ {u} : b[t] = a[t]
    BY <2>2 DEF TaskState
  <2>4. act' = Scheduled(b, ps, "unwind") /\ mode' = "unwind" /\ status' = status
    BY <1>1 DEF GoOn
  <2> HIDE DEF b, u
  <2>5. /\ act' \in [Task -> TaskState]
        /\ \A t \in Task : act'[t] = b[t] \/ (t \in Step /\ b[t] = "idle" /\ act'[t] = "queued")
    BY <2>3, <2>4, ScheduledQueues
  <2>6. Queues(a)
    BY <2>2, <2>3, <2>5 DEF Queues
  <2>7. ASSUME NEW i \in 2..Len(left)
        PROVE  act'[Undo(left[i])] = "idle"
    <3>1. i \in 1..Len(left) /\ left[i] \in Step /\ left[i] # left[1]
      BY <2>1
    <3>2. Undo(left[i]) \in Task \ {u} /\ Undo(left[i]) \notin Step
      BY <2>1, <3>1, UndoTasks DEF u
    <3> QED
      BY <2>3, <2>5, <3>1, <3>2
  <2> QED
    BY <1>1, <2>4, <2>6, <2>7 DEF LeftOver, WorkTypes
<1>2. CASE left = <<>> /\ todo' = left /\ GoOn(a, ps, "back")
  <2>1. act' = Scheduled(a, ps, "back") /\ mode' = "back" /\ status' = status
    BY <1>2 DEF GoOn
  <2>2. Queues(a)
    BY <2>1, ScheduledQueues DEF Queues
  <2> QED
    BY <1>2, <2>1, <2>2 DEF LeftOver, WorkTypes
<1>3. CASE left = <<>> /\ Close(a, "failed")
  <2>1. act' = a /\ status' = "failed" /\ mode' = mode /\ todo' = todo
    BY <1>3 DEF Close
  <2>2. Queues(a)
    BY <2>1 DEF Queues
  <2>3. \A i \in 2..Len(todo) : todo[i] \in Step
    BY DEF WorkTypes
  <2>4. \A i \in 2..Len(todo) : a[Undo(todo[i])] = "idle"
    BY <2>3, UndoTasks DEF WorkTypes
  <2> QED
    BY <2>1, <2>2, <2>4 DEF LeftOver, WorkTypes
<1> QED
  BY <1>1, <1>2, <1>3 DEF Compensate

LEMMA InSet ==
  ASSUME NEW S, NEW s \in Seq(S)
  PROVE  /\ \A i \in 1..Len(s) : s[i] \in ToSet(s)
         /\ \A x \in ToSet(s) : \E i \in 1..Len(s) : x = s[i]
BY DEF ToSet

LEMMA ReversedSteps ==
  ASSUME NEW e \in Seq(Step), IsInjective(e)
  PROVE  /\ ToUndo(e) \in Seq(Step) /\ ToSet(ToUndo(e)) \subseteq ToSet(e)
         /\ \A i, j \in 1..Len(ToUndo(e)) : ToUndo(e)[i] = ToUndo(e)[j] => i = j
<1> DEFINE r == Reverse(e)
           n == Len(e)
<1>1. n \in Nat /\ \A i \in 1..n : n - i + 1 \in 1..n /\ e[n - i + 1] \in Step
  OBVIOUS
<1>2. r = [i \in 1..n |-> e[n - i + 1]]
  BY DEF Reverse
<1>3. r \in Seq(Step) /\ Len(r) = n
  BY <1>1, <1>2
<1>4. ToSet(r) \subseteq ToSet(e)
  BY <1>1, <1>2 DEF ToSet
<1>5. ASSUME NEW i \in 1..n, NEW j \in 1..n, r[i] = r[j]
      PROVE  i = j
  <2>1. \A k, l \in 1..n : e[k] = e[l] => k = l
    BY DEF IsInjective
  <2>2. n - i + 1 \in 1..n /\ n - j + 1 \in 1..n /\ e[n - i + 1] = e[n - j + 1]
    BY <1>1, <1>2, <1>5
  <2>3. n - i + 1 = n - j + 1
    BY <2>1, <2>2
  <2> QED
    BY <1>1, <2>3
<1>6. CASE design.kind = "component"
  <2>1. ToUndo(e) = r
    BY <1>6 DEF ToUndo
  <2> HIDE DEF r
  <2> QED
    BY <1>3, <1>4, <1>5, <2>1
<1>7. CASE design.kind # "component"
  <2>1. ToUndo(e) = <<>>
    BY <1>7 DEF ToUndo
  <2> QED
    BY <2>1 DEF ToSet
<1> QED
  BY <1>6, <1>7

LEMMA ReactLeaves ==
  ASSUME WorkTypes, NEW a, Ahead(a), NEW ps, NEW e \in Seq(Step), IsInjective(e),
         ToSet(executed) \subseteq ToSet(e), React(a, ps, e)
  PROVE  Queues(a) /\ LeftOver(e)
<1>1. a \in [Task -> TaskState] /\ ToSet(todo) \subseteq ToSet(e) /\ todo \in Seq(Step)
  BY DEF Ahead, WorkTypes
<1>2. \A s \in Step : act[Undo(s)] = "idle" => a[Undo(s)] = "idle"
  BY UndoTasks DEF Ahead
<1>3. \A i \in 2..Len(todo) : todo[i] \in Step /\ a[Undo(todo[i])] = "idle"
  BY <1>1, <1>2 DEF WorkTypes
<1>4. CASE mode = "deploy" /\ Compensate(a, ps, ToUndo(e))
  <2>1. \A s \in Step : a[Undo(s)] = "idle"
    BY <1>2, <1>4 DEF WorkTypes
  <2>2. \A i \in 1..Len(ToUndo(e)) : a[Undo(ToUndo(e)[i])] = "idle"
    BY <2>1, ReversedSteps
  <2>3. MayBeLeft(a, e, ToUndo(e))
    BY <2>2, ReversedSteps DEF MayBeLeft
  <2>4. mode \in {"deploy", "unwind"}
    BY <1>4
  <2> QED
    BY <1>1, <1>4, <2>1, <2>3, <2>4, CompensateLeaves
<1>5. CASE mode = "unwind" /\ Compensate(a, ps, Tail(todo))
  <2> DEFINE left == Tail(todo)
  <2>1. todo # <<>>
    BY <1>5 DEF WorkTypes
  <2>2. /\ left \in Seq(Step) /\ Len(left) = Len(todo) - 1
        /\ \A i \in 1..Len(left) : left[i] = todo[i + 1] /\ i + 1 \in 2..Len(todo)
    BY <1>1, <2>1, HeadTailProperties
  <2> HIDE DEF left
  <2>3. ToSet(left) \subseteq ToSet(e)
    <3>1. ASSUME NEW x \in ToSet(left)
          PROVE  x \in ToSet(todo)
      <4>1. PICK i \in 1..Len(left) : x = left[i]
        BY <2>2, InSet
      <4>2. i + 1 \in 1..Len(todo) /\ x = todo[i + 1]
        BY <2>2, <4>1
      <4> QED
        BY <1>1, <4>2, InSet
    <3> QED
      BY <1>1, <3>1
  <2>4. ASSUME NEW i \in 1..Len(left), NEW j \in 1..Len(left), left[i] = left[j]
        PROVE  i = j
    <3>1. i + 1 \in 1..Len(todo) /\ j + 1 \in 1..Len(todo) /\ todo[i + 1] = todo[j + 1]
      BY <2>2, <2>4
    <3>2. i + 1 = j + 1
      BY <3>1 DEF WorkTypes
    <3> QED
      BY <2>2, <3>2
  <2>5. \A i \in 1..Len(left) : a[Undo(left[i])] = "idle"
    BY <1>3, <2>2
  <2>6. MayBeLeft(a, e, left)
    BY <2>2, <2>3, <2>4, <2>5 DEF MayBeLeft
  <2>8. Compensate(a, ps, left)
    BY <1>5 DEF left
  <2>7. mode = "unwind" /\ mode \in {"deploy", "unwind"}
    BY <1>5
  <2> QED
    BY <1>1, <2>6, <2>7, <2>8, CompensateLeaves
<1>6. ASSUME NEW m \in {"deploy", "unwind", "back"}, m = mode, GoOn(a, ps, m), todo' = todo
      PROVE  Queues(a) /\ LeftOver(e)
  <2>1. act' = Scheduled(a, ps, m) /\ mode' = mode /\ status' = status
    BY <1>6 DEF GoOn
  <2>2. /\ act' \in [Task -> TaskState]
        /\ \A t \in Task : act'[t] = a[t] \/ (t \in Step /\ a[t] = "idle" /\ act'[t] = "queued")
    BY <1>1, <2>1, ScheduledQueues
  <2>3. \A s \in Step : a[Undo(s)] = "idle" => act'[Undo(s)] = "idle"
    BY <2>2, UndoTasks
  <2>4. Queues(a)
    BY <2>2 DEF Queues
  <2> QED
    BY <1>1, <1>2, <1>3, <1>6, <2>1, <2>3, <2>4 DEF LeftOver, WorkTypes
<1>7. ASSUME NEW outcome \in {"completed", "failed"}, Close(a, outcome)
      PROVE  Queues(a) /\ LeftOver(e)
  <2>1. act' = a /\ status' = outcome /\ mode' = mode /\ todo' = todo
    BY <1>7 DEF Close
  <2> QED
    BY <1>1, <1>2, <1>3, <2>1 DEF Queues, LeftOver, WorkTypes
<1> QED
  BY <1>4, <1>5, <1>6, <1>7 DEF React

LEMMA AppendNew ==
  ASSUME NEW s \in Seq(Step), IsInjective(s), NEW x \in Step, x \notin ToSet(s)
  PROVE  /\ Append(s, x) \in Seq(Step) /\ IsInjective(Append(s, x))
         /\ ToSet(Append(s, x)) = ToSet(s) \cup {x}
<1> DEFINE r == Append(s, x)
<1>1. r \in Seq(Step) /\ Len(r) = Len(s) + 1 /\ r[Len(s) + 1] = x
      /\ \A i \in 1..Len(s) : r[i] = s[i]
  OBVIOUS
<1> HIDE DEF r
<1>2. Len(s) \in Nat /\ DOMAIN s = 1..Len(s) /\ DOMAIN r = 1..(Len(s) + 1)
  BY <1>1
<1>3. ASSUME NEW i \in DOMAIN r, NEW j \in DOMAIN r, r[i] = r[j]
      PROVE  i = j
  <2>1. \A k \in 1..Len(s) : r[k] \in ToSet(s)
    BY <1>1, InSet
  <2>2. \A k, l \in 1..Len(s) : s[k] = s[l] => k = l
    BY <1>2 DEF IsInjective
  <2>3. \A k \in DOMAIN r : k \in 1..Len(s) \/ k = Len(s) + 1
    BY <1>2
  <2> QED
    BY <1>1, <1>3, <2>1, <2>2, <2>3
<1>4. ToSet(r) = ToSet(s) \cup {x}
  BY <1>1, <1>2 DEF ToSet
<1> QED
  BY <1>1, <1>3, <1>4 DEF IsInjective, r

\* The workflow's code has reacted.
LEMMA ReactTypes ==
  ASSUME NEW a, NEW ps, NEW e, WorkTypes, Ahead(a), ps \subseteq Gate,
         e \in Seq(Step), IsInjective(e), ToSet(executed) \subseteq ToSet(e),
         ToSet(e) \subseteq {s \in Step : a[s] = "done"},
         React(a, ps, e), tries' = tries,
         host' \in [Task -> Worker \cup {None}],
         \A t \in Task : host'[t] # None <=> a[t] = "running"
  PROVE  WorkTypes'
<1>1. Queues(a) /\ LeftOver(e)
  BY ReactLeaves
<1>2. design' = design /\ passed' = ps /\ executed' = e
  BY DEF React
<1>3. \A t \in Task : /\ act'[t] = "idle" => act[t] = "idle"
                      /\ act'[t] = "queued" => act[t] \in {"queued", "idle"}
                      /\ act'[t] = "running" <=> a[t] = "running"
                      /\ a[t] = "done" => act'[t] = "done"
  BY <1>1 DEF Queues, Ahead, TaskState
<1>4. \A t \in Task : /\ act'[t] = "idle" => tries'[t] = 0
                      /\ act'[t] = "queued" => tries'[t] < MaxAttempts
  BY <1>3, AttemptsType DEF WorkTypes
<1>5. ToSet(e) \subseteq {s \in Step : act'[s] = "done"}
  BY <1>3, UndoTasks
<1>6. act' \in [Task -> TaskState]
  BY <1>1 DEF Queues
<1> QED
  BY <1>1, <1>2, <1>3, <1>4, <1>5, <1>6 DEF WorkTypes, LeftOver, TaskState

LEMMA ActivityTypes ==
  ASSUME WorkTypes, NEW t \in Task, (\E w \in Worker : Pick(t, w)) \/ Settle(t)
  PROVE  WorkTypes'
<1>1. ASSUME NEW w \in Worker, Pick(t, w)
      PROVE  WorkTypes'
  <2>1. \A i \in 2..Len(todo) : todo[i] \in Step /\ Undo(todo[i]) \in Task
    BY UndoTasks DEF WorkTypes
  <2>2. t \notin ToSet(executed)
    BY <1>1 DEF Pick, WorkTypes
  <2>3. tries[t] + 1 \in 0..MaxAttempts
    BY <1>1, AttemptsType DEF Pick, WorkTypes
  <2> QED
    BY <1>1, <2>1, <2>2, <2>3, UndoTasks, TaskType DEF Pick, WorkTypes, flow
<1>2. CASE Succeed(t)
  <2> DEFINE a == [act EXCEPT ![t] = "done"]
             e == IF t \in Step /\ design.kind = "component" THEN Append(executed, t) ELSE executed
  <2>1. a \in [Task -> TaskState] /\ a[t] = "done" /\ \A u \in Task \ {t} : a[u] = act[u]
    BY DEF WorkTypes, TaskState
  <2>2. Ahead(a)
    BY <1>2, <2>1 DEF Ahead, Succeed
  <2>3. e \in Seq(Step) /\ IsInjective(e) /\ ToSet(executed) \subseteq ToSet(e)
        /\ ToSet(e) \subseteq {s \in Step : a[s] = "done"}
    <3>1. t \notin ToSet(executed) /\ executed \in Seq(Step) /\ IsInjective(executed)
      BY <1>2 DEF Succeed, WorkTypes
    <3>2. ToSet(executed) \subseteq {s \in Step : a[s] = "done"}
      BY <2>1, UndoTasks DEF WorkTypes
    <3> HIDE DEF a
    <3>3. CASE t \in Step /\ design.kind = "component"
      BY <2>1, <3>1, <3>2, <3>3, AppendNew
    <3> QED
      BY <3>1, <3>2, <3>3
  <2>4. host' \in [Task -> Worker \cup {None}]
        /\ \A u \in Task : host'[u] # None <=> a[u] = "running"
    BY <1>2, <2>1 DEF Succeed, WorkTypes
  <2>5. React(a, passed, e) /\ tries' = tries /\ passed \subseteq Gate
    BY <1>2 DEF Succeed, WorkTypes
  <2> HIDE DEF a, e
  <2> QED
    BY <2>2, <2>3, <2>4, <2>5, ReactTypes
<1>3. CASE Fail(t)
  <2>1. CASE MayRetry(t) /\ act' = [act EXCEPT ![t] = "queued"] /\ UNCHANGED flow
    <3>1. \A i \in 2..Len(todo) : todo[i] \in Step /\ Undo(todo[i]) \in Task
      BY UndoTasks DEF WorkTypes
    <3>2. t \notin ToSet(executed)
      BY <1>3 DEF Fail, WorkTypes
    <3> QED
      BY <1>3, <2>1, <3>1, <3>2, UndoTasks DEF Fail, MayRetry, WorkTypes, flow
  <2>2. CASE React([act EXCEPT ![t] = "failed"], passed, executed)
    <3> DEFINE a == [act EXCEPT ![t] = "failed"]
    <3>1. a \in [Task -> TaskState] /\ a[t] = "failed" /\ \A u \in Task \ {t} : a[u] = act[u]
      BY DEF WorkTypes, TaskState
    <3>2. Ahead(a)
      BY <1>3, <3>1 DEF Ahead, Fail
    <3>3. ToSet(executed) \subseteq {s \in Step : a[s] = "done"}
      BY <1>3, <3>1, UndoTasks DEF Fail, WorkTypes
    <3>4. host' \in [Task -> Worker \cup {None}]
          /\ \A u \in Task : host'[u] # None <=> a[u] = "running"
      BY <1>3, <3>1 DEF Fail, WorkTypes
    <3>5. /\ React(a, passed, executed) /\ tries' = tries /\ passed \subseteq Gate
          /\ executed \in Seq(Step) /\ IsInjective(executed)
      BY <1>3, <2>2 DEF Fail, WorkTypes
    <3> HIDE DEF a
    <3> QED
      BY <3>2, <3>3, <3>4, <3>5, ReactTypes
  <2> QED
    BY <1>3, <2>1, <2>2 DEF Fail
<1> QED
  BY <1>1, <1>2, <1>3 DEF Settle

\* Workflow code between activities, and the first of it.
LEMMA CodeTypes ==
  ASSUME WorkTypes,
         \/ \E g \in Gate : PassGate(g)
         \/ Cancel
         \/ \E c \in Command : Start(c)
  PROVE  WorkTypes'
<1>1. ASSUME NEW g \in Gate, PassGate(g)
      PROVE  WorkTypes'
  <2>1. Ahead(act)
    BY DEF Ahead, WorkTypes, TaskState
  <2>2. React(act, passed \cup {g}, executed) /\ tries' = tries /\ host' = host
    BY <1>1 DEF PassGate
  <2>3. passed \cup {g} \subseteq Gate
    BY DEF WorkTypes
  <2> QED
    BY <2>1, <2>2, <2>3, ReactTypes DEF WorkTypes
<1>2. CASE Cancel
  BY <1>2 DEF Cancel, Close, WorkTypes
<1>3. ASSUME NEW c \in Command, Start(c)
      PROVE  WorkTypes'
  <2>1. act' = Scheduled(act, passed, mode) /\ act \in [Task -> TaskState]
    BY <1>3 DEF Start, WorkTypes, TaskState
  <2>2. /\ act' \in [Task -> TaskState]
        /\ \A t \in Task : act'[t] = act[t] \/ (t \in Step /\ act[t] = "idle" /\ act'[t] = "queued")
    BY <2>1, ScheduledQueues
  <2>3. \A s \in Step : act[Undo(s)] = "idle" => act'[Undo(s)] = "idle"
    BY <2>2, UndoTasks
  <2>4. \A t \in Task : /\ act'[t] = "idle" => tries[t] = 0
                        /\ act'[t] = "queued" => tries[t] < MaxAttempts
                        /\ act'[t] = "running" <=> act[t] = "running"
    BY <2>2, AttemptsType DEF WorkTypes
  <2>5. ToSet(executed) \subseteq {s \in Step : act'[s] = "done"}
    BY <2>2, UndoTasks DEF WorkTypes
  <2>6. \A i \in 2..Len(todo) : todo[i] \in Step
    BY DEF WorkTypes
  <2> QED
    BY <1>3, <2>2, <2>3, <2>4, <2>5, <2>6 DEF Start, WorkTypes, TaskState
<1> QED
  BY <1>1, <1>2, <1>3

LEMMA CommandStep ==
  ASSUME CommandTypes, [Next]_vars
  PROVE  CommandTypes'
<1> USE DEF CommandTypes
<1>1. ASSUME NEW c \in Command,
             Spawn(c) \/ Start(c) \/ StartRefused(c) \/ PollClosed(c) \/ PollFails(c) \/ Killed(c)
      PROVE  CommandTypes'
  <2> USE DEF End, AfterFailedStart, Worker
  <2>1. CASE Spawn(c)
    BY <2>1 DEF Spawn
  <2>2. CASE Start(c)
    BY <2>2 DEF Start
  <2>3. CASE StartRefused(c)
    BY <2>3 DEF StartRefused
  <2>4. CASE PollClosed(c)
    BY <2>4 DEF PollClosed
  <2>5. CASE PollFails(c)
    BY <2>5 DEF PollFails
  <2>6. CASE Killed(c)
    BY <2>6 DEF Killed
  <2> QED
    BY <1>1, <2>1, <2>2, <2>3, <2>4, <2>5, <2>6
<1>2. ASSUME NEW t \in Task, (\E w \in Worker : Pick(t, w)) \/ Settle(t)
      PROVE  CommandTypes'
  BY <1>2 DEF Pick, Settle, Succeed, Fail, commands
<1>3. ASSUME NEW g \in Gate, Signal(g) \/ PassGate(g)
      PROVE  CommandTypes'
  BY <1>3 DEF Signal, PassGate, commands
<1>4. CASE Cancel
  BY <1>4 DEF Cancel, commands
<1>5. CASE (\E w \in Worker : WorkerDies(w)) \/ WorkerStarted
  BY <1>5 DEF WorkerDies, WorkerStarted, Worker, commands
<1>6. CASE UNCHANGED vars
  BY <1>6 DEF vars, commands
<1> QED
  BY <1>1, <1>2, <1>3, <1>4, <1>5, <1>6 DEF Next

LEMMA TypeStep ==
  ASSUME WorkTypes, CommandTypes, [Next]_vars
  PROVE  WorkTypes' /\ CommandTypes'
<1>1. CommandTypes'
  BY CommandStep
<1>2. CASE \E t \in Task : (\E w \in Worker : Pick(t, w)) \/ Settle(t)
  BY <1>1, <1>2, ActivityTypes
<1>3. CASE \/ \E g \in Gate : PassGate(g)
           \/ Cancel
           \/ \E c \in Command : Start(c)
  BY <1>1, <1>3, CodeTypes
<1>4. CASE UNCHANGED <<flow, tasks>>
  BY <1>1, <1>4 DEF WorkTypes, flow, tasks
<1>5. ASSUME \/ \E g \in Gate : Signal(g)
             \/ \E c \in Command : \/ Spawn(c) \/ StartRefused(c) \/ PollClosed(c)
                                    \/ PollFails(c) \/ Killed(c)
             \/ \E w \in Worker : WorkerDies(w)
             \/ WorkerStarted
             \/ UNCHANGED vars
      PROVE  UNCHANGED <<flow, tasks>>
  BY <1>5 DEF Signal, Spawn, StartRefused, PollClosed, PollFails, Killed, WorkerDies, WorkerStarted,
              vars
<1> QED
  BY <1>2, <1>3, <1>4, <1>5 DEF Next

LEMMA TypeInit == Init => WorkTypes /\ CommandTypes
<1> SUFFICES ASSUME Init
             PROVE  WorkTypes /\ CommandTypes
  OBVIOUS
<1>1. executed = <<>> /\ todo = <<>> /\ IsInjective(executed) /\ ToSet(executed) = {} /\ ToSet(todo) = {}
  BY DEF Init, IsInjective, ToSet
<1>2. \A s \in Step : act[Undo(s)] = "idle"
  BY UndoTasks DEF Init
<1>3. executed \in Seq(Step) /\ todo \in Seq(Step) /\ Len(todo) = 0
  BY <1>1
<1>4. /\ \A i, j \in 1..Len(todo) : todo[i] = todo[j] => i = j
      /\ \A i \in 2..Len(todo) : act[Undo(todo[i])] = "idle"
  BY <1>3
<1>5. CommandTypes
  <2>1. exit \in [Command -> 0..2]
    BY DEF Init
  <2>2. pc \in [Command -> {"idle", "starting", "polling", "ended", "killed"}]
    BY DEF Init
  <2> QED
    BY <2>1, <2>2 DEF Init, CommandTypes
<1>6. /\ act \in [Task -> TaskState] /\ host \in [Task -> Worker \cup {None}]
      /\ \A t \in Task : host[t] # None <=> act[t] = "running"
  BY DEF Init, TaskState
<1>7. /\ tries \in [Task -> 0..MaxAttempts]
      /\ \A t \in Task : /\ act[t] = "idle" => tries[t] = 0
                         /\ act[t] = "queued" => tries[t] < MaxAttempts
  BY AttemptsType DEF Init
<1>8. design \in Design /\ status = "none" /\ mode = "deploy" /\ passed = {}
  BY DEF Init
<1> QED
  BY <1>1, <1>2, <1>3, <1>4, <1>5, <1>6, <1>7, <1>8 DEF WorkTypes, TaskState

\* Every variable stays within its type: no attempt beyond the policy, no attempt
\* without a worker, no step noted or rolled back that had not returned.
THEOREM TypeCorrect == Spec => []TypeOK
<1>1. WorkTypes /\ CommandTypes => TypeOK
  BY DEF WorkTypes, CommandTypes, TypeOK
<1>2. WorkTypes /\ CommandTypes /\ [Next]_vars => (WorkTypes /\ CommandTypes)'
  BY TypeStep
<1> QED
  BY <1>1, <1>2, TypeInit, PTL DEF Spec

-----------------------------------------------------------------------------
(* The saga: what the code has begun, what it has noted, what it rolls back. *)

\* A step is begun when what comes before it is over.
Begun == \A s \in Step : act[s] # "idle" =>
           s \notin Earlier[s] /\ \A y \in Earlier[s] : Over(y, act, passed)

\* While it deploys the code begins steps of its deploy phases only, none of them
\* has failed, and it has noted each one that is done.
Deploying ==
  /\ mode # "back" => \A s \in Step : act[s] # "idle" => s \in Main
  /\ mode = "deploy" /\ status = "running" => \A s \in Step : act[s] = "failed" => s \notin Main
  /\ mode = "deploy" /\ design.kind = "component" =>
       \A s \in Step : act[s] = "done" => s \in ToSet(executed)

\* The list is in an order of the composition, what is left of it is in the
\* opposite one, and a rollback is under way for the first of these only.
InOrder(e) == \A i, j \in 1..Len(e) : i < j => <<e[j], e[i]>> \notin Order
Backwards(left) == \A i, j \in 1..Len(left) : i < j => <<left[i], left[j]>> \notin Order

Unwinding ==
  /\ InOrder(executed)
  /\ Backwards(todo)
  /\ mode = "back" => todo = <<>>
  /\ \A s \in Step : act[Undo(s)] \in {"queued", "running"} => mode = "unwind" /\ s = todo[1]
  /\ status = "running" /\ mode = "unwind" => act[Undo(todo[1])] \in {"queued", "running"}

NotStarted == mode = "deploy" /\ executed = <<>> /\ \A t \in Task : act[t] = "idle"

FlowInv == /\ WorkTypes
           /\ status = "none" => NotStarted
           /\ Begun
           /\ Deploying
           /\ Unwinding

\* The code's reaction begins steps it has reached, and leaves the rollbacks alone
\* but for the next one.
Begins(a, ps) ==
  /\ act' \in [Task -> TaskState]
  /\ \A s \in Step : \/ act'[s] = a[s]
                     \/ a[s] = "idle" /\ act'[s] = "queued" /\ Reached(s, a, ps, mode')

UndosStay(a) == \A s \in Step : act'[Undo(s)] = a[Undo(s)]

RollsBack(a, left) ==
  /\ left # <<>> /\ todo' = left /\ mode' = "unwind" /\ status' = status
  /\ act'[Undo(left[1])] = "queued"
  /\ \A s \in Step \ {left[1]} : act'[Undo(s)] = a[Undo(s)]

TurnsBack(a, left) ==
  left = <<>> /\ todo' = <<>> /\ mode' = "back" /\ status' = status /\ UndosStay(a)

StaysIn(a) == todo' = todo /\ mode' = mode /\ status' = status /\ UndosStay(a)

Ends(a, outcome) ==
  todo' = todo /\ mode' = mode /\ status' = outcome /\ act' = a

LEMMA GoOnBegins ==
  ASSUME NEW a \in [Task -> TaskState], NEW ps, NEW m, GoOn(a, ps, m)
  PROVE  Begins(a, ps) /\ mode' = m /\ status' = status /\ UndosStay(a)
<1>1. act' = Scheduled(a, ps, m) /\ mode' = m /\ status' = status
  BY DEF GoOn
<1>2. Scheduled(a, ps, m) \in [Task -> TaskState]
  BY ScheduledQueues
<1>3. ASSUME NEW s \in Step
      PROVE  \/ act'[s] = a[s]
             \/ a[s] = "idle" /\ act'[s] = "queued" /\ Reached(s, a, ps, m)
  BY <1>1, UndoTasks DEF Scheduled
<1>4. ASSUME NEW s \in Step
      PROVE  act'[Undo(s)] = a[Undo(s)]
  BY <1>1, UndoTasks DEF Scheduled
<1> QED
  BY <1>1, <1>2, <1>3, <1>4 DEF Begins, UndosStay

LEMMA EndsBegins ==
  ASSUME NEW a \in [Task -> TaskState], NEW ps, NEW outcome, Close(a, outcome)
  PROVE  Begins(a, ps) /\ Ends(a, outcome)
BY DEF Close, Begins, Ends

LEMMA CompensateBegins ==
  ASSUME NEW a \in [Task -> TaskState], NEW ps, NEW left \in Seq(Step), Compensate(a, ps, left)
  PROVE  /\ Begins(a, ps)
         /\ \/ RollsBack(a, left)
            \/ TurnsBack(a, left)
            \/ left = <<>> /\ Ends(a, "failed")
<1>1. CASE left # <<>> /\ todo' = left
           /\ GoOn([a EXCEPT ![Undo(left[1])] = "queued"], ps, "unwind")
  <2> DEFINE b == [a EXCEPT ![Undo(left[1])] = "queued"]
  <2>1. left[1] \in Step
    BY <1>1
  <2>2. /\ b \in [Task -> TaskState] /\ b[Undo(left[1])] = "queued"
        /\ \A s \in Step : b[s] = a[s]
        /\ \A s \in Step \ {left[1]} : b[Undo(s)] = a[Undo(s)]
    BY <2>1, UndoTasks DEF TaskState
  <2>3. GoOn(b, ps, "unwind")
    BY <1>1
  <2> HIDE DEF b
  <2>4. Begins(b, ps) /\ mode' = "unwind" /\ status' = status /\ UndosStay(b)
    BY <2>2, <2>3, GoOnBegins
  <2>5. ASSUME NEW s \in Step, Reached(s, b, ps, mode')
        PROVE  Reached(s, a, ps, mode')
    BY <2>2, <2>5 DEF Reached, Over, Earlier
  <2>6. Begins(a, ps)
    BY <2>2, <2>4, <2>5 DEF Begins
  <2>7. RollsBack(a, left)
    BY <1>1, <2>1, <2>2, <2>4 DEF RollsBack, UndosStay
  <2> QED
    BY <2>6, <2>7
<1>2. CASE left = <<>> /\ todo' = left /\ GoOn(a, ps, "back")
  BY <1>2, GoOnBegins DEF TurnsBack
<1>3. CASE left = <<>> /\ Close(a, "failed")
  BY <1>3, EndsBegins
<1> QED
  BY <1>1, <1>2, <1>3 DEF Compensate

\* In the catch, and at each rollback that is over.
Catches(a, left) == \/ RollsBack(a, left)
                    \/ TurnsBack(a, left)
                    \/ left = <<>> /\ Ends(a, "failed")

Outcome(a, ps, e) ==
  \/ mode = "deploy" /\ Broken(a, Main) /\ Catches(a, ToUndo(e))
  \/ mode = "deploy" /\ AllOver(a, ps, Main) /\ Ends(a, "completed")
  \/ mode = "deploy" /\ ~Broken(a, Main) /\ StaysIn(a)
  \/ mode = "unwind" /\ UndoOver(a) /\ Catches(a, Tail(todo))
  \/ mode = "unwind" /\ ~UndoOver(a) /\ StaysIn(a)
  \/ mode = "back" /\ (Ends(a, "failed") \/ StaysIn(a))

LEMMA ReactOutcome ==
  ASSUME WorkTypes, NEW a \in [Task -> TaskState], NEW ps, NEW e \in Seq(Step), IsInjective(e),
         React(a, ps, e)
  PROVE  Begins(a, ps) /\ Outcome(a, ps, e) /\ passed' = ps /\ executed' = e /\ design' = design
<1>1. passed' = ps /\ executed' = e /\ design' = design
  BY DEF React
<1>2. CASE mode = "deploy" /\ Broken(a, Main) /\ Compensate(a, ps, ToUndo(e))
  <2>1. ToUndo(e) \in Seq(Step)
    BY ReversedSteps
  <2>2. Begins(a, ps) /\ Catches(a, ToUndo(e))
    BY <1>2, <2>1, CompensateBegins DEF Catches
  <2> QED
    BY <1>1, <1>2, <2>2 DEF Outcome
<1>3. CASE mode = "unwind" /\ UndoOver(a) /\ Compensate(a, ps, Tail(todo))
  <2>1. Tail(todo) \in Seq(Step)
    BY <1>3 DEF WorkTypes
  <2>2. Begins(a, ps) /\ Catches(a, Tail(todo))
    BY <1>3, <2>1, CompensateBegins DEF Catches
  <2> QED
    BY <1>1, <1>3, <2>2 DEF Outcome
<1>4. CASE mode = "deploy" /\ AllOver(a, ps, Main) /\ Close(a, "completed")
  BY <1>1, <1>4, EndsBegins DEF Outcome
<1>5. CASE mode = "back" /\ Close(a, "failed")
  BY <1>1, <1>5, EndsBegins DEF Outcome
<1>6. CASE mode = "deploy" /\ ~Broken(a, Main) /\ todo' = todo /\ GoOn(a, ps, "deploy")
  BY <1>1, <1>6, GoOnBegins DEF Outcome, StaysIn
<1>7. CASE mode = "unwind" /\ ~UndoOver(a) /\ todo' = todo /\ GoOn(a, ps, "unwind")
  BY <1>1, <1>7, GoOnBegins DEF Outcome, StaysIn
<1>8. CASE mode = "back" /\ todo' = todo /\ GoOn(a, ps, "back")
  BY <1>1, <1>8, GoOnBegins DEF Outcome, StaysIn
<1> QED
  BY <1>2, <1>3, <1>4, <1>5, <1>6, <1>7, <1>8 DEF React

\* The event the code reacts to: an activity over, or a gate passed.
Event(a, ps, e) ==
  /\ Ahead(a) /\ \A t \in Task : a[t] = "running" => act[t] = "running"
  /\ passed \subseteq ps
  /\ e \in Seq(Step) /\ IsInjective(e) /\ InOrder(e)
  /\ mode = "deploy" /\ design.kind = "component" =>
       \A s \in Step : a[s] = "done" => s \in ToSet(e)

LEMMA BegunStays ==
  ASSUME WorkTypes, Begun, NEW a, NEW ps, NEW e, Event(a, ps, e), Begins(a, ps), passed' = ps
  PROVE  Begun'
<1>1. ASSUME NEW s \in Step, act'[s] # "idle"
      PROVE  s \notin Earlier[s] /\ \A y \in Earlier[s] : Over(y, a, ps)
  <2>1. s \in Task
    BY UndoTasks
  <2>2. CASE act[s] # "idle"
    <3>1. s \notin Earlier[s] /\ \A y \in Earlier[s] : Over(y, act, passed)
      BY <2>2 DEF Begun
    <3>2. ASSUME NEW y \in Earlier[s]
          PROVE  Over(y, a, ps)
      <4>1. Over(y, act, passed) /\ y \in Step \cup Gate
        BY <3>1 DEF Earlier
      <4>2. y \notin Gate => y \in Task
        BY <4>1, UndoTasks
      <4> QED
        BY <4>1, <4>2 DEF Over, Event, Ahead
    <3> QED
      BY <3>1, <3>2
  <2>3. CASE act[s] = "idle"
    <3>1. a[s] = "idle" /\ Reached(s, a, ps, mode')
      BY <1>1, <2>1, <2>3 DEF Event, Ahead, Begins
    <3>2. \A y \in Earlier[s] : Over(y, a, ps)
      BY <3>1 DEF Reached
    <3>3. ~Over(s, a, ps)
      BY <3>1, TaskType DEF Over
    <3> QED
      BY <3>2, <3>3
  <2> QED
    BY <2>2, <2>3
<1>2. ASSUME NEW s \in Step, NEW y \in Earlier[s], Over(y, a, ps)
      PROVE  Over(y, act', ps)
  <2>1. y \in Step \cup Gate
    BY <1>2 DEF Earlier
  <2> QED
    BY <1>2, <2>1 DEF Over, Begins
<1>3. Begun' <=> \A s \in Step : act'[s] # "idle" =>
                   s \notin Earlier[s] /\ \A y \in Earlier[s] : Over(y, act', ps)
  BY DEF Begun, Over
<1> QED
  BY <1>1, <1>2, <1>3

LEMMA DeployingStays ==
  ASSUME WorkTypes, Deploying, status = "running", NEW a, NEW ps, NEW e, Event(a, ps, e),
         Begins(a, ps), Outcome(a, ps, e), executed' = e, design' = design
  PROVE  Deploying'
<1> USE DEF Catches, RollsBack, TurnsBack, StaysIn, Ends
<1>1. Main' = Main
  BY DEF Main
<1>2. mode' # "back" => mode # "back"
  BY DEF Outcome
<1>3. ASSUME mode' # "back", NEW s \in Step, act'[s] # "idle"
      PROVE  s \in Main
  <2>1. CASE Reached(s, a, ps, mode')
    BY <1>3, <2>1 DEF Reached
  <2>2. CASE act'[s] = a[s]
    BY <1>2, <1>3, <2>2, UndoTasks DEF Event, Ahead, Deploying
  <2> QED
    BY <2>1, <2>2 DEF Begins
<1>4. ASSUME mode' = "deploy", status' = "running", NEW s \in Step, act'[s] = "failed"
      PROVE  s \notin Main
  <2>1. a[s] = "failed"
    BY <1>4 DEF Begins
  <2>2. ~Broken(a, Main)
    BY <1>4 DEF Outcome
  <2> QED
    BY <2>1, <2>2 DEF Broken
<1>5. ASSUME mode' = "deploy", design.kind = "component", NEW s \in Step, act'[s] = "done"
      PROVE  s \in ToSet(e)
  <2>1. a[s] = "done" /\ mode = "deploy"
    BY <1>5 DEF Begins, Outcome
  <2> QED
    BY <1>5, <2>1 DEF Event
<1> QED
  BY <1>1, <1>3, <1>4, <1>5 DEF Deploying

LEMMA ReversedBackwards ==
  ASSUME NEW e \in Seq(Step), InOrder(e)
  PROVE  Backwards(ToUndo(e))
<1> DEFINE r == Reverse(e)
           n == Len(e)
<1>1. n \in Nat /\ r = [i \in 1..n |-> e[n - i + 1]]
  BY DEF Reverse
<1>2. Len(r) = n /\ \A i \in 1..n : n - i + 1 \in 1..n /\ r[i] = e[n - i + 1]
  BY <1>1
<1> HIDE DEF r
<1>3. ASSUME NEW i \in 1..n, NEW j \in 1..n, i < j
      PROVE  <<r[i], r[j]>> \notin Order
  <2>1. n - j + 1 \in 1..n /\ n - i + 1 \in 1..n /\ n - j + 1 < n - i + 1
    BY <1>1, <1>3
  <2>2. <<e[n - i + 1], e[n - j + 1]>> \notin Order
    BY <2>1 DEF InOrder
  <2> QED
    BY <1>2, <2>2
<1>4. Backwards(r)
  BY <1>2, <1>3 DEF Backwards
<1>5. Backwards(<<>>)
  BY DEF Backwards
<1> QED
  BY <1>4, <1>5 DEF ToUndo, r

LEMMA TailBackwards ==
  ASSUME NEW left \in Seq(Step), left # <<>>, Backwards(left)
  PROVE  Backwards(Tail(left))
<1> DEFINE t == Tail(left)
<1>1. Len(t) = Len(left) - 1 /\ Len(left) \in Nat /\ \A i \in 1..Len(t) : t[i] = left[i + 1]
  BY HeadTailProperties
<1> HIDE DEF t
<1>2. ASSUME NEW i \in 1..Len(t), NEW j \in 1..Len(t), i < j
      PROVE  <<t[i], t[j]>> \notin Order
  <2>1. i + 1 \in 1..Len(left) /\ j + 1 \in 1..Len(left) /\ i + 1 < j + 1
    BY <1>1, <1>2
  <2>2. <<left[i + 1], left[j + 1]>> \notin Order
    BY <2>1 DEF Backwards
  <2> QED
    BY <1>1, <2>2
<1>3. Backwards(t)
  BY <1>2 DEF Backwards
<1> QED
  BY <1>3 DEF t

InFlight(a, s) == a[Undo(s)] \in {"queued", "running"}

LEMMA UnwindingStays ==
  ASSUME WorkTypes, Unwinding, status = "running", NEW a, NEW ps, NEW e, Event(a, ps, e),
         Outcome(a, ps, e), executed' = e
  PROVE  Unwinding'
<1> USE DEF Catches, RollsBack, TurnsBack, StaysIn, UndosStay, Ends
<1>1. InOrder(executed')
  BY DEF Event
<1>2. todo \in Seq(Step) /\ (mode = "unwind" => todo # <<>>) /\ Backwards(todo)
  BY DEF WorkTypes, Unwinding
<1>3. Backwards(todo')
  <2>1. Backwards(ToUndo(e))
    BY ReversedBackwards DEF Event
  <2>2. mode = "unwind" => Backwards(Tail(todo))
    BY <1>2, TailBackwards
  <2>3. Backwards(<<>>)
    BY DEF Backwards
  <2> QED
    BY <1>2, <2>1, <2>2, <2>3 DEF Outcome
<1>4. mode' = "back" => todo' = <<>>
  BY DEF Outcome, Unwinding
<1>5. ASSUME NEW s \in Step, InFlight(a, s)
      PROVE  mode = "unwind" /\ s = todo[1] /\ ~UndoOver(a)
  <2>1. Undo(s) \in Task
    BY UndoTasks
  <2>2. InFlight(act, s)
    BY <1>5, <2>1 DEF InFlight, Event, Ahead
  <2> QED
    BY <1>5, <2>2 DEF InFlight, Unwinding, UndoOver
<1>6. mode = "unwind" /\ ~UndoOver(a) => InFlight(a, todo[1])
  <2> SUFFICES ASSUME mode = "unwind", ~UndoOver(a)
               PROVE  InFlight(a, todo[1])
    OBVIOUS
  <2>1. todo[1] \in Step
    BY <1>2
  <2>2. Undo(todo[1]) \in Task
    BY <2>1, UndoTasks
  <2>3. InFlight(act, todo[1])
    BY DEF InFlight, Unwinding
  <2> QED
    BY <2>2, <2>3 DEF InFlight, UndoOver, Event, Ahead, TaskState
<1>7. ASSUME NEW s \in Step, InFlight(act', s)
      PROVE  mode' = "unwind" /\ s = todo'[1]
  <2>1. CASE UndosStay(a) \/ act' = a
    <3>1. InFlight(a, s)
      BY <1>7, <2>1 DEF InFlight
    <3>2. mode = "unwind" /\ s = todo[1] /\ ~UndoOver(a)
      BY <1>5, <3>1
    <3> QED
      BY <3>2 DEF Outcome
  <2>2. CASE \E left : RollsBack(a, left) /\ (mode # "unwind" \/ UndoOver(a))
    BY <1>5, <1>7, <2>2 DEF InFlight
  <2> QED
    BY <2>1, <2>2 DEF Outcome
<1>8. status' = "running" /\ mode' = "unwind" => InFlight(act', todo'[1])
  <2> SUFFICES ASSUME status' = "running", mode' = "unwind"
               PROVE  InFlight(act', todo'[1])
    OBVIOUS
  <2>1. CASE \E left : RollsBack(a, left)
    BY <2>1 DEF InFlight
  <2>2. CASE mode = "unwind" /\ ~UndoOver(a) /\ StaysIn(a)
    <3>1. todo[1] \in Step
      BY <1>2, <2>2
    <3> QED
      BY <1>6, <2>2, <3>1 DEF InFlight
  <2> QED
    BY <2>1, <2>2 DEF Outcome
<1> QED
  BY <1>1, <1>3, <1>4, <1>7, <1>8 DEF Unwinding, InFlight, InOrder, Backwards

ReactsTo(a, ps, e) ==
  /\ status = "running"
  /\ Event(a, ps, e) /\ Begins(a, ps) /\ Outcome(a, ps, e)
  /\ passed' = ps /\ executed' = e /\ design' = design

LEMMA ReactsKeeps ==
  ASSUME FlowInv, WorkTypes', NEW a, NEW ps, NEW e, ReactsTo(a, ps, e)
  PROVE  FlowInv'
<1>1. Begun'
  BY BegunStays DEF FlowInv, ReactsTo
<1>2. Deploying'
  BY DeployingStays DEF FlowInv, ReactsTo
<1>3. Unwinding'
  BY UnwindingStays DEF FlowInv, ReactsTo
<1>4. status' # "none"
  BY DEF ReactsTo, Outcome, Catches, RollsBack, TurnsBack, StaysIn, Ends
<1> QED
  BY <1>1, <1>2, <1>3, <1>4 DEF FlowInv

\* What the code notes of a step that is done keeps the list in order: all that
\* is in it was begun when what comes before it was over.
LEMMA NotedInOrder ==
  ASSUME FlowInv, NEW t \in Step, act[t] = "running"
  PROVE  InOrder(Append(executed, t))
<1> DEFINE r == Append(executed, t)
           n == Len(executed)
<1>1. /\ executed \in Seq(Step) /\ n \in Nat
      /\ \A i \in 1..n : executed[i] \in Step /\ act[executed[i]] = "done"
  <2>1. executed \in Seq(Step) /\ ToSet(executed) \subseteq {s \in Step : act[s] = "done"}
    BY DEF FlowInv, WorkTypes
  <2> QED
    BY <2>1, InSet
<1>2. Len(r) = n + 1 /\ r[n + 1] = t /\ \A i \in 1..n : r[i] = executed[i]
  BY <1>1
<1>3. ASSUME NEW i \in 1..n
      PROVE  <<t, executed[i]>> \notin Order
  <2> DEFINE s == executed[i]
  <2>1. s \in Step /\ act[s] = "done"
    BY <1>1
  <2> HIDE DEF s
  <2>2. \A y \in Earlier[s] : Over(y, act, passed)
    BY <2>1 DEF FlowInv, Begun
  <2>3. ~Over(t, act, passed)
    BY TaskType DEF Over
  <2>4. t \notin Earlier[s]
    BY <2>2, <2>3
  <2>5. <<t, s>> \notin Order
    BY <2>1, <2>4 DEF Earlier
  <2> QED
    BY <2>5 DEF s
<1> HIDE DEF r
<1>4. ASSUME NEW i \in 1..(n + 1), NEW j \in 1..(n + 1), i < j
      PROVE  <<r[j], r[i]>> \notin Order
  <2>1. i \in 1..n /\ (j = n + 1 \/ j \in 1..n)
    BY <1>1, <1>4
  <2>2. CASE j = n + 1
    BY <1>2, <1>3, <2>1, <2>2
  <2>3. CASE j \in 1..n
    BY <1>2, <1>4, <2>1, <2>3 DEF FlowInv, Unwinding, InOrder
  <2> QED
    BY <2>1, <2>2, <2>3
<1> QED
  BY <1>2, <1>4 DEF InOrder, r

NotedWith(t) == IF t \in Step /\ design.kind = "component" THEN Append(executed, t) ELSE executed

LEMMA SucceedReacts ==
  ASSUME FlowInv, NEW t \in Task, Succeed(t)
  PROVE  ReactsTo([act EXCEPT ![t] = "done"], passed, NotedWith(t))
<1> DEFINE a == [act EXCEPT ![t] = "done"]
           e == NotedWith(t)
<1>1. status = "running" /\ act[t] = "running" /\ React(a, passed, e)
  BY DEF Succeed, NotedWith
<1>2. a \in [Task -> TaskState] /\ a[t] = "done" /\ \A u \in Task \ {t} : a[u] = act[u]
  BY DEF FlowInv, WorkTypes, TaskState
<1> HIDE DEF a
<1>3. Ahead(a) /\ \A u \in Task : a[u] = "running" => act[u] = "running"
  BY <1>1, <1>2 DEF Ahead
<1>4. /\ executed \in Seq(Step) /\ IsInjective(executed) /\ InOrder(executed)
      /\ t \notin ToSet(executed)
  BY <1>1 DEF FlowInv, WorkTypes, Unwinding
<1>5. /\ e \in Seq(Step) /\ IsInjective(e) /\ InOrder(e)
      /\ ToSet(executed) \subseteq ToSet(e)
      /\ t \in Step /\ design.kind = "component" => t \in ToSet(e)
  <2>1. CASE t \in Step /\ design.kind = "component"
    BY <1>1, <1>4, <2>1, AppendNew, NotedInOrder DEF NotedWith
  <2>2. CASE ~(t \in Step /\ design.kind = "component")
    BY <1>4, <2>2 DEF NotedWith
  <2> QED
    BY <2>1, <2>2
<1>6. ASSUME mode = "deploy", design.kind = "component", NEW s \in Step, a[s] = "done"
      PROVE  s \in ToSet(e)
  <2>1. s = t \/ act[s] = "done"
    BY <1>2, <1>6, UndoTasks
  <2> QED
    BY <1>5, <1>6, <2>1 DEF FlowInv, Deploying
<1> HIDE DEF e
<1>7. Event(a, passed, e)
  BY <1>3, <1>5, <1>6 DEF Event
<1>8. WorkTypes
  BY DEF FlowInv
<1>9. Begins(a, passed) /\ Outcome(a, passed, e) /\ passed' = passed /\ executed' = e /\ design' = design
  BY <1>1, <1>2, <1>5, <1>8, ReactOutcome
<1>10. ReactsTo(a, passed, e)
  BY <1>1, <1>7, <1>9 DEF ReactsTo
<1> QED
  BY <1>10 DEF a, e

LEMMA FailReacts ==
  ASSUME FlowInv, NEW t \in Task, status = "running", act[t] = "running",
         React([act EXCEPT ![t] = "failed"], passed, executed)
  PROVE  ReactsTo([act EXCEPT ![t] = "failed"], passed, executed)
<1> DEFINE a == [act EXCEPT ![t] = "failed"]
<1>1. React(a, passed, executed)
  OBVIOUS
<1>2. a \in [Task -> TaskState] /\ a[t] = "failed" /\ \A u \in Task \ {t} : a[u] = act[u]
  BY DEF FlowInv, WorkTypes, TaskState
<1> HIDE DEF a
<1>3. Ahead(a) /\ \A u \in Task : a[u] = "running" => act[u] = "running"
  BY <1>2 DEF Ahead
<1>4. executed \in Seq(Step) /\ IsInjective(executed) /\ InOrder(executed) /\ WorkTypes
  BY DEF FlowInv, WorkTypes, Unwinding
<1>5. ASSUME mode = "deploy", design.kind = "component", NEW s \in Step, a[s] = "done"
      PROVE  s \in ToSet(executed)
  <2>1. act[s] = "done"
    BY <1>2, <1>5, UndoTasks
  <2> QED
    BY <1>5, <2>1 DEF FlowInv, Deploying
<1>6. Event(a, passed, executed)
  BY <1>3, <1>4, <1>5 DEF Event
<1>7. /\ Begins(a, passed) /\ Outcome(a, passed, executed)
      /\ passed' = passed /\ executed' = executed /\ design' = design
  BY <1>1, <1>2, <1>4, ReactOutcome
<1>8. ReactsTo(a, passed, executed)
  BY <1>6, <1>7 DEF ReactsTo
<1> QED
  BY <1>8 DEF a

LEMMA GateReacts ==
  ASSUME FlowInv, NEW g \in Gate, PassGate(g)
  PROVE  ReactsTo(act, passed \cup {g}, executed)
<1> DEFINE ps == passed \cup {g}
<1>1. React(act, ps, executed) /\ status = "running" /\ passed \subseteq ps
  BY DEF PassGate, AtGate
<1> HIDE DEF ps
<1>2. /\ executed \in Seq(Step) /\ IsInjective(executed) /\ InOrder(executed) /\ WorkTypes
      /\ act \in [Task -> TaskState]
  BY DEF FlowInv, WorkTypes, Unwinding, TaskState
<1>3. Event(act, ps, executed)
  BY <1>1, <1>2 DEF Event, Ahead, FlowInv, Deploying
<1>4. /\ Begins(act, ps) /\ Outcome(act, ps, executed)
      /\ passed' = ps /\ executed' = executed /\ design' = design
  BY <1>1, <1>2, ReactOutcome
<1>5. ReactsTo(act, ps, executed)
  BY <1>1, <1>3, <1>4 DEF ReactsTo
<1> QED
  BY <1>5 DEF ps

\* An attempt begins, or is given back to the queue.
LEMMA AttemptsKeep ==
  ASSUME FlowInv, WorkTypes', UNCHANGED flow, NEW t \in Task, NEW v \in {"queued", "running"},
         act[t] \in {"queued", "running"}, act' = [act EXCEPT ![t] = v]
  PROVE  FlowInv' /\ Undone' = Undone
<1>1. \A u \in Task : \/ act'[u] = act[u]
                      \/ act[u] \in {"queued", "running"} /\ act'[u] \in {"queued", "running"}
  BY DEF FlowInv, WorkTypes
<1>2. \A s \in Step : /\ act[s] # "idle" <=> act'[s] # "idle"
                      /\ act[s] = "failed" <=> act'[s] = "failed"
                      /\ act[s] = "done" <=> act'[s] = "done"
                      /\ InFlight(act, s) <=> InFlight(act', s)
                      /\ act[Undo(s)] \in {"done", "failed"} <=> act'[Undo(s)] \in {"done", "failed"}
  BY <1>1, UndoTasks DEF InFlight
<1>3. Undone' = Undone
  BY <1>2 DEF Undone
<1>4. status' = status /\ mode' = mode /\ executed' = executed /\ todo' = todo /\ passed' = passed
      /\ design' = design
  BY DEF flow
<1>5. Begun'
  <2>1. ASSUME NEW s \in Step, NEW y \in Earlier[s], Over(y, act, passed)
        PROVE  Over(y, act', passed')
    <3>1. y \in Step \cup Gate
      BY <2>1 DEF Earlier
    <3> QED
      BY <1>2, <1>4, <2>1, <3>1 DEF Over
  <2>2. \A s \in Step : act'[s] # "idle" =>
          s \notin Earlier[s] /\ \A y \in Earlier[s] : Over(y, act', passed')
    BY <1>2, <2>1 DEF FlowInv, Begun
  <2> QED
    BY <2>2 DEF Begun, Over
<1>6. Deploying'
  BY <1>2, <1>4 DEF FlowInv, Deploying, Main
<1>7. Unwinding'
  <2>1. mode = "unwind" => todo[1] \in Step
    BY DEF FlowInv, WorkTypes
  <2> QED
    BY <1>2, <1>4, <2>1 DEF FlowInv, Unwinding, InOrder, Backwards, InFlight
<1>8. status' = "none" => NotStarted'
  <2>1. status # "none"
    BY DEF FlowInv, NotStarted
  <2> QED
    BY <1>4, <2>1
<1> QED
  BY <1>3, <1>5, <1>6, <1>7, <1>8 DEF FlowInv

LEMMA CancelKeeps ==
  ASSUME FlowInv, WorkTypes', Cancel
  PROVE  FlowInv'
<1>1. /\ UNCHANGED <<mode, todo, act, executed, passed, design>>
      /\ status' \in {"cancelled", "failed"}
  BY DEF Cancel, Close
<1>2. Begun'
  BY <1>1 DEF FlowInv, Begun, Over
<1>3. Deploying'
  BY <1>1 DEF FlowInv, Deploying, Main
<1>4. Unwinding'
  BY <1>1 DEF FlowInv, Unwinding, InOrder, Backwards
<1> QED
  BY <1>1, <1>2, <1>3, <1>4 DEF FlowInv

LEMMA StartKeeps ==
  ASSUME FlowInv, WorkTypes', NEW c \in Command, Start(c)
  PROVE  FlowInv' /\ NotStarted /\ Undone = {} /\ Undone' = {}
<1>1. /\ UNCHANGED <<mode, todo, executed, passed, design>>
      /\ status' = "running" /\ act' = Scheduled(act, passed, mode)
      /\ NotStarted
  BY DEF Start, FlowInv
<1>2. \A s \in Step : act[s] = "idle" /\ act[Undo(s)] = "idle"
  BY <1>1, UndoTasks DEF NotStarted
<1>3. \A s \in Step : act'[Undo(s)] = "idle"
  BY <1>1, <1>2, UndoTasks DEF Scheduled
<1>4. \A s \in Step : \/ act'[s] = "idle"
                      \/ act'[s] = "queued" /\ Reached(s, act, passed, mode)
  BY <1>1, <1>2, UndoTasks DEF Scheduled
<1>5. Begun'
  <2>1. ASSUME NEW s \in Step, act'[s] # "idle", NEW y \in Earlier[s]
        PROVE  Over(y, act', passed') /\ Over(y, act, passed)
    <3>1. Over(y, act, passed) /\ y \in Step \cup Gate
      BY <1>4, <2>1 DEF Reached, Earlier
    <3> QED
      BY <1>1, <1>2, <3>1 DEF Over
  <2>2. ASSUME NEW s \in Step
        PROVE  ~Over(s, act, passed)
    BY <1>2, TaskType DEF Over
  <2> QED
    BY <2>1, <2>2 DEF Begun, Over
<1>6. Deploying'
  <2>1. mode = "deploy"
    BY <1>1 DEF NotStarted
  <2>2. \A s \in Step : act'[s] # "idle" => s \in Main
    BY <1>4, <2>1 DEF Reached
  <2> QED
    BY <1>1, <1>4, <2>2 DEF Deploying, Main
<1>7. Unwinding'
  <2>1. mode' = "deploy" /\ executed' = <<>> /\ todo' = todo
    BY <1>1 DEF NotStarted
  <2>2. InOrder(executed')
    BY <2>1 DEF InOrder
  <2>3. Backwards(todo')
    BY <2>1 DEF FlowInv, Unwinding, Backwards
  <2> QED
    BY <1>3, <2>1, <2>2, <2>3 DEF Unwinding
<1>8. Undone = {} /\ Undone' = {}
  BY <1>2, <1>3 DEF Undone
<1> QED
  BY <1>1, <1>5, <1>6, <1>7, <1>8 DEF FlowInv

\* What happens that is not about the code leaves its saga as it is.
Aside == UNCHANGED <<flow, tasks>>

LEMMA AsideKeeps ==
  ASSUME FlowInv, Aside
  PROVE  FlowInv' /\ Undone' = Undone
<1> USE DEF Aside, flow, tasks
<1>1. WorkTypes'
  BY DEF FlowInv, WorkTypes
<1>2. Begun'
  BY DEF FlowInv, Begun, Over
<1>3. Deploying'
  BY DEF FlowInv, Deploying, Main
<1>4. Unwinding'
  BY DEF FlowInv, Unwinding, InOrder, Backwards
<1>5. Undone' = Undone
  BY DEF Undone
<1> QED
  BY <1>1, <1>2, <1>3, <1>4, <1>5 DEF FlowInv, NotStarted

\* All a step can be for the code.
LEMMA WhatHappens ==
  ASSUME [Next]_vars
  PROVE  \/ Aside
         \/ \E t \in Task : (\E w \in Worker : Pick(t, w)) \/ Succeed(t) \/ Fail(t)
         \/ \E g \in Gate : PassGate(g)
         \/ Cancel
         \/ \E c \in Command : Start(c)
<1>1. ASSUME \/ \E g \in Gate : Signal(g)
             \/ \E c \in Command : \/ Spawn(c) \/ StartRefused(c) \/ PollClosed(c)
                                    \/ PollFails(c) \/ Killed(c)
             \/ \E w \in Worker : WorkerDies(w)
             \/ WorkerStarted
             \/ UNCHANGED vars
      PROVE  Aside
  BY <1>1 DEF Signal, Spawn, StartRefused, PollClosed, PollFails, Killed, WorkerDies, WorkerStarted,
              vars, Aside
<1> QED
  BY <1>1 DEF Next, Settle

LEMMA FlowStep ==
  ASSUME FlowInv, [Next]_vars
  PROVE  FlowInv'
<1>0. WorkTypes
  BY DEF FlowInv
<1>1. ASSUME NEW t \in Task, (\E w \in Worker : Pick(t, w)) \/ Succeed(t) \/ Fail(t)
      PROVE  FlowInv'
  <2>1. WorkTypes'
    BY <1>0, <1>1, ActivityTypes DEF Settle
  <2>2. CASE \E w \in Worker : Pick(t, w)
    BY <2>1, <2>2, AttemptsKeep DEF Pick
  <2>3. CASE Succeed(t)
    BY <2>1, <2>3, SucceedReacts, ReactsKeeps
  <2>4. CASE Fail(t)
    BY <2>1, <2>4, FailReacts, ReactsKeeps, AttemptsKeep DEF Fail
  <2> QED
    BY <1>1, <2>2, <2>3, <2>4
<1>2. ASSUME NEW g \in Gate, PassGate(g)
      PROVE  FlowInv'
  BY <1>0, <1>2, CodeTypes, GateReacts, ReactsKeeps
<1>3. CASE Cancel
  BY <1>0, <1>3, CodeTypes, CancelKeeps
<1>4. ASSUME NEW c \in Command, Start(c)
      PROVE  FlowInv'
  BY <1>0, <1>4, CodeTypes, StartKeeps
<1>5. CASE Aside
  BY <1>5, AsideKeeps
<1> QED
  BY <1>1, <1>2, <1>3, <1>4, <1>5, WhatHappens

-----------------------------------------------------------------------------
(* The workflow of a component implements the saga. *)

\* What the code has noted and not yet rolled back, and the saga all of it maps to.
Kept == (Noted \ Undone) \cap Steps(design)
SagaOf == [d \in Components |-> IF d = design THEN Stage ELSE "none"]
KeptOf == [d \in Components |-> IF d = design THEN (Noted \ Undone) \cap Steps(d) ELSE {}]

LEMMA MapsTo ==
  ASSUME design' = design
  PROVE  /\ design \in Components =>
              /\ SagaOf[design] = Stage /\ SagaOf' = [SagaOf EXCEPT ![design] = Stage']
              /\ KeptOf[design] = Kept /\ KeptOf' = [KeptOf EXCEPT ![design] = Kept']
              /\ KeptOf'[design] = Kept'
         /\ Stage' = Stage => SagaOf' = SagaOf
         /\ Kept' = Kept => KeptOf' = KeptOf
         /\ design \notin Components => SagaOf' = SagaOf /\ KeptOf' = KeptOf
<1>1. KeptOf = [d \in Components |-> IF d = design THEN Kept ELSE {}]
  BY DEF KeptOf, Kept
<1>2. KeptOf' = [d \in Components |-> IF d = design' THEN Kept' ELSE {}]
  BY DEF KeptOf, Kept
<1>3. SagaOf' = [d \in Components |-> IF d = design' THEN Stage' ELSE "none"]
  BY DEF SagaOf
<1> QED
  BY <1>1, <1>2, <1>3 DEF SagaOf

LEMMA SagaStutters ==
  ASSUME design' = design, design \in Components => Stage' = Stage /\ Kept' = Kept
  PROVE  UNCHANGED Saga!sagaVars
<1>1. SagaOf' = SagaOf /\ KeptOf' = KeptOf
  BY MapsTo
<1> QED
  BY <1>1 DEF SagaOf, KeptOf, Saga!sagaVars

\* The saga's view of what the code has noted.
LEMMA KeptIs ==
  ASSUME WorkTypes
  PROVE  /\ mode = "deploy" => Undone = {} /\ Kept = ToSet(executed) \cap Steps(design)
         /\ mode # "deploy" => Kept = (ToSet(todo) \ Undone) \cap Steps(design)
BY DEF WorkTypes, Undone, Kept, Noted

LEMMA KeptBecomes ==
  ASSUME WorkTypes'
  PROVE  /\ mode' = "deploy" => Undone' = {} /\ Kept' = ToSet(executed') \cap Steps(design')
         /\ mode' # "deploy" => Kept' = (ToSet(todo') \ Undone') \cap Steps(design')
BY DEF WorkTypes, Undone, Kept, Noted, Steps

LEMMA StageIs ==
  ASSUME WorkTypes
  PROVE  /\ status = "none" => Stage = "none"
         /\ status = "completed" => Stage = "done"
         /\ status = "running" /\ mode = "deploy" => Stage = "going"
         /\ status = "running" /\ mode # "deploy" => Stage = "undoing"
         /\ status = "failed" /\ mode = "back" => Stage = "undone"
         /\ status = "failed" /\ mode # "back" => Stage = "undoing"
         /\ status = "cancelled" => Stage = "undoing"
BY DEF Stage, WorkTypes

LEMMA StageBecomes ==
  ASSUME WorkTypes'
  PROVE  /\ status' = "none" => Stage' = "none"
         /\ status' = "completed" => Stage' = "done"
         /\ status' = "running" /\ mode' = "deploy" => Stage' = "going"
         /\ status' = "running" /\ mode' # "deploy" => Stage' = "undoing"
         /\ status' = "failed" /\ mode' = "back" => Stage' = "undone"
         /\ status' = "failed" /\ mode' # "back" => Stage' = "undoing"
         /\ status' = "cancelled" => Stage' = "undoing"
BY DEF Stage, WorkTypes

LEMMA StepsAre == Steps(design) = Step \cap Main
BY DEF Steps, Main

LEMMA SagaSteps ==
  ASSUME NEW c \in Components, NEW s \in Steps(c), Saga!Do(c, s) \/ Saga!DealWith(c, s)
  PROVE  Saga!SagaNext
<1>1. s \in [d \in Components |-> Steps(d)][c]
  OBVIOUS
<1> QED
  BY <1>1 DEF Saga!SagaNext

\* A step of a deploy phase returns.
LEMMA ReturnIsDo ==
  ASSUME FlowInv, WorkTypes', design \in Components, mode = "deploy",
         NEW t \in Task, Succeed(t)
  PROVE  Saga!SagaNext
<1> DEFINE a == [act EXCEPT ![t] = "done"]
<1>0. WorkTypes /\ status = "running" /\ act[t] = "running" /\ design.kind = "component"
  BY DEF FlowInv, Succeed, Components
<1>1. t \in Step
  <2>1. \A s \in Step : act[Undo(s)] = "idle"
    BY <1>0 DEF WorkTypes
  <2> QED
    BY <1>0, <2>1 DEF Task
<1>2. t \in Main
  BY <1>0, <1>1 DEF FlowInv, Deploying
<1>3. ReactsTo(a, passed, Append(executed, t))
  BY <1>0, <1>1, SucceedReacts DEF NotedWith
<1>4. a[t] = "done" /\ \A s \in Step \ {t} : a[s] = act[s]
  BY <1>0, <1>1, UndoTasks DEF WorkTypes
<1> HIDE DEF a
<1>5. ~Broken(a, Main)
  BY <1>0, <1>4 DEF Broken, FlowInv, Deploying
<1>6. /\ mode' = "deploy" /\ design' = design /\ executed' = Append(executed, t)
      /\ \/ AllOver(a, passed, Main) /\ status' = "completed" /\ act' = a
         \/ status' = "running"
  BY <1>0, <1>3, <1>5 DEF ReactsTo, Outcome, Ends, StaysIn
<1>7. Kept = ToSet(executed) \cap Steps(design) /\ Kept' = Kept \cup {t} /\ t \notin Kept
  <2>1. executed \in Seq(Step) /\ IsInjective(executed) /\ t \notin ToSet(executed)
    BY <1>0, <1>1 DEF WorkTypes
  <2>2. ToSet(Append(executed, t)) = ToSet(executed) \cup {t}
    BY <1>1, <2>1, AppendNew
  <2>3. t \in Steps(design)
    BY <1>1, <1>2, StepsAre
  <2> QED
    BY <1>0, <1>6, <2>1, <2>2, <2>3, KeptIs, KeptBecomes
<1>8. \A s \in Steps(design) : <<s, t>> \in Order => s \in Kept
  <2> SUFFICES ASSUME NEW s \in Steps(design), <<s, t>> \in Order
               PROVE  s \in Kept
    OBVIOUS
  <2>1. s \in Step
    BY StepsAre
  <2>2. s \in Earlier[t]
    BY <1>1, <2>1 DEF Earlier
  <2>3. Over(s, act, passed)
    BY <1>0, <1>1, <2>2 DEF FlowInv, Begun
  <2>4. act[s] = "done"
    BY <2>1, <2>3, TaskType DEF Over
  <2> QED
    BY <1>0, <1>7, <2>1, <2>4 DEF FlowInv, Deploying
<1>9. Stage = "going" /\ (status' = "running" => Stage' = Stage) /\ (status' = "completed" => Stage' = "done")
  BY <1>0, <1>6, StageIs, StageBecomes
<1>10. status' = "completed" => Kept' = Steps(design)
  <2> SUFFICES ASSUME status' = "completed"
               PROVE  Steps(design) \subseteq Kept'
    BY <1>6, KeptBecomes
  <2>1. ASSUME NEW s \in Steps(design)
        PROVE  s \in Kept'
    <3>1. s \in Step /\ s \in Main
      BY StepsAre
    <3>2. a[s] = "done"
      BY <1>6, <3>1, TaskType DEF AllOver, Over
    <3> QED
      BY <1>0, <1>4, <1>7, <3>1, <3>2 DEF FlowInv, Deploying
  <2> QED
    BY <2>1
<1>11. /\ SagaOf[design] = "going"
       /\ t \notin KeptOf[design]
       /\ Saga!Before(design, t) \subseteq KeptOf[design]
       /\ KeptOf' = [KeptOf EXCEPT ![design] = KeptOf[design] \cup {t}]
       /\ \/ SagaOf' = SagaOf
          \/ SagaOf' = [SagaOf EXCEPT ![design] = "done"] /\ KeptOf'[design] = Steps(design)
  <2>1. Saga!Before(design, t) \subseteq Kept
    BY <1>8 DEF Saga!Before
  <2>2. /\ SagaOf[design] = Stage /\ SagaOf' = [SagaOf EXCEPT ![design] = Stage']
        /\ KeptOf[design] = Kept /\ KeptOf' = [KeptOf EXCEPT ![design] = Kept']
        /\ KeptOf'[design] = Kept'
        /\ Stage' = Stage => SagaOf' = SagaOf
    BY <1>6, MapsTo
  <2> QED
    BY <1>6, <1>7, <1>9, <1>10, <2>1, <2>2
<1>12. PICK c \in Components : c = design
  OBVIOUS
<1>13. t \in Steps(c)
  BY <1>1, <1>2, <1>12, StepsAre
<1>14. Saga!Do(c, t)
  BY <1>11, <1>12 DEF Saga!Do, Saga!Move, SagaOf, KeptOf
<1> QED
  BY <1>13, <1>14, SagaSteps

\* The code goes from one stage to the next, or stays in it.
LEMMA StageMoves ==
  ASSUME design \in Components, design' = design, Kept' = Kept,
         \/ Stage' = Stage
         \/ Stage = "going" /\ Stage' = "done" /\ Kept = Steps(design)
         \/ Stage = "going" /\ Stage' = "undoing"
         \/ Stage = "undoing" /\ Stage' = "undone" /\ Kept = {}
  PROVE  Saga!SagaNext \/ UNCHANGED Saga!sagaVars
<1>1. PICK c \in Components : c = design
  OBVIOUS
<1>2. /\ SagaOf[c] = Stage /\ SagaOf' = [SagaOf EXCEPT ![c] = Stage']
      /\ KeptOf[c] = Kept /\ KeptOf' = KeptOf
  BY <1>1, MapsTo
<1>3. Steps(c) = Steps(design)
  BY <1>1
<1>4. CASE Stage' = Stage
  BY <1>4, SagaStutters
<1>5. CASE Stage = "going" /\ Stage' = "done" /\ Kept = Steps(design)
  <2>1. Saga!Complete(c)
    BY <1>2, <1>3, <1>5 DEF Saga!Complete, Saga!Move, SagaOf, KeptOf
  <2> QED
    BY <2>1 DEF Saga!SagaNext
<1>6. CASE Stage = "going" /\ Stage' = "undoing"
  <2>1. Saga!GiveUp(c)
    BY <1>2, <1>6 DEF Saga!GiveUp, Saga!Move, SagaOf, KeptOf
  <2> QED
    BY <2>1 DEF Saga!SagaNext
<1>7. CASE Stage = "undoing" /\ Stage' = "undone" /\ Kept = {}
  <2>1. Saga!Close(c)
    BY <1>2, <1>7 DEF Saga!Close, Saga!Move, SagaOf, KeptOf
  <2> QED
    BY <2>1 DEF Saga!SagaNext
<1> QED
  BY <1>4, <1>5, <1>6, <1>7

LEMMA ReversedSet ==
  ASSUME NEW e \in Seq(Step), design.kind = "component"
  PROVE  ToSet(ToUndo(e)) = ToSet(e) /\ (ToUndo(e) = <<>> => ToSet(e) = {})
<1> DEFINE r == Reverse(e)
           n == Len(e)
<1>1. n \in Nat /\ DOMAIN e = 1..n /\ r = [i \in 1..n |-> e[n - i + 1]] /\ DOMAIN r = 1..n
  BY DEF Reverse
<1>2. \A i \in 1..n : n - i + 1 \in 1..n /\ r[i] = e[n - i + 1] /\ n - (n - i + 1) + 1 = i
  BY <1>1
<1> HIDE DEF r
<1>3. \A i \in 1..n : \E j \in 1..n : e[i] = r[j]
  <2>1. ASSUME NEW i \in 1..n
        PROVE  e[i] = r[n - i + 1] /\ n - i + 1 \in 1..n
    BY <1>2
  <2> QED
    BY <2>1
<1>4. \A i \in 1..n : \E j \in 1..n : r[i] = e[j]
  BY <1>2
<1>5. ToSet(r) = ToSet(e)
  <2>0. r \in Seq(Step) /\ Len(r) = n
    BY <1>1, <1>2
  <2>1. ASSUME NEW x \in ToSet(r)
        PROVE  x \in ToSet(e)
    <3>1. PICK i \in 1..n : x = r[i]
      BY <2>0, <2>1, InSet
    <3>2. PICK j \in 1..n : r[i] = e[j]
      BY <1>4
    <3> QED
      BY <3>1, <3>2, InSet
  <2>2. ASSUME NEW x \in ToSet(e)
        PROVE  x \in ToSet(r)
    <3>1. PICK i \in 1..n : x = e[i]
      BY <2>2, InSet
    <3>2. PICK j \in 1..n : e[i] = r[j]
      BY <1>3
    <3> QED
      BY <2>0, <3>1, <3>2, InSet
  <2> QED
    BY <2>1, <2>2
<1>6. ToUndo(e) = r
  BY DEF ToUndo, r
<1>7. ToSet(<<>>) = {}
  BY DEF ToSet
<1> QED
  BY <1>5, <1>6, <1>7

\* A step of a deploy phase fails for good.
LEMMA FailIsGiveUp ==
  ASSUME FlowInv, WorkTypes', design \in Components, mode = "deploy",
         NEW t \in Task, act[t] = "running",
         ReactsTo([act EXCEPT ![t] = "failed"], passed, executed)
  PROVE  Saga!SagaNext \/ UNCHANGED Saga!sagaVars
<1> DEFINE a == [act EXCEPT ![t] = "failed"]
<1>0. /\ WorkTypes /\ status = "running" /\ design.kind = "component"
      /\ executed \in Seq(Step) /\ \A s \in Step : act[Undo(s)] = "idle"
  BY DEF FlowInv, ReactsTo, Components, WorkTypes
<1>1. t \in Step
  BY <1>0 DEF Task
<1>2. t \in Main
  BY <1>1 DEF FlowInv, Deploying
<1>3. ReactsTo(a, passed, executed)
  OBVIOUS
<1>4. a[t] = "failed" /\ (\A s \in Step \ {t} : a[s] = act[s]) /\ \A s \in Step : a[Undo(s)] = "idle"
  BY <1>0, <1>1, UndoTasks DEF WorkTypes
<1> HIDE DEF a
<1>5. Broken(a, Main) /\ ~AllOver(a, passed, Main)
  <2>1. ~Over(t, a, passed)
    BY <1>1, <1>4, TaskType DEF Over
  <2> QED
    BY <1>1, <1>2, <1>4, <2>1 DEF Broken, AllOver
<1>6. Catches(a, ToUndo(executed)) /\ executed' = executed /\ design' = design
  BY <1>3, <1>5 DEF ReactsTo, Outcome
<1>7. /\ Kept = ToSet(executed) \cap Steps(design) /\ Stage = "going"
      /\ ToSet(ToUndo(executed)) = ToSet(executed)
      /\ ToUndo(executed) = <<>> => ToSet(executed) = {}
      /\ ToUndo(executed) \in Seq(Step)
  <2>1. ToUndo(executed) \in Seq(Step)
    BY <1>0, ReversedSteps DEF WorkTypes
  <2> QED
    BY <1>0, <2>1, KeptIs, StageIs, ReversedSet
<1>8. CASE RollsBack(a, ToUndo(executed))
  <2> DEFINE left == ToUndo(executed)
  <2>1. left[1] \in Step /\ act'[Undo(left[1])] = "queued"
        /\ \A s \in Step \ {left[1]} : act'[Undo(s)] = "idle"
    BY <1>4, <1>7, <1>8 DEF RollsBack
  <2>2. Undone' = {}
    BY <2>1 DEF Undone
  <2>3. todo' = left /\ mode' = "unwind" /\ status' = "running"
    BY <1>0, <1>8 DEF RollsBack
  <2>4. Kept' = Kept
    BY <1>6, <1>7, <2>2, <2>3, KeptBecomes
  <2>5. Stage' = "undoing"
    BY <2>3, StageBecomes
  <2> QED
    BY <1>6, <1>7, <2>4, <2>5, StageMoves
<1>9. CASE TurnsBack(a, ToUndo(executed))
  <2>1. todo' = <<>> /\ mode' = "back" /\ status' = "running" /\ ToSet(todo') = {}
    BY <1>0, <1>9 DEF TurnsBack, ToSet
  <2>2. Kept' = Kept
    BY <1>7, <1>9, <2>1, KeptBecomes DEF TurnsBack
  <2>3. Stage' = "undoing"
    BY <2>1, StageBecomes
  <2> QED
    BY <1>6, <1>7, <2>2, <2>3, StageMoves
<1>10. CASE Ends(a, "failed")
  <2>1. mode' = "deploy" /\ status' = "failed"
    BY <1>10 DEF Ends
  <2>2. Kept' = Kept /\ Stage' = "undoing"
    BY <1>6, <1>7, <2>1, KeptBecomes, StageBecomes
  <2> QED
    BY <1>6, <1>7, <2>2, StageMoves
<1> QED
  BY <1>6, <1>8, <1>9, <1>10 DEF Catches

\* A gate is passed while the code deploys.
LEMMA GateIsComplete ==
  ASSUME FlowInv, WorkTypes', design \in Components, mode = "deploy",
         NEW ps, ReactsTo(act, ps, executed)
  PROVE  Saga!SagaNext \/ UNCHANGED Saga!sagaVars
<1>0. /\ WorkTypes /\ status = "running" /\ design.kind = "component"
      /\ design' = design /\ executed' = executed
  BY DEF FlowInv, ReactsTo, Components
<1>1. ~Broken(act, Main)
  BY <1>0 DEF Broken, FlowInv, Deploying
<1>2. /\ mode' = "deploy"
      /\ \/ AllOver(act, ps, Main) /\ status' = "completed"
         \/ status' = "running"
  BY <1>0, <1>1 DEF ReactsTo, Outcome, Ends, StaysIn
<1>3. Kept = ToSet(executed) \cap Steps(design) /\ Kept' = Kept /\ Stage = "going"
  BY <1>0, <1>2, KeptIs, KeptBecomes, StageIs
<1>4. CASE status' = "running"
  BY <1>0, <1>2, <1>3, <1>4, StageBecomes, StageMoves
<1>5. CASE AllOver(act, ps, Main) /\ status' = "completed"
  <2>1. ASSUME NEW s \in Steps(design)
        PROVE  s \in ToSet(executed)
    <3>1. s \in Step /\ s \in Main
      BY StepsAre
    <3>2. act[s] = "done"
      BY <1>5, <3>1, TaskType DEF AllOver, Over
    <3> QED
      BY <1>0, <3>1, <3>2 DEF FlowInv, Deploying
  <2>2. Kept = Steps(design)
    BY <1>3, <2>1
  <2> QED
    BY <1>0, <1>3, <1>5, <2>2, StageBecomes, StageMoves
<1> QED
  BY <1>2, <1>4, <1>5

\* While it unwinds, nothing but the end of a rollback moves the saga on.
LEMMA OtherIsStutter ==
  ASSUME FlowInv, WorkTypes', mode = "unwind", NEW a, NEW ps, NEW e, ReactsTo(a, ps, e),
         \A s \in Step : a[Undo(s)] = act[Undo(s)]
  PROVE  UNCHANGED Saga!sagaVars
<1>0. WorkTypes /\ status = "running" /\ design' = design
  BY DEF FlowInv, ReactsTo
<1>1. todo[1] \in Step /\ act[Undo(todo[1])] \in {"queued", "running"}
  BY <1>0 DEF FlowInv, Unwinding, WorkTypes
<1>2. ~UndoOver(a)
  BY <1>1 DEF UndoOver
<1>3. StaysIn(a)
  BY <1>2 DEF ReactsTo, Outcome
<1>4. Undone' = Undone
  BY <1>3 DEF StaysIn, UndosStay, Undone
<1>5. mode' = "unwind" /\ todo' = todo /\ status' = "running"
  BY <1>0, <1>3 DEF StaysIn
<1>6. Kept' = Kept /\ Stage' = Stage
  BY <1>0, <1>4, <1>5, KeptIs, KeptBecomes, StageIs, StageBecomes
<1> QED
  BY <1>0, <1>6, SagaStutters

\* A rollback is over, done or given up: the saga deals with the step.
LEMMA RollbackIsDealWith ==
  ASSUME FlowInv, WorkTypes', design \in Components, mode = "unwind",
         NEW s \in Step, act[Undo(s)] = "running",
         NEW v \in {"done", "failed"}, NEW ps, NEW e,
         ReactsTo([act EXCEPT ![Undo(s)] = v], ps, e)
  PROVE  Saga!SagaNext
<1> DEFINE a == [act EXCEPT ![Undo(s)] = v]
           left == Tail(todo)
<1>0. /\ WorkTypes /\ status = "running" /\ design' = design
      /\ todo \in Seq(Step) /\ todo # <<>> /\ ReactsTo(a, ps, e)
  BY DEF FlowInv, ReactsTo, WorkTypes
<1>1. s = todo[1]
  BY DEF FlowInv, Unwinding
<1>2. a[Undo(s)] = v /\ \A r \in Step \ {s} : a[Undo(r)] = act[Undo(r)]
  BY <1>0, UndoTasks DEF WorkTypes
<1> HIDE DEF a
<1>3. UndoOver(a) /\ Catches(a, left) /\ mode' # "deploy"
  BY <1>0, <1>1, <1>2 DEF UndoOver, ReactsTo, Outcome, Catches, RollsBack, TurnsBack, Ends
<1>4. /\ left \in Seq(Step) /\ Len(left) = Len(todo) - 1 /\ Len(todo) \in Nat /\ Len(todo) >= 1
      /\ \A i \in 1..Len(left) : left[i] = todo[i + 1] /\ i + 1 \in 2..Len(todo)
  BY <1>0, HeadTailProperties
<1> HIDE DEF left
<1>5. ToSet(todo) = ToSet(left) \cup {s} /\ s \notin ToSet(left)
  <2>1. ASSUME NEW x \in ToSet(todo), x # s
        PROVE  x \in ToSet(left)
    <3>1. PICK i \in 1..Len(todo) : x = todo[i]
      BY <1>0, InSet
    <3>2. i - 1 \in 1..Len(left) /\ (i - 1) + 1 = i
      BY <1>1, <1>4, <2>1, <3>1
    <3>3. left[i - 1] = x
      BY <1>4, <3>1, <3>2
    <3> QED
      BY <1>4, <3>2, <3>3, InSet
  <2>2. ASSUME NEW x \in ToSet(left)
        PROVE  x \in ToSet(todo) /\ x # s
    <3>1. PICK i \in 1..Len(left) : x = left[i]
      BY <1>4, InSet
    <3>2. x = todo[i + 1] /\ i + 1 \in 1..Len(todo) /\ i + 1 # 1
      BY <1>4, <3>1
    <3>3. \A k, l \in 1..Len(todo) : todo[k] = todo[l] => k = l
      BY <1>0 DEF WorkTypes
    <3>4. 1 \in 1..Len(todo)
      BY <1>4
    <3> QED
      BY <1>0, <1>1, <3>2, <3>3, <3>4, InSet
  <2>3. s \in ToSet(todo)
    BY <1>0, <1>1, <1>4, InSet
  <2> QED
    BY <2>1, <2>2, <2>3
<1>6. Undone' = Undone \cup {s}
  <2>1. ASSUME NEW r \in Step
        PROVE  act'[Undo(r)] \in {"done", "failed"} <=> a[Undo(r)] \in {"done", "failed"}
    <3>1. CASE RollsBack(a, left)
      <4>1. 1 \in 1..Len(left)
        BY <1>4, <3>1 DEF RollsBack
      <4>2. left[1] = todo[2] /\ 2 \in 2..Len(todo) /\ left[1] \in Step
        BY <1>4, <4>1
      <4>3. act[Undo(left[1])] = "idle"
        BY <1>0, <4>2 DEF WorkTypes
      <4>4. left[1] # s
        BY <1>4, <1>5, <4>1, InSet
      <4> QED
        BY <1>2, <3>1, <4>2, <4>3, <4>4 DEF RollsBack
    <3>2. CASE UndosStay(a) \/ act' = a
      BY <3>2 DEF UndosStay
    <3> QED
      BY <1>3, <3>1, <3>2 DEF Catches, TurnsBack, Ends
  <2> QED
    BY <1>2, <2>1 DEF Undone
<1>7. Kept = (ToSet(todo) \ Undone) \cap Steps(design) /\ s \in Kept
  <2>1. s \notin Undone
    BY DEF Undone
  <2>2. s \in Main
    <3>1. act[s] = "done"
      BY <1>0, <1>5 DEF WorkTypes
    <3> QED
      BY <3>1 DEF FlowInv, Deploying
  <2> QED
    BY <1>0, <1>5, <2>1, <2>2, KeptIs, StepsAre
<1>8. Kept' = Kept \ {s}
  <2>1. Kept' = (ToSet(todo') \ Undone') \cap Steps(design)
    BY <1>0, <1>3, KeptBecomes
  <2>2. ToSet(todo') = ToSet(left) \/ (ToSet(todo') = ToSet(todo) /\ ToSet(left) = {})
    <3>1. left = <<>> => ToSet(left) = {}
      BY DEF ToSet
    <3> QED
      BY <1>3, <3>1 DEF Catches, RollsBack, TurnsBack, Ends
  <2> QED
    BY <1>5, <1>6, <1>7, <2>1, <2>2
<1>9. \A r \in Kept : <<s, r>> \notin Order
  <2> SUFFICES ASSUME NEW r \in Kept
               PROVE  <<s, r>> \notin Order
    OBVIOUS
  <2>1. PICK i \in 1..Len(todo) : r = todo[i]
    BY <1>0, <1>7, InSet
  <2>2. CASE i = 1
    <3>1. act[s] # "idle"
      BY <1>0, <1>5 DEF WorkTypes
    <3>2. s \notin Earlier[s]
      BY <3>1 DEF FlowInv, Begun
    <3> QED
      BY <1>1, <2>1, <2>2, <3>2 DEF Earlier
  <2>3. CASE i # 1
    <3>1. 1 \in 1..Len(todo) /\ 1 < i
      BY <1>4, <2>1, <2>3
    <3> QED
      BY <1>1, <2>1, <3>1 DEF FlowInv, Unwinding, Backwards
  <2> QED
    BY <2>2, <2>3
<1>10. Stage = "undoing" /\ Stage' = "undoing"
  <2>1. status' = "running" \/ (status' = "failed" /\ mode' = "unwind")
    BY <1>0, <1>3 DEF Catches, RollsBack, TurnsBack, Ends
  <2> QED
    BY <1>0, <1>3, <2>1, StageIs, StageBecomes
<1>11. /\ SagaOf[design] = "undoing" /\ SagaOf' = SagaOf
       /\ KeptOf[design] = Kept /\ KeptOf' = [KeptOf EXCEPT ![design] = KeptOf[design] \ {s}]
  BY <1>0, <1>8, <1>10, MapsTo
<1>12. PICK c \in Components : c = design
  OBVIOUS
<1>13. s \in Steps(c)
  BY <1>7, <1>12
<1>14. Saga!After(c, s) \cap Kept = {}
  BY <1>9 DEF Saga!After
<1>15. Saga!DealWith(c, s)
  BY <1>7, <1>11, <1>12, <1>14 DEF Saga!DealWith, SagaOf, KeptOf
<1> QED
  BY <1>13, <1>15, SagaSteps

\* In its rollback phases the code has nothing left to deal with.
LEMMA BackIsClose ==
  ASSUME FlowInv, WorkTypes', design \in Components, mode = "back",
         NEW a, NEW ps, NEW e, ReactsTo(a, ps, e)
  PROVE  Saga!SagaNext \/ UNCHANGED Saga!sagaVars
<1>0. WorkTypes /\ status = "running" /\ design' = design /\ todo = <<>>
  BY DEF FlowInv, ReactsTo, Unwinding
<1>1. mode' = "back" /\ todo' = <<>> /\ (status' = "failed" \/ status' = "running")
  BY <1>0 DEF ReactsTo, Outcome, Ends, StaysIn
<1>2. ToSet(<<>>) = {}
  BY DEF ToSet
<1>3. Kept = {} /\ Kept' = {}
  BY <1>0, <1>1, <1>2, KeptIs, KeptBecomes
<1>4. Stage = "undoing" /\ (Stage' = "undone" \/ Stage' = "undoing")
  BY <1>0, <1>1, StageIs, StageBecomes
<1> QED
  BY <1>0, <1>3, <1>4, StageMoves

\* A run that is cancelled gives up where it is.
LEMMA CancelIsGiveUp ==
  ASSUME FlowInv, WorkTypes', design \in Components, Cancel
  PROVE  Saga!SagaNext \/ UNCHANGED Saga!sagaVars
<1>0. /\ WorkTypes /\ status = "running"
      /\ UNCHANGED <<mode, todo, act, executed, design>>
      /\ status' = (IF mode = "deploy" THEN "cancelled" ELSE "failed")
  BY DEF FlowInv, Cancel, Close
<1>1. Kept' = Kept
  BY <1>0 DEF Kept, Noted, Undone, Steps
<1>2. mode = "back" => Kept = {}
  <2>1. ToSet(<<>>) = {}
    BY DEF ToSet
  <2> QED
    BY <1>0, <2>1, KeptIs DEF FlowInv, Unwinding
<1>3. CASE mode = "deploy"
  BY <1>0, <1>1, <1>3, StageIs, StageBecomes, StageMoves
<1>4. CASE mode # "deploy"
  <2>1. Stage = "undoing" /\ (Stage' = "undoing" \/ (Stage' = "undone" /\ Kept = {}))
    BY <1>0, <1>2, <1>4, StageIs, StageBecomes
  <2> QED
    BY <1>0, <1>1, <2>1, StageMoves
<1> QED
  BY <1>3, <1>4

LEMMA StartIsStart ==
  ASSUME FlowInv, WorkTypes', design \in Components, NEW c \in Command, Start(c)
  PROVE  Saga!SagaNext
<1>0. /\ WorkTypes /\ status = "none" /\ status' = "running"
      /\ UNCHANGED <<mode, executed, design>>
      /\ mode = "deploy"
  BY StartKeeps DEF FlowInv, Start, NotStarted
<1>1. Kept' = Kept
  BY <1>0, KeptIs, KeptBecomes
<1>2. Stage = "none" /\ Stage' = "going"
  BY <1>0, StageIs, StageBecomes
<1>3. KeptOf' = KeptOf /\ SagaOf' = [SagaOf EXCEPT ![design] = "going"] /\ SagaOf[design] = "none"
  BY <1>0, <1>1, <1>2, MapsTo
<1>4. PICK d \in Components : d = design
  OBVIOUS
<1>5. SagaOf' = [x \in Components |-> IF x \in {d} THEN "going" ELSE SagaOf[x]]
  BY <1>3, <1>4 DEF SagaOf
<1>6. {d} \in SUBSET Components /\ \A x \in {d} : SagaOf[x] = "none"
  BY <1>3, <1>4
<1>7. Saga!SagaStart
  BY <1>3, <1>5, <1>6 DEF Saga!SagaStart, SagaOf, KeptOf
<1> QED
  BY <1>7 DEF Saga!SagaNext

LEMMA DesignStays ==
  ASSUME [Next]_vars
  PROVE  design' = design
<1>1. ASSUME NEW t \in Task, (\E w \in Worker : Pick(t, w)) \/ Succeed(t) \/ Fail(t)
      PROVE  design' = design
  BY <1>1, ReactKeepsDesign DEF Pick, Succeed, Fail, flow
<1>2. ASSUME NEW g \in Gate, PassGate(g)
      PROVE  design' = design
  BY <1>2, ReactKeepsDesign DEF PassGate
<1> QED
  BY <1>1, <1>2, WhatHappens DEF Aside, Cancel, Start, flow

LEMMA SagaStep ==
  ASSUME FlowInv, FlowInv', [Next]_vars
  PROVE  Saga!SagaNext \/ UNCHANGED Saga!sagaVars
<1>0. WorkTypes /\ WorkTypes' /\ design' = design
  BY DesignStays DEF FlowInv
<1>1. CASE design \notin Components
  BY <1>0, <1>1, SagaStutters
<1>2. ASSUME UNCHANGED flow, Undone' = Undone
      PROVE  UNCHANGED Saga!sagaVars
  <2>1. Stage' = Stage /\ Kept' = Kept
    BY <1>2 DEF flow, Stage, Kept, Noted, Steps
  <2> QED
    BY <1>0, <2>1, SagaStutters
<1>3. ASSUME design \in Components, NEW t \in Task, (\E w \in Worker : Pick(t, w)) \/ Succeed(t) \/ Fail(t)
      PROVE  Saga!SagaNext \/ UNCHANGED Saga!sagaVars
  <2>1. CASE \E w \in Worker : Pick(t, w)
    BY <1>0, <1>2, <2>1, AttemptsKeep DEF Pick
  <2>2. ASSUME NEW v \in {"done", "failed"}, NEW e,
               act[t] = "running", ReactsTo([act EXCEPT ![t] = v], passed, e), mode # "deploy"
        PROVE  Saga!SagaNext \/ UNCHANGED Saga!sagaVars
    <3>1. CASE mode = "back"
      BY <1>0, <1>3, <2>2, <3>1, BackIsClose
    <3>2. CASE mode = "unwind" /\ t \in Step
      <4>1. \A s \in Step : [act EXCEPT ![t] = v][Undo(s)] = act[Undo(s)]
        BY <1>0, <3>2, UndoTasks DEF WorkTypes
      <4> QED
        BY <1>0, <2>2, <3>2, <4>1, OtherIsStutter
    <3>3. ASSUME mode = "unwind", NEW s \in Step, t = Undo(s)
          PROVE  Saga!SagaNext
      BY <1>0, <1>3, <2>2, <3>3, RollbackIsDealWith
    <3> QED
      BY <1>0, <2>2, <3>1, <3>2, <3>3 DEF WorkTypes, Task
  <2>3. CASE Succeed(t)
    <3>1. act[t] = "running" /\ ReactsTo([act EXCEPT ![t] = "done"], passed, NotedWith(t))
      BY <2>3, SucceedReacts DEF Succeed
    <3> QED
      BY <1>0, <1>3, <2>2, <2>3, <3>1, ReturnIsDo
  <2>4. CASE Fail(t)
    <3>1. CASE UNCHANGED flow /\ act' = [act EXCEPT ![t] = "queued"]
      BY <1>0, <1>2, <2>4, <3>1, AttemptsKeep DEF Fail
    <3>2. CASE React([act EXCEPT ![t] = "failed"], passed, executed)
      <4>1. act[t] = "running" /\ ReactsTo([act EXCEPT ![t] = "failed"], passed, executed)
        BY <2>4, <3>2, FailReacts DEF Fail
      <4> QED
        BY <1>0, <1>3, <2>2, <4>1, FailIsGiveUp
    <3> QED
      BY <2>4, <3>1, <3>2 DEF Fail
  <2> QED
    BY <1>3, <2>1, <2>3, <2>4
<1>4. ASSUME design \in Components, NEW g \in Gate, PassGate(g)
      PROVE  Saga!SagaNext \/ UNCHANGED Saga!sagaVars
  <2>1. ReactsTo(act, passed \cup {g}, executed)
    BY <1>4, GateReacts
  <2> QED
    BY <1>0, <1>4, <2>1, GateIsComplete, OtherIsStutter, BackIsClose DEF WorkTypes
<1>5. CASE design \in Components /\ Cancel
  BY <1>0, <1>5, CancelIsGiveUp
<1>6. ASSUME design \in Components, NEW c \in Command, Start(c)
      PROVE  Saga!SagaNext
  BY <1>0, <1>6, StartIsStart
<1>7. CASE Aside
  BY <1>2, <1>7, AsideKeeps DEF Aside
<1> QED
  BY <1>1, <1>3, <1>4, <1>5, <1>6, <1>7, WhatHappens

LEMMA FlowInit == Init => FlowInv /\ Saga!SagaInit
<1> SUFFICES ASSUME Init
             PROVE  FlowInv /\ Saga!SagaInit
  OBVIOUS
<1>1. WorkTypes /\ NotStarted
  BY TypeInit DEF Init, NotStarted
<1>2. (\A s \in Step : act[s] = "idle" /\ act[Undo(s)] = "idle")
      /\ mode = "deploy" /\ executed = <<>> /\ todo = <<>> /\ status = "none"
  BY UndoTasks DEF Init
<1>3. Begun /\ Deploying
  BY <1>2 DEF Begun, Deploying
<1>4. Unwinding
  BY <1>2 DEF Unwinding, InOrder, Backwards
<1>5. Stage = "none" /\ (Noted \ Undone) = {}
  BY <1>2 DEF Stage, Noted, Undone, ToSet
<1>6. Saga!SagaInit
  BY <1>5 DEF Saga!SagaInit
<1> QED
  BY <1>1, <1>3, <1>4, <1>6 DEF FlowInv

\* The workflow generated for a component does its steps in an order of the
\* composition, completes with all of them or gives up once, and rolls back what
\* its code has noted, each step before those it built upon: for every
\* composition, every number of attempts, whatever workers and commands do.
THEOREM SagaImplemented == Spec => ImplementsSaga
<1>1. FlowInv /\ [Next]_vars => FlowInv'
  BY FlowStep
<1>2. FlowInv /\ FlowInv' /\ [Next]_vars => [Saga!SagaNext]_(Saga!sagaVars)
  BY SagaStep
<1> QED
  BY <1>1, <1>2, FlowInit, PTL DEF Spec, ImplementsSaga, Saga!SagaSpec

-----------------------------------------------------------------------------
(* Where the rollback does reach every step that was executed. *)

\* No two steps of the deploy may be under way at once.
Sequential(d) == \A s, t \in Steps(d) : s = t \/ <<s, t>> \in Order \/ <<t, s>> \in Order

\* From the catch on: a step has failed, and each one that is done has been dealt
\* with or is on the list.
AllListed == mode # "deploy" /\ design.kind = "component" =>
  /\ \E s \in Steps(design) : act[s] = "failed"
  /\ \A s \in Steps(design) : act[s] = "done" => s \in Undone \cup ToSet(todo)

\* All an event does to the activities is to end attempts.
Settled(a) == \A t \in Task : a[t] = act[t] \/ (act[t] = "running" /\ a[t] \in {"done", "failed"})

\* Once a step has failed none of the others returns any more: those before it
\* have, those after it are not begun.
LEMMA NoneReturns ==
  ASSUME FlowInv, Sequential(design), NEW f \in Steps(design), act[f] = "failed",
         NEW s \in Steps(design)
  PROVE  act[s] # "running"
<1> SUFFICES ASSUME act[s] = "running"
             PROVE  FALSE
  OBVIOUS
<1>1. s \in Step /\ f \in Step /\ s # f
  BY DEF Steps
<1>2. ~Over(s, act, passed) /\ ~Over(f, act, passed)
  BY <1>1, TaskType DEF Over
<1>3. s \notin Earlier[f] /\ f \notin Earlier[s]
  BY <1>1, <1>2 DEF FlowInv, Begun
<1> QED
  BY <1>1, <1>3 DEF Sequential, Earlier

\* The next rollback, or none, is begun when one is over.
LEMMA ListShrinks ==
  ASSUME FlowInv, mode = "unwind", NEW a, Settled(a), UndoOver(a), Catches(a, Tail(todo)),
         NEW s \in Step, s \in Undone \cup ToSet(todo)
  PROVE  s \in Undone' \cup ToSet(todo')
<1> DEFINE left == Tail(todo)
<1>1. todo \in Seq(Step) /\ todo # <<>> /\ Catches(a, left)
  BY DEF FlowInv, WorkTypes
<1>2. /\ left \in Seq(Step) /\ Len(left) = Len(todo) - 1 /\ Len(todo) \in Nat /\ Len(todo) >= 1
      /\ \A i \in 1..Len(left) : left[i] = todo[i + 1]
  BY <1>1, HeadTailProperties
<1> HIDE DEF left
<1>3. a[Undo(s)] \in {"done", "failed"} \/ s \in ToSet(left)
  <2>1. CASE s \in Undone
    <3>1. Undo(s) \in Task /\ act[Undo(s)] \in {"done", "failed"}
      BY <2>1, UndoTasks DEF Undone
    <3> QED
      BY <3>1 DEF Settled
  <2>2. CASE s \in ToSet(todo)
    <3>1. PICK i \in 1..Len(todo) : s = todo[i]
      BY <1>1, <2>2, InSet
    <3>2. CASE i = 1
      BY <3>1, <3>2 DEF UndoOver
    <3>3. CASE i # 1
      <4>1. i - 1 \in 1..Len(left) /\ (i - 1) + 1 = i
        BY <1>2, <3>1, <3>3
      <4>2. left[i - 1] = s
        BY <1>2, <3>1, <4>1
      <4> QED
        BY <1>2, <4>1, <4>2, InSet
    <3> QED
      BY <3>2, <3>3
  <2> QED
    BY <2>1, <2>2
<1>4. todo' = left \/ (left = <<>> /\ act' = a)
  BY <1>1 DEF Catches, RollsBack, TurnsBack, Ends
<1>5. ToSet(<<>>) = {}
  BY DEF ToSet
<1>6. CASE s \in ToSet(left)
  BY <1>4, <1>5, <1>6
<1>7. CASE a[Undo(s)] \in {"done", "failed"} /\ s \notin ToSet(left)
  <2>1. left # <<>> => s # left[1]
    BY <1>2, <1>7, InSet
  <2>2. act'[Undo(s)] = a[Undo(s)]
    BY <1>1, <2>1 DEF Catches, RollsBack, TurnsBack, UndosStay, Ends
  <2> QED
    BY <1>7, <2>2 DEF Undone
<1> QED
  BY <1>3, <1>6, <1>7

LEMMA ListedReacts ==
  ASSUME FlowInv, WorkTypes', Sequential(design), AllListed,
         NEW a, NEW ps, NEW e, Settled(a), ReactsTo(a, ps, e)
  PROVE  AllListed'
<1>0. WorkTypes /\ design' = design /\ e \in Seq(Step)
  BY DEF FlowInv, ReactsTo, Event
<1>1. \A s \in Step : /\ act'[s] = "done" <=> a[s] = "done"
                      /\ act'[s] = "failed" <=> a[s] = "failed"
  BY DEF ReactsTo, Begins
<1>2. Steps(design) \subseteq Step /\ Steps(design) = Step \cap Main
  BY StepsAre
<1> SUFFICES ASSUME mode' # "deploy", design.kind = "component"
             PROVE  /\ \E s \in Steps(design) : act'[s] = "failed"
                    /\ \A s \in Steps(design) : act'[s] = "done" => s \in Undone' \cup ToSet(todo')
  BY <1>0 DEF AllListed
<1>3. CASE mode = "deploy"
  <2>1. Broken(a, Main) /\ (RollsBack(a, ToUndo(e)) \/ TurnsBack(a, ToUndo(e)))
    BY <1>3 DEF ReactsTo, Outcome, Catches, Ends, StaysIn
  <2>2. todo' = ToUndo(e)
    BY <2>1 DEF RollsBack, TurnsBack
  <2>3. ToSet(todo') = ToSet(e)
    BY <1>0, <2>2, ReversedSet
  <2>4. \A s \in Step : a[s] = "done" => s \in ToSet(e)
    BY <1>3 DEF ReactsTo, Event
  <2> QED
    BY <1>1, <1>2, <2>1, <2>3, <2>4 DEF Broken
<1>4. CASE mode # "deploy"
  <2>1. PICK f \in Steps(design) : act[f] = "failed"
    BY <1>4 DEF AllListed
  <2>2. ASSUME NEW s \in Steps(design)
        PROVE  a[s] = act[s]
    <3>1. s \in Task /\ act[s] # "running"
      BY <1>2, <2>1, UndoTasks, NoneReturns
    <3> QED
      BY <3>1 DEF Settled
  <2>3. ASSUME NEW s \in Step, s \in Undone \cup ToSet(todo)
        PROVE  s \in Undone' \cup ToSet(todo')
    <3>1. CASE mode = "unwind" /\ UndoOver(a) /\ Catches(a, Tail(todo))
      BY <2>3, <3>1, ListShrinks
    <3>2. CASE StaysIn(a) \/ Ends(a, "failed")
      <4>1. todo' = todo /\ act'[Undo(s)] = a[Undo(s)]
        BY <3>2 DEF StaysIn, Ends, UndosStay
      <4>2. s \in Undone => a[Undo(s)] \in {"done", "failed"}
        BY UndoTasks DEF Undone, Settled
      <4> QED
        BY <2>3, <4>1, <4>2 DEF Undone
    <3> QED
      BY <1>4, <3>1, <3>2 DEF ReactsTo, Outcome
  <2> QED
    BY <1>1, <1>2, <1>4, <2>1, <2>2, <2>3 DEF AllListed
<1> QED
  BY <1>3, <1>4

LEMMA ListedStep ==
  ASSUME FlowInv, FlowInv', Sequential(design), AllListed, [Next]_vars
  PROVE  AllListed'
<1>0. WorkTypes /\ WorkTypes' /\ act \in [Task -> TaskState]
  BY DEF FlowInv, WorkTypes, TaskState
<1>1. ASSUME UNCHANGED <<mode, design, todo>>, Undone' = Undone,
             \A s \in Step : /\ act'[s] = "done" <=> act[s] = "done"
                             /\ act'[s] = "failed" <=> act[s] = "failed"
      PROVE  AllListed'
  <2>1. Steps(design) \subseteq Step
    BY DEF Steps
  <2> QED
    BY <1>1, <2>1 DEF AllListed
<1>2. ASSUME NEW t \in Task, act[t] = "running", NEW v \in {"done", "failed"}
      PROVE  Settled([act EXCEPT ![t] = v])
  BY <1>0, <1>2 DEF Settled
<1>3. ASSUME NEW t \in Task, NEW v \in {"queued", "running"}, act[t] \in {"queued", "running"},
             act' = [act EXCEPT ![t] = v], UNCHANGED flow
      PROVE  AllListed'
  <2>1. Undone' = Undone
    BY <1>0, <1>3, AttemptsKeep
  <2>2. \A s \in Step : /\ act'[s] = "done" <=> act[s] = "done"
                        /\ act'[s] = "failed" <=> act[s] = "failed"
    BY <1>0, <1>3, UndoTasks
  <2> QED
    BY <1>1, <1>3, <2>1, <2>2 DEF flow
<1>4. ASSUME NEW t \in Task, (\E w \in Worker : Pick(t, w)) \/ Succeed(t) \/ Fail(t)
      PROVE  AllListed'
  <2>1. CASE \E w \in Worker : Pick(t, w)
    BY <1>3, <2>1 DEF Pick
  <2>2. CASE Succeed(t)
    <3>1. act[t] = "running"
      BY <2>2 DEF Succeed
    <3> QED
      BY <1>0, <1>2, <2>2, <3>1, SucceedReacts, ListedReacts
  <2>3. CASE Fail(t)
    <3>1. status = "running" /\ act[t] = "running"
      BY <2>3 DEF Fail
    <3>2. CASE act' = [act EXCEPT ![t] = "queued"] /\ UNCHANGED flow
      BY <1>3, <3>1, <3>2
    <3>3. CASE React([act EXCEPT ![t] = "failed"], passed, executed)
      BY <1>0, <1>2, <3>1, <3>3, FailReacts, ListedReacts
    <3> QED
      BY <2>3, <3>2, <3>3 DEF Fail
  <2> QED
    BY <1>4, <2>1, <2>2, <2>3
<1>5. ASSUME NEW g \in Gate, PassGate(g)
      PROVE  AllListed'
  <2>1. Settled(act)
    BY DEF Settled
  <2> QED
    BY <1>0, <1>5, <2>1, GateReacts, ListedReacts
<1>6. CASE Cancel
  BY <1>1, <1>6 DEF Cancel, Close, Undone
<1>7. ASSUME NEW c \in Command, Start(c)
      PROVE  AllListed'
  <2>1. mode' = mode /\ mode = "deploy"
    BY <1>0, <1>7, StartKeeps DEF Start, NotStarted
  <2> QED
    BY <2>1 DEF AllListed
<1>8. CASE Aside
  BY <1>1, <1>8 DEF Aside, flow, tasks, Undone
<1> QED
  BY <1>4, <1>5, <1>6, <1>7, <1>8, WhatHappens

\* The rollback leaves a step out only where branches run in parallel: when the
\* steps of a component are done one after the other, a deploy that failed and
\* went on to its rollback phases has rolled back each one that was executed.
THEOREM SequentialUnwound == Spec => [](Sequential(design) => EveryStepUnwound)
<1> DEFINE Inv == FlowInv /\ (Sequential(design) => AllListed)
<1>1. Init => Inv
  BY FlowInit DEF Init, AllListed
<1>2. Inv /\ [Next]_vars => Inv'
  <2> SUFFICES ASSUME Inv, [Next]_vars
               PROVE  Inv'
    OBVIOUS
  <2>1. FlowInv'
    BY FlowStep
  <2>2. design' = design
    BY DesignStays
  <2>3. Sequential(design') = Sequential(design)
    BY <2>2
  <2>4. Sequential(design) => AllListed'
    BY <2>1, ListedStep
  <2> QED
    BY <2>1, <2>3, <2>4
<1>3. Inv => (Sequential(design) => EveryStepUnwound)
  <2> SUFFICES ASSUME FlowInv, AllListed, mode = "back", design.kind = "component",
                      NEW s \in Main \cap Step, act[s] = "done"
               PROVE  s \in Undone
    BY DEF EveryStepUnwound
  <2>1. s \in Steps(design)
    BY StepsAre
  <2>2. todo = <<>> /\ ToSet(<<>>) = {}
    BY DEF FlowInv, Unwinding, ToSet
  <2> QED
    BY <2>1, <2>2 DEF AllListed
<1> QED
  BY <1>1, <1>2, <1>3, PTL DEF Spec
=============================================================================
