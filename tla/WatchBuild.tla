------------------------------ MODULE WatchBuild ------------------------------
(***************************************************************************)
(* chant build --watch: the debounced watcher (core cli/watch.ts), the     *)
(* builds it starts without waiting for those before (cli/commands/        *)
(* build.ts), what a build reads (discovery/index.ts: some files are       *)
(* folded, that is parsed; the others are executed, in the process or in a *)
(* sandboxed child) and the child's fork (discovery/sandbox/fork.ts).      *)
(*                                                                         *)
(* A file's content is the number of the edit that made it.  The operating *)
(* system is external: notifications of edits arrive, late and together,   *)
(* and a child that is killed is of no account any more.                   *)
(***************************************************************************)
EXTENDS Naturals

CONSTANTS
  File,      \* source files
  Unfolded,  \* sets of them that may be those which do not fold
  Broken,    \* edits that leave a file which cannot be built
  Generated, \* what a build writes for an Op, under the directory watched
  OpChoices, \* whether the project may have an Op
  MaxEdits,  \* edits
  MaxBuilds  \* builds

ASSUME UnfoldedType == Unfolded \subseteq SUBSET File
ASSUME GeneratedType == Generated \notin File
ASSUME OpChoicesType == OpChoices \subseteq BOOLEAN
ASSUME BoundType == MaxEdits \in Nat /\ MaxBuilds \in Nat /\ MaxEdits < MaxBuilds

VARIABLES
  executed,  \* files that are executed rather than folded
  sandbox,   \* --sandbox
  op,        \* whether the project has an Op
  source,    \* what is on disk
  edits,     \* edits so far
  notices,   \* files for which the watcher has a notification to come
  pending,   \* pendingFiles
  timer,     \* whether the debounce timer runs
  begun,     \* builds that have begun
  stage,     \* of a build
  asof,      \* what was on disk when a build began
  got,       \* what a build under way has read
  loaded,    \* the modules the process has imported
  child,     \* the child of a build: whether it runs
  killed,    \* whether it was told to end
  inbox,     \* its events the parent has yet to handle
  clock,     \* whether the parent's timeout is set
  outcome,   \* how its promise was settled
  output,    \* what the output was built from
  writer     \* the build that wrote it

settings == <<executed, sandbox, op>>
disk == <<source, edits>>
watcher == <<notices, pending, timer>>
fork == <<child, killed, inbox, clock, outcome>>
vars == <<settings, disk, watcher, begun, stage, asof, got, loaded, fork, output, writer>>

Build == 1..MaxBuilds
Watched == File \cup {Generated}
Edit == 0..MaxEdits
Unread == MaxEdits + 1
Nothing == [f \in File |-> Unread]

Init == /\ executed \in Unfolded
        /\ sandbox \in BOOLEAN
        /\ op \in OpChoices
        /\ source = [f \in File |-> 0]
        /\ edits = 0
        /\ notices = {}
        /\ pending = {}
        /\ timer = FALSE
        /\ begun = 1
        /\ stage = [b \in Build |-> IF b = 1 THEN "reading" ELSE "none"]
        /\ asof = [b \in Build |-> IF b = 1 THEN source ELSE Nothing]
        /\ got = [b \in Build |-> Nothing]
        /\ loaded = Nothing
        /\ child = [b \in Build |-> "none"]
        /\ killed = [b \in Build |-> FALSE]
        /\ inbox = [b \in Build |-> {}]
        /\ clock = [b \in Build |-> FALSE]
        /\ outcome = [b \in Build |-> "none"]
        /\ output = Nothing
        /\ writer = 0

-----------------------------------------------------------------------------
(* The watcher. *)

\* The process ends with a rejection nobody catches.
Lives == stage[1] # "uncaught"

Save(f) ==
  /\ Lives
  /\ edits < MaxEdits
  /\ edits' = edits + 1
  /\ source' = [source EXCEPT ![f] = edits']
  /\ notices' = notices \cup {f}
  /\ UNCHANGED <<settings, pending, timer, begun, stage, asof, got, loaded, fork, output, writer>>

\* Mutant: while a build is under way nothing is taken down.
ListensBetweenBuilds == \A b \in Build : stage[b] \in {"none", "done"}

\* Whatever goes on.
Listens == TRUE

\* The watcher's callback: the timer starts anew.
Notice(f) ==
  /\ Lives
  /\ f \in notices
  /\ notices' = notices \ {f}
  /\ IF Listens THEN pending' = pending \cup {f} /\ timer' = TRUE
     ELSE UNCHANGED <<pending, timer>>
  /\ UNCHANGED <<settings, disk, begun, stage, asof, got, loaded, fork, output, writer>>

\* The timer fires and the callback of buildCommandWatch begins a build.
Fire ==
  /\ Lives
  /\ timer
  /\ begun < MaxBuilds
  /\ timer' = FALSE
  /\ pending' = {}
  /\ begun' = begun + 1
  /\ stage' = [stage EXCEPT ![begun'] = "reading"]
  /\ asof' = [asof EXCEPT ![begun'] = source]
  /\ UNCHANGED <<settings, disk, notices, got, loaded, fork, output, writer>>

-----------------------------------------------------------------------------
(* A build.  All files are tried to fold first, then those that do not fold *)
(* are executed.                                                            *)

ToRead(b) ==
  LET rest == {f \in File : got[b][f] = Unread}
  IN IF rest \ executed # {} THEN rest \ executed ELSE rest

\* import(path) evaluates a module once in the life of the process.
Imported(f) == IF loaded[f] # Unread THEN loaded[f] ELSE source[f]

InProcess(f) == f \in executed /\ ~sandbox

Read(b, f) ==
  /\ Lives
  /\ stage[b] = "reading"
  /\ f \in ToRead(b)
  /\ \/ /\ InProcess(f)
        /\ got' = [got EXCEPT ![b][f] = Imported(f)]
        /\ loaded' \in {[loaded EXCEPT ![f] = Imported(f)]}
                         \cup (IF Imported(f) \in Broken THEN {loaded} ELSE {})
     \/ /\ ~InProcess(f)
        /\ got' = [got EXCEPT ![b][f] = source[f]]
        /\ UNCHANGED loaded
  /\ UNCHANGED <<settings, disk, watcher, begun, stage, asof, fork, output, writer>>

AllRead(b) == \A f \in File : got[b][f] # Unread

MustFork == sandbox /\ executed # {}

\* Mutant: the output itself is a file that is watched.
GeneratesAlways == TRUE

\* An Op's workflow, worker and activities are written to dist/ops/.
Generates == op

\* Nothing is written after an error; the result of an older build is written
\* over that of a newer one.
Finish(b, fine) ==
  /\ stage' = [stage EXCEPT ![b] = "done"]
  /\ IF fine /\ \A f \in File : got[b][f] \notin Broken
     THEN /\ output' = got[b] /\ writer' = b
          /\ notices' = IF Generates THEN notices \cup {Generated} ELSE notices
     ELSE UNCHANGED <<output, writer, notices>>
  /\ got' = [got EXCEPT ![b] = Nothing]

BuildWithoutChild(b) ==
  /\ Lives
  /\ stage[b] = "reading"
  /\ AllRead(b) /\ ~MustFork
  /\ Finish(b, TRUE)
  /\ UNCHANGED <<settings, disk, pending, timer, begun, asof, loaded, fork>>

\* One child stands for all those of a build: that of the executed files and those
\* of its policies, if there are any, which are sent their input, too.  The spawn
\* may fail.
Fork(b) ==
  /\ Lives
  /\ stage[b] = "reading"
  /\ AllRead(b) /\ sandbox
  /\ stage' = [stage EXCEPT ![b] = "child"]
  /\ clock' = [clock EXCEPT ![b] = TRUE]
  /\ \E spawned \in BOOLEAN :
       /\ child' = [child EXCEPT ![b] = IF spawned THEN "alive" ELSE "none"]
       /\ inbox' = [inbox EXCEPT ![b] = IF spawned THEN {} ELSE {"error"}]
  /\ UNCHANGED <<settings, disk, watcher, begun, asof, got, loaded, killed, outcome, output, writer>>

\* The build goes on with what the child has answered, or without: what the child
\* of executed files rejects is one more error of the build, and what that of the
\* policies rejects is caught around every build but the first.
BuildWithChild(b) ==
  /\ Lives
  /\ stage[b] = "child"
  /\ outcome[b] # "none"
  /\ Finish(b, outcome[b] = "resolved")
  /\ UNCHANGED <<settings, disk, pending, timer, begun, asof, loaded, fork>>

\* Nobody catches what the policies' child of the first build rejects: the process
\* ends.
FirstBuildThrows(b) ==
  /\ Lives
  /\ b = 1
  /\ stage[b] = "child"
  /\ outcome[b] = "rejected"
  /\ stage' = [stage EXCEPT ![b] = "uncaught"]
  /\ UNCHANGED <<settings, disk, watcher, begun, asof, got, loaded, fork, output, writer>>

-----------------------------------------------------------------------------
(* forkSandboxed.  The first event that is handled settles the promise; the *)
(* handlers of all others return at once, so they are left out after that.  *)

Unsettled(b) == stage[b] = "child" /\ outcome[b] = "none"

Arrives(b, e) == inbox' = [inbox EXCEPT ![b] = @ \cup {e}]

Answers(b) ==
  /\ Lives
  /\ Unsettled(b) /\ child[b] = "alive"
  /\ Arrives(b, "message")
  /\ UNCHANGED <<settings, disk, watcher, begun, stage, asof, got, loaded, child, killed, clock, outcome, output, writer>>

SendFails(b) ==
  /\ Lives
  /\ Unsettled(b) /\ child[b] # "none"
  /\ Arrives(b, "not sent")
  /\ UNCHANGED <<settings, disk, watcher, begun, stage, asof, got, loaded, child, killed, clock, outcome, output, writer>>

\* The child crashes or exits.
Dies(b) ==
  /\ Lives
  /\ Unsettled(b) /\ child[b] = "alive"
  /\ child' = [child EXCEPT ![b] = "dead"]
  /\ Arrives(b, "exit")
  /\ UNCHANGED <<settings, disk, watcher, begun, stage, asof, got, loaded, killed, clock, outcome, output, writer>>

\* Mutant: a child that has answered is expected to exit by itself.
KillsButOnAnswer == {"not sent", "timeout"}

\* The handlers that kill the child.
KillsOn == {"message", "not sent", "timeout"}

Settle(b, e) ==
  /\ Lives
  /\ Unsettled(b)
  /\ outcome' = [outcome EXCEPT ![b] = IF e = "message" THEN "resolved" ELSE "rejected"]
  /\ clock' = [clock EXCEPT ![b] = FALSE]
  /\ killed' = [killed EXCEPT ![b] = e \in KillsOn]
  /\ inbox' = [inbox EXCEPT ![b] = {}]
  /\ UNCHANGED <<settings, disk, watcher, begun, stage, asof, got, loaded, child, output, writer>>

Handle(b) == \E e \in inbox[b] : Settle(b, e)

TimesOut(b) == clock[b] /\ Settle(b, "timeout")

-----------------------------------------------------------------------------

Advance(b) == \/ \E f \in File : Read(b, f)
              \/ BuildWithoutChild(b) \/ Fork(b)
              \/ BuildWithChild(b) \/ FirstBuildThrows(b)

Next == \/ \E f \in File : Save(f)
        \/ \E f \in Watched : Notice(f)
        \/ Fire
        \/ \E b \in Build : \/ Advance(b) \/ Handle(b) \/ TimesOut(b)
                            \/ Answers(b) \/ SendFails(b) \/ Dies(b)

Spec == Init /\ [][Next]_vars

\* Notifications arrive, timers fire and promises that are settled go on.  Nothing
\* makes a child answer or exit by itself.
FairSpec ==
  /\ Spec
  /\ \A f \in Watched : WF_vars(Notice(f))
  /\ WF_vars(Fire)
  /\ \A b \in Build : /\ WF_vars(Advance(b))
                      /\ WF_vars(TimesOut(b))
                      /\ WF_vars(Handle(b))

-----------------------------------------------------------------------------
(* Properties. *)

\* Every variable stays within its type; no timeout is left set for a promise that
\* is settled, which would keep the process alive.
TypeOK ==
  /\ executed \in Unfolded /\ sandbox \in BOOLEAN /\ op \in OpChoices
  /\ source \in [File -> Edit] /\ edits \in Edit
  /\ notices \subseteq Watched /\ pending \subseteq Watched
  /\ timer \in BOOLEAN /\ (timer <=> pending # {})
  /\ begun \in Build
  /\ stage \in [Build -> {"none", "reading", "child", "done", "uncaught"}]
  /\ \A b \in Build : stage[b] = "none" <=> b > begun
  /\ asof \in [Build -> [File -> Edit \cup {Unread}]]
  /\ got \in [Build -> [File -> Edit \cup {Unread}]]
  /\ loaded \in [File -> Edit \cup {Unread}]
  /\ child \in [Build -> {"none", "alive", "dead"}]
  /\ killed \in [Build -> BOOLEAN]
  /\ inbox \in [Build -> SUBSET {"message", "exit", "error", "not sent"}]
  /\ clock \in [Build -> BOOLEAN]
  /\ outcome \in [Build -> {"none", "resolved", "rejected"}]
  /\ \A b \in Build : clock[b] <=> Unsettled(b)
  /\ output \in [File -> Edit \cup {Unread}]
  /\ writer \in 0..begun

\* Whichever of answer, exit, error, failed send and timeout settles the promise,
\* the child is gone or has been told to go by then.
ChildrenReaped ==
  \A b \in Build : outcome[b] # "none" => child[b] # "alive" \/ killed[b]

\* No build begins but the first and one for every edit at most, in a project
\* without an Op: nothing a build itself does begins the next.
EditsPayForBuilds == ~op => begun <= edits + 1

\* When the editing ends every file has been read again by a build that began
\* after it, and the output is built from what is on disk, although children may
\* hang, unless a newer build has failed or was overtaken by an older one that
\* wrote last; only modules the process had imported before are not looked at.
\* This is of projects without an Op, whose builds go on for ever, and as long as
\* the first build does not end the process.
OutputFollows ==
  ~op => <>[](\/ ~Lives
              \/ /\ \A b \in Build : stage[b] \in {"none", "done"}
                 /\ asof[begun] = source
                 /\ writer = begun => \A f \in File : ~InProcess(f) => output[f] = source[f])
=============================================================================
