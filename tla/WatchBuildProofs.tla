--------------------------- MODULE WatchBuildProofs ---------------------------
(***************************************************************************)
(* Theorems about WatchBuild, for any files and edits.                     *)
(***************************************************************************)
EXTENDS WatchBuild, FiniteSetTheorems, TLAPS

Event == {"message", "exit", "error", "not sent"}

\* What of the types the argument needs.
ForkTypes ==
  /\ begun \in Nat
  /\ stage \in [Build -> {"none", "reading", "child", "done", "uncaught"}]
  /\ child \in [Build -> {"none", "alive", "dead"}]
  /\ killed \in [Build -> BOOLEAN]
  /\ inbox \in [Build -> SUBSET Event]
  /\ outcome \in [Build -> {"none", "resolved", "rejected"}]

\* The event that a child has exited comes from one that has, the event that it could
\* not be spawned from one that never was.
EventsAreTrue(b) ==
  /\ "exit" \in inbox[b] => child[b] = "dead"
  /\ "error" \in inbox[b] => child[b] = "none"

\* Only what has been forked has a promise to settle, and only what has begun has
\* been forked.
SettledAfterFork(b) ==
  /\ outcome[b] # "none" => stage[b] \in {"child", "done", "uncaught"}
  /\ stage[b] # "none" => b <= begun

Reaped(b) == outcome[b] # "none" => child[b] # "alive" \/ killed[b]

ReapInv ==
  /\ ForkTypes
  /\ \A b \in Build : EventsAreTrue(b) /\ SettledAfterFork(b) /\ Reaped(b)

LEMMA ReapInit == Init => ReapInv
<1> SUFFICES ASSUME Init PROVE ReapInv
  OBVIOUS
<1>1. 1 \in Build /\ Build \subseteq Nat
  BY BoundType DEF Build
<1>2. ForkTypes
  BY <1>1 DEF Init, ForkTypes, Event
<1>3. ASSUME NEW b \in Build PROVE EventsAreTrue(b) /\ SettledAfterFork(b) /\ Reaped(b)
  BY <1>1 DEF Init, EventsAreTrue, SettledAfterFork, Reaped
<1> QED
  BY <1>2, <1>3 DEF ReapInv

\* A build begins: it is none that was forked before.
LEMMA FireReaps == ReapInv /\ Fire => ReapInv'
<1> SUFFICES ASSUME ReapInv, Fire PROVE ReapInv'
  OBVIOUS
<1>1. Build \subseteq Nat
  BY BoundType DEF Build
<1>2. ForkTypes'
  <2>1. begun' \in Nat /\ stage' = [stage EXCEPT ![begun'] = "reading"]
    BY DEF ReapInv, ForkTypes, Fire
  <2>2. stage' \in [Build -> {"none", "reading", "child", "done", "uncaught"}]
    BY <2>1 DEF ReapInv, ForkTypes
  <2> QED
    BY <2>1, <2>2 DEF ReapInv, ForkTypes, Fire, fork
<1>3. ASSUME NEW b \in Build
      PROVE  EventsAreTrue(b)' /\ SettledAfterFork(b)' /\ Reaped(b)'
  <2>1. CASE b = begun + 1
    <3>1. outcome[b] = "none"
      BY <1>1, <2>1 DEF ReapInv, ForkTypes, SettledAfterFork
    <3> QED
      BY <2>1, <3>1 DEF ReapInv, ForkTypes, Fire, fork, EventsAreTrue, SettledAfterFork, Reaped
  <2>2. CASE b # begun + 1
    <3>1. stage'[b] = stage[b]
      BY <2>2 DEF ReapInv, ForkTypes, Fire
    <3> QED
      BY <1>1, <3>1 DEF ReapInv, ForkTypes, Fire, fork, EventsAreTrue, SettledAfterFork, Reaped
  <2> QED
    BY <2>1, <2>2
<1> QED
  BY <1>2, <1>3 DEF ReapInv

\* A build finishes, or ends the process: what its child has been told stays.
LEMMA FinishReaps ==
  ASSUME ReapInv, NEW b \in Build, NEW end \in {"done", "uncaught"},
         stage' = [stage EXCEPT ![b] = end], stage[b] # "none",
         UNCHANGED <<begun, fork>>
  PROVE  ReapInv'
<1>1. ForkTypes'
  BY DEF ReapInv, ForkTypes, fork
<1>2. ASSUME NEW c \in Build
      PROVE  EventsAreTrue(c)' /\ SettledAfterFork(c)' /\ Reaped(c)'
  <2>1. CASE c = b
    <3>1. stage'[c] = end
      BY <2>1 DEF ReapInv, ForkTypes
    <3> QED
      BY <2>1, <3>1 DEF ReapInv, ForkTypes, fork, EventsAreTrue, SettledAfterFork, Reaped
  <2>2. CASE c # b
    <3>1. stage'[c] = stage[c]
      BY <2>2 DEF ReapInv, ForkTypes
    <3> QED
      BY <3>1 DEF ReapInv, fork, EventsAreTrue, SettledAfterFork, Reaped
  <2> QED
    BY <2>1, <2>2
<1> QED
  BY <1>1, <1>2 DEF ReapInv

\* A child is spawned, or not.
LEMMA ForkReaps == ASSUME ReapInv, NEW b \in Build, Fork(b) PROVE ReapInv'
<1>1. PICK spawned \in BOOLEAN :
        /\ child' = [child EXCEPT ![b] = IF spawned THEN "alive" ELSE "none"]
        /\ inbox' = [inbox EXCEPT ![b] = IF spawned THEN {} ELSE {"error"}]
  BY DEF Fork
<1>2. /\ stage[b] = "reading" /\ stage' = [stage EXCEPT ![b] = "child"]
      /\ UNCHANGED <<begun, killed, outcome>>
  BY DEF Fork
<1>3. ForkTypes'
  BY <1>1, <1>2 DEF ReapInv, ForkTypes, Event
<1>4. ASSUME NEW c \in Build
      PROVE  EventsAreTrue(c)' /\ SettledAfterFork(c)' /\ Reaped(c)'
  <2>1. CASE c = b
    <3>1. outcome'[b] = "none" /\ b <= begun
      BY <1>2 DEF ReapInv, ForkTypes, SettledAfterFork
    <3>2. EventsAreTrue(b)'
      BY <1>1 DEF ReapInv, ForkTypes, EventsAreTrue
    <3> QED
      BY <1>2, <2>1, <3>1, <3>2 DEF SettledAfterFork, Reaped
  <2>2. CASE c # b
    <3>1. child'[c] = child[c] /\ inbox'[c] = inbox[c] /\ stage'[c] = stage[c]
      BY <1>1, <1>2, <2>2 DEF ReapInv, ForkTypes
    <3> QED
      BY <1>2, <3>1 DEF ReapInv, EventsAreTrue, SettledAfterFork, Reaped
  <2> QED
    BY <2>1, <2>2
<1> QED
  BY <1>3, <1>4 DEF ReapInv

\* The child answers, crashes, exits, or cannot be reached: nothing is settled yet.
LEMMA ArrivalReaps ==
  ASSUME ReapInv, NEW b \in Build, Answers(b) \/ SendFails(b) \/ Dies(b)
  PROVE  ReapInv'
<1>1. PICK e \in Event :
        /\ inbox' = [inbox EXCEPT ![b] = @ \cup {e}]
        /\ e = "exit" => child'[b] = "dead"
        /\ e # "error"
  BY DEF ReapInv, ForkTypes, Answers, SendFails, Dies, Arrives, Event
<1>2. /\ UNCHANGED <<begun, stage, killed, outcome>>
      /\ outcome[b] = "none"
      /\ child' = child \/ (child[b] = "alive" /\ child' = [child EXCEPT ![b] = "dead"])
  BY DEF Answers, SendFails, Dies, Unsettled
<1>3. ForkTypes'
  BY <1>1, <1>2 DEF ReapInv, ForkTypes
<1>4. ASSUME NEW c \in Build
      PROVE  EventsAreTrue(c)' /\ SettledAfterFork(c)' /\ Reaped(c)'
  <2>1. CASE c = b
    <3>1. inbox'[b] = inbox[b] \cup {e}
      BY <1>1 DEF ReapInv, ForkTypes
    <3>2. child'[b] = child[b] \/ (child[b] = "alive" /\ child'[b] = "dead")
      BY <1>2 DEF ReapInv, ForkTypes
    <3>3. EventsAreTrue(b)'
      BY <1>1, <3>1, <3>2 DEF ReapInv, EventsAreTrue
    <3> QED
      BY <1>2, <2>1, <3>3 DEF ReapInv, SettledAfterFork, Reaped
  <2>2. CASE c # b
    <3>1. child'[c] = child[c] /\ inbox'[c] = inbox[c]
      BY <1>1, <1>2, <2>2 DEF ReapInv, ForkTypes
    <3> QED
      BY <1>2, <3>1 DEF ReapInv, EventsAreTrue, SettledAfterFork, Reaped
  <2> QED
    BY <2>1, <2>2
<1> QED
  BY <1>3, <1>4 DEF ReapInv

\* The promise is settled: by an event that tells of the child's end, or with a kill.
LEMMA SettleReaps ==
  ASSUME ReapInv, NEW b \in Build, NEW e, Settle(b, e), e \in inbox[b] \/ e = "timeout"
  PROVE  ReapInv'
<1>1. /\ UNCHANGED <<begun, stage, child>>
      /\ stage[b] = "child"
      /\ killed' = [killed EXCEPT ![b] = e \in KillsOn]
      /\ inbox' = [inbox EXCEPT ![b] = {}]
      /\ \E o \in {"resolved", "rejected"} : outcome' = [outcome EXCEPT ![b] = o]
  BY DEF Settle, Unsettled
<1>2. (e \in KillsOn) \in BOOLEAN
  BY DEF KillsOn
<1>3. ForkTypes'
  BY <1>1, <1>2 DEF ReapInv, ForkTypes
<1>4. ASSUME NEW c \in Build
      PROVE  EventsAreTrue(c)' /\ SettledAfterFork(c)' /\ Reaped(c)'
  <2>1. CASE c = b
    <3>1. child[b] # "alive" \/ e \in KillsOn
      BY DEF ReapInv, ForkTypes, EventsAreTrue, Event, KillsOn
    <3>2. Reaped(b)'
      BY <1>1, <1>2, <3>1 DEF ReapInv, ForkTypes, Reaped
    <3>3. inbox'[b] = {}
      BY <1>1 DEF ReapInv, ForkTypes
    <3> QED
      BY <1>1, <2>1, <3>2, <3>3 DEF ReapInv, EventsAreTrue, SettledAfterFork
  <2>2. CASE c # b
    <3>1. killed'[c] = killed[c] /\ inbox'[c] = inbox[c] /\ outcome'[c] = outcome[c]
      BY <1>1, <2>2 DEF ReapInv, ForkTypes
    <3> QED
      BY <1>1, <3>1 DEF ReapInv, EventsAreTrue, SettledAfterFork, Reaped
  <2> QED
    BY <2>1, <2>2
<1> QED
  BY <1>3, <1>4 DEF ReapInv

LEMMA ReapNext == ReapInv /\ [Next]_vars => ReapInv'
<1> SUFFICES ASSUME ReapInv, [Next]_vars PROVE ReapInv'
  OBVIOUS
<1>1. ASSUME UNCHANGED <<begun, stage, fork>> PROVE ReapInv'
  BY <1>1 DEF ReapInv, ForkTypes, fork, EventsAreTrue, SettledAfterFork, Reaped
<1>2. ASSUME (\E f \in File : Save(f)) \/ (\E f \in Watched : Notice(f)) PROVE ReapInv'
  BY <1>1, <1>2 DEF Save, Notice
<1>3. ASSUME NEW b \in Build, Advance(b) PROVE ReapInv'
  <2>1. ASSUME NEW f \in File, Read(b, f) PROVE ReapInv'
    BY <1>1, <2>1 DEF Read
  <2>2. CASE BuildWithoutChild(b) \/ BuildWithChild(b) \/ FirstBuildThrows(b)
    <3>1. PICK end \in {"done", "uncaught"} : stage' = [stage EXCEPT ![b] = end]
      BY <2>2 DEF BuildWithoutChild, BuildWithChild, FirstBuildThrows, Finish
    <3>2. stage[b] # "none" /\ UNCHANGED <<begun, fork>>
      BY <2>2 DEF BuildWithoutChild, BuildWithChild, FirstBuildThrows
    <3> QED
      BY <3>1, <3>2, FinishReaps
  <2> QED
    BY <1>3, <2>1, <2>2, ForkReaps DEF Advance
<1>4. ASSUME NEW b \in Build, Handle(b) \/ TimesOut(b) PROVE ReapInv'
  BY <1>4, SettleReaps DEF Handle, TimesOut
<1>5. CASE UNCHANGED vars
  BY <1>1, <1>5 DEF vars
<1> QED
  BY <1>2, <1>3, <1>4, <1>5, FireReaps, ArrivalReaps DEF Next

\* No child outlives the promise of its fork untold, whichever of answer, exit, error,
\* failed send and timeout comes first, for any number of builds that overlap.
THEOREM Reaps == Spec => []ChildrenReaped
<1>1. ReapInv => ChildrenReaped
  BY DEF ReapInv, Reaped, ChildrenReaped
<1> QED
  BY <1>1, ReapInit, ReapNext, PTL DEF Spec

-----------------------------------------------------------------------------
(* Type correctness, and what builds are paid for with.                        *)

WatchTypes ==
  /\ executed \in Unfolded /\ sandbox \in BOOLEAN /\ op \in OpChoices
  /\ source \in [File -> Edit] /\ edits \in Edit
  /\ notices \subseteq Watched /\ IsFiniteSet(notices)
  /\ pending \subseteq Watched
  /\ timer \in BOOLEAN /\ (timer <=> pending # {})
  /\ begun \in Build
  /\ asof \in [Build -> [File -> Edit \cup {Unread}]]

\* A notification still to come, or files taken down for the next build, may each
\* begin one build more, and each stand for an edit of their own, unless builds
\* themselves write what is watched.
Account == begun + Cardinality(notices) + (IF pending = {} THEN 0 ELSE 1) <= edits + 1
Paid == ~op => Account

ReadTypes ==
  /\ got \in [Build -> [File -> Edit \cup {Unread}]]
  /\ loaded \in [File -> Edit \cup {Unread}]
  /\ output \in [File -> Edit \cup {Unread}]
  /\ writer \in 0..begun
  /\ \A b \in Build : stage[b] = "none" <=> b > begun

ClockTypes == /\ clock \in [Build -> BOOLEAN]
              /\ \A b \in Build : clock[b] <=> Unsettled(b)

TypeInv == ReapInv /\ WatchTypes /\ Paid /\ ReadTypes /\ ClockTypes

LEMMA Numbers ==
  /\ Build \subseteq Nat /\ 1 \in Build
  /\ Edit \subseteq Nat /\ 0 \in Edit
  /\ Nothing \in [File -> Edit \cup {Unread}]
  /\ File \subseteq Watched /\ Generated \in Watched
BY BoundType DEF Build, Edit, Nothing, Watched

LEMMA TypeInit == Init => TypeInv
<1> SUFFICES ASSUME Init PROVE TypeInv
  OBVIOUS
<1>1. IsFiniteSet({}) /\ Cardinality({}) = 0
  BY FS_EmptySet
<1>2. WatchTypes
  <2>1. source \in [File -> Edit]
    BY Numbers DEF Init
  <2>2. asof \in [Build -> [File -> Edit \cup {Unread}]]
    BY <2>1, Numbers DEF Init
  <2>3. /\ executed \in Unfolded /\ sandbox \in BOOLEAN /\ op \in OpChoices
        /\ edits \in Edit /\ begun \in Build
        /\ notices = {} /\ pending = {} /\ timer = FALSE
    BY Numbers DEF Init
  <2> QED
    BY <1>1, <2>1, <2>2, <2>3 DEF WatchTypes
<1>5. Paid
  BY <1>1 DEF Init, Paid, Account
<1>3. ReadTypes
  <2>1. \A b \in Build : b = 1 \/ b > 1
    BY BoundType DEF Build
  <2> QED
    BY <2>1, Numbers DEF Init, ReadTypes
<1>4. ClockTypes
  BY DEF Init, ClockTypes, Unsettled
<1> QED
  BY <1>2, <1>3, <1>4, <1>5, ReapInit DEF TypeInv

\* A build that finishes raises a notification at most, in a project with an Op.
LEMMA FinishNotes ==
  ASSUME NEW b, NEW fine, Finish(b, fine)
  PROVE  notices' = notices \/ (op /\ notices' = notices \cup {Generated})
BY DEF Finish, Generates

\* What other steps leave alone.
LEMMA Elsewhere ==
  ASSUME \/ \E b \in Build : \/ Advance(b) \/ Handle(b) \/ TimesOut(b)
                             \/ Answers(b) \/ SendFails(b) \/ Dies(b)
         \/ UNCHANGED vars
  PROVE  /\ UNCHANGED <<settings, disk, pending, timer, begun, asof>>
         /\ notices' = notices \/ (op /\ notices' = notices \cup {Generated})
<1>1. ASSUME NEW b \in Build, BuildWithoutChild(b) \/ BuildWithChild(b)
      PROVE  /\ UNCHANGED <<settings, disk, pending, timer, begun, asof>>
             /\ notices' = notices \/ (op /\ notices' = notices \cup {Generated})
  BY <1>1, FinishNotes DEF BuildWithoutChild, BuildWithChild
<1>2. ASSUME NEW b \in Build,
             (\E f \in File : Read(b, f)) \/ Fork(b) \/ FirstBuildThrows(b)
      PROVE  UNCHANGED <<settings, disk, watcher, begun, asof>>
  BY <1>2 DEF Read, Fork, FirstBuildThrows
<1>3. ASSUME NEW b \in Build,
             Handle(b) \/ TimesOut(b) \/ Answers(b) \/ SendFails(b) \/ Dies(b)
      PROVE  UNCHANGED <<settings, disk, watcher, begun, asof>>
  BY <1>3 DEF Handle, TimesOut, Settle, Answers, SendFails, Dies
<1>4. ASSUME UNCHANGED vars
      PROVE  UNCHANGED <<settings, disk, watcher, begun, asof>>
  BY <1>4 DEF vars
<1>5. ASSUME UNCHANGED <<settings, disk, watcher, begun, asof>>
      PROVE  UNCHANGED <<settings, disk, pending, timer, begun, asof>> /\ notices' = notices
  BY <1>5 DEF watcher
<1> QED
  BY <1>1, <1>2, <1>3, <1>4, <1>5 DEF Advance

LEMMA WatchStep ==
  ASSUME WatchTypes, Paid, [Next]_vars
  PROVE  WatchTypes' /\ Paid'
<1> USE DEF settings, disk
<1>1. /\ Cardinality(notices) \in Nat /\ IsFiniteSet(notices)
      /\ edits \in Nat /\ begun \in Nat
  BY FS_CardinalityType, Numbers DEF WatchTypes
<1>2. ASSUME NEW f \in File, Save(f)
      PROVE  WatchTypes' /\ Paid'
  <2>1. /\ edits' = edits + 1 /\ edits' \in Edit
        /\ source' = [source EXCEPT ![f] = edits'] /\ notices' = notices \cup {f}
        /\ UNCHANGED <<executed, sandbox, op, pending, timer, begun, asof>>
    BY <1>2, BoundType DEF Save, WatchTypes, Edit
  <2>2. /\ IsFiniteSet(notices') /\ Cardinality(notices') <= Cardinality(notices) + 1
        /\ Cardinality(notices') \in Nat
    <3>1. /\ IsFiniteSet(notices \cup {f})
          /\ Cardinality(notices \cup {f})
               = IF f \in notices THEN Cardinality(notices) ELSE Cardinality(notices) + 1
      BY <1>1, FS_AddElement
    <3> QED
      BY <1>1, <2>1, <3>1
  <2>3. source' \in [File -> Edit]
    BY <2>1 DEF WatchTypes
  <2>4. Paid'
    BY <1>1, <2>1, <2>2 DEF Paid, Account
  <2> QED
    BY <2>1, <2>2, <2>3, <2>4, Numbers DEF WatchTypes
<1>3. ASSUME NEW f \in Watched, Notice(f)
      PROVE  WatchTypes' /\ Paid'
  <2>1. /\ notices' = notices \ {f} /\ f \in notices
        /\ pending' = pending \cup {f} /\ timer' = TRUE
        /\ UNCHANGED <<executed, sandbox, op, source, edits, begun, asof>>
    BY <1>3 DEF Notice, Listens
  <2>2. IsFiniteSet(notices') /\ Cardinality(notices') = Cardinality(notices) - 1
    BY <1>1, <2>1, FS_RemoveElement
  <2>3. Paid'
    BY <1>1, <2>1, <2>2 DEF Paid, Account
  <2> QED
    BY <2>1, <2>2, <2>3 DEF WatchTypes
<1>4. CASE Fire
  <2>1. /\ pending # {} /\ pending' = {} /\ timer' = FALSE
        /\ begun < MaxBuilds /\ begun' = begun + 1 /\ asof' = [asof EXCEPT ![begun'] = source]
        /\ UNCHANGED <<executed, sandbox, op, source, edits, notices>>
    BY <1>4 DEF Fire, WatchTypes
  <2>2. source \in [File -> Edit \cup {Unread}]
    BY DEF WatchTypes
  <2>3. asof' \in [Build -> [File -> Edit \cup {Unread}]]
    BY <2>1, <2>2 DEF WatchTypes
  <2>4. begun' \in Build
    BY <1>1, <2>1, BoundType DEF WatchTypes, Build
  <2>5. Paid'
    BY <1>1, <2>1 DEF Paid, Account
  <2> QED
    BY <2>1, <2>3, <2>4, <2>5 DEF WatchTypes
<1>5. ASSUME \/ \E b \in Build : \/ Advance(b) \/ Handle(b) \/ TimesOut(b)
                                 \/ Answers(b) \/ SendFails(b) \/ Dies(b)
             \/ UNCHANGED vars
      PROVE  WatchTypes' /\ Paid'
  <2>1. /\ UNCHANGED <<settings, disk, pending, timer, begun, asof>>
        /\ notices' = notices \/ (op /\ notices' = notices \cup {Generated})
    BY <1>5, Elsewhere
  <2>2. IsFiniteSet(notices') /\ notices' \subseteq Watched
    BY <1>1, <2>1, FS_AddElement, Numbers DEF WatchTypes
  <2>3. Paid'
    BY <2>1 DEF Paid, Account
  <2> QED
    BY <2>1, <2>2, <2>3 DEF WatchTypes
<1> QED
  BY <1>2, <1>3, <1>4, <1>5 DEF Next

LEMMA ReadStep ==
  ASSUME TypeInv, [Next]_vars
  PROVE  ReadTypes'
<1> USE DEF TypeInv
<1>1. ASSUME UNCHANGED <<begun, stage, got, loaded, output, writer>>
      PROVE  ReadTypes'
  BY <1>1 DEF ReadTypes
<1>2. CASE Fire
  <2>1. /\ begun' = begun + 1 /\ stage' = [stage EXCEPT ![begun'] = "reading"]
        /\ UNCHANGED <<got, loaded, output, writer>>
    BY <1>2 DEF Fire
  <2>2. stage \in [Build -> {"none", "reading", "child", "done", "uncaught"}] /\ begun \in Nat
    BY DEF ReapInv, ForkTypes
  <2>3. \A b \in Build : stage'[b] = "none" <=> b > begun'
    BY <2>1, <2>2, Numbers DEF ReadTypes
  <2> QED
    BY <2>1, <2>2, <2>3 DEF ReadTypes
<1>3. ASSUME NEW b \in Build, NEW f \in File, Read(b, f)
      PROVE  ReadTypes'
  <2>1. source[f] \in Edit \cup {Unread} /\ Imported(f) \in Edit \cup {Unread}
    BY DEF WatchTypes, ReadTypes, Imported
  <2>2. \E n \in Edit \cup {Unread} : got' = [got EXCEPT ![b][f] = n]
    BY <1>3, <2>1 DEF Read
  <2>3. loaded' = loaded \/ loaded' = [loaded EXCEPT ![f] = Imported(f)]
    BY <1>3 DEF Read
  <2>4. loaded' \in [File -> Edit \cup {Unread}]
    BY <2>1, <2>3 DEF ReadTypes
  <2>5. got' \in [Build -> [File -> Edit \cup {Unread}]]
    BY <2>2 DEF ReadTypes
  <2> QED
    BY <1>3, <2>4, <2>5 DEF Read, ReadTypes
<1>4. ASSUME NEW b \in Build, NEW fine, Finish(b, fine), stage[b] # "none",
             UNCHANGED <<begun, loaded>>
      PROVE  ReadTypes'
  <2>1. /\ stage' = [stage EXCEPT ![b] = "done"] /\ got' = [got EXCEPT ![b] = Nothing]
        /\ (output' = got[b] /\ writer' = b) \/ UNCHANGED <<output, writer>>
    BY <1>4 DEF Finish
  <2>2. b \in 0..begun
    BY <1>4, Numbers DEF ReadTypes, ReapInv, ForkTypes
  <2>3. got' \in [Build -> [File -> Edit \cup {Unread}]]
    BY <2>1, Numbers DEF ReadTypes
  <2>4. \A c \in Build : stage'[c] = "none" <=> stage[c] = "none"
    BY <1>4, <2>1 DEF ReapInv, ForkTypes
  <2> QED
    BY <1>4, <2>1, <2>2, <2>3, <2>4 DEF ReadTypes
<1>5. ASSUME NEW b \in Build, Fork(b) \/ FirstBuildThrows(b)
      PROVE  ReadTypes'
  <2>1. \A c \in Build : stage'[c] = "none" <=> stage[c] = "none"
    BY <1>5 DEF Fork, FirstBuildThrows, ReapInv, ForkTypes
  <2> QED
    BY <1>5, <2>1 DEF Fork, FirstBuildThrows, ReadTypes
<1>6. ASSUME NEW b \in Build, Advance(b)
      PROVE  ReadTypes'
  BY <1>3, <1>4, <1>5, <1>6 DEF Advance, BuildWithoutChild, BuildWithChild
<1>7. ASSUME NEW b \in Build,
             Handle(b) \/ TimesOut(b) \/ Answers(b) \/ SendFails(b) \/ Dies(b)
      PROVE  ReadTypes'
  BY <1>1, <1>7 DEF Handle, TimesOut, Settle, Answers, SendFails, Dies
<1>8. ASSUME (\E f \in File : Save(f)) \/ (\E f \in Watched : Notice(f))
      PROVE  ReadTypes'
  BY <1>1, <1>8 DEF Save, Notice
<1>9. CASE UNCHANGED vars
  BY <1>1, <1>9 DEF vars
<1> QED
  BY <1>2, <1>6, <1>7, <1>8, <1>9 DEF Next

LEMMA ClockStep ==
  ASSUME TypeInv, [Next]_vars
  PROVE  ClockTypes'
<1> USE DEF TypeInv, ClockTypes, Unsettled
<1>1. ASSUME UNCHANGED <<stage, clock, outcome>>
      PROVE  ClockTypes'
  BY <1>1
<1>2. stage \in [Build -> {"none", "reading", "child", "done", "uncaught"}]
      /\ outcome \in [Build -> {"none", "resolved", "rejected"}]
  BY DEF ReapInv, ForkTypes
<1>3. CASE Fire
  <2>1. stage' = [stage EXCEPT ![begun + 1] = "reading"] /\ UNCHANGED <<clock, outcome>>
    BY <1>3 DEF Fire, fork
  <2>2. begun + 1 \in Build => stage[begun + 1] = "none"
    BY DEF ReadTypes, ReapInv, ForkTypes
  <2> QED
    BY <1>2, <2>1, <2>2
<1>4. ASSUME NEW b \in Build, NEW fine, Finish(b, fine), ~Unsettled(b), UNCHANGED <<clock, outcome>>
      PROVE  ClockTypes'
  BY <1>2, <1>4 DEF Finish
<1>5. ASSUME NEW b \in Build, Fork(b)
      PROVE  ClockTypes'
  <2>1. outcome[b] = "none"
    BY <1>2, <1>5 DEF Fork, ReapInv, SettledAfterFork
  <2> QED
    BY <1>2, <1>5, <2>1 DEF Fork
<1>6. ASSUME NEW b \in Build, Handle(b) \/ TimesOut(b)
      PROVE  ClockTypes'
  <2>1. PICK e : Settle(b, e)
    BY <1>6 DEF Handle, TimesOut
  <2> QED
    BY <1>2, <2>1 DEF Settle
<1>7. ASSUME NEW b \in Build, Advance(b)
      PROVE  ClockTypes'
  <2>1. CASE \E f \in File : Read(b, f)
    BY <1>1, <2>1 DEF Read, fork
  <2>2. CASE BuildWithoutChild(b) \/ BuildWithChild(b)
    BY <1>4, <2>2 DEF BuildWithoutChild, BuildWithChild, fork
  <2>3. CASE FirstBuildThrows(b)
    BY <1>2, <2>3 DEF FirstBuildThrows, fork
  <2> QED
    BY <1>5, <1>7, <2>1, <2>2, <2>3 DEF Advance
<1>8. ASSUME \/ \E f \in File : Save(f)
             \/ \E f \in Watched : Notice(f)
             \/ \E b \in Build : Answers(b) \/ SendFails(b) \/ Dies(b)
             \/ UNCHANGED vars
      PROVE  ClockTypes'
  BY <1>1, <1>8 DEF Save, Notice, Answers, SendFails, Dies, vars, fork
<1> QED
  BY <1>3, <1>6, <1>7, <1>8 DEF Next

LEMMA TypeNext == TypeInv /\ [Next]_vars => TypeInv'
BY ReapNext, WatchStep, ReadStep, ClockStep DEF TypeInv

\* Every variable stays within its type: in particular the timeout of a fork runs
\* exactly while its promise is to be settled, and nothing is pending without a timer.
THEOREM TypeCorrect == Spec => []TypeOK
<1>1. TypeInv => TypeOK
  BY DEF TypeInv, WatchTypes, ReadTypes, ClockTypes, ReapInv, ForkTypes, Event, TypeOK
<1> QED
  BY <1>1, TypeNext, TypeInit, PTL DEF Spec

\* In a project without an Op no build begins but the first and one for every edit,
\* however notifications are delayed and merged and builds overlap.
THEOREM EditsPay == Spec => []EditsPayForBuilds
<1>1. TypeInv => EditsPayForBuilds
  <2> SUFFICES ASSUME TypeInv, ~op PROVE begun <= edits + 1
    BY DEF EditsPayForBuilds
  <2>1. Cardinality(notices) \in Nat /\ edits \in Nat /\ begun \in Nat
    BY FS_CardinalityType, Numbers DEF TypeInv, WatchTypes
  <2> QED
    BY <2>1 DEF TypeInv, Paid, Account
<1> QED
  BY <1>1, TypeNext, TypeInit, PTL DEF Spec
=============================================================================
