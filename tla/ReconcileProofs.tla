---------------------------- MODULE ReconcileProofs ----------------------------
(***************************************************************************)
(* Theorems about Reconcile, for every number of turns and keys, all       *)
(* configurations, budgets, refusals, outages and edits.                   *)
(***************************************************************************)
EXTENDS Reconcile, TLAPS

-----------------------------------------------------------------------------
(* Type correctness. *)

Entry == [kind : {"create", "update", "delete"}, key : Key]

LEMMA Helpers ==
  ASSUME TypeOK
  PROVE  /\ Here \in Turn
         /\ Pages[Here] \in Nat
         /\ \A n \in Nat : Spent(n) \in 0..Budget
         /\ \A t \in Turn : Diff(t, world[t]) \subseteq Entry
<1>1. Here \in Turn
  BY TurnsType DEF TypeOK, Here, Turn
<1>2. Pages[Here] \in Nat
  BY <1>1, BudgetType
<1>3. \A n \in Nat : Spent(n) \in 0..Budget
  BY BudgetType DEF TypeOK, Spent
<1>4. \A t \in Turn : Diff(t, world[t]) \subseteq Entry
  BY DEF Diff, Entry
<1> QED
  BY <1>1, <1>2, <1>3, <1>4

LEMMA TypeInit == Init => TypeOK
<1> SUFFICES ASSUME Init PROVE TypeOK
  OBVIOUS
<1>1. 1 \in DOMAIN Turns
  BY TurnsType
<1>2. 0 \in 0..MaxOutages /\ 0 \in 0..MaxEdits /\ Budget \in 0..Budget
  BY BoundType, BudgetType
<1>3. world \in [Turn -> [Key -> Value \cup {Absent, Bare}]]
  BY DEF Init
<1> QED
  BY <1>1, <1>2, <1>3 DEF Init, TypeOK

\* Leaving a turn leaves nothing to apply.
LEMMA LeaveTypes ==
  ASSUME TypeOK, NEW skips, NEW errors, Leave(skips, errors)
  PROVE  /\ stage' \in {"idle", "visit"}
         /\ pos' \in DOMAIN Turns
         /\ left' = {} /\ half' = Absent
         /\ skipped' = skips /\ errored' = errors
         /\ result' \in {"none", "completed", "incomplete"}
<1>1. DOMAIN Turns = 1..Len(Turns) /\ Len(Turns) \in Nat \ {0}
  BY TurnsType
<1> QED
  BY <1>1 DEF Leave, TypeOK

LEMMA ThenTypes ==
  ASSUME TypeOK, stage = "apply", NEW e \in left, NEW skips, Then(left \ {e}, skips)
  PROVE  /\ stage' \in {"idle", "visit", "apply"}
         /\ pos' \in DOMAIN Turns
         /\ left' = left \ {e} /\ half' = Absent
         /\ left' # {} <=> stage' = "apply"
         /\ skipped' = skips /\ errored' = errored
         /\ result' \in {"none", "completed", "incomplete"}
<1>1. CASE left \ {e} = {}
  BY <1>1, LeaveTypes DEF Then
<1>2. CASE left \ {e} # {}
  BY <1>2 DEF Then, TypeOK
<1> QED
  BY <1>1, <1>2

\* What is left of the variables when a turn or an entry of it is dealt with.
TypeRest ==
  /\ config' \in Config
  /\ world' \in [Turn -> [Key -> Value \cup {Absent, Bare}]]
  /\ mode' \in {"dry-run", "apply"} /\ override' \in BOOLEAN
  /\ budget' \in 0..Budget
  /\ skipped' \subseteq Turn \cup (Turn \X Key)
  /\ errored' \cup failed' \cup blocked' \cup touched' \subseteq Turn
  /\ outages' \in 0..MaxOutages /\ edits' \in 0..MaxEdits

LEMMA VisitTypes ==
  ASSUME TypeOK, Skip \/ FetchFails \/ Fetch \/ Aborts
  PROVE  TypeOK'
<1> USE Helpers DEF Visiting
<1>1. CASE Skip
  <2>1. TypeRest
    BY <1>1, LeaveTypes, BudgetType DEF Skip, TypeRest, TypeOK
  <2> QED
    BY <1>1, <2>1, LeaveTypes DEF Skip, TypeRest, TypeOK
<1>2. CASE FetchFails
  <2>1. outages' \in 0..MaxOutages
    BY <1>2, BoundType DEF FetchFails, Outage, TypeOK
  <2>2. Spent(1) \in 0..Budget
    OBVIOUS
  <2>3. TypeRest
    BY <1>2, <2>1, <2>2, LeaveTypes DEF FetchFails, TypeRest, TypeOK
  <2> QED
    BY <1>2, <2>3, LeaveTypes DEF FetchFails, TypeRest, TypeOK
<1>3. CASE Fetch
  <2>1. budget' \in 0..Budget
    BY <1>3 DEF Fetch
  <2>2. ASSUME NEW errors \in {errored, errored \cup {Here}}, Leave(skipped, errors),
               blocked' \in {blocked, blocked \cup {Here}}
        PROVE  TypeOK'
    <3>1. TypeRest
      BY <1>3, <2>1, <2>2, LeaveTypes DEF Fetch, TypeRest, TypeOK
    <3> QED
      BY <2>2, <3>1, LeaveTypes DEF TypeRest, TypeOK
  <2>3. ASSUME stage' = "apply", left' = Diff(Here, world[Here]), left' # {}, blocked' = blocked,
               UNCHANGED <<pos, half, skipped, errored, result>>
        PROVE  TypeOK'
    <3>1. half = Absent
      BY <1>3 DEF Fetch, TypeOK
    <3> QED
      BY <1>3, <2>1, <2>3, <3>1 DEF Fetch, TypeOK, Entry
  <2> QED
    BY <1>3, <2>2, <2>3 DEF Fetch
<1>4. CASE Aborts
  <2>1. outages' \in 0..MaxOutages /\ budget' \in 0..Budget /\ 1 \in DOMAIN Turns
    BY <1>4, BoundType, TurnsType DEF Aborts, Outage, TypeOK
  <2>2. left = {} /\ half = Absent
    BY <1>4 DEF Aborts, TypeOK
  <2> QED
    BY <1>4, <2>1, <2>2 DEF Aborts, report, TypeOK
<1> QED
  BY <1>1, <1>2, <1>3, <1>4

LEMMA EntryTypes ==
  ASSUME TypeOK, NEW e \in left, SkipEntry(e) \/ LastRequest(e) \/ EntryFails(e)
  PROVE  TypeOK'
<1> USE Helpers
<1>1. e \in Entry /\ e.key \in Key
  BY DEF TypeOK, Entry
<1>2. ASSUME TypeRest, NEW skips, Then(left \ {e}, skips), stage = "apply"
      PROVE  TypeOK'
  BY <1>2, ThenTypes DEF TypeRest, TypeOK
<1>3. CASE SkipEntry(e)
  <2>1. Then(left \ {e}, skipped \cup {<<Here, e.key>>}) /\ stage = "apply"
    BY <1>3 DEF SkipEntry, At
  <2>2. <<Here, e.key>> \in Turn \X Key
    BY <1>1
  <2>3. skipped' = skipped \cup {<<Here, e.key>>} /\ errored' = errored
    BY <2>1, ThenTypes
  <2>4. TypeRest
    BY <1>3, <2>2, <2>3 DEF SkipEntry, TypeRest, TypeOK
  <2> QED
    BY <1>2, <1>3, <2>4 DEF SkipEntry, At
<1>4. CASE LastRequest(e)
  <2>1. config.want[Here][e.key] \in Value \cup {Absent}
    BY <1>1, ConfigType DEF TypeOK
  <2>2. world' \in [Turn -> [Key -> Value \cup {Absent, Bare}]]
    BY <1>1, <1>4, <2>1 DEF LastRequest, Set, TypeOK
  <2>3. Spent(1) \in 0..Budget
    OBVIOUS
  <2>4. TypeRest
    BY <1>4, <2>2, <2>3, ThenTypes DEF LastRequest, At, TypeRest, TypeOK
  <2> QED
    BY <1>2, <1>4, <2>4 DEF LastRequest, At
<1>5. CASE EntryFails(e)
  <2>1. outages' \in 0..MaxOutages
    BY <1>5, BoundType DEF EntryFails, Outage, TypeOK
  <2>2. Spent(1) \in 0..Budget
    OBVIOUS
  <2>3. TypeRest
    BY <1>5, <2>1, <2>2, ThenTypes DEF EntryFails, AfterFailure, At, TypeRest, TypeOK
  <2> QED
    BY <1>2, <1>5, <2>3 DEF EntryFails, AfterFailure, At
<1> QED
  BY <1>3, <1>4, <1>5

LEMMA CreateTypes ==
  ASSUME TypeOK, NEW e \in left, CreateRequest(e)
  PROVE  TypeOK'
<1>1. e.key \in Key /\ e = [kind |-> "create", key |-> e.key]
  BY DEF TypeOK, CreateRequest
<1>2. world' \in [Turn -> [Key -> Value \cup {Absent, Bare}]]
  BY <1>1, Helpers DEF CreateRequest, Set, TypeOK
<1>3. budget' \in 0..Budget
  BY Helpers DEF CreateRequest
<1> QED
  BY <1>1, <1>2, <1>3 DEF CreateRequest, report, TypeOK

LEMMA OutsideTypes ==
  ASSUME TypeOK, NEW t \in Turn, NEW k \in Key, NEW v \in Value \cup {Absent},
         EditedOutside(t, k, v)
  PROVE  TypeOK'
<1>1. world' \in [Turn -> [Key -> Value \cup {Absent, Bare}]]
  BY DEF EditedOutside, TypeOK
<1>2. edits' \in 0..MaxEdits
  BY BoundType DEF EditedOutside, TypeOK
<1> QED
  BY <1>1, <1>2 DEF EditedOutside, progress, report, TypeOK

LEMMA TypeNext == TypeOK /\ [Next]_vars => TypeOK'
<1> SUFFICES ASSUME TypeOK, [Next]_vars PROVE TypeOK'
  OBVIOUS
<1>1. ASSUME NEW m \in {"dry-run", "apply"}, NEW o \in BOOLEAN, Begin(m, o) PROVE TypeOK'
  <2>1. 1 \in DOMAIN Turns /\ Budget \in 0..Budget
    BY TurnsType, BudgetType
  <2> QED
    BY <1>1, <2>1 DEF Begin, TypeOK
<1>2. CASE UNCHANGED vars
  BY <1>2 DEF vars, progress, report, TypeOK
<1> QED
  BY <1>1, <1>2, VisitTypes, EntryTypes, CreateTypes, OutsideTypes DEF Next, Step

\* Every variable keeps its type: in particular the budget never falls below zero,
\* and entries are left only while a turn is applied.
THEOREM TypeCorrect == Spec => []TypeOK
BY TypeInit, TypeNext, PTL DEF Spec

-----------------------------------------------------------------------------
(* A run that completed has converged. *)

\* The turns the run has left behind; all of them once it has a result.
Visited == IF stage = "idle" THEN IF result = "none" THEN {} ELSE Turn
           ELSE {Turns[i] : i \in 1..(pos - 1)}

\* Nothing of t was deferred, failed, blocked or changed by others.
Clean(t) == /\ t \notin errored \cup failed \cup blocked \cup touched
            /\ t \notin skipped
            /\ \A k \in Key : <<t, k>> \notin skipped

Settled(t, k) == KindOf(t, world[t], k) = "none"

\* A turn left behind clean is settled; while one is applied, every key that is not
\* settled has an entry left.
VisitedSettled ==
  mode = "apply" => \A t \in Visited : Clean(t) => \A k \in Key : Settled(t, k)
LeftCovers ==
  stage = "apply" =>
    /\ mode = "apply"
    /\ Clean(Here) => \A k \in Key : Settled(Here, k) \/ \E e \in left : e.key = k

\* Only a run without errors and without anything deferred is completed.
ResultTells ==
  /\ stage # "idle" => result = "none"
  /\ result = "completed" => errored = {} /\ skipped = {}

ConvergeInv == TypeOK /\ VisitedSettled /\ LeftCovers /\ ResultTells

LEMMA NoneMeansEmpty ==
  ASSUME NEW t \in Turn, \A k \in Key : Settled(t, k)
  PROVE  Diff(t, world[t]) = {}
<1> SUFFICES ASSUME NEW e \in Diff(t, world[t]) PROVE FALSE
  OBVIOUS
<1>1. e.key \in Key /\ e.kind = KindOf(t, world[t], e.key) /\ e.kind # "none"
  BY DEF Diff
<1> QED
  BY <1>1 DEF Settled

LEMMA EmptyMeansNone ==
  ASSUME NEW t \in Turn, NEW k \in Key, ~Settled(t, k)
  PROVE  \E e \in Diff(t, world[t]) : e.key = k
<1>1. KindOf(t, world[t], k) \in {"create", "update", "delete"}
  BY DEF KindOf, Settled
<1>2. [kind |-> KindOf(t, world[t], k), key |-> k] \in Diff(t, world[t])
  BY <1>1 DEF Diff
<1> QED
  BY <1>2

\* A turn that is left is added to those behind, the last one by the result.
LEMMA LeaveVisits ==
  ASSUME TypeOK, stage # "idle", result = "none", NEW skips, NEW errors, Leave(skips, errors)
  PROVE  /\ Visited' = Visited \cup {Here}
         /\ stage' # "apply"
         /\ ResultTells'
<1>1. /\ Turns \in Seq(Turn) /\ DOMAIN Turns = 1..Len(Turns) /\ Len(Turns) \in Nat
      /\ pos \in 1..Len(Turns)
  BY TurnsType DEF TypeOK
<1>2. CASE pos < Len(Turns)
  <2>1. stage' = "visit" /\ pos' = pos + 1 /\ result' = "none"
    BY <1>2 DEF Leave
  <2>2. 1..(pos' - 1) = (1..(pos - 1)) \cup {pos}
    BY <1>1, <2>1
  <2> QED
    BY <2>1, <2>2 DEF Visited, Here, ResultTells
<1>3. CASE ~(pos < Len(Turns))
  <2>1. stage' = "idle" /\ result' = IF Completed(skips, errors) THEN "completed" ELSE "incomplete"
    BY <1>3 DEF Leave
  <2>2. 1..Len(Turns) = (1..(pos - 1)) \cup {pos}
    BY <1>1, <1>3
  <2>3. Turn = {Turns[i] : i \in 1..(pos - 1)} \cup {Turns[pos]}
    BY <1>1, <2>2 DEF Turn
  <2>4. skipped' = skips /\ errored' = errors
    BY DEF Leave
  <2> QED
    BY <2>1, <2>3, <2>4 DEF Visited, Here, ResultTells, Completed
<1> QED
  BY <1>2, <1>3

\* The turn the run is at is not among those behind.
LEMMA HereAhead ==
  ASSUME TypeOK, stage # "idle"
  PROVE  Here \notin Visited
<1>1. pos \in DOMAIN Turns /\ \A i \in 1..(pos - 1) : i \in DOMAIN Turns /\ i # pos
  BY TurnsType DEF TypeOK
<1> QED
  BY <1>1, TurnsType DEF Visited, Here

\* What is settled stays so, as long as only other turns change.
LEMMA StillSettled ==
  ASSUME NEW t \in Turn, NEW k \in Key, config' = config, world'[t] = world[t], Settled(t, k)
  PROVE  Settled(t, k)'
BY DEF Settled, KindOf, Wanted

LEMMA StillClean ==
  ASSUME NEW t, Clean(t)',
         skipped \subseteq skipped', errored \subseteq errored', failed \subseteq failed',
         blocked \subseteq blocked', touched \subseteq touched'
  PROVE  Clean(t)
BY DEF Clean

\* A step that leaves turn h keeps the invariant, if h is settled then or was not
\* dealt with cleanly.
LEMMA LeaveConverges ==
  ASSUME ConvergeInv, TypeOK', stage # "idle", NEW skips, NEW errors, Leave(skips, errors),
         mode' = mode, config' = config,
         skipped \subseteq skipped', errored \subseteq errored', failed \subseteq failed',
         blocked \subseteq blocked', touched \subseteq touched',
         NEW h \in Turn, h = Here,
         \A t \in Turn \ {h} : world'[t] = world[t],
         mode = "apply" /\ Clean(h)' => \A k \in Key : Settled(h, k)'
  PROVE  ConvergeInv'
<1>1. /\ Visited' = Visited \cup {h}
      /\ stage' # "apply"
      /\ ResultTells'
  BY LeaveVisits DEF ConvergeInv, ResultTells
<1>2. LeftCovers'
  BY <1>1 DEF LeftCovers
<1>3. h \notin Visited /\ Visited \subseteq Turn
  <2>1. h \notin Visited
    BY HereAhead DEF ConvergeInv
  <2>2. \A i \in 1..(pos - 1) : i \in DOMAIN Turns
    BY TurnsType DEF ConvergeInv, TypeOK
  <2> QED
    BY <2>1, <2>2 DEF Visited, Turn
<1>4. ASSUME mode = "apply", NEW t \in Visited \cup {h}, Clean(t)', NEW k \in Key
      PROVE  Settled(t, k)'
  <2>1. CASE t = h
    BY <1>4, <2>1
  <2>2. CASE t # h
    <3>1. t \in Visited /\ t \in Turn /\ world'[t] = world[t]
      BY <1>3, <1>4, <2>2
    <3>2. Clean(t)
      BY <1>4, StillClean
    <3>3. Settled(t, k)
      BY <1>4, <3>1, <3>2 DEF ConvergeInv, VisitedSettled
    <3> QED
      BY <3>1, <3>3, StillSettled
  <2> QED
    BY <2>1, <2>2
<1>5. VisitedSettled'
  BY <1>1, <1>4 DEF VisitedSettled
<1> QED
  BY <1>1, <1>2, <1>5 DEF ConvergeInv

\* A step within turn h keeps the invariant, if the entries left still cover what is
\* not settled.
LEMMA StayConverges ==
  ASSUME ConvergeInv, TypeOK', stage # "idle", stage' = "apply", pos' = pos, result' = result,
         mode' = mode, mode = "apply", config' = config,
         skipped \subseteq skipped', errored \subseteq errored', failed \subseteq failed',
         blocked \subseteq blocked', touched \subseteq touched',
         NEW h \in Turn, h = Here,
         \A t \in Turn \ {h} : world'[t] = world[t],
         Clean(h)' => \A k \in Key : Settled(h, k)' \/ \E e \in left' : e.key = k
  PROVE  ConvergeInv'
<1>1. Here' = h /\ Visited' = Visited
  BY DEF Here, Visited
<1>2. LeftCovers'
  <2> SUFFICES ASSUME Clean(h)', NEW k \in Key PROVE Settled(h, k)' \/ \E e \in left' : e.key = k
    BY <1>1 DEF LeftCovers
  <2> QED
    OBVIOUS
<1>3. h \notin Visited /\ Visited \subseteq Turn
  <2>1. h \notin Visited
    BY HereAhead DEF ConvergeInv
  <2>2. \A i \in 1..(pos - 1) : i \in DOMAIN Turns
    BY TurnsType DEF ConvergeInv, TypeOK
  <2> QED
    BY <2>1, <2>2 DEF Visited, Turn
<1>4. ASSUME NEW t \in Visited, Clean(t)', NEW k \in Key
      PROVE  Settled(t, k)'
  <2>1. t \in Turn /\ world'[t] = world[t]
    BY <1>3
  <2>2. Clean(t)
    BY <1>4, StillClean
  <2>3. Settled(t, k)
    BY <2>1, <2>2 DEF ConvergeInv, VisitedSettled
  <2> QED
    BY <2>1, <2>3, StillSettled
<1>5. VisitedSettled'
  BY <1>1, <1>4 DEF VisitedSettled
<1>6. ResultTells'
  BY DEF ConvergeInv, ResultTells
<1> QED
  BY <1>2, <1>5, <1>6 DEF ConvergeInv

LEMMA VisitConverges ==
  ASSUME ConvergeInv, TypeOK', Skip \/ FetchFails \/ Fetch \/ Aborts
  PROVE  ConvergeInv'
<1>0. PICK h \in Turn : h = Here
  BY Helpers DEF ConvergeInv
<1>1. h \in Turn /\ stage = "visit" /\ stage # "idle"
  BY Helpers DEF ConvergeInv, Skip, FetchFails, Fetch, Aborts, Visiting
<1>2. /\ config' = config /\ world' = world /\ mode' = mode
      /\ failed' = failed /\ touched' = touched /\ blocked \subseteq blocked'
  BY DEF Skip, FetchFails, Fetch, Aborts, report
<1>3. ASSUME NEW skips, NEW errors, Leave(skips, errors),
             skipped \subseteq skips, errored \subseteq errors,
             mode = "apply" /\ Clean(h)' => \A k \in Key : Settled(h, k)'
      PROVE  ConvergeInv'
  <2>1. skipped' = skips /\ errored' = errors
    BY <1>3 DEF Leave
  <2> QED
    BY <1>0, <1>1, <1>2, <1>3, <2>1, LeaveConverges
<1>4. CASE Skip
  <2>1. Leave(skipped \cup {h}, errored) /\ h \in skipped'
    BY <1>0, <1>4 DEF Skip, Leave
  <2>2. ~Clean(h)'
    BY <2>1 DEF Clean
  <2> QED
    BY <1>3, <2>1, <2>2
<1>5. CASE FetchFails
  <2>1. Leave(skipped, errored \cup {h}) /\ h \in errored'
    BY <1>0, <1>5 DEF FetchFails, Leave
  <2>2. ~Clean(h)'
    BY <2>1 DEF Clean
  <2> QED
    BY <1>3, <2>1, <2>2
<1>6. CASE Fetch
  <2>1. CASE Leave(skipped, errored \cup {h})
    <3>1. ~Clean(h)'
      BY <2>1 DEF Clean, Leave
    <3> QED
      BY <1>3, <2>1, <3>1
  <2>2. CASE Leave(skipped, errored) /\ (mode = "dry-run" \/ Diff(h, world[h]) = {})
    <3>1. ASSUME mode = "apply", NEW k \in Key PROVE Settled(h, k)'
      <4>1. Settled(h, k)
        BY <1>1, <2>2, <3>1, EmptyMeansNone
      <4> QED
        BY <1>1, <1>2, <4>1, StillSettled
    <3> QED
      BY <1>3, <2>2, <3>1
  <2>3. CASE Leave(skipped, errored) /\ blocked' = blocked \cup {h}
    <3>1. ~Clean(h)'
      BY <2>3 DEF Clean
    <3> QED
      BY <1>3, <2>3, <3>1
  <2>4. CASE /\ mode = "apply" /\ stage' = "apply" /\ left' = Diff(h, world[h])
             /\ UNCHANGED <<pos, half, skipped, errored, result, blocked>>
    <3>1. ASSUME NEW k \in Key PROVE Settled(h, k)' \/ \E e \in left' : e.key = k
      <4>1. Settled(h, k) \/ \E e \in left' : e.key = k
        BY <1>1, <2>4, EmptyMeansNone
      <4> QED
        BY <1>1, <1>2, <4>1, StillSettled
    <3> QED
      BY <1>0, <1>1, <1>2, <2>4, <3>1, StayConverges
  <2> QED
    BY <1>0, <1>6, <2>1, <2>2, <2>3, <2>4 DEF Fetch
<1>7. CASE Aborts
  <2>1. stage' = "idle" /\ result' = "none"
    BY <1>1, <1>7 DEF Aborts, report, ConvergeInv, ResultTells
  <2>2. VisitedSettled'
    BY <2>1 DEF VisitedSettled, Visited
  <2>3. LeftCovers' /\ ResultTells'
    BY <2>1 DEF LeftCovers, ResultTells
  <2> QED
    BY <2>2, <2>3 DEF ConvergeInv
<1> QED
  BY <1>4, <1>5, <1>6, <1>7

\* Dealing with an entry keeps the invariant, if it settles its key or notes why not.
LEMMA ThenConverges ==
  ASSUME ConvergeInv, TypeOK', stage = "apply", NEW e \in left, NEW skips,
         Then(left \ {e}, skips),
         skipped \subseteq skips, failed \subseteq failed',
         UNCHANGED <<mode, config, blocked, touched>>,
         NEW h \in Turn, h = Here,
         \A t \in Turn \ {h} : world'[t] = world[t],
         Clean(h)' => \A k \in Key : Settled(h, k)' \/ \E d \in left \ {e} : d.key = k
  PROVE  ConvergeInv'
<1>1. skipped' = skips /\ errored' = errored /\ mode = "apply" /\ stage # "idle"
  BY ThenTypes DEF ConvergeInv, LeftCovers
<1>2. CASE left \ {e} = {}
  <2>1. Leave(skips, errored)
    BY <1>2 DEF Then
  <2>2. Clean(h)' => \A k \in Key : Settled(h, k)'
    BY <1>2
  <2> QED
    BY <1>1, <2>1, <2>2, LeaveConverges
<1>3. CASE left \ {e} # {}
  <2>1. left' = left \ {e} /\ stage' = "apply" /\ pos' = pos /\ result' = result
    BY <1>3 DEF Then
  <2> QED
    BY <1>1, <2>1, StayConverges
<1> QED
  BY <1>2, <1>3

LEMMA EntryConverges ==
  ASSUME ConvergeInv, TypeOK', NEW e \in left, SkipEntry(e) \/ LastRequest(e) \/ EntryFails(e)
  PROVE  ConvergeInv'
<1>0. PICK h \in Turn : h = Here
  BY Helpers DEF ConvergeInv
<1>1. h \in Turn /\ stage = "apply" /\ e.key \in Key
  BY Helpers DEF ConvergeInv, SkipEntry, LastRequest, EntryFails, At, TypeOK
<1>3. CASE SkipEntry(e)
  <2>1. Then(left \ {e}, skipped \cup {<<h, e.key>>})
    BY <1>0, <1>3 DEF SkipEntry
  <2>2. <<h, e.key>> \in skipped'
    <3>1. skipped' = skipped \cup {<<h, e.key>>}
      BY <1>1, <2>1, ThenTypes DEF ConvergeInv
    <3> QED
      BY <3>1
  <2>3. ~Clean(h)'
    BY <1>1, <2>2 DEF Clean
  <2> QED
    BY <1>1, <1>0, <1>3, <2>1, <2>3, ThenConverges DEF SkipEntry
<1>4. CASE EntryFails(e)
  <2>1. Then(left \ {e}, skipped) /\ h \in failed'
    BY <1>0, <1>4 DEF EntryFails, AfterFailure
  <2>2. ~Clean(h)'
    BY <2>1 DEF Clean
  <2> QED
    BY <1>1, <1>0, <1>4, <2>1, <2>2, ThenConverges DEF EntryFails
<1>5. CASE LastRequest(e)
  <2>1. /\ Then(left \ {e}, skipped)
        /\ world' = [world EXCEPT ![h][e.key] = config.want[h][e.key]]
        /\ UNCHANGED <<config, mode, failed, blocked, touched>>
    BY <1>0, <1>5 DEF LastRequest, Set
  <2>2. world \in [Turn -> [Key -> Value \cup {Absent, Bare}]]
    BY DEF ConvergeInv, TypeOK
  <2>3. skipped' = skipped /\ errored' = errored
    BY <1>1, <2>1, ThenTypes DEF ConvergeInv
  <2>4. ASSUME Clean(h)', NEW k \in Key
        PROVE  Settled(h, k)' \/ \E d \in left \ {e} : d.key = k
    <3>1. CASE k = e.key
      <4>1. world'[h][k] = config.want[h][k]
        BY <1>1, <2>1, <2>2, <3>1
      <4> QED
        BY <2>1, <4>1 DEF Settled, KindOf, Wanted
    <3>2. CASE k # e.key
      <4>1. world'[h][k] = world[h][k]
        BY <1>1, <2>1, <2>2, <3>2
      <4>2. Clean(h)
        BY <2>1, <2>3, <2>4, StillClean
      <4>3. Settled(h, k) \/ \E d \in left : d.key = k
        BY <1>1, <1>0, <4>2 DEF ConvergeInv, LeftCovers
      <4>4. Settled(h, k) => Settled(h, k)'
        BY <2>1, <4>1 DEF Settled, KindOf, Wanted
      <4> QED
        BY <3>2, <4>3, <4>4
    <3> QED
      BY <3>1, <3>2
  <2>5. \A t \in Turn \ {h} : world'[t] = world[t]
    BY <2>1, <2>2
  <2> QED
    BY <1>1, <1>0, <2>1, <2>4, <2>5, ThenConverges
<1> QED
  BY <1>3, <1>4, <1>5

LEMMA CreateConverges ==
  ASSUME ConvergeInv, TypeOK', NEW e \in left, CreateRequest(e)
  PROVE  ConvergeInv'
<1>0. PICK h \in Turn : h = Here
  BY Helpers DEF ConvergeInv
<1>1. h \in Turn /\ stage = "apply" /\ e.key \in Key
  BY Helpers DEF ConvergeInv, CreateRequest, At, TypeOK
<1>3. /\ world' = [world EXCEPT ![h][e.key] = Bare]
      /\ UNCHANGED <<config, stage, mode, pos, left, skipped, errored, failed, blocked, touched, result>>
  BY <1>0 DEF CreateRequest, Set, report
<1>4. world \in [Turn -> [Key -> Value \cup {Absent, Bare}]]
  BY DEF ConvergeInv, TypeOK
<1>5. ASSUME Clean(h)', NEW k \in Key
      PROVE  Settled(h, k)' \/ \E d \in left' : d.key = k
  <2>1. CASE k = e.key
    BY <1>3, <2>1
  <2>2. CASE k # e.key
    <3>1. world'[h][k] = world[h][k]
      BY <1>1, <1>3, <1>4, <2>2
    <3>2. Clean(h)
      BY <1>3, <1>5, StillClean
    <3>3. Settled(h, k) \/ \E d \in left' : d.key = k
      BY <1>1, <1>0, <1>3, <3>2 DEF ConvergeInv, LeftCovers
    <3> QED
      BY <1>3, <3>1, <3>3 DEF Settled, KindOf, Wanted
  <2> QED
    BY <2>1, <2>2
<1>6. \A t \in Turn \ {h} : world'[t] = world[t]
  BY <1>3, <1>4
<1>7. mode = "apply"
  BY <1>1 DEF ConvergeInv, LeftCovers
<1> QED
  BY <1>1, <1>0, <1>3, <1>5, <1>6, <1>7, StayConverges

\* What others change is noted in touched.
LEMMA OutsideConverges ==
  ASSUME ConvergeInv, TypeOK', NEW t \in Turn, NEW k \in Key, NEW v \in Value \cup {Absent},
         EditedOutside(t, k, v)
  PROVE  ConvergeInv'
<1>1. /\ world' = [world EXCEPT ![t][k] = v] /\ touched' = touched \cup {t}
      /\ UNCHANGED <<config, stage, mode, pos, left, skipped, errored, failed, blocked, result>>
  BY DEF EditedOutside, progress, report
<1>2. Visited' = Visited /\ Here' = Here
  BY <1>1 DEF Visited, Here
<1>3. ASSUME NEW u, Clean(u)', NEW j \in Key
      PROVE  Clean(u) /\ (Settled(u, j) => Settled(u, j)')
  <2>1. u # t
    BY <1>1, <1>3 DEF Clean
  <2>2. world'[u] = world[u]
    BY <1>1, <2>1 DEF ConvergeInv, TypeOK
  <2> QED
    BY <1>1, <1>3, <2>2, StillClean DEF Settled, KindOf, Wanted
<1>4. VisitedSettled'
  BY <1>1, <1>2, <1>3 DEF ConvergeInv, VisitedSettled
<1>5. LeftCovers'
  <2>1. ASSUME stage = "apply", Clean(Here)', NEW j \in Key
        PROVE  Settled(Here, j)' \/ \E e \in left' : e.key = j
    BY <1>1, <1>2, <1>3, <2>1 DEF ConvergeInv, LeftCovers
  <2> QED
    BY <1>1, <2>1 DEF ConvergeInv, LeftCovers
<1>6. ResultTells'
  BY <1>1 DEF ConvergeInv, ResultTells
<1> QED
  BY <1>4, <1>5, <1>6 DEF ConvergeInv

LEMMA ConvergeNext == ConvergeInv /\ [Next]_vars => ConvergeInv'
<1> SUFFICES ASSUME ConvergeInv, [Next]_vars PROVE ConvergeInv'
  OBVIOUS
<1>1. TypeOK'
  BY TypeNext DEF ConvergeInv
<1>2. ASSUME NEW m \in {"dry-run", "apply"}, NEW o \in BOOLEAN, Begin(m, o) PROVE ConvergeInv'
  <2>1. stage' = "visit" /\ pos' = 1 /\ result' = "none"
    BY <1>2 DEF Begin
  <2>2. Visited' = {}
    BY <2>1 DEF Visited
  <2> QED
    BY <1>1, <2>1, <2>2 DEF ConvergeInv, VisitedSettled, LeftCovers, ResultTells
<1>3. CASE UNCHANGED vars
  BY <1>1, <1>3 DEF vars, progress, report, ConvergeInv, VisitedSettled, LeftCovers, ResultTells,
                    Visited, Clean, Settled, KindOf, Wanted, Here
<1> QED
  BY <1>1, <1>2, <1>3, VisitConverges, EntryConverges, CreateConverges, OutsideConverges
  DEF Next, Step

\* A run in apply mode that says it completed has converged, for any budget and
\* wherever it ran out, whatever requests failed and whatever others did: what is not
\* reported blocked, failed or touched is as configured.
THEOREM Converged == Spec => []CompletedMeansConverged
<1>1. Init => ConvergeInv
  BY TypeInit DEF Init, ConvergeInv, VisitedSettled, LeftCovers, ResultTells
<1>2. ConvergeInv => CompletedMeansConverged
  <2> SUFFICES ASSUME ConvergeInv, result = "completed", mode = "apply",
                      NEW t \in Turn \ (blocked \cup failed \cup touched)
               PROVE  Diff(t, world[t]) = {}
    BY DEF CompletedMeansConverged
  <2>1. stage = "idle" /\ errored = {} /\ skipped = {}
    BY DEF ConvergeInv, ResultTells
  <2>2. t \in Visited /\ Clean(t)
    BY <2>1 DEF Visited, Clean
  <2> QED
    BY <2>2, NoneMeansEmpty DEF ConvergeInv, VisitedSettled
<1> QED
  BY <1>1, <1>2, ConvergeNext, PTL DEF Spec
=============================================================================
