------------------------------- MODULE Reconcile -------------------------------
(***************************************************************************)
(* The reconcile loop of core reconcile.ts, started again and again, say   *)
(* by a schedule.  A run goes through every cycle and scope in turn:       *)
(* fetches the collection, diffs it with the configuration, asks the       *)
(* guardrails and applies the entries one by one, all of it on one budget  *)
(* of requests.                                                            *)
(*                                                                         *)
(* The provider is external, and so are the fetchLive and apply of a       *)
(* cycle: a fetch is a number of requests, a create two (the second one    *)
(* fills in what the first one made), an update or a delete one.  Others   *)
(* edit the collections meanwhile.                                         *)
(***************************************************************************)
EXTENDS Integers, Sequences, FiniteSets

CONSTANTS
  Turns,       \* the cycles and scopes, in the order they are visited
  Key,         \* the keys of a collection
  Value,       \* what a resource may be like
  Bare,        \* what a resource is like when it has just been made
  Config,      \* the configurations: records of want, previously, malformed
  Ours,        \* keys for which isOwned holds
  Refused,     \* entries the provider never accepts: pairs of turn and key
  Pages,       \* requests a fetch takes
  Budget,      \* requestBudget
  MaxOutages,  \* requests that fail though they might be accepted, and exceptions
  MaxEdits     \* changes made by others

Turn == {Turns[i] : i \in DOMAIN Turns}
Absent == "absent"

ASSUME TurnsType == /\ Turns \in Seq(Turn) /\ Turns # <<>>
                    /\ \A i, j \in DOMAIN Turns : Turns[i] = Turns[j] => i = j
ASSUME KeyType == Absent \notin Key

ASSUME ConfigType ==
  \A c \in Config : /\ c.want \in [Turn -> [Key -> Value \cup {Absent}]]
                    /\ c.previously \in [Turn -> [Key -> Key \cup {Absent}]]
                    /\ c.malformed \subseteq Turn
ASSUME BareType == Absent \notin Value \cup {Bare}
ASSUME BudgetType == Budget \in Nat \ {0} /\ Pages \in [Turn -> Nat \ {0}]
ASSUME BoundType == MaxOutages \in Nat /\ MaxEdits \in Nat

VARIABLES
  config,    \* the configuration
  world,     \* the collections of the provider
  stage,     \* of the run: "idle", "visit" or "apply"
  mode,      \* "dry-run" or "apply"
  override,  \* allowGuardrailOverride
  pos,       \* the turn the run is at
  budget,    \* requests left
  left,      \* entries of the turn still to be applied
  half,      \* the key of a create whose first request is done
  skipped,   \* turns, and entries of turns, that were deferred
  errored,   \* turns that could not be fetched or built
  failed,    \* turns an entry of which failed
  blocked,   \* turns the guardrails stopped
  touched,   \* turns others have changed since the run began
  result,    \* of the last run: "none", "completed" or "incomplete"
  outages, edits

progress == <<stage, mode, override, pos, left, half>>
report == <<skipped, errored, failed, blocked, result>>
vars == <<config, world, progress, budget, report, touched, outages, edits>>

-----------------------------------------------------------------------------
(* The diff of a collection and the guardrails. *)

Wanted(t, k) == config.want[t][k] # Absent

\* diffCollection: what becomes of a key.
KindOf(t, live, k) ==
  CASE Wanted(t, k) /\ live[k] = Absent -> "create"
    [] Wanted(t, k) /\ live[k] # Absent /\ live[k] # config.want[t][k] -> "update"
    [] ~Wanted(t, k) /\ live[k] # Absent /\ k \in Ours -> "delete"
    [] OTHER -> "none"

Diff(t, live) ==
  {e \in [kind : {"create", "update", "delete"}, key : Key] : e.kind = KindOf(t, live, e.key)}

\* resolveRenames: a delete whose key a created entry had before is an update
\* together with it, and every create that names it is.
Renames(t, d, e) == /\ d.kind = "create" /\ e.kind = "delete"
                    /\ config.previously[t][d.key] = e.key
Renamed(t, plan) == {e \in plan : \E d \in plan : Renames(t, d, e)}
Renaming(t, plan) == {d \in plan : \E e \in plan : Renames(t, d, e)}

\* removalDeltaCap of the resolved entries: more than a quarter are deletes.
Trips(t, plan) ==
  LET deletes == {e \in plan : e.kind = "delete"} \ Renamed(t, plan)
      updates == {e \in plan : e.kind = "update"} \cup Renaming(t, plan)
  IN 4 * Cardinality(deletes) > Cardinality(deletes) + Cardinality(updates)

-----------------------------------------------------------------------------
(* The budget. *)

\* Mutant: taken off as it is.
SpentUnclamped(n) == budget - n

\* MutableRateBudget.use
Spent(n) == IF n > budget THEN 0 ELSE budget - n

Exhausted == budget = 0

\* A fetch that charges request by request throws when the budget runs out on
\* the way; one that charges all of them at once does not.
RunsOut(t) == budget < Pages[t]

-----------------------------------------------------------------------------
(* The run. *)

Here == Turns[pos]

Init == /\ config \in Config
        /\ world \in [Turn -> [Key -> Value \cup {Absent}]]
        /\ stage = "idle"
        /\ mode = "dry-run"
        /\ override = FALSE
        /\ pos = 1
        /\ budget = Budget
        /\ left = {}
        /\ half = Absent
        /\ skipped = {} /\ errored = {} /\ failed = {} /\ blocked = {} /\ touched = {}
        /\ result = "none"
        /\ outages = 0
        /\ edits = 0

Begin(m, o) ==
  /\ stage = "idle"
  /\ stage' = "visit"
  /\ mode' = m
  /\ override' = o
  /\ pos' = 1
  /\ budget' = Budget
  /\ skipped' = {} /\ errored' = {} /\ failed' = {} /\ blocked' = {} /\ touched' = {}
  /\ result' = "none"
  /\ UNCHANGED <<config, world, left, half, outages, edits>>

\* Mutant: entries that were deferred are not looked at.
CompletedAnyhow(skips, errors) == errors = {} /\ skips \cap Turn = {}

\* Neither what failed nor what was blocked counts.
Completed(skips, errors) == errors = {} /\ skips = {}

\* Goes to the next turn, or returns the result.
Leave(skips, errors) ==
  /\ skipped' = skips
  /\ errored' = errors
  /\ left' = {}
  /\ half' = Absent
  /\ IF pos < Len(Turns)
     THEN /\ pos' = pos + 1
          /\ stage' = "visit"
          /\ result' = result
     ELSE /\ pos' = 1
          /\ stage' = "idle"
          /\ result' = IF Completed(skips, errors) THEN "completed" ELSE "incomplete"

Visiting == stage = "visit"

Skip ==
  /\ Visiting
  /\ Exhausted \/ RunsOut(Here)
  /\ budget' = 0
  /\ Leave(skipped \cup {Here}, errored)
  /\ UNCHANGED <<config, world, mode, override, failed, blocked, touched, outages, edits>>

Outage == /\ outages < MaxOutages
          /\ outages' = outages + 1

FetchFails ==
  /\ Visiting
  /\ ~Exhausted
  /\ Outage
  /\ budget' = Spent(1)
  /\ Leave(skipped, errored \cup {Here})
  /\ UNCHANGED <<config, world, mode, override, failed, blocked, touched, edits>>

\* fetchLive and all that follows it without another request.
Fetch ==
  /\ Visiting
  /\ ~Exhausted
  /\ budget' = Spent(Pages[Here])
  /\ LET plan == Diff(Here, world[Here]) IN
     \/ /\ Here \in config.malformed
        /\ Leave(skipped, errored \cup {Here})
        /\ blocked' = blocked
     \/ /\ Here \notin config.malformed
        /\ mode = "dry-run" \/ plan = {}
        /\ Leave(skipped, errored)
        /\ blocked' = blocked
     \/ /\ Here \notin config.malformed
        /\ mode = "apply" /\ plan # {}
        /\ Trips(Here, plan) /\ ~override
        /\ Leave(skipped, errored)
        /\ blocked' = blocked \cup {Here}
     \/ /\ Here \notin config.malformed
        /\ mode = "apply" /\ plan # {}
        /\ ~Trips(Here, plan) \/ override
        /\ stage' = "apply"
        /\ left' = plan
        /\ UNCHANGED <<pos, half, skipped, errored, result, blocked>>
  /\ UNCHANGED <<config, world, mode, override, failed, touched, outages, edits>>

\* What the diff or the guardrails of the caller throw is caught by nothing: the
\* run is over, and without a result.
Aborts ==
  /\ Visiting
  /\ ~Exhausted
  /\ Here \notin config.malformed
  /\ Outage
  /\ budget' = Spent(Pages[Here])
  /\ stage' = "idle"
  /\ pos' = 1
  /\ UNCHANGED <<config, world, mode, override, left, half, report, touched, edits>>

-----------------------------------------------------------------------------
(* The entries. *)

\* The loop is at e: what is desired goes before the deletes, each in the order of
\* a Map, which is that of the input.
At(e) == /\ stage = "apply"
         /\ e \in left
         /\ half # Absent => e.key = half
         /\ e.kind = "delete" => \A d \in left : d.kind = "delete"

Then(rest, skips) ==
  IF rest = {} THEN Leave(skips, errored)
  ELSE /\ left' = rest
       /\ half' = Absent
       /\ skipped' = skips
       /\ UNCHANGED <<stage, pos, errored, result>>

Set(k, v) == world' = [world EXCEPT ![Here][k] = v]

\* Whether the budget is exhausted before the entry or in the middle of it.
SkipEntry(e) ==
  /\ At(e)
  /\ Exhausted
  /\ Then(left \ {e}, skipped \cup {<<Here, e.key>>})
  /\ UNCHANGED <<config, world, mode, override, budget, failed, blocked, touched, outages, edits>>

Accepts(e) == <<Here, e.key>> \notin Refused
Exists(e) == world[Here][e.key] # Absent

CreateRequest(e) ==
  /\ At(e)
  /\ ~Exhausted
  /\ e.kind = "create" /\ half = Absent
  /\ Accepts(e) /\ ~Exists(e)
  /\ Set(e.key, Bare)
  /\ budget' = Spent(1)
  /\ half' = e.key
  /\ UNCHANGED <<config, stage, mode, override, pos, left, report, touched, outages, edits>>

\* What is already gone need not be deleted; what is gone cannot be changed.
LastRequest(e) ==
  /\ At(e)
  /\ ~Exhausted
  /\ Accepts(e)
  /\ e.kind = "create" => half # Absent
  /\ e.kind # "delete" => Exists(e)
  /\ Set(e.key, config.want[Here][e.key])
  /\ budget' = Spent(1)
  /\ Then(left \ {e}, skipped)
  /\ UNCHANGED <<config, mode, override, failed, blocked, touched, outages, edits>>

\* Mutant: the first entry that fails is the last one of its turn.
AfterFailureNothing(e) == {}

\* The loop goes on.
AfterFailure(e) == left \ {e}

Conflicts(e) == \/ e.kind = "create" /\ (half = Absent <=> Exists(e))
                \/ e.kind = "update" /\ ~Exists(e)

\* The provider refuses the entry, finds it in conflict with what others have
\* done, or is out of order.
EntryFails(e) ==
  /\ At(e)
  /\ ~Exhausted
  /\ \/ /\ ~Accepts(e) \/ Conflicts(e)
        /\ outages' = outages
     \/ Outage
  /\ budget' = Spent(1)
  /\ failed' = failed \cup {Here}
  /\ Then(AfterFailure(e), skipped)
  /\ UNCHANGED <<config, world, mode, override, blocked, touched, edits>>

\* Somebody else creates, changes or deletes a resource.
EditedOutside(t, k, v) ==
  /\ edits < MaxEdits
  /\ edits' = edits + 1
  /\ v # world[t][k]
  /\ world' = [world EXCEPT ![t][k] = v]
  /\ touched' = touched \cup {t}
  /\ UNCHANGED <<config, progress, budget, report, outages>>

Step == \/ Skip \/ FetchFails \/ Fetch \/ Aborts
        \/ \E e \in left : SkipEntry(e) \/ CreateRequest(e) \/ LastRequest(e) \/ EntryFails(e)

Next == \/ \E m \in {"dry-run", "apply"}, o \in BOOLEAN : Begin(m, o)
        \/ Step
        \/ \E t \in Turn, k \in Key, v \in Value \cup {Absent} : EditedOutside(t, k, v)

Spec == Init /\ [][Next]_vars

\* A run goes on until it returns, and runs in apply mode are started again and
\* again.
FairSpec == /\ Spec
            /\ WF_vars(Step)
            /\ SF_vars(\E o \in BOOLEAN : Begin("apply", o))

-----------------------------------------------------------------------------
(* Properties. *)

\* Every variable stays within its type: the budget never below zero, entries
\* only while one turn is applied.
TypeOK ==
  /\ config \in Config
  /\ world \in [Turn -> [Key -> Value \cup {Absent, Bare}]]
  /\ stage \in {"idle", "visit", "apply"}
  /\ mode \in {"dry-run", "apply"} /\ override \in BOOLEAN
  /\ pos \in DOMAIN Turns
  /\ budget \in 0..Budget
  /\ left \subseteq [kind : {"create", "update", "delete"}, key : Key]
  /\ left # {} <=> stage = "apply"
  /\ half # Absent => [kind |-> "create", key |-> half] \in left
  /\ skipped \subseteq Turn \cup (Turn \X Key)
  /\ errored \cup failed \cup blocked \cup touched \subseteq Turn
  /\ result \in {"none", "completed", "incomplete"}
  /\ outages \in 0..MaxOutages /\ edits \in 0..MaxEdits

\* A run in apply mode that says it completed has brought every collection to
\* what is configured, but for those it reports as blocked or with failures and
\* those that others have changed since it began: neither its budget nor an error
\* may have cut it short unnoticed.
CompletedMeansConverged ==
  result = "completed" /\ mode = "apply" =>
    \A t \in Turn \ (blocked \cup failed \cup touched) : Diff(t, world[t]) = {}

\* All that is left to do in a collection is what the provider refuses or what
\* the guardrails want confirmed.
Reconciled(t) ==
  LET plan == Diff(t, world[t]) IN
  Trips(t, plan) \/ \A e \in plan : <<t, e.key>> \in Refused

\* Runs that are started again and again reconcile every collection in the end,
\* although one run's budget does for a part of the work only and a refused entry
\* fails each time.  The budget must do for all fetches, all refused entries and one
\* entry more: every run begins at the first turn again, and what uses the budget
\* up each time starves the turns after it.
Converges == \A t \in Turn : (t \notin config.malformed) => <>[]Reconciled(t)
=============================================================================
