------------------------------- MODULE FlyApply -------------------------------
(***************************************************************************)
(* The native Fly applier (lexicons/fly/src/op/activities/fly-apply.ts):   *)
(* flyApply, its optional prune, and flyDelete, run by several appliers    *)
(* (two operators, or two attempts of one Op step) against one app of the  *)
(* Machines API.  Every request is a step: what was listed may have        *)
(* changed by the time it is acted on.                                     *)
(*                                                                         *)
(* Changing or destroying a machine goes through a lease: acquire (tried   *)
(* twice), mutate with the nonce, on a lost lease acquire again and mutate *)
(* again, release.  A lease also lapses on its own.                        *)
(*                                                                         *)
(* The server is external: a machine's name is unique in its app, a mount  *)
(* must exist, deleting an app deletes what is in it.                      *)
(***************************************************************************)
EXTENDS Integers, Sequences, FiniteSets

CONSTANTS
  Applier,   \* runs of flyApply or flyDelete that may overlap
  Plan,      \* what each applier's serialized plan declares
  Modes,     \* how an applier may be called: "apply", "prune", "delete"
  Mounts,    \* the volumes a machine of that name mounts
  Outside,   \* what others create in the app, by hand
  Deployed,  \* what may be in place already, from earlier applies
  Id,        \* identities of resources
  MaxRuns    \* bound on the runs of a behaviour

Kind == {"volume", "machine", "ip", "cert", "secret"}
Names == (UNION {{e.name : e \in Plan[a]} : a \in Applier}) \cup {e.name : e \in Outside}
Entry == [kind : Kind, name : Names, config : {"c1", "c2"}]

ASSUME PlanType == Plan \in [Applier -> SUBSET Entry] /\ Outside \subseteq Entry
ASSUME ModesType == Modes \in [Applier -> SUBSET {"apply", "prune", "delete"}]
ASSUME DeployedType == Deployed \subseteq Seq(Entry)
ASSUME MountsType == Mounts \in [Names -> SUBSET Names]
ASSUME IdType == Id \subseteq Nat \ {0}
ASSUME BoundType == MaxRuns \in Nat

VARIABLES
  app,      \* whether the app exists
  live,     \* the resources in it
  lease,    \* who holds the lease of a machine, with which nonce
  runs,     \* runs begun so far
  pc,       \* next request of each applier
  mode,     \* how it was called
  pending,  \* entries of the plan it has not dealt with
  entry,    \* the entry it is dealing with
  kinds,    \* how many kinds it has still to prune
  seen,     \* resources its listing said to prune
  target,   \* the machine it is changing or destroying
  purpose,  \* "update" or "destroy"
  version,  \* the instance it waits for
  nonce,    \* the lease nonce it has: 0 for none
  tries,    \* refused attempts to acquire, in one acquireLease
  again,    \* whether the mutation is already being retried
  verdict,  \* what it will do once the lease is released
  outcome,  \* how its last run ended
  alone     \* only what it did itself has happened since it began

server == <<app, live, lease>>
lock == <<nonce, tries, again, verdict>>
job == <<target, purpose, version>>
plan == <<pending, entry, kinds, seen>>
vars == <<server, runs, pc, mode, plan, job, lock, outcome, alone>>

NoEntry == [kind |-> "none", name |-> "none", config |-> "none"]
Absent == [kind |-> "none", name |-> "none", config |-> "none",
           owned |-> FALSE, state |-> "absent", version |-> 0]
NoLease == <<>>

\* Order in which the kinds are applied, and in which they are pruned.
Rank == [volume |-> 1, machine |-> 2, ip |-> 3, cert |-> 4, secret |-> 5]
PruneOrder == <<"secret", "cert", "ip", "volume", "machine">>

-----------------------------------------------------------------------------
(* The server, external. *)

\* The resources of a kind with a name: what find() looks for in a listing.
Found(k, n) == {i \in Id : live[i].kind = k /\ live[i].name = n}

\* The identity of the next resource: one nothing refers to any more, as the
\* server never reuses one.
Unused == LET free == {i \in Id : /\ live[i] = Absent
                                  /\ \A a \in Applier : target[a] # i /\ i \notin seen[a]}
          IN {i \in free : \A j \in free : i <= j}

MountsExist(n) == \A v \in Mounts[n] : Found("volume", v) # {}

\* Whether a POST for an entry is taken.
Accepts(e) == /\ app
              /\ e.kind = "machine" => Found("machine", e.name) = {} /\ MountsExist(e.name)

Created(e, marked) ==
  [kind |-> e.kind, name |-> e.name, config |-> e.config,
   owned |-> marked /\ e.kind = "machine",
   state |-> IF e.kind = "machine" THEN "starting" ELSE "started",
   version |-> 1]

Init == /\ \E d \in Deployed :
             /\ app = (d # <<>>)
             /\ live = [i \in Id |-> IF i > Len(d) THEN Absent
                                   ELSE [Created(d[i], TRUE) EXCEPT !.state = "started"]]
        /\ lease = [i \in Id |-> NoLease]
        /\ runs = 0
        /\ pc = [a \in Applier |-> "idle"]
        /\ mode = [a \in Applier |-> "none"]
        /\ pending = [a \in Applier |-> {}]
        /\ entry = [a \in Applier |-> NoEntry]
        /\ kinds = [a \in Applier |-> 0]
        /\ seen = [a \in Applier |-> {}]
        /\ target = [a \in Applier |-> 0]
        /\ purpose = [a \in Applier |-> "none"]
        /\ version = [a \in Applier |-> 0]
        /\ nonce = [a \in Applier |-> 0]
        /\ tries = [a \in Applier |-> 0]
        /\ again = [a \in Applier |-> FALSE]
        /\ verdict = [a \in Applier |-> "none"]
        /\ outcome = [a \in Applier |-> "none"]
        /\ alone = [a \in Applier |-> FALSE]

-----------------------------------------------------------------------------
(* An applier. *)

Goto(a, from, to) == /\ pc[a] = from
                     /\ pc' = [pc EXCEPT ![a] = to]

\* The run ends: result or exception.
End(a, result) ==
  /\ pc' = [pc EXCEPT ![a] = "idle"]
  /\ outcome' = [outcome EXCEPT ![a] = result]
  /\ pending' = [pending EXCEPT ![a] = {}]
  /\ entry' = [entry EXCEPT ![a] = NoEntry]
  /\ kinds' = [kinds EXCEPT ![a] = 0]
  /\ seen' = [seen EXCEPT ![a] = {}]
  /\ target' = [target EXCEPT ![a] = 0]
  /\ purpose' = [purpose EXCEPT ![a] = "none"]
  /\ version' = [version EXCEPT ![a] = 0]
  /\ nonce' = [nonce EXCEPT ![a] = 0]
  /\ tries' = [tries EXCEPT ![a] = 0]
  /\ again' = [again EXCEPT ![a] = FALSE]
  /\ verdict' = [verdict EXCEPT ![a] = "none"]
  /\ mode' = [mode EXCEPT ![a] = "none"]
  /\ alone' = [alone EXCEPT ![a] = FALSE]
  /\ UNCHANGED runs

\* flyApply or flyDelete is called.  flyDelete looks at machines only.
Begin(a) ==
  \E m \in Modes[a] :
    /\ runs < MaxRuns
    /\ Goto(a, "idle", IF m = "delete" THEN "next" ELSE "app")
    /\ runs' = runs + 1
    /\ mode' = [mode EXCEPT ![a] = m]
    /\ outcome' = [outcome EXCEPT ![a] = "none"]
    /\ pending' = [pending EXCEPT
          ![a] = {e \in Plan[a] : m = "delete" => e.kind = "machine"}]
    /\ alone' = [b \in Applier |-> b = a /\ \A c \in Applier \ {a} : pc[c] = "idle"]
    /\ UNCHANGED <<server, entry, kinds, seen, job, lock>>

\* applyApp: GET, and POST when it was absent; a conflict there means it exists.
GetApp(a) ==
  /\ Goto(a, "app", IF app THEN "next" ELSE "appCreate")
  /\ UNCHANGED <<server, runs, mode, plan, job, lock, outcome, alone>>

CreateApp(a) ==
  /\ Goto(a, "appCreate", "next")
  /\ app' = TRUE
  /\ UNCHANGED <<live, lease, runs, mode, plan, job, lock, outcome, alone>>

\* The entries whose turn it is: kind by kind.
Turn(a) == {e \in pending[a] : \A f \in pending[a] : Rank[e.kind] <= Rank[f.kind]}

\* What is to be done about an entry, from the listing of its kind.  A secret is
\* never read back: it is always set.
NeedsCreate(e) == e.kind # "secret" /\ Found(e.kind, e.name) = {}
Drifted(e) == /\ e.kind = "machine"
              /\ \A i \in Found("machine", e.name) : live[i].config # e.config

\* The start of applyVolume, applyMachine, applyIp, applyCert: list and decide.
Inspect(a) ==
  \E e \in Turn(a) :
    /\ mode[a] # "delete"
    /\ e.kind # "secret"
    /\ pending' = [pending EXCEPT ![a] = @ \ {e}]
    /\ \/ /\ NeedsCreate(e)
          /\ Goto(a, "next", "create")
          /\ entry' = [entry EXCEPT ![a] = e]
          /\ UNCHANGED <<target, purpose>>
       \/ /\ ~NeedsCreate(e) /\ Drifted(e)
          /\ Goto(a, "next", "acquire")
          /\ entry' = [entry EXCEPT ![a] = e]
          /\ \E i \in Found("machine", e.name) : target' = [target EXCEPT ![a] = i]
          /\ purpose' = [purpose EXCEPT ![a] = "update"]
       \/ /\ ~NeedsCreate(e) /\ ~Drifted(e)
          /\ Goto(a, "next", "next")
          /\ UNCHANGED <<entry, target, purpose>>
    /\ UNCHANGED <<server, runs, mode, kinds, seen, version, lock, outcome, alone>>

\* applySecret: POST, whatever is there.
SetSecret(a) ==
  \E e \in Turn(a) :
    /\ mode[a] # "delete"
    /\ e.kind = "secret"
    /\ Goto(a, "next", "next")
    /\ app
    /\ pending' = [pending EXCEPT ![a] = @ \ {e}]
    /\ IF Found("secret", e.name) = {}
       THEN \E i \in Unused : live' = [live EXCEPT ![i] = Created(e, FALSE)]
       ELSE live' = [i \in Id |-> IF i \in Found("secret", e.name)
                                  THEN Created(e, FALSE) ELSE live[i]]
    /\ UNCHANGED <<app, lease, runs, mode, entry, kinds, seen, job, lock, outcome, alone>>

\* POST of a resource that was not in the listing; a machine is then waited for.
Create(a) ==
  /\ Accepts(entry[a])
  /\ Goto(a, "create", IF entry[a].kind = "machine" THEN "wait" ELSE "next")
  /\ \E i \in Unused :
       /\ live' = [live EXCEPT ![i] = Created(entry[a], TRUE)]
       /\ target' = [target EXCEPT ![a] = IF entry[a].kind = "machine" THEN i ELSE 0]
  /\ purpose' = [purpose EXCEPT
        ![a] = IF entry[a].kind = "machine" THEN "update" ELSE "none"]
  /\ version' = [version EXCEPT ![a] = IF entry[a].kind = "machine" THEN 1 ELSE 0]
  /\ entry' = [entry EXCEPT ![a] = IF @.kind = "machine" THEN @ ELSE NoEntry]
  /\ UNCHANGED <<app, lease, runs, mode, pending, kinds, seen, lock, outcome, alone>>

\* A status of 300 or more, from the POST of an entry: the run fails.
CreateRefused(a) ==
  /\ \/ pc[a] = "create" /\ ~Accepts(entry[a])
     \/ pc[a] = "next" /\ ~app /\ \E e \in Turn(a) : mode[a] # "delete" /\ e.kind = "secret"
  /\ End(a, "failed")
  /\ UNCHANGED server

\* Every entry dealt with: prune, or the app itself when deleting, or done.
Applied(a) ==
  /\ pc[a] = "next"
  /\ pending[a] = {}
  /\ \/ /\ mode[a] = "apply"
        /\ End(a, "ok")
     \/ /\ mode[a] = "prune"
        /\ Goto(a, "next", "list")
        /\ kinds' = [kinds EXCEPT ![a] = Cardinality(Kind)]
        /\ UNCHANGED <<runs, mode, pending, entry, seen, job, lock, outcome, alone>>
  /\ UNCHANGED server

\* deleteApp.  A 404 means it is already gone.
DeleteApp(a) ==
  /\ pc[a] = "next"
  /\ pending[a] = {}
  /\ mode[a] = "delete"
  /\ app' = FALSE
  /\ live' = [i \in Id |-> Absent]
  /\ lease' = [i \in Id |-> NoLease]
  /\ End(a, "ok")

\* flyDelete: the machine the plan declares, found by name, is destroyed.
FindDoomed(a) ==
  \E e \in pending[a] :
    /\ mode[a] = "delete"
    /\ pending' = [pending EXCEPT ![a] = @ \ {e}]
    /\ IF Found("machine", e.name) = {}
       THEN /\ Goto(a, "next", "next")
            /\ UNCHANGED <<target, purpose>>
       ELSE /\ Goto(a, "next", "acquire")
            /\ \E i \in Found("machine", e.name) : target' = [target EXCEPT ![a] = i]
            /\ purpose' = [purpose EXCEPT ![a] = "destroy"]
    /\ UNCHANGED <<server, runs, mode, entry, kinds, seen, version, lock, outcome, alone>>

Keep(a, k) == {e.name : e \in {f \in Plan[a] : f.kind = k}}

\* Mutants: the ownership marker not looked at; the declared names neither.
PrunableAny(a, k) == {i \in Id : live[i].kind = k /\ live[i].name \notin Keep(a, k)}
PrunableOwned(a, k) == {i \in Id : live[i].kind = k /\ live[i].owned}

\* What a listing says to prune: machines by the marker, the rest by name alone.
Prunable(a, k) ==
  {i \in Id : /\ live[i].kind = k
              /\ live[i].name \notin Keep(a, k)
              /\ k = "machine" => live[i].owned /\ live[i].state # "destroying"}

ListToPrune(a) ==
  /\ IF kinds[a] = 0
     THEN pc[a] = "list" /\ End(a, "ok")
     ELSE /\ Goto(a, "list", "prune")
          /\ seen' = [seen EXCEPT ![a] = Prunable(a, PruneOrder[kinds[a]])]
          /\ kinds' = [kinds EXCEPT ![a] = @ - 1]
          /\ UNCHANGED <<runs, mode, pending, entry, job, lock, outcome, alone>>
  /\ UNCHANGED server

\* The machines are pruned through their lease, the rest by one DELETE each.
Prune(a) ==
  \/ /\ seen[a] = {}
     /\ Goto(a, "prune", "list")
     /\ UNCHANGED <<server, runs, mode, plan, job, lock, outcome, alone>>
  \/ \E i \in seen[a] :
       /\ seen' = [seen EXCEPT ![a] = @ \ {i}]
       /\ IF kinds[a] = Cardinality(Kind) - 1
          THEN /\ Goto(a, "prune", "acquire")
               /\ target' = [target EXCEPT ![a] = i]
               /\ purpose' = [purpose EXCEPT ![a] = "destroy"]
               /\ UNCHANGED live
          ELSE /\ Goto(a, "prune", "prune")
               /\ live' = [live EXCEPT ![i] = Absent]
               /\ UNCHANGED <<target, purpose>>
       /\ UNCHANGED <<app, lease, runs, mode, pending, entry, kinds, version, lock,
                      outcome, alone>>

-----------------------------------------------------------------------------
(* A mutation under a lease: withLease and acquireLease. *)

\* withLease gives up: its finally releases the nonce it has, if it has one.
GiveUp(a) ==
  IF nonce[a] = 0
  THEN End(a, "failed")
  ELSE /\ pc' = [pc EXCEPT ![a] = "release"]
       /\ verdict' = [verdict EXCEPT ![a] = "failed"]
       /\ UNCHANGED <<runs, mode, plan, job, nonce, tries, again, outcome, alone>>

\* Mutant: the nonce of the second acquisition dropped.
FreshNonceFirst(a) == IF nonce[a] = 0 THEN 1 ELSE nonce[a]

\* The nonce of a new lease is none the applier has had for this mutation.
FreshNonce(a) == IF again[a] THEN 2 ELSE 1

Acquire(a) ==
  LET i == target[a] IN
  /\ Goto(a, "acquire", "mutate")
  /\ lease[i] = NoLease
  /\ live[i] # Absent
  /\ lease' = [lease EXCEPT ![i] = <<a, IF again[a] THEN 2 ELSE 1>>]
  /\ nonce' = [nonce EXCEPT ![a] = FreshNonce(a)]
  /\ tries' = [tries EXCEPT ![a] = 0]
  /\ UNCHANGED <<app, live, runs, mode, plan, job, again, verdict, outcome, alone>>

\* Mutant: twice more.
MayRetryTwice(a) == tries[a] <= 1

\* A conflict is retried once.
MayRetry(a) == tries[a] = 0

\* 409, somebody holds it: tried once more.  A machine that is gone is an error.
AcquireRefused(a) ==
  LET i == target[a] IN
  /\ pc[a] = "acquire"
  /\ lease[i] # NoLease \/ live[i] = Absent
  /\ IF lease[i] # NoLease /\ MayRetry(a)
     THEN /\ tries' = [tries EXCEPT ![a] = @ + 1]
          /\ UNCHANGED <<pc, runs, mode, plan, job, nonce, again, verdict, outcome, alone>>
     ELSE GiveUp(a)
  /\ UNCHANGED server

Holds(a) == lease[target[a]] = <<a, nonce[a]>>

\* The request is let through; after the lease lapsed the server may or may not.
\* The answer can still be lost.
Mutate(a) ==
  LET i == target[a]
      done == \/ purpose[a] = "destroy"
              \/ live[i] # Absent /\ live[i].state # "destroying" /\ MountsExist(live[i].name) IN
  /\ Goto(a, "mutate", "release")
  /\ Holds(a) \/ lease[i] = NoLease
  /\ \E answered \in BOOLEAN :
       verdict' = [verdict EXCEPT ![a] = IF done /\ answered THEN "ok" ELSE "failed"]
  /\ live' = IF ~done \/ live[i] = Absent THEN live
             ELSE IF purpose[a] = "destroy" THEN [live EXCEPT ![i].state = "destroying"]
             ELSE [live EXCEPT ![i] = [Created(entry[a], TRUE) EXCEPT !.version = live[i].version + 1]]
  /\ version' = [version EXCEPT ![a] = IF purpose[a] = "update" THEN live'[i].version ELSE 0]
  /\ UNCHANGED <<app, lease, runs, mode, plan, target, purpose, nonce, tries, again,
                 outcome, alone>>

\* 409, the lease was lost: acquire again and mutate again, once.
LeaseLost(a) ==
  /\ pc[a] = "mutate"
  /\ ~Holds(a)
  /\ IF again[a]
     THEN GiveUp(a)
     ELSE /\ Goto(a, "mutate", "acquire")
          /\ again' = [again EXCEPT ![a] = TRUE]
          /\ UNCHANGED <<runs, mode, plan, job, nonce, tries, verdict, outcome, alone>>
  /\ UNCHANGED server

\* withLease returns or throws, its lease released or not.
AfterRelease(a) ==
  /\ pc[a] = "release"
  /\ IF verdict[a] = "failed"
     THEN End(a, "failed")
     ELSE /\ pc' = [pc EXCEPT ![a] = "wait"]
          /\ nonce' = [nonce EXCEPT ![a] = 0]
          /\ again' = [again EXCEPT ![a] = FALSE]
          /\ verdict' = [verdict EXCEPT ![a] = "none"]
          /\ UNCHANGED <<runs, mode, plan, job, tries, outcome, alone>>
  /\ UNCHANGED <<app, live>>

\* releaseLease: best effort, a release that is lost is not noticed.
Release(a) ==
  /\ AfterRelease(a)
  /\ lease' = IF Holds(a) THEN [lease EXCEPT ![target[a]] = NoLease] ELSE lease

ReleaseLost(a) == AfterRelease(a) /\ lease' = lease

\* Mutant: the wait does not name the instance.
SettledAnyVersion(a) ==
  LET m == live[target[a]] IN
  IF purpose[a] = "destroy" THEN m = Absent ELSE m.state = "started"

\* What GET .../wait answers ok to.
Settled(a) ==
  LET m == live[target[a]] IN
  IF purpose[a] = "destroy" THEN m = Absent
  ELSE m.state = "started" /\ m.version = version[a]

Waited(a) ==
  /\ Goto(a, "wait", IF purpose[a] = "destroy" /\ mode[a] = "prune" THEN "prune" ELSE "next")
  /\ Settled(a)
  /\ entry' = [entry EXCEPT ![a] = NoEntry]
  /\ target' = [target EXCEPT ![a] = 0]
  /\ purpose' = [purpose EXCEPT ![a] = "none"]
  /\ version' = [version EXCEPT ![a] = 0]
  /\ UNCHANGED <<server, runs, mode, pending, kinds, seen, lock, outcome, alone>>

\* The deadline passes, or the wait is answered with an error.
WaitFails(a) ==
  /\ pc[a] = "wait"
  /\ End(a, "failed")
  /\ UNCHANGED server

\* A request fails on the network, or the signal aborts it.
Throws(a) ==
  /\ pc[a] \notin {"idle", "release"}
  /\ GiveUp(a)
  /\ UNCHANGED server

\* The process is killed: no finally runs.
Killed(a) ==
  /\ pc[a] # "idle"
  /\ End(a, "killed")
  /\ UNCHANGED server

-----------------------------------------------------------------------------
(* The environment. *)

MachineStarts(i) ==
  /\ live[i].state = "starting"
  /\ live' = [live EXCEPT ![i].state = "started"]
  /\ UNCHANGED <<app, lease, runs, pc, mode, plan, job, lock, outcome, alone>>

\* For a run that did not ask for it, that is somebody else's doing.
MachineReaped(i) ==
  /\ live[i].state = "destroying"
  /\ live' = [live EXCEPT ![i] = Absent]
  /\ lease' = [lease EXCEPT ![i] = NoLease]
  /\ alone' = [a \in Applier |-> alone[a] /\ target[a] = i /\ purpose[a] = "destroy"]
  /\ UNCHANGED <<app, runs, pc, mode, plan, job, lock, outcome>>

\* The 60 seconds of a lease are over.
LeaseExpires(i) ==
  /\ lease[i] # NoLease
  /\ lease' = [lease EXCEPT ![i] = NoLease]
  /\ UNCHANGED <<app, live, runs, pc, mode, plan, job, lock, outcome, alone>>

\* Somebody creates a resource by hand, without the marker.
CreatedOutside ==
  \E e \in Outside, i \in Unused :
    /\ Accepts(e)
    /\ Found(e.kind, e.name) = {}
    /\ live' = [live EXCEPT ![i] = Created(e, FALSE)]
    /\ alone' = [a \in Applier |-> FALSE]
    /\ UNCHANGED <<app, lease, runs, pc, mode, plan, job, lock, outcome>>

Step(a) == \/ GetApp(a) \/ CreateApp(a) \/ Inspect(a) \/ SetSecret(a) \/ Create(a)
           \/ CreateRefused(a) \/ Applied(a) \/ DeleteApp(a) \/ FindDoomed(a)
           \/ ListToPrune(a) \/ Prune(a)
           \/ Acquire(a) \/ AcquireRefused(a) \/ Mutate(a) \/ LeaseLost(a) \/ Release(a) \/ ReleaseLost(a)
           \/ Waited(a) \/ WaitFails(a)

Next == \/ \E a \in Applier : Begin(a) \/ Step(a) \/ Throws(a) \/ Killed(a)
        \/ \E i \in Id : MachineStarts(i) \/ MachineReaped(i) \/ LeaseExpires(i)
        \/ CreatedOutside

Spec == Init /\ [][Next]_vars

-----------------------------------------------------------------------------
(* Properties. *)

Ids == Id \cup {0}
Resource == [kind : Kind \cup {"none"}, name : Names \cup {"none"},
             config : {"c1", "c2", "none"}, owned : BOOLEAN,
             state : {"absent", "starting", "started", "destroying"}, version : Nat]

\* Every variable stays within its type: an applier is at a machine exactly
\* while it changes, destroys or waits for one, and holds a nonce only then.
TypeOK ==
  /\ app \in BOOLEAN
  /\ live \in [Id -> Resource]
  /\ lease \in [Id -> {NoLease} \cup (Applier \X {1, 2})]
  /\ runs \in 0..MaxRuns
  /\ pc \in [Applier -> {"idle", "app", "appCreate", "next", "create", "acquire", "mutate",
                         "release", "wait", "list", "prune"}]
  /\ mode \in [Applier -> {"none", "apply", "prune", "delete"}]
  /\ pending \in [Applier -> SUBSET Entry] /\ \A a \in Applier : pending[a] \subseteq Plan[a]
  /\ seen \in [Applier -> SUBSET Id]
  /\ entry \in [Applier -> Entry \cup {NoEntry}]
  /\ kinds \in [Applier -> 0..Cardinality(Kind)]
  /\ target \in [Applier -> Ids]
  /\ \A a \in Applier : target[a] # 0 <=> pc[a] \in {"acquire", "mutate", "release", "wait"}
  /\ purpose \in [Applier -> {"none", "update", "destroy"}]
  /\ version \in [Applier -> Nat]
  /\ nonce \in [Applier -> 0..2]
  /\ \A a \in Applier : nonce[a] # 0 => pc[a] \in {"acquire", "mutate", "release"}
  /\ tries \in [Applier -> 0..1]
  /\ again \in [Applier -> BOOLEAN]
  /\ verdict \in [Applier -> {"none", "ok", "failed"}]
  /\ outcome \in [Applier -> {"none", "ok", "failed", "killed"}]
  /\ alone \in [Applier -> BOOLEAN]

\* A prune never tears down a machine without chant's marker, though it acts on
\* a listing that may be old: only a delete does (fly-apply.ts:504-509).
ForeignSpared ==
  [][\A i \in Id : live[i].kind = "machine" /\ ~live[i].owned /\ live'[i] # live[i] /\ app' =>
       \/ live'[i].state = "started" /\ live[i].state = "starting"
       \/ live[i].state = "destroying"
       \/ \E a \in Applier : target[a] = i /\ (mode[a] = "delete" \/ purpose[a] = "update")]_vars

\* A machine an applier has waited for runs what that applier sent: the instance
\* it names is its own, never the one before it nor another applier's later one.
WaitedMeansRunning ==
  [][\A a \in Applier :
       pc[a] = "wait" /\ pc'[a] = "next" /\ purpose[a] = "update" =>
         /\ live[target[a]].state = "started"
         /\ live[target[a]].config = entry[a].config]_vars

\* A release that reaches the server leaves the applier without a lease, the
\* machine free for the next one, also when it had to acquire twice.
ReleaseFrees ==
  [][\A a \in Applier :
       Release(a) => \A n \in {1, 2} : lease'[target[a]] # <<a, n>>]_vars

Declared(a, i) == \E e \in Plan[a] : /\ live[i].kind = e.kind /\ live[i].name = e.name
                                    /\ e.kind = "machine" => live[i].config = e.config
AllThere(a) == \A e \in Plan[a] : \E i \in Found(e.kind, e.name) : Declared(a, i)
NothingMore(a) == \A k \in Kind : Prunable(a, k) = {}

\* A run that succeeds, with nobody else at work, leaves the app as its plan
\* says, whatever earlier runs left half done: everything declared is there, and
\* after a prune nothing chant owns besides.
AppliedMeansConverged ==
  [][\A a \in Applier :
       outcome[a] = "none" /\ outcome'[a] = "ok" /\ alone[a] =>
         /\ mode[a] # "delete" => AllThere(a)
         /\ mode[a] = "prune" => NothingMore(a)
         /\ mode[a] = "delete" => ~app']_vars
=============================================================================
