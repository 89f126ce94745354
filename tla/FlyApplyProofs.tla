---------------------------- MODULE FlyApplyProofs ----------------------------
(***************************************************************************)
(* Theorems about FlyApply, for any number of appliers and runs, any plans *)
(* and anything in place already.                                          *)
(***************************************************************************)
EXTENDS FlyApply, FiniteSetTheorems, TLAPS

-----------------------------------------------------------------------------
(* Type correctness. *)

LEMMA FiveKinds == Cardinality(Kind) = 5
<1>1. Cardinality({}) = 0 /\ IsFiniteSet({})
  BY FS_EmptySet
<1>2. Cardinality({"volume"}) = 1 /\ IsFiniteSet({"volume"})
  BY FS_Singleton
<1>3. /\ Cardinality({"volume"} \cup {"machine"}) = 2
      /\ IsFiniteSet({"volume"} \cup {"machine"})
  BY <1>2, FS_AddElement
<1>4. /\ Cardinality({"volume", "machine"} \cup {"ip"}) = 3
      /\ IsFiniteSet({"volume", "machine"} \cup {"ip"})
  BY <1>3, FS_AddElement
<1>5. /\ Cardinality({"volume", "machine", "ip"} \cup {"cert"}) = 4
      /\ IsFiniteSet({"volume", "machine", "ip"} \cup {"cert"})
  BY <1>4, FS_AddElement
<1>6. Cardinality({"volume", "machine", "ip", "cert"} \cup {"secret"}) = 5
  BY <1>5, FS_AddElement
<1>7. Kind = {"volume", "machine", "ip", "cert"} \cup {"secret"}
  BY DEF Kind
<1> QED
  BY <1>6, <1>7

AtMachine == {"acquire", "mutate", "release", "wait"}

ServerTypes == /\ app \in BOOLEAN
               /\ live \in [Id -> Resource]
               /\ lease \in [Id -> {NoLease} \cup (Applier \X {1, 2})]

LEMMA CreatedType ==
  ASSUME NEW e \in Entry \cup {NoEntry}, NEW m \in BOOLEAN
  PROVE  Created(e, m) \in Resource
BY DEF Created, Entry, NoEntry, Resource

LEMMA AbsentType == Absent \in Resource
BY DEF Absent, Resource

LEMMA TypeInit == Init => TypeOK
<1> SUFFICES ASSUME Init PROVE TypeOK
  OBVIOUS
<1>1. app \in BOOLEAN /\ live \in [Id -> Resource]
  <2>1. PICK d \in Deployed :
          /\ app = (d # <<>>)
          /\ live = [i \in Id |-> IF i > Len(d) THEN Absent
                                ELSE [Created(d[i], TRUE) EXCEPT !.state = "started"]]
    BY DEF Init
  <2>2. ASSUME NEW i \in Id
        PROVE  (IF i > Len(d) THEN Absent
                ELSE [Created(d[i], TRUE) EXCEPT !.state = "started"]) \in Resource
    <3>1. CASE i > Len(d)
      BY <3>1, AbsentType
    <3>2. CASE ~(i > Len(d))
      <4>1. d[i] \in Entry
        BY <3>2, DeployedType, IdType
      <4>2. Created(d[i], TRUE) \in Resource
        BY <4>1, CreatedType
      <4> QED
        BY <3>2, <4>2 DEF Resource
    <3> QED
      BY <3>1, <3>2
  <2> QED
    BY <2>1, <2>2
<1>2. NoEntry \in Entry \cup {NoEntry} /\ 0 \in 0..Cardinality(Kind) /\ 0 \in 0..MaxRuns
  BY FiveKinds, BoundType
<1>3. /\ lease \in [Id -> {NoLease} \cup (Applier \X {1, 2})]
      /\ runs \in 0..MaxRuns
      /\ pending \in [Applier -> SUBSET Entry] /\ \A a \in Applier : pending[a] \subseteq Plan[a]
      /\ seen \in [Applier -> SUBSET Id]
      /\ kinds \in [Applier -> 0..Cardinality(Kind)]
      /\ version \in [Applier -> Nat] /\ nonce \in [Applier -> 0..2] /\ tries \in [Applier -> 0..1]
  BY <1>2 DEF Init
<1>4. /\ pc \in [Applier -> {"idle"}] /\ target \in [Applier -> Ids]
      /\ \A a \in Applier : target[a] = 0 /\ nonce[a] = 0
  BY DEF Init, Ids
<1>5. /\ entry \in [Applier -> Entry \cup {NoEntry}]
      /\ mode \in [Applier -> {"none", "apply", "prune", "delete"}]
      /\ purpose \in [Applier -> {"none", "update", "destroy"}]
      /\ again \in [Applier -> BOOLEAN] /\ alone \in [Applier -> BOOLEAN]
      /\ verdict \in [Applier -> {"none", "ok", "failed"}]
      /\ outcome \in [Applier -> {"none", "ok", "failed", "killed"}]
  BY DEF Init
<1> QED
  BY <1>1, <1>3, <1>4, <1>5 DEF TypeOK

\* A run that ends leaves nothing of itself behind.
LEMMA EndTypes ==
  ASSUME TypeOK, ServerTypes', NEW a \in Applier, NEW r \in {"ok", "failed", "killed"}, End(a, r)
  PROVE  TypeOK'
<1>1. 0 \in 0..Cardinality(Kind)
  BY FiveKinds
<1> QED
  BY <1>1 DEF TypeOK, ServerTypes, End, Ids

LEMMA GiveUpTypes ==
  ASSUME TypeOK, ServerTypes', NEW a \in Applier, GiveUp(a)
  PROVE  TypeOK'
<1>1. CASE nonce[a] = 0
  BY <1>1, EndTypes DEF GiveUp
<1>2. CASE nonce[a] # 0
  <2>1. pc[a] \in {"acquire", "mutate", "release"} /\ target[a] # 0
    BY <1>2 DEF TypeOK
  <2>2. /\ pc' = [pc EXCEPT ![a] = "release"]
        /\ verdict' = [verdict EXCEPT ![a] = "failed"]
        /\ UNCHANGED <<runs, mode, plan, job, nonce, tries, again, outcome, alone>>
    BY <1>2 DEF GiveUp
  <2> QED
    BY <2>1, <2>2 DEF TypeOK, ServerTypes, plan, job
<1> QED
  BY <1>1, <1>2

\* Where the runs are: a run has a machine exactly where it deals with one, and a
\* nonce only under a lease.
Placed ==
  /\ pc \in [Applier -> {"idle", "app", "appCreate", "next", "create", "acquire", "mutate",
                         "release", "wait", "list", "prune"}]
  /\ target \in [Applier -> Ids]
  /\ \A a \in Applier : target[a] # 0 <=> pc[a] \in AtMachine
  /\ nonce \in [Applier -> 0..2]
  /\ \A a \in Applier : nonce[a] # 0 => pc[a] \in {"acquire", "mutate", "release"}

LEMMA TypePlaced == ASSUME TypeOK PROVE Placed
BY DEF TypeOK, Placed, AtMachine

\* A step from one place without a machine to another.
LEMMA AwayPlaced ==
  ASSUME TypeOK, NEW a \in Applier, pc[a] \notin AtMachine,
         NEW to \in {"idle", "app", "appCreate", "next", "create", "list", "prune"},
         pc' = [pc EXCEPT ![a] = to], target' = target, nonce' = nonce
  PROVE  Placed'
<1>1. Placed
  BY TypePlaced
<1> QED
  BY <1>1 DEF Placed, AtMachine

\* A step that takes up a machine.
LEMMA ComesPlaced ==
  ASSUME TypeOK, NEW a \in Applier, NEW i \in Id,
         pc' = [pc EXCEPT ![a] = "acquire"], target' = [target EXCEPT ![a] = i], nonce' = nonce
  PROVE  Placed'
<1>1. Placed
  BY TypePlaced
<1>2. i # 0 /\ i \in Ids
  BY IdType DEF Ids
<1> QED
  BY <1>1, <1>2 DEF Placed, AtMachine

LEMMA UnusedIds == Unused \subseteq Id
BY DEF Unused

\* What a run does without the server.
LEMMA PlanTypes ==
  ASSUME TypeOK, NEW a \in Applier,
         Begin(a) \/ GetApp(a) \/ CreateApp(a) \/ Inspect(a) \/ FindDoomed(a)
  PROVE  TypeOK'
<1>1. ServerTypes'
  BY DEF TypeOK, ServerTypes, Begin, GetApp, CreateApp, Inspect, FindDoomed, server
<1>2. CASE Begin(a)
  <2>1. PICK m \in Modes[a] :
          /\ runs < MaxRuns
          /\ Goto(a, "idle", IF m = "delete" THEN "next" ELSE "app")
          /\ runs' = runs + 1
          /\ mode' = [mode EXCEPT ![a] = m]
          /\ outcome' = [outcome EXCEPT ![a] = "none"]
          /\ pending' = [pending EXCEPT
                ![a] = {e \in Plan[a] : m = "delete" => e.kind = "machine"}]
          /\ alone' = [b \in Applier |-> b = a /\ \A c \in Applier \ {a} : pc[c] = "idle"]
          /\ UNCHANGED <<server, entry, kinds, seen, job, lock>>
    BY <1>2 DEF Begin
  <2>2. m \in {"apply", "prune", "delete"}
    BY <2>1, ModesType
  <2>3. alone' \in [Applier -> BOOLEAN]
    <3> DEFINE others == \A c \in Applier \ {a} : pc[c] = "idle"
    <3> HIDE DEF others
    <3>1. alone' = [b \in Applier |-> b = a /\ others]
      BY <2>1 DEF others
    <3> QED
      BY <3>1
  <2>4. /\ pending' \in [Applier -> SUBSET Entry]
        /\ \A b \in Applier : pending'[b] \subseteq Plan[b]
    BY <2>1, PlanType DEF TypeOK
  <2>5. runs' \in 0..MaxRuns
    BY <2>1, BoundType DEF TypeOK
  <2>6. Placed'
    BY <2>1, AwayPlaced DEF Goto, job, lock, AtMachine
  <2>7. /\ mode' \in [Applier -> {"none", "apply", "prune", "delete"}]
        /\ outcome' \in [Applier -> {"none", "ok", "failed", "killed"}]
    BY <2>1, <2>2 DEF TypeOK
  <2>8. UNCHANGED <<entry, kinds, seen, purpose, version, tries, again, verdict>>
    BY <2>1 DEF job, lock
  <2> QED
    BY <1>1, <2>3, <2>4, <2>5, <2>6, <2>7, <2>8 DEF TypeOK, ServerTypes, Placed, AtMachine
<1>3. CASE GetApp(a) \/ CreateApp(a)
  <2>1. /\ pc[a] \in {"app", "appCreate"}
        /\ \E to \in {"next", "appCreate"} : pc' = [pc EXCEPT ![a] = to]
        /\ UNCHANGED <<runs, mode, pending, entry, kinds, seen, target, purpose, version, nonce,
                       tries, again, verdict, outcome, alone>>
    BY <1>3 DEF GetApp, CreateApp, Goto, plan, job, lock
  <2>2. Placed'
    BY <2>1, AwayPlaced DEF AtMachine
  <2> QED
    BY <1>1, <2>1, <2>2 DEF TypeOK, ServerTypes, Placed, AtMachine
<1>4. CASE Inspect(a)
  <2>1. PICK e \in Turn(a) :
          /\ pending' = [pending EXCEPT ![a] = @ \ {e}]
          /\ \/ /\ Goto(a, "next", "create") \/ Goto(a, "next", "next")
                /\ entry' = [entry EXCEPT ![a] = e] \/ UNCHANGED entry
                /\ UNCHANGED <<target, purpose>>
             \/ /\ Goto(a, "next", "acquire")
                /\ entry' = [entry EXCEPT ![a] = e]
                /\ \E i \in Id : target' = [target EXCEPT ![a] = i]
                /\ purpose' = [purpose EXCEPT ![a] = "update"]
          /\ UNCHANGED <<server, runs, mode, kinds, seen, version, lock, outcome, alone>>
    BY <1>4 DEF Inspect, Found
  <2>2. e \in Entry
    BY <2>1 DEF Turn, TypeOK
  <2>3. /\ pending' \in [Applier -> SUBSET Entry]
        /\ \A b \in Applier : pending'[b] \subseteq Plan[b]
        /\ entry' \in [Applier -> Entry \cup {NoEntry}]
    BY <2>1, <2>2 DEF TypeOK
  <2>4. ASSUME Goto(a, "next", "create") \/ Goto(a, "next", "next"), UNCHANGED <<target, purpose>>
        PROVE  TypeOK'
    <3>1. Placed'
      BY <2>1, <2>4, AwayPlaced DEF Goto, lock, AtMachine
    <3> QED
      BY <1>1, <2>1, <2>3, <2>4, <3>1 DEF TypeOK, ServerTypes, Placed, AtMachine, lock
  <2>5. ASSUME Goto(a, "next", "acquire"), purpose' = [purpose EXCEPT ![a] = "update"],
               NEW i \in Id, target' = [target EXCEPT ![a] = i]
        PROVE  TypeOK'
    <3>1. Placed'
      BY <2>1, <2>5, ComesPlaced DEF Goto, lock
    <3>2. purpose' \in [Applier -> {"none", "update", "destroy"}]
      BY <2>5 DEF TypeOK
    <3> QED
      BY <1>1, <2>1, <2>3, <3>1, <3>2 DEF TypeOK, ServerTypes, Placed, AtMachine, lock
  <2> QED
    BY <2>1, <2>4, <2>5
<1>5. CASE FindDoomed(a)
  <2>1. PICK e \in pending[a] :
          /\ pending' = [pending EXCEPT ![a] = @ \ {e}]
          /\ \/ /\ Goto(a, "next", "next")
                /\ UNCHANGED <<target, purpose>>
             \/ /\ Goto(a, "next", "acquire")
                /\ \E i \in Id : target' = [target EXCEPT ![a] = i]
                /\ purpose' = [purpose EXCEPT ![a] = "destroy"]
          /\ UNCHANGED <<server, runs, mode, entry, kinds, seen, version, lock, outcome, alone>>
    BY <1>5 DEF FindDoomed, Found
  <2>2. /\ pending' \in [Applier -> SUBSET Entry]
        /\ \A b \in Applier : pending'[b] \subseteq Plan[b]
    BY <2>1 DEF TypeOK
  <2>3. ASSUME Goto(a, "next", "next"), UNCHANGED <<target, purpose>>
        PROVE  TypeOK'
    <3>1. Placed'
      BY <2>1, <2>3, AwayPlaced DEF Goto, lock, AtMachine
    <3> QED
      BY <1>1, <2>1, <2>2, <2>3, <3>1 DEF TypeOK, ServerTypes, Placed, AtMachine, lock
  <2>4. ASSUME Goto(a, "next", "acquire"), purpose' = [purpose EXCEPT ![a] = "destroy"],
               NEW i \in Id, target' = [target EXCEPT ![a] = i]
        PROVE  TypeOK'
    <3>1. Placed'
      BY <2>1, <2>4, ComesPlaced DEF Goto, lock
    <3>2. purpose' \in [Applier -> {"none", "update", "destroy"}]
      BY <2>4 DEF TypeOK
    <3> QED
      BY <1>1, <2>1, <2>2, <3>1, <3>2 DEF TypeOK, ServerTypes, Placed, AtMachine, lock
  <2> QED
    BY <2>1, <2>3, <2>4
<1> QED
  BY <1>2, <1>3, <1>4, <1>5

\* What it asks the server to make or to delete.
LEMMA ServerStepTypes ==
  ASSUME TypeOK, NEW a \in Applier,
         \/ SetSecret(a) \/ Create(a) \/ CreateRefused(a) \/ Applied(a) \/ DeleteApp(a)
         \/ ListToPrune(a) \/ Prune(a)
  PROVE  TypeOK'
<1>1. CASE SetSecret(a)
  <2>1. PICK e \in Turn(a) :
          /\ Goto(a, "next", "next")
          /\ pending' = [pending EXCEPT ![a] = @ \ {e}]
          /\ \/ \E i \in Unused : live' = [live EXCEPT ![i] = Created(e, FALSE)]
             \/ live' = [i \in Id |-> IF i \in Found("secret", e.name)
                                       THEN Created(e, FALSE) ELSE live[i]]
          /\ UNCHANGED <<app, lease, runs, mode, entry, kinds, seen, job, lock, outcome, alone>>
    BY <1>1 DEF SetSecret
  <2>2. Created(e, FALSE) \in Resource
    BY <2>1, CreatedType DEF Turn, TypeOK
  <2>3. live' \in [Id -> Resource]
    <3>1. PICK r \in Resource :
            \/ \E i \in Unused : live' = [live EXCEPT ![i] = r]
            \/ live' = [i \in Id |-> IF i \in Found("secret", e.name) THEN r ELSE live[i]]
      BY <2>1, <2>2
    <3> QED
      BY <3>1 DEF TypeOK
  <2>4. /\ pending' \in [Applier -> SUBSET Entry]
        /\ \A b \in Applier : pending'[b] \subseteq Plan[b]
    BY <2>1 DEF TypeOK
  <2> QED
    BY <2>1, <2>3, <2>4 DEF TypeOK, Goto, job, lock
<1>2. CASE Create(a)
  <2>1. PICK i \in Unused :
          /\ live' = [live EXCEPT ![i] = Created(entry[a], TRUE)]
          /\ target' = [target EXCEPT ![a] = IF entry[a].kind = "machine" THEN i ELSE 0]
    BY <1>2 DEF Create
  <2>2. i \in Id /\ i \in Ids /\ 0 \in Ids /\ i # 0
    BY <2>1, UnusedIds, IdType DEF Ids
  <2>3. live' \in [Id -> Resource]
    <3>1. Created(entry[a], TRUE) \in Resource
      BY CreatedType DEF TypeOK
    <3> QED
      BY <2>1, <3>1 DEF TypeOK
  <2>4. /\ version' \in [Applier -> Nat]
        /\ entry' \in [Applier -> Entry \cup {NoEntry}]
        /\ purpose' \in [Applier -> {"none", "update", "destroy"}]
        /\ pc[a] = "create"
        /\ UNCHANGED <<app, lease, runs, mode, pending, kinds, seen, lock, outcome, alone>>
        /\ pc' = [pc EXCEPT ![a] = IF entry[a].kind = "machine" THEN "wait" ELSE "next"]
    BY <1>2 DEF Create, Goto, TypeOK
  <2>5. /\ target' \in [Applier -> Ids]
        /\ pc' \in [Applier -> {"idle", "app", "appCreate", "next", "create", "acquire", "mutate",
                                 "release", "wait", "list", "prune"}]
    BY <2>1, <2>2, <2>4 DEF TypeOK
  <2>6. ASSUME NEW b \in Applier
        PROVE  /\ target'[b] # 0 <=> pc'[b] \in AtMachine
               /\ nonce'[b] # 0 => pc'[b] \in {"acquire", "mutate", "release"}
    BY <2>1, <2>2, <2>4 DEF TypeOK, AtMachine, lock
  <2> QED
    BY <2>3, <2>4, <2>5, <2>6 DEF TypeOK, AtMachine, lock
<1>3. CASE CreateRefused(a)
  BY <1>3, EndTypes DEF CreateRefused, TypeOK, ServerTypes, server
<1>4. CASE Applied(a)
  <2>1. CASE End(a, "ok")
    BY <1>4, <2>1, EndTypes DEF Applied, TypeOK, ServerTypes, server
  <2>2. CASE ~End(a, "ok")
    <3>1. kinds' \in [Applier -> 0..Cardinality(Kind)]
      BY <1>4, <2>2, FiveKinds DEF Applied, TypeOK
    <3>2. /\ pc[a] = "next" /\ pc' = [pc EXCEPT ![a] = "list"]
          /\ UNCHANGED <<app, live, lease, runs, mode, pending, entry, seen, target, purpose,
                         version, nonce, tries, again, verdict, outcome, alone>>
      BY <1>4, <2>2 DEF Applied, Goto, server, job, lock
    <3>3. Placed'
      BY <3>2, AwayPlaced DEF AtMachine
    <3> QED
      BY <3>1, <3>2, <3>3 DEF TypeOK, Placed, AtMachine
  <2> QED
    BY <2>1, <2>2
<1>5. CASE DeleteApp(a)
  BY <1>5, EndTypes, AbsentType DEF DeleteApp, ServerTypes
<1>6. CASE ListToPrune(a)
  <2>1. CASE kinds[a] = 0
    BY <1>6, <2>1, EndTypes DEF ListToPrune, TypeOK, ServerTypes, server
  <2>2. CASE kinds[a] # 0
    <3>1. kinds' \in [Applier -> 0..Cardinality(Kind)]
      BY <1>6, <2>2, FiveKinds DEF ListToPrune, TypeOK
    <3>2. seen' \in [Applier -> SUBSET Id]
      BY <1>6, <2>2 DEF ListToPrune, Prunable, TypeOK
    <3>3. /\ pc[a] = "list" /\ pc' = [pc EXCEPT ![a] = "prune"]
          /\ UNCHANGED <<app, live, lease, runs, mode, pending, entry, target, purpose,
                         version, nonce, tries, again, verdict, outcome, alone>>
      BY <1>6, <2>2 DEF ListToPrune, Goto, server, job, lock
    <3>4. Placed'
      BY <3>3, AwayPlaced DEF AtMachine
    <3> QED
      BY <3>1, <3>2, <3>3, <3>4 DEF TypeOK, Placed, AtMachine
  <2> QED
    BY <2>1, <2>2
<1>7. CASE Prune(a)
  <2>1. CASE seen[a] = {}
    <3>1. /\ pc[a] = "prune" /\ pc' = [pc EXCEPT ![a] = "list"]
          /\ UNCHANGED <<app, live, lease, runs, mode, pending, entry, kinds, seen, target, purpose,
                         version, nonce, tries, again, verdict, outcome, alone>>
      BY <1>7, <2>1 DEF Prune, Goto, server, plan, job, lock
    <3>2. Placed'
      BY <3>1, AwayPlaced DEF AtMachine
    <3> QED
      BY <3>1, <3>2 DEF TypeOK, Placed, AtMachine
  <2>2. ASSUME NEW i \in seen[a],
               seen' = [seen EXCEPT ![a] = @ \ {i}],
               Goto(a, "prune", "acquire"),
               target' = [target EXCEPT ![a] = i],
               purpose' = [purpose EXCEPT ![a] = "destroy"],
               UNCHANGED <<live, app, lease, runs, mode, pending, entry, kinds, version, lock,
                           outcome, alone>>
        PROVE  TypeOK'
    <3>1. i \in Ids /\ i # 0
      BY IdType DEF TypeOK, Ids
    <3> QED
      BY <2>2, <3>1 DEF TypeOK, Goto, lock
  <2>3. ASSUME NEW i \in seen[a],
               seen' = [seen EXCEPT ![a] = @ \ {i}],
               Goto(a, "prune", "prune"),
               live' = [live EXCEPT ![i] = Absent],
               UNCHANGED <<target, purpose, app, lease, runs, mode, pending, entry, kinds, version,
                           lock, outcome, alone>>
        PROVE  TypeOK'
    <3>1. live' \in [Id -> Resource]
      BY <2>3, AbsentType DEF TypeOK
    <3> QED
      BY <2>3, <3>1 DEF TypeOK, Goto, lock
  <2> QED
    BY <1>7, <2>1, <2>2, <2>3 DEF Prune
<1> QED
  BY <1>1, <1>2, <1>3, <1>4, <1>5, <1>6, <1>7

\* A mutation under a lease.
LEMMA LeaseStepTypes ==
  ASSUME TypeOK, NEW a \in Applier,
         \/ Acquire(a) \/ AcquireRefused(a) \/ Mutate(a) \/ LeaseLost(a)
         \/ Release(a) \/ ReleaseLost(a) \/ Waited(a) \/ WaitFails(a)
  PROVE  TypeOK'
<1>1. CASE Acquire(a)
  <2>1. FreshNonce(a) \in 0..2 /\ (IF again[a] THEN 2 ELSE 1) \in {1, 2}
    BY DEF FreshNonce
  <2>2. lease' \in [Id -> {NoLease} \cup (Applier \X {1, 2})]
    <3>1. PICK l \in Applier \X {1, 2} : lease' = [lease EXCEPT ![target[a]] = l]
      BY <1>1, <2>1 DEF Acquire
    <3> QED
      BY <3>1 DEF TypeOK
  <2>3. /\ nonce' = [nonce EXCEPT ![a] = FreshNonce(a)] /\ tries' = [tries EXCEPT ![a] = 0]
        /\ pc[a] = "acquire" /\ pc' = [pc EXCEPT ![a] = "mutate"]
        /\ UNCHANGED <<app, live, runs, mode, plan, job, again, verdict, outcome, alone>>
    BY <1>1 DEF Acquire, Goto
  <2> HIDE DEF FreshNonce
  <2> QED
    BY <2>1, <2>2, <2>3 DEF TypeOK, plan, job
<1>2. CASE AcquireRefused(a)
  <2>1. ServerTypes'
    BY <1>2 DEF AcquireRefused, TypeOK, ServerTypes, server
  <2>2. CASE GiveUp(a)
    BY <2>1, <2>2, GiveUpTypes
  <2>3. CASE ~GiveUp(a)
    BY <1>2, <2>1, <2>3 DEF AcquireRefused, MayRetry, TypeOK, ServerTypes, plan, job
  <2> QED
    BY <2>2, <2>3
<1>3. CASE Mutate(a)
  <2>1. /\ pc[a] = "mutate" /\ pc' = [pc EXCEPT ![a] = "release"]
        /\ \E v \in {"ok", "failed"} : verdict' = [verdict EXCEPT ![a] = v]
        /\ version' = [version EXCEPT ![a] = IF purpose[a] = "update" THEN live'[target[a]].version ELSE 0]
        /\ \/ live' = live
           \/ live' = [live EXCEPT ![target[a]].state = "destroying"]
           \/ live' = [live EXCEPT ![target[a]] =
                          [Created(entry[a], TRUE) EXCEPT !.version = live[target[a]].version + 1]]
        /\ UNCHANGED <<app, lease, runs, mode, plan, target, purpose, nonce, tries, again,
                       outcome, alone>>
    BY <1>3 DEF Mutate, Goto
  <2>2. target[a] \in Id
    BY <2>1 DEF TypeOK, Ids
  <2>3. live' \in [Id -> Resource]
    <3>1. Created(entry[a], TRUE) \in Resource
      BY CreatedType DEF TypeOK
    <3>2. live[target[a]] \in Resource
      BY <2>2 DEF TypeOK
    <3>3. [Created(entry[a], TRUE) EXCEPT !.version = live[target[a]].version + 1] \in Resource
      <4>1. live[target[a]].version + 1 \in Nat
        BY <3>2 DEF Resource
      <4> DEFINE c == Created(entry[a], TRUE)
      <4>2. c \in Resource
        BY <3>1
      <4> HIDE DEF c
      <4>3. [c EXCEPT !.version = live[target[a]].version + 1] \in Resource
        BY <4>1, <4>2 DEF Resource
      <4> QED
        BY <4>3 DEF c
    <3>4. [live[target[a]] EXCEPT !.state = "destroying"] \in Resource
      BY <3>2 DEF Resource
    <3>5. live \in [Id -> Resource]
      BY DEF TypeOK
    <3>6. ASSUME NEW r \in Resource, live' = [live EXCEPT ![target[a]] = r]
          PROVE  live' \in [Id -> Resource]
      BY <3>5, <3>6
    <3> QED
      BY <2>1, <3>3, <3>4, <3>5, <3>6
  <2>4. version' \in [Applier -> Nat]
    <3>1. live'[target[a]].version \in Nat
      BY <2>2, <2>3 DEF Resource
    <3> QED
      BY <2>1, <3>1 DEF TypeOK
  <2> QED
    BY <2>1, <2>3, <2>4 DEF TypeOK, plan
<1>4. CASE LeaseLost(a)
  <2>1. ServerTypes'
    BY <1>4 DEF LeaseLost, TypeOK, ServerTypes, server
  <2>2. CASE GiveUp(a)
    BY <2>1, <2>2, GiveUpTypes
  <2>3. CASE ~GiveUp(a)
    <3>1. /\ Goto(a, "mutate", "acquire")
          /\ again' = [again EXCEPT ![a] = TRUE]
          /\ UNCHANGED <<runs, mode, plan, job, nonce, tries, verdict, outcome, alone>>
      BY <1>4, <2>3 DEF LeaseLost
    <3>2. again' \in [Applier -> BOOLEAN]
      BY <3>1 DEF TypeOK
    <3> QED
      BY <2>1, <3>1, <3>2 DEF Goto, TypeOK, ServerTypes, plan, job
  <2> QED
    BY <2>2, <2>3
<1>5. CASE Release(a) \/ ReleaseLost(a)
  <2>1. ServerTypes'
    BY <1>5 DEF Release, ReleaseLost, AfterRelease, TypeOK, ServerTypes
  <2>2. CASE End(a, "failed")
    BY <2>1, <2>2, EndTypes
  <2>3. CASE ~End(a, "failed")
    <3>1. /\ pc[a] = "release"
          /\ pc' = [pc EXCEPT ![a] = "wait"]
          /\ nonce' = [nonce EXCEPT ![a] = 0]
          /\ again' = [again EXCEPT ![a] = FALSE]
          /\ verdict' = [verdict EXCEPT ![a] = "none"]
          /\ UNCHANGED <<runs, mode, plan, job, tries, outcome, alone>>
      BY <1>5, <2>3 DEF Release, ReleaseLost, AfterRelease
    <3>2. again' \in [Applier -> BOOLEAN]
      BY <3>1 DEF TypeOK
    <3> QED
      BY <2>1, <3>1, <3>2 DEF TypeOK, ServerTypes, plan, job
  <2> QED
    BY <2>2, <2>3
<1>6. CASE Waited(a)
  BY <1>6 DEF Waited, Goto, TypeOK, Ids, server, lock
<1>7. CASE WaitFails(a)
  BY <1>7, EndTypes DEF WaitFails, TypeOK, ServerTypes, server
<1> QED
  BY <1>1, <1>2, <1>3, <1>4, <1>5, <1>6, <1>7

\* What happens to a run, and what others do.
LEMMA OutsideTypes ==
  ASSUME TypeOK,
         \/ \E a \in Applier : Throws(a) \/ Killed(a)
         \/ \E i \in Id : MachineStarts(i) \/ MachineReaped(i) \/ LeaseExpires(i)
         \/ CreatedOutside
  PROVE  TypeOK'
<1>1. ASSUME NEW a \in Applier, Throws(a) \/ Killed(a) PROVE TypeOK'
  <2>1. ServerTypes'
    BY <1>1 DEF Throws, Killed, TypeOK, ServerTypes, server
  <2> QED
    BY <1>1, <2>1, EndTypes, GiveUpTypes DEF Throws, Killed
<1>2. ASSUME NEW i \in Id, MachineStarts(i) PROVE TypeOK'
  <2>1. [live[i] EXCEPT !.state = "started"] \in Resource
    <3>1. live[i] \in Resource
      BY DEF TypeOK
    <3> QED
      BY <3>1 DEF Resource
  <2>2. live' \in [Id -> Resource]
    BY <1>2, <2>1 DEF MachineStarts, TypeOK
  <2> QED
    BY <1>2, <2>2 DEF MachineStarts, TypeOK, plan, job, lock
<1>3. ASSUME NEW i \in Id, MachineReaped(i) PROVE TypeOK'
  BY <1>3, AbsentType DEF MachineReaped, TypeOK, plan, job, lock
<1>4. ASSUME NEW i \in Id, LeaseExpires(i) PROVE TypeOK'
  BY <1>4 DEF LeaseExpires, TypeOK, plan, job, lock
<1>5. CASE CreatedOutside
  <2>1. PICK e \in Outside, i \in Unused : live' = [live EXCEPT ![i] = Created(e, FALSE)]
    BY <1>5 DEF CreatedOutside
  <2>2. Created(e, FALSE) \in Resource
    BY CreatedType, PlanType
  <2>3. live' \in [Id -> Resource]
    BY <2>1, <2>2 DEF TypeOK
  <2>4. alone' \in [Applier -> BOOLEAN]
    BY <1>5 DEF CreatedOutside
  <2>5. UNCHANGED <<app, lease, runs, pc, mode, plan, job, lock, outcome>>
    BY <1>5 DEF CreatedOutside
  <2> QED
    BY <2>3, <2>4, <2>5 DEF TypeOK, plan, job, lock
<1> QED
  BY <1>1, <1>2, <1>3, <1>4, <1>5

LEMMA TypeNext == TypeOK /\ [Next]_vars => TypeOK'
<1> SUFFICES ASSUME TypeOK, [Next]_vars PROVE TypeOK'
  OBVIOUS
<1>1. CASE UNCHANGED vars
  BY <1>1 DEF TypeOK, vars, server, plan, job, lock
<1> QED
  BY <1>1, PlanTypes, ServerStepTypes, LeaseStepTypes, OutsideTypes DEF Next, Step

\* Every variable keeps its type; an applier is at a machine exactly while it changes,
\* destroys or waits for one, and keeps a nonce no longer.
THEOREM TypeCorrect == Spec => []TypeOK
BY TypeInit, TypeNext, PTL DEF Spec

-----------------------------------------------------------------------------
(* Who changes what. *)

Acts(a) == Begin(a) \/ Step(a) \/ Throws(a) \/ Killed(a)
Environment == \/ \E i \in Id : MachineStarts(i) \/ MachineReaped(i) \/ LeaseExpires(i)
               \/ CreatedOutside

\* What an applier knows stays.
Same(a) ==
  /\ pc'[a] = pc[a] /\ mode'[a] = mode[a] /\ entry'[a] = entry[a]
  /\ kinds'[a] = kinds[a] /\ seen'[a] = seen[a]
  /\ target'[a] = target[a] /\ purpose'[a] = purpose[a] /\ version'[a] = version[a]
  /\ nonce'[a] = nonce[a] /\ verdict'[a] = verdict[a]

LEMMA EndFrame ==
  ASSUME TypeOK, NEW b \in Applier, NEW r, End(b, r), NEW a \in Applier \ {b}
  PROVE  Same(a)
BY DEF TypeOK, End, Same

LEMMA GiveUpFrame ==
  ASSUME TypeOK, NEW b \in Applier, GiveUp(b), NEW a \in Applier \ {b}
  PROVE  Same(a)
<1>1. CASE nonce[b] = 0
  BY <1>1, EndFrame DEF GiveUp
<1>2. CASE nonce[b] # 0
  BY <1>2 DEF GiveUp, TypeOK, Same, plan, job
<1> QED
  BY <1>1, <1>2

\* No applier touches what another one knows.
LEMMA Frame ==
  ASSUME TypeOK, NEW b \in Applier, Acts(b), NEW a \in Applier \ {b}
  PROVE  Same(a)
<1>1. CASE Begin(b) \/ GetApp(b) \/ CreateApp(b) \/ Inspect(b) \/ SetSecret(b) \/ FindDoomed(b)
  <2>1. CASE Begin(b)
    BY <2>1 DEF Begin, Goto, TypeOK, Same, job, lock
  <2>2. CASE GetApp(b) \/ CreateApp(b)
    BY <2>2 DEF GetApp, CreateApp, Goto, TypeOK, Same, plan, job, lock
  <2>3. CASE Inspect(b)
    BY <2>3 DEF Inspect, Goto, TypeOK, Same, lock
  <2>4. CASE SetSecret(b)
    BY <2>4 DEF SetSecret, Goto, TypeOK, Same, job, lock
  <2>5. CASE FindDoomed(b)
    BY <2>5 DEF FindDoomed, Goto, TypeOK, Same, lock
  <2> QED
    BY <1>1, <2>1, <2>2, <2>3, <2>4, <2>5
<1>2. CASE Create(b)
  BY <1>2 DEF Create, Goto, TypeOK, Same, lock
<1>3. CASE CreateRefused(b) \/ DeleteApp(b) \/ WaitFails(b) \/ Killed(b)
  BY <1>3, EndFrame DEF CreateRefused, DeleteApp, WaitFails, Killed
<1>4. CASE Applied(b) \/ ListToPrune(b)
  <2>1. CASE End(b, "ok")
    BY <2>1, EndFrame
  <2>2. CASE ~End(b, "ok")
    BY <1>4, <2>2 DEF Applied, ListToPrune, Goto, TypeOK, Same, job, lock
  <2> QED
    BY <2>1, <2>2
<1>5. CASE Prune(b)
  <2>1. CASE seen[b] = {} /\ Goto(b, "prune", "list") /\ UNCHANGED <<mode, plan, job, lock>>
    BY <2>1 DEF Goto, TypeOK, Same, plan, job, lock
  <2>2. ASSUME NEW i \in seen[b], NEW to, Goto(b, "prune", to),
               seen' = [seen EXCEPT ![b] = @ \ {i}],
               \/ /\ target' = [target EXCEPT ![b] = i]
                  /\ purpose' = [purpose EXCEPT ![b] = "destroy"]
               \/ UNCHANGED <<target, purpose>>,
               UNCHANGED <<mode, entry, kinds, version, lock>>
        PROVE  Same(a)
    BY <2>2 DEF Goto, TypeOK, Same, lock
  <2> QED
    BY <1>5, <2>1, <2>2 DEF Prune
<1>6. CASE Acquire(b)
  BY <1>6 DEF Acquire, Goto, TypeOK, Same, plan, job
<1>7. CASE AcquireRefused(b) \/ LeaseLost(b) \/ Throws(b)
  <2>1. CASE GiveUp(b)
    BY <2>1, GiveUpFrame
  <2>2. CASE ~GiveUp(b)
    BY <1>7, <2>2 DEF AcquireRefused, LeaseLost, Throws, Goto, TypeOK, Same, plan, job
  <2> QED
    BY <2>1, <2>2
<1>8. CASE Mutate(b)
  BY <1>8 DEF Mutate, Goto, TypeOK, Same, plan
<1>9. CASE Release(b) \/ ReleaseLost(b)
  <2>1. CASE End(b, "failed")
    BY <2>1, EndFrame
  <2>2. CASE ~End(b, "failed")
    BY <1>9, <2>2 DEF Release, ReleaseLost, AfterRelease, TypeOK, Same, plan, job
  <2> QED
    BY <2>1, <2>2
<1>10. CASE Waited(b)
  BY <1>10 DEF Waited, Goto, TypeOK, Same, lock
<1> QED
  BY <1>1, <1>2, <1>3, <1>4, <1>5, <1>6, <1>7, <1>8, <1>9, <1>10 DEF Acts, Step

LEMMA EnvironmentFrame ==
  ASSUME TypeOK, Environment, NEW a \in Applier
  PROVE  Same(a)
BY DEF Environment, MachineStarts, MachineReaped, LeaseExpires, CreatedOutside, Same, plan, job, lock

-----------------------------------------------------------------------------
(* Leases. *)

\* The lease an applier has on the machine it is at is the one whose nonce it knows.
KnowsItsNonce(a) ==
  /\ nonce[a] # 0 => \A n \in {1, 2} : lease[target[a]] = <<a, n>> => n = nonce[a]
  /\ pc[a] \in {"mutate", "release"} => nonce[a] # 0

LeaseInv == TypeOK /\ \A a \in Applier : KnowsItsNonce(a)

\* Leases come by being acquired only.
LEMMA LeasesCome ==
  ASSUME TypeOK, Next, NEW i \in Id
  PROVE  \/ lease'[i] \in {lease[i], NoLease}
         \/ \E b \in Applier : Acquire(b) /\ target[b] = i /\ lease'[i] \in {<<b, 1>>, <<b, 2>>}
<1>1. ASSUME NEW b \in Applier, Acquire(b)
      PROVE  lease'[i] = lease[i] \/ (target[b] = i /\ lease'[i] \in {<<b, 1>>, <<b, 2>>})
  <2>1. PICK l \in {<<b, 1>>, <<b, 2>>} : lease' = [lease EXCEPT ![target[b]] = l]
    BY <1>1 DEF Acquire
  <2> QED
    BY <2>1 DEF TypeOK
<1>2. ASSUME NEW b \in Applier, Acts(b), ~Acquire(b)
      PROVE  lease'[i] \in {lease[i], NoLease}
  <2>1. CASE Begin(b) \/ GetApp(b) \/ CreateApp(b) \/ Inspect(b) \/ SetSecret(b) \/ Create(b)
    BY <2>1 DEF Begin, GetApp, CreateApp, Inspect, SetSecret, Create, server
  <2>2. CASE CreateRefused(b) \/ Applied(b) \/ FindDoomed(b) \/ ListToPrune(b) \/ Prune(b)
    BY <2>2 DEF CreateRefused, Applied, FindDoomed, ListToPrune, Prune, server
  <2>3. CASE DeleteApp(b)
    BY <2>3 DEF DeleteApp
  <2>4. CASE Release(b)
    BY <2>4 DEF Release, TypeOK
  <2>5. CASE \/ AcquireRefused(b) \/ Mutate(b) \/ LeaseLost(b) \/ ReleaseLost(b)
             \/ Waited(b) \/ WaitFails(b) \/ Throws(b) \/ Killed(b)
    BY <2>5 DEF AcquireRefused, Mutate, LeaseLost, ReleaseLost, Waited, WaitFails, Throws, Killed,
                server
  <2> QED
    BY <1>2, <2>1, <2>2, <2>3, <2>4, <2>5 DEF Acts, Step
<1>3. CASE Environment
  BY <1>3 DEF Environment, MachineStarts, MachineReaped, LeaseExpires, CreatedOutside, TypeOK
<1> QED
  BY <1>1, <1>2, <1>3 DEF Next, Acts, Environment, Step

\* A step of an applier keeps what it knows of its own lease.
LEMMA OwnNonce ==
  ASSUME LeaseInv, NEW a \in Applier, Acts(a), TypeOK'
  PROVE  KnowsItsNonce(a)'
<1>1. CASE End(a, "ok") \/ End(a, "failed") \/ End(a, "killed")
  <2>1. nonce'[a] = 0 /\ pc'[a] = "idle"
    BY <1>1 DEF End, LeaseInv, TypeOK
  <2> QED
    BY <2>1 DEF KnowsItsNonce
<1>2. CASE nonce'[a] = 0 /\ pc'[a] \notin {"mutate", "release"}
  BY <1>2 DEF KnowsItsNonce
<1>3. CASE Acquire(a)
  <2>1. /\ lease' = [lease EXCEPT ![target[a]] = <<a, IF again[a] THEN 2 ELSE 1>>]
        /\ nonce'[a] = FreshNonce(a)
        /\ target' = target /\ target[a] \in Id
    BY <1>3 DEF Acquire, Goto, job, LeaseInv, TypeOK, Ids
  <2>2. lease'[target'[a]] = <<a, nonce'[a]>> /\ nonce'[a] \in {1, 2}
    BY <2>1 DEF FreshNonce, LeaseInv, TypeOK
  <2> QED
    BY <2>2 DEF KnowsItsNonce
<1>4. ASSUME lease' = lease, target'[a] = target[a], nonce'[a] = nonce[a],
             pc'[a] \in {"mutate", "release"} => nonce[a] # 0
      PROVE  KnowsItsNonce(a)'
  BY <1>4 DEF LeaseInv, KnowsItsNonce
<1>5. CASE \/ Begin(a) \/ GetApp(a) \/ CreateApp(a) \/ Inspect(a) \/ SetSecret(a) \/ Create(a)
           \/ FindDoomed(a) \/ Prune(a)
  <2>1. nonce' = nonce /\ nonce[a] = 0
    BY <1>5 DEF Begin, GetApp, CreateApp, Inspect, SetSecret, Create, FindDoomed, Prune, Goto, lock,
                LeaseInv, TypeOK
  <2>2. pc'[a] \notin {"mutate", "release"}
    <3>1. \E to \in {"app", "next", "appCreate", "create", "acquire", "wait", "list", "prune"} :
            pc' = [pc EXCEPT ![a] = to]
      BY <1>5 DEF Begin, GetApp, CreateApp, Inspect, SetSecret, Create, FindDoomed, Prune, Goto
    <3> QED
      BY <3>1 DEF LeaseInv, TypeOK
  <2> QED
    BY <1>2, <2>1, <2>2
<1>6. CASE CreateRefused(a) \/ DeleteApp(a) \/ WaitFails(a) \/ Killed(a)
  BY <1>1, <1>6 DEF CreateRefused, DeleteApp, WaitFails, Killed
<1>7. CASE Applied(a) \/ ListToPrune(a)
  BY <1>1, <1>2, <1>7 DEF Applied, ListToPrune, Goto, lock, LeaseInv, TypeOK
<1>8. CASE GiveUp(a) /\ lease' = lease
  <2>1. CASE nonce[a] = 0
    BY <1>1, <1>8, <2>1 DEF GiveUp
  <2>2. CASE nonce[a] # 0
    BY <1>4, <1>8, <2>2 DEF GiveUp, job
  <2> QED
    BY <2>1, <2>2
<1>9. CASE (AcquireRefused(a) \/ LeaseLost(a) \/ Throws(a)) /\ ~GiveUp(a)
  BY <1>4, <1>9 DEF AcquireRefused, LeaseLost, Throws, Goto, server, job, LeaseInv, KnowsItsNonce, TypeOK
<1>10. CASE Mutate(a)
  <2>1. pc[a] = "mutate" /\ nonce[a] # 0
    BY <1>10 DEF Mutate, Goto, LeaseInv, KnowsItsNonce
  <2> QED
    BY <1>4, <1>10, <2>1 DEF Mutate
<1>11. CASE (Release(a) \/ ReleaseLost(a)) /\ ~End(a, "failed")
  BY <1>2, <1>11 DEF Release, ReleaseLost, AfterRelease, LeaseInv, TypeOK
<1>12. CASE Waited(a)
  BY <1>2, <1>12 DEF Waited, Goto, lock, LeaseInv, TypeOK
<1> QED
  BY <1>1, <1>3, <1>5, <1>6, <1>7, <1>8, <1>9, <1>10, <1>11, <1>12
  DEF Acts, Step, AcquireRefused, LeaseLost, Throws, server

LEMMA LeaseNext == LeaseInv /\ [Next]_vars => LeaseInv'
<1> SUFFICES ASSUME LeaseInv, [Next]_vars PROVE LeaseInv'
  OBVIOUS
<1>1. TypeOK'
  BY TypeNext DEF LeaseInv
<1>2. CASE UNCHANGED vars
  BY <1>1, <1>2 DEF vars, server, job, lock, LeaseInv, KnowsItsNonce
<1>3. ASSUME Next, NEW a \in Applier PROVE KnowsItsNonce(a)'
  <2>1. CASE Acts(a)
    BY <1>1, <2>1, OwnNonce
  <2>2. CASE ~Acts(a)
    <3>1. Same(a)
      BY <1>3, <2>2, Frame, EnvironmentFrame DEF LeaseInv, Next, Acts, Environment
    <3>2. ASSUME nonce[a] # 0
          PROVE  lease'[target[a]] \in {lease[target[a]], NoLease}
                   \cup {<<b, n>> : b \in Applier \ {a}, n \in {1, 2}}
      <4>1. target[a] \in Id
        BY <3>2 DEF LeaseInv, TypeOK, Ids
      <4> QED
        BY <1>3, <2>2, <4>1, LeasesCome DEF LeaseInv, Acts, Step
    <3>3. ASSUME NEW n \in {1, 2}, lease'[target[a]] = <<a, n>>, nonce[a] # 0
          PROVE  lease[target[a]] = <<a, n>>
      BY <3>2, <3>3 DEF NoLease
    <3> QED
      BY <3>1, <3>3 DEF LeaseInv, KnowsItsNonce, Same
  <2> QED
    BY <2>1, <2>2
<1> QED
  BY <1>1, <1>2, <1>3 DEF LeaseInv

\* A release that reaches the server leaves the machine without a lease of this
\* applier, however often leases lapsed, were lost or left behind by killed runs.
THEOREM Frees == Spec => ReleaseFrees
<1> DEFINE Freed ==
             \A a \in Applier : Release(a) => \A n \in {1, 2} : lease'[target[a]] # <<a, n>>
<1>1. Init => LeaseInv
  <2> SUFFICES ASSUME Init, NEW a \in Applier PROVE KnowsItsNonce(a)
    BY TypeInit DEF LeaseInv
  <2>1. nonce[a] = 0 /\ pc[a] = "idle"
    BY DEF Init
  <2> QED
    BY <2>1 DEF KnowsItsNonce
<1>2. LeaseInv /\ [Next]_vars => Freed
  <2> SUFFICES ASSUME LeaseInv, [Next]_vars, NEW a \in Applier, Release(a), NEW n \in {1, 2}
               PROVE  lease'[target[a]] # <<a, n>>
    OBVIOUS
  <2>1. nonce[a] # 0 /\ target[a] \in Id
    BY DEF Release, AfterRelease, LeaseInv, KnowsItsNonce, TypeOK, Ids
  <2>2. CASE Holds(a)
    <3>1. lease'[target[a]] = NoLease
      BY <2>1, <2>2 DEF Release, LeaseInv, TypeOK
    <3> QED
      BY <3>1 DEF NoLease
  <2>3. CASE ~Holds(a)
    BY <2>1, <2>3 DEF Release, Holds, LeaseInv, KnowsItsNonce
  <2> QED
    BY <2>2, <2>3
<1>3. LeaseInv /\ [Next]_vars => [Freed]_vars
  BY <1>2
<1> QED
  BY <1>1, <1>3, LeaseNext, PTL DEF Spec, ReleaseFrees

-----------------------------------------------------------------------------
(* Machines. *)

\* The identity an applier is at is that of a machine, or of none any more.
IsMachine(i) == live[i] = Absent \/ live[i].kind = "machine"
IsOwned(i) == live[i] = Absent \/ live[i].owned

AtAMachine(a) ==
  target[a] # 0 =>
    /\ IsMachine(target[a])
    /\ purpose[a] = "destroy" \/ (purpose[a] = "update" /\ entry[a].kind = "machine")
    /\ purpose[a] = "destroy" /\ mode[a] # "delete" => IsOwned(target[a])

\* What a listing said to prune is still that or is gone, for no identity is given out
\* again while somebody refers to it.
SeenIsPrunable(a) ==
  /\ kinds[a] = 5 => pc[a] = "list"
  /\ \A i \in seen[a] : /\ kinds[a] = 4 => IsMachine(i) /\ IsOwned(i)
                        /\ kinds[a] < 4 => live[i].kind # "machine"

\* The instance an applier waits for is what it has sent, or has been replaced.
AwaitsItsOwn(a) ==
  /\ pc[a] = "wait" \/ (pc[a] = "release" /\ verdict[a] # "failed")
  /\ purpose[a] = "update"
  => \/ live[target[a]] = Absent
     \/ /\ version[a] <= live[target[a]].version
        /\ version[a] = live[target[a]].version => live[target[a]].config = entry[a].config

Knows(a) == AtAMachine(a) /\ SeenIsPrunable(a) /\ AwaitsItsOwn(a)

MachineInv == TypeOK /\ \A a \in Applier : Knows(a)

\* What may become of a machine under its identity.
Later(m, n) == /\ n.kind = "machine"
               /\ m.owned => n.owned
               /\ m.version <= n.version
               /\ m.version = n.version => m.config = n.config

Evolves(i) ==
  /\ live[i] = Absent /\ (\E a \in Applier : target[a] = i \/ i \in seen[a]) => live'[i] = Absent
  /\ live[i].kind = "machine" => live'[i] = Absent \/ Later(live[i], live'[i])
  /\ live[i].kind # "machine" /\ live[i] # Absent => live'[i].kind # "machine"

LEMMA UnchangedEvolves ==
  ASSUME TypeOK, NEW i \in Id, live'[i] = live[i]
  PROVE  Evolves(i)
<1>1. live[i].version \in Nat
  BY DEF TypeOK, Resource
<1> QED
  BY <1>1 DEF Evolves, Later

LEMMA AbsentEvolves ==
  ASSUME NEW i \in Id, live'[i] = Absent
  PROVE  Evolves(i)
BY DEF Evolves, Absent

LEMMA UnusedEvolves ==
  ASSUME NEW i \in Unused
  PROVE  Evolves(i)
BY DEF Evolves, Unused, Absent

\* Changing or destroying a machine is what becomes of it under a lease.
LEMMA MutateEvolves ==
  ASSUME MachineInv, NEW a \in Applier, Mutate(a), NEW i \in Id
  PROVE  Evolves(i)
<1> DEFINE t == target[a]
<1>1. t \in Id /\ AtAMachine(a) /\ t # 0
  BY DEF Mutate, Goto, MachineInv, Knows, TypeOK, Ids
<1>2. \/ live' = live
      \/ live[t] # Absent /\ purpose[a] = "destroy" /\ live' = [live EXCEPT ![t].state = "destroying"]
      \/ /\ live[t] # Absent /\ purpose[a] # "destroy"
         /\ live' = [live EXCEPT ![t] = [Created(entry[a], TRUE) EXCEPT !.version = live[t].version + 1]]
  BY DEF Mutate
<1>3. live[t] \in Resource
  BY <1>1 DEF MachineInv, TypeOK
<1>4. CASE i # t \/ live' = live
  <2>1. live'[i] = live[i]
    BY <1>2, <1>4 DEF MachineInv, TypeOK
  <2> QED
    BY <2>1, UnchangedEvolves DEF MachineInv
<1>5. CASE i = t /\ live[t] # Absent /\ live' = [live EXCEPT ![t].state = "destroying"]
  <2>1. live'[t] = [live[t] EXCEPT !.state = "destroying"]
    BY <1>1, <1>5 DEF MachineInv, TypeOK
  <2>2. live[t].kind = "machine"
    BY <1>1, <1>5 DEF AtAMachine, IsMachine
  <2>3. Later(live[t], live'[t])
    BY <1>3, <2>1, <2>2 DEF Later, Resource
  <2> QED
    BY <1>5, <2>2, <2>3 DEF Evolves
<1>6. CASE /\ i = t /\ live[t] # Absent /\ purpose[a] # "destroy"
           /\ live' = [live EXCEPT ![t] = [Created(entry[a], TRUE) EXCEPT !.version = live[t].version + 1]]
  <2>1. live'[t] = [Created(entry[a], TRUE) EXCEPT !.version = live[t].version + 1]
    BY <1>1, <1>6 DEF MachineInv, TypeOK
  <2>2. live[t].kind = "machine" /\ entry[a].kind = "machine"
    BY <1>1, <1>6 DEF AtAMachine, IsMachine
  <2>3. /\ live'[t].kind = "machine" /\ live'[t].owned = TRUE
        /\ live'[t].version = live[t].version + 1
    BY <2>1, <2>2 DEF Created
  <2>4. Later(live[t], live'[t])
    BY <1>3, <2>3 DEF Later, Resource
  <2> QED
    BY <1>6, <2>2, <2>4 DEF Evolves
<1> QED
  BY <1>2, <1>4, <1>5, <1>6

\* Whatever anybody does.
LEMMA EveryStepEvolves ==
  ASSUME MachineInv, Next, NEW i \in Id
  PROVE  Evolves(i)
<1>0. TypeOK
  BY DEF MachineInv
<1>1. ASSUME live' = live PROVE Evolves(i)
  BY <1>0, <1>1, UnchangedEvolves
<1>2. ASSUME NEW j \in Unused, NEW r, live' = [live EXCEPT ![j] = r] PROVE Evolves(i)
  <2>1. CASE i = j
    BY <2>1, UnusedEvolves
  <2>2. CASE i # j
    <3>1. live'[i] = live[i]
      BY <1>0, <1>2, <2>2 DEF TypeOK
    <3> QED
      BY <1>0, <3>1, UnchangedEvolves
  <2> QED
    BY <2>1, <2>2
<1>3. ASSUME NEW j \in Id, live' = [live EXCEPT ![j] = Absent] PROVE Evolves(i)
  <2>1. live'[i] = live[i] \/ live'[i] = Absent
    BY <1>0, <1>3 DEF TypeOK
  <2> QED
    BY <1>0, <2>1, UnchangedEvolves, AbsentEvolves
<1>4. ASSUME NEW a \in Applier, SetSecret(a) PROVE Evolves(i)
  <2>1. PICK e \in Turn(a) :
          /\ e.kind = "secret"
          /\ \/ \E j \in Unused : live' = [live EXCEPT ![j] = Created(e, FALSE)]
             \/ live' = [j \in Id |-> IF j \in Found("secret", e.name)
                                       THEN Created(e, FALSE) ELSE live[j]]
    BY <1>4 DEF SetSecret
  <2>2. CASE \E j \in Unused : live' = [live EXCEPT ![j] = Created(e, FALSE)]
    BY <1>2, <2>2
  <2>3. CASE live' = [j \in Id |-> IF j \in Found("secret", e.name)
                                    THEN Created(e, FALSE) ELSE live[j]]
    <3>1. CASE i \in Found("secret", e.name)
      <4>1. live[i].kind = "secret" /\ live'[i] = Created(e, FALSE)
        BY <2>3, <3>1 DEF Found
      <4>2. live'[i].kind = "secret"
        BY <2>1, <4>1 DEF Created
      <4>3. live[i] # Absent
        BY <4>1 DEF Absent
      <4> QED
        BY <4>1, <4>2, <4>3 DEF Evolves
    <3>2. CASE i \notin Found("secret", e.name)
      <4>1. live'[i] = live[i]
        BY <2>3, <3>2
      <4> QED
        BY <1>0, <4>1, UnchangedEvolves
    <3> QED
      BY <3>1, <3>2
  <2> QED
    BY <2>1, <2>2, <2>3
<1>5. ASSUME NEW a \in Applier, Prune(a) PROVE Evolves(i)
  <2>1. live' = live \/ \E j \in Id : live' = [live EXCEPT ![j] = Absent]
    BY <1>0, <1>5 DEF Prune, server, TypeOK
  <2> QED
    BY <1>1, <1>3, <2>1
<1>6. ASSUME NEW a \in Applier, DeleteApp(a) PROVE Evolves(i)
  BY <1>6, AbsentEvolves DEF DeleteApp
<1>7. ASSUME NEW a \in Applier, Create(a) PROVE Evolves(i)
  BY <1>2, <1>7 DEF Create
<1>8. CASE CreatedOutside
  BY <1>2, <1>8 DEF CreatedOutside
<1>9. ASSUME NEW j \in Id, MachineStarts(j) PROVE Evolves(i)
  <2>1. live' = [live EXCEPT ![j].state = "started"] /\ live[j].state = "starting"
    BY <1>9 DEF MachineStarts
  <2>2. CASE i # j
    BY <1>0, <2>1, <2>2, UnchangedEvolves DEF TypeOK
  <2>3. CASE i = j
    <3>1. live'[i] = [live[i] EXCEPT !.state = "started"] /\ live[i] \in Resource
      BY <1>0, <2>1, <2>3 DEF TypeOK
    <3> QED
      BY <2>1, <2>3, <3>1 DEF Evolves, Later, Resource, Absent
  <2> QED
    BY <2>2, <2>3
<1>10. ASSUME NEW j \in Id, MachineReaped(j) \/ LeaseExpires(j) PROVE Evolves(i)
  BY <1>1, <1>3, <1>10 DEF MachineReaped, LeaseExpires
<1>11. ASSUME NEW a \in Applier,
              \/ Begin(a) \/ GetApp(a) \/ CreateApp(a) \/ Inspect(a) \/ CreateRefused(a) \/ Applied(a)
              \/ FindDoomed(a) \/ ListToPrune(a) \/ Acquire(a) \/ AcquireRefused(a) \/ LeaseLost(a)
              \/ Release(a) \/ ReleaseLost(a) \/ Waited(a) \/ WaitFails(a) \/ Throws(a) \/ Killed(a)
       PROVE  Evolves(i)
  <2>1. live' = live
    BY <1>11 DEF Begin, GetApp, CreateApp, Inspect, CreateRefused, Applied, FindDoomed, ListToPrune,
                 Acquire, AcquireRefused, LeaseLost, Release, ReleaseLost, AfterRelease, Waited,
                 WaitFails, Throws, Killed, server
  <2> QED
    BY <1>1, <2>1
<1> QED
  BY <1>4, <1>5, <1>6, <1>7, <1>8, <1>9, <1>10, <1>11, MutateEvolves DEF Next, Step

\* What has been seen, less what has been dealt with, is still what it was.
LEMMA SeenKept ==
  ASSUME MachineInv, NEW a \in Applier, \A i \in Id : Evolves(i),
         seen'[a] \subseteq seen[a], kinds'[a] = kinds[a], kinds[a] = 5 => pc'[a] = "list"
  PROVE  SeenIsPrunable(a)'
<1>1. ASSUME NEW i \in seen[a]
      PROVE  /\ kinds[a] = 4 => IsMachine(i)' /\ IsOwned(i)'
             /\ kinds[a] < 4 => live'[i].kind # "machine"
  <2>1. i \in Id /\ Evolves(i) /\ (live[i] = Absent => live'[i] = Absent)
    BY DEF MachineInv, TypeOK, Evolves
  <2>2. /\ kinds[a] = 4 => IsMachine(i) /\ IsOwned(i)
        /\ kinds[a] < 4 => live[i].kind # "machine"
    BY DEF MachineInv, Knows, SeenIsPrunable
  <2>3. CASE live[i] = Absent
    BY <2>1, <2>3 DEF Absent, IsMachine, IsOwned
  <2>4. CASE live[i] # Absent
    BY <2>1, <2>2, <2>4 DEF Evolves, Later, IsMachine, IsOwned
  <2> QED
    BY <2>3, <2>4
<1> QED
  BY <1>1 DEF SeenIsPrunable

\* Whoever has not acted still knows what is true.
LEMMA StillKnows ==
  ASSUME MachineInv, TypeOK', NEW a \in Applier, Same(a), \A i \in Id : Evolves(i)
  PROVE  Knows(a)'
<1>1. AtAMachine(a)'
  <2> SUFFICES ASSUME target[a] # 0 PROVE AtAMachine(a)'
    BY DEF AtAMachine, Same
  <2> DEFINE i == target[a]
  <2>1. i \in Id /\ Evolves(i) /\ AtAMachine(a)
    BY DEF MachineInv, TypeOK, Ids, Knows
  <2>2. live'[i] = Absent \/ (live'[i].kind = "machine" /\ (live[i] # Absent /\ live[i].owned => live'[i].owned))
    <3>1. CASE live[i] = Absent
      BY <2>1, <3>1 DEF Evolves
    <3>2. CASE live[i] # Absent
      BY <2>1, <3>2 DEF Evolves, Later, AtAMachine, IsMachine
    <3> QED
      BY <3>1, <3>2
  <2>3. live[i] = Absent => live'[i] = Absent
    BY <2>1 DEF Evolves
  <2> QED
    BY <2>1, <2>2, <2>3 DEF AtAMachine, IsMachine, IsOwned, Same
<1>2. SeenIsPrunable(a)'
  BY SeenKept DEF MachineInv, Knows, SeenIsPrunable, Same
<1>3. AwaitsItsOwn(a)'
  <2> SUFFICES ASSUME pc[a] = "wait" \/ (pc[a] = "release" /\ verdict[a] # "failed"),
                      purpose[a] = "update"
               PROVE  \/ live'[target[a]] = Absent
                      \/ /\ version[a] <= live'[target[a]].version
                         /\ version[a] = live'[target[a]].version
                              => live'[target[a]].config = entry[a].config
    BY DEF AwaitsItsOwn, Same
  <2> DEFINE i == target[a]
  <2>1. i \in Id /\ i # 0
    BY DEF MachineInv, TypeOK, Ids
  <2>2. Evolves(i) /\ AwaitsItsOwn(a) /\ AtAMachine(a)
    BY <2>1 DEF MachineInv, Knows
  <2>3. CASE live[i] = Absent
    BY <2>2, <2>3 DEF Evolves
  <2>4. CASE live[i] # Absent
    <3>1. live[i].kind = "machine"
      BY <2>1, <2>2, <2>4 DEF AtAMachine, IsMachine
    <3>2. /\ version[a] <= live[i].version
          /\ version[a] = live[i].version => live[i].config = entry[a].config
      BY <2>2, <2>4 DEF AwaitsItsOwn
    <3>3. CASE live'[i] = Absent
      BY <3>3
    <3>4. CASE live'[i] # Absent
      <4>1. Later(live[i], live'[i])
        BY <2>2, <3>1, <3>4 DEF Evolves
      <4>2. version[a] \in Nat /\ live[i].version \in Nat /\ live'[i].version \in Nat
        BY <2>1 DEF MachineInv, TypeOK, Resource
      <4> QED
        BY <3>2, <4>1, <4>2 DEF Later
    <3> QED
      BY <3>3, <3>4
  <2> QED
    BY <2>3, <2>4
<1> QED
  BY <1>1, <1>2, <1>3 DEF Knows

LEMMA EndKnows ==
  ASSUME MachineInv, NEW a \in Applier, NEW r, End(a, r)
  PROVE  Knows(a)'
<1>1. target'[a] = 0 /\ seen'[a] = {} /\ kinds'[a] = 0 /\ pc'[a] = "idle"
  BY DEF End, MachineInv, TypeOK
<1> QED
  BY <1>1 DEF Knows, AtAMachine, SeenIsPrunable, AwaitsItsOwn

\* An applier that is at no machine.
LEMMA AwayKnows ==
  ASSUME MachineInv, TypeOK', NEW a \in Applier, \A i \in Id : Evolves(i),
         target'[a] = 0, seen'[a] \subseteq seen[a], kinds'[a] = kinds[a], pc[a] # "list"
  PROVE  Knows(a)'
<1>1. SeenIsPrunable(a)'
  BY SeenKept DEF MachineInv, Knows, SeenIsPrunable
<1>2. pc'[a] \notin {"release", "wait"}
  BY DEF TypeOK
<1> QED
  BY <1>1, <1>2 DEF Knows, AtAMachine, AwaitsItsOwn

\* One that goes on with its machine, without having changed anything.
LEMMA StaysKnows ==
  ASSUME MachineInv, NEW a \in Applier, live' = live,
         mode'[a] = mode[a], entry'[a] = entry[a], kinds'[a] = kinds[a], seen'[a] = seen[a],
         target'[a] = target[a], purpose'[a] = purpose[a], version'[a] = version[a],
         pc[a] # "list",
         \/ pc'[a] \in {"acquire", "mutate"}
         \/ pc'[a] = "release" /\ verdict'[a] = "failed"
         \/ pc'[a] = "wait" /\ pc[a] = "release" /\ verdict[a] # "failed"
  PROVE  Knows(a)'
<1>1. Knows(a)
  BY DEF MachineInv
<1> QED
  BY <1>1 DEF Knows, AtAMachine, SeenIsPrunable, AwaitsItsOwn, IsMachine, IsOwned

\* One that goes to a machine, to change or to destroy it.
LEMMA ComesKnows ==
  ASSUME MachineInv, NEW a \in Applier, \A i \in Id : Evolves(i), live' = live,
         NEW i \in Id, target'[a] = i, IsMachine(i),
         \/ purpose'[a] = "update" /\ entry'[a].kind = "machine"
         \/ purpose'[a] = "destroy" /\ (mode'[a] = "delete" \/ IsOwned(i)),
         seen'[a] \subseteq seen[a], kinds'[a] = kinds[a], pc[a] # "list", pc'[a] = "acquire"
  PROVE  Knows(a)'
<1>1. SeenIsPrunable(a)'
  BY SeenKept DEF MachineInv, Knows, SeenIsPrunable
<1> QED
  BY <1>1 DEF Knows, AtAMachine, AwaitsItsOwn, IsMachine, IsOwned

LEMMA GiveUpKnows ==
  ASSUME MachineInv, NEW a \in Applier, GiveUp(a), live' = live
  PROVE  Knows(a)'
<1>1. CASE nonce[a] = 0
  BY <1>1, EndKnows DEF GiveUp
<1>2. CASE nonce[a] # 0
  <2>1. /\ pc' = [pc EXCEPT ![a] = "release"] /\ verdict' = [verdict EXCEPT ![a] = "failed"]
        /\ UNCHANGED <<mode, entry, kinds, seen, target, purpose, version>>
    BY <1>2 DEF GiveUp, plan, job
  <2>2. pc'[a] = "release" /\ verdict'[a] = "failed" /\ pc[a] # "list"
    BY <1>2, <2>1 DEF MachineInv, TypeOK
  <2> QED
    BY <2>1, <2>2, StaysKnows
<1> QED
  BY <1>1, <1>2

\* The plan is gone through.
LEMMA PlanKnows ==
  ASSUME MachineInv, TypeOK', NEW a \in Applier, \A i \in Id : Evolves(i),
         Begin(a) \/ GetApp(a) \/ CreateApp(a) \/ Inspect(a) \/ FindDoomed(a) \/ SetSecret(a)
  PROVE  Knows(a)'
<1>0. TypeOK
  BY DEF MachineInv
<1>1. /\ pc[a] \in {"idle", "app", "appCreate", "next"} /\ seen' = seen /\ kinds' = kinds
      /\ target[a] = 0 /\ pc[a] # "list"
  BY <1>0 DEF Begin, GetApp, CreateApp, Inspect, FindDoomed, SetSecret, Goto, plan, TypeOK
<1>2. CASE target'[a] = 0
  BY <1>1, <1>2, AwayKnows
<1>3. CASE Begin(a) \/ GetApp(a) \/ CreateApp(a) \/ SetSecret(a)
  <2>1. target' = target
    BY <1>3 DEF Begin, GetApp, CreateApp, SetSecret, job
  <2> QED
    BY <1>1, <1>2, <2>1
<1>4. CASE Inspect(a) /\ target'[a] # 0
  <2>1. PICK e \in Turn(a), i \in Id :
          /\ live[i].kind = "machine"
          /\ Goto(a, "next", "acquire") /\ e.kind = "machine"
          /\ entry' = [entry EXCEPT ![a] = e]
          /\ target' = [target EXCEPT ![a] = i]
          /\ purpose' = [purpose EXCEPT ![a] = "update"]
          /\ live' = live
    BY <1>1, <1>4 DEF Inspect, Drifted, Found, server
  <2>2. IsMachine(i)
    BY <2>1 DEF IsMachine
  <2>3. pc'[a] = "acquire" /\ entry'[a] = e /\ target'[a] = i /\ purpose'[a] = "update"
    BY <1>0, <2>1 DEF Goto, TypeOK
  <2> QED
    BY <1>1, <2>1, <2>2, <2>3, ComesKnows
<1>5. CASE FindDoomed(a) /\ target'[a] # 0
  <2>1. PICK e \in pending[a], i \in Id :
          /\ live[i].kind = "machine"
          /\ Goto(a, "next", "acquire") /\ mode[a] = "delete"
          /\ target' = [target EXCEPT ![a] = i]
          /\ purpose' = [purpose EXCEPT ![a] = "destroy"]
          /\ live' = live /\ mode' = mode
    BY <1>1, <1>5 DEF FindDoomed, Found, server
  <2>2. IsMachine(i)
    BY <2>1 DEF IsMachine
  <2>3. pc'[a] = "acquire" /\ target'[a] = i /\ purpose'[a] = "destroy" /\ mode'[a] = "delete"
    BY <1>0, <2>1 DEF Goto, TypeOK
  <2> QED
    BY <1>1, <2>1, <2>2, <2>3, ComesKnows
<1> QED
  BY <1>2, <1>3, <1>4, <1>5

\* A machine is made, a listing is made and dealt with.
LEMMA ServerStepKnows ==
  ASSUME MachineInv, TypeOK', NEW a \in Applier, \A i \in Id : Evolves(i),
         \/ Create(a) \/ CreateRefused(a) \/ Applied(a) \/ DeleteApp(a)
         \/ ListToPrune(a) \/ Prune(a)
  PROVE  Knows(a)'
<1>0. TypeOK
  BY DEF MachineInv
<1>1. CASE End(a, "ok") \/ End(a, "failed")
  BY <1>1, EndKnows
<1>2. CASE Create(a)
  <2>1. /\ pc[a] = "create" /\ pc' = [pc EXCEPT ![a] = IF entry[a].kind = "machine" THEN "wait" ELSE "next"]
        /\ seen' = seen /\ kinds' = kinds
    BY <1>2 DEF Create, Goto
  <2>2. CASE entry[a].kind # "machine"
    <3>1. target'[a] = 0
      BY <1>0, <1>2, <2>2 DEF Create, TypeOK
    <3> QED
      BY <2>1, <3>1, AwayKnows
  <2>3. CASE entry[a].kind = "machine"
    <3>1. PICK i \in Unused :
            /\ live' = [live EXCEPT ![i] = Created(entry[a], TRUE)]
            /\ target' = [target EXCEPT ![a] = i]
      BY <1>2, <2>3 DEF Create
    <3>2. /\ target'[a] = i /\ live'[i] = Created(entry[a], TRUE)
          /\ purpose'[a] = "update" /\ version'[a] = 1 /\ entry'[a] = entry[a] /\ pc'[a] = "wait"
      BY <1>0, <1>2, <2>1, <2>3, <3>1, UnusedIds DEF Create, TypeOK
    <3>3. live'[i].kind = "machine" /\ live'[i].version = 1 /\ live'[i].config = entry'[a].config
      BY <2>3, <3>2 DEF Created
    <3>4. SeenIsPrunable(a)'
      BY <2>1, SeenKept DEF MachineInv, Knows, SeenIsPrunable
    <3>5. /\ target'[a] = i /\ purpose'[a] = "update" /\ version'[a] = live'[i].version
          /\ live'[i].version = 1 /\ entry'[a].kind = "machine"
      BY <2>3, <3>2, <3>3
    <3>6. AtAMachine(a)'
      BY <3>3, <3>5 DEF AtAMachine, IsMachine
    <3>7. AwaitsItsOwn(a)'
      BY <3>3, <3>5 DEF AwaitsItsOwn
    <3> QED
      BY <3>4, <3>6, <3>7 DEF Knows
  <2> QED
    BY <2>2, <2>3
<1>3. CASE Applied(a) /\ ~End(a, "ok")
  <2>1. pc'[a] = "list" /\ kinds'[a] = 5
    <3>1. pc' = [pc EXCEPT ![a] = "list"] /\ kinds' = [kinds EXCEPT ![a] = 5]
      BY <1>3, FiveKinds DEF Applied, Goto
    <3>2. pc = [b \in Applier |-> pc[b]] /\ kinds = [b \in Applier |-> kinds[b]]
      BY <1>0 DEF TypeOK
    <3> QED
      BY <3>1, <3>2
  <2>2. target'[a] = 0
    BY <2>1 DEF TypeOK
  <2> QED
    BY <2>1, <2>2 DEF Knows, AtAMachine, SeenIsPrunable, AwaitsItsOwn
<1>4. CASE ListToPrune(a) /\ kinds[a] # 0
  <2>1. /\ pc'[a] = "prune" /\ kinds'[a] = kinds[a] - 1 /\ live' = live
        /\ seen'[a] = Prunable(a, PruneOrder[kinds[a]])
    BY <1>0, <1>4 DEF ListToPrune, Goto, TypeOK, server
  <2>2. kinds[a] \in 1..5 /\ target'[a] = 0
    BY <1>0, <1>4, <2>1, FiveKinds DEF TypeOK
  <2>3. ASSUME NEW i \in seen'[a]
        PROVE  /\ kinds'[a] = 4 => live[i].kind = "machine" /\ live[i].owned
               /\ kinds'[a] < 4 => live[i].kind # "machine"
    <3>1. CASE kinds[a] = 5
      BY <2>1, <2>3, <3>1 DEF Prunable, PruneOrder
    <3>2. CASE kinds[a] \in 1..4
      <4>1. PruneOrder[kinds[a]] # "machine"
        BY <3>2 DEF PruneOrder
      <4> QED
        BY <2>1, <2>3, <3>2, <4>1 DEF Prunable
    <3> QED
      BY <2>2, <3>1, <3>2
  <2> QED
    BY <2>1, <2>2, <2>3 DEF Knows, AtAMachine, SeenIsPrunable, AwaitsItsOwn, IsMachine, IsOwned
<1>5. CASE Prune(a)
  <2>1. CASE seen[a] = {} /\ Goto(a, "prune", "list") /\ UNCHANGED <<server, plan, job>>
    <3>1. target'[a] = 0 /\ pc[a] # "list"
      BY <1>0, <2>1 DEF Goto, TypeOK, job
    <3> QED
      BY <2>1, <3>1, AwayKnows DEF plan
  <2>2. ASSUME NEW i \in seen[a],
               seen' = [seen EXCEPT ![a] = @ \ {i}],
               UNCHANGED <<kinds, target>>,
               Goto(a, "prune", "prune")
        PROVE  Knows(a)'
    <3>1. target'[a] = 0 /\ seen'[a] \subseteq seen[a] /\ pc[a] # "list"
      BY <1>0, <2>2 DEF Goto, TypeOK
    <3> QED
      BY <2>2, <3>1, AwayKnows
  <2>3. ASSUME NEW i \in seen[a],
               seen' = [seen EXCEPT ![a] = @ \ {i}],
               kinds[a] = Cardinality(Kind) - 1,
               Goto(a, "prune", "acquire"),
               target' = [target EXCEPT ![a] = i],
               purpose' = [purpose EXCEPT ![a] = "destroy"],
               UNCHANGED <<live, kinds>>
        PROVE  Knows(a)'
    <3>1. i \in Id /\ IsMachine(i) /\ IsOwned(i)
      BY <1>0, <2>3, FiveKinds DEF MachineInv, Knows, SeenIsPrunable, TypeOK
    <3>2. /\ seen'[a] \subseteq seen[a] /\ target'[a] = i /\ purpose'[a] = "destroy"
          /\ pc[a] # "list" /\ pc'[a] = "acquire"
      BY <1>0, <2>3 DEF Goto, TypeOK
    <3> QED
      BY <2>3, <3>1, <3>2, ComesKnows
  <2> QED
    BY <1>5, <2>1, <2>2, <2>3 DEF Prune
<1> QED
  BY <1>1, <1>2, <1>3, <1>4, <1>5 DEF CreateRefused, Applied, DeleteApp, ListToPrune

\* The machine is changed, destroyed and waited for.
LEMMA MutateKnows ==
  ASSUME MachineInv, TypeOK', NEW a \in Applier, \A i \in Id : Evolves(i), Mutate(a)
  PROVE  Knows(a)'
<1> DEFINE t == target[a]
<1>0. TypeOK /\ Knows(a)
  BY DEF MachineInv
<1>1. /\ pc[a] = "mutate" /\ pc'[a] = "release" /\ t \in Id /\ t # 0
      /\ UNCHANGED <<mode, entry, kinds, seen, target, purpose>>
  BY <1>0 DEF Mutate, Goto, TypeOK, Ids, plan
<1>2. SeenIsPrunable(a)'
  BY <1>0, <1>1, SeenKept DEF Knows, SeenIsPrunable
<1>3. Evolves(t) /\ AtAMachine(a)
  BY <1>0, <1>1 DEF Knows
<1>4. AtAMachine(a)'
  <2>1. CASE live[t] = Absent
    BY <1>1, <1>3, <2>1 DEF AtAMachine, Evolves, IsMachine, IsOwned
  <2>2. CASE live[t] # Absent
    BY <1>1, <1>3, <2>2 DEF AtAMachine, Evolves, Later, IsMachine, IsOwned
  <2> QED
    BY <2>1, <2>2
<1>5. AwaitsItsOwn(a)'
  <2> SUFFICES ASSUME verdict'[a] # "failed", purpose[a] = "update", live'[t] # Absent
               PROVE  /\ version'[a] <= live'[t].version
                      /\ version'[a] = live'[t].version => live'[t].config = entry[a].config
    BY <1>1 DEF AwaitsItsOwn
  <2>1. version'[a] = live'[t].version /\ live'[t].version \in Nat
    BY <1>0, <1>1 DEF Mutate, TypeOK, Resource
  <2>2. live[t] # Absent
    BY <1>1, <1>3 DEF Evolves
  <2>3. live' = [live EXCEPT ![t] = [Created(entry[a], TRUE) EXCEPT !.version = live[t].version + 1]]
    BY <1>0, <2>2 DEF Mutate, TypeOK
  <2>4. live'[t].config = entry[a].config
    BY <1>0, <1>1, <2>3 DEF Created, TypeOK
  <2> QED
    BY <2>1, <2>4
<1> QED
  BY <1>2, <1>4, <1>5 DEF Knows

LEMMA LeaseStepKnows ==
  ASSUME MachineInv, TypeOK', NEW a \in Applier, \A i \in Id : Evolves(i),
         \/ Acquire(a) \/ AcquireRefused(a) \/ LeaseLost(a) \/ Release(a) \/ ReleaseLost(a)
         \/ Waited(a) \/ WaitFails(a) \/ Throws(a) \/ Killed(a)
  PROVE  Knows(a)'
<1>0. TypeOK
  BY DEF MachineInv
<1>1. CASE End(a, "failed") \/ End(a, "killed")
  BY <1>1, EndKnows
<1>2. CASE GiveUp(a) /\ live' = live
  BY <1>2, GiveUpKnows
<1>3. CASE Acquire(a)
  BY <1>0, <1>3, StaysKnows DEF Acquire, Goto, plan, job, TypeOK
<1>4. CASE (AcquireRefused(a) \/ LeaseLost(a)) /\ ~GiveUp(a)
  BY <1>0, <1>4, StaysKnows DEF AcquireRefused, LeaseLost, Goto, plan, job, server, TypeOK
<1>5. CASE (Release(a) \/ ReleaseLost(a)) /\ ~End(a, "failed")
  BY <1>0, <1>5, StaysKnows DEF Release, ReleaseLost, AfterRelease, plan, job, TypeOK
<1>6. CASE Waited(a)
  <2>1. target'[a] = 0 /\ seen' = seen /\ kinds' = kinds /\ pc[a] # "list"
    BY <1>0, <1>6 DEF Waited, Goto, TypeOK
  <2> QED
    BY <2>1, AwayKnows
<1> QED
  BY <1>1, <1>2, <1>3, <1>4, <1>5, <1>6
  DEF AcquireRefused, LeaseLost, Release, ReleaseLost, AfterRelease, WaitFails, Throws, Killed, server

LEMMA MachineInit == Init => MachineInv
<1> SUFFICES ASSUME Init, NEW a \in Applier PROVE Knows(a)
  BY TypeInit DEF MachineInv
<1>1. target[a] = 0 /\ seen[a] = {} /\ kinds[a] = 0 /\ pc[a] = "idle"
  BY DEF Init
<1> QED
  BY <1>1 DEF Knows, AtAMachine, SeenIsPrunable, AwaitsItsOwn

LEMMA MachineNext == MachineInv /\ [Next]_vars => MachineInv'
<1> SUFFICES ASSUME MachineInv, [Next]_vars PROVE MachineInv'
  OBVIOUS
<1>1. TypeOK'
  BY TypeNext DEF MachineInv
<1>2. CASE UNCHANGED vars
  BY <1>1, <1>2 DEF vars, server, plan, job, lock, MachineInv, Knows, AtAMachine, SeenIsPrunable,
                    AwaitsItsOwn, IsMachine, IsOwned
<1>3. ASSUME Next, NEW a \in Applier PROVE Knows(a)'
  <2>1. \A i \in Id : Evolves(i)
    BY <1>3, EveryStepEvolves
  <2>2. CASE Acts(a)
    BY <1>1, <2>1, <2>2, PlanKnows, ServerStepKnows, MutateKnows, LeaseStepKnows DEF Acts, Step
  <2>3. CASE ~Acts(a)
    <3>1. Same(a)
      BY <1>3, <2>3, Frame, EnvironmentFrame DEF MachineInv, Next, Acts, Environment
    <3> QED
      BY <1>1, <2>1, <3>1, StillKnows
  <2> QED
    BY <2>2, <2>3
<1> QED
  BY <1>1, <1>2, <1>3 DEF MachineInv

\* A prune never tears down a machine without chant's marker, however old its listing
\* is and whoever else is at work: only deletes do.
THEOREM SparesForeign == Spec => ForeignSpared
<1> DEFINE Spared ==
             \A i \in Id : live[i].kind = "machine" /\ ~live[i].owned /\ live'[i] # live[i] /\ app' =>
               \/ live'[i].state = "started" /\ live[i].state = "starting"
               \/ live[i].state = "destroying"
               \/ \E a \in Applier : target[a] = i /\ (mode[a] = "delete" \/ purpose[a] = "update")
<1>1. MachineInv /\ [Next]_vars => Spared
  <2> SUFFICES ASSUME MachineInv, [Next]_vars, NEW i \in Id,
                      live[i].kind = "machine", ~live[i].owned, live'[i] # live[i], app'
               PROVE  \/ live'[i].state = "started" /\ live[i].state = "starting"
                      \/ live[i].state = "destroying"
                      \/ \E a \in Applier : target[a] = i /\ (mode[a] = "delete" \/ purpose[a] = "update")
    OBVIOUS
  <2>0. TypeOK /\ live[i] # Absent
    BY DEF MachineInv, Absent
  <2>1. ASSUME NEW j \in Unused, NEW r, live' = [live EXCEPT ![j] = r] PROVE FALSE
    BY <2>0, <2>1, UnusedIds DEF Unused, TypeOK
  <2>2. ASSUME NEW a \in Applier, SetSecret(a) PROVE FALSE
    <3>1. PICK e \in Turn(a) :
            \/ \E j \in Unused : live' = [live EXCEPT ![j] = Created(e, FALSE)]
            \/ live' = [j \in Id |-> IF j \in Found("secret", e.name)
                                      THEN Created(e, FALSE) ELSE live[j]]
      BY <2>2 DEF SetSecret
    <3>2. i \notin Found("secret", e.name)
      BY DEF Found
    <3> QED
      BY <2>1, <3>1, <3>2
  <2>3. ASSUME NEW a \in Applier, Create(a) PROVE FALSE
    BY <2>1, <2>3 DEF Create
  <2>4. ASSUME NEW a \in Applier, DeleteApp(a) PROVE FALSE
    BY <2>4 DEF DeleteApp
  <2>5. ASSUME NEW a \in Applier, Prune(a) PROVE FALSE
    <3>1. PICK j \in seen[a] : /\ live' = [live EXCEPT ![j] = Absent] /\ pc[a] = "prune"
                              /\ kinds[a] # Cardinality(Kind) - 1
      BY <2>5 DEF Prune, server, Goto
    <3>2. i = j
      BY <2>0, <3>1 DEF TypeOK
    <3>3. kinds[a] \in 0..5 /\ kinds[a] # 4 /\ kinds[a] # 5
      BY <2>0, <3>1, FiveKinds DEF MachineInv, Knows, SeenIsPrunable, TypeOK
    <3> QED
      BY <3>1, <3>2, <3>3 DEF MachineInv, Knows, SeenIsPrunable
  <2>6. ASSUME NEW a \in Applier, Mutate(a)
        PROVE  target[a] = i /\ (mode[a] = "delete" \/ purpose[a] = "update")
    <3>1. target[a] = i
      BY <2>0, <2>6 DEF Mutate, TypeOK
    <3>2. i # 0 /\ AtAMachine(a)
      BY IdType DEF MachineInv, Knows
    <3> QED
      BY <2>0, <3>1, <3>2 DEF AtAMachine, IsOwned
  <2>7. ASSUME NEW j \in Id, MachineStarts(j)
        PROVE  live'[i].state = "started" /\ live[i].state = "starting"
    <3>1. live' = [live EXCEPT ![j].state = "started"] /\ live[j].state = "starting"
      BY <2>7 DEF MachineStarts
    <3>2. i = j /\ live[i] \in Resource
      BY <2>0, <3>1 DEF TypeOK
    <3>3. live'[i] = [live[i] EXCEPT !.state = "started"]
      BY <2>0, <3>1, <3>2 DEF TypeOK
    <3> QED
      BY <3>1, <3>2, <3>3 DEF Resource
  <2>8. ASSUME NEW j \in Id, MachineReaped(j) PROVE live[i].state = "destroying"
    BY <2>0, <2>8 DEF MachineReaped, TypeOK
  <2>9. CASE CreatedOutside
    BY <2>1, <2>9 DEF CreatedOutside
  <2>10. ASSUME NEW a \in Applier,
                \/ Begin(a) \/ GetApp(a) \/ CreateApp(a) \/ Inspect(a) \/ CreateRefused(a) \/ Applied(a)
                \/ FindDoomed(a) \/ ListToPrune(a) \/ Acquire(a) \/ AcquireRefused(a) \/ LeaseLost(a)
                \/ Release(a) \/ ReleaseLost(a) \/ Waited(a) \/ WaitFails(a) \/ Throws(a) \/ Killed(a)
         PROVE  FALSE
    BY <2>10 DEF Begin, GetApp, CreateApp, Inspect, CreateRefused, Applied, FindDoomed, ListToPrune,
                 Acquire, AcquireRefused, LeaseLost, Release, ReleaseLost, AfterRelease, Waited,
                 WaitFails, Throws, Killed, server
  <2>11. ~UNCHANGED vars /\ \A j \in Id : ~LeaseExpires(j)
    BY DEF vars, server, LeaseExpires
  <2> QED
    BY <2>2, <2>3, <2>4, <2>5, <2>6, <2>7, <2>8, <2>9, <2>10, <2>11 DEF Next, Step
<1>2. MachineInv /\ [Next]_vars => [Spared]_vars
  BY <1>1
<1> QED
  BY <1>2, MachineInit, MachineNext, PTL DEF Spec, ForeignSpared

\* A machine an applier has waited for runs what that applier has sent, however many
\* appliers change it meanwhile.
THEOREM RunsWhatWasSent == Spec => WaitedMeansRunning
<1> DEFINE Running ==
             \A a \in Applier :
               pc[a] = "wait" /\ pc'[a] = "next" /\ purpose[a] = "update" =>
                 /\ live[target[a]].state = "started"
                 /\ live[target[a]].config = entry[a].config
<1>1. MachineInv /\ [Next]_vars => Running
  <2> SUFFICES ASSUME MachineInv, [Next]_vars, NEW a \in Applier,
                      pc[a] = "wait", pc'[a] = "next", purpose[a] = "update"
               PROVE  /\ live[target[a]].state = "started"
                      /\ live[target[a]].config = entry[a].config
    OBVIOUS
  <2>0. TypeOK
    BY DEF MachineInv
  <2>1. Acts(a)
    BY <2>0, Frame, EnvironmentFrame DEF Next, Acts, Environment, Same, vars
  <2>2. ~End(a, "failed") /\ ~End(a, "killed")
    BY <2>0 DEF End, TypeOK
  <2>3. ~GiveUp(a)
    BY <2>0 DEF GiveUp, End, TypeOK
  <2>4. Waited(a)
    BY <2>1, <2>2, <2>3
    DEF Acts, Step, Begin, GetApp, CreateApp, Inspect, SetSecret, Create, CreateRefused, Applied,
        DeleteApp, FindDoomed, ListToPrune, Prune, Acquire, AcquireRefused, Mutate, LeaseLost,
        Release, ReleaseLost, AfterRelease, WaitFails, Throws, Killed, Goto
  <2>5. live[target[a]].state = "started" /\ live[target[a]].version = version[a]
    BY <2>4 DEF Waited, Settled
  <2>6. live[target[a]] # Absent
    BY <2>5 DEF Absent
  <2> QED
    BY <2>5, <2>6 DEF MachineInv, Knows, AwaitsItsOwn
<1>2. MachineInv /\ [Next]_vars => [Running]_vars
  BY <1>1
<1> QED
  BY <1>2, MachineInit, MachineNext, PTL DEF Spec, WaitedMeansRunning

-----------------------------------------------------------------------------
(* A run with nobody else at work. *)

\* A plan declares one machine of a name, as an app holds one.
OneMachineOfAName ==
  \A a \in Applier : \A e, f \in Plan[a] :
    e.kind = "machine" /\ f.kind = "machine" /\ e.name = f.name => e = f

Others(a) == \A b \in Applier \ {a} : pc[b] = "idle"

\* Something is still to be made or changed for the entry at hand.
Owing(a) == \/ pc[a] = "create"
            \/ /\ purpose[a] = "update"
               /\ pc[a] \in {"acquire", "mutate"} \/ (pc[a] = "release" /\ verdict[a] = "failed")
DealtWith(a) == {e \in Plan[a] \ pending[a] : Owing(a) => e # entry[a]}
There(e) == \E i \in Found(e.kind, e.name) : e.kind = "machine" => live[i].config = e.config

\* What has been dealt with is there, whatever has been dealt with since.
SoFarThere(a) == mode[a] # "delete" => \A e \in DealtWith(a) : There(e)

\* The machine at hand is the one the entry at hand declares.
AtItsEntry(a) ==
  /\ pc[a] = "create" => entry[a] \in Plan[a]
  /\ target[a] # 0 /\ purpose[a] = "update" =>
       entry[a] \in Plan[a] /\ target[a] \in Found("machine", entry[a].name)

Undeclared(a, i) == \A e \in Plan[a] : i \notin Found(e.kind, e.name)
Destroys(a) == target[a] # 0 /\ purpose[a] = "destroy" /\ mode[a] # "delete"
Pruning(a) == pc[a] \in {"list", "prune"} \/ Destroys(a)
Doomed(a) == IF pc[a] = "prune" \/ Destroys(a) THEN seen[a] \cup {target[a]} ELSE {}

\* Of a kind that has been listed nothing is left to prune but what is still to be
\* dealt with, and none of that is declared.
PrunesInTurn(a) ==
  /\ Pruning(a) =>
       /\ mode[a] = "prune" /\ pending[a] = {}
       /\ \A n \in 1..5 : n > kinds[a] =>
            Prunable(a, PruneOrder[n]) \subseteq IF n = kinds[a] + 1 THEN Doomed(a) ELSE {}
  /\ \A i \in Doomed(a) \cap Id : Undeclared(a, i)

Solo(a) == Others(a) /\ SoFarThere(a) /\ AtItsEntry(a) /\ PrunesInTurn(a)
SoloInv == MachineInv /\ \A a \in Applier : alone[a] => Solo(a)

\* The steps of a run that goes on.
Goes(a) == Acts(a) /\ ~Begin(a)

\* While a run is alone, only its own steps and the server's follow.
LEMMA WhoActs ==
  ASSUME SoloInv, Next, NEW a \in Applier, alone'[a]
  PROVE  \/ Begin(a)
         \/ /\ alone[a] /\ Solo(a) /\ Others(a)'
            /\ \/ Goes(a)
               \/ \E i \in Id : \/ MachineStarts(i) \/ LeaseExpires(i)
                                \/ MachineReaped(i) /\ target[a] = i /\ purpose[a] = "destroy"
<1>0. TypeOK
  BY DEF SoloInv, MachineInv
<1>1. ASSUME NEW b \in Applier, Begin(b) PROVE b = a
  BY <1>1 DEF Begin
<1>2. ASSUME NEW b \in Applier, Acts(b), ~Begin(b) PROVE alone'[a] = (alone[a] /\ alone'[a])
  <2>1. alone' = alone \/ alone' = [alone EXCEPT ![b] = FALSE]
    BY <1>2 DEF Acts, Step, GetApp, CreateApp, Inspect, SetSecret, Create, CreateRefused, Applied,
        DeleteApp, FindDoomed, ListToPrune, Prune, Acquire, AcquireRefused, Mutate, LeaseLost,
        Release, ReleaseLost, AfterRelease, Waited, WaitFails, Throws, Killed, GiveUp, End
  <2>2. alone \in [Applier -> BOOLEAN]
    BY <1>0 DEF TypeOK
  <2> QED
    BY <2>1, <2>2
<1>3. ASSUME NEW b \in Applier \ {a}, Acts(b), ~Begin(b) PROVE FALSE
  <2>1. alone[a]
    BY <1>2, <1>3
  <2>2. pc[b] = "idle"
    BY <2>1 DEF SoloInv, Solo, Others
  <2>3. nonce[b] = 0 /\ target[b] = 0
    BY <1>0, <2>2 DEF TypeOK
  <2> QED
    BY <1>3, <2>2 DEF Acts, Step, GetApp, CreateApp, Inspect, SetSecret, Create, CreateRefused, Applied,
        DeleteApp, FindDoomed, ListToPrune, Prune, Acquire, AcquireRefused, Mutate, LeaseLost,
        Release, ReleaseLost, AfterRelease, Waited, WaitFails, Throws, Killed, Goto
<1>4. CASE \E b \in Applier : Acts(b)
  <2>1. CASE Begin(a)
    BY <2>1
  <2>2. CASE ~Begin(a)
    <3>1. Goes(a) /\ alone[a]
      BY <1>1, <1>2, <1>3, <1>4, <2>2 DEF Goes
    <3>2. Solo(a)
      BY <3>1 DEF SoloInv
    <3>3. Others(a)'
      BY <1>0, <3>1, <3>2, Frame DEF Goes, Same, Solo, Others
    <3> QED
      BY <3>1, <3>2, <3>3
  <2> QED
    BY <2>1, <2>2
<1>5. CASE Environment
  <2>1. ~CreatedOutside
    BY DEF CreatedOutside
  <2>2. pc' = pc /\ alone[a]
    BY <1>5, <2>1 DEF Environment, MachineStarts, LeaseExpires, MachineReaped
  <2>3. ASSUME NEW i \in Id, MachineReaped(i) PROVE target[a] = i /\ purpose[a] = "destroy"
    BY <2>3 DEF MachineReaped
  <2>4. Solo(a)
    BY <2>2 DEF SoloInv
  <2>5. Others(a)'
    BY <2>2, <2>4 DEF Solo, Others
  <2> QED
    BY <1>5, <2>1, <2>2, <2>3, <2>4, <2>5 DEF Environment
<1> QED
  BY <1>4, <1>5 DEF Next, Acts, Environment

LEMMA NotEnded ==
  ASSUME TypeOK, NEW a \in Applier, alone'[a], NEW r, End(a, r)
  PROVE  FALSE
BY DEF End, TypeOK

\* What a run that goes on does to the app.
GivesUp(a) == /\ nonce[a] # 0 /\ pc[a] \in {"acquire", "mutate"} /\ live' = live
              /\ pc' = [pc EXCEPT ![a] = "release"]
              /\ verdict' = [verdict EXCEPT ![a] = "failed"]
              /\ UNCHANGED <<mode, plan, job>>

LEMMA HowItGoes ==
  ASSUME TypeOK, NEW a \in Applier, alone'[a], Goes(a)
  PROVE  \/ GetApp(a) \/ CreateApp(a) \/ Inspect(a) \/ SetSecret(a) \/ Create(a) \/ FindDoomed(a)
         \/ Applied(a) /\ ~End(a, "ok")
         \/ ListToPrune(a) /\ kinds[a] # 0
         \/ Prune(a) \/ Acquire(a) \/ Mutate(a)
         \/ (AcquireRefused(a) \/ LeaseLost(a)) /\ ~GiveUp(a)
         \/ (Release(a) \/ ReleaseLost(a)) /\ verdict[a] # "failed"
         \/ Waited(a) \/ GivesUp(a)
<1>1. \A r : ~End(a, r)
  BY NotEnded
<1>2. ASSUME GiveUp(a), live' = live, pc[a] # "release" PROVE GivesUp(a)
  BY <1>1, <1>2 DEF GiveUp, GivesUp, TypeOK
<1> HIDE DEF GiveUp, GivesUp, End
<1>3. CASE CreateRefused(a) \/ Applied(a) \/ DeleteApp(a) \/ ListToPrune(a) \/ WaitFails(a) \/ Killed(a)
  BY <1>1, <1>3 DEF CreateRefused, Applied, DeleteApp, ListToPrune, WaitFails, Killed
<1>4. CASE AcquireRefused(a) \/ LeaseLost(a)
  <2>1. pc[a] # "release" /\ live' = live
    BY <1>4 DEF AcquireRefused, LeaseLost, server
  <2> QED
    BY <1>2, <1>4, <2>1
<1>5. CASE Release(a) \/ ReleaseLost(a)
  BY <1>1, <1>5 DEF Release, ReleaseLost, AfterRelease
<1>6. CASE Throws(a)
  <2>1. GiveUp(a) /\ live' = live /\ pc[a] # "release"
    BY <1>6 DEF Throws, server
  <2> QED
    BY <1>2, <2>1
<1>7. CASE \/ GetApp(a) \/ CreateApp(a) \/ Inspect(a) \/ SetSecret(a) \/ Create(a) \/ FindDoomed(a)
           \/ Prune(a) \/ Acquire(a) \/ Mutate(a) \/ Waited(a)
  BY <1>7
<1>8. Step(a) \/ Throws(a) \/ Killed(a)
  BY DEF Goes, Acts
<1> QED
  BY <1>3, <1>4, <1>5, <1>6, <1>7, <1>8 DEF Step

\* A resource that keeps its kind and its name, and a machine its config, is still there.
LEMMA ThereKept ==
  ASSUME NEW e \in Entry, There(e),
         \A i \in Found(e.kind, e.name) :
           /\ live'[i].kind = live[i].kind /\ live'[i].name = live[i].name
           /\ e.kind = "machine" => live'[i].config = live[i].config
  PROVE  There(e)'
BY DEF There, Found

LEMMA ThereUnchanged ==
  ASSUME NEW e \in Entry, There(e), live' = live
  PROVE  There(e)'
BY ThereKept

\* Nothing that is there has an unused identity.
LEMMA ThereDespiteNew ==
  ASSUME TypeOK, NEW e \in Entry, There(e), NEW j \in Unused, NEW r,
         live' = [live EXCEPT ![j] = r]
  PROVE  There(e)'
<1>1. ASSUME NEW i \in Found(e.kind, e.name) PROVE live'[i] = live[i]
  <2>1. live[i].kind # "none" /\ i \in Id
    BY DEF Found, Entry, Kind
  <2>2. i # j
    BY <2>1 DEF Unused, Absent
  <2> QED
    BY <2>1, <2>2 DEF TypeOK
<1> QED
  BY <1>1, ThereKept

LEMMA CreatedThere ==
  ASSUME TypeOK, NEW e \in Entry, NEW m, NEW j \in Id, live'[j] = Created(e, m)
  PROVE  There(e)'
BY DEF There, Found, Created

\* A run that has nothing new behind it loses nothing.
LEMMA SoFarKept ==
  ASSUME SoloInv, NEW a \in Applier, Solo(a), mode'[a] = mode[a], DealtWith(a)' \subseteq DealtWith(a),
         \A e \in Entry : e \in DealtWith(a) /\ There(e) => There(e)'
  PROVE  SoFarThere(a)'
<1>1. DealtWith(a) \subseteq Entry
  BY PlanType DEF DealtWith
<1> QED
  BY <1>1 DEF Solo, SoFarThere

LEMMA LessIsDealtWith ==
  ASSUME TypeOK, NEW a \in Applier, pending'[a] = pending[a],
         Owing(a) => Owing(a)' /\ entry'[a] = entry[a]
  PROVE  DealtWith(a)' \subseteq DealtWith(a)
BY DEF DealtWith

\* The entry a run turns to next is there already, or still owed.
LEMMA InspectSoFar ==
  ASSUME SoloInv, NEW a \in Applier, Solo(a), Inspect(a)
  PROVE  SoFarThere(a)'
<1>0. TypeOK /\ live' = live /\ mode' = mode /\ pc[a] = "next"
  BY DEF SoloInv, MachineInv, Inspect, Goto, server
<1>1. PICK e \in Turn(a) :
        /\ pending' = [pending EXCEPT ![a] = @ \ {e}]
        /\ \/ /\ Goto(a, "next", "create")
              /\ entry' = [entry EXCEPT ![a] = e]
           \/ /\ Goto(a, "next", "acquire")
              /\ entry' = [entry EXCEPT ![a] = e]
              /\ purpose' = [purpose EXCEPT ![a] = "update"]
           \/ e.kind # "secret" /\ ~NeedsCreate(e) /\ ~Drifted(e)
  BY DEF Inspect
<1>2. e \in Entry /\ mode[a] # "delete"
  BY <1>0, <1>1 DEF Turn, TypeOK, Inspect
<1>3. DealtWith(a) = Plan[a] \ pending[a]
  BY <1>0 DEF DealtWith, Owing, TypeOK
<1>4. DealtWith(a)' \subseteq DealtWith(a) \cup {e}
  BY <1>0, <1>1, <1>3 DEF DealtWith, TypeOK
<1>5. \A f \in DealtWith(a) : There(f)'
  <2>1. DealtWith(a) \subseteq Entry
    BY PlanType DEF DealtWith
  <2> QED
    BY <1>0, <1>2, <2>1, ThereUnchanged DEF Solo, SoFarThere
<1>6. CASE e.kind # "secret" /\ ~NeedsCreate(e) /\ ~Drifted(e)
  <2>1. There(e)
    BY <1>6 DEF There, NeedsCreate, Drifted
  <2>2. There(e)'
    BY <1>0, <1>2, <2>1, ThereUnchanged
  <2> QED
    BY <1>4, <1>5, <2>2 DEF SoFarThere
<1>7. CASE Owing(a)' /\ entry'[a] = e
  <2>1. e \notin DealtWith(a)'
    BY <1>7 DEF DealtWith
  <2> QED
    BY <1>4, <1>5, <2>1 DEF SoFarThere
<1> QED
  BY <1>0, <1>1, <1>6, <1>7 DEF Owing, Goto, TypeOK

LEMMA SetSecretSoFar ==
  ASSUME SoloInv, NEW a \in Applier, Solo(a), SetSecret(a)
  PROVE  SoFarThere(a)'
<1>0. TypeOK /\ mode' = mode /\ pc[a] = "next" /\ mode[a] # "delete"
  BY DEF SoloInv, MachineInv, SetSecret, Goto
<1>1. PICK e \in Turn(a) :
        /\ e.kind = "secret"
        /\ pending' = [pending EXCEPT ![a] = @ \ {e}]
        /\ IF Found("secret", e.name) = {}
           THEN \E i \in Unused : live' = [live EXCEPT ![i] = Created(e, FALSE)]
           ELSE live' = [i \in Id |-> IF i \in Found("secret", e.name)
                                      THEN Created(e, FALSE) ELSE live[i]]
  BY DEF SetSecret
<1>2. e \in Entry
  BY <1>0, <1>1 DEF Turn, TypeOK
<1>3. DealtWith(a) = Plan[a] \ pending[a]
  BY <1>0 DEF DealtWith, Owing, TypeOK
<1>4. DealtWith(a)' \subseteq DealtWith(a) \cup {e}
  BY <1>0, <1>1, <1>3 DEF DealtWith, TypeOK
<1>5. ASSUME NEW f \in DealtWith(a) PROVE There(f) /\ f \in Entry
  BY <1>0, <1>5, PlanType DEF Solo, SoFarThere, DealtWith
<1>6. CASE Found("secret", e.name) = {}
  <2>1. PICK i \in Unused : live' = [live EXCEPT ![i] = Created(e, FALSE)]
    BY <1>1, <1>6
  <2>2. live'[i] = Created(e, FALSE) /\ i \in Id
    BY <1>0, <2>1, UnusedIds DEF TypeOK
  <2>3. There(e)'
    BY <1>0, <1>2, <2>2, CreatedThere
  <2>4. \A f \in DealtWith(a) : There(f)'
    BY <1>0, <1>5, <2>1, ThereDespiteNew
  <2> QED
    BY <1>4, <2>3, <2>4 DEF SoFarThere
<1>7. CASE Found("secret", e.name) # {}
  <2>1. PICK i \in Found("secret", e.name) : TRUE
    BY <1>7
  <2>2. live'[i] = Created(e, FALSE) /\ i \in Id
    BY <1>1, <1>7, <2>1 DEF Found
  <2>3. There(e)'
    BY <1>0, <1>2, <2>2, CreatedThere
  <2>4. ASSUME NEW f \in DealtWith(a) PROVE There(f)'
    <3>1. ASSUME NEW j \in Found(f.kind, f.name)
          PROVE  /\ live'[j].kind = live[j].kind /\ live'[j].name = live[j].name
                 /\ f.kind = "machine" => live'[j].config = live[j].config
      <4>1. live'[j] = IF j \in Found("secret", e.name) THEN Created(e, FALSE) ELSE live[j]
        BY <1>1, <1>7 DEF Found
      <4> QED
        BY <1>1, <4>1 DEF Found, Created
    <3> QED
      BY <1>5, <3>1, ThereKept
  <2> QED
    BY <1>4, <2>3, <2>4 DEF SoFarThere
<1> QED
  BY <1>6, <1>7

LEMMA CreateSoFar ==
  ASSUME SoloInv, NEW a \in Applier, Solo(a), Create(a)
  PROVE  SoFarThere(a)'
<1>0. TypeOK /\ mode' = mode /\ pc[a] = "create" /\ pending' = pending
  BY DEF SoloInv, MachineInv, Create, Goto
<1>1. PICK e \in Plan[a] : e = entry[a]
  BY <1>0 DEF Solo, AtItsEntry
<1>2. PICK i \in Unused : live' = [live EXCEPT ![i] = Created(e, TRUE)]
  BY <1>1 DEF Create
<1>3. live'[i] = Created(e, TRUE) /\ i \in Id /\ e \in Entry
  BY <1>0, <1>1, <1>2, UnusedIds, PlanType DEF TypeOK
<1>4. There(e)'
  BY <1>0, <1>3, CreatedThere
<1>5. DealtWith(a)' \subseteq DealtWith(a) \cup {e}
  BY <1>0, <1>1 DEF DealtWith
<1>6. ASSUME NEW f \in DealtWith(a), mode[a] # "delete" PROVE There(f)'
  BY <1>0, <1>2, <1>6, PlanType, ThereDespiteNew DEF Solo, SoFarThere, DealtWith
<1> QED
  BY <1>0, <1>4, <1>5, <1>6 DEF SoFarThere

\* A machine is changed for its own entry only, and destroyed without a word changed.
LEMMA MutateSoFar ==
  ASSUME OneMachineOfAName, SoloInv, TypeOK', NEW a \in Applier, Solo(a), Mutate(a)
  PROVE  SoFarThere(a)'
<1> DEFINE t == target[a]
<1>0. /\ TypeOK /\ mode' = mode /\ pc[a] = "mutate" /\ pc'[a] = "release" /\ pending' = pending
      /\ entry' = entry /\ purpose' = purpose /\ t \in Id /\ t # 0 /\ AtAMachine(a)
  BY DEF SoloInv, MachineInv, Knows, Mutate, Goto, plan, TypeOK, Ids
<1>1. purpose[a] \in {"update", "destroy"}
  BY <1>0 DEF AtAMachine
<1>2. CASE live' = live /\ (purpose[a] = "destroy" \/ verdict'[a] = "failed")
  <2>1. DealtWith(a)' \subseteq DealtWith(a)
    BY <1>0, <1>2, LessIsDealtWith DEF Owing
  <2> QED
    BY <1>0, <1>2, <2>1, SoFarKept, ThereUnchanged
<1>3. CASE /\ purpose[a] = "destroy"
           /\ live' = [live EXCEPT ![t].state = "destroying"]
  <2>1. DealtWith(a)' \subseteq DealtWith(a)
    BY <1>0, <1>3, LessIsDealtWith DEF Owing
  <2>2. ASSUME NEW f \in Entry, There(f) PROVE There(f)'
    <3>1. live[t] \in Resource
      BY <1>0 DEF TypeOK
    <3>2. ASSUME NEW j \in Id
          PROVE  /\ live'[j].kind = live[j].kind /\ live'[j].name = live[j].name
                 /\ live'[j].config = live[j].config
      BY <1>0, <1>3, <3>1 DEF TypeOK, Resource
    <3> QED
      BY <2>2, <3>2, ThereKept DEF Found
  <2> QED
    BY <1>0, <2>1, <2>2, SoFarKept
<1>4. CASE /\ purpose[a] = "update"
           /\ live' = [live EXCEPT ![t] = [Created(entry[a], TRUE) EXCEPT !.version = live[t].version + 1]]
  <2>1. PICK e \in Plan[a] : e = entry[a] /\ e.kind = "machine"
    BY <1>0, <1>4 DEF Solo, AtItsEntry, AtAMachine
  <2>2. t \in Found("machine", e.name) /\ e \in Entry
    BY <1>0, <1>4, <2>1, PlanType DEF Solo, AtItsEntry
  <2>3. /\ live'[t].kind = "machine" /\ live'[t].name = e.name /\ live'[t].config = e.config
        /\ \A j \in Id \ {t} : live'[j] = live[j]
    BY <1>0, <1>4, <2>1 DEF Created, TypeOK
  <2>4. There(e)'
    BY <1>0, <2>1, <2>3 DEF There, Found
  <2>5. DealtWith(a)' \subseteq DealtWith(a) \cup {e}
    BY <1>0, <2>1 DEF DealtWith
  <2>6. ASSUME NEW f \in DealtWith(a), mode[a] # "delete", f # e PROVE There(f)'
    <3>1. There(f) /\ f \in Entry /\ f \in Plan[a]
      BY <2>6, PlanType DEF Solo, SoFarThere, DealtWith
    <3>2. f.kind = "machine" => f.name # e.name
      BY <2>1, <2>6, <3>1 DEF OneMachineOfAName
    <3>3. ASSUME NEW j \in Found(f.kind, f.name) PROVE live'[j] = live[j]
      BY <2>2, <2>3, <3>2 DEF Found
    <3> QED
      BY <3>1, <3>3, ThereKept
  <2> QED
    BY <1>0, <2>4, <2>5, <2>6 DEF SoFarThere
<1>5. \/ live' = live /\ (purpose[a] = "destroy" \/ verdict'[a] = "failed")
      \/ purpose[a] = "destroy" /\ live' = [live EXCEPT ![t].state = "destroying"]
      \/ /\ purpose[a] = "update"
         /\ live' = [live EXCEPT ![t] = [Created(entry[a], TRUE) EXCEPT !.version = live[t].version + 1]]
  <2>1. CASE purpose[a] = "destroy"
    BY <2>1 DEF Mutate
  <2>2. CASE purpose[a] = "update"
    <3> DEFINE done == live[t] # Absent /\ live[t].state # "destroying" /\ MountsExist(live[t].name)
    <3>1. CASE done
      BY <2>2, <3>1 DEF Mutate
    <3>2. CASE ~done
      <4>1. live' = live /\ verdict' = [verdict EXCEPT ![a] = "failed"]
        BY <2>2, <3>2 DEF Mutate
      <4> QED
        BY <1>0, <4>1 DEF TypeOK
    <3> QED
      BY <3>1, <3>2
  <2> QED
    BY <1>1, <2>1, <2>2
<1> QED
  BY <1>2, <1>3, <1>4, <1>5

\* What is deleted in a prune is declared by nothing.
LEMMA PruneSoFar ==
  ASSUME SoloInv, NEW a \in Applier, Solo(a), Prune(a)
  PROVE  SoFarThere(a)'
<1>0. TypeOK /\ mode' = mode /\ pc[a] = "prune" /\ pending' = pending /\ entry' = entry
  BY DEF SoloInv, MachineInv, Prune, Goto, plan
<1>1. DealtWith(a)' \subseteq DealtWith(a)
  <2>1. ~Owing(a)
    BY <1>0 DEF Owing, TypeOK
  <2> QED
    BY <1>0, <2>1, LessIsDealtWith
<1>2. CASE live' = live
  BY <1>0, <1>1, <1>2, SoFarKept, ThereUnchanged
<1>3. ASSUME NEW i \in seen[a], live' = [live EXCEPT ![i] = Absent]
      PROVE  SoFarThere(a)'
  <2>1. i \in Id /\ Undeclared(a, i)
    BY <1>0 DEF Solo, PrunesInTurn, Doomed, TypeOK
  <2>2. ASSUME NEW f \in Entry, f \in DealtWith(a), There(f) PROVE There(f)'
    <3>1. ASSUME NEW j \in Found(f.kind, f.name) PROVE live'[j] = live[j]
      <4>1. j # i /\ j \in Id
        BY <2>1, <2>2, <3>1 DEF Undeclared, DealtWith, Found
      <4> QED
        BY <1>0, <1>3, <4>1 DEF TypeOK
    <3> QED
      BY <2>2, <3>1, ThereKept
  <2> QED
    BY <1>0, <1>1, <2>2, SoFarKept
<1> QED
  BY <1>2, <1>3 DEF Prune, server

LEMMA SoFarGoes ==
  ASSUME OneMachineOfAName, SoloInv, TypeOK', NEW a \in Applier, Solo(a), Goes(a), alone'[a]
  PROVE  SoFarThere(a)'
<1>0. TypeOK
  BY DEF SoloInv, MachineInv
<1>1. ASSUME live' = live, mode'[a] = mode[a], pending'[a] = pending[a],
             Owing(a) => Owing(a)' /\ entry'[a] = entry[a]
      PROVE  SoFarThere(a)'
  BY <1>0, <1>1, LessIsDealtWith, SoFarKept, ThereUnchanged
<1>2. CASE GetApp(a) \/ CreateApp(a)
  BY <1>0, <1>1, <1>2 DEF GetApp, CreateApp, Goto, Owing, plan, server, TypeOK
<1>3. CASE FindDoomed(a)
  BY <1>3 DEF FindDoomed, SoFarThere
<1>4. CASE (Applied(a) /\ ~End(a, "ok")) \/ (ListToPrune(a) /\ kinds[a] # 0)
  BY <1>0, <1>1, <1>4 DEF Applied, ListToPrune, Goto, Owing, server, TypeOK
<1>5. CASE Acquire(a)
  BY <1>0, <1>1, <1>5 DEF Acquire, Goto, Owing, plan, job, TypeOK
<1>6. CASE (AcquireRefused(a) \/ LeaseLost(a)) /\ ~GiveUp(a)
  BY <1>0, <1>1, <1>6 DEF AcquireRefused, LeaseLost, Goto, Owing, plan, job, server, TypeOK
<1>7. CASE (Release(a) \/ ReleaseLost(a)) /\ verdict[a] # "failed"
  BY <1>0, <1>1, <1>7 DEF Release, ReleaseLost, AfterRelease, Owing, plan, job, TypeOK
<1>8. CASE Waited(a)
  BY <1>0, <1>1, <1>8 DEF Waited, Goto, Owing, server, TypeOK
<1>9. CASE GivesUp(a)
  BY <1>0, <1>1, <1>9 DEF GivesUp, Owing, plan, job, TypeOK
<1> QED
  BY <1>0, <1>2, <1>3, <1>4, <1>5, <1>6, <1>7, <1>8, <1>9, HowItGoes, InspectSoFar, SetSecretSoFar,
     CreateSoFar, MutateSoFar, PruneSoFar

\* The machine a run goes to is the one its entry declares, and stays that.
LEMMA EntryGoes ==
  ASSUME SoloInv, TypeOK', NEW a \in Applier, Solo(a), Goes(a), alone'[a]
  PROVE  AtItsEntry(a)'
<1>0. TypeOK /\ AtItsEntry(a) /\ AtAMachine(a)
  BY DEF SoloInv, MachineInv, Knows, Solo
<1>a. /\ pc = [b \in Applier |-> pc[b]] /\ target = [b \in Applier |-> target[b]]
          /\ purpose = [b \in Applier |-> purpose[b]]
  BY <1>0 DEF TypeOK
<1>b. pc[a] \in {"next", "list", "prune"} => target[a] = 0
  BY <1>0 DEF TypeOK
<1>1. CASE pc'[a] # "create" /\ (target'[a] = 0 \/ purpose'[a] # "update")
  BY <1>1 DEF AtItsEntry
<1>2. ASSUME live' = live, UNCHANGED <<entry, target, purpose>>, pc'[a] # "create"
      PROVE  AtItsEntry(a)'
  BY <1>0, <1>2 DEF AtItsEntry, Found
<1>3. CASE Inspect(a)
  <2>1. PICK e \in Turn(a) :
          \/ /\ Goto(a, "next", "create")
             /\ entry' = [entry EXCEPT ![a] = e]
             /\ target' = target
          \/ /\ Goto(a, "next", "acquire")
             /\ entry' = [entry EXCEPT ![a] = e]
             /\ \E i \in Found("machine", e.name) : target' = [target EXCEPT ![a] = i]
          \/ Goto(a, "next", "next") /\ target' = target
    BY <1>3 DEF Inspect
  <2>2. live' = live /\ e \in Plan[a] /\ target[a] = 0
    BY <1>0, <1>3, <2>1 DEF Inspect, Goto, Turn, server, TypeOK
  <2>3. CASE Goto(a, "next", "create") /\ entry' = [entry EXCEPT ![a] = e] /\ target' = target
    BY <1>0, <2>2, <2>3 DEF AtItsEntry, TypeOK
  <2>4. ASSUME NEW i \in Found("machine", e.name), Goto(a, "next", "acquire"),
               entry' = [entry EXCEPT ![a] = e], target' = [target EXCEPT ![a] = i]
        PROVE  AtItsEntry(a)'
    <3>1. entry'[a] = e /\ target'[a] = i /\ pc'[a] = "acquire"
      BY <1>0, <2>4 DEF Goto, TypeOK
    <3> QED
      BY <2>2, <2>4, <3>1 DEF AtItsEntry, Found
  <2>5. CASE Goto(a, "next", "next") /\ target' = target
    BY <1>0, <1>1, <2>2, <2>5 DEF Goto, TypeOK
  <2> QED
    BY <2>1, <2>3, <2>4, <2>5
<1>4. CASE Create(a)
  <2>1. pc[a] = "create" /\ pc'[a] \in {"wait", "next"}
    BY <1>0, <1>4 DEF Create, Goto, TypeOK
  <2>2. CASE entry[a].kind # "machine"
    BY <1>1, <1>0, <1>4, <2>1, <2>2 DEF Create, TypeOK
  <2>3. CASE entry[a].kind = "machine"
    <3>1. PICK i \in Unused :
            /\ live' = [live EXCEPT ![i] = Created(entry[a], TRUE)]
            /\ target' = [target EXCEPT ![a] = i]
      BY <1>4, <2>3 DEF Create
    <3>2. /\ target'[a] = i /\ i \in Id /\ live'[i] = Created(entry[a], TRUE)
          /\ entry'[a] = entry[a]
      BY <1>0, <1>4, <2>3, <3>1, UnusedIds DEF Create, TypeOK
    <3>3. live'[i].kind = "machine" /\ live'[i].name = entry[a].name
      BY <2>3, <3>2 DEF Created
    <3> QED
      BY <1>0, <2>1, <3>2, <3>3 DEF AtItsEntry, Found
  <2> QED
    BY <2>2, <2>3
<1>5. CASE GetApp(a) \/ CreateApp(a) \/ SetSecret(a)
  <2>1. /\ pc[a] \in {"app", "appCreate", "next"} /\ target' = target
        /\ \E to \in {"next", "appCreate"} : pc' = [pc EXCEPT ![a] = to]
    BY <1>5 DEF GetApp, CreateApp, SetSecret, Goto, job
  <2> QED
    BY <1>0, <1>1, <2>1 DEF TypeOK
<1>6. CASE FindDoomed(a)
  <2>1. /\ pc[a] = "next" /\ \E to \in {"next", "acquire"} : pc' = [pc EXCEPT ![a] = to]
        /\ target' = target \/ purpose' = [purpose EXCEPT ![a] = "destroy"]
    BY <1>6 DEF FindDoomed, Goto
  <2>2. target[a] = 0 /\ pc'[a] # "create" /\ (target'[a] = 0 \/ purpose'[a] = "destroy")
    BY <1>a, <1>b, <2>1
  <2> QED
    BY <1>1, <2>2
<1>7. CASE (Applied(a) /\ ~End(a, "ok")) \/ (ListToPrune(a) /\ kinds[a] # 0)
  <2>1. /\ pc[a] \in {"next", "list"} /\ \E to \in {"list", "prune"} : pc' = [pc EXCEPT ![a] = to]
        /\ target' = target
    BY <1>7 DEF Applied, ListToPrune, Goto, job
  <2>2. target'[a] = 0 /\ pc'[a] # "create"
    BY <1>a, <1>b, <2>1
  <2> QED
    BY <1>1, <2>2
<1>8. CASE Prune(a)
  <2>1. /\ pc[a] = "prune" /\ \E to \in {"list", "prune", "acquire"} : pc' = [pc EXCEPT ![a] = to]
        /\ target' = target \/ purpose' = [purpose EXCEPT ![a] = "destroy"]
    BY <1>8 DEF Prune, Goto, job
  <2>2. target[a] = 0 /\ pc'[a] # "create" /\ (target'[a] = 0 \/ purpose'[a] = "destroy")
    BY <1>a, <1>b, <2>1
  <2> QED
    BY <1>1, <2>2
<1>9. CASE Acquire(a)
  BY <1>0, <1>2, <1>9 DEF Acquire, Goto, plan, job, TypeOK
<1>10. CASE Mutate(a)
  <2>1. /\ pc'[a] = "release" /\ target'[a] = target[a] /\ purpose'[a] = purpose[a]
        /\ entry'[a] = entry[a] /\ target[a] \in Id
    BY <1>0, <1>10 DEF Mutate, Goto, plan, TypeOK, Ids
  <2> SUFFICES ASSUME purpose[a] = "update", target[a] # 0
               PROVE  entry[a] \in Plan[a] /\ target[a] \in Found("machine", entry[a].name)'
    BY <2>1 DEF AtItsEntry, Found
  <2>2. /\ target[a] \in Found("machine", entry[a].name) /\ entry[a] \in Plan[a]
        /\ entry[a].kind = "machine"
    BY <1>0 DEF AtItsEntry, AtAMachine
  <2>3. \/ live' = live
        \/ live' = [live EXCEPT ![target[a]] =
                      [Created(entry[a], TRUE) EXCEPT !.version = live[target[a]].version + 1]]
    BY <1>10 DEF Mutate
  <2>4. live'[target[a]].kind = "machine" /\ live'[target[a]].name = entry[a].name
    BY <1>0, <2>1, <2>2, <2>3 DEF Created, Found, TypeOK
  <2> QED
    BY <2>1, <2>2, <2>4 DEF Found
<1>11. CASE (AcquireRefused(a) \/ LeaseLost(a)) /\ ~GiveUp(a)
  BY <1>0, <1>2, <1>11 DEF AcquireRefused, LeaseLost, Goto, plan, job, server, TypeOK
<1>12. CASE (Release(a) \/ ReleaseLost(a)) /\ verdict[a] # "failed"
  BY <1>0, <1>2, <1>12 DEF Release, ReleaseLost, AfterRelease, plan, job, TypeOK
<1>13. CASE Waited(a)
  BY <1>0, <1>1, <1>13 DEF Waited, Goto, TypeOK
<1>14. CASE GivesUp(a)
  BY <1>0, <1>2, <1>14 DEF GivesUp, plan, job, TypeOK
<1> QED
  BY <1>0, <1>3, <1>4, <1>5, <1>6, <1>7, <1>8, <1>9, <1>10, <1>11, <1>12, <1>13, <1>14, HowItGoes

\* A resource goes, a machine ages: neither makes anything prunable or declared.
Fades(i) == \/ live'[i] = live[i]
            \/ live'[i] = Absent
            \/ /\ live'[i].kind = live[i].kind /\ live'[i].name = live[i].name
               /\ live'[i].owned = live[i].owned
               /\ live[i].state = "destroying" => live'[i].state = "destroying"

LEMMA FadingPrunes ==
  ASSUME \A i \in Id : Fades(i), NEW a \in Applier
  PROVE  /\ \A k \in Kind : Prunable(a, k)' \subseteq Prunable(a, k)
         /\ \A i \in Id : Undeclared(a, i) => Undeclared(a, i)'
<1>1. ASSUME NEW k \in Kind, NEW i \in Prunable(a, k)' PROVE i \in Prunable(a, k)
  <2>1. i \in Id /\ Fades(i) /\ live'[i].kind = k /\ live'[i] # Absent
    BY <1>1 DEF Prunable, Kind, Absent
  <2> QED
    BY <1>1, <2>1 DEF Prunable, Fades, Keep
<1>2. ASSUME NEW i \in Id, Undeclared(a, i) PROVE Undeclared(a, i)'
  <2>1. ASSUME NEW e \in Plan[a], i \in Found(e.kind, e.name)' PROVE FALSE
    <3>1. Fades(i) /\ live'[i].kind = e.kind /\ live'[i].name = e.name /\ e.kind \in Kind
      BY <2>1, PlanType DEF Found, Entry
    <3>2. live'[i] # Absent
      BY <3>1 DEF Absent, Kind
    <3> QED
      BY <1>2, <3>1, <3>2 DEF Fades, Undeclared, Found
  <2> QED
    BY <2>1 DEF Undeclared
<1> QED
  BY <1>1, <1>2

LEMMA KindInOrder == \A n \in 1..5 : PruneOrder[n] \in Kind
<1> SUFFICES ASSUME NEW n \in 1..5 PROVE PruneOrder[n] \in Kind
  OBVIOUS
<1>1. n = 1 \/ n = 2 \/ n = 3 \/ n = 4 \/ n = 5
  OBVIOUS
<1> QED
  BY <1>1 DEF PruneOrder, Kind

\* A prune goes on with what is prunable still.
LEMMA PrunesOn ==
  ASSUME TypeOK, NEW a \in Applier, PrunesInTurn(a), Pruning(a), \A i \in Id : Fades(i),
         mode'[a] = mode[a], pending'[a] = pending[a], kinds'[a] = kinds[a],
         Doomed(a)' \cap Id \subseteq Doomed(a),
         \A k \in Kind : Prunable(a, k)' \cap Doomed(a) \subseteq Doomed(a)'
  PROVE  PrunesInTurn(a)'
<1>1. /\ mode'[a] = "prune" /\ pending'[a] = {}
      /\ \A i \in Doomed(a)' \cap Id : Undeclared(a, i)'
  BY FadingPrunes DEF PrunesInTurn
<1>2. ASSUME NEW n \in 1..5, n > kinds'[a]
      PROVE  Prunable(a, PruneOrder[n])' \subseteq IF n = kinds'[a] + 1 THEN Doomed(a)' ELSE {}
  <2>1. PICK k \in Kind : k = PruneOrder[n]
    BY KindInOrder
  <2>2. Prunable(a, k)' \subseteq Prunable(a, k) /\ Prunable(a, k)' \cap Doomed(a) \subseteq Doomed(a)'
    BY FadingPrunes
  <2>3. Prunable(a, k) \subseteq IF n = kinds[a] + 1 THEN Doomed(a) ELSE {}
    BY <1>2, <2>1 DEF PrunesInTurn
  <2>4. Prunable(a, k)' \subseteq IF n = kinds'[a] + 1 THEN Doomed(a)' ELSE {}
    BY <2>2, <2>3
  <2> QED
    BY <2>1, <2>4
<1> QED
  BY <1>1, <1>2 DEF PrunesInTurn

\* A machine that is changed under its lease keeps its name, and one that is to be
\* destroyed is only marked.
LEMMA MutateFades ==
  ASSUME TypeOK, NEW a \in Applier, Mutate(a), purpose[a] = "destroy", NEW i \in Id
  PROVE  Fades(i)
<1>1. live[i] \in Resource /\ target[a] \in Id
  BY DEF Mutate, Goto, TypeOK, Ids
<1>2. live' = live \/ live' = [live EXCEPT ![target[a]].state = "destroying"]
  BY DEF Mutate
<1> QED
  BY <1>1, <1>2 DEF Fades, TypeOK, Resource

\* Nothing a listing says to prune is declared.
LEMMA PrunableUndeclared ==
  ASSUME NEW a \in Applier, NEW k \in Kind, NEW i \in Prunable(a, k)
  PROVE  Undeclared(a, i)
BY DEF Prunable, Undeclared, Found, Keep

\* Once everything declared is there, the kinds are pruned one after the other.
LEMMA PruneStepInTurn ==
  ASSUME SoloInv, TypeOK', NEW a \in Applier, Solo(a), alone'[a],
         \/ Applied(a) /\ ~End(a, "ok")
         \/ ListToPrune(a) /\ kinds[a] # 0
         \/ Prune(a)
  PROVE  PrunesInTurn(a)'
<1>0. TypeOK /\ PrunesInTurn(a) /\ target[a] = 0 /\ 0 \notin Id /\ (kinds[a] = 5 => pc[a] = "list")
  BY IdType DEF SoloInv, MachineInv, Knows, SeenIsPrunable, Solo, Applied, ListToPrune, Prune, Goto, TypeOK
<1>1. CASE Applied(a) /\ ~End(a, "ok")
  <2>1. /\ pc'[a] = "list" /\ mode'[a] = "prune" /\ pending'[a] = {} /\ kinds'[a] = 5 /\ target'[a] = 0
    BY <1>0, <1>1, FiveKinds DEF Applied, Goto, job, TypeOK
  <2> QED
    BY <2>1 DEF PrunesInTurn, Pruning, Destroys, Doomed
<1>2. CASE ListToPrune(a) /\ kinds[a] # 0
  <2>1. /\ pc[a] = "list" /\ pc'[a] = "prune" /\ target'[a] = 0 /\ live' = live
        /\ mode'[a] = mode[a] /\ pending'[a] = pending[a] /\ kinds'[a] = kinds[a] - 1
        /\ kinds[a] \in 1..5 /\ seen'[a] = Prunable(a, PruneOrder[kinds[a]])
    BY <1>0, <1>2, FiveKinds DEF ListToPrune, Goto, job, server, TypeOK
  <2>2. /\ mode[a] = "prune" /\ pending[a] = {} /\ Doomed(a) = {}
        /\ \A n \in 1..5 : n > kinds[a] => Prunable(a, PruneOrder[n]) = {}
    BY <1>0, <2>1 DEF PrunesInTurn, Pruning, Doomed, Destroys
  <2>3. PICK k \in Kind : k = PruneOrder[kinds[a]]
    BY <2>1, KindInOrder
  <2>4. Doomed(a)' = Prunable(a, k) \cup {0}
    BY <2>1, <2>3 DEF Doomed
  <2>5. \A m : Prunable(a, m)' = Prunable(a, m)
    BY <2>1 DEF Prunable, Keep
  <2>6. ASSUME NEW n \in 1..5, n > kinds'[a]
        PROVE  Prunable(a, PruneOrder[n])' \subseteq IF n = kinds'[a] + 1 THEN Doomed(a)' ELSE {}
    <3>1. Prunable(a, PruneOrder[n])' = Prunable(a, PruneOrder[n])
      BY <2>5
    <3>2. CASE n = kinds[a]
      BY <2>1, <2>3, <2>4, <3>1, <3>2
    <3>3. CASE n # kinds[a]
      BY <2>1, <2>2, <2>6, <3>1, <3>3
    <3> QED
      BY <3>2, <3>3
  <2>7. ASSUME NEW i \in Doomed(a)' \cap Id PROVE Undeclared(a, i)'
    <3>1. Undeclared(a, i)
      BY <1>0, <2>4, <2>7, PrunableUndeclared
    <3> QED
      BY <2>1, <3>1 DEF Undeclared, Found
  <2> QED
    BY <2>1, <2>2, <2>6, <2>7 DEF PrunesInTurn
<1>3. CASE Prune(a)
  <2>0. Pruning(a) /\ Doomed(a) = seen[a] \cup {0} /\ pc[a] = "prune"
    BY <1>0, <1>3 DEF Prune, Goto, Pruning, Doomed
  <2>1. CASE seen[a] = {} /\ Goto(a, "prune", "list") /\ UNCHANGED <<server, mode, plan, job>>
    <3>1. Doomed(a)' = {} /\ \A i \in Id : Fades(i)
      BY <1>0, <2>1 DEF Doomed, Destroys, Goto, job, server, Fades, TypeOK
    <3>2. \A k : Prunable(a, k)' \cap Doomed(a) = {}
      <4>1. \A k : Prunable(a, k)' \subseteq Id
        BY DEF Prunable
      <4> QED
        BY <1>0, <2>0, <2>1, <4>1
    <3> QED
      BY <1>0, <2>0, <2>1, <3>1, <3>2, PrunesOn DEF plan
  <2>2. ASSUME NEW i \in seen[a],
               seen' = [seen EXCEPT ![a] = @ \ {i}],
               Goto(a, "prune", "prune"),
               live' = [live EXCEPT ![i] = Absent],
               UNCHANGED <<target, purpose, mode, pending, kinds>>
        PROVE  PrunesInTurn(a)'
    <3>1. Doomed(a)' = (seen[a] \ {i}) \cup {0} /\ i \in Id
      BY <1>0, <2>2 DEF Doomed, Goto, TypeOK
    <3>2. \A j \in Id : Fades(j) /\ live'[i] = Absent
      BY <1>0, <2>2, <3>1 DEF Fades, TypeOK
    <3>3. \A k \in Kind : i \notin Prunable(a, k)'
      BY <3>1, <3>2 DEF Prunable, Absent, Kind
    <3> QED
      BY <1>0, <2>0, <2>2, <3>1, <3>2, <3>3, PrunesOn
  <2>3. ASSUME NEW i \in seen[a],
               seen' = [seen EXCEPT ![a] = @ \ {i}],
               Goto(a, "prune", "acquire"),
               target' = [target EXCEPT ![a] = i],
               purpose' = [purpose EXCEPT ![a] = "destroy"],
               UNCHANGED <<live, mode, pending, kinds>>
        PROVE  PrunesInTurn(a)'
    <3>1. mode[a] = "prune"
      BY <1>0, <2>0 DEF PrunesInTurn
    <3>2. i \in Id /\ i # 0 /\ target'[a] = i /\ purpose'[a] = "destroy" /\ pc'[a] = "acquire"
      BY <1>0, <2>3 DEF Goto, TypeOK
    <3>3. Doomed(a)' = seen[a]
      BY <1>0, <2>3, <3>1, <3>2 DEF Doomed, Destroys, TypeOK
    <3>4. \A j \in Id : Fades(j)
      BY <2>3 DEF Fades
    <3>5. \A k : Prunable(a, k)' \subseteq Id
      BY DEF Prunable
    <3> QED
      BY <1>0, <2>0, <2>3, <3>3, <3>4, <3>5, PrunesOn
  <2> QED
    BY <1>3, <2>1, <2>2, <2>3 DEF Prune
<1> QED
  BY <1>1, <1>2, <1>3

\* The machine a prune destroys is destroyed before the prune goes on.
LEMMA LeaseStepInTurn ==
  ASSUME SoloInv, TypeOK', NEW a \in Applier, Solo(a), alone'[a],
         \/ Acquire(a) \/ Mutate(a) \/ Waited(a) \/ GivesUp(a)
         \/ (AcquireRefused(a) \/ LeaseLost(a)) /\ ~GiveUp(a)
         \/ (Release(a) \/ ReleaseLost(a)) /\ verdict[a] # "failed"
  PROVE  PrunesInTurn(a)'
<1>0. TypeOK /\ PrunesInTurn(a)
  BY DEF SoloInv, MachineInv, Solo
<1>1. CASE Waited(a)
  <2>1. /\ pc[a] = "wait" /\ target'[a] = 0 /\ live' = live /\ target[a] \in Id /\ target[a] # 0 /\ 0 \notin Id
        /\ mode'[a] = mode[a] /\ pending'[a] = pending[a] /\ kinds'[a] = kinds[a] /\ seen'[a] = seen[a]
        /\ pc'[a] = IF purpose[a] = "destroy" /\ mode[a] = "prune" THEN "prune" ELSE "next"
    BY <1>0, <1>1, IdType DEF Waited, Goto, server, TypeOK, Ids
  <2>2. CASE ~Destroys(a)
    BY <2>1, <2>2 DEF PrunesInTurn, Pruning, Doomed, Destroys
  <2>3. CASE Destroys(a)
    <3>1. /\ Pruning(a) /\ live[target[a]] = Absent
          /\ Doomed(a) = seen[a] \cup {target[a]} /\ Doomed(a)' = seen[a] \cup {0}
      BY <1>0, <1>1, <2>1, <2>3 DEF Waited, Settled, PrunesInTurn, Pruning, Doomed, Destroys
    <3>2. \A i \in Id : Fades(i)
      BY <2>1 DEF Fades
    <3>3. \A k \in Kind : target[a] \notin Prunable(a, k)'
      BY <2>1, <3>1 DEF Prunable, Absent, Kind
    <3> QED
      BY <1>0, <2>1, <3>1, <3>2, <3>3, PrunesOn
  <2> QED
    BY <2>2, <2>3
<1>2. ASSUME /\ pc[a] \in {"acquire", "mutate", "release"} /\ pc'[a] \in {"acquire", "mutate", "release", "wait"}
             /\ UNCHANGED <<mode, pending, kinds, seen, target, purpose>>,
             purpose[a] = "destroy" => \A i \in Id : Fades(i)
      PROVE  PrunesInTurn(a)'
  <2>1. CASE ~Destroys(a)
    BY <1>2, <2>1 DEF PrunesInTurn, Pruning, Doomed, Destroys
  <2>2. CASE Destroys(a)
    <3>1. Pruning(a) /\ Doomed(a)' = Doomed(a) /\ \A i \in Id : Fades(i)
      BY <1>2, <2>2 DEF Pruning, Doomed, Destroys
    <3> QED
      BY <1>0, <1>2, <3>1, PrunesOn
  <2> QED
    BY <2>1, <2>2
<1>3. live' = live => \A i \in Id : Fades(i)
  BY DEF Fades
<1>4. CASE Acquire(a)
  BY <1>0, <1>2, <1>3, <1>4 DEF Acquire, Goto, plan, job, TypeOK
<1>5. CASE Mutate(a)
  <2>1. purpose[a] = "destroy" => \A i \in Id : Fades(i)
    BY <1>0, <1>5, MutateFades
  <2> QED
    BY <1>0, <1>2, <1>5, <2>1 DEF Mutate, Goto, plan, TypeOK
<1>6. CASE (AcquireRefused(a) \/ LeaseLost(a)) /\ ~GiveUp(a)
  BY <1>0, <1>2, <1>3, <1>6 DEF AcquireRefused, LeaseLost, Goto, plan, job, server, TypeOK
<1>7. CASE (Release(a) \/ ReleaseLost(a)) /\ verdict[a] # "failed"
  BY <1>0, <1>2, <1>3, <1>7 DEF Release, ReleaseLost, AfterRelease, plan, job, TypeOK
<1>8. CASE GivesUp(a)
  BY <1>0, <1>2, <1>3, <1>8 DEF GivesUp, plan, job, TypeOK
<1> QED
  BY <1>1, <1>4, <1>5, <1>6, <1>7, <1>8

LEMMA InTurnGoes ==
  ASSUME SoloInv, TypeOK', NEW a \in Applier, Solo(a), Goes(a), alone'[a]
  PROVE  PrunesInTurn(a)'
<1>0. TypeOK
  BY DEF SoloInv, MachineInv
<1>a. /\ pc = [b \in Applier |-> pc[b]] /\ target = [b \in Applier |-> target[b]]
      /\ purpose = [b \in Applier |-> purpose[b]]
  BY <1>0 DEF TypeOK
<1>b. pc[a] \in {"app", "appCreate", "next"} => target[a] = 0
  BY <1>0 DEF TypeOK
<1>1. ASSUME pc'[a] \notin {"list", "prune"},
             target'[a] = 0 \/ purpose'[a] # "destroy" \/ mode'[a] = "delete"
      PROVE  PrunesInTurn(a)'
  BY <1>1 DEF PrunesInTurn, Pruning, Doomed, Destroys
<1>2. CASE GetApp(a) \/ CreateApp(a) \/ SetSecret(a)
  <2>1. /\ pc[a] \in {"app", "appCreate", "next"} /\ target' = target
        /\ \E to \in {"next", "appCreate"} : pc' = [pc EXCEPT ![a] = to]
    BY <1>2 DEF GetApp, CreateApp, SetSecret, Goto, job
  <2> QED
    BY <1>a, <1>b, <1>1, <2>1
<1>3. CASE Inspect(a)
  <2>1. /\ pc[a] = "next" /\ \E to \in {"next", "create", "acquire"} : pc' = [pc EXCEPT ![a] = to]
        /\ target' = target \/ purpose' = [purpose EXCEPT ![a] = "update"]
    BY <1>3 DEF Inspect, Goto
  <2> QED
    BY <1>a, <1>b, <1>1, <2>1
<1>4. CASE FindDoomed(a)
  <2>1. mode'[a] = "delete" /\ \E to \in {"next", "acquire"} : pc' = [pc EXCEPT ![a] = to]
    BY <1>4 DEF FindDoomed, Goto
  <2> QED
    BY <1>a, <1>b, <1>1, <2>1
<1>5. CASE Create(a)
  <2>1. /\ \E to \in {"next", "wait"} : pc' = [pc EXCEPT ![a] = to]
        /\ purpose' = [purpose EXCEPT ![a] = IF entry[a].kind = "machine" THEN "update" ELSE "none"]
    BY <1>5 DEF Create, Goto
  <2>2. purpose'[a] # "destroy" /\ pc'[a] \notin {"list", "prune"}
    BY <1>a, <2>1
  <2> QED
    BY <1>1, <2>2
<1> QED
  BY <1>0, <1>2, <1>3, <1>4, <1>5, HowItGoes, PruneStepInTurn, LeaseStepInTurn

\* A run begins with everything to do.
LEMMA BeginSolo ==
  ASSUME SoloInv, TypeOK', NEW a \in Applier, Begin(a), alone'[a]
  PROVE  Solo(a)'
<1>0. TypeOK /\ pc[a] = "idle" /\ target'[a] = 0
  BY DEF SoloInv, MachineInv, Begin, Goto, job, TypeOK
<1>1. PICK m \in Modes[a] :
        /\ pc' = [pc EXCEPT ![a] = IF m = "delete" THEN "next" ELSE "app"]
        /\ mode' = [mode EXCEPT ![a] = m]
        /\ pending' = [pending EXCEPT
              ![a] = {e \in Plan[a] : m = "delete" => e.kind = "machine"}]
        /\ alone' = [b \in Applier |-> b = a /\ \A c \in Applier \ {a} : pc[c] = "idle"]
  BY DEF Begin, Goto
<1>2. pc'[a] \in {"next", "app"} /\ mode'[a] = m
  BY <1>0, <1>1 DEF TypeOK
<1>3. Others(a)'
  <2> DEFINE others == \A c \in Applier \ {a} : pc[c] = "idle"
  <2> HIDE DEF others
  <2>1. others
    BY <1>1 DEF others
  <2> QED
    BY <1>0, <1>1, <2>1 DEF others, Others, TypeOK
<1>4. SoFarThere(a)'
  <2> SUFFICES ASSUME m # "delete" PROVE DealtWith(a)' = {}
    BY <1>2 DEF SoFarThere
  <2>1. pending'[a] = Plan[a]
    BY <1>0, <1>1 DEF TypeOK
  <2> QED
    BY <2>1 DEF DealtWith
<1>5. AtItsEntry(a)' /\ PrunesInTurn(a)'
  BY <1>0, <1>2 DEF AtItsEntry, PrunesInTurn, Pruning, Doomed, Destroys
<1> QED
  BY <1>3, <1>4, <1>5 DEF Solo

\* What the server does of itself.
LEMMA ServerSolo ==
  ASSUME SoloInv, NEW a \in Applier, Solo(a), NEW i \in Id,
         \/ MachineStarts(i) \/ LeaseExpires(i)
         \/ MachineReaped(i) /\ target[a] = i /\ purpose[a] = "destroy"
  PROVE  SoFarThere(a)' /\ AtItsEntry(a)' /\ PrunesInTurn(a)'
<1>0. TypeOK /\ UNCHANGED <<pc, mode, pending, entry, kinds, seen, target, purpose, verdict>>
  BY DEF SoloInv, MachineInv, MachineStarts, LeaseExpires, MachineReaped, plan, job, lock
<1>1. \A j \in Id : \/ live'[j] = live[j]
                    \/ /\ live[j] \in Resource
                       /\ live'[j] = [live[j] EXCEPT !.state = "started"] /\ live[j].state = "starting"
                    \/ j = target[a] /\ purpose[a] = "destroy" /\ live'[j] = Absent
  <2>1. CASE MachineStarts(i)
    BY <1>0, <2>1 DEF MachineStarts, TypeOK
  <2>2. CASE LeaseExpires(i)
    BY <2>2 DEF LeaseExpires
  <2>3. CASE MachineReaped(i) /\ target[a] = i /\ purpose[a] = "destroy"
    BY <1>0, <2>3 DEF MachineReaped, TypeOK
  <2> QED
    BY <2>1, <2>2, <2>3
<1>2. \A j \in Id : Fades(j)
  BY <1>1 DEF Fades, Resource
<1>3. \A j \in Id : \/ /\ live'[j].kind = live[j].kind /\ live'[j].name = live[j].name
                       /\ live'[j].config = live[j].config
                    \/ j = target[a] /\ purpose[a] = "destroy"
  <2> SUFFICES ASSUME NEW j \in Id, ~(j = target[a] /\ purpose[a] = "destroy")
               PROVE  /\ live'[j].kind = live[j].kind /\ live'[j].name = live[j].name
                      /\ live'[j].config = live[j].config
    OBVIOUS
  <2>1. CASE live'[j] = live[j]
    BY <2>1
  <2>2. CASE live[j] \in Resource /\ live'[j] = [live[j] EXCEPT !.state = "started"]
    BY <2>2 DEF Resource
  <2> QED
    BY <1>1, <2>1, <2>2
<1>4. PrunesInTurn(a)'
  <2>1. Doomed(a)' = Doomed(a) /\ Pruning(a)' = Pruning(a)
    BY <1>0 DEF Doomed, Pruning, Destroys
  <2>2. CASE Pruning(a)
    BY <1>0, <1>2, <2>1, <2>2, PrunesOn DEF Solo
  <2>3. CASE ~Pruning(a)
    <3>1. Doomed(a) = {}
      BY <2>3 DEF Pruning, Doomed
    <3> QED
      BY <2>1, <2>3, <3>1 DEF PrunesInTurn
  <2> QED
    BY <2>2, <2>3
<1>5. SoFarThere(a)'
  <2>1. DealtWith(a)' \subseteq DealtWith(a)
    BY <1>0, LessIsDealtWith DEF Owing
  <2>2. ASSUME mode[a] # "delete", NEW f \in Entry, f \in DealtWith(a), There(f) PROVE There(f)'
    <3>1. ASSUME NEW j \in Found(f.kind, f.name)
          PROVE  /\ live'[j].kind = live[j].kind /\ live'[j].name = live[j].name
                 /\ live'[j].config = live[j].config
      <4>1. j \in Id /\ j # 0
        BY IdType DEF Found
      <4>2. CASE j = target[a] /\ purpose[a] = "destroy"
        <5>1. j \in Doomed(a) \cap Id
          BY <2>2, <4>1, <4>2 DEF Doomed, Destroys
        <5>2. Undeclared(a, j)
          BY <5>1 DEF Solo, PrunesInTurn
        <5> QED
          BY <2>2, <3>1, <5>2 DEF Undeclared, DealtWith
      <4> QED
        BY <1>3, <4>1, <4>2
    <3> QED
      BY <2>2, <3>1, ThereKept
  <2>3. CASE mode[a] = "delete"
    BY <1>0, <2>3 DEF SoFarThere
  <2>4. CASE mode[a] # "delete"
    BY <1>0, <2>1, <2>2, <2>4, SoFarKept
  <2> QED
    BY <2>3, <2>4
<1>6. AtItsEntry(a)'
  <2> SUFFICES ASSUME target[a] # 0, purpose[a] = "update"
               PROVE  target[a] \in Found("machine", entry[a].name)'
    BY <1>0 DEF Solo, AtItsEntry, Found
  <2>1. target[a] \in Found("machine", entry[a].name)
    BY DEF Solo, AtItsEntry
  <2> QED
    BY <1>0, <1>3, <2>1 DEF Found
<1> QED
  BY <1>4, <1>5, <1>6

LEMMA SoloInit == Init => SoloInv
<1> SUFFICES ASSUME Init PROVE SoloInv
  OBVIOUS
<1>1. \A a \in Applier : ~alone[a]
  BY DEF Init
<1> QED
  BY <1>1, MachineInit DEF SoloInv

LEMMA SoloNext == OneMachineOfAName /\ SoloInv /\ [Next]_vars => SoloInv'
<1> SUFFICES ASSUME OneMachineOfAName, SoloInv, [Next]_vars PROVE SoloInv'
  OBVIOUS
<1>1. MachineInv' /\ TypeOK'
  BY MachineNext DEF SoloInv, MachineInv
<1>2. CASE UNCHANGED vars
  <2>1. ASSUME NEW a \in Applier, Solo(a) PROVE Solo(a)'
    BY <1>2, <2>1 DEF vars, server, plan, job, lock, Solo, Others, SoFarThere, DealtWith, Owing, There,
        AtItsEntry, PrunesInTurn, Pruning, Destroys, Doomed, Undeclared, Prunable, Keep, Found
  <2>2. alone' = alone
    BY <1>2 DEF vars
  <2> QED
    BY <1>1, <2>1, <2>2 DEF SoloInv
<1>3. ASSUME Next, NEW a \in Applier, alone'[a] PROVE Solo(a)'
  <2>1. CASE Begin(a)
    BY <1>1, <1>3, <2>1, BeginSolo
  <2>2. CASE alone[a] /\ Solo(a) /\ Others(a)' /\ Goes(a)
    BY <1>1, <1>3, <2>2, SoFarGoes, EntryGoes, InTurnGoes DEF Solo
  <2>3. ASSUME Solo(a), Others(a)', NEW i \in Id,
               \/ MachineStarts(i) \/ LeaseExpires(i)
               \/ MachineReaped(i) /\ target[a] = i /\ purpose[a] = "destroy"
        PROVE  Solo(a)'
    BY <2>3, ServerSolo DEF Solo
  <2> QED
    BY <1>3, <2>1, <2>2, <2>3, WhoActs
<1> QED
  BY <1>1, <1>2, <1>3 DEF SoloInv

\* A run ends well in three ways.
LEMMA EndsWell ==
  ASSUME TypeOK, NEW a \in Applier, Next, outcome[a] = "none", outcome'[a] = "ok"
  PROVE  \/ pc[a] = "next" /\ pending[a] = {} /\ mode[a] = "apply"
         \/ DeleteApp(a)
         \/ pc[a] = "list" /\ kinds[a] = 0
<1>1. ASSUME NEW b \in Applier, NEW r, End(b, r) PROVE b = a /\ r = "ok" /\ pc'[a] = "idle"
  BY <1>1 DEF End, TypeOK
<1>2. \A b \in Applier : outcome' # [outcome EXCEPT ![b] = "none"]
  BY DEF TypeOK
<1>3. \A b \in Applier : ~End(b, "failed") /\ ~End(b, "killed")
  BY <1>1
<1> HIDE DEF End
<1>4. ASSUME NEW b \in Applier, Acts(b)
      PROVE  (Applied(b) \/ DeleteApp(b) \/ ListToPrune(b)) /\ End(b, "ok")
  <2>1. CASE Begin(b) \/ GetApp(b) \/ CreateApp(b) \/ Inspect(b) \/ SetSecret(b) \/ Create(b) \/ FindDoomed(b)
    BY <1>2, <2>1 DEF Begin, GetApp, CreateApp, Inspect, SetSecret, Create, FindDoomed
  <2>2. CASE CreateRefused(b) \/ WaitFails(b) \/ Killed(b)
    BY <1>3, <2>2 DEF CreateRefused, WaitFails, Killed
  <2>3. CASE Applied(b) \/ DeleteApp(b) \/ ListToPrune(b)
    BY <2>3 DEF Applied, DeleteApp, ListToPrune
  <2>4. CASE Prune(b) \/ Acquire(b) \/ Mutate(b) \/ Waited(b)
    BY <2>4 DEF Prune, Acquire, Mutate, Waited
  <2>5. CASE AcquireRefused(b) \/ LeaseLost(b) \/ Throws(b)
    BY <1>3, <2>5 DEF AcquireRefused, LeaseLost, Throws, GiveUp
  <2>6. CASE Release(b) \/ ReleaseLost(b)
    BY <1>3, <2>6 DEF Release, ReleaseLost, AfterRelease
  <2> QED
    BY <1>4, <2>1, <2>2, <2>3, <2>4, <2>5, <2>6 DEF Acts, Step
<1>5. ~Environment
  BY DEF Environment, MachineStarts, MachineReaped, LeaseExpires, CreatedOutside
<1>6. /\ Applied(a) \/ DeleteApp(a) \/ ListToPrune(a)
      /\ pc'[a] = "idle"
  BY <1>1, <1>4, <1>5 DEF Next, Acts, Environment
<1>7. CASE Applied(a)
  <2>1. ~Goto(a, "next", "list")
    BY <1>6 DEF Goto, TypeOK
  <2> QED
    BY <1>7, <2>1 DEF Applied
<1>8. CASE ListToPrune(a)
  <2>1. ~Goto(a, "list", "prune")
    BY <1>6 DEF Goto, TypeOK
  <2> QED
    BY <1>8, <2>1 DEF ListToPrune
<1> QED
  BY <1>6, <1>7, <1>8

\* A run that succeeds with nobody else at work has brought the app to what its plan
\* says, whatever earlier runs, leases that lapsed and machines still starting left
\* behind; after a prune nothing of its own is over.
THEOREM Converges == ASSUME OneMachineOfAName PROVE Spec => AppliedMeansConverged
<1> DEFINE Converged ==
             \A a \in Applier :
               outcome[a] = "none" /\ outcome'[a] = "ok" /\ alone[a] =>
                 /\ mode[a] # "delete" => AllThere(a)
                 /\ mode[a] = "prune" => NothingMore(a)
                 /\ mode[a] = "delete" => ~app'
<1>1. SoloInv /\ [Next]_vars => Converged
  <2> SUFFICES ASSUME SoloInv, [Next]_vars, NEW a \in Applier,
                      outcome[a] = "none", outcome'[a] = "ok", alone[a]
               PROVE  /\ mode[a] # "delete" => AllThere(a)
                      /\ mode[a] = "prune" => NothingMore(a)
                      /\ mode[a] = "delete" => ~app'
    OBVIOUS
  <2>0. TypeOK /\ Solo(a) /\ Next
    BY DEF SoloInv, MachineInv, vars
  <2>1. \/ pc[a] = "next" /\ pending[a] = {} /\ mode[a] = "apply"
        \/ DeleteApp(a)
        \/ pc[a] = "list" /\ kinds[a] = 0
    BY <2>0, EndsWell
  <2>2. ASSUME pc[a] \in {"next", "list"}, pending[a] = {}, mode[a] # "delete" PROVE AllThere(a)
    <3>1. ASSUME NEW e \in Plan[a] PROVE \E i \in Found(e.kind, e.name) : Declared(a, i)
      <4>1. e \in DealtWith(a)
        BY <2>0, <2>2 DEF DealtWith, Owing, TypeOK
      <4>2. There(e)
        BY <2>0, <2>2, <4>1 DEF Solo, SoFarThere
      <4> QED
        BY <4>2 DEF There, Declared, Found
    <3> QED
      BY <3>1 DEF AllThere
  <2>3. CASE pc[a] = "next" /\ pending[a] = {} /\ mode[a] = "apply"
    BY <2>2, <2>3
  <2>4. CASE DeleteApp(a)
    BY <2>4 DEF DeleteApp
  <2>5. CASE pc[a] = "list" /\ kinds[a] = 0
    <3>1. /\ mode[a] = "prune" /\ pending[a] = {} /\ Doomed(a) = {}
          /\ \A n \in 1..5 : n > 0 =>
                Prunable(a, PruneOrder[n]) \subseteq IF n = 1 THEN Doomed(a) ELSE {}
      BY <2>0, <2>5 DEF Solo, PrunesInTurn, Pruning, Destroys, Doomed, TypeOK
    <3>2. \A n \in 1..5 : Prunable(a, PruneOrder[n]) = {}
      BY <3>1
    <3>3. ASSUME NEW k \in Kind PROVE \E n \in 1..5 : k = PruneOrder[n]
      <4>1. /\ PruneOrder[1] = "secret" /\ PruneOrder[2] = "cert" /\ PruneOrder[3] = "ip"
            /\ PruneOrder[4] = "volume" /\ PruneOrder[5] = "machine"
        BY DEF PruneOrder
      <4> QED
        BY <4>1 DEF Kind
    <3>4. NothingMore(a)
      BY <3>2, <3>3 DEF NothingMore
    <3> QED
      BY <2>2, <2>5, <3>1, <3>4
  <2> QED
    BY <2>1, <2>3, <2>4, <2>5
<1>2. SoloInv /\ [Next]_vars => [Converged]_vars
  BY <1>1
<1>3. SoloInv /\ [Next]_vars => SoloInv'
  BY SoloNext
<1> QED
  BY <1>2, <1>3, SoloInit, PTL DEF Spec, AppliedMeansConverged
=============================================================================
