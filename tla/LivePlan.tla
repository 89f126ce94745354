------------------------------- MODULE LivePlan -------------------------------
(***************************************************************************)
(* chant lifecycle plan and diff --live (core cli/handlers/lifecycle.ts):  *)
(* what is declared is asked for stack by stack and name by name, while    *)
(* others change the cloud; the answers are merged (observation.ts),       *)
(* compared with the last snapshot (lifecycle/live-diff.ts) and classified *)
(* (lifecycle/change-set.ts).  Snapshots come from lifecycle/snapshot.ts.  *)
(*                                                                         *)
(* A resource is its version and whether it carries chant's marker.  A     *)
(* child is made by the controller of its owner.  A dependency is          *)
(* something declared resources refer to: a snapshot records it, but the   *)
(* live read of a plan or diff does not ask for it.                        *)
(***************************************************************************)
EXTENDS Naturals, FiniteSets, Functions

CONSTANTS
  Managed,     \* names source may declare
  Child,       \* names of runtime children
  Dependency,  \* names of dependencies
  Owner,       \* the owner of a child
  Stack,       \* stacks the project deploys
  StackOf,     \* where a managed resource or a child lives
  MaxVersion,  \* versions of a resource
  MaxChanges   \* edits of source and changes of the cloud, together

ASSUME OwnerType == Owner \in [Child -> Managed] /\ Managed \cap Child = {}
ASSUME StackType == StackOf \in [Managed \cup Child -> Stack]
\* Owner references stay within a namespace.
ASSUME PlaceType == \A n \in Child : StackOf[n] = StackOf[Owner[n]]
ASSUME BoundType == MaxVersion \in Nat \ {0} /\ MaxChanges \in Nat

VARIABLES
  source,      \* names source declares
  cloud,       \* what lives
  changes,     \* changes so far
  snapshot,    \* resources of the last snapshot, or none
  pc,          \* of a plan or diff: idle, reading or reported
  declared,    \* what it has built from source
  todo,        \* which stack it still has to ask for which name
  resources,   \* observedNow
  holes,       \* names some stack was asked for in vain
  then,        \* observedThen
  absent,      \* names that did not live at some moment of its reading
  marked       \* names that lived with the marker at some such moment

world == <<source, cloud, changes>>
reader == <<pc, declared, todo, resources, holes, then, absent, marked>>
vars == <<world, snapshot, reader>>

Name == Managed \cup Child \cup Dependency
Resource == [version : 1..MaxVersion, owned : BOOLEAN]
\* classifyOwnerChain; "none" is unowned or foreign, which are treated alike.
Verdict == {"declared", "none", "unknown"}
\* What is known of a resource, with the verdict on its owner chain.
Metadata == [version : 1..MaxVersion, owned : BOOLEAN, chain : Verdict]
Empty == [n \in {} |-> 0]
Live == DOMAIN cloud

\* A lexicon follows the owner chain to one of the declared entities it has itself read;
\* the chains in cut have a hop it cannot read, a cycle or too many hops.
Follow(n, read, cut) ==
  IF n \in cut THEN "unknown"
  ELSE IF n \in Child /\ Owner[n] \in read THEN "declared" ELSE "none"
Seen(n, read, cut) ==
  [version |-> cloud[n].version, owned |-> cloud[n].owned, chain |-> Follow(n, read, cut)]

Init == /\ source \in SUBSET Managed
        /\ cloud \in {[n \in S |-> [version |-> 1, owned |-> n \notin Dependency]] :
                        S \in SUBSET Name}
        /\ changes = 0
        /\ snapshot = Empty
        /\ pc = "idle"
        /\ declared = {}
        /\ todo = {}
        /\ resources = Empty
        /\ holes = {}
        /\ then = Empty
        /\ absent = {}
        /\ marked = {}

-----------------------------------------------------------------------------
(* Source and cloud. *)

Marked(now) == {n \in DOMAIN now : now[n].owned}

\* What the properties remember of the time a command reads in.
Witness(now) ==
  IF pc = "reading"
  THEN /\ absent' = absent \cup (Name \ DOMAIN now)
       /\ marked' = marked \cup Marked(now)
  ELSE UNCHANGED <<absent, marked>>

\* What happens while a report is on the screen happens after it as well.
Change == pc # "reported" /\ changes < MaxChanges /\ changes' = changes + 1

Edit(n) ==
  /\ Change
  /\ source' = IF n \in source THEN source \ {n} ELSE source \cup {n}
  /\ UNCHANGED <<cloud, snapshot, reader>>

\* Deployed or changed, by chant or by others.
Put(n) ==
  /\ Change
  /\ \E r \in Resource : /\ n \in Live => r # cloud[n]
                         /\ cloud' = [m \in Live \cup {n} |-> IF m = n THEN r ELSE cloud[m]]
  /\ Witness(cloud')
  /\ UNCHANGED <<source, snapshot, pc, declared, todo, resources, holes, then>>

Remove(n) ==
  /\ Change
  /\ n \in Live
  /\ cloud' = Restrict(cloud, Live \ {n})
  /\ Witness(cloud')
  /\ UNCHANGED <<source, snapshot, pc, declared, todo, resources, holes, then>>

\* takeSnapshot, in one step: some of the resources cannot be read, some of the
\* others are not looked for, dependencies are found or not; nothing is recorded
\* when no resource is read.
Snapshot ==
  /\ pc # "reported"
  /\ \E read \in SUBSET (Live \ Dependency), found \in SUBSET (Live \cap Dependency) :
       /\ read # {}
       /\ \E cut \in SUBSET (read \cap Child) :
            snapshot' = [n \in read \cup found |-> Seen(n, read \cap source, cut)]
       /\ UNCHANGED <<world, reader>>

-----------------------------------------------------------------------------
(* The command reads. *)

\* What stack s is asked for: all that is declared, and it lists what it has.
Asked(s) == {s} \X {n \in Managed \cup Child : n \in declared \/ StackOf[n] = s}

\* The build, and the stacks of the components, or the one stack of the project.
Begin ==
  /\ pc = "idle"
  /\ pc' = "reading"
  /\ declared' = source
  /\ todo' = UNION {Asked(s)' : s \in Stack}
  /\ absent' = Name \ Live
  /\ marked' = Marked(cloud)
  /\ UNCHANGED <<world, snapshot, resources, holes, then>>

\* What stack s has returned of the declared resources.
ReadBy(s) == {m \in declared \cap DOMAIN resources : StackOf[m] = s}

\* mergeObservations of what the stacks answer: what one of them returns lives.
Merged(n, read, cut) ==
  [m \in DOMAIN resources \cup {n} |-> IF m = n THEN Seen(n, read, cut) ELSE resources[m]]

\* The stacks are asked one after another, each for what is declared first: the sweep
\* that finds runtime children follows owner chains to what has been read by then.
InTurn(s, n) ==
  /\ \A t \in Stack \ {s} : Asked(t) \subseteq todo \/ Asked(t) \cap todo = {}
  /\ n \in Child => \A m \in declared : <<s, m>> \notin todo

\* describeResources of stack s comes to n.  It says so when it cannot read what is
\* declared; of the rest it returns what it lists.
Look(s, n) ==
  /\ pc = "reading"
  /\ <<s, n>> \in todo /\ InTurn(s, n)
  /\ todo' = todo \ {<<s, n>>}
  /\ \/ /\ n \in Live /\ StackOf[n] = s
        /\ \E cut \in SUBSET ({n} \cap Child) : resources' = Merged(n, ReadBy(s), cut)
        /\ UNCHANGED holes
     \/ /\ n \in declared => ~(n \in Live /\ StackOf[n] = s)
        /\ UNCHANGED <<resources, holes>>
     \/ /\ n \in declared
        /\ holes' = holes \cup {n}
        /\ UNCHANGED resources
  /\ UNCHANGED <<world, snapshot, pc, declared, then, absent, marked>>

\* Mutant: a read that throws leaves an empty observation.
NothingSeen == {}

\* unobservedAll: what a read that throws leaves behind.
NoneSeen == declared

\* describeResources throws; what other stacks have answered is dropped too.
ReadThrows ==
  /\ pc = "reading"
  /\ todo # {}
  /\ todo' = {}
  /\ resources' = Empty
  /\ holes' = NoneSeen
  /\ UNCHANGED <<world, snapshot, pc, declared, then, absent, marked>>

\* The snapshot is read after the cloud, and everything is classified.
Report ==
  /\ pc = "reading"
  /\ todo = {}
  /\ pc' = "reported"
  /\ then' = snapshot
  /\ UNCHANGED <<world, snapshot, declared, todo, resources, holes, absent, marked>>

End ==
  /\ pc = "reported"
  /\ pc' = "idle"
  /\ declared' = {}
  /\ resources' = Empty
  /\ holes' = {}
  /\ then' = Empty
  /\ absent' = {}
  /\ marked' = {}
  /\ UNCHANGED <<world, snapshot, todo>>

-----------------------------------------------------------------------------
(* diffLive and buildChangeSet. *)

Now == DOMAIN resources
Then == DOMAIN then
Unobserved == holes \ Now

\* Mutant: what the last snapshot does not know either is not missing.
MissingSince == (declared \ (Now \cup Unobserved)) \cap Then

Missing == declared \ (Now \cup Unobserved)

RuntimeChildren == {n \in Now \ declared : resources[n].chain = "declared"}
Orphan == Now \ (declared \cup RuntimeChildren)
Disappeared ==
  {n \in Then \ (Now \cup Unobserved) : n \in declared \/ then[n].chain # "declared"}
Drifted == {n \in (Now \cap Then) \ RuntimeChildren : resources[n].version # then[n].version}

\* What is counted before "No drift detected" is said.
Drift == Drifted \cup Missing \cup Orphan \cup Disappeared

Action(n) ==
  CASE n \in Unobserved -> "unobserved"
    [] n \in declared \ (Now \cup Unobserved) -> "create"
    [] n \in declared \cap Now -> IF n \in Drifted THEN "update" ELSE "noop"
    [] n \in RuntimeChildren -> "runtime"
    [] n \in Orphan -> IF resources[n].owned THEN "delete" ELSE "adopt"
    [] OTHER -> "noop"

Classified == declared \cup Now \cup Then \cup holes

-----------------------------------------------------------------------------

Next == \/ \E n \in Managed : Edit(n)
        \/ \E n \in Name : Put(n) \/ Remove(n)
        \/ Snapshot
        \/ Begin
        \/ \E s \in Stack, n \in Managed \cup Child : Look(s, n)
        \/ ReadThrows
        \/ Report \/ End

Spec == Init /\ [][Next]_vars

-----------------------------------------------------------------------------
(* Properties. *)

Reported == pc = "reported"

\* n is made by the controller of something the command has found declared.
RuntimeChild(n) == n \in Child /\ Owner[n] \in declared

\* Whatever could not be read and whatever changes in the meantime: a plan creates only
\* what was absent while it was read, and deletes only what then lived with the marker
\* and is not declared.  When that is the runtime child of something declared, its owner
\* was not read, or the chain to it could not be followed.
ProposalsAreGrounded ==
  Reported => \A n \in Classified :
    /\ Action(n) = "create" => n \in declared /\ n \in absent
    /\ Action(n) = "delete" =>
         /\ n \notin declared /\ n \in marked
         /\ RuntimeChild(n) => Owner[n] \notin Now \/ resources[n].chain = "unknown"

\* When no drift and no hole is reported, everything declared was seen, and the plan
\* of the same reading proposes nothing.
AllClearIsComplete ==
  Reported /\ Drift = {} /\ Unobserved = {} =>
    /\ declared \subseteq Now
    /\ \A n \in Classified : Action(n) \in {"noop", "runtime"}
=============================================================================
