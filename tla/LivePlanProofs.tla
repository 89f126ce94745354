---------------------------- MODULE LivePlanProofs ----------------------------
(***************************************************************************)
(* Theorems about LivePlan, for every set of names, owners and stacks.     *)
(***************************************************************************)
EXTENDS LivePlan, TLAPS

-----------------------------------------------------------------------------
(* What a command has read. *)

Types ==
  /\ source \subseteq Managed
  /\ DOMAIN cloud \subseteq Name
  /\ pc \in {"idle", "reading", "reported"}
  /\ declared \subseteq Managed
  /\ holes \subseteq declared
  /\ pc = "idle" => Now = {} /\ holes = {}

\* The history variables hold what they are to remember, from Begin on.
Witnessed ==
  pc = "reading" => /\ Name \ Live \subseteq absent
                    /\ Marked(cloud) \subseteq marked

\* What is declared is still to be asked for where it lives, or was read, or could
\* not be read, or was absent at some moment.
DeclaredAccounted ==
  pc # "idle" =>
    \A n \in declared : \/ pc = "reading" /\ <<StackOf[n], n>> \in todo
                        \/ n \in Now \cup holes \cup absent

\* What was read keeps the marker it had when it was read.
MarkedWitnessed == pc # "idle" => \A n \in Now : resources[n].owned => n \in marked

\* Declared resources are read before the sweep, which follows each chain to them.
ChainsFollowed ==
  pc # "idle" =>
    \A n \in Now : RuntimeChild(n) => \/ Owner[n] \notin Now
                                      \/ resources[n].chain \in {"declared", "unknown"}

\* Nothing swept is there before the stack has been asked for all that is declared.
DeclaredFirst ==
  pc = "reading" => \A n \in Now \cap Child : \A m \in declared : <<StackOf[n], m>> \notin todo

ReadInv == /\ Types /\ Witnessed /\ DeclaredAccounted
           /\ MarkedWitnessed /\ ChainsFollowed /\ DeclaredFirst

LEMMA InitRead == Init => ReadInv
BY DEF Init, ReadInv, Types, Now, Empty, Witnessed, DeclaredAccounted, MarkedWitnessed, ChainsFollowed,
       DeclaredFirst, Live, Name, Resource

\* A change of the cloud while a command reads is noted in the history variables.
LEMMA ChangeRead ==
  ASSUME ReadInv, DOMAIN cloud' \subseteq Name, Witness(cloud'), pc # "reported",
         UNCHANGED <<source, snapshot, pc, declared, todo, resources, holes, then>>
  PROVE  ReadInv'
<1>1. Types'
  BY DEF ReadInv, Types, Now
<1>2. Witnessed'
  BY DEF Witnessed, Witness, Live, Marked, Name
<1>3. absent \subseteq absent' /\ marked \subseteq marked'
  BY DEF Witness
<1>4. DeclaredAccounted'
  BY <1>3 DEF ReadInv, DeclaredAccounted, Now
<1>5. MarkedWitnessed'
  BY <1>3 DEF ReadInv, MarkedWitnessed, Now
<1>6. ChainsFollowed' /\ DeclaredFirst'
  BY DEF ReadInv, ChainsFollowed, DeclaredFirst, RuntimeChild, Now
<1> QED
  BY <1>1, <1>2, <1>4, <1>5, <1>6 DEF ReadInv

LEMMA BeginRead == ReadInv /\ Begin => ReadInv'
<1> SUFFICES ASSUME ReadInv, Begin PROVE ReadInv'
  OBVIOUS
<1> USE DEF ReadInv, Types, Begin
<1>1. Types'
  BY DEF world, Now
<1>2. Witnessed'
  BY DEF Witnessed, Live, Marked, world
<1>3. \A n \in declared' : StackOf[n] \in Stack
  BY StackType
<1>4. \A n \in declared' : <<StackOf[n], n>> \in Asked(StackOf[n])'
  BY DEF Asked, world
<1>5. DeclaredAccounted'
  BY <1>3, <1>4 DEF DeclaredAccounted
<1>6. MarkedWitnessed' /\ ChainsFollowed' /\ DeclaredFirst'
  BY DEF MarkedWitnessed, ChainsFollowed, DeclaredFirst, Now
<1> QED
  BY <1>1, <1>2, <1>5, <1>6

LEMMA LookRead ==
  ASSUME ReadInv, NEW s \in Stack, NEW n \in Managed \cup Child, Look(s, n)
  PROVE  ReadInv'
<1> USE DEF ReadInv, Types, Look, world
<1>1. \/ resources' = resources
      \/ /\ n \in Live /\ StackOf[n] = s
         /\ \E cut \in SUBSET ({n} \cap Child) : resources' = Merged(n, ReadBy(s), cut)
  OBVIOUS
<1>2. Now \subseteq Now'
  BY <1>1 DEF Now, Merged
<1>3. Types'
  BY DEF Now
<1>4. Witnessed'
  BY DEF Witnessed, Live, Marked
<1>5. DeclaredAccounted'
  <2> SUFFICES ASSUME NEW m \in declared
               PROVE  <<StackOf[m], m>> \in todo' \/ m \in Now' \cup holes' \cup absent'
    BY DEF DeclaredAccounted
  <2>1. CASE <<s, n>> # <<StackOf[m], m>>
    BY <1>2, <2>1 DEF DeclaredAccounted
  <2>2. CASE <<s, n>> = <<StackOf[m], m>>
    <3>1. n = m /\ s = StackOf[n]
      BY <2>2
    <3>2. CASE n \in Live
      <4>1. n \in Now' \/ n \in holes'
        BY <2>2, <3>1, <3>2 DEF Merged, Now
      <4> QED
        BY <3>1, <4>1
    <3>3. CASE n \notin Live
      BY <3>1, <3>3 DEF Witnessed, Name
    <3> QED
      BY <3>2, <3>3
  <2> QED
    BY <2>1, <2>2
<1>6. MarkedWitnessed' /\ ChainsFollowed' /\ DeclaredFirst'
  <2>1. CASE resources' = resources
    BY <2>1 DEF MarkedWitnessed, ChainsFollowed, DeclaredFirst, RuntimeChild, Now
  <2>2. ASSUME NEW cut \in SUBSET ({n} \cap Child), n \in Live, StackOf[n] = s,
               resources' = Merged(n, ReadBy(s), cut)
        PROVE  MarkedWitnessed' /\ ChainsFollowed' /\ DeclaredFirst'
    <3>1. /\ Now' = Now \cup {n}
          /\ resources'[n] = Seen(n, ReadBy(s), cut)
          /\ \A m \in Now \ {n} : resources'[m] = resources[m]
      BY <2>2 DEF Merged, Now
    <3>2. MarkedWitnessed'
      <4>1. resources'[n].owned => n \in marked
        BY <2>2, <3>1 DEF Seen, Witnessed, Marked, Live
      <4> QED
        BY <3>1, <4>1 DEF MarkedWitnessed
    <3>3. DeclaredFirst'
      <4>1. n \in Child => \A m \in declared : <<s, m>> \notin todo
        BY DEF InTurn
      <4> QED
        BY <2>2, <3>1, <4>1 DEF DeclaredFirst
    <3>4. ChainsFollowed'
      <4> SUFFICES ASSUME NEW m \in Now', RuntimeChild(m), Owner[m] \in Now'
                   PROVE  resources'[m].chain \in {"declared", "unknown"}
        BY DEF ChainsFollowed, RuntimeChild
      <4>1. m \in Child /\ Owner[m] \in declared /\ Owner[m] \notin Child /\ StackOf[m] = StackOf[Owner[m]]
        BY OwnerType, PlaceType DEF RuntimeChild
      <4>2. CASE m = n
        <5>1. Owner[m] \in ReadBy(s)
          BY <2>2, <3>1, <4>1, <4>2 DEF ReadBy, Now
        <5> QED
          BY <2>2, <3>1, <4>1, <4>2, <5>1 DEF Seen, Follow
      <4>3. CASE m # n
        <5>1. m \in Now
          BY <3>1, <4>3
        <5>2. <<StackOf[m], Owner[m]>> \notin todo
          BY <4>1, <5>1 DEF DeclaredFirst
        <5>3. Owner[m] # n
          BY <2>2, <4>1, <5>2
        <5>4. Owner[m] \in Now
          BY <3>1, <5>3
        <5> QED
          BY <3>1, <4>3, <5>1, <5>4 DEF ChainsFollowed
      <4> QED
        BY <4>2, <4>3
    <3> QED
      BY <3>2, <3>3, <3>4
  <2> QED
    BY <1>1, <2>1, <2>2
<1> QED
  BY <1>3, <1>4, <1>5, <1>6

LEMMA ThrowsRead == ReadInv /\ ReadThrows => ReadInv'
<1> SUFFICES ASSUME ReadInv, ReadThrows PROVE ReadInv'
  OBVIOUS
<1> USE DEF ReadInv, Types, ReadThrows, world, Empty, NoneSeen, Now
<1>1. Types'
  OBVIOUS
<1>2. Witnessed'
  BY DEF Witnessed, Live, Marked
<1>3. DeclaredAccounted'
  BY DEF DeclaredAccounted
<1>4. MarkedWitnessed' /\ ChainsFollowed' /\ DeclaredFirst'
  BY DEF MarkedWitnessed, ChainsFollowed, DeclaredFirst
<1> QED
  BY <1>1, <1>2, <1>3, <1>4

LEMMA ReportRead == ReadInv /\ (Report \/ End) => ReadInv'
<1> SUFFICES ASSUME ReadInv, Report \/ End PROVE ReadInv'
  OBVIOUS
<1> USE DEF ReadInv, Types, world, Empty, Now
<1>1. CASE Report
  BY <1>1 DEF Report, Witnessed, DeclaredAccounted, MarkedWitnessed, ChainsFollowed,
              DeclaredFirst, RuntimeChild
<1>2. CASE End
  BY <1>2 DEF End, Witnessed, DeclaredAccounted, MarkedWitnessed, ChainsFollowed, DeclaredFirst
<1> QED
  BY <1>1, <1>2

\* An edit of source and a snapshot change nothing a command has read.
LEMMA AsideRead ==
  ASSUME ReadInv, source' \subseteq Managed, UNCHANGED <<cloud, reader>>
  PROVE  ReadInv'
BY DEF ReadInv, Types, Now, Witnessed, DeclaredAccounted, MarkedWitnessed, ChainsFollowed,
       DeclaredFirst, RuntimeChild, reader, Live, Marked

LEMMA NextRead == ReadInv /\ [Next]_vars => ReadInv'
<1> SUFFICES ASSUME ReadInv, [Next]_vars PROVE ReadInv'
  OBVIOUS
<1>1. ASSUME NEW n \in Managed, Edit(n) PROVE ReadInv'
  <2>1. source' \subseteq Managed
    BY <1>1 DEF Edit, ReadInv, Types
  <2> QED
    BY <1>1, <2>1, AsideRead DEF Edit
<1>2. ASSUME NEW n \in Name, Put(n) PROVE ReadInv'
  <2>1. DOMAIN cloud' \subseteq Name
    BY <1>2 DEF Put, ReadInv, Types, Live
  <2> QED
    BY <1>2, <2>1, ChangeRead DEF Put, Change
<1>3. ASSUME NEW n \in Name, Remove(n) PROVE ReadInv'
  <2>1. DOMAIN cloud' \subseteq Name
    BY <1>3 DEF Remove, Restrict, ReadInv, Types, Live
  <2> QED
    BY <1>3, <2>1, ChangeRead DEF Remove, Change
<1>4. CASE Snapshot
  BY <1>4, AsideRead DEF Snapshot, world, ReadInv, Types
<1>5. CASE UNCHANGED vars
  BY <1>5, AsideRead DEF vars, world, ReadInv, Types
<1> QED
  BY <1>1, <1>2, <1>3, <1>4, <1>5, BeginRead, LookRead, ThrowsRead, ReportRead DEF Next

\* What a plan proposes was so at some moment of its reading, for any resources and
\* however many changes, failed reads and partial snapshots there are: it creates what
\* was absent then and deletes what lived with the marker then and is not declared, nor
\* the runtime child of anything whose owner was read and whose chain could be followed.
THEOREM Grounded == Spec => []ProposalsAreGrounded
<1>1. ReadInv => ProposalsAreGrounded
  <2> SUFFICES ASSUME ReadInv, Reported, NEW n \in Classified
               PROVE  /\ Action(n) = "create" => n \in declared /\ n \in absent
                      /\ Action(n) = "delete" =>
                           /\ n \notin declared /\ n \in marked
                           /\ RuntimeChild(n) => Owner[n] \notin Now \/ resources[n].chain = "unknown"
    BY DEF ProposalsAreGrounded
  <2>1. Action(n) = "create" => n \in declared \ (Now \cup Unobserved)
    BY DEF Action, RuntimeChildren, Orphan, Unobserved
  <2>2. Action(n) = "delete" => n \in Orphan /\ resources[n].owned
    BY DEF Action, RuntimeChildren, Orphan, Unobserved
  <2>3. n \in declared \ (Now \cup Unobserved) => n \in absent
    BY DEF ReadInv, DeclaredAccounted, Reported, Unobserved
  <2>4. n \in Orphan => n \in Now \ declared /\ resources[n].chain # "declared"
    BY DEF Orphan, RuntimeChildren
  <2>5. n \in Orphan /\ resources[n].owned => n \in marked
    BY <2>4 DEF ReadInv, MarkedWitnessed, Reported
  <2>6. n \in Orphan /\ RuntimeChild(n) => Owner[n] \notin Now \/ resources[n].chain = "unknown"
    BY <2>4 DEF ReadInv, ChainsFollowed, Reported
  <2> QED
    BY <2>1, <2>2, <2>3, <2>4, <2>5, <2>6
<1> QED
  BY <1>1, InitRead, NextRead, PTL DEF Spec

\* When neither drift nor a hole is reported, all that is declared was seen and the
\* plan proposes nothing: whatever diffLive counts covers what buildChangeSet does.
THEOREM AllClear == Spec => []AllClearIsComplete
<1>1. AllClearIsComplete
  <2> SUFFICES ASSUME Drift = {}, Unobserved = {}
               PROVE  /\ declared \subseteq Now
                      /\ \A n \in Classified : Action(n) \in {"noop", "runtime"}
    BY DEF AllClearIsComplete
  <2>1. declared \subseteq Now
    BY DEF Drift, Missing
  <2>2. Drifted = {} /\ Orphan = {}
    BY DEF Drift
  <2> QED
    BY <2>1, <2>2 DEF Action
<1> QED
  BY <1>1, PTL DEF Spec
=============================================================================
