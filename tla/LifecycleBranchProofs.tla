------------------------ MODULE LifecycleBranchProofs ------------------------
(***************************************************************************)
(* Theorems about LifecycleBranch, for every set of checkouts, processes,  *)
(* files and commands: its types; what it keeps, and the abstract store it *)
(* implements, when no two commands run in one checkout and git can read   *)
(* what it stored; and what it keeps without these assumptions.            *)
(***************************************************************************)
EXTENDS LifecycleBranch, SequenceTheorems, TLAPS

-----------------------------------------------------------------------------
(* The operators the module is built from. *)

LEMMA LastOrBefore == \A n \in Nat : \A k \in 1..n + 1 : k = n + 1 \/ k \in 1..n
  OBVIOUS

\* What comes of merging acceptances: of the new write and of earlier ones.
LEMMA AcceptedContent ==
  ASSUME NEW s \in Seq(Nat), NEW n \in Nat, NEW u \in Accepted(s, n)
  PROVE  /\ u \in Seq(Nat)
         /\ \E i \in DOMAIN u : u[i] = n
         /\ \A i \in 1..Len(u) : u[i] = n \/ (i \in 1..Len(s) /\ u[i] = s[i])
<1>1. PICK S \in (SUBSET (1..Len(s) + 1)) \ {{}} :
        u = [i \in DOMAIN s \cup S |-> IF i \in S THEN n ELSE s[i]]
  BY DEF Accepted
<1>2. DOMAIN s = 1..Len(s) /\ Len(s) \in Nat
  OBVIOUS
<1>3. PICK l \in Nat : l = Len(s)
  BY <1>2
<1>4. PICK k \in Nat : DOMAIN s \cup S = 1..k
  <2>1. S \subseteq 1..l + 1 /\ DOMAIN s = 1..l
    BY <1>2, <1>3
  <2>2. CASE l + 1 \in S
    <3>1. 1..l + 1 \subseteq (1..l) \cup {l + 1} /\ 1..l \subseteq 1..l + 1
      OBVIOUS
    <3>2. (1..l) \cup S = 1..l + 1
      BY <2>1, <2>2, <3>1
    <3> QED
      BY <2>1, <3>2
  <2>3. CASE l + 1 \notin S
    <3>1. 1..l + 1 \subseteq (1..l) \cup {l + 1}
      OBVIOUS
    <3>2. (1..l) \cup S = 1..l
      BY <2>1, <2>3, <3>1
    <3> QED
      BY <2>1, <3>2
  <2> QED
    BY <2>2, <2>3
<1>5. DOMAIN u = 1..k /\ \A i \in 1..k : u[i] = IF i \in S THEN n ELSE s[i]
  BY <1>1, <1>4
<1>6. \A i \in 1..k : i \in S \/ i \in 1..Len(s)
  BY <1>2, <1>4
<1>7. \A i \in 1..k : u[i] \in Nat
  BY <1>5, <1>6
<1>8. u \in Seq(Nat) /\ Len(u) = k
  <2>1. u = [i \in 1..k |-> u[i]]
    BY <1>1, <1>4
  <2>2. \A T, m : \A f : m \in Nat /\ f = [i \in 1..m |-> f[i]] /\ (\A i \in 1..m : f[i] \in T)
                      => f \in [1..m -> T]
    OBVIOUS
  <2>3. u \in [1..k -> Nat]
    BY <1>7, <2>1, <2>2
  <2> QED
    BY <2>3
<1>9. PICK j \in S : TRUE
  OBVIOUS
<1>10. j \in 1..k
  BY <1>4, <1>9
<1> QED
  BY <1>5, <1>6, <1>8, <1>9, <1>10

\* Whatever file a write is for, its content holds that write.
LEMMA ComposedContent ==
  ASSUME NEW x \in Path, NEW s \in Seq(Nat), NEW n \in Nat, NEW u \in Composed(x, s, n)
  PROVE  /\ u \in Seq(Nat)
         /\ \E i \in DOMAIN u : u[i] = n
         /\ \A i \in 1..Len(u) : u[i] = n \/ (i \in 1..Len(s) /\ u[i] = s[i])
<1>1. CASE x \in Ledger
  <2>1. u = Append(s, n) /\ Len(u) = Len(s) + 1 /\ Len(s) \in Nat
    BY <1>1 DEF Composed
  <2>2. u \in Seq(Nat) /\ Len(s) + 1 \in DOMAIN u /\ u[Len(s) + 1] = n
    BY <2>1
  <2>3. \A i \in 1..Len(s) + 1 : i = Len(s) + 1 \/ (i \in 1..Len(s) /\ u[i] = s[i])
    BY <2>1
  <2> QED
    BY <2>1, <2>2, <2>3
<1>2. CASE x \notin Ledger /\ x \in Baseline
  BY <1>2, AcceptedContent DEF Composed
<1>3. CASE x \notin Ledger /\ x \notin Baseline
  <2>1. u = <<n>>
    BY <1>3 DEF Composed
  <2> QED
    BY <2>1
<1> QED
  BY <1>1, <1>2, <1>3

-----------------------------------------------------------------------------
(* Type correctness. *)

LEMMA TreeTypes ==
  ASSUME TypeOK
  PROVE  /\ EmptyTree \in Tree
         /\ \A k \in Ref : TreeAt(k) \in Tree /\ HistOf(k) \subseteq 1..k
         /\ \A t \in Tree : DirsIn(t) \subseteq Env
         /\ \A t \in Tree, u \in Tree, e \in Env : WithDir(t, e, u) \in Tree
         /\ \A t \in Tree, x \in Path, s \in Seq(Nat) : MergeEntry(t, x, s) \in Tree
<1>1. EmptyTree \in Tree
  BY DEF EmptyTree, Tree
<1>2. \A k \in Ref : TreeAt(k) \in Tree /\ HistOf(k) \subseteq 1..k
  <2> TAKE k \in Ref
  <2>1. CASE k = NoCommit
    BY <2>1, <1>1 DEF TreeAt, HistOf
  <2>2. CASE k # NoCommit
    <3>1. k \in 1..Len(commits)
      BY <2>2 DEF Ref, NoCommit, TypeOK
    <3>2. commits[k] \in Commit
      BY <3>1 DEF TypeOK
    <3> QED
      BY <2>2, <3>1, <3>2 DEF TreeAt, HistOf, Commit, TypeOK
  <2> QED
    BY <2>1, <2>2
<1>3. \A t \in Tree : DirsIn(t) \subseteq Env
  BY DEF DirsIn, Env
<1>4. \A t \in Tree, u \in Tree, e \in Env : WithDir(t, e, u) \in Tree
  BY DEF WithDir, Tree
<1>5. \A t \in Tree, x \in Path, s \in Seq(Nat) : MergeEntry(t, x, s) \in Tree
  BY DEF MergeEntry, Tree
<1> QED
  BY <1>1, <1>2, <1>3, <1>4, <1>5

LEMMA TypeInit == Init => TypeOK
<1> SUFFICES ASSUME Init PROVE TypeOK
  OBVIOUS
<1>1. EmptyTree \in Tree
  BY DEF EmptyTree, Tree
<1> QED
  BY <1>1 DEF Init, TypeOK, Ref, NoCommit

\* A command that ends leaves only well-typed variables behind.
LEMMA TypeFinish ==
  ASSUME TypeOK, NEW p \in Process, Finish(p, pc[p], outcome'[p]),
         outcome'[p] \in {"pushed", "unpushed", "stale", "error"},
         commits' = commits,
         local' \in [Clone -> Ref], tracking' \in [Clone -> Ref], remote' \in Ref
  PROVE  TypeOK'
<1> USE DEF TypeOK
<1>1. EmptyTree \in Tree
  BY DEF EmptyTree, Tree
<1>2. Ref' = Ref
  BY DEF Ref
<1>3. /\ outcome' \in [Process -> {"none", "pushed", "unpushed", "stale", "error"}]
      /\ pc' \in [Process -> {"idle", "fetch", "compose", "root", "list",
                              "commit", "update", "lease", "push"}]
  <2>1. /\ outcome' = [outcome EXCEPT ![p] = outcome'[p]]
        /\ pc' = [pc EXCEPT ![p] = "idle"]
    BY DEF Finish, Goto
  <2> QED
    BY <2>1
<1>4. /\ todo' \in [Process -> Seq(Path)]
      /\ content' \in [Process -> Seq(Nat)]
      /\ missed' \in [Process -> BOOLEAN]
      /\ pending' \in [Process -> SUBSET Env]
  BY DEF Finish
<1>5. view' \in [Process -> Tree]
  BY <1>1 DEF Finish
<1>6. made' \in [Process -> Ref] /\ lease' \in [Process -> Ref]
  BY DEF Finish, Ref, NoCommit
<1>7. issued' \in Seq(Path) /\ checkouts' \in Nat /\ mine' \in [Process -> SUBSET (1..Len(issued'))]
  BY DEF Finish
<1> QED
  BY <1>2, <1>3, <1>4, <1>5, <1>6, <1>7

\* A process that is writing still has a file to write.
WorkLeft ==
  \A p \in Process :
    pc[p] \in {"compose", "root", "list", "commit", "update"} => todo[p] # <<>>

TypeInv == TypeOK /\ WorkLeft

\* Target(p) is a file, and what follows it in todo[p] is a sequence of files.
LEMMA TargetType ==
  ASSUME TypeInv, NEW p \in Process,
         pc[p] \in {"compose", "root", "list", "commit", "update"}
  PROVE  Target(p) \in Path /\ Tail(todo[p]) \in Seq(Path)
<1>1. todo[p] \in Seq(Path) /\ todo[p] # <<>>
  BY DEF TypeInv, TypeOK, WorkLeft
<1> QED
  BY <1>1, HeadTailProperties DEF Target

LEMMA TypeStep == TypeInv /\ [Next]_vars => TypeOK'
<1> SUFFICES ASSUME TypeInv, [Next]_vars
             PROVE  TypeOK'
  OBVIOUS
<1> USE CloneOfType DEF TypeInv
<1>a. NoCommit \in Ref
  BY DEF Ref, NoCommit, TypeOK
<1>b. \A p \in Process : local[CloneOf[p]] \in Ref /\ tracking[CloneOf[p]] \in Ref
  BY DEF TypeOK
<1>1. ASSUME NEW p \in Process, Begin(p)
      PROVE  TypeOK'
  BY <1>1, CommandType DEF Begin, Goto, TypeOK, repo, Ref
<1>2. ASSUME NEW p \in Process, FetchAnswered(p)
      PROVE  TypeOK'
  BY <1>2 DEF FetchAnswered, Goto, AfterFetch, TypeOK, work, Ref
<1>3. ASSUME NEW p \in Process, FetchFails(p)
      PROVE  TypeOK'
  BY <1>3 DEF FetchFails, Goto, AfterFetch, TypeOK, repo, work, Ref
<1>4. ASSUME NEW p \in Process, Compose(p)
      PROVE  TypeOK'
  <2> DEFINE t == Len(issued) + 1
             there == TreeAt(local[CloneOf[p]])[Target(p)]
  <2>1. Target(p) \in Path
    BY <1>4, TargetType DEF Compose, Goto
  <2>2. t \in Nat /\ there \in Seq(Nat)
    <3>1. TreeAt(local[CloneOf[p]]) \in Tree
      BY <1>b, TreeTypes
    <3> QED
      BY <3>1, <2>1 DEF Tree, TypeOK
  <2>3. issued' \in Seq(Path) /\ Len(issued') = Len(issued) + 1
    BY <1>4, <2>1 DEF Compose, TypeOK
  <2>4. mine' \in [Process -> SUBSET (1..Len(issued'))]
    BY <1>4, <2>3 DEF Compose, TypeOK
  <2>5. PICK old \in Answers("show", there, <<>>) :
          /\ \E new \in Composed(Target(p), old, t) : content' = [content EXCEPT ![p] = new]
          /\ missed' = [missed EXCEPT ![p] = old # there]
    BY <1>4 DEF Answers, Compose
  <2>6. PICK new \in Composed(Target(p), old, t) : content' = [content EXCEPT ![p] = new]
    BY <2>5
  <2>7. new \in Seq(Nat)
    <3>1. old = there \/ old = <<>>
      BY <2>5 DEF Answers
    <3>2. <<>> \in Seq(Nat)
      OBVIOUS
    <3>3. t \in Nat
      BY <2>2
    <3>4. there \in Seq(Nat)
      BY <2>2
    <3> HIDE DEF t, there
    <3>5. old \in Seq(Nat)
      BY <3>1, <3>2, <3>4
    <3> QED
      BY <2>1, <3>3, <2>6, <3>5, ComposedContent
  <2>8. content' \in [Process -> Seq(Nat)] /\ missed' \in [Process -> BOOLEAN]
    BY <2>5, <2>6, <2>7 DEF TypeOK
  <2> QED
    BY <1>4, <2>3, <2>4, <2>8 DEF Compose, Goto, TypeOK, repo, Ref
<1>5. ASSUME NEW p \in Process, ListRoot(p)
      PROVE  TypeOK'
  <2> DEFINE Read(tree) ==
               /\ Goto(p, "root", IF DirsIn(tree) = {} THEN "commit" ELSE "list")
               /\ view' = [view EXCEPT ![p] = tree]
               /\ pending' = [pending EXCEPT ![p] = DirsIn(tree)]
  <2>1. PICK tree \in {TreeAt(local[CloneOf[p]]), EmptyTree} : Read(tree)
    BY <1>5 DEF Answers, ListRoot
  <2>2. tree \in Tree /\ DirsIn(tree) \subseteq Env
    BY <2>1, <1>b, TreeTypes
  <2>3. view' \in [Process -> Tree] /\ pending' \in [Process -> SUBSET Env]
    BY <2>1, <2>2 DEF TypeOK
  <2> QED
    BY <1>5, <2>1, <2>3 DEF ListRoot, Goto, TypeOK, repo, Ref
<1>6. ASSUME NEW p \in Process, ListDir(p)
      PROVE  TypeOK'
  <2>1. PICK e \in pending[p], now \in {TreeAt(local[CloneOf[p]]), EmptyTree} :
          /\ Goto(p, "list", IF pending[p] = {e} THEN "commit" ELSE "list")
          /\ pending' = [pending EXCEPT ![p] = @ \ {e}]
          /\ \E u \in {WithDir(view[p], e, EmptyTree), WithDir(view[p], e, now), view[p]} :
               view' = [view EXCEPT ![p] = u]
    BY <1>6 DEF Answers, ListDir, TypeOK
  <2>2. e \in Env /\ view[p] \in Tree /\ now \in Tree
    BY <1>b, TreeTypes DEF TypeOK
  <2>3. {WithDir(view[p], e, EmptyTree), WithDir(view[p], e, now), view[p]} \subseteq Tree
    BY <2>2, TreeTypes
  <2>4. view' \in [Process -> Tree] /\ pending' \in [Process -> SUBSET Env]
    BY <2>1, <2>3 DEF TypeOK
  <2> QED
    BY <1>6, <2>1, <2>4 DEF ListDir, Goto, TypeOK, repo, Ref
<1>7. ASSUME NEW p \in Process, CommitTree(p)
      PROVE  TypeOK'
  <2> DEFINE new == Len(commits) + 1
             Made(parent) == [parent |-> parent,
                              hist |-> HistOf(parent) \cup {new},
                              path |-> Target(p),
                              tree |-> MergeEntry(view[p], Target(p), content[p])]
  <2>0. PICK parent \in {local[CloneOf[p]], NoCommit} : commits' = Append(commits, Made(parent))
    BY <1>7 DEF Answers, CommitTree
  <2> DEFINE m == Made(parent)
  <2>1. commits' = Append(commits, m) /\ parent \in Ref
    BY <2>0, <1>a, <1>b
  <2>2. Target(p) \in Path
    BY <1>7, TargetType DEF CommitTree, Goto
  <2>3. /\ parent \in Nat /\ parent < new
        /\ HistOf(parent) \subseteq 1..parent
        /\ HistOf(parent) \cup {new} \subseteq 1..new
        /\ new \in Nat
    <3>1. parent \in 0..Len(commits) /\ Len(commits) \in Nat
      BY <2>1 DEF Ref, TypeOK
    <3>2. HistOf(parent) \subseteq 1..parent
      BY <2>1, TreeTypes
    <3> QED
      BY <3>1, <3>2
  <2>4. m.tree \in Tree
    BY <2>2, TreeTypes DEF TypeOK
  <2>5. m \in Commit
    BY <2>2, <2>3, <2>4 DEF Commit
  <2>6. commits' \in Seq(Commit) /\ Len(commits') = new
    BY <2>1, <2>5 DEF TypeOK
  <2>7. ASSUME NEW k \in 1..new
        PROVE  commits'[k].parent < k /\ commits'[k].hist \subseteq 1..k
    <3>1. CASE k = new
      <4>1. commits'[k] = m
        BY <2>1, <3>1 DEF TypeOK
      <4> QED
        BY <4>1, <3>1, <2>3
    <3>2. CASE k # new
      <4>1. k \in 1..Len(commits) /\ commits'[k] = commits[k]
        BY <2>1, <3>2 DEF TypeOK
      <4> QED
        BY <4>1 DEF TypeOK
    <3> QED
      BY <3>1, <3>2
  <2>8. Ref \subseteq Ref' /\ new \in Ref'
    BY <2>6, <2>3 DEF Ref, TypeOK
  <2>9. made' \in [Process -> Ref']
    BY <1>7, <2>8 DEF CommitTree, TypeOK
  <2> QED
    BY <1>7, <2>6, <2>7, <2>8, <2>9 DEF CommitTree, Goto, TypeOK
<1>8. ASSUME NEW p \in Process, UpdateRef(p)
      PROVE  TypeOK'
  <2>1. Tail(todo[p]) \in Seq(Path)
    BY <1>8, TargetType DEF UpdateRef, Goto
  <2>2. /\ todo' \in [Process -> Seq(Path)] /\ content' \in [Process -> Seq(Nat)]
        /\ missed' \in [Process -> BOOLEAN]
    BY <1>8, <2>1 DEF UpdateRef, TypeOK
  <2>3. view' \in [Process -> Tree]
    BY <1>8, TreeTypes DEF UpdateRef, TypeOK
  <2>4. made' \in [Process -> Ref] /\ local' \in [Clone -> Ref]
    BY <1>8, <1>a DEF UpdateRef, TypeOK
  <2> QED
    BY <1>8, <2>2, <2>3, <2>4 DEF UpdateRef, Goto, TypeOK, Ref
<1>9. ASSUME NEW p \in Process, ReadLease(p)
      PROVE  TypeOK'
  <2>1. PICK tip \in {tracking[CloneOf[p]], NoCommit} : lease' = [lease EXCEPT ![p] = tip]
    BY <1>9 DEF Answers, ReadLease
  <2>2. lease' \in [Process -> Ref]
    BY <2>1, <1>a, <1>b DEF TypeOK
  <2> QED
    BY <1>9, <2>2 DEF ReadLease, Goto, TypeOK, repo, Ref
<1>10. ASSUME NEW p \in Process,
              PushNowhere(p) \/ PushAccepted(p) \/ PushRejected(p) \/ PushUnanswered(p) \/ Stop(p)
       PROVE  TypeOK'
  <2>1. Finish(p, pc[p], outcome'[p]) /\ outcome'[p] \in {"pushed", "unpushed", "stale", "error"}
    BY <1>10 DEF PushNowhere, PushAccepted, PushRejected, PushUnanswered, Stop, Finish, Goto, TypeOK
  <2>2. /\ commits' = commits /\ remote' \in Ref
        /\ local' \in [Clone -> Ref] /\ tracking' \in [Clone -> Ref]
    BY <1>10, <1>b DEF PushNowhere, PushAccepted, PushRejected, PushUnanswered, Stop, TypeOK, repo
  <2> QED
    BY <2>1, <2>2, TypeFinish
<1>11. ASSUME NEW c \in Clone, Checkout(c)
       PROVE  TypeOK'
  BY <1>11, <1>a DEF Checkout, TypeOK, Ref, work
<1>12. CASE UNCHANGED vars
  BY <1>12 DEF vars, repo, work, TypeOK, Ref
<1> QED
  BY <1>1, <1>2, <1>3, <1>4, <1>5, <1>6, <1>7, <1>8, <1>9, <1>10, <1>11, <1>12
     DEF Next, Step

LEMMA WorkLeftStep == TypeInv /\ [Next]_vars => WorkLeft'
<1> SUFFICES ASSUME TypeInv, [Next]_vars, NEW q \in Process,
                    pc'[q] \in {"compose", "root", "list", "commit", "update"}
             PROVE  todo'[q] # <<>>
  BY DEF WorkLeft
<1> USE DEF TypeInv, TypeOK, WorkLeft, Goto
<1>1. ASSUME NEW p \in Process, Begin(p)
      PROVE  todo'[q] # <<>>
  BY <1>1, CommandType DEF Begin
<1>2. ASSUME NEW p \in Process, FetchAnswered(p) \/ FetchFails(p)
      PROVE  todo'[q] # <<>>
  BY <1>2 DEF FetchAnswered, FetchFails, AfterFetch, work
<1>3. ASSUME NEW p \in Process,
             Compose(p) \/ ListRoot(p) \/ ListDir(p) \/ CommitTree(p) \/ ReadLease(p)
      PROVE  todo'[q] # <<>>
  BY <1>3 DEF Compose, ListRoot, ListDir, CommitTree, ReadLease
<1>4. ASSUME NEW p \in Process, UpdateRef(p)
      PROVE  todo'[q] # <<>>
  BY <1>4 DEF UpdateRef
<1>5. ASSUME NEW p \in Process,
             PushNowhere(p) \/ PushAccepted(p) \/ PushRejected(p) \/ PushUnanswered(p) \/ Stop(p)
      PROVE  todo'[q] # <<>>
  <2>1. Finish(p, pc[p], outcome'[p])
    BY <1>5 DEF PushNowhere, PushAccepted, PushRejected, PushUnanswered, Stop, Finish
  <2> QED
    BY <2>1 DEF Finish
<1>6. ASSUME NEW c \in Clone, Checkout(c)
      PROVE  todo'[q] # <<>>
  BY <1>6 DEF Checkout, work
<1>7. CASE UNCHANGED vars
  BY <1>7 DEF vars, work
<1> QED
  BY <1>1, <1>2, <1>3, <1>4, <1>5, <1>6, <1>7 DEF Next, Step

LEMMA TypeInvariant == Spec => []TypeInv
<1>1. Init => TypeInv
  BY TypeInit DEF Init, TypeInv, WorkLeft
<1>2. TypeInv /\ [Next]_vars => TypeInv'
  BY TypeStep, WorkLeftStep DEF TypeInv
<1> QED
  BY <1>1, <1>2, PTL DEF Spec

\* Every variable keeps its type: refs name existing commits, histories are
\* well founded, and no process is ever at a step the code does not have.
THEOREM TypeCorrect == Spec => []TypeOK
<1>1. TypeInv => TypeOK
  BY DEF TypeInv
<1> QED
  BY <1>1, TypeInvariant, PTL

-----------------------------------------------------------------------------
(* What holds when no two commands run in one checkout and git can read what it *)
(* stored: the inductive invariant.                                            *)

\* One write of x takes the tree t to the tree u.
OneWrite(t, x, u) ==
  \E n \in 1..MaxWrites : \E c \in Composed(x, t[x], n) : u = MergeEntry(t, x, c)

\* Every commit is one write on top of its parent, and its history is that of
\* its parent and itself.
IsOneWrite(k) ==
  /\ commits[k].hist = HistOf(commits[k].parent) \cup {k}
  /\ OneWrite(TreeAt(commits[k].parent), commits[k].path, commits[k].tree)

CommitIsOneWrite == \A k \in 1..Len(commits) : IsOneWrite(k)

\* What a process has read and built so far is what its checkout's branch
\* still holds: nobody else moves that branch while the process is at work.
Current(p) ==
  LET c == CloneOf[p]
      now == TreeAt(local[c]) IN
  /\ pc[p] \in {"root", "list", "commit", "update"} =>
       \E n \in 1..MaxWrites : content[p] \in Composed(Target(p), now[Target(p)], n)
  /\ pc[p] \in {"list", "commit"} => view[p] = now
  /\ pc[p] = "list" => pending[p] \subseteq DirsIn(now)
  /\ pc[p] = "update" => /\ made[p] \in 1..Len(commits)
                         /\ commits[made[p]].parent = local[c]
                         /\ commits[made[p]].path = Target(p)
  /\ pc[p] = "push" => lease[p] = tracking[c]

SafetyInv == /\ TypeInv
             /\ CommitIsOneWrite
             /\ LedgerGrows
             /\ \A p \in Process : Current(p)

-----------------------------------------------------------------------------
(* What a step leaves alone. *)

\* Commits are never lost or changed: objects in a git repository.
CommitsKept == /\ Len(commits) <= Len(commits')
               /\ \A k \in 1..Len(commits) : commits'[k] = commits[k]

LEMMA StepKeepsCommits ==
  ASSUME TypeInv, [Next]_vars
  PROVE  CommitsKept
<1>1. CASE commits' = commits
  BY <1>1 DEF CommitsKept, TypeInv, TypeOK
<1>2. ASSUME NEW p \in Process, CommitTree(p)
      PROVE  CommitsKept
  <2>1. PICK m : commits' = Append(commits, m)
    BY <1>2 DEF CommitTree
  <2> QED
    BY <2>1 DEF CommitsKept, TypeInv, TypeOK
<1>3. commits' = commits \/ \E p \in Process : CommitTree(p)
  BY DEF Next, Step, Begin, FetchAnswered, FetchFails, Compose, ListRoot, ListDir, UpdateRef,
         ReadLease, PushNowhere, PushAccepted, PushRejected, PushUnanswered, Stop, Checkout,
         vars, repo
<1> QED
  BY <1>1, <1>2, <1>3

LEMMA KeptTrees ==
  ASSUME TypeInv, CommitsKept, NEW k \in Ref
  PROVE  TreeAt(k)' = TreeAt(k) /\ HistOf(k)' = HistOf(k) /\ k \in Ref'
<1>1. k # NoCommit => k \in 1..Len(commits)
  BY DEF Ref, NoCommit, TypeInv, TypeOK
<1>2. TreeAt(k)' = TreeAt(k) /\ HistOf(k)' = HistOf(k)
  BY <1>1 DEF TreeAt, HistOf, CommitsKept
<1>3. k \in Ref'
  BY DEF Ref, CommitsKept, TypeInv, TypeOK
<1> QED
  BY <1>2, <1>3

\* Nothing that Current(q) speaks of changes.
Undisturbed(q) ==
  /\ UNCHANGED <<pc[q], todo[q], content[q], missed[q], view[q], pending[q], made[q], lease[q]>>
  /\ UNCHANGED <<local[CloneOf[q]], tracking[CloneOf[q]]>>

LEMMA CurrentUndisturbed ==
  ASSUME TypeInv, CommitsKept, NEW q \in Process, Undisturbed(q), Current(q)
  PROVE  Current(q)'
<1> DEFINE c == CloneOf[q]
<1>1. local[c] \in Ref /\ local'[c] = local[c] /\ tracking'[c] = tracking[c]
  BY CloneOfType DEF Undisturbed, TypeInv, TypeOK
<1>2. TreeAt(local[c])' = TreeAt(local[c])
  BY <1>1, KeptTrees DEF TreeAt
<1>3. Target(q)' = Target(q)
  BY DEF Target, Undisturbed
<1>4. DirsIn(TreeAt(local[c]))' = DirsIn(TreeAt(local[c]))
  BY <1>2 DEF DirsIn
<1> QED
  BY <1>1, <1>2, <1>3, <1>4 DEF Current, Undisturbed, CommitsKept, TypeInv, TypeOK

\* A step of one command leaves those of other checkouts be.
LEMMA OthersUndisturbed ==
  ASSUME TypeInv, NEW p \in Process, Step(p), NEW q \in Process, CloneOf[q] # CloneOf[p]
  PROVE  Undisturbed(q)
<1>1. p # q /\ CloneOf[p] \in Clone /\ CloneOf[q] \in Clone
  BY CloneOfType
<1> USE <1>1 DEF Undisturbed, TypeInv, TypeOK, Goto, repo, work
<1>2. CASE Begin(p) \/ FetchAnswered(p) \/ FetchFails(p)
  BY <1>2 DEF Begin, FetchAnswered, FetchFails
<1>3. CASE Compose(p) \/ ListRoot(p) \/ ListDir(p)
  BY <1>3 DEF Compose, ListRoot, ListDir
<1>4. CASE CommitTree(p) \/ UpdateRef(p) \/ ReadLease(p)
  BY <1>4 DEF CommitTree, UpdateRef, ReadLease
<1>5. CASE PushNowhere(p) \/ PushAccepted(p) \/ PushRejected(p) \/ PushUnanswered(p) \/ Stop(p)
  BY <1>5 DEF PushNowhere, PushAccepted, PushRejected, PushUnanswered, Stop, Finish
<1> QED
  BY <1>2, <1>3, <1>4, <1>5 DEF Step

-----------------------------------------------------------------------------
(* The invariant is inductive. *)

\* A command's own step keeps what it has read and built current.
LEMMA OwnCurrent ==
  ASSUME Fallible = {}, TypeInv, CommitsKept, NEW p \in Process, Step(p), Current(p)
  PROVE  Current(p)'
<1> DEFINE c == CloneOf[p]
           now == TreeAt(local[c])
<1> USE DEF TypeInv, TypeOK, Goto
<1>a. c \in Clone /\ local[c] \in Ref /\ tracking[c] \in Ref
  BY CloneOfType
<1>b. now \in Tree
  BY <1>a, TreeTypes
<1>c. ASSUME UNCHANGED local[c]
      PROVE  now' = now
  BY <1>a, <1>c, KeptTrees DEF TreeAt
<1>1. CASE \/ Begin(p) \/ FetchAnswered(p) \/ FetchFails(p) \/ UpdateRef(p)
           \/ PushNowhere(p) \/ PushAccepted(p) \/ PushRejected(p)
           \/ PushUnanswered(p) \/ Stop(p)
  <2>1. pc'[p] \in {"idle", "fetch", "compose", "lease"}
    BY <1>1 DEF Begin, FetchAnswered, FetchFails, AfterFetch, UpdateRef, Finish,
                PushNowhere, PushAccepted, PushRejected, PushUnanswered, Stop
  <2> QED
    BY <2>1 DEF Current
<1>2. CASE Compose(p)
  <2> DEFINE n == Len(issued) + 1
  <2>1. /\ pc'[p] = "root"
        /\ UNCHANGED <<local, todo>>
        /\ n \in 1..MaxWrites
        /\ content'[p] \in Composed(Target(p), now[Target(p)], n)
    BY <1>2, BoundType DEF Answers, Compose, repo
  <2>2. Target(p)' = Target(p) /\ now' = now
    BY <2>1, <1>c DEF Target
  <2> QED
    BY <2>1, <2>2 DEF Current
<1>3. CASE ListRoot(p)
  <2>1. /\ pc[p] = "root" /\ pc'[p] \in {"list", "commit"}
        /\ UNCHANGED <<local, todo, content>>
        /\ view'[p] = now
        /\ pending'[p] = DirsIn(now)
    BY <1>3 DEF Answers, ListRoot, repo
  <2>2. Target(p)' = Target(p) /\ now' = now
    BY <2>1, <1>c DEF Target
  <2>3. DirsIn(now)' = DirsIn(now)
    BY <2>2 DEF DirsIn
  <2> QED
    BY <2>1, <2>2, <2>3 DEF Current
<1>4. CASE ListDir(p)
  <2>1. PICK e \in pending[p] :
          /\ pc[p] = "list" /\ pc'[p] \in {"list", "commit"}
          /\ UNCHANGED <<local, todo, content>>
          /\ pending'[p] = pending[p] \ {e}
          /\ e \in DirsIn(now) => view'[p] \in {WithDir(view[p], e, now), view[p]}
    BY <1>4 DEF Answers, ListDir, repo
  <2>2. Target(p)' = Target(p) /\ now' = now
    BY <2>1, <1>c DEF Target
  <2>3. DirsIn(now)' = DirsIn(now)
    BY <2>2 DEF DirsIn
  <2>4. view[p] = now /\ pending[p] \subseteq DirsIn(now)
    BY <2>1 DEF Current
  <2>5. WithDir(now, e, now) = now
    BY <1>b DEF WithDir, Tree
  <2>6. view'[p] = now
    BY <2>1, <2>4, <2>5
  <2> QED
    BY <2>1, <2>2, <2>3, <2>4, <2>6 DEF Current
<1>5. CASE CommitTree(p)
  <2> DEFINE k == Len(commits) + 1
  <2>1. /\ pc[p] = "commit" /\ pc'[p] = "update"
        /\ UNCHANGED <<local, todo, content>>
        /\ made'[p] = k
    BY <1>5 DEF CommitTree
  <2>2. PICK h, t : commits' = Append(commits, [parent |-> local[c], hist |-> h,
                                                path |-> Target(p), tree |-> t])
    BY <1>5 DEF Answers, CommitTree
  <2>3. /\ k \in 1..Len(commits')
        /\ commits'[k].parent = local[c]
        /\ commits'[k].path = Target(p)
    BY <2>2
  <2>4. Target(p)' = Target(p) /\ now' = now
    BY <2>1, <1>c DEF Target
  <2> QED
    BY <2>1, <2>3, <2>4 DEF Current
<1>6. CASE ReadLease(p)
  <2>1. pc'[p] = "push" /\ lease'[p] = tracking'[c]
    BY <1>6 DEF Answers, ReadLease, repo
  <2> QED
    BY <2>1 DEF Current
<1> QED
  BY <1>1, <1>2, <1>3, <1>4, <1>5, <1>6 DEF Step

LEMMA CurrentStep ==
  ASSUME Exclusive, Fallible = {}, TypeInv, [Next]_vars, NEW q \in Process,
         Current(q)
  PROVE  Current(q)'
<1>1. CommitsKept
  BY StepKeepsCommits
<1>2. ASSUME NEW p \in Process, Step(p)
      PROVE  Current(q)'
  BY <1>1, <1>2, OwnCurrent, OthersUndisturbed, CurrentUndisturbed DEF Exclusive
<1>3. ASSUME NEW c \in Clone, Checkout(c)
      PROVE  Current(q)'
  <2>1. CASE CloneOf[q] = c
    <3>1. pc'[q] = "idle"
      BY <1>3, <2>1 DEF Checkout
    <3> QED
      BY <3>1 DEF Current
  <2>2. CASE CloneOf[q] # c
    <3>1. Undisturbed(q)
      BY <1>3, <2>2, CloneOfType DEF Checkout, Undisturbed, work, TypeInv, TypeOK
    <3> QED
      BY <1>1, <3>1, CurrentUndisturbed
  <2> QED
    BY <2>1, <2>2
<1>4. CASE UNCHANGED vars
  <2>1. Undisturbed(q)
    BY <1>4 DEF vars, repo, work, Undisturbed
  <2> QED
    BY <1>1, <2>1, CurrentUndisturbed
<1> QED
  BY <1>2, <1>3, <1>4 DEF Next

LEMMA CommitStep ==
  ASSUME Fallible = {}, TypeInv, CommitIsOneWrite, \A p \in Process : Current(p), [Next]_vars
  PROVE  CommitIsOneWrite'
<1> USE DEF TypeInv, TypeOK
<1>1. CommitsKept
  BY StepKeepsCommits
<1>2. ASSUME NEW k \in 1..Len(commits)
      PROVE  IsOneWrite(k)'
  <2>1. commits'[k] = commits[k] /\ commits[k].parent \in Ref
    <3>1. commits[k] \in Commit /\ k \in Nat /\ Len(commits) \in Nat
      OBVIOUS
    <3>2. commits[k].parent \in Nat /\ commits[k].parent < k
      BY <3>1 DEF Commit
    <3> QED
      BY <1>1, <3>1, <3>2 DEF CommitsKept, Ref
  <2>2. /\ TreeAt(commits[k].parent)' = TreeAt(commits[k].parent)
        /\ HistOf(commits[k].parent)' = HistOf(commits[k].parent)
    BY <1>1, <2>1, KeptTrees DEF TreeAt, HistOf
  <2>3. IsOneWrite(k)
    BY DEF CommitIsOneWrite
  <2> QED
    BY <2>1, <2>2, <2>3 DEF IsOneWrite, OneWrite
<1>3. CASE commits' = commits
  BY <1>2, <1>3 DEF CommitIsOneWrite
<1>4. ASSUME NEW p \in Process, CommitTree(p)
      PROVE  CommitIsOneWrite'
  <2>1. PICK new \in Nat : new = Len(commits) + 1
    OBVIOUS
  <2>2. PICK parent \in Ref : parent = local[CloneOf[p]]
    BY CloneOfType
  <2> DEFINE now == TreeAt(parent)
             m == [parent |-> parent,
                   hist |-> HistOf(parent) \cup {new},
                   path |-> Target(p),
                   tree |-> MergeEntry(view[p], Target(p), content[p])]
  <2>3. commits' = Append(commits, m)
    BY <1>4, <2>1, <2>2 DEF Answers, CommitTree
  <2>4. commits'[new] = m /\ Len(commits') = new
    BY <2>1, <2>3
  <2>5. HistOf(parent)' = HistOf(parent) /\ TreeAt(parent)' = TreeAt(parent)
    BY <1>1, KeptTrees DEF TreeAt, HistOf
  <2>6. OneWrite(now, m.path, m.tree)
    BY <1>4, <2>2, <2>3 DEF CommitTree, Goto, Current, OneWrite
  <2>7. IsOneWrite(new)'
    <3> HIDE DEF m
    <3>0. m.parent = parent /\ m.hist = HistOf(parent) \cup {new}
      BY DEF m
    <3>1. /\ TreeAt(commits[new].parent)' = now
          /\ HistOf(commits[new].parent)' = HistOf(parent)
      BY <3>0, <2>4, <2>5 DEF TreeAt, HistOf
    <3>2. OneWrite(TreeAt(commits[new].parent), commits[new].path, commits[new].tree)'
      BY <3>1, <2>4, <2>6 DEF OneWrite
    <3> QED
      BY <3>0, <3>1, <3>2, <2>4 DEF IsOneWrite
  <2>8. \A k \in 1..Len(commits') : k = new \/ k \in 1..Len(commits)
    BY <2>1, <2>4
  <2> QED
    BY <2>7, <2>8, <1>2 DEF CommitIsOneWrite
<1>5. commits' = commits \/ \E p \in Process : CommitTree(p)
  BY DEF Next, Step, Begin, FetchAnswered, FetchFails, Compose, ListRoot, ListDir, UpdateRef,
         ReadLease, PushNowhere, PushAccepted, PushRejected, PushUnanswered, Stop, Checkout,
         vars, repo
<1> QED
  BY <1>3, <1>4, <1>5

\* A write of one file leaves every ledger with all it held.
LEMMA WriteExtends ==
  ASSUME NEW t \in Tree, NEW x \in Path, NEW u, OneWrite(t, x, u), NEW y \in Ledger
  PROVE  u[y] \in Seq(Nat) /\ Extends(t[y], u[y])
<1>1. PICK n \in 1..MaxWrites : \E c \in Composed(x, t[x], n) : u = MergeEntry(t, x, c)
  BY DEF OneWrite
<1>2. y \in Path /\ t[y] \in Seq(Nat) /\ n \in Nat
  BY LedgerType, BoundType DEF Tree
<1>3. CASE y # x
  BY <1>1, <1>2, <1>3 DEF MergeEntry, Tree, Extends
<1>4. CASE y = x
  <2>1. u[y] = Append(t[y], n)
    BY <1>1, <1>4 DEF MergeEntry, Composed, Tree
  <2> QED
    BY <1>2, <2>1 DEF Extends
<1> QED
  BY <1>3, <1>4

LEMMA ExtendsTransitive ==
  ASSUME NEW r \in Seq(Nat), NEW s \in Seq(Nat), NEW t \in Seq(Nat), Extends(r, s), Extends(s, t)
  PROVE  Extends(r, t)
<1>1. Len(r) \in Nat /\ Len(s) \in Nat /\ Len(t) \in Nat /\ Len(r) <= Len(t)
  BY DEF Extends
<1>2. ASSUME NEW i \in 1..Len(r)
      PROVE  t[i] = r[i]
  <2>1. i \in 1..Len(s)
    BY <1>1 DEF Extends
  <2> QED
    BY <2>1 DEF Extends
<1> QED
  BY <1>1, <1>2 DEF Extends

LEMMA LedgerStep ==
  ASSUME Fallible = {}, TypeInv, CommitIsOneWrite, LedgerGrows, \A p \in Process : Current(p), [Next]_vars
  PROVE  LedgerGrows'
<1>1. CommitsKept /\ TypeOK' /\ CommitIsOneWrite'
  BY StepKeepsCommits, TypeStep, CommitStep
<1>2. Len(commits') <= Len(commits) + 1
  <2>1. CASE commits' = commits
    BY <2>1 DEF TypeInv, TypeOK
  <2>2. ASSUME NEW p \in Process, CommitTree(p)
        PROVE  Len(commits') <= Len(commits) + 1
    <3>1. PICK m : commits' = Append(commits, m)
      BY <2>2 DEF CommitTree
    <3> QED
      BY <3>1 DEF TypeInv, TypeOK
  <2>3. commits' = commits \/ \E p \in Process : CommitTree(p)
    BY DEF Next, Step, Begin, FetchAnswered, FetchFails, Compose, ListRoot, ListDir, UpdateRef,
           ReadLease, PushNowhere, PushAccepted, PushRejected, PushUnanswered, Stop, Checkout,
           vars, repo
  <2> QED
    BY <2>1, <2>2, <2>3
<1> SUFFICES ASSUME NEW k \in 1..Len(commits'), NEW j \in commits'[k].hist, NEW x \in Ledger
             PROVE  Extends(commits'[j].tree[x], commits'[k].tree[x])
  BY DEF LedgerGrows
<1>3. Len(commits) \in Nat /\ Len(commits') \in Nat
  BY <1>1 DEF TypeInv, TypeOK
<1>4. CASE k \in 1..Len(commits)
  <2>1. commits'[k] = commits[k] /\ j \in 1..Len(commits)
    BY <1>1, <1>4 DEF CommitsKept, TypeInv, TypeOK
  <2>2. commits'[j] = commits[j]
    BY <1>1, <2>1 DEF CommitsKept
  <2> QED
    BY <1>4, <2>1, <2>2 DEF LedgerGrows
<1>5. CASE k = Len(commits) + 1
  <2> DEFINE parent == commits'[k].parent
             base == TreeAt(parent)
  <2>1. parent \in Ref
    <3>1. commits'[k] \in Commit /\ parent < k
      BY <1>1 DEF TypeOK
    <3>2. parent \in Nat
      BY <3>1 DEF Commit
    <3> QED
      BY <1>3, <1>5, <3>1, <3>2 DEF Ref
  <2>2. base \in Tree /\ HistOf(parent) \subseteq 1..parent
    BY <2>1, TreeTypes DEF TypeInv
  <2>3. /\ commits'[k].hist = HistOf(parent) \cup {k}
        /\ OneWrite(base, commits'[k].path, commits'[k].tree)
        /\ commits'[k].path \in Path
    <3>1. IsOneWrite(k)'
      BY <1>1 DEF CommitIsOneWrite
    <3>2. PICK q \in Ref : q = parent
      BY <2>1
    <3>3. TreeAt(q)' = TreeAt(q) /\ HistOf(q)' = HistOf(q)
      BY <1>1, KeptTrees DEF TreeAt, HistOf
    <3>4. commits'[k] \in Commit
      BY <1>1 DEF TypeOK
    <3>5. TreeAt(commits[k].parent)' = base /\ HistOf(commits[k].parent)' = HistOf(parent)
      BY <3>2, <3>3 DEF TreeAt, HistOf
    <3> QED
      BY <3>1, <3>4, <3>5 DEF IsOneWrite, OneWrite, Commit
  <2>4. commits'[k].tree[x] \in Seq(Nat) /\ Extends(base[x], commits'[k].tree[x])
    BY <2>2, <2>3, WriteExtends
  <2>5. CASE j = k
    BY <2>4, <2>5 DEF Extends
  <2>6. CASE j # k
    <3>1. j \in HistOf(parent) /\ j \in 1..Len(commits)
      BY <2>1, <2>2, <2>3, <2>6, <1>3 DEF Ref
    <3>2. commits'[j] = commits[j] /\ parent \in 1..Len(commits) /\ j \in commits[parent].hist
      BY <1>1, <2>1, <3>1, <1>3 DEF CommitsKept, HistOf, Ref, NoCommit
    <3>3. Extends(commits[j].tree[x], base[x])
      BY <3>2 DEF LedgerGrows, TreeAt, NoCommit
    <3>4. commits[j].tree[x] \in Seq(Nat) /\ base[x] \in Seq(Nat)
      <4>1. x \in Path
        BY LedgerType
      <4>2. commits[j] \in Commit
        BY <3>1 DEF TypeInv, TypeOK
      <4> QED
        BY <4>1, <4>2, <2>2 DEF Commit, Tree
    <3> QED
      BY <3>2, <3>3, <3>4, <2>4, ExtendsTransitive
  <2> QED
    BY <2>5, <2>6
<1> QED
  BY <1>2, <1>3, <1>4, <1>5

LEMMA SafetyInvariant ==
  ASSUME Exclusive, Fallible = {}
  PROVE  Spec => []SafetyInv
<1>1. Init => SafetyInv
  BY TypeInit DEF Init, SafetyInv, TypeInv, WorkLeft, CommitIsOneWrite, LedgerGrows, Current
<1>2. SafetyInv /\ [Next]_vars => SafetyInv'
  BY TypeStep, WorkLeftStep, CommitStep, LedgerStep, CurrentStep DEF SafetyInv, TypeInv
<1> QED
  BY <1>1, <1>2, PTL DEF Spec

-----------------------------------------------------------------------------
(* The theorems. *)

\* With one command at a time in a checkout and reads that work, no release
\* record is ever lost, changed or moved along the history of the branch.
THEOREM LedgerSafe ==
  ASSUME Exclusive, Fallible = {}
  PROVE  Spec => []LedgerGrows
<1>1. SafetyInv => LedgerGrows
  BY DEF SafetyInv
<1> QED
  BY <1>1, SafetyInvariant, PTL

\* Under the same assumptions a write changes the one file it is for.
THEOREM WritesPreserve ==
  ASSUME Exclusive, Fallible = {}
  PROVE  Spec => []WritePreservesOthers
<1>1. SafetyInv => WritePreservesOthers
  <2> SUFFICES ASSUME SafetyInv, NEW k \in 1..Len(commits), NEW x \in Path \ {commits[k].path}
               PROVE  commits[k].tree[x] = TreeAt(commits[k].parent)[x]
    BY DEF WritePreservesOthers
  <2>1. commits[k] \in Commit /\ commits[k].parent < k /\ Len(commits) \in Nat
    BY DEF SafetyInv, TypeInv, TypeOK
  <2>2. TreeAt(commits[k].parent) \in Tree
    <3>1. commits[k].parent \in Ref
      BY <2>1 DEF Commit, Ref
    <3> QED
      BY <3>1, TreeTypes DEF SafetyInv, TypeInv
  <2>3. PICK c : commits[k].tree = MergeEntry(TreeAt(commits[k].parent), commits[k].path, c)
    BY DEF SafetyInv, CommitIsOneWrite, IsOneWrite, OneWrite
  <2> QED
    BY <2>2, <2>3 DEF MergeEntry, Tree
<1> QED
  BY <1>1, SafetyInvariant, PTL

LEMMA AncestorReflexive ==
  ASSUME SafetyInv, NEW k \in Ref
  PROVE  IsAncestor(k, k)
<1>1. CASE k = NoCommit
  BY <1>1 DEF IsAncestor
<1>2. CASE k # NoCommit
  <2>1. k \in 1..Len(commits)
    BY <1>2 DEF Ref, NoCommit, SafetyInv, TypeInv, TypeOK
  <2>2. k \in commits[k].hist
    BY <2>1 DEF SafetyInv, CommitIsOneWrite, IsOneWrite
  <2> QED
    BY <1>2, <2>2 DEF IsAncestor, HistOf
<1> QED
  BY <1>1, <1>2

\* The branch of a checkout only moves forward, though update-ref checks nothing
\* and the parent was read in an earlier step.
THEOREM FastForward ==
  ASSUME Exclusive, Fallible = {}
  PROVE  Spec => LocalFastForward
<1> DEFINE Forward == \A c \in Clone : IsAncestor(local[c], local'[c]) \/ checkouts' # checkouts
<1>1. ASSUME SafetyInv, [Next]_vars
      PROVE  Forward
  <2> USE <1>1 DEF SafetyInv, TypeInv, TypeOK
  <2>1. \A c \in Clone : local'[c] = local[c] => IsAncestor(local[c], local'[c])
    BY AncestorReflexive
  <2>2. CASE UNCHANGED local
    BY <2>1, <2>2
  <2>3. ASSUME NEW p \in Process, FetchAnswered(p)
        PROVE  Forward
    <3> DEFINE d == CloneOf[p]
    <3>1. local' = [local EXCEPT ![d] = IF CanForward(d) THEN remote ELSE local[d]]
      BY <2>3 DEF FetchAnswered
    <3>2. d \in Clone
      BY CloneOfType
    <3>3. ASSUME NEW c \in Clone
          PROVE  IsAncestor(local[c], local'[c])
      <4>1. CASE c = d /\ CanForward(d)
        BY <3>1, <3>2, <4>1 DEF CanForward
      <4>2. CASE ~(c = d /\ CanForward(d))
        BY <3>1, <3>2, <4>2, <2>1
      <4> QED
        BY <4>1, <4>2
    <3> QED
      BY <3>3
  <2>4. ASSUME NEW p \in Process, UpdateRef(p)
        PROVE  Forward
    <3> DEFINE d == CloneOf[p]
    <3>1. local' = [local EXCEPT ![d] = made[p]] /\ d \in Clone /\ pc[p] = "update"
      BY <2>4, CloneOfType DEF UpdateRef, Goto
    <3>2. made[p] \in 1..Len(commits) /\ commits[made[p]].parent = local[d]
      BY <3>1 DEF Current
    <3>3. HistOf(local[d]) \subseteq commits[made[p]].hist
      BY <3>2 DEF CommitIsOneWrite, IsOneWrite
    <3>4. IsAncestor(local[d], local[d]) /\ made[p] # NoCommit
      BY <3>1, <3>2, AncestorReflexive DEF NoCommit
    <3>5. IsAncestor(local[d], made[p])
      BY <3>3, <3>4 DEF IsAncestor, HistOf
    <3>6. ASSUME NEW c \in Clone
          PROVE  IsAncestor(local[c], local'[c])
      <4>1. CASE c = d
        BY <3>1, <3>5, <4>1
      <4>2. CASE c # d
        BY <3>1, <4>2, <2>1
      <4> QED
        BY <4>1, <4>2
    <3> QED
      BY <3>6
  <2>5. ASSUME NEW c \in Clone, Checkout(c)
        PROVE  Forward
    BY <2>5 DEF Checkout
  <2>6. \/ UNCHANGED local \/ \E p \in Process : FetchAnswered(p) \/ UpdateRef(p)
        \/ \E c \in Clone : Checkout(c)
    BY DEF Next, Step, Begin, FetchFails, Compose, ListRoot, ListDir, CommitTree,
           ReadLease, PushNowhere, PushAccepted, PushRejected, PushUnanswered, Stop, vars, repo
  <2> QED
    BY <2>2, <2>3, <2>4, <2>5, <2>6
<1>2. SafetyInv /\ [Next]_vars => [Forward]_vars
  BY <1>1
<1> QED
  BY <1>2, SafetyInvariant, PTL DEF Spec, LocalFastForward

\* The remote loses a commit only to a checkout that had seen it: the lease is
\* what that checkout's remote-tracking ref was when the push started.
THEOREM BlindOverwrite ==
  ASSUME Exclusive, Fallible = {}
  PROVE  Spec => NoBlindOverwrite
<1> DEFINE Seen ==
             IsAncestor(remote, remote') \/ \E c \in Clone : /\ tracking[c] = remote
                                                             /\ local[c] = remote'
<1>1. SafetyInv /\ [Next]_vars => Seen
  <2> SUFFICES ASSUME SafetyInv, [Next]_vars
               PROVE  Seen
    OBVIOUS
  <2> USE DEF SafetyInv, TypeInv, TypeOK
  <2>1. CASE UNCHANGED remote
    BY <2>1, AncestorReflexive
  <2>2. ASSUME NEW p \in Process, PushAccepted(p) \/ PushUnanswered(p), remote' # remote
        PROVE  Seen
    <3> DEFINE c == CloneOf[p]
    <3>1. c \in Clone /\ pc[p] = "push" /\ LeaseHolds(p) /\ remote' = local[c]
      BY <2>2, CloneOfType DEF PushAccepted, PushUnanswered, Finish, Goto
    <3>2. lease[p] = tracking[c]
      BY <3>1 DEF Current
    <3> QED
      BY <2>2, <3>1, <3>2 DEF LeaseHolds
  <2>3. UNCHANGED remote \/ \E p \in Process : PushAccepted(p) \/ PushUnanswered(p)
    BY DEF Next, Step, Begin, FetchAnswered, FetchFails, Compose, ListRoot, ListDir, CommitTree,
           UpdateRef, ReadLease, PushNowhere, PushRejected, Stop, Checkout, vars, repo
  <2> QED
    BY <2>1, <2>2, <2>3
<1>2. Spec => [][Seen]_vars
  BY <1>1, SafetyInvariant, PTL DEF Spec
<1> QED
  BY <1>2, PTL DEF NoBlindOverwrite

-----------------------------------------------------------------------------
(* The store the branch implements. *)

\* The update-ref that ends a write is where the store records it.
LEMMA UpdateRecords ==
  ASSUME SafetyInv, NEW p \in Process, UpdateRef(p)
  PROVE  Store!StoreNext
<1> USE DEF SafetyInv, TypeInv, TypeOK
<1> DEFINE c == CloneOf[p]
           x == Target(p)
           now == TreeAt(local[c])
           m == made[p]
<1>1. /\ c \in Clone
      /\ pc[p] = "update"
      /\ local' = [local EXCEPT ![c] = m]
      /\ UNCHANGED <<commits, remote>>
  BY CloneOfType DEF UpdateRef, Goto
<1>2. m \in 1..Len(commits) /\ commits[m].parent = local[c] /\ commits[m].path = x
  BY <1>1 DEF Current
<1>3. now \in Tree /\ x \in Path
  <2>1. commits[m] \in Commit /\ local[c] \in Ref
    BY <1>1, <1>2
  <2> QED
    BY <1>2, <2>1, TreeTypes DEF Commit
<1>4. PICK n \in 1..MaxWrites :
        \E s \in Composed(x, now[x], n) : commits[m].tree = MergeEntry(now, x, s)
  BY <1>2 DEF CommitIsOneWrite, IsOneWrite, OneWrite
<1>5. PICK s \in Composed(x, now[x], n) : commits[m].tree = MergeEntry(now, x, s)
  BY <1>4
<1>6. TreeAt(m) = [now EXCEPT ![x] = s] /\ m # NoCommit
  BY <1>2, <1>5 DEF TreeAt, NoCommit, MergeEntry
<1>7. s \in Store!Added(x, now[x], n)
  <2>1. Accepted(now[x], n) = Store!Taken(now[x], n)
    BY DEF Accepted, Store!Taken
  <2> QED
    BY <1>5, <2>1 DEF Composed, Store!Added
<1>8. \A d \in Clone : TreeAt(local[d])' = IF d = c THEN TreeAt(m) ELSE TreeAt(local[d])
  BY <1>1 DEF TreeAt
<1>9. Store!Record(c, x, n)
  <2> DEFINE store == [d \in Clone |-> TreeAt(local[d])]
  <2>1. store[c][x] = now[x]
    BY <1>1
  <2>2. store' = [store EXCEPT ![c] = [now EXCEPT ![x] = s]]
    BY <1>6, <1>8
  <2>3. store' = [store EXCEPT ![c][x] = s]
    BY <1>1, <2>2
  <2>4. TreeAt(remote)' = TreeAt(remote)
    BY <1>1 DEF TreeAt
  <2> QED
    BY <1>7, <2>1, <2>3, <2>4 DEF Store!Record
<1> QED
  BY <1>1, <1>3, <1>9 DEF Store!StoreNext

\* A fetch that forwards the branch takes over a copy that drops no record.
LEMMA FetchIntegrates ==
  ASSUME SafetyInv, NEW p \in Process, FetchAnswered(p)
  PROVE  Store!StoreNext \/ UNCHANGED Store!storeVars
<1> USE DEF SafetyInv, TypeInv, TypeOK
<1> DEFINE c == CloneOf[p]
<1>1. /\ c \in Clone
      /\ local' = [local EXCEPT ![c] = IF CanForward(c) THEN remote ELSE local[c]]
      /\ UNCHANGED <<commits, remote>>
      /\ remote \in 1..Len(commits)
  BY CloneOfType DEF FetchAnswered, Ref, NoCommit
<1>2. CASE ~CanForward(c)
  <2>1. local' = local
    BY <1>1, <1>2
  <2> QED
    BY <1>1, <2>1 DEF Store!storeVars, TreeAt
<1>3. CASE CanForward(c)
  <2>1. ASSUME NEW x \in Ledger
        PROVE  Store!Extends(TreeAt(local[c])[x], TreeAt(remote)[x])
    <3>1. x \in Path /\ remote \in Ref /\ TreeAt(remote) = commits[remote].tree
      BY <1>1, LedgerType DEF TreeAt, NoCommit, Ref
    <3>2. TreeAt(remote)[x] \in Seq(Nat)
      BY <3>1, TreeTypes DEF Tree
    <3>3. CASE local[c] = NoCommit
      <4>1. TreeAt(local[c])[x] = <<>>
        BY <3>1, <3>3 DEF TreeAt, EmptyTree
      <4> QED
        BY <3>2, <4>1 DEF Store!Extends
    <3>4. CASE local[c] # NoCommit
      <4>1. local[c] \in commits[remote].hist
        BY <1>1, <1>3, <3>4 DEF CanForward, IsAncestor, HistOf, NoCommit
      <4>2. Extends(commits[local[c]].tree[x], commits[remote].tree[x])
        BY <1>1, <4>1 DEF LedgerGrows
      <4> QED
        BY <3>1, <3>4, <4>2 DEF Extends, Store!Extends, TreeAt
    <3> QED
      BY <3>3, <3>4
  <2>2. \A d \in Clone : TreeAt(local[d])' = IF d = c THEN TreeAt(remote) ELSE TreeAt(local[d])
    BY <1>1, <1>3 DEF TreeAt
  <2>3. Store!Integrate(c)
    BY <1>1, <2>1, <2>2 DEF Store!Integrate, TreeAt
  <2> QED
    BY <1>1, <2>3 DEF Store!StoreNext
<1> QED
  BY <1>2, <1>3

\* A push the remote takes, answered or not, publishes the checkout's store.
LEMMA PushPublishes ==
  ASSUME SafetyInv, NEW p \in Process, PushAccepted(p) \/ PushUnanswered(p)
  PROVE  Store!StoreNext \/ UNCHANGED Store!storeVars
<1> DEFINE c == CloneOf[p]
<1>1. c \in Clone /\ UNCHANGED <<commits, local>> /\ remote' \in {remote, local[c]}
  BY CloneOfType DEF PushAccepted, PushUnanswered
<1>2. CASE remote' = remote
  BY <1>1, <1>2 DEF Store!storeVars, TreeAt
<1>3. CASE remote' = local[c]
  <2>1. Store!Publish(c)
    BY <1>1, <1>3 DEF Store!Publish, TreeAt
  <2> QED
    BY <1>1, <2>1 DEF Store!StoreNext
<1> QED
  BY <1>1, <1>2, <1>3

LEMMA CheckoutResets ==
  ASSUME SafetyInv, NEW c \in Clone, Checkout(c)
  PROVE  Store!StoreNext
<1>1. local' = [local EXCEPT ![c] = NoCommit] /\ UNCHANGED <<commits, remote>>
  BY DEF Checkout
<1>2. \A d \in Clone : TreeAt(local[d])' = IF d = c THEN Store!Empty ELSE TreeAt(local[d])
  BY <1>1 DEF TreeAt, EmptyTree, Store!Empty, SafetyInv, TypeInv, TypeOK
<1>3. Store!Reset(c)
  BY <1>1, <1>2 DEF Store!Reset, TreeAt
<1> QED
  BY <1>3 DEF Store!StoreNext

\* What moves no ref changes no store, whatever objects it adds.
LEMMA RefsKeepStore ==
  ASSUME SafetyInv, [Next]_vars, UNCHANGED <<local, remote>>
  PROVE  UNCHANGED Store!storeVars
<1> USE DEF SafetyInv, TypeInv, TypeOK
<1>1. CommitsKept
  BY StepKeepsCommits
<1>2. \A d \in Clone : TreeAt(local[d])' = TreeAt(local[d])
  BY <1>1, KeptTrees DEF TreeAt
<1>3. TreeAt(remote)' = TreeAt(remote)
  BY <1>1, KeptTrees DEF TreeAt
<1> QED
  BY <1>2, <1>3 DEF Store!storeVars

\* With one command at a time in a checkout and reads that work, every
\* checkout is an indivisible file store: of a write nothing shows before its
\* update-ref, and then all of it and nothing else (git.ts:100).
THEOREM Implements ==
  ASSUME Exclusive, Fallible = {}
  PROVE  Spec => ImplementsStore
<1>1. Init => Store!StoreInit
  BY DEF Init, Store!StoreInit, Store!Empty, TreeAt, EmptyTree, NoCommit
<1>2. SafetyInv /\ [Next]_vars => [Store!StoreNext]_(Store!storeVars)
  <2> SUFFICES ASSUME SafetyInv, [Next]_vars
               PROVE  Store!StoreNext \/ UNCHANGED Store!storeVars
    OBVIOUS
  <2>1. ASSUME NEW p \in Process, Step(p)
        PROVE  Store!StoreNext \/ UNCHANGED Store!storeVars
    <3>1. \/ UpdateRef(p) \/ FetchAnswered(p) \/ PushAccepted(p) \/ PushUnanswered(p)
          \/ UNCHANGED <<local, remote>>
      BY <2>1 DEF Step, Begin, FetchFails, Compose, ListRoot, ListDir, CommitTree,
                  ReadLease, PushNowhere, PushRejected, Stop, repo
    <3> QED
      BY <3>1, UpdateRecords, FetchIntegrates, PushPublishes, RefsKeepStore
  <2>2. ASSUME NEW c \in Clone, Checkout(c)
        PROVE  Store!StoreNext
    BY <2>2, CheckoutResets
  <2>3. CASE UNCHANGED vars
    BY <2>3, RefsKeepStore DEF vars, repo
  <2> QED
    BY <2>1, <2>2, <2>3 DEF Next
<1> QED
  BY <1>1, <1>2, SafetyInvariant, PTL DEF Spec, ImplementsStore, Store!StoreSpec

-----------------------------------------------------------------------------
(* Wiring: nothing here needs commands to be alone, or reads to succeed. *)

\* Every token of the content s was issued for x, as log tells.
WrittenFor(s, x, log) == \A i \in 1..Len(s) : s[i] \in 1..Len(log) /\ log[s[i]] = x

Wired(t, log) == \A x \in Path : WrittenFor(t[x], x, log)

CommitsWired == \A k \in 1..Len(commits) : Wired(commits[k].tree, issued)

\* So are the tree a process has read and the content it is about to put there.
WorkWired(p) ==
  /\ Wired(view[p], issued)
  /\ pc[p] \in {"root", "list", "commit"} => WrittenFor(content[p], Target(p), issued)

WireInv == /\ TypeInv
           /\ CommitsWired
           /\ \A p \in Process : WorkWired(p)

IssuedKept ==
  \A i \in 1..Len(issued) : i \in 1..Len(issued') /\ issued'[i] = issued[i]

LEMMA StepKeepsIssued ==
  ASSUME TypeInv, [Next]_vars
  PROVE  IssuedKept
<1>1. CASE issued' = issued
  BY <1>1 DEF IssuedKept, TypeInv, TypeOK
<1>2. ASSUME NEW p \in Process, Compose(p)
      PROVE  IssuedKept
  <2>1. issued' = Append(issued, Target(p))
    BY <1>2 DEF Compose
  <2> QED
    BY <2>1 DEF IssuedKept, TypeInv, TypeOK
<1>3. issued' = issued \/ \E p \in Process : Compose(p)
  BY DEF Next, Step, Begin, FetchAnswered, FetchFails, ListRoot, ListDir, CommitTree, UpdateRef,
         ReadLease, PushNowhere, PushAccepted, PushRejected, PushUnanswered, Stop, Finish,
         Checkout, vars
<1> QED
  BY <1>1, <1>2, <1>3

\* A write, once issued, stays issued for its file.
LEMMA StaysWired ==
  ASSUME TypeInv, IssuedKept
  PROVE  /\ \A s, x : WrittenFor(s, x, issued) => WrittenFor(s, x, issued')
         /\ \A t : Wired(t, issued) => Wired(t, issued')
<1>1. ASSUME NEW s, NEW x, WrittenFor(s, x, issued)
      PROVE  WrittenFor(s, x, issued')
  BY <1>1 DEF WrittenFor, IssuedKept, TypeInv, TypeOK
<1> QED
  BY <1>1 DEF Wired

LEMMA ComposedFor ==
  ASSUME NEW log, NEW x \in Path, NEW s \in Seq(Nat), NEW n \in Nat, NEW u \in Composed(x, s, n),
         WrittenFor(s, x, log), n \in 1..Len(log), log[n] = x
  PROVE  WrittenFor(u, x, log)
<1>1. \A i \in 1..Len(u) : u[i] = n \/ (i \in 1..Len(s) /\ u[i] = s[i])
  BY ComposedContent
<1> QED
  BY <1>1 DEF WrittenFor

LEMMA TreesWired ==
  ASSUME TypeInv, CommitsWired
  PROVE  Wired(EmptyTree, issued) /\ \A k \in Ref : Wired(TreeAt(k), issued)
<1>1. Wired(EmptyTree, issued)
  BY DEF Wired, WrittenFor, EmptyTree
<1>2. ASSUME NEW k \in Ref
      PROVE  Wired(TreeAt(k), issued)
  <2>1. CASE k = NoCommit
    BY <1>1, <2>1 DEF TreeAt
  <2>2. CASE k # NoCommit
    <3>1. k \in 1..Len(commits)
      BY <2>2 DEF Ref, NoCommit, TypeInv, TypeOK
    <3> QED
      BY <2>2, <3>1 DEF TreeAt, CommitsWired
  <2> QED
    BY <2>1, <2>2
<1> QED
  BY <1>1, <1>2

\* What the next view of q is put together from is wired; so is what it writes.
LEMMA WorkWiredStep ==
  ASSUME WireInv, [Next]_vars, NEW q \in Process
  PROVE  WorkWired(q)'
<1> USE DEF WireInv, TypeInv, TypeOK, Goto
<1>0. \A t : Wired(t, issued) => Wired(t, issued')
  BY StepKeepsIssued, StaysWired
<1>a. /\ Wired(view[q], issued)
      /\ pc[q] \in {"root", "list", "commit"} => WrittenFor(content[q], Target(q), issued')
  BY StepKeepsIssued, StaysWired DEF WorkWired
<1>b. /\ local[CloneOf[q]] \in Ref
      /\ Wired(TreeAt(local[CloneOf[q]]), issued)
      /\ Wired(EmptyTree, issued)
  <2>1. local[CloneOf[q]] \in Ref
    BY CloneOfType
  <2> QED
    BY <2>1, TreesWired
<1>c. ASSUME UNCHANGED <<pc[q], todo[q], content[q], view[q]>>
      PROVE  WorkWired(q)'
  BY <1>a, <1>c, <1>0 DEF WorkWired, Target
<1>d. ASSUME Wired(view'[q], issued), pc'[q] \notin {"root", "list", "commit"}
      PROVE  WorkWired(q)'
  BY <1>d, <1>0 DEF WorkWired
<1>e. ASSUME Wired(view'[q], issued), UNCHANGED <<content[q], todo[q]>>,
             pc[q] \in {"root", "list", "commit"}
      PROVE  WorkWired(q)'
  BY <1>e, <1>a, <1>0 DEF WorkWired, Target
<1>1. ASSUME NEW p \in Process, Step(p), p # q
      PROVE  WorkWired(q)'
  <2>1. UNCHANGED <<pc[q], todo[q], content[q], view[q]>>
    BY <1>1 DEF Step, Begin, FetchAnswered, FetchFails, Compose, ListRoot, ListDir, CommitTree,
                UpdateRef, ReadLease, PushNowhere, PushAccepted, PushRejected, PushUnanswered,
                Stop, Finish, work
  <2> QED
    BY <2>1, <1>c
<1>2. CASE Begin(q) \/ FetchAnswered(q) \/ FetchFails(q) \/ CommitTree(q) \/ ReadLease(q)
  <2>1. view' = view /\ pc'[q] \notin {"root", "list", "commit"}
    BY <1>2 DEF Begin, FetchAnswered, FetchFails, AfterFetch, CommitTree, ReadLease, work
  <2> QED
    BY <2>1, <1>a, <1>d
<1>3. CASE \/ UpdateRef(q) \/ PushNowhere(q) \/ PushAccepted(q) \/ PushRejected(q)
           \/ PushUnanswered(q) \/ Stop(q)
  <2>1. view'[q] = EmptyTree /\ pc'[q] \notin {"root", "list", "commit"}
    BY <1>3 DEF UpdateRef, PushNowhere, PushAccepted, PushRejected, PushUnanswered, Stop, Finish
  <2> QED
    BY <2>1, <1>b, <1>d
<1>4. CASE Compose(q)
  <2> DEFINE n == Len(issued) + 1
             x == Target(q)
             there == TreeAt(local[CloneOf[q]])[x]
  <2>0. x \in Path /\ there \in Seq(Nat)
    <3>1. x \in Path /\ TreeAt(local[CloneOf[q]]) \in Tree
      BY <1>4, <1>b, TargetType, TreeTypes DEF Compose
    <3> QED
      BY <3>1 DEF Tree
  <2>1. issued' = Append(issued, x) /\ UNCHANGED <<todo, view>>
    BY <1>4 DEF Compose
  <2>2. PICK old \in {there, <<>>} : content'[q] \in Composed(x, old, n)
    BY <1>4 DEF Answers, Compose
  <2>3. n \in 1..Len(issued') /\ issued'[n] = x
    BY <2>0, <2>1
  <2>4. WrittenFor(old, x, issued') /\ old \in Seq(Nat)
    <3>1. Wired(TreeAt(local[CloneOf[q]]), issued')
      BY <1>b, <1>0
    <3>2. WrittenFor(there, x, issued')
      BY <2>0, <3>1 DEF Wired
    <3>3. WrittenFor(<<>>, x, issued') /\ <<>> \in Seq(Nat)
      BY DEF WrittenFor
    <3> QED
      BY <2>0, <2>2, <3>2, <3>3
  <2>5. WrittenFor(content'[q], x, issued')
    BY <2>0, <2>2, <2>3, <2>4, ComposedFor
  <2>6. Target(q)' = x
    BY <2>1 DEF Target
  <2> QED
    BY <2>1, <2>5, <2>6, <1>a, <1>0 DEF WorkWired
<1>5. CASE ListRoot(q)
  <2>1. /\ pc[q] = "root" /\ UNCHANGED <<content, todo>>
        /\ view'[q] \in {TreeAt(local[CloneOf[q]]), EmptyTree}
    BY <1>5 DEF Answers, ListRoot
  <2> QED
    BY <2>1, <1>b, <1>e
<1>6. CASE ListDir(q)
  <2>1. /\ pc[q] = "list" /\ UNCHANGED <<content, todo>>
        /\ \E e \in pending[q], now \in {TreeAt(local[CloneOf[q]]), EmptyTree} :
              view'[q] \in {WithDir(view[q], e, EmptyTree), WithDir(view[q], e, now), view[q]}
    BY <1>6 DEF Answers, ListDir
  <2>2. ASSUME NEW t, NEW u, NEW e, Wired(t, issued), Wired(u, issued)
        PROVE  Wired(WithDir(t, e, u), issued)
    BY <2>2 DEF Wired, WithDir
  <2>3. Wired(view'[q], issued)
    BY <2>1, <2>2, <1>a, <1>b
  <2> QED
    BY <2>1, <2>3, <1>e
<1>7. ASSUME NEW c \in Clone, Checkout(c)
      PROVE  WorkWired(q)'
  BY <1>7, <1>c DEF Checkout, work
<1>8. CASE UNCHANGED vars
  BY <1>8, <1>c DEF vars, work
<1> QED
  BY <1>1, <1>2, <1>3, <1>4, <1>5, <1>6, <1>7, <1>8 DEF Next, Step

LEMMA CommitsWiredStep ==
  ASSUME WireInv, [Next]_vars
  PROVE  CommitsWired'
<1> USE DEF WireInv, TypeInv, TypeOK
<1>0. \A t : Wired(t, issued) => Wired(t, issued')
  BY StepKeepsIssued, StaysWired
<1>a. ASSUME NEW k \in 1..Len(commits)
      PROVE  Wired(commits'[k].tree, issued')
  BY <1>0, StepKeepsCommits DEF CommitsWired, CommitsKept
<1>1. CASE commits' = commits
  BY <1>1, <1>a DEF CommitsWired
<1>2. ASSUME NEW p \in Process, CommitTree(p)
      PROVE  CommitsWired'
  <2>1. PICK m : /\ commits' = Append(commits, m)
                 /\ m.tree = MergeEntry(view[p], Target(p), content[p])
                 /\ pc[p] = "commit"
    BY <1>2 DEF CommitTree, Goto
  <2>2. view[p] \in Tree /\ Wired(view[p], issued) /\ WrittenFor(content[p], Target(p), issued)
    BY <2>1 DEF WorkWired
  <2>3. Wired(m.tree, issued')
    BY <2>1, <2>2, <1>0 DEF Wired, MergeEntry, Tree
  <2>4. Len(commits') = Len(commits) + 1 /\ commits'[Len(commits) + 1] = m
    BY <2>1
  <2>5. Len(commits) \in Nat
    OBVIOUS
  <2>6. \A k \in 1..Len(commits') : k = Len(commits) + 1 \/ k \in 1..Len(commits)
    BY <2>4, <2>5, LastOrBefore
  <2> QED
    BY <2>3, <2>4, <2>6, <1>a DEF CommitsWired
<1>3. commits' = commits \/ \E p \in Process : CommitTree(p)
  BY DEF Next, Step, Begin, FetchAnswered, FetchFails, Compose, ListRoot, ListDir, UpdateRef,
         ReadLease, PushNowhere, PushAccepted, PushRejected, PushUnanswered, Stop, Checkout,
         vars, repo
<1> QED
  BY <1>1, <1>2, <1>3

\* However many commands work in a checkout at once, and whichever git reads fail,
\* no commit holds under a path what was written for another: writes can be lost
\* (git.ts:100), but not mixed up.
THEOREM NeverCrossed == Spec => []NoCrossWiring
<1>1. Init => WireInv
  BY TypeInit DEF Init, WireInv, TypeInv, WorkLeft, CommitsWired, WorkWired, Wired, WrittenFor,
                  EmptyTree
<1>2. WireInv /\ [Next]_vars => WireInv'
  BY TypeStep, WorkLeftStep, CommitsWiredStep, WorkWiredStep DEF WireInv, TypeInv
<1>3. WireInv => NoCrossWiring
  BY DEF WireInv, CommitsWired, Wired, WrittenFor, NoCrossWiring
<1> QED
  BY <1>1, <1>2, <1>3, PTL DEF Spec

-----------------------------------------------------------------------------
(* The ledger a command adds to, whatever its other reads do. *)

\* A command that is alone in its checkout and could read its ledger writes one record
\* more than that ledger holds.
OwnContent(p) ==
  LET now == TreeAt(local[CloneOf[p]]) IN
  Alone(p) /\ pc[p] \in {"root", "list", "commit"} /\ ~missed[p] =>
    \E n \in Nat : content[p] \in Composed(Target(p), now[Target(p)], n)

OwnInv == TypeInv /\ \A p \in Process : OwnContent(p)

LEMMA OwnContentStep ==
  ASSUME OwnInv, [Next]_vars, NEW q \in Process
  PROVE  OwnContent(q)'
<1> DEFINE c == CloneOf[q]
           now == TreeAt(local[c])
<1> USE DEF OwnInv, TypeInv, TypeOK, Goto
<1>a. c \in Clone /\ local[c] \in Ref /\ CommitsKept /\ OwnContent(q)
  BY CloneOfType, StepKeepsCommits
<1>b. ASSUME UNCHANGED <<local[c], todo[q], content[q], missed[q]>>, pc'[q] \in {"root", "list", "commit"}
             => pc[q] \in {"root", "list", "commit"}
      PROVE  OwnContent(q)'
  <2>1. now' = now /\ Target(q)' = Target(q)
    BY <1>a, <1>b, KeptTrees DEF TreeAt, Target
  <2>2. Alone(q)' <=> Alone(q)
    BY DEF Alone
  <2> QED
    BY <1>a, <1>b, <2>1, <2>2 DEF OwnContent
<1>c. ASSUME pc'[q] \notin {"root", "list", "commit"}
      PROVE  OwnContent(q)'
  BY <1>c DEF OwnContent
<1>1. ASSUME NEW p \in Process, Step(p), p # q
      PROVE  OwnContent(q)'
  <2>1. CASE CloneOf[p] # CloneOf[q]
    <3>1. Undisturbed(q)
      BY <1>1, <2>1, OthersUndisturbed
    <3> QED
      BY <3>1, <1>b DEF Undisturbed
  <2>2. CASE CloneOf[p] = CloneOf[q]
    <3>1. ~Alone(q)'
      BY <1>1, <2>2 DEF Alone
    <3> QED
      BY <3>1 DEF OwnContent
  <2> QED
    BY <2>1, <2>2
<1>2. CASE \/ Begin(q) \/ FetchAnswered(q) \/ FetchFails(q) \/ CommitTree(q) \/ UpdateRef(q)
           \/ ReadLease(q) \/ PushNowhere(q) \/ PushAccepted(q) \/ PushRejected(q)
           \/ PushUnanswered(q) \/ Stop(q)
  <2>1. pc'[q] \notin {"root", "list", "commit"}
    BY <1>2 DEF Begin, FetchAnswered, FetchFails, AfterFetch, CommitTree, UpdateRef, ReadLease,
                PushNowhere, PushAccepted, PushRejected, PushUnanswered, Stop, Finish
  <2> QED
    BY <2>1, <1>c
<1>3. CASE Compose(q)
  <2>1. /\ UNCHANGED <<local, todo>>
        /\ \E old : /\ content'[q] \in Composed(Target(q), old, Len(issued) + 1)
                    /\ missed'[q] = (old # now[Target(q)])
    BY <1>3 DEF Compose, repo
  <2>2. now' = now /\ Target(q)' = Target(q)
    BY <2>1, <1>a, KeptTrees DEF TreeAt, Target
  <2>3. Len(issued) + 1 \in Nat
    OBVIOUS
  <2> QED
    BY <2>1, <2>2, <2>3 DEF OwnContent
<1>4. CASE ListRoot(q) \/ ListDir(q)
  <2>1. /\ UNCHANGED <<local, todo, content, missed>>
        /\ pc[q] \in {"root", "list"}
    BY <1>4 DEF ListRoot, ListDir, repo
  <2> QED
    BY <2>1, <1>b
<1>5. ASSUME NEW d \in Clone, Checkout(d)
      PROVE  OwnContent(q)'
  <2>1. UNCHANGED <<pc, todo, content, missed>> /\ local' = [local EXCEPT ![d] = NoCommit]
    BY <1>5 DEF Checkout, work
  <2>2. CASE d = c
    <3>1. pc'[q] = "idle"
      BY <1>5, <2>2 DEF Checkout
    <3> QED
      BY <3>1, <1>c
  <2>3. CASE d # c
    BY <2>1, <2>3, <1>a, <1>b
  <2> QED
    BY <2>2, <2>3
<1>6. CASE UNCHANGED vars
  BY <1>6, <1>b DEF vars, repo, work
<1> QED
  BY <1>1, <1>2, <1>3, <1>4, <1>5, <1>6 DEF Next, Step

\* A release keeps every record of the ledger its checkout holds, also when git could
\* read nothing else, as long as it could read that ledger and no other command is in
\* its checkout; what commands of other checkouts do to theirs does not matter.
THEOREM OwnLedger == Spec => OwnLedgerGrows
<1> DEFINE Grows ==
             \A p \in Process :
               Alone(p) /\ pc[p] = "commit" /\ pc'[p] = "update" /\ ~missed[p] =>
                 LET m == commits'[made'[p]]
                     held == TreeAt(local[CloneOf[p]])[m.path] IN
                 m.path \in Ledger => Extends(held, m.tree[m.path])
<1>1. OwnInv /\ [Next]_vars => Grows
  <2> SUFFICES ASSUME OwnInv, [Next]_vars, NEW p \in Process,
                      Alone(p), pc[p] = "commit", pc'[p] = "update", ~missed[p],
                      commits'[made'[p]].path \in Ledger
               PROVE  Extends(TreeAt(local[CloneOf[p]])[commits'[made'[p]].path],
                              commits'[made'[p]].tree[commits'[made'[p]].path])
    OBVIOUS
  <2> USE DEF OwnInv, TypeInv, TypeOK
  <2> DEFINE x == Target(p)
             now == TreeAt(local[CloneOf[p]])
  <2>1. CommitTree(p)
    <3>1. ASSUME NEW r \in Process, Step(r), r # p
          PROVE  pc'[p] = pc[p]
      BY <3>1 DEF Step, Begin, FetchAnswered, FetchFails, Compose, ListRoot, ListDir, CommitTree,
                  UpdateRef, ReadLease, PushNowhere, PushAccepted, PushRejected,
                  PushUnanswered, Stop, Finish, Goto
    <3>2. ASSUME Step(p)
          PROVE  CommitTree(p)
      BY <3>2 DEF Step, Begin, FetchAnswered, FetchFails, Compose, ListRoot, ListDir, UpdateRef,
                  ReadLease, PushNowhere, PushAccepted, PushRejected, PushUnanswered, Stop,
                  Finish, Goto
    <3>3. ASSUME NEW c \in Clone, Checkout(c)
          PROVE  pc' = pc
      BY <3>3 DEF Checkout
    <3>4. UNCHANGED vars => pc' = pc
      BY DEF vars
    <3> QED
      BY <3>1, <3>2, <3>3, <3>4 DEF Next
  <2>2. PICK c, h : commits' = Append(commits,
                   [parent |-> c, hist |-> h, path |-> x,
                    tree |-> MergeEntry(view[p], x, content[p])])
    BY <2>1 DEF CommitTree
  <2>3. /\ commits'[made'[p]].path = x
        /\ commits'[made'[p]].tree = MergeEntry(view[p], x, content[p])
    BY <2>1, <2>2 DEF CommitTree
  <2>4. x \in Path /\ now[x] \in Seq(Nat)
    BY CloneOfType, TargetType, TreeTypes DEF Tree
  <2>5. commits'[made'[p]].tree[x] = content[p]
    BY <2>3, <2>4 DEF MergeEntry, Tree
  <2>6. PICK n \in Nat : content[p] \in Composed(x, now[x], n)
    BY DEF OwnContent
  <2>7. content[p] = Append(now[x], n)
    BY <2>3, <2>6 DEF Composed
  <2>8. Extends(now[x], Append(now[x], n))
    BY <2>4 DEF Extends
  <2> QED
    BY <2>3, <2>5, <2>7, <2>8
<1>2. Init => OwnInv
  BY TypeInit DEF Init, OwnInv, TypeInv, WorkLeft, OwnContent
<1>3. OwnInv /\ [Next]_vars => OwnInv'
  BY TypeStep, WorkLeftStep, OwnContentStep DEF OwnInv, TypeInv
<1>4. Spec => [][Grows]_vars
  <2> HIDE DEF Grows
  <2> QED
    BY <1>1, <1>2, <1>3, PTL DEF Spec
<1> QED
  BY <1>4, PTL DEF OwnLedgerGrows

-----------------------------------------------------------------------------
(* What is reported pushed is there. *)

Once(files) == \A i, j \in 1..Len(files) : files[i] = files[j] => i = j

\* No command writes a file twice.
NamesOnce == \A cmd \in Command : Once(cmd.writes)

Holds(file, t) == \E i \in DOMAIN file : file[i] = t

InPipeline(p) == pc[p] \in {"root", "list", "commit", "update"}

\* A write of the running command is on the branch of its checkout, under a file
\* that is not to be written again, or is the one being made.
Landed(p) ==
  /\ pc[p] \in {"idle", "fetch"} => mine[p] = {}
  /\ pc[p] # "idle" => outcome[p] = "none"
  /\ Once(todo[p])
  /\ pc[p] = "update" => commits[made[p]].tree[Target(p)] = content[p]
  /\ \A t \in mine[p] :
       \/ InPipeline(p) /\ issued[t] = Target(p) /\ Holds(content[p], t)
       \/ /\ \A i \in 1..Len(todo[p]) : todo[p][i] # issued[t]
          /\ Holds(TreeAt(local[CloneOf[p]])[issued[t]], t)

PushInv == SafetyInv /\ \A p \in Process : Landed(p)

\* A step that leaves a command's writes and its checkout's branch alone.
LEMMA LandedKept ==
  ASSUME TypeInv, CommitsKept, IssuedKept, NEW q \in Process, Landed(q),
         UNCHANGED <<todo[q], content[q], mine[q], outcome[q], local[CloneOf[q]]>>,
         pc'[q] # "idle" => pc[q] # "idle",
         pc'[q] \in {"idle", "fetch"} => mine[q] = {},
         pc'[q] = "update" => commits'[made'[q]].tree[Target(q)] = content[q],
         InPipeline(q) => InPipeline(q)'
  PROVE  Landed(q)'
<1>1. TreeAt(local[CloneOf[q]])' = TreeAt(local[CloneOf[q]]) /\ Target(q)' = Target(q)
  <2>1. local[CloneOf[q]] \in Ref
    BY CloneOfType DEF TypeInv, TypeOK
  <2> QED
    BY <2>1, KeptTrees DEF TreeAt, Target
<1>2. \A t \in mine[q] : issued'[t] = issued[t]
  BY DEF IssuedKept, TypeInv, TypeOK
<1> QED
  BY <1>1, <1>2 DEF Landed, Holds

LEMMA LandedOthers ==
  ASSUME SafetyInv, CommitsKept, IssuedKept, NEW p \in Process, Step(p),
         NEW q \in Process, Landed(q), CloneOf[q] # CloneOf[p]
  PROVE  Landed(q)'
<1>1. Undisturbed(q)
  BY OthersUndisturbed DEF SafetyInv
<1>2. p # q
  OBVIOUS
<1>3. UNCHANGED <<mine[q], outcome[q]>>
  BY <1>2 DEF SafetyInv, TypeInv, TypeOK, Step, Begin, FetchAnswered, FetchFails, Compose, ListRoot,
              ListDir, CommitTree, UpdateRef, ReadLease, PushNowhere, PushAccepted, PushRejected,
              PushUnanswered, Stop, Finish, work
<1>4. pc[q] = "update" => commits'[made[q]] = commits[made[q]]
  BY DEF SafetyInv, Current, CommitsKept
<1> QED
  BY <1>1, <1>3, <1>4, LandedKept DEF Undisturbed, Landed, InPipeline, SafetyInv

\* The write goes into the branch, and its file is done with.
LEMMA LandedUpdate ==
  ASSUME SafetyInv, CommitsKept, IssuedKept, NEW p \in Process, Landed(p), UpdateRef(p)
  PROVE  Landed(p)'
<1> DEFINE c == CloneOf[p]
           x == Target(p)
           rest == Tail(todo[p])
<1> USE DEF SafetyInv, TypeInv, TypeOK
<1>1. /\ pc[p] = "update" /\ pc'[p] \in {"lease", "compose"}
      /\ todo'[p] = rest /\ local'[c] = made[p] /\ made[p] \in 1..Len(commits)
      /\ UNCHANGED <<commits, issued, mine, outcome>>
  BY CloneOfType DEF UpdateRef, Goto, Current
<1>2. /\ x \in Path /\ todo[p] \in Seq(Path) /\ Len(todo[p]) \in Nat \ {0} /\ x = todo[p][1]
      /\ Len(rest) = Len(todo[p]) - 1 /\ \A i \in 1..Len(rest) : rest[i] = todo[p][i + 1]
  <2>1. todo[p] \in Seq(Path) /\ todo[p] # <<>>
    BY <1>1 DEF WorkLeft
  <2> QED
    BY <1>1, <2>1, HeadTailProperties DEF Target
<1>3. \A i \in 1..Len(rest) : i + 1 \in 1..Len(todo[p]) /\ rest[i] = todo[p][i + 1]
  BY <1>2
<1>4. Once(rest) /\ \A i \in 1..Len(rest) : rest[i] # x
  <2>1. Once(todo[p])
    BY DEF Landed
  <2>2. ASSUME NEW i \in 1..Len(rest), NEW j \in 1..Len(rest), rest[i] = rest[j]
        PROVE  i = j
    <3>1. i + 1 \in 1..Len(todo[p]) /\ j + 1 \in 1..Len(todo[p])
      BY <1>3
    <3>2. todo[p][i + 1] = todo[p][j + 1]
      BY <1>3, <2>2
    <3>3. i + 1 = j + 1
      BY <2>1, <3>1, <3>2 DEF Once
    <3> QED
      BY <1>2, <3>3
  <2>3. ASSUME NEW i \in 1..Len(rest)
        PROVE  rest[i] # x
    <3>1. 1 \in 1..Len(todo[p]) /\ i + 1 # 1
      BY <1>2
    <3> QED
      BY <1>2, <1>3, <2>1, <3>1 DEF Once
  <2> QED
    BY <2>2, <2>3 DEF Once
<1>5. /\ TreeAt(local[c])' = commits[made[p]].tree
      /\ commits[made[p]].tree[x] = content[p]
      /\ \A y \in Path \ {x} : commits[made[p]].tree[y] = TreeAt(local[c])[y]
  <2>1. TreeAt(local[c])' = commits[made[p]].tree
    BY <1>1 DEF TreeAt, NoCommit
  <2>2. commits[made[p]].tree[x] = content[p]
    BY <1>1 DEF Landed
  <2>3. commits[made[p]].parent = local[c] /\ commits[made[p]].path = x
    BY <1>1 DEF Current
  <2>4. PICK s : commits[made[p]].tree = MergeEntry(TreeAt(local[c]), x, s)
    BY <1>1, <2>3 DEF CommitIsOneWrite, IsOneWrite, OneWrite
  <2>5. TreeAt(local[c]) \in Tree
    BY CloneOfType, TreeTypes
  <2>6. \A y \in Path \ {x} : commits[made[p]].tree[y] = TreeAt(local[c])[y]
    BY <2>4, <2>5 DEF MergeEntry, Tree
  <2> QED
    BY <2>1, <2>2, <2>6
<1>6. ASSUME NEW t \in mine[p]
      PROVE  /\ \A i \in 1..Len(rest) : rest[i] # issued[t]
             /\ Holds(TreeAt(local[c])'[issued[t]], t)
  <2>1. issued[t] \in Path
    OBVIOUS
  <2>2. CASE issued[t] = x /\ Holds(content[p], t)
    BY <1>4, <1>5, <2>2
  <2>3. CASE /\ \A i \in 1..Len(todo[p]) : todo[p][i] # issued[t]
             /\ Holds(TreeAt(local[c])[issued[t]], t)
    <3>1. issued[t] # x
      <4>1. 1 \in 1..Len(todo[p])
        BY <1>2
      <4> QED
        BY <1>2, <2>3, <4>1
    <3> QED
      BY <1>3, <1>5, <2>1, <2>3, <3>1
  <2> QED
    BY <2>2, <2>3 DEF Landed
<1>7. \A t \in mine'[p] :
        /\ \A i \in 1..Len(todo'[p]) : todo'[p][i] # issued'[t]
        /\ Holds(TreeAt(local[CloneOf[p]])'[issued'[t]], t)
  BY <1>1, <1>6
<1>8. outcome'[p] = "none"
  BY <1>1 DEF Landed
<1> QED
  BY <1>1, <1>4, <1>7, <1>8 DEF Landed

LEMMA LandedCompose ==
  ASSUME Fallible = {}, SafetyInv, CommitsKept, IssuedKept, NEW p \in Process, Landed(p), Compose(p)
  PROVE  Landed(p)'
<1> DEFINE c == CloneOf[p]
           n == Len(issued) + 1
           x == Target(p)
           old == TreeAt(local[c])[x]
<1> USE DEF SafetyInv, TypeInv, TypeOK
<1>1. /\ pc[p] = "compose" /\ pc'[p] = "root"
      /\ issued' = Append(issued, x) /\ mine'[p] = mine[p] \cup {n}
      /\ content'[p] \in Composed(x, old, n)
      /\ UNCHANGED <<commits, local, todo, outcome>>
  BY DEF Answers, Compose, Goto, repo
<1>2. x \in Path /\ old \in Seq(Nat) /\ n \in Nat
  <2>1. x \in Path
    BY <1>1, TargetType
  <2>2. TreeAt(local[c]) \in Tree
    BY CloneOfType, TreeTypes
  <2> QED
    BY <2>1, <2>2 DEF Tree
<1>3. issued'[n] = x /\ \A t \in mine[p] : issued'[t] = issued[t]
  BY <1>1, <1>2 DEF IssuedKept
<1>4. Holds(content'[p], n)
  BY <1>1, <1>2, ComposedContent DEF Holds
<1>5. Target(p)' = x /\ TreeAt(local[c])' = TreeAt(local[c])
  BY <1>1 DEF Target, TreeAt
<1>6. \A t \in mine[p] : /\ \A i \in 1..Len(todo[p]) : todo[p][i] # issued[t]
                         /\ Holds(TreeAt(local[c])[issued[t]], t)
  BY <1>1 DEF Landed, InPipeline
<1>7. ASSUME NEW t \in mine'[p]
      PROVE  \/ InPipeline(p)' /\ issued'[t] = Target(p)' /\ Holds(content'[p], t)
             \/ /\ \A i \in 1..Len(todo'[p]) : todo'[p][i] # issued'[t]
                /\ Holds(TreeAt(local[CloneOf[p]])'[issued'[t]], t)
  <2>1. CASE t = n
    BY <1>1, <1>3, <1>4, <1>5, <2>1 DEF InPipeline
  <2>2. CASE t \in mine[p]
    BY <1>1, <1>3, <1>5, <1>6, <2>2
  <2> QED
    BY <1>1, <2>1, <2>2
<1> QED
  BY <1>1, <1>7 DEF Landed, Holds

LEMMA LandedOwn ==
  ASSUME NamesOnce, Fallible = {}, SafetyInv, CommitsKept, IssuedKept, NEW p \in Process, Landed(p), Step(p)
  PROVE  Landed(p)'
<1> USE DEF SafetyInv, TypeInv, TypeOK
<1>1. CASE Begin(p)
  <2>1. PICK cmd \in Command : todo' = [todo EXCEPT ![p] = cmd.writes]
    BY <1>1 DEF Begin
  <2>2. /\ todo'[p] = cmd.writes /\ mine'[p] = {} /\ outcome'[p] = "none"
        /\ pc'[p] \in {"fetch", "compose"}
    BY <1>1, <2>1 DEF Begin, Goto, Landed
  <2> QED
    BY <2>2 DEF Landed, NamesOnce
<1>2. CASE FetchAnswered(p) \/ FetchFails(p)
  <2>1. /\ mine'[p] = {} /\ UNCHANGED <<todo, outcome>> /\ pc'[p] \in {"idle", "compose"}
        /\ outcome[p] = "none"
    BY <1>2 DEF FetchAnswered, FetchFails, AfterFetch, Goto, Landed, work
  <2> QED
    BY <2>1 DEF Landed
<1>3. CASE ListRoot(p) \/ ListDir(p) \/ ReadLease(p)
  <2>1. /\ UNCHANGED <<todo, content, mine, outcome, local>>
        /\ pc[p] \notin {"idle", "fetch", "update"} /\ pc'[p] \notin {"idle", "fetch", "update"}
        /\ InPipeline(p) => InPipeline(p)'
    BY <1>3 DEF ListRoot, ListDir, ReadLease, Goto, repo, InPipeline
  <2> QED
    BY <2>1, LandedKept
<1>4. CASE CommitTree(p)
  <2>1. /\ UNCHANGED <<todo, content, mine, outcome, local>>
        /\ pc[p] = "commit" /\ pc'[p] = "update"
    BY <1>4 DEF CommitTree, Goto
  <2>2. commits'[made'[p]].tree[Target(p)] = content[p]
    <3>1. PICK c, h : commits' = Append(commits,
                     [parent |-> c, hist |-> h, path |-> Target(p),
                      tree |-> MergeEntry(view[p], Target(p), content[p])])
      BY <1>4 DEF CommitTree
    <3>2. commits'[made'[p]].tree = MergeEntry(view[p], Target(p), content[p])
      BY <1>4, <3>1 DEF CommitTree
    <3>3. view[p] \in Tree /\ Target(p) \in Path
      BY <2>1, TargetType
    <3> QED
      BY <3>2, <3>3 DEF MergeEntry, Tree
  <2> QED
    BY <2>1, <2>2, LandedKept DEF InPipeline
<1>5. ASSUME NEW from, NEW result, Finish(p, from, result)
      PROVE  Landed(p)'
  <2>1. pc'[p] = "idle" /\ mine'[p] = {} /\ todo'[p] = <<>>
    BY <1>5 DEF Finish, Goto
  <2> QED
    BY <2>1 DEF Landed, Once
<1>6. CASE PushNowhere(p) \/ PushAccepted(p) \/ PushRejected(p) \/ PushUnanswered(p) \/ Stop(p)
  BY <1>5, <1>6 DEF PushNowhere, PushAccepted, PushRejected, PushUnanswered, Stop
<1> QED
  BY <1>1, <1>2, <1>3, <1>4, <1>6, LandedUpdate, LandedCompose DEF Step

LEMMA LandedStep ==
  ASSUME Exclusive, Fallible = {}, NamesOnce, PushInv, [Next]_vars, NEW q \in Process
  PROVE  Landed(q)'
<1>a. CommitsKept /\ IssuedKept /\ Landed(q) /\ SafetyInv
  BY StepKeepsCommits, StepKeepsIssued DEF PushInv, SafetyInv
<1>1. ASSUME NEW p \in Process, Step(p)
      PROVE  Landed(q)'
  <2>1. CASE p = q
    BY <1>a, <1>1, <2>1, LandedOwn
  <2>2. CASE p # q
    BY <1>a, <1>1, <2>2, LandedOthers DEF Exclusive
  <2> QED
    BY <2>1, <2>2
<1>2. ASSUME NEW d \in Clone, Checkout(d)
      PROVE  Landed(q)'
  <2>1. UNCHANGED <<commits, issued, pc, todo, mine, content, made, outcome>>
    BY <1>2 DEF Checkout, work
  <2>2. CASE CloneOf[q] = d
    <3>1. pc[q] = "idle" /\ mine[q] = {}
      BY <1>2, <1>a, <2>2 DEF Checkout, Landed
    <3> QED
      BY <1>a, <2>1, <3>1 DEF Landed
  <2>3. CASE CloneOf[q] # d
    <3>1. local'[CloneOf[q]] = local[CloneOf[q]]
      BY <1>2, <2>3, CloneOfType DEF Checkout, SafetyInv, TypeInv, TypeOK
    <3>2. Landed(q) => /\ pc'[q] \in {"idle", "fetch"} => mine[q] = {}
                       /\ pc'[q] = "update" => commits'[made'[q]].tree[Target(q)] = content[q]
      BY <2>1 DEF Landed
    <3> QED
      BY <1>a, <2>1, <3>1, <3>2, LandedKept DEF SafetyInv, InPipeline
  <2> QED
    BY <2>2, <2>3
<1>3. CASE UNCHANGED vars
  BY <1>a, <1>3 DEF vars, repo, work, Landed, InPipeline, Target, TreeAt
<1> QED
  BY <1>1, <1>2, <1>3 DEF Next

\* With one command at a time in a checkout, reads that work and commands that
\* write no file twice: when a push is reported accepted, every file the command wrote
\* is on the remote with what it wrote.
THEOREM PushedIsThere ==
  ASSUME Exclusive, Fallible = {}, NamesOnce
  PROVE  Spec => PushedMeansOnRemote
<1> DEFINE There ==
             \A p \in Process :
               pc[p] = "push" /\ outcome'[p] = "pushed" =>
                 \A t \in mine[p] : \E i \in DOMAIN TreeAt(remote')[issued[t]] :
                    TreeAt(remote')[issued[t]][i] = t
<1>1. PushInv /\ [Next]_vars => There
  <2> SUFFICES ASSUME PushInv, [Next]_vars, NEW p \in Process, pc[p] = "push",
                      outcome'[p] = "pushed", NEW t \in mine[p]
               PROVE  \E i \in DOMAIN TreeAt(remote')[issued[t]] :
                         TreeAt(remote')[issued[t]][i] = t
    OBVIOUS
  <2>1. outcome[p] = "none" /\ Holds(TreeAt(local[CloneOf[p]])[issued[t]], t)
    BY DEF PushInv, Landed, InPipeline
  <2>2. PushAccepted(p)
    <3>1. ASSUME NEW q \in Process, Step(q), q # p
          PROVE  outcome'[p] = outcome[p]
      BY <3>1 DEF Step, Begin, FetchAnswered, FetchFails, Compose, ListRoot, ListDir, CommitTree,
                  UpdateRef, ReadLease, PushNowhere, PushAccepted, PushRejected,
                  PushUnanswered, Stop, Finish, PushInv, SafetyInv, TypeInv, TypeOK
    <3>2. ASSUME Step(p)
          PROVE  PushAccepted(p)
      <4>1. outcome \in [Process -> {"none", "pushed", "unpushed", "stale", "error"}]
        BY DEF PushInv, SafetyInv, TypeInv, TypeOK
      <4> QED
        BY <2>1, <3>2, <4>1 DEF Step, Begin, FetchAnswered, FetchFails, Compose, ListRoot, ListDir,
             CommitTree, UpdateRef, ReadLease, PushNowhere, PushRejected, PushUnanswered, Stop,
             Finish, Goto
    <3>3. ASSUME NEW d \in Clone, Checkout(d)
          PROVE  outcome' = outcome
      BY <3>3 DEF Checkout
    <3>4. UNCHANGED vars => outcome' = outcome
      BY DEF vars
    <3> QED
      BY <2>1, <3>1, <3>2, <3>3, <3>4 DEF Next
  <2>3. remote' = local[CloneOf[p]]
    BY <2>2 DEF PushAccepted
  <2> QED
    BY <2>1, <2>3 DEF Holds
<1>2. Init => \A p \in Process : Landed(p)
  BY DEF Init, Landed, Once
<1>3. PushInv /\ [Next]_vars => (\A p \in Process : Landed(p))'
  BY LandedStep
<1>4. Spec => [][There]_vars
  <2> HIDE DEF There
  <2> QED
    BY <1>1, <1>2, <1>3, SafetyInvariant, PTL DEF Spec, PushInv
<1> QED
  BY <1>4, PTL DEF PushedMeansOnRemote
=============================================================================
