--------------------------- MODULE LifecycleBranch ---------------------------
(***************************************************************************)
(* The chant/lifecycle orphan branch (packages/core/src/lifecycle/git.ts): *)
(* several checkouts of one repository, several chant commands running in  *)
(* them, and the shared remote.                                            *)
(*                                                                         *)
(* A command writes some files, one commit per file, and then pushes the   *)
(* branch.  Every write is a pipeline of git subprocesses, each awaited    *)
(* separately, so the steps of two commands in one checkout interleave:    *)
(*   compose  git show of the existing file (records only) + hash-object   *)
(*   root     rev-parse + ls-tree of the branch root                       *)
(*   list     ls-tree of one environment directory, once per directory     *)
(*   commit   mktree, rev-parse of the tip for the parent, commit-tree     *)
(*   update   update-ref, unconditional                                    *)
(*   lease    git remote + rev-parse of the remote-tracking ref            *)
(*   push     git push --force-with-lease                                  *)
(*                                                                         *)
(* A git subprocess that exits non-zero where the code only reads is taken *)
(* for "nothing there", whatever the reason.                               *)
(*                                                                         *)
(* A file's content is a sequence of the identifiers ("tokens") of writes: *)
(* a snapshot or a manifest is one token, a release ledger has one for     *)
(* each record, an observation baseline one for each accepted deviation,   *)
(* that of the write which accepted it last.                               *)
(***************************************************************************)
EXTENDS Integers, Sequences

CONSTANTS
  Clone,          \* checkouts of the repository
  Process,        \* chant processes, each running one command at a time
  CloneOf,        \* the checkout a process works in
  Path,           \* files on the branch, each in one directory
  EnvOf,          \* the directory of a file: an environment, or _builds
  Ledger,         \* release ledgers: a command adds a line to what it reads
  Baseline,       \* observation baselines: acceptances are added or replaced
  Command,        \* what chant can be asked to do
  Remoteless,     \* checkouts with no remote configured
  Fallible,       \* the git reads that may exit non-zero
  MaxWrites,      \* bound on the writes of a behaviour
  MaxCheckouts    \* bound on the fresh checkouts of a behaviour

ASSUME CloneOfType == CloneOf \in [Process -> Clone]
ASSUME LedgerType == Ledger \subseteq Path /\ Baseline \subseteq Path \ Ledger
ASSUME CommandType == /\ Command \subseteq [fetchFirst : BOOLEAN, writes : Seq(Path)]
                      /\ \A cmd \in Command : cmd.fetchFirst \/ cmd.writes # <<>>
ASSUME FlagType == /\ Remoteless \subseteq Clone
                   /\ Fallible \subseteq {"show", "root", "list", "parent", "remote", "lease"}
ASSUME BoundType == MaxWrites \in Nat /\ MaxCheckouts \in Nat

VARIABLES
  commits,    \* the commit objects, in the order they were created
  local,      \* refs/heads/chant/lifecycle of each checkout
  tracking,   \* refs/remotes/<remote>/chant/lifecycle of each checkout
  remote,     \* the branch on the remote
  issued,     \* the file each write so far was for (history variable)
  checkouts,  \* fresh checkouts so far
  pc,         \* next step of each process
  todo,       \* files its command still has to write
  mine,       \* tokens of the writes its command has made
  content,    \* content of the blob it is writing
  missed,     \* whether its git show of that file failed though it is there (history)
  view,       \* the tree it has read, as far as listed
  pending,    \* directories of that tree still to list
  made,       \* the commit it has created
  lease,      \* the tip it expects on the remote
  outcome     \* how its last command ended

repo == <<commits, local, tracking, remote>>
work == <<todo, mine, content, missed, view, pending, made, lease>>
vars == <<repo, issued, checkouts, pc, work, outcome>>

Env == {EnvOf[x] : x \in Path}
NoCommit == 0
EmptyTree == [x \in Path |-> <<>>]
Tree == [Path -> Seq(Nat)]

\* The files reachable from a ref, and the commits in its history.
TreeAt(k) == IF k = NoCommit THEN EmptyTree ELSE commits[k].tree
HistOf(k) == IF k = NoCommit THEN {} ELSE commits[k].hist
IsAncestor(j, k) == j = NoCommit \/ j \in HistOf(k)

\* The directories that exist in a tree: git keeps no empty ones.
DirsIn(t) == {EnvOf[x] : x \in {y \in Path : t[y] # <<>>}}

\* The file a process is writing, and the token of that write.
Target(p) == Head(todo[p])

\* What a git read comes to: what it is after, or what the code takes for nothing.
Answers(read, found, nothing) == {found} \cup IF read \in Fallible THEN {nothing} ELSE {}

\* acceptDeviations: of the acceptances in S each takes the place of an earlier one
\* of the same entity and path, or is added.
Accepted(old, t) ==
  {[i \in DOMAIN old \cup S |-> IF i \in S THEN t ELSE old[i]] :
     S \in (SUBSET (1..Len(old) + 1)) \ {{}}}

\* Mutant: the ledger replaced like a snapshot.
ComposedReplacing(x, old, t) == {<<t>>}

\* What write t may make of file x: a line more, acceptances merged, or a new file.
Composed(x, old, t) == IF x \in Ledger THEN {Append(old, t)}
                       ELSE IF x \in Baseline THEN Accepted(old, t)
                       ELSE {<<t>>}

\* t with the files of directory e taken from u.
WithDir(t, e, u) == [x \in Path |-> IF EnvOf[x] = e THEN u[x] ELSE t[x]]

\* Mutants: the entries already there left out; the subtree just built put
\* under every directory.
MergeEntryAlone(t, x, c) == [EmptyTree EXCEPT ![x] = c]
MergeEntryEverywhere(t, x, c) == [y \in Path |-> IF t[y] # <<>> \/ y = x THEN c ELSE <<>>]

\* mergeTreeEntry: the tree as read, with one file put in its place.
MergeEntry(t, x, c) == [t EXCEPT ![x] = c]

Init == /\ commits = <<>>
        /\ local = [c \in Clone |-> NoCommit]
        /\ tracking = [c \in Clone |-> NoCommit]
        /\ remote = NoCommit
        /\ issued = <<>>
        /\ checkouts = 0
        /\ pc = [p \in Process |-> "idle"]
        /\ todo = [p \in Process |-> <<>>]
        /\ mine = [p \in Process |-> {}]
        /\ content = [p \in Process |-> <<>>]
        /\ missed = [p \in Process |-> FALSE]
        /\ view = [p \in Process |-> EmptyTree]
        /\ pending = [p \in Process |-> {}]
        /\ made = [p \in Process |-> NoCommit]
        /\ lease = [p \in Process |-> NoCommit]
        /\ outcome = [p \in Process |-> "none"]

-----------------------------------------------------------------------------
(* Steps of a command. *)

Goto(p, from, to) == /\ pc[p] = from
                     /\ pc' = [pc EXCEPT ![p] = to]

\* The command ends: its process forgets everything but the outcome.
Finish(p, from, result) ==
  /\ Goto(p, from, "idle")
  /\ outcome' = [outcome EXCEPT ![p] = result]
  /\ todo' = [todo EXCEPT ![p] = <<>>]
  /\ content' = [content EXCEPT ![p] = <<>>]
  /\ missed' = [missed EXCEPT ![p] = FALSE]
  /\ view' = [view EXCEPT ![p] = EmptyTree]
  /\ pending' = [pending EXCEPT ![p] = {}]
  /\ made' = [made EXCEPT ![p] = NoCommit]
  /\ lease' = [lease EXCEPT ![p] = NoCommit]
  /\ mine' = [mine EXCEPT ![p] = {}]
  /\ UNCHANGED <<issued, checkouts>>

\* The commands: what each caller of the pipeline fetches, writes and pushes.
release(x) == [fetchFirst |-> FALSE, writes |-> <<x>>]
buildManifest(x) == [fetchFirst |-> FALSE, writes |-> <<x>>]
snapshot(xs) == [fetchFirst |-> FALSE, writes |-> xs]
acceptBaseline(x) == [fetchFirst |-> TRUE, writes |-> <<x>>]
readOnly == [fetchFirst |-> TRUE, writes |-> <<>>]

Begin(p) ==
  \E cmd \in Command :
    /\ Len(issued) + Len(cmd.writes) <= MaxWrites
    /\ Goto(p, "idle", IF cmd.fetchFirst THEN "fetch" ELSE "compose")
    /\ todo' = [todo EXCEPT ![p] = cmd.writes]
    /\ outcome' = [outcome EXCEPT ![p] = "none"]
    /\ UNCHANGED <<repo, issued, checkouts, mine, content, missed, view, pending, made, lease>>

\* Where a command goes after its fetch; one that writes nothing ends there.
AfterFetch(p) == IF todo[p] = <<>> THEN "idle" ELSE "compose"

\* Mutant: fetched with a forcing refspec, +chant/lifecycle:chant/lifecycle.
CanForwardAlways(c) == TRUE

\* Without a + in the refspec git moves a branch only forward.
CanForward(c) == IsAncestor(local[c], remote)

\* git fetch <remote> chant/lifecycle:chant/lifecycle.  The remote-tracking
\* ref follows the remote in any case, the local branch only forwards.
FetchAnswered(p) ==
  LET c == CloneOf[p] IN
  /\ Goto(p, "fetch", AfterFetch(p))
  /\ c \notin Remoteless
  /\ remote # NoCommit
  /\ tracking' = [tracking EXCEPT ![c] = remote]
  /\ local' = [local EXCEPT ![c] = IF CanForward(c) THEN remote ELSE @]
  /\ UNCHANGED <<commits, remote, issued, checkouts, work, outcome>>

\* No remote, no such branch there, or no answer: every caller goes on.
FetchFails(p) ==
  /\ Goto(p, "fetch", AfterFetch(p))
  /\ UNCHANGED <<repo, issued, checkouts, work, outcome>>

\* readBlobFromPath, for the files that are added to, and hash-object.
Compose(p) ==
  LET t == Len(issued) + 1
      x == Target(p)
      there == TreeAt(local[CloneOf[p]])[x] IN
  /\ t <= MaxWrites
  /\ Goto(p, "compose", "root")
  /\ issued' = Append(issued, x)
  /\ \E old \in Answers("show", there, <<>>) :
       /\ \E new \in Composed(x, old, t) : content' = [content EXCEPT ![p] = new]
       /\ missed' = [missed EXCEPT ![p] = old # there]
  /\ mine' = [mine EXCEPT ![p] = @ \cup {t}]
  /\ UNCHANGED <<repo, checkouts, todo, view, pending, made, lease, outcome>>

\* readTree, its first half.  A failed root listing reads as an empty branch.
ListRoot(p) ==
  \E tree \in Answers("root", TreeAt(local[CloneOf[p]]), EmptyTree) :
    /\ Goto(p, "root", IF DirsIn(tree) = {} THEN "commit" ELSE "list")
    /\ view' = [view EXCEPT ![p] = tree]
    /\ pending' = [pending EXCEPT ![p] = DirsIn(tree)]
    /\ UNCHANGED <<repo, issued, checkouts, todo, mine, content, missed, made, lease, outcome>>

\* readTree, the rest: each directory is listed again through the branch name.
\* A directory that cannot be listed is left out.  The entries of the directory
\* being written come from this listing, those of the others from the root.
ListDir(p) ==
  \E e \in pending[p], now \in Answers("list", TreeAt(local[CloneOf[p]]), EmptyTree) :
    /\ Goto(p, "list", IF pending[p] = {e} THEN "commit" ELSE "list")
    /\ pending' = [pending EXCEPT ![p] = @ \ {e}]
    /\ view' = [view EXCEPT ![p] =
          IF e \notin DirsIn(now) THEN WithDir(@, e, EmptyTree)
          ELSE IF e = EnvOf[Target(p)] THEN WithDir(@, e, now)
          ELSE @]
    /\ UNCHANGED <<repo, issued, checkouts, todo, mine, content, missed, made, lease, outcome>>

\* mktree twice, then rev-parse of the tip again for the parent, commit-tree.  A
\* rev-parse that fails makes the commit a root.
CommitTree(p) ==
  LET new == Len(commits) + 1 IN
  /\ Goto(p, "commit", "update")
  /\ \E parent \in Answers("parent", local[CloneOf[p]], NoCommit) :
       commits' = Append(commits,
         [parent |-> parent,
          hist |-> HistOf(parent) \cup {new},
          path |-> Target(p),
          tree |-> MergeEntry(view[p], Target(p), content[p])])
  /\ made' = [made EXCEPT ![p] = new]
  /\ UNCHANGED <<local, tracking, remote, issued, checkouts,
                 todo, mine, content, missed, view, pending, lease, outcome>>

\* git update-ref, with no expected old value.
UpdateRef(p) ==
  /\ Goto(p, "update", IF Tail(todo[p]) = <<>> THEN "lease" ELSE "compose")
  /\ local' = [local EXCEPT ![CloneOf[p]] = made[p]]
  /\ todo' = [todo EXCEPT ![p] = Tail(@)]
  /\ content' = [content EXCEPT ![p] = <<>>]
  /\ missed' = [missed EXCEPT ![p] = FALSE]
  /\ view' = [view EXCEPT ![p] = EmptyTree]
  /\ made' = [made EXCEPT ![p] = NoCommit]
  /\ UNCHANGED <<commits, tracking, remote, issued, checkouts,
                 mine, pending, lease, outcome>>

\* getRemoteLifecycleBranchSha.  No remote-tracking ref is a lease on no branch.
ReadLease(p) ==
  /\ CloneOf[p] \notin Remoteless
  /\ Goto(p, "lease", "push")
  /\ \E tip \in Answers("lease", tracking[CloneOf[p]], NoCommit) :
       lease' = [lease EXCEPT ![p] = tip]
  /\ UNCHANGED <<repo, issued, checkouts, todo, mine, content, missed, view, pending,
                 made, outcome>>

\* git remote names none, or fails.
PushNowhere(p) ==
  /\ CloneOf[p] \in Remoteless \/ "remote" \in Fallible
  /\ Finish(p, "lease", "unpushed")
  /\ UNCHANGED repo

\* Mutant: git push --force.
LeaseHoldsAlways(p) == TRUE

\* The lease holds on the remote; a remote already at our tip needs none.
LeaseHolds(p) == remote \in {lease[p], local[CloneOf[p]]}

PushAccepted(p) ==
  LET c == CloneOf[p] IN
  /\ LeaseHolds(p)
  /\ Finish(p, "push", "pushed")
  /\ remote' = local[c]
  /\ tracking' = [tracking EXCEPT ![c] = local[c]]
  /\ UNCHANGED <<commits, local>>

\* "stale info": StaleLifecycleBranchError.
PushRejected(p) ==
  /\ ~LeaseHolds(p)
  /\ Finish(p, "push", "stale")
  /\ UNCHANGED repo

\* Any other failure of git push.  The remote may have taken the push and the
\* answer been lost; pushLifecycle returns false either way.
PushUnanswered(p) ==
  /\ Finish(p, "push", "unpushed")
  /\ \/ remote' = remote
     \/ LeaseHolds(p) /\ remote' = local[CloneOf[p]]
  /\ UNCHANGED <<commits, local, tracking>>

\* A step throws, or the process is killed between two steps.
Stop(p) == /\ pc[p] # "idle"
           /\ Finish(p, pc[p], "error")
           /\ UNCHANGED repo

-----------------------------------------------------------------------------
(* The environment: a checkout thrown away and cloned anew (a CI runner), with *)
(* or without the remote-tracking ref of the branch.                           *)
Checkout(c) ==
  /\ checkouts < MaxCheckouts
  /\ \A p \in Process : CloneOf[p] = c => pc[p] = "idle"
  /\ checkouts' = checkouts + 1
  /\ local' = [local EXCEPT ![c] = NoCommit]
  /\ \E t \in {NoCommit, remote} : tracking' = [tracking EXCEPT ![c] = t]
  /\ UNCHANGED <<commits, remote, issued, pc, work, outcome>>

Step(p) == \/ Begin(p) \/ FetchAnswered(p) \/ FetchFails(p)
           \/ Compose(p) \/ ListRoot(p) \/ ListDir(p) \/ CommitTree(p) \/ UpdateRef(p)
           \/ ReadLease(p) \/ PushNowhere(p)
           \/ PushAccepted(p) \/ PushRejected(p) \/ PushUnanswered(p)
           \/ Stop(p)

Next == \/ \E p \in Process : Step(p)
        \/ \E c \in Clone : Checkout(c)

Spec == Init /\ [][Next]_vars

-----------------------------------------------------------------------------
(* Properties. *)

\* One command at a time in each checkout.  Nothing in chant enforces it.
Exclusive == \A p, q \in Process : CloneOf[p] = CloneOf[q] => p = q

\* Every variable stays within its type: a ref names an existing commit or
\* none, a commit's parent and history are older commits.
Commit == [parent : Nat, hist : SUBSET Nat, path : Path, tree : Tree]
Ref == 0..Len(commits)
TypeOK == /\ commits \in Seq(Commit)
          /\ \A k \in 1..Len(commits) : /\ commits[k].parent < k
                                        /\ commits[k].hist \subseteq 1..k
          /\ local \in [Clone -> Ref]
          /\ tracking \in [Clone -> Ref]
          /\ remote \in Ref
          /\ issued \in Seq(Path)
          /\ checkouts \in Nat
          /\ pc \in [Process -> {"idle", "fetch", "compose", "root", "list",
                                 "commit", "update", "lease", "push"}]
          /\ todo \in [Process -> Seq(Path)]
          /\ mine \in [Process -> SUBSET (1..Len(issued))]
          /\ content \in [Process -> Seq(Nat)]
          /\ missed \in [Process -> BOOLEAN]
          /\ view \in [Process -> Tree]
          /\ pending \in [Process -> SUBSET Env]
          /\ made \in [Process -> Ref]
          /\ lease \in [Process -> Ref]
          /\ outcome \in [Process -> {"none", "pushed", "unpushed", "stale", "error"}]

\* A write preserves every other file of the branch: a commit differs from its
\* parent in the one file it was made for (git.ts:12-13).
WritePreservesOthers ==
  \A k \in 1..Len(commits) :
    \A x \in Path \ {commits[k].path} :
      commits[k].tree[x] = TreeAt(commits[k].parent)[x]

\* t holds everything s holds, in the same places.
Extends(s, t) == /\ Len(s) <= Len(t)
                 /\ \A i \in 1..Len(s) : t[i] = s[i]

\* Along the history of any commit a ledger only grows, and no record of it is
\* changed or moved (release-ledger.ts:12-15).
LedgerGrows ==
  \A k \in 1..Len(commits) :
    \A j \in commits[k].hist :
      \A x \in Ledger : Extends(commits[j].tree[x], commits[k].tree[x])

\* A release drops no record from the ledger its checkout holds, even when the
\* rest of the tree could not be read: that ledger is read on its own.  It takes
\* that no other command runs in the checkout, and that this one read succeeded.
Alone(p) == \A q \in Process : CloneOf[q] = CloneOf[p] => q = p
OwnLedgerGrows ==
  [][\A p \in Process :
       Alone(p) /\ pc[p] = "commit" /\ pc'[p] = "update" /\ ~missed[p] =>
         LET m == commits'[made'[p]]
             held == TreeAt(local[CloneOf[p]])[m.path] IN
         m.path \in Ledger => Extends(held, m.tree[m.path])]_vars

\* What any commit holds under a path was written for that path: the root tree,
\* put together from subtrees read at different moments, never files one
\* directory's content under another.
NoCrossWiring ==
  \A k \in 1..Len(commits) :
    \A x \in Path :
      \A i \in 1..Len(commits[k].tree[x]) : issued[commits[k].tree[x][i]] = x

\* The branch of a checkout only moves forward, except when the checkout itself
\* is replaced: update-ref never drops a commit, though it checks nothing.
LocalFastForward ==
  [][\A c \in Clone : IsAncestor(local[c], local'[c]) \/ checkouts' # checkouts]_vars

\* The remote loses a commit only to a checkout whose remote-tracking ref was
\* at that commit: what another operator pushed since is never overwritten.
NoBlindOverwrite ==
  [][IsAncestor(remote, remote') \/ \E c \in Clone : /\ tracking[c] = remote
                                                     /\ local[c] = remote']_vars

\* A command that reports its push accepted leaves every file it wrote on the
\* remote, its own write being the last one there.
PushedMeansOnRemote ==
  [][\A p \in Process :
       pc[p] = "push" /\ outcome'[p] = "pushed" =>
         \A t \in mine[p] : \E i \in DOMAIN TreeAt(remote')[issued[t]] :
            TreeAt(remote')[issued[t]][i] = t]_vars

\* Each checkout's branch is an indivisible file store (LifecycleStore): the
\* whole pipeline of a write takes effect at its update-ref.
Store == INSTANCE LifecycleStore WITH
           Token <- 1..MaxWrites,
           store <- [c \in Clone |-> TreeAt(local[c])],
           pub <- TreeAt(remote)
ImplementsStore == Store!StoreSpec

\* What the documentation says of the remote: a second operator's push never
\* drops the first one's commit (docs cli/lifecycle.mdx:264-271).
RemoteKeepsHistory == [][IsAncestor(remote, remote')]_vars

\* What git.ts:208-209 says of the ledger: a release adds a line and never rewrites
\* a previous one.
LedgerAppendOnly ==
  [][\A c \in Clone : \A x \in Ledger :
       Extends(TreeAt(local[c])[x], TreeAt(local'[c])[x]) \/ checkouts' # checkouts]_vars
=============================================================================
