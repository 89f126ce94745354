------------------------------ MODULE MCFlyApply ------------------------------
(* Instances of FlyApply for TLC. *)
EXTENDS FlyApply, TLC

CONSTANTS old, new

E(k, n, c) == [kind |-> k, name |-> n, config |-> c]

\* Two revisions of one stack: the newer has another config for web, mounts a
\* volume, sets a secret and drops the job.
OldPlan == {E("machine", "web", "c1"), E("machine", "job", "c1")}
NewPlan == {E("volume", "data", "c1"), E("machine", "web", "c2"), E("secret", "key", "c1")}
Plans == (old :> OldPlan) @@ (new :> NewPlan)

\* A new app, or the older revision in place.
Earlier == {<<>>, <<E("machine", "web", "c1"), E("machine", "job", "c1")>>}

\* The older one is applied without pruning, or deleted.
ModesOf == (old :> {"apply", "delete"}) @@ (new :> {"prune"})

Hand == {E("machine", "legacy", "c1")}
MountsOf == [n \in Names |->
                IF n = "web" THEN {"data"} ELSE {}]
=============================================================================
