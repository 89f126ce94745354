-------------------------- MODULE MCLifecycleBranch --------------------------
(* Instances of LifecycleBranch for TLC. *)
EXTENDS LifecycleBranch, TLC

CONSTANTS c1, c2, p1, p2, p3

\* Files: the release ledger of one environment, the observation baseline and two
\* snapshots of another, and a build manifest, which has a directory of its own.
prodReleases == "prod/releases.jsonl"
stagingBaseline == "staging/observation-baseline.json"
stagingAws == "staging/aws.json"
stagingGcp == "staging/gcp.json"
buildsM == "_builds/m.json"

\* chant components release, a snapshot of two lexicons of another environment, and
\* the fetch that lifecycle show, diff, log and components status start with, which
\* is also what the recovery hint tells the operator to run by hand.
OperatorFiles == {prodReleases, stagingAws, stagingGcp}
OperatorEnvOf == [x \in OperatorFiles |-> IF x = prodReleases THEN "prod" ELSE "staging"]
OneLedger == {prodReleases}
OneBaseline == {stagingBaseline}
OperatorCommands == {release(prodReleases), snapshot(<<stagingAws, stagingGcp>>), readOnly}

\* A release, diff --update-baseline, which fetches first and merges what it accepts
\* into the baseline it reads, and a persisted manifest.
SharedFiles == {prodReleases, stagingBaseline, buildsM}
SharedEnvOf == [x \in SharedFiles |-> CASE x = prodReleases -> "prod"
                                       [] x = stagingBaseline -> "staging"
                                       [] OTHER -> "_builds"]
SharedCommands == {release(prodReleases), buildManifest(buildsM),
                   acceptBaseline(stagingBaseline), readOnly}

OwnClone == [p \in Process |-> IF p = p1 THEN c1 ELSE c2]
AloneClone == [p \in Process |-> c1]
SharedClone == [p \in Process |-> IF p = p3 THEN c2 ELSE c1]

\* The two operators are interchangeable, each with the own checkout.
Swap == (c1 :> c2) @@ (c2 :> c1) @@ (p1 :> p2) @@ (p2 :> p1)
Operators == {Swap}
=============================================================================
