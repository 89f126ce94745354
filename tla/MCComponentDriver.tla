-------------------------- MODULE MCComponentDriver --------------------------
(***************************************************************************)
(* Three components that can be run: net deploys a stack; db provisions a  *)
(* disk, then loads data beside a two-step schema migration, and publishes *)
(* its image; app promotes its own artifact and refers to the outputs of   *)
(* both.  Two that wait for a signal: vet in a nested phase, ops in        *)
(* compensation.                                                           *)
(***************************************************************************)
EXTENDS ComponentDriver

CONSTANTS net, db, app, vet, ops, ghost

Components == {net, db, app, vet, ops}
Phases == {"Net", "Disk", "Fill", "Schema", "App", "Restore", "Notify", "Alert",
           "Vet", "Review", "Ops", "Escalate"}
Steps == {"vpc", "disk", "load", "create", "migrate", "push", "start", "restore", "notify", "page",
          "scan", "approve", "tune", "confirm"}

Bodies == [ph \in Phases |->
  CASE ph = "Net" -> <<"vpc">>
    [] ph = "Disk" -> <<"disk">>
    [] ph = "Fill" -> <<"load", "Schema">>
    [] ph = "Schema" -> <<"create", "migrate">>
    [] ph = "App" -> <<"push", "start">>
    [] ph = "Restore" -> <<"restore">>
    [] ph = "Notify" -> <<"notify">>
    [] ph = "Alert" -> <<"page">>
    [] ph = "Vet" -> <<"scan", "Review">>
    [] ph = "Review" -> <<"approve">>
    [] ph = "Ops" -> <<"tune">>
    [] ph = "Escalate" -> <<"confirm">>]
ParallelPhases == {"Fill"}
Fallbacks == [ph \in Phases |->
  IF ph = "Fill" THEN <<"Alert">> ELSE IF ph = "Ops" THEN <<"Escalate">> ELSE <<>>]
Deploys == [c \in Components |->
  CASE c = net -> <<"Net">>
    [] c = db -> <<"Disk", "Fill">>
    [] c = app -> <<"App">>
    [] c = vet -> <<"Vet">>
    [] c = ops -> <<"Ops">>]
Rollbacks == [c \in Components |-> IF c = db THEN <<"Notify", "Restore">> ELSE <<>>]
Gates == {"approve", "confirm"}
CompensableSteps == {"vpc", "disk", "migrate", "push"}
Publishers == {"migrate", "push"}
Appliers == {"vpc"}
Artifact(c) == [form |-> "artifact", of |-> c]
Stack(c) == [form |-> "stack", of |-> c]
References == [s \in Steps |-> IF s \in {"push", "start"} THEN {Stack(net), Artifact(db)} ELSE {}]

\* The declared graphs: two waves, three, a cycle, an unknown name.
Needs(a, d) == [c \in Components |-> IF c = app THEN a ELSE IF c = db THEN d ELSE {}]
Graphs == {Needs({net, db}, {}), Needs({net, db}, {net}), Needs({db}, {app}), Needs({ghost}, {})}
SeedChoices == {{}, {Stack(net)}}
=============================================================================
