------------------------------ MODULE MCLivePlan ------------------------------
(* Instances of LivePlan for TLC: two stacks with a resource each, one of which *)
(* has a runtime child, and a dependency.                                       *)
EXTENDS LivePlan

CONSTANTS web, db, pod, vpc, s1, s2

OwnerOfPod == [n \in {pod} |-> web]
TwoStacks == [n \in {web, pod, db} |-> IF n = db THEN s2 ELSE s1]
=============================================================================
