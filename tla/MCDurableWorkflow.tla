--------------------------- MODULE MCDurableWorkflow ---------------------------
(* Instances of DurableWorkflow for TLC. *)
EXTENDS DurableWorkflow, TLC

CONSTANTS a, b, c, r, x, y, z1, z2, g, h, c1, hand

Phases == {"fan", "inner", "verify", "undo", "apply", "first", "second"}
Bodies ==
  [p \in Phases |->
     CASE p = "fan" -> <<"inner", c>>
       [] p = "inner" -> <<a, b>>
       [] p = "verify" -> <<g>>
       [] p = "undo" -> <<r>>
       [] p = "apply" -> <<x, y, h>>
       [] p = "first" -> <<z1>>
       [] p = "second" -> <<z2>>]
ParallelPhases == {"fan", "apply"}

\* A component: a nested phase beside a step, then a gate, and a rollback
\* phase.  A component that has neither gate nor rollback phase.  An Op: two
\* activities in parallel and a gate, with compensation.
Designs == {[kind |-> "component", main |-> <<"fan", "verify">>, back |-> <<"undo">>],
            [kind |-> "component", main |-> <<"inner">>, back |-> <<>>],
            [kind |-> "op", main |-> <<"apply">>, back |-> <<"first", "second">>]}

StepsOfBoth == {a, b, c, r, x, y, z1, z2}

\* The worker chant run spawns registers what loadActivities finds, which are the
\* activities of Ops (core op/activity-registry.ts:41-65); one started by hand may
\* register the two of component-op/activities.ts too, as runtime.test.ts does.
Registers == (c1 :> {"activity of the Op"}) @@
             (hand :> {"runCapabilityStep", "rollbackCapabilityStep", "activity of the Op"})
=============================================================================
