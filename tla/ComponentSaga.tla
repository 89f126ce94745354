---------------------------- MODULE ComponentSaga ----------------------------
(***************************************************************************)
(* What a component deploy promises: a saga.  Its steps are done in an     *)
(* order the composition allows; either all of them are done, or the       *)
(* component gives up once, and from then on does nothing new and deals    *)
(* with every step that was done, each before those it built upon.         *)
(***************************************************************************)
CONSTANTS
  Component,
  StepsOf,   \* the deploy steps of each component
  Precedes   \* <<r, s>>: the composition runs r to its end before s

VARIABLES
  saga,      \* the stage each component is in
  did        \* the steps done and not yet dealt with

sagaVars == <<saga, did>>

Before(c, s) == {r \in StepsOf[c] : <<r, s>> \in Precedes}
After(c, s) == {r \in StepsOf[c] : <<s, r>> \in Precedes}

SagaInit == /\ saga = [c \in Component |-> "none"]
            /\ did = [c \in Component |-> {}]

Move(c, from, to) == /\ saga[c] = from
                     /\ saga' = [saga EXCEPT ![c] = to]

\* Independent components start together.
SagaStart == /\ did' = did
             /\ \E C \in SUBSET Component :
                  /\ \A c \in C : saga[c] = "none"
                  /\ saga' = [c \in Component |-> IF c \in C THEN "going" ELSE saga[c]]

\* The component may complete with its last step.
Do(c, s) == /\ saga[c] = "going"
            /\ s \notin did[c]
            /\ Before(c, s) \subseteq did[c]
            /\ did' = [did EXCEPT ![c] = @ \cup {s}]
            /\ \/ UNCHANGED saga
               \/ Move(c, "going", "done") /\ did'[c] = StepsOf[c]

Complete(c) == /\ Move(c, "going", "done")
               /\ did[c] = StepsOf[c]
               /\ UNCHANGED did

GiveUp(c) == Move(c, "going", "undoing") /\ UNCHANGED did

DealWith(c, s) == /\ saga[c] = "undoing"
                  /\ s \in did[c]
                  /\ After(c, s) \cap did[c] = {}
                  /\ did' = [did EXCEPT ![c] = @ \ {s}]
                  /\ UNCHANGED saga

Close(c) == /\ Move(c, "undoing", "undone")
            /\ did[c] = {}
            /\ UNCHANGED did

SagaNext == \/ SagaStart
            \/ \E c \in Component :
                 \/ \E s \in StepsOf[c] : Do(c, s) \/ DealWith(c, s)
                 \/ Complete(c) \/ GiveUp(c) \/ Close(c)

SagaSpec == SagaInit /\ [][SagaNext]_sagaVars
=============================================================================
