-------------------------- MODULE MCRoutineDelivery --------------------------
(* Instances of RoutineDelivery for TLC. *)
EXTENDS RoutineDelivery, TLC

CONSTANTS m1, m2, h1, h2

\* Two messages of one property: its text changed between two scrapes.
Reworded == m1 :> h1 @@ m2 :> h1

\* Two properties.
Distinct == m1 :> h1 @@ m2 :> h2

Single == m1 :> h1
=============================================================================
