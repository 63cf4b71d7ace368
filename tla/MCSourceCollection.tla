------------------------- MODULE MCSourceCollection -------------------------
(* Instances of SourceCollection for TLC. *)
EXTENDS SourceCollection, TLC

CONSTANTS q1, q2

Queries == Permutations(Query)
=============================================================================
