----------------------------- MODULE MCRecipients -----------------------------
(* Instances of Recipients for TLC. *)
EXTENDS Recipients, TLC

CONSTANTS i1, i2, h1, h2, ann, bob

Symmetry == Permutations(Id) \cup Permutations(Listing) \cup Permutations(Person)
=============================================================================
