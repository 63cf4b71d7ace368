-------------------------- MODULE MCDeliveryWorker --------------------------
(* Instances of DeliveryWorker for TLC. *)
EXTENDS DeliveryWorker, TLC

CONSTANTS w1, w2, h1, r1, r2

\* Two rows that announce the same property, as two queries that both return
\* it with different details do.
SameIdentity == r1 :> h1 @@ r2 :> h1

OneRow == r1 :> h1

\* Workers are alike, and so are the two rows.
Symmetry == Permutations(Worker) \cup Permutations(Row)
=============================================================================
