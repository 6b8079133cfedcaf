-------------------------- MODULE MCModelResidency --------------------------
(***************************************************************************)
(* Instances of ModelResidency for TLC.                                    *)
(***************************************************************************)
EXTENDS ModelResidency, TLC

CONSTANTS c1, c2, m1, m2, m3, m4

\* m3 is the large model: it fits only alone.
MCFootprint == [m \in Models |-> IF m = m3 THEN 2 ELSE 1]
MCEstimate == MCFootprint

ClientSymmetry == Permutations(Clients)

\* For instances that tell the small models apart in nothing.
SmallModelSymmetry == ClientSymmetry \cup Permutations({m1, m2, m4})
=============================================================================
