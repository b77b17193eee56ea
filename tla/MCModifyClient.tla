--------------------------- MODULE MCModifyClient ---------------------------
(* ModifyClient with a parent modify, a modify derived from it, and clients. *)
EXTENDS ModifyClient, TLC

CONSTANTS parent, derived

MCDepth == [m \in Modifies |-> IF m = parent THEN 0 ELSE 1]

\* The clients are interchangeable.
MCSymmetry == Permutations(Clients)
=============================================================================
