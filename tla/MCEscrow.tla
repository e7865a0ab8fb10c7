------------------------------- MODULE MCEscrow --------------------------------
(* Small instances of the escrow agent for TLC. *)
EXTENDS EscrowRefinement, TLC

CONSTANTS buyer, provider, stranger

MCFunds == [p \in Parties |-> IF p = buyer THEN 3 ELSE 0]
\* Two funded parties, each of them buyer of one escrow and payee of the other.
MCFundsBoth == [p \in Parties |-> 2]

Symmetry == Permutations(OpRefs) \cup Permutations(TaskIds)
SymmetryTwo == Permutations(OpRefs) \cup Permutations(LockRefs)
                 \cup Permutations(EscrowIds)
================================================================================
