--------------------------- MODULE EscrowRefinement ----------------------------
(* The escrow agent implements the abstract custody of money. *)
EXTENDS EscrowPromises

VaultOf(esc) ==
    [owner |-> esc.buyer_id,
     beneficiary |-> esc.payee_id,
     held |-> Remaining(esc),
     pledge |-> IF esc.claim = None THEN 0 ELSE esc.claim.amount_cu,
     frozen |-> esc.dispute,
     settled |-> esc.had_settlement]

Vaults ==
    [e \in EscrowIds |-> IF escrows[e] = None THEN None ELSE VaultOf(escrows[e])]

Custody == INSTANCE EscrowCustody WITH accounts <- balances, vaults <- Vaults

ASSUME VaultAssumption == None \notin Custody!Vault

\* Every step of the agent, seen through the mapping, is a deposit, a
\* disbursement, a freeze, or no step at all.
ImplementsCustody == Custody!Spec
================================================================================
