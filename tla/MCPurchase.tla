------------------------------- MODULE MCPurchase -------------------------------
(* A small instance of the purchase for TLC. *)
EXTENDS PurchasePromises, TLC

Symmetry == Permutations(TaskIds)
================================================================================
