------------------------------ MODULE MCProvider -------------------------------
(* Instances of the provider for TLC: small numbers of tasks and requests. *)
EXTENDS ProviderPromises

================================================================================
