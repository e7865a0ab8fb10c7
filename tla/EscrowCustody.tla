----------------------------- MODULE EscrowCustody -----------------------------
(***************************************************************************)
(* What an escrow agent is for, without handlers, op_refs, payout keys or  *)
(* a clock: money is in an account or in one vault, and a vault has an     *)
(* owner, perhaps a beneficiary, and perhaps a pledge to the beneficiary.  *)
(* EscrowAgent implements this specification (EscrowRefinement).           *)
(***************************************************************************)
EXTENDS Integers

CONSTANTS Parties, EscrowIds, Funds, None

VARIABLES
    accounts,  \* party -> money it can spend
    vaults     \* escrow id -> vault, or None before it is opened

vars == <<accounts, vaults>>

Vault ==
    [owner : Parties, beneficiary : Parties \cup {None},
     held : Nat, pledge : Nat, frozen : BOOLEAN, settled : BOOLEAN]

Init ==
    /\ accounts = Funds
    /\ vaults = [e \in EscrowIds |-> None]

\* The owner's money moves, whole, into a new vault.
Deposit(e, owner, amount, beneficiary) ==
    /\ vaults[e] = None
    /\ 0 < amount /\ amount <= accounts[owner]
    /\ accounts' = [accounts EXCEPT ![owner] = @ - amount]
    /\ vaults' = [vaults EXCEPT ![e] =
                    [owner |-> owner, beneficiary |-> beneficiary, held |-> amount,
                     pledge |-> 0, frozen |-> FALSE, settled |-> FALSE]]

\* One step of the agent may pay both sides: an elapsed claim to the beneficiary
\* and then what an elapsed lock or the request leaves to the owner.
\*  - a pledge is paid in full before anything else happens to the vault;
\*  - the owner of a vault with a beneficiary gets some of it back only after the
\*    beneficiary was paid something, or all of it for good (expiry);
\*  - a new pledge is covered by what is left, and the beneficiary is final.
Disburse(e, toBeneficiary, toOwner, pledge, beneficiary) ==
    LET v == vaults[e]
        left == v.held - toBeneficiary - toOwner
        settled == v.settled \/ toBeneficiary > 0
    IN /\ ~v.frozen
       /\ left >= 0
       /\ toBeneficiary >= v.pledge
       /\ beneficiary = v.beneficiary \/ v.beneficiary = None
       /\ toBeneficiary > 0 \/ pledge > 0 => beneficiary # None
       /\ toOwner > 0 =>
            v.beneficiary = None \/ settled \/ left = 0
       /\ pledge <= left
       /\ accounts' = [p \in Parties |->
            accounts[p] + (IF p = beneficiary THEN toBeneficiary ELSE 0)
                        + (IF p = v.owner THEN toOwner ELSE 0)]
       /\ vaults' = [vaults EXCEPT ![e] =
            [v EXCEPT !.beneficiary = beneficiary, !.held = left,
                      !.pledge = pledge, !.settled = settled]]

\* The owner contests a pledge: nothing ever leaves a frozen vault.
Freeze(e) ==
    /\ ~vaults[e].frozen
    /\ vaults[e].pledge > 0
    /\ vaults' = [vaults EXCEPT ![e].frozen = TRUE]
    /\ UNCHANGED accounts

Next ==
    \/ \E e \in EscrowIds, owner \in Parties, beneficiary \in Parties \cup {None} :
         \E amount \in 1 .. accounts[owner] : Deposit(e, owner, amount, beneficiary)
    \/ \E e \in EscrowIds :
         /\ vaults[e] # None
         /\ \/ \E toBeneficiary, toOwner, pledge \in 0 .. vaults[e].held,
                  beneficiary \in Parties \cup {None} :
                 Disburse(e, toBeneficiary, toOwner, pledge, beneficiary)
            \/ Freeze(e)

Spec == Init /\ [][Next]_vars
================================================================================
