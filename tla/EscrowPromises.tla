---------------------------- MODULE EscrowPromises -----------------------------
(***************************************************************************)
(* What the escrow agent promises to a buyer and to a payee.               *)
(***************************************************************************)
EXTENDS EscrowAgent, FiniteSetsExt

\* Type correctness.  That the money fields and the balances are naturals is not
\* in any type of the code: only the guards of the handlers keep them so.
TypeOK ==
    /\ escrows \in [EscrowIds -> Escrow \cup {None}]
    /\ balances \in [Parties -> Nat]
    /\ paid \subseteq Transition
    /\ lock_ops \in [LockRefs -> LockOutcome \cup {None}]
    /\ op_results \in [EscrowIds -> [OpRefs -> Outcome \cup {None}]]
    /\ now \in 0 .. MaxTime
    /\ credited \in [EscrowIds -> [Parties -> Nat]]

--------------------------------------------------------------------------------
(* Invariants *)

\* The parts of an Escrow record that eight functions assign one by one agree.
\* A claim is pending exactly in claimed and disputed, and is always covered by
\* what remains; an escrow is closed exactly when nothing remains; a settlement
\* (which lifts the reclaim guard) is on record exactly when something was paid.
RecordConsistent(esc) ==
    /\ Remaining(esc) >= 0
    /\ esc.state = "closed" <=> Remaining(esc) = 0
    /\ esc.claim # None <=> esc.state \in {"claimed", "disputed"}
    /\ esc.claim # None =>
          /\ esc.payee_id # None
          /\ 0 < esc.claim.amount_cu /\ esc.claim.amount_cu <= Remaining(esc)
    /\ esc.dispute <=> esc.state = "disputed"
    /\ esc.had_settlement <=> esc.released_cu > 0
    /\ esc.expired => esc.state = "closed"
    /\ esc.payee_id = None => esc.released_cu = 0

EscrowsConsistent == \A e \in Opened : RecordConsistent(escrows[e])

\* A pending claim suspends expiry (_effective_state), but for less than one
\* challenge window past valid_until_ms: a payee cannot hold the lock open by
\* claiming again and again.
SuspendsExpiryBriefly(esc) ==
    esc.claim # None =>
      esc.claim.window_ends_ms < esc.valid_until_ms + esc.challenge_window_ms

ClaimSuspendsExpiryBriefly == \A e \in Opened : SuspendsExpiryBriefly(escrows[e])

\* What an escrow's record says a party got out of it.
Due(esc, p) ==
    (IF p = esc.payee_id THEN esc.released_cu ELSE 0)
      + (IF p = esc.buyer_id THEN esc.reclaimed_cu ELSE 0)

\* What the ledger paid out for an escrow is what the escrow's record says was
\* released to its payee and reclaimed to its buyer: _paid never swallows a
\* payout that the record counts, and never lets one through twice.
PaidInFull ==
    \A e \in Opened : \A p \in Parties : credited[e][p] = Due(escrows[e], p)

\* What an escrow contributes to a party's balance: what it paid the party, less
\* what the party locked in it.
Share(e, p) ==
    Due(escrows[e], p) - (IF p = escrows[e].buyer_id THEN escrows[e].locked_cu ELSE 0)

\* The ledger and the escrows are two records of the same money: each party's
\* balance is its funds, less what it locked, plus what it got back or was paid.
LedgerMatchesEscrows ==
    \A p \in Parties : balances[p] = Funds[p] + SumFunction([e \in Opened |-> Share(e, p)])

\* What the callers were told adds up to what moved: the reclaims answered ok
\* are the whole of reclaimed_cu until expiry adds the rest, and released_cu
\* holds every release answered ok, however often each op_ref was sent.
AnsweredOk(e, method) ==
    {op \in OpRefs : op_results[e][op] # None /\ op_results[e][op].method = method}

Reported(e, method) ==
    SumFunction([op \in AnsweredOk(e, method) |-> op_results[e][op].amount])

AnswersAccountForMoney ==
    \A e \in Opened :
      /\ escrows[e].released_cu >= Reported(e, "release")
      /\ escrows[e].reclaimed_cu >= Reported(e, "reclaim")
      /\ ~escrows[e].expired => escrows[e].reclaimed_cu = Reported(e, "reclaim")
      /\ Reported(e, "release") > 0 => escrows[e].had_settlement

\* One op_ref opens at most one escrow, and every escrow is known to the buyer
\* through exactly one op_ref: a retried lock neither debits again nor strands
\* what it debited.
Opens(op, e) == lock_ops[op] = [code |-> "ok", escrow_id |-> e]

OneEscrowPerLock ==
    \A e \in Opened : Cardinality({op \in LockRefs : Opens(op, e)}) = 1

--------------------------------------------------------------------------------
(* The inductive invariant behind the proofs (EscrowAgentProofs), stated of a
   book so that a handler can be shown to preserve it without looking at the
   other escrows *)

ClaimKey(esc) == <<esc.escrow_id, "auto_release", esc.claim.task_id>>
ExpiryKey(e) == <<e, "expiry_reclaim", None>>

BookType ==
    [esc : Escrow, balances : [Parties -> Nat], paid : SUBSET Transition,
     credited : [Parties -> Nat]]

\* The ledger paid what the record says, and did not pay the pending claim yet.
BookPaid(b) ==
    /\ \A p \in Parties : b.credited[p] = Due(b.esc, p)
    /\ b.esc.claim # None => ClaimKey(b.esc) \notin b.paid

BookInv(b) ==
    /\ b \in BookType
    /\ RecordConsistent(b.esc)
    /\ SuspendsExpiryBriefly(b.esc)
    /\ ~ReuseTaskIds => BookPaid(b)
    /\ ExpiryKey(b.esc.escrow_id) \in b.paid => b.esc.expired

\* The cache of escrowLock names every escrow once, and no other escrow.
RefsMatch ==
    /\ \A e \in Opened : \E op \in LockRefs :
         Opens(op, e) /\ \A other \in LockRefs : Opens(other, e) => other = op
    /\ \A op \in LockRefs, e \in EscrowIds : Opens(op, e) => e \in Opened

\* Beside what each escrow's book says: every key of the ledger belongs to an
\* escrow that exists, and an op_ref that paid out is in the cache, so that a
\* fresh op_ref finds its key free.
Inv ==
    /\ TypeOK
    /\ \A e \in Opened : escrows[e].escrow_id = e /\ BookInv(Book(e))
    /\ \A e \in EscrowIds \ Opened : \A p \in Parties : credited[e][p] = 0
    /\ \A key \in paid :
         /\ key[1] \in Opened
         /\ key[2] \in {"release", "reclaim"} => op_results[key[1]][key[3]] # None
    /\ RefsMatch

--------------------------------------------------------------------------------
(* Action properties *)

Pending(e) == escrows[e] # None /\ escrows[e].state = "claimed"
Untouched(e) == escrows'[e] = escrows[e] /\ credited'[e] = credited[e]

\* A pending claim ends only by a dispute or with at least the claimed amount
\* paid to the payee, whichever handler or clock tick ends it (s4.3, s4.4).
ClaimNotUndercut ==
    [][\A e \in EscrowIds :
         Pending(e) /\ escrows'[e].claim # escrows[e].claim =>
           LET payee == escrows[e].payee_id IN
           credited'[e][payee] >= credited[e][payee] + escrows[e].claim.amount_cu]_vars

\* Until the window ends the claim is the buyer's to answer: only its own release
\* or dispute changes the escrow.  Once it ended, nobody can contest the claim.
ChallengeWindowHonoured ==
    [][\A e \in EscrowIds :
         Pending(e) =>
           IF now < escrows[e].claim.window_ends_ms
           THEN \/ Untouched(e)
                \/ \E op \in OpRefs :
                     \/ Dispute(escrows[e].buyer_id, e, op)
                     \/ \E amount \in Amounts :
                          Release(escrows[e].buyer_id, e, op, amount, escrows[e].payee_id)
           ELSE escrows'[e].state # "disputed"]_vars

\* A disputed escrow is frozen: no handler and no lapse of time moves its money
\* or changes its record.
DisputeFreezes ==
    [][\A e \in EscrowIds :
         (escrows[e] # None /\ escrows[e].state = "disputed") => Untouched(e)]_vars

\* The buyer gets nothing back from a bound escrow before the payee was paid
\* something, except by expiry (the guard of s4.4).
NotDrainedBeforeSettlement ==
    [][\A e \in EscrowIds :
         (/\ escrows[e] # None /\ escrows[e].payee_id # None
          /\ ~escrows[e].had_settlement
          /\ escrows'[e].reclaimed_cu > escrows[e].reclaimed_cu)
         => \/ escrows'[e].had_settlement
            \/ escrows'[e].expired /\ now >= escrows[e].valid_until_ms]_vars

\* Once the clock is past the lock's end and one more challenge window, a single
\* message that touches the escrow settles all of it, unless it is disputed: the
\* elapsed claim and the elapsed lock take effect in the same call.
OneTouchSettles ==
    [][\A e \in EscrowIds :
         (/\ Status(e)
          /\ now >= escrows[e].valid_until_ms
          /\ now >= escrows[e].valid_until_ms + escrows[e].challenge_window_ms)
         => escrows'[e].state \in {"closed", "disputed"}]_vars

--------------------------------------------------------------------------------
(* Liveness.  The agent runs no timer: it is the clock, and a party that asks
   again while something is due, that make money move.  Nothing is assumed of
   the buyer or the payee sending any other request. *)

LiveSpec ==
    Spec /\ WF_vars(Tick) /\ \A e \in EscrowIds : WF_vars(Status(e))

\* Silence is consent: a claim the buyer never answers is paid or contested.
ClaimAnswered ==
    \A e \in EscrowIds : Pending(e) ~> ~Pending(e)

\* No money stays in an escrow for good, except under a dispute.
EscrowEmptied ==
    \A e \in EscrowIds :
      e \in Opened ~> (e \in Opened /\ escrows[e].state \in {"closed", "disputed"})
================================================================================
