-------------------------- MODULE EscrowAgentProofs ----------------------------
(***************************************************************************)
(* Proofs that the escrow agent keeps its promises, for every set of       *)
(* parties, escrows, op_refs, task ids and amounts.                        *)
(***************************************************************************)
EXTENDS EscrowRefinement, TLAPS

--------------------------------------------------------------------------------
(* Payouts *)

\* CreditLedger.credit adds to one account and leaves the others alone.
LEMMA CreditType ==
    ASSUME NEW accounts \in [Parties -> Nat], NEW account \in Parties,
           NEW amount \in Nat
    PROVE  /\ Credit(accounts, account, amount) \in [Parties -> Nat]
           /\ \A p \in Parties :
                Credit(accounts, account, amount)[p] =
                  accounts[p] + (IF p = account THEN amount ELSE 0)
BY DEF Credit

\* CreditLedger.payout pays a transition whose key is free.
LEMMA PayoutFresh ==
    ASSUME NEW b \in BookType, NEW kind, NEW ref, NEW account \in Parties,
           NEW amount \in Nat,
           <<b.esc.escrow_id, kind, ref>> \in Transition,
           <<b.esc.escrow_id, kind, ref>> \notin b.paid
    PROVE  LET after == Payout(b, kind, ref, account, amount) IN
           /\ after \in BookType
           /\ after.esc = b.esc
           /\ after.paid = b.paid \cup {<<b.esc.escrow_id, kind, ref>>}
           /\ \A p \in Parties : after.credited[p] =
                b.credited[p] + (IF p = account THEN amount ELSE 0)
<1>1. /\ b.balances \in [Parties -> Nat] /\ b.credited \in [Parties -> Nat]
      /\ b.paid \subseteq Transition /\ b.esc \in Escrow
  BY DEF BookType
<1>2. /\ Credit(b.balances, account, amount) \in [Parties -> Nat]
      /\ Credit(b.credited, account, amount) \in [Parties -> Nat]
      /\ \A p \in Parties : Credit(b.credited, account, amount)[p] =
           b.credited[p] + (IF p = account THEN amount ELSE 0)
  BY <1>1, CreditType
<1>3. b.paid \cup {<<b.esc.escrow_id, kind, ref>>} \in SUBSET Transition
  BY <1>1
<1> QED BY <1>1, <1>2, <1>3 DEF Payout, BookType

\* CreditLedger.payout keeps the shape of the book, whether it pays or not.
LEMMA PayoutType ==
    ASSUME NEW b \in BookType, NEW kind, NEW ref, NEW account \in Parties,
           NEW amount \in Nat,
           <<b.esc.escrow_id, kind, ref>> \in Transition
    PROVE  LET after == Payout(b, kind, ref, account, amount) IN
           /\ after \in BookType
           /\ after.esc = b.esc
           /\ after.paid = b.paid \cup {<<b.esc.escrow_id, kind, ref>>}
<1>1. CASE <<b.esc.escrow_id, kind, ref>> \in b.paid
  BY <1>1 DEF Payout
<1>2. CASE <<b.esc.escrow_id, kind, ref>> \notin b.paid
  BY <1>2, PayoutFresh
<1> QED BY <1>1, <1>2

\* How the escrow s differs from esc after amount was paid to the payee.
IsSettled(s, esc, payee, amount) ==
    /\ s.payee_id = payee /\ s.claim = None
    /\ s.released_cu = esc.released_cu + amount
    /\ s.had_settlement = TRUE
    /\ s.state = IF Remaining(esc) - amount <= 0 THEN "closed" ELSE "open"
    /\ Remaining(s) = Remaining(esc) - amount
    /\ s.escrow_id = esc.escrow_id /\ s.buyer_id = esc.buyer_id
    /\ s.reclaimed_cu = esc.reclaimed_cu /\ s.locked_cu = esc.locked_cu
    /\ s.valid_until_ms = esc.valid_until_ms
    /\ s.challenge_window_ms = esc.challenge_window_ms
    /\ s.dispute = esc.dispute /\ s.expired = esc.expired

\* What the assignments of a release or auto-release leave in the record.
LEMMA SettledType ==
    ASSUME NEW esc \in Escrow, NEW payee \in Parties, NEW amount \in Nat
    PROVE  /\ Settled(esc, payee, amount) \in Escrow
           /\ IsSettled(Settled(esc, payee, amount), esc, payee, amount)
<1> DEFINE s == Settled(esc, payee, amount)
<1>1. s \in Escrow
  <2> DEFINE state == IF Remaining(esc) - amount <= 0 THEN "closed" ELSE "open"
             released == esc.released_cu + amount
  <2>1. state \in EscrowState
    BY DEF EscrowState
  <2>2. released \in Nat
    BY DEF Escrow
  <2>3. s = [esc EXCEPT !.payee_id = payee, !.claim = None,
                        !.released_cu = released, !.had_settlement = TRUE,
                        !.state = state]
    BY DEF Settled
  <2> HIDE DEF s, state, released
  <2> QED BY <2>1, <2>2, <2>3 DEF Escrow
<1>2. /\ s.payee_id = payee /\ s.claim = None
      /\ s.released_cu = esc.released_cu + amount
      /\ s.had_settlement = TRUE
      /\ s.state = IF Remaining(esc) - amount <= 0 THEN "closed" ELSE "open"
  BY DEF Settled, Escrow
<1>3. /\ s.escrow_id = esc.escrow_id /\ s.buyer_id = esc.buyer_id
      /\ s.reclaimed_cu = esc.reclaimed_cu /\ s.locked_cu = esc.locked_cu
      /\ s.valid_until_ms = esc.valid_until_ms
      /\ s.challenge_window_ms = esc.challenge_window_ms
      /\ s.dispute = esc.dispute /\ s.expired = esc.expired
  BY DEF Settled, Escrow
<1>4. Remaining(s) = Remaining(esc) - amount
  BY <1>2, <1>3 DEF Remaining, Escrow
<1> QED BY <1>1, <1>2, <1>3, <1>4 DEF IsSettled

\* A book whose record is replaced by another record is a book.
LEMMA BookWith ==
    ASSUME NEW b \in BookType, NEW esc \in Escrow
    PROVE  LET c == [b EXCEPT !.esc = esc] IN
           /\ c \in BookType
           /\ c.esc = esc /\ c.balances = b.balances
           /\ c.paid = b.paid /\ c.credited = b.credited
BY DEF BookType

\* What paying amount to an account under the key <<escrow, kind, ref>> makes of
\* the book b, where esc is the escrow's new record.
IsPaid(after, b, esc, kind, ref, account, amount) ==
    /\ BookInv(after)
    /\ after.esc = esc
    /\ after.paid = b.paid \cup {<<b.esc.escrow_id, kind, ref>>}
    /\ ~ReuseTaskIds =>
         /\ after.credited[account] = b.credited[account] + amount
         /\ \A p \in Parties : after.credited[p] >= b.credited[p]

\* A payment to the payee, by a release or by an elapsed window.
LEMMA SettledPaid ==
    ASSUME NEW b, BookInv(b), NEW payee \in Parties, NEW amount \in Nat,
           NEW kind, NEW ref,
           b.esc.state \in {"open", "claimed"},
           b.esc.payee_id = None \/ b.esc.payee_id = payee,
           0 < amount, amount <= Remaining(b.esc),
           kind # "expiry_reclaim",
           <<b.esc.escrow_id, kind, ref>> \in Transition,
           ~ReuseTaskIds => <<b.esc.escrow_id, kind, ref>> \notin b.paid
    PROVE  LET esc == Settled(b.esc, payee, amount)
               after == Payout([b EXCEPT !.esc = esc], kind, ref, payee, amount)
           IN IsPaid(after, b, esc, kind, ref, payee, amount)
<1> DEFINE esc == Settled(b.esc, payee, amount)
           drawn == [b EXCEPT !.esc = esc]
           after == Payout(drawn, kind, ref, payee, amount)
           key == <<b.esc.escrow_id, kind, ref>>
<1>1. b \in BookType /\ b.esc \in Escrow
  BY DEF BookInv, BookType
<1>2. esc \in Escrow /\ IsSettled(esc, b.esc, payee, amount)
  <2> HIDE DEF drawn, after, key
  <2> QED BY <1>1, SettledType
<1> HIDE DEF esc
<1>3. /\ drawn \in BookType
      /\ drawn.esc = esc /\ drawn.paid = b.paid /\ drawn.credited = b.credited
  BY <1>1, <1>2, BookWith
<1> HIDE DEF drawn
<1>4. /\ after \in BookType /\ after.esc = esc /\ after.paid = b.paid \cup {key}
  BY <1>2, <1>3, PayoutType DEF IsSettled
<1>5. ~ReuseTaskIds => \A p \in Parties : after.credited[p] =
                         b.credited[p] + (IF p = payee THEN amount ELSE 0)
  BY <1>2, <1>3, PayoutFresh DEF IsSettled
<1> HIDE DEF after
<1>6. RecordConsistent(esc)
  <2>1. Remaining(b.esc) \in Int /\ b.esc.released_cu \in Nat
    BY <1>1 DEF Remaining, Escrow
  <2> QED BY <1>2, <2>1, NoneAssumption DEF BookInv, RecordConsistent, IsSettled
<1>7. SuspendsExpiryBriefly(esc)
  BY <1>2 DEF SuspendsExpiryBriefly, IsSettled
<1>8. ~ReuseTaskIds => BookPaid(after)
  <2> SUFFICES ASSUME ~ReuseTaskIds PROVE BookPaid(after)
    OBVIOUS
  <2>1. ASSUME NEW p \in Parties PROVE after.credited[p] = Due(esc, p)
    <3>1. b.credited[p] = Due(b.esc, p)
      BY DEF BookInv, BookPaid
    <3>2. b.esc.payee_id = None => b.esc.released_cu = 0
      BY DEF BookInv, RecordConsistent
    <3>3. b.esc.released_cu \in Nat /\ b.esc.reclaimed_cu \in Nat
      BY <1>1 DEF Escrow
    <3> QED BY <1>2, <1>5, <3>1, <3>2, <3>3, NoneAssumption DEF Due, IsSettled
  <2> QED BY <1>2, <1>4, <2>1 DEF BookPaid, IsSettled
<1>9. ExpiryKey(esc.escrow_id) \in after.paid => esc.expired
  BY <1>2, <1>4 DEF BookInv, ExpiryKey, IsSettled
<1>10. ~ReuseTaskIds =>
         /\ after.credited[payee] = b.credited[payee] + amount
         /\ \A p \in Parties : after.credited[p] >= b.credited[p]
  <2>1. \A p \in Parties : b.credited[p] \in Nat
    BY <1>1 DEF BookType
  <2> QED BY <1>5, <2>1
<1> QED BY <1>4, <1>6, <1>7, <1>8, <1>9, <1>10 DEF BookInv, IsPaid, esc, after, drawn

--------------------------------------------------------------------------------
(* Lazy time evaluation *)

\* The transitions that time alone may pay out.
LazyKeys(e) == ({e} \X {"auto_release"} \X TaskIds) \cup {ExpiryKey(e)}

\* _auto_release preserves the invariant and pays the claimed amount.
LEMMA AutoReleaseInv ==
    ASSUME NEW b, BookInv(b), b.esc.state = "claimed"
    PROVE  /\ BookInv(AutoRelease(b))
           /\ AutoRelease(b).esc = Settled(b.esc, b.esc.payee_id, b.esc.claim.amount_cu)
           /\ AutoRelease(b).esc.escrow_id = b.esc.escrow_id
           /\ AutoRelease(b).esc.claim = None
           /\ AutoRelease(b).esc.state \in {"open", "closed"}
           /\ AutoRelease(b).paid = b.paid \cup {ClaimKey(b.esc)}
           /\ ClaimKey(b.esc) \in LazyKeys(b.esc.escrow_id)
           /\ ~ReuseTaskIds =>
                AutoRelease(b).credited[b.esc.payee_id]
                  = b.credited[b.esc.payee_id] + b.esc.claim.amount_cu
<1> DEFINE payee == b.esc.payee_id
           amount == b.esc.claim.amount_cu
           esc == Settled(b.esc, payee, amount)
<1>1. b \in BookType /\ b.esc \in Escrow
  BY DEF BookInv, BookType
<1>2. /\ b.esc.claim # None /\ payee # None
      /\ 0 < amount /\ amount <= Remaining(b.esc)
  BY DEF BookInv, RecordConsistent
<1>3. payee \in Parties /\ b.esc.claim \in Claim /\ b.esc.escrow_id \in EscrowIds
  BY <1>1, <1>2 DEF Escrow
<1>4. amount \in Nat /\ b.esc.claim.task_id \in TaskIds
  BY <1>3 DEF Claim
<1>5. ClaimKey(b.esc) \in Transition /\ ClaimKey(b.esc) \in LazyKeys(b.esc.escrow_id)
  BY <1>3, <1>4 DEF ClaimKey, Transition, LazyKeys
<1>6. ~ReuseTaskIds => ClaimKey(b.esc) \notin b.paid
  BY <1>2 DEF BookInv, BookPaid
<1>7. AutoRelease(b) = Payout([b EXCEPT !.esc = esc], "auto_release",
                              b.esc.claim.task_id, payee, amount)
  BY DEF AutoRelease
<1>8. IsPaid(AutoRelease(b), b, esc, "auto_release", b.esc.claim.task_id, payee, amount)
  <2>1. /\ b.esc.state \in {"open", "claimed"}
        /\ b.esc.payee_id = None \/ b.esc.payee_id = payee
        /\ "auto_release" # "expiry_reclaim"
    OBVIOUS
  <2> HIDE DEF payee, amount
  <2> QED BY <1>2, <1>3, <1>4, <1>5, <1>6, <1>7, <2>1, SettledPaid DEF ClaimKey
<1>9. /\ esc.escrow_id = b.esc.escrow_id /\ esc.claim = None
      /\ esc.state \in {"open", "closed"}
  BY <1>1, <1>3, <1>4, SettledType DEF IsSettled
<1> QED BY <1>5, <1>8, <1>9 DEF IsPaid, ClaimKey

\* How the escrow s differs from esc after amount went back to the buyer.
IsReclaimed(s, esc, amount) ==
    /\ s.reclaimed_cu = esc.reclaimed_cu + amount
    /\ Remaining(s) = Remaining(esc) - amount
    /\ s.escrow_id = esc.escrow_id /\ s.buyer_id = esc.buyer_id
    /\ s.payee_id = esc.payee_id /\ s.claim = esc.claim
    /\ s.released_cu = esc.released_cu /\ s.locked_cu = esc.locked_cu
    /\ s.valid_until_ms = esc.valid_until_ms
    /\ s.challenge_window_ms = esc.challenge_window_ms
    /\ s.dispute = esc.dispute /\ s.had_settlement = esc.had_settlement

\* A payment back to the buyer of an open escrow, by a reclaim or by expiry.
LEMMA ReclaimedPaid ==
    ASSUME NEW b, BookInv(b), b.esc.state = "open",
           NEW esc \in Escrow, NEW amount \in Nat,
           IsReclaimed(esc, b.esc, amount),
           0 < amount, amount <= Remaining(b.esc),
           esc.state = IF Remaining(esc) <= 0 THEN "closed" ELSE "open",
           NEW kind, NEW ref,
           kind = "expiry_reclaim" => esc.expired,
           kind # "auto_release",
           esc.expired => b.esc.expired \/ esc.state = "closed",
           b.esc.expired => esc.expired,
           <<b.esc.escrow_id, kind, ref>> \in Transition,
           <<b.esc.escrow_id, kind, ref>> \notin b.paid
    PROVE  LET after == Payout([b EXCEPT !.esc = esc], kind, ref, esc.buyer_id, amount)
           IN IsPaid(after, b, esc, kind, ref, esc.buyer_id, amount)
<1> DEFINE drawn == [b EXCEPT !.esc = esc]
           after == Payout(drawn, kind, ref, esc.buyer_id, amount)
           key == <<b.esc.escrow_id, kind, ref>>
<1>1. b \in BookType /\ b.esc \in Escrow
  BY DEF BookInv, BookType
<1>2. /\ drawn \in BookType
      /\ drawn.esc = esc /\ drawn.paid = b.paid /\ drawn.credited = b.credited
  BY <1>1, BookWith
<1> HIDE DEF drawn
<1>3. esc.buyer_id \in Parties /\ esc.escrow_id = b.esc.escrow_id
  BY DEF Escrow, IsReclaimed
<1>4. /\ after \in BookType /\ after.esc = esc /\ after.paid = b.paid \cup {key}
      /\ \A p \in Parties : after.credited[p] =
           b.credited[p] + (IF p = esc.buyer_id THEN amount ELSE 0)
  BY <1>2, <1>3, PayoutFresh
<1> HIDE DEF after
<1>5. /\ b.esc.claim = None /\ ~b.esc.dispute /\ b.esc.state # "closed"
  BY DEF BookInv, RecordConsistent
<1>6. RecordConsistent(esc)
  <2>1. Remaining(b.esc) \in Int /\ b.esc.released_cu \in Nat
    BY <1>1 DEF Remaining, Escrow
  <2> QED BY <1>5, <2>1 DEF BookInv, RecordConsistent, IsReclaimed
<1>7. SuspendsExpiryBriefly(esc)
  BY <1>5 DEF SuspendsExpiryBriefly, IsReclaimed
<1>8. ~ReuseTaskIds => BookPaid(after)
  <2> SUFFICES ASSUME ~ReuseTaskIds PROVE BookPaid(after)
    OBVIOUS
  <2>1. ASSUME NEW p \in Parties PROVE after.credited[p] = Due(esc, p)
    <3>1. b.credited[p] = Due(b.esc, p)
      BY DEF BookInv, BookPaid
    <3>2. b.esc.released_cu \in Nat /\ b.esc.reclaimed_cu \in Nat
      BY <1>1 DEF Escrow
    <3> QED BY <1>4, <3>1, <3>2 DEF Due, IsReclaimed
  <2> QED BY <1>4, <1>5, <2>1 DEF BookPaid, IsReclaimed
<1>9. ExpiryKey(esc.escrow_id) \in after.paid => esc.expired
  BY <1>3, <1>4 DEF BookInv, ExpiryKey
<1>10. /\ after.credited[esc.buyer_id] = b.credited[esc.buyer_id] + amount
       /\ \A p \in Parties : after.credited[p] >= b.credited[p]
  <2>1. \A p \in Parties : b.credited[p] \in Nat
    BY <1>1 DEF BookType
  <2> QED BY <1>3, <1>4, <2>1
<1> QED BY <1>4, <1>6, <1>7, <1>8, <1>9, <1>10 DEF BookInv, IsPaid, after, drawn

\* _auto_reclaim_expiry draws all that remains and pays it under the expiry key.
LEMMA ExpiryDraws ==
    ASSUME NEW b, BookInv(b), b.esc.state = "open"
    PROVE  \E esc \in Escrow, amount \in Nat :
             /\ IsReclaimed(esc, b.esc, amount)
             /\ 0 < amount /\ amount = Remaining(b.esc) /\ Remaining(esc) = 0
             /\ esc.state = "closed" /\ esc.expired
             /\ AutoReclaimExpiry(b) =
                  Payout([b EXCEPT !.esc = esc], "expiry_reclaim", None,
                         esc.buyer_id, amount)
<1> DEFINE amount == Remaining(b.esc)
           esc == [b.esc EXCEPT !.reclaimed_cu = @ + amount,
                                !.state = "closed", !.expired = TRUE]
<1>1. b \in BookType /\ b.esc \in Escrow
  BY DEF BookInv, BookType
<1>2. amount \in Int /\ amount >= 0 /\ amount # 0
  BY <1>1 DEF BookInv, RecordConsistent, Remaining, Escrow
<1>3. amount \in Nat /\ 0 < amount
  BY <1>2
<1>4. esc \in Escrow /\ esc.state = "closed" /\ esc.expired
  <2>1. b.esc.reclaimed_cu + amount \in Nat /\ "closed" \in EscrowState
    BY <1>1, <1>3 DEF Escrow, EscrowState
  <2> HIDE DEF amount
  <2> QED BY <1>1, <2>1 DEF Escrow
<1>5. IsReclaimed(esc, b.esc, amount) /\ Remaining(esc) = 0
  <2>1. esc.reclaimed_cu = b.esc.reclaimed_cu + amount
    BY <1>1 DEF Escrow
  <2>2. /\ esc.escrow_id = b.esc.escrow_id /\ esc.buyer_id = b.esc.buyer_id
        /\ esc.payee_id = b.esc.payee_id /\ esc.claim = b.esc.claim
        /\ esc.released_cu = b.esc.released_cu /\ esc.locked_cu = b.esc.locked_cu
        /\ esc.valid_until_ms = b.esc.valid_until_ms
        /\ esc.challenge_window_ms = b.esc.challenge_window_ms
        /\ esc.dispute = b.esc.dispute /\ esc.had_settlement = b.esc.had_settlement
    BY <1>1 DEF Escrow
  <2>3. Remaining(esc) = Remaining(b.esc) - amount /\ Remaining(esc) = 0
    BY <1>1, <2>1, <2>2 DEF Remaining, Escrow
  <2> QED BY <2>1, <2>2, <2>3 DEF IsReclaimed
<1>6. AutoReclaimExpiry(b) =
        Payout([b EXCEPT !.esc = esc], "expiry_reclaim", None, esc.buyer_id, amount)
  BY <1>3 DEF AutoReclaimExpiry
<1>7. amount = Remaining(b.esc)
  OBVIOUS
<1> HIDE DEF esc, amount
<1> QED BY <1>3, <1>4, <1>5, <1>6, <1>7

\* _auto_reclaim_expiry preserves the invariant and closes the escrow.
LEMMA AutoReclaimExpiryInv ==
    ASSUME NEW b, BookInv(b), b.esc.state = "open"
    PROVE  /\ BookInv(AutoReclaimExpiry(b))
           /\ AutoReclaimExpiry(b).esc.escrow_id = b.esc.escrow_id
           /\ AutoReclaimExpiry(b).esc.payee_id = b.esc.payee_id
           /\ AutoReclaimExpiry(b).esc.claim = None
           /\ AutoReclaimExpiry(b).esc.state = "closed"
           /\ AutoReclaimExpiry(b).paid = b.paid \cup {ExpiryKey(b.esc.escrow_id)}
           /\ ExpiryKey(b.esc.escrow_id) \in LazyKeys(b.esc.escrow_id)
           /\ ~ReuseTaskIds =>
                \A p \in Parties : AutoReclaimExpiry(b).credited[p] >= b.credited[p]
<1> DEFINE key == <<b.esc.escrow_id, "expiry_reclaim", None>>
<1>1. b \in BookType /\ b.esc \in Escrow
  BY DEF BookInv, BookType
<1>2. b.esc.claim = None /\ ~b.esc.expired
  BY DEF BookInv, RecordConsistent
<1>3. PICK esc \in Escrow, amount \in Nat :
        /\ IsReclaimed(esc, b.esc, amount)
        /\ 0 < amount /\ amount = Remaining(b.esc) /\ Remaining(esc) = 0
        /\ esc.state = "closed" /\ esc.expired
        /\ AutoReclaimExpiry(b) =
             Payout([b EXCEPT !.esc = esc], "expiry_reclaim", None, esc.buyer_id, amount)
  BY ExpiryDraws
<1>4. /\ key = ExpiryKey(b.esc.escrow_id) /\ key \in Transition
      /\ key \in LazyKeys(b.esc.escrow_id) /\ key \notin b.paid
  BY <1>1, <1>2 DEF ExpiryKey, Transition, LazyKeys, BookInv, Escrow
<1>5. IsPaid(AutoReclaimExpiry(b), b, esc, "expiry_reclaim", None, esc.buyer_id, amount)
  <2>1. amount <= Remaining(b.esc) /\ "expiry_reclaim" # "auto_release"
    BY <1>3
  <2>2. esc.state = IF Remaining(esc) <= 0 THEN "closed" ELSE "open"
    BY <1>3
  <2> QED BY <1>2, <1>3, <1>4, <2>1, <2>2, ReclaimedPaid
<1> QED BY <1>2, <1>3, <1>4, <1>5 DEF IsReclaimed, IsPaid

\* What _effective_state leaves for the handler that called it.
IsEffective(s, b) ==
    /\ BookInv(s)
    /\ s.esc.escrow_id = b.esc.escrow_id
    /\ s.esc.payee_id = b.esc.payee_id
    /\ b.paid \subseteq s.paid
    /\ s.paid \subseteq b.paid \cup LazyKeys(b.esc.escrow_id)
    /\ s.esc.state \in {"claimed", "disputed"} => s = b
    /\ b.esc.state \in {"disputed", "closed"} => s = b
    /\ s.esc.state = "open" => ~LockElapsed(s.esc)
    /\ ~ReuseTaskIds /\ b.esc.state = "claimed" /\ s # b =>
         s.credited[b.esc.payee_id] >= b.credited[b.esc.payee_id] + b.esc.claim.amount_cu

\* _effective_state preserves the invariant, whichever transitions are due.
LEMMA EffectiveStateInv ==
    ASSUME NEW b, BookInv(b)
    PROVE  IsEffective(EffectiveState(b), b)
<1> DEFINE released == IF WindowElapsed(b.esc) THEN AutoRelease(b) ELSE b
           after == EffectiveState(b)
<1>0. after = IF LockElapsed(released.esc) THEN AutoReclaimExpiry(released) ELSE released
  BY DEF EffectiveState
<1>1. b.esc.state \in {"disputed", "closed"} => after = b
  BY DEF EffectiveState, WindowElapsed, LockElapsed
<1>2. /\ BookInv(released)
      /\ released.esc.escrow_id = b.esc.escrow_id
      /\ released.esc.payee_id = b.esc.payee_id
      /\ b.paid \subseteq released.paid
      /\ released.paid \subseteq b.paid \cup LazyKeys(b.esc.escrow_id)
      /\ released # b => /\ b.esc.state = "claimed"
                         /\ released.esc.state \in {"open", "closed"}
      /\ ~ReuseTaskIds /\ released # b =>
           released.credited[b.esc.payee_id]
             = b.credited[b.esc.payee_id] + b.esc.claim.amount_cu
  <2>1. CASE WindowElapsed(b.esc)
    <3>1. b.esc.state = "claimed"
      BY <2>1 DEF WindowElapsed
    <3>2. b.esc \in Escrow /\ b.esc.claim \in Claim /\ b.esc.payee_id \in Parties
      BY <3>1 DEF BookInv, BookType, RecordConsistent, Escrow
    <3>3. released.esc.payee_id = b.esc.payee_id
      <4>1. b.esc.claim.amount_cu \in Nat
        BY <3>2 DEF Claim
      <4>2. Settled(b.esc, b.esc.payee_id, b.esc.claim.amount_cu).payee_id = b.esc.payee_id
        BY <3>2, <4>1, SettledType DEF IsSettled
      <4> QED BY <2>1, <3>1, <4>2, AutoReleaseInv
    <3> QED BY <2>1, <3>1, <3>3, AutoReleaseInv
  <2>2. CASE ~WindowElapsed(b.esc)
    BY <2>2
  <2> QED BY <2>1, <2>2
<1> HIDE DEF released
<1>3. CASE LockElapsed(released.esc)
  <2>1. released.esc.state = "open"
    BY <1>3 DEF LockElapsed
  <2>2. after = AutoReclaimExpiry(released)
    BY <1>0, <1>3
  <2>3. /\ BookInv(after) /\ after.esc.escrow_id = b.esc.escrow_id
        /\ after.esc.payee_id = b.esc.payee_id /\ after.esc.state = "closed"
        /\ b.paid \subseteq after.paid
        /\ after.paid \subseteq b.paid \cup LazyKeys(b.esc.escrow_id)
        /\ ~ReuseTaskIds =>
             \A p \in Parties : after.credited[p] >= released.credited[p]
    BY <1>2, <2>1, <2>2, AutoReclaimExpiryInv
  <2>4. ASSUME ~ReuseTaskIds, b.esc.state = "claimed"
        PROVE  after.credited[b.esc.payee_id]
                 >= b.credited[b.esc.payee_id] + b.esc.claim.amount_cu
    <3>1. released # b
      BY <2>1, <2>4
    <3>2. /\ b \in BookType /\ released \in BookType /\ after \in BookType
          /\ b.esc.claim \in Claim /\ b.esc.payee_id \in Parties
      BY <1>2, <2>3, <2>4 DEF BookInv, BookType, RecordConsistent, Escrow
    <3>3. /\ after.credited[b.esc.payee_id] \in Nat
          /\ b.credited[b.esc.payee_id] \in Nat /\ b.esc.claim.amount_cu \in Nat
      BY <3>2 DEF BookType, Claim
    <3> QED BY <1>2, <2>3, <2>4, <3>1, <3>2, <3>3
  <2> HIDE DEF after
  <2> QED BY <1>1, <2>3, <2>4 DEF IsEffective, after
<1>4. CASE ~LockElapsed(released.esc)
  <2>1. after = released
    BY <1>0, <1>4
  <2>2. ASSUME ~ReuseTaskIds, b.esc.state = "claimed", released # b
        PROVE  released.credited[b.esc.payee_id]
                 >= b.credited[b.esc.payee_id] + b.esc.claim.amount_cu
    <3>1. /\ b.credited[b.esc.payee_id] \in Nat /\ b.esc.claim.amount_cu \in Nat
      BY <2>2 DEF BookInv, BookType, RecordConsistent, Escrow, Claim
    <3> QED BY <1>2, <2>2, <3>1
  <2> HIDE DEF after
  <2> QED BY <1>1, <1>2, <1>4, <2>1, <2>2 DEF IsEffective, after
<1> QED BY <1>3, <1>4

--------------------------------------------------------------------------------
(* The handlers *)

OpKeys(e, op) == {e} \X {"release", "reclaim"} \X {op}

\* What the part of a handler behind its guards does to the book s.
IsHandled(after, s, op) ==
    /\ BookInv(after)
    /\ after.esc.escrow_id = s.esc.escrow_id
    /\ s.paid \subseteq after.paid
    /\ after.paid \subseteq s.paid \cup OpKeys(s.esc.escrow_id, op)
    /\ s.esc.state = "disputed" => after = s
    /\ ~ReuseTaskIds => \A p \in Parties : after.credited[p] >= s.credited[p]
    /\ ~ReuseTaskIds /\ s.esc.state = "claimed" /\ after.esc.claim # s.esc.claim =>
         after.credited[s.esc.payee_id] >= s.credited[s.esc.payee_id] + s.esc.claim.amount_cu

\* A handler refused by one of its guards leaves the resolved book as it is.
LEMMA UntouchedHandled ==
    ASSUME NEW s, BookInv(s), NEW op
    PROVE  IsHandled(s, s, op)
<1> \A p \in Parties : s.credited[p] \in Nat
  BY DEF BookInv, BookType
<1> QED BY DEF IsHandled

\* escrowBind preserves the invariant.
LEMMA BoundHandled ==
    ASSUME NEW s, BookInv(s), NEW op \in OpRefs, NEW p \in Parties,
           NEW payee \in Parties, NEW window \in Windows \cup {None},
           BindCode(s.esc, p) = "ok"
    PROVE  IsHandled(Bound(s, payee, window), s, op)
<1> DEFINE length == IF window = None THEN s.esc.challenge_window_ms ELSE window
           esc == [s.esc EXCEPT !.payee_id = payee, !.challenge_window_ms = length]
           after == [s EXCEPT !.esc = esc]
<1>1. s \in BookType /\ s.esc \in Escrow
  BY DEF BookInv, BookType
<1>2. s.esc.payee_id = None
  BY DEF BindCode
<1>3. /\ s.esc.claim = None /\ s.esc.state \notin {"claimed", "disputed"}
      /\ s.esc.released_cu = 0
  BY <1>2 DEF BookInv, RecordConsistent
<1>4. length \in Int
  BY <1>1, TimesAssumption DEF Escrow
<1>5. Bound(s, payee, window) = after
  BY DEF Bound
<1> HIDE DEF length
<1>6. /\ esc \in Escrow
      /\ esc.payee_id = payee /\ esc.claim = s.esc.claim
      /\ esc.released_cu = s.esc.released_cu /\ esc.reclaimed_cu = s.esc.reclaimed_cu
      /\ esc.locked_cu = s.esc.locked_cu /\ esc.state = s.esc.state
      /\ esc.buyer_id = s.esc.buyer_id /\ esc.escrow_id = s.esc.escrow_id
      /\ esc.dispute = s.esc.dispute /\ esc.had_settlement = s.esc.had_settlement
      /\ esc.expired = s.esc.expired
  BY <1>1, <1>4 DEF Escrow
<1> HIDE DEF esc
<1>7. /\ after \in BookType /\ after.esc = esc
      /\ after.paid = s.paid /\ after.credited = s.credited
  BY <1>1, <1>6, BookWith
<1> HIDE DEF after
<1>8. RecordConsistent(esc)
  <2>1. Remaining(esc) = Remaining(s.esc)
    BY <1>6 DEF Remaining
  <2> QED BY <1>3, <1>6, <2>1, NoneAssumption DEF BookInv, RecordConsistent
<1>9. SuspendsExpiryBriefly(esc)
  BY <1>3, <1>6 DEF SuspendsExpiryBriefly
<1>10. ~ReuseTaskIds => BookPaid(after)
  <2> SUFFICES ASSUME ~ReuseTaskIds PROVE BookPaid(after)
    OBVIOUS
  <2>1. ASSUME NEW q \in Parties PROVE after.credited[q] = Due(esc, q)
    <3>1. s.credited[q] = Due(s.esc, q) /\ s.esc.reclaimed_cu \in Nat
      BY <1>1 DEF BookInv, BookPaid, Escrow
    <3> QED BY <1>2, <1>3, <1>6, <1>7, <3>1, NoneAssumption DEF Due
  <2> QED BY <1>3, <1>6, <1>7, <2>1 DEF BookPaid
<1>11. ExpiryKey(esc.escrow_id) \in after.paid => esc.expired
  BY <1>6, <1>7 DEF BookInv
<1>12. BookInv(after)
  BY <1>7, <1>8, <1>9, <1>10, <1>11 DEF BookInv
<1>20. \A q \in Parties : s.credited[q] \in Nat
  BY <1>1 DEF BookType
<1> QED BY <1>3, <1>5, <1>6, <1>7, <1>12, <1>20 DEF IsHandled

\* escrowRelease preserves the invariant and pays a pending claim in full.
LEMMA ReleasedHandled ==
    ASSUME NEW s, BookInv(s), NEW op \in OpRefs, NEW p \in Parties,
           NEW payee \in Parties, NEW amount \in Amounts,
           ReleaseCode(s.esc, p, amount, payee) = "ok",
           <<s.esc.escrow_id, "release", op>> \notin s.paid
    PROVE  IsHandled(Released(s, op, amount, payee), s, op)
<1> DEFINE key == <<s.esc.escrow_id, "release", op>>
           after == Released(s, op, amount, payee)
<1>1. /\ amount \in Nat /\ 0 < amount /\ amount <= Remaining(s.esc)
      /\ s.esc.payee_id = None \/ s.esc.payee_id = payee
      /\ s.esc.state \in {"open", "claimed"}
      /\ s.esc.state = "claimed" => amount >= s.esc.claim.amount_cu
  <2>1. amount \in Nat
    BY AmountsAssumption
  <2>2. /\ s.esc.locked_cu \in Nat /\ s.esc.released_cu \in Nat
        /\ s.esc.reclaimed_cu \in Nat
        /\ s.esc.state = "claimed" => s.esc.claim.amount_cu \in Nat
    BY DEF BookInv, BookType, Escrow, RecordConsistent, Claim
  <2>3. /\ ~(amount <= 0) /\ ~(amount > Remaining(s.esc))
        /\ Releasable(s.esc) /\ ~Undercuts(s.esc, amount)
        /\ s.esc.payee_id \in {None, payee}
    BY DEF ReleaseCode
  <2>4. Remaining(s.esc) \in Int
    BY <2>2 DEF Remaining
  <2>5. s.esc.state = "claimed" => amount >= s.esc.claim.amount_cu
    BY <2>1, <2>2, <2>3 DEF Undercuts
  <2> QED BY <2>1, <2>3, <2>4, <2>5 DEF Releasable
<1>2. key \in Transition /\ key \in OpKeys(s.esc.escrow_id, op)
  BY DEF Transition, OpKeys, BookInv, BookType, Escrow
<1>3. IsPaid(after, s, Settled(s.esc, payee, amount), "release", op, payee, amount)
  <2>1. "release" # "expiry_reclaim"
    OBVIOUS
  <2> QED BY <1>1, <1>2, <2>1, SettledPaid DEF Released
<1>4. after.esc.escrow_id = s.esc.escrow_id
  <2>1. s.esc \in Escrow
    BY DEF BookInv, BookType
  <2>2. IsSettled(Settled(s.esc, payee, amount), s.esc, payee, amount)
    BY <1>1, <2>1, SettledType
  <2> QED BY <1>3, <2>2 DEF IsSettled, IsPaid
<1>5. ASSUME ~ReuseTaskIds, s.esc.state = "claimed"
      PROVE  after.credited[s.esc.payee_id]
               >= s.credited[s.esc.payee_id] + s.esc.claim.amount_cu
  <2>1. s.esc.payee_id = payee /\ s.esc.claim \in Claim /\ s.credited[payee] \in Nat
    BY <1>1, <1>5 DEF BookInv, BookType, RecordConsistent, Escrow
  <2>2. s.esc.claim.amount_cu \in Nat
    BY <2>1 DEF Claim
  <2> QED BY <1>1, <1>3, <1>5, <2>1, <2>2 DEF IsPaid
<1> HIDE DEF after
<1> QED BY <1>1, <1>2, <1>3, <1>4, <1>5 DEF IsHandled, IsPaid, after

\* The part of escrowReclaim behind its guards draws amount and pays it.
LEMMA ReclaimDraws ==
    ASSUME NEW s \in BookType, NEW op, NEW amount \in Nat, 0 < amount
    PROVE  \E esc \in Escrow :
             /\ IsReclaimed(esc, s.esc, amount) /\ esc.expired = s.esc.expired
             /\ esc.state = IF Remaining(esc) <= 0 THEN "closed" ELSE "open"
             /\ Reclaimed(s, op, amount) =
                  Payout([s EXCEPT !.esc = esc], "reclaim", op, esc.buyer_id, amount)
<1> DEFINE state == IF Remaining(s.esc) - amount <= 0 THEN "closed" ELSE "open"
           esc == [s.esc EXCEPT !.reclaimed_cu = @ + amount, !.state = state]
<1>1. s.esc \in Escrow
  BY DEF BookType
<1>2. state \in EscrowState /\ s.esc.reclaimed_cu + amount \in Nat
  BY <1>1 DEF EscrowState, Escrow
<1>3. Reclaimed(s, op, amount) =
        Payout([s EXCEPT !.esc = esc], "reclaim", op, esc.buyer_id, amount)
  BY DEF Reclaimed
<1> HIDE DEF state
<1>4. /\ esc \in Escrow
      /\ esc.reclaimed_cu = s.esc.reclaimed_cu + amount /\ esc.state = state
      /\ esc.escrow_id = s.esc.escrow_id /\ esc.buyer_id = s.esc.buyer_id
      /\ esc.payee_id = s.esc.payee_id /\ esc.claim = s.esc.claim
      /\ esc.released_cu = s.esc.released_cu /\ esc.locked_cu = s.esc.locked_cu
      /\ esc.valid_until_ms = s.esc.valid_until_ms
      /\ esc.challenge_window_ms = s.esc.challenge_window_ms
      /\ esc.dispute = s.esc.dispute /\ esc.had_settlement = s.esc.had_settlement
      /\ esc.expired = s.esc.expired
  BY <1>1, <1>2 DEF Escrow
<1> HIDE DEF esc
<1>5. Remaining(esc) = Remaining(s.esc) - amount
  BY <1>1, <1>4 DEF Remaining, Escrow
<1>6. IsReclaimed(esc, s.esc, amount)
  BY <1>4, <1>5 DEF IsReclaimed
<1>7. esc.state = IF Remaining(esc) <= 0 THEN "closed" ELSE "open"
  BY <1>4, <1>5 DEF state
<1> QED BY <1>3, <1>4, <1>6, <1>7

\* The amount a reclaim that passed the guards draws.
LEMMA ReclaimAmount ==
    ASSUME NEW s, BookInv(s), NEW p \in Parties, NEW request \in Amounts \cup {None},
           ReclaimCode(s.esc, p, request) = "ok"
    PROVE  LET amount == IF request = None THEN Remaining(s.esc) ELSE request
           IN amount \in Nat /\ 0 < amount /\ amount <= Remaining(s.esc)
<1> DEFINE amount == IF request = None THEN Remaining(s.esc) ELSE request
<1>1. s.esc \in Escrow /\ s.esc.state = "open"
  BY DEF BookInv, BookType, ReclaimCode
<1>2. Remaining(s.esc) \in Int /\ Remaining(s.esc) > 0
  BY <1>1 DEF BookInv, RecordConsistent, Remaining, Escrow
<1>3. CASE request = None
  BY <1>2, <1>3
<1>4. CASE request # None
  <2>1. request \in Nat
    BY <1>4, AmountsAssumption
  <2>2. ~(request <= 0) /\ ~(request > Remaining(s.esc))
    BY <1>4 DEF ReclaimCode
  <2> QED BY <1>2, <1>4, <2>1, <2>2
<1> QED BY <1>3, <1>4

\* escrowReclaim preserves the invariant and never pays more than remains.
LEMMA ReclaimedHandled ==
    ASSUME NEW s, BookInv(s), NEW op \in OpRefs, NEW p \in Parties,
           NEW request \in Amounts \cup {None},
           ReclaimCode(s.esc, p, request) = "ok",
           <<s.esc.escrow_id, "reclaim", op>> \notin s.paid
    PROVE  LET amount == IF request = None THEN Remaining(s.esc) ELSE request
           IN /\ amount \in Nat
              /\ IsHandled(Reclaimed(s, op, amount), s, op)
<1> DEFINE amount == IF request = None THEN Remaining(s.esc) ELSE request
           key == <<s.esc.escrow_id, "reclaim", op>>
           after == Reclaimed(s, op, amount)
<1>1. s \in BookType /\ s.esc \in Escrow
  BY DEF BookInv, BookType
<1>2. s.esc.state = "open" /\ s.esc.claim = None /\ ~s.esc.expired
  BY DEF ReclaimCode, BookInv, RecordConsistent
<1>3. amount \in Nat /\ 0 < amount /\ amount <= Remaining(s.esc)
  BY ReclaimAmount
<1> HIDE DEF amount
<1>4. PICK esc \in Escrow :
        /\ IsReclaimed(esc, s.esc, amount) /\ esc.expired = s.esc.expired
        /\ esc.state = IF Remaining(esc) <= 0 THEN "closed" ELSE "open"
        /\ after = Payout([s EXCEPT !.esc = esc], "reclaim", op, esc.buyer_id, amount)
  BY <1>1, <1>3, ReclaimDraws
<1>5. key \in Transition /\ key \in OpKeys(s.esc.escrow_id, op)
  BY <1>1 DEF Transition, OpKeys, Escrow
<1> HIDE DEF after
<1>6. IsPaid(after, s, esc, "reclaim", op, esc.buyer_id, amount)
  <2>1. "reclaim" # "expiry_reclaim" /\ "reclaim" # "auto_release"
    OBVIOUS
  <2>2. IsPaid(Payout([s EXCEPT !.esc = esc], "reclaim", op, esc.buyer_id, amount),
               s, esc, "reclaim", op, esc.buyer_id, amount)
    BY <1>2, <1>3, <1>4, <1>5, <2>1, ReclaimedPaid
  <2> QED BY <1>4, <2>2
<1>7. IsHandled(after, s, op)
  BY <1>2, <1>4, <1>5, <1>6 DEF IsHandled, IsPaid, IsReclaimed
<1> QED BY <1>3, <1>7 DEF amount, after

\* escrowClaim preserves the invariant: what it pledges remains, unpaid so far.
LEMMA ClaimedHandled ==
    ASSUME NEW s, BookInv(s), NEW op \in OpRefs, NEW p \in Parties,
           NEW amount \in Amounts, NEW task \in TaskIds,
           now \in Nat, ~LockElapsed(s.esc) \/ s.esc.state # "open",
           TaskIdAllowed(s, task),
           ClaimCode(s.esc, p, amount) = "ok"
    PROVE  IsHandled(Claimed(s, amount, task), s, op)
<1> DEFINE claim == [amount_cu |-> amount, task_id |-> task,
                     window_ends_ms |-> now + s.esc.challenge_window_ms]
           esc == [s.esc EXCEPT !.claim = claim, !.state = "claimed"]
           after == [s EXCEPT !.esc = esc]
<1>1. s \in BookType /\ s.esc \in Escrow
  BY DEF BookInv, BookType
<1>2. /\ s.esc.payee_id # None /\ s.esc.state = "open" /\ ~s.esc.expired
      /\ ~(amount <= 0) /\ ClaimCovered(s.esc, amount)
  BY DEF ClaimCode
<1>3. amount \in Nat /\ 0 < amount /\ amount <= Remaining(s.esc)
  <2>1. amount \in Nat
    BY AmountsAssumption
  <2> QED BY <1>2, <2>1 DEF ClaimCovered
<1>4. /\ s.esc.challenge_window_ms \in Int /\ s.esc.valid_until_ms \in Int
      /\ now < s.esc.valid_until_ms
  <2>1. s.esc.claim = None /\ ~s.esc.dispute
    BY <1>2 DEF BookInv, RecordConsistent
  <2> QED BY <1>1, <1>2, <2>1 DEF LockElapsed, Escrow
<1>5. /\ claim \in Claim /\ claim # None
      /\ claim.amount_cu = amount /\ claim.task_id = task
      /\ claim.window_ends_ms = now + s.esc.challenge_window_ms
  BY <1>3, <1>4, NoneAssumption DEF Claim
<1> HIDE DEF claim
<1>6. /\ esc \in Escrow
      /\ esc.claim = claim /\ esc.state = "claimed"
      /\ esc.reclaimed_cu = s.esc.reclaimed_cu /\ esc.released_cu = s.esc.released_cu
      /\ esc.locked_cu = s.esc.locked_cu
      /\ esc.escrow_id = s.esc.escrow_id /\ esc.buyer_id = s.esc.buyer_id
      /\ esc.payee_id = s.esc.payee_id
      /\ esc.valid_until_ms = s.esc.valid_until_ms
      /\ esc.challenge_window_ms = s.esc.challenge_window_ms
      /\ esc.dispute = s.esc.dispute /\ esc.had_settlement = s.esc.had_settlement
      /\ esc.expired = s.esc.expired
  BY <1>1, <1>5 DEF Escrow, EscrowState
<1>7. Claimed(s, amount, task) = after
  BY DEF Claimed, claim
<1> HIDE DEF esc
<1>8. /\ after \in BookType /\ after.esc = esc
      /\ after.paid = s.paid /\ after.credited = s.credited
  BY <1>1, <1>6, BookWith
<1> HIDE DEF after
<1>9. RecordConsistent(esc)
  <2>1. Remaining(esc) = Remaining(s.esc) /\ Remaining(s.esc) \in Int
    BY <1>1, <1>6 DEF Remaining, Escrow
  <2> QED BY <1>2, <1>3, <1>5, <1>6, <2>1 DEF BookInv, RecordConsistent
<1>10. SuspendsExpiryBriefly(esc)
  BY <1>4, <1>5, <1>6 DEF SuspendsExpiryBriefly
<1>11. ~ReuseTaskIds => BookPaid(after)
  BY <1>5, <1>6, <1>8 DEF BookInv, BookPaid, Due, ClaimKey, TaskIdAllowed
<1>12. ExpiryKey(esc.escrow_id) \in after.paid => esc.expired
  BY <1>6, <1>8 DEF BookInv
<1>13. BookInv(after)
  BY <1>8, <1>9, <1>10, <1>11, <1>12 DEF BookInv
<1>20. \A q \in Parties : s.credited[q] \in Nat
  BY <1>1 DEF BookType
<1> QED BY <1>2, <1>6, <1>7, <1>8, <1>13, <1>20 DEF IsHandled

\* escrowDispute preserves the invariant and keeps the claim.
LEMMA DisputedHandled ==
    ASSUME NEW s, BookInv(s), NEW op \in OpRefs, NEW p \in Parties,
           DisputeCode(s.esc, p) = "ok"
    PROVE  IsHandled(Disputed(s), s, op)
<1> DEFINE esc == [s.esc EXCEPT !.dispute = TRUE, !.state = "disputed"]
           after == [s EXCEPT !.esc = esc]
<1>1. s \in BookType /\ s.esc \in Escrow
  BY DEF BookInv, BookType
<1>2. s.esc.state = "claimed"
  BY DEF DisputeCode
<1>3. /\ esc \in Escrow
      /\ esc.dispute = TRUE /\ esc.state = "disputed"
      /\ esc.reclaimed_cu = s.esc.reclaimed_cu /\ esc.released_cu = s.esc.released_cu
      /\ esc.locked_cu = s.esc.locked_cu
      /\ esc.escrow_id = s.esc.escrow_id /\ esc.buyer_id = s.esc.buyer_id
      /\ esc.payee_id = s.esc.payee_id /\ esc.claim = s.esc.claim
      /\ esc.valid_until_ms = s.esc.valid_until_ms
      /\ esc.challenge_window_ms = s.esc.challenge_window_ms
      /\ esc.had_settlement = s.esc.had_settlement /\ esc.expired = s.esc.expired
  BY <1>1 DEF Escrow, EscrowState
<1>4. Disputed(s) = after
  BY DEF Disputed
<1> HIDE DEF esc
<1>5. /\ after \in BookType /\ after.esc = esc
      /\ after.paid = s.paid /\ after.credited = s.credited
  BY <1>1, <1>3, BookWith
<1> HIDE DEF after
<1>6. RecordConsistent(esc)
  <2>1. Remaining(esc) = Remaining(s.esc)
    BY <1>3 DEF Remaining
  <2> QED BY <1>2, <1>3, <2>1 DEF BookInv, RecordConsistent
<1>7. SuspendsExpiryBriefly(esc)
  BY <1>3 DEF BookInv, SuspendsExpiryBriefly
<1>8. ~ReuseTaskIds => BookPaid(after)
  BY <1>3, <1>5 DEF BookInv, BookPaid, Due, ClaimKey
<1>9. ExpiryKey(esc.escrow_id) \in after.paid => esc.expired
  BY <1>3, <1>5 DEF BookInv
<1>10. BookInv(after)
  BY <1>5, <1>6, <1>7, <1>8, <1>9 DEF BookInv
<1>20. \A q \in Parties : s.credited[q] \in Nat
  BY <1>1 DEF BookType
<1> QED BY <1>2, <1>3, <1>4, <1>5, <1>10, <1>20 DEF IsHandled

--------------------------------------------------------------------------------
(* One handler, from the clock to its answer *)

\* What a handler called with op leaves of the book of escrow e.
IsStep(after, e, op) ==
    /\ BookInv(after)
    /\ after.esc.escrow_id = e
    /\ paid \subseteq after.paid
    /\ after.paid \subseteq paid \cup LazyKeys(e) \cup OpKeys(e, op)
    /\ escrows[e].state = "disputed" => after = Book(e)
    /\ ~ReuseTaskIds /\ escrows[e].state = "claimed" /\ after.esc.claim # escrows[e].claim =>
         after.credited[escrows[e].payee_id]
           >= credited[e][escrows[e].payee_id] + escrows[e].claim.amount_cu

\* Every handler starts from a book that satisfies the invariant, its key free.
LEMMA ResolvedIsEffective ==
    ASSUME Inv, NEW e \in Opened
    PROVE  /\ BookInv(Book(e)) /\ Book(e).esc.escrow_id = e
           /\ IsEffective(Resolved(e), Book(e))
           /\ BookInv(Resolved(e)) /\ Resolved(e).esc.escrow_id = e
           /\ \A op \in OpRefs : op_results[e][op] = None =>
                \A kind \in {"release", "reclaim"} : <<e, kind, op>> \notin Resolved(e).paid
<1>1. BookInv(Book(e)) /\ Book(e).esc.escrow_id = e /\ Book(e).paid = paid
  BY DEF Inv, Book
<1>2. IsEffective(Resolved(e), Book(e))
  BY <1>1, EffectiveStateInv DEF Resolved
<1>3. BookInv(Resolved(e)) /\ Resolved(e).esc.escrow_id = e
  BY <1>1, <1>2 DEF IsEffective
<1>4. ASSUME NEW op \in OpRefs, op_results[e][op] = None,
             NEW kind \in {"release", "reclaim"}
      PROVE  <<e, kind, op>> \notin Resolved(e).paid
  <2>1. Resolved(e).paid \subseteq paid \cup LazyKeys(e)
    BY <1>1, <1>2 DEF IsEffective
  <2>2. <<e, kind, op>> \notin paid
    BY <1>4 DEF Inv
  <2>3. <<e, kind, op>> \notin LazyKeys(e)
    BY DEF LazyKeys, ExpiryKey
  <2> QED BY <2>1, <2>2, <2>3
<1> QED BY <1>1, <1>2, <1>3, <1>4

\* _effective_state and the handler behind it, taken together.
LEMMA HandledIsStep ==
    ASSUME Inv, NEW e \in Opened, NEW op \in OpRefs, NEW after,
           IsHandled(after, Resolved(e), op)
    PROVE  IsStep(after, e, op)
<1> DEFINE b == Book(e)
           s == Resolved(e)
<1>1. /\ BookInv(b) /\ b.esc.escrow_id = e /\ IsEffective(s, b)
      /\ BookInv(s) /\ s.esc.escrow_id = e
  BY ResolvedIsEffective
<1>2. b.esc = escrows[e] /\ b.paid = paid /\ b.credited = credited[e]
  BY DEF Book
<1> HIDE DEF b, s
<1>3. BookInv(after) /\ after.esc.escrow_id = e
  BY <1>1 DEF IsHandled, s
<1>4. paid \subseteq after.paid /\ after.paid \subseteq paid \cup LazyKeys(e) \cup OpKeys(e, op)
  BY <1>1, <1>2 DEF IsHandled, IsEffective, s
<1>5. b.esc.state = "disputed" => after = b
  BY <1>1 DEF IsHandled, IsEffective, s
<1>6. ASSUME ~ReuseTaskIds, b.esc.state = "claimed", after.esc.claim # b.esc.claim
      PROVE  after.credited[b.esc.payee_id]
               >= b.credited[b.esc.payee_id] + b.esc.claim.amount_cu
  <2>1. CASE s = b
    BY <1>6, <2>1 DEF IsHandled, s
  <2>2. CASE s # b
    <3>1. s.credited[b.esc.payee_id] >= b.credited[b.esc.payee_id] + b.esc.claim.amount_cu
      BY <1>1, <1>6, <2>2 DEF IsEffective
    <3>2. b.esc.payee_id \in Parties /\ b.esc.claim.amount_cu \in Nat
      BY <1>1, <1>6 DEF BookInv, BookType, RecordConsistent, Escrow, Claim
    <3>3. after.credited[b.esc.payee_id] >= s.credited[b.esc.payee_id]
      BY <1>6, <3>2 DEF IsHandled, s
    <3>4. /\ after.credited[b.esc.payee_id] \in Nat /\ s.credited[b.esc.payee_id] \in Nat
          /\ b.credited[b.esc.payee_id] \in Nat
      BY <1>1, <1>3, <3>2 DEF BookInv, BookType
    <3> QED BY <3>1, <3>2, <3>3, <3>4
  <2> QED BY <2>1, <2>2
<1> QED BY <1>2, <1>3, <1>4, <1>5, <1>6 DEF IsStep, b

\* What the handlers of bind, release, reclaim and claim make of a book behind
\* their guards, without the message around them.
Does(after, s, p, op) ==
    \/ \E payee \in Parties, window \in Windows \cup {None} :
         /\ BindCode(s.esc, p) = "ok"
         /\ after = Bound(s, payee, window)
    \/ \E amount \in Amounts, payee \in Parties :
         /\ ReleaseCode(s.esc, p, amount, payee) = "ok"
         /\ after = Released(s, op, amount, payee)
    \/ \E request \in Amounts \cup {None} :
         /\ ReclaimCode(s.esc, p, request) = "ok"
         /\ after = Reclaimed(s, op, IF request = None THEN Remaining(s.esc) ELSE request)
    \/ \E amount \in Amounts, task \in TaskIds :
         /\ ClaimCode(s.esc, p, amount) = "ok"
         /\ TaskIdAllowed(s, task)
         /\ after = Claimed(s, amount, task)

\* And that of dispute.
Contests(after, s, p) == DisputeCode(s.esc, p) = "ok" /\ after = Disputed(s)

\* A request leaves the resolved book as it is, or its handler does its work.
LEMMA RequestDoes ==
    ASSUME NEW p \in Parties, NEW e \in EscrowIds, NEW op \in OpRefs, Request(p, e, op),
           BookInv(Resolved(e))
    PROVE  /\ Fresh(e, op)
           /\ \E after, code, outcome :
                /\ outcome \in Outcome
                /\ code \in ErrorCode \cup {"ok"}
                /\ Answer(e, op, code, outcome, after)
                /\ \/ after = Resolved(e)
                   \/ Does(after, Resolved(e), p, op)
                   \/ Contests(after, Resolved(e), p)
<1> DEFINE s == Resolved(e)
           Answered(code, outcome, after) ==
             /\ outcome \in Outcome
             /\ code \in ErrorCode \cup {"ok"}
             /\ Answer(e, op, code, outcome, after)
             /\ after = s \/ Does(after, s, p, op) \/ Contests(after, s, p)
           Goal == \E after, code, outcome : Answered(code, outcome, after)
<1>1. Fresh(e, op)
  BY DEF Request, Bind, Release, Reclaim, ClaimOp, Dispute
<1>2. BookInv(s)
  OBVIOUS
<1>3. ASSUME NEW payee \in Parties, NEW window \in Windows \cup {None},
             Bind(p, e, op, payee, window)
      PROVE  Goal
  <2> DEFINE code == BindCode(s.esc, p)
             after == IF code = "ok" THEN Bound(s, payee, window) ELSE s
  <2>1. code \in ErrorCode \cup {"ok"}
    BY DEF BindCode, ErrorCode
  <2>2. Result("bind", 0) \in Outcome
    BY DEF Result, Outcome, Method
  <2>3. Answer(e, op, code, Result("bind", 0), after)
    BY <1>3 DEF Bind
  <2>4. after = s \/ Does(after, s, p, op)
    BY DEF Does
  <2> HIDE DEF code, after, s
  <2> QED BY <2>1, <2>2, <2>3, <2>4
<1>4. ASSUME NEW amount \in Amounts, NEW payee \in Parties,
             Release(p, e, op, amount, payee)
      PROVE  Goal
  <2> DEFINE code == ReleaseCode(s.esc, p, amount, payee)
             after == IF code = "ok" THEN Released(s, op, amount, payee) ELSE s
  <2>1. code \in ErrorCode \cup {"ok"}
    BY DEF ReleaseCode, ErrorCode
  <2>2. Result("release", amount) \in Outcome
    BY AmountsAssumption DEF Result, Outcome, Method
  <2>3. Answer(e, op, code, Result("release", amount), after)
    BY <1>4 DEF Release
  <2>4. after = s \/ Does(after, s, p, op)
    BY DEF Does
  <2> HIDE DEF code, after, s
  <2> QED BY <2>1, <2>2, <2>3, <2>4
<1>5. ASSUME NEW request \in Amounts \cup {None}, Reclaim(p, e, op, request)
      PROVE  Goal
  <2> DEFINE code == ReclaimCode(s.esc, p, request)
             amount == IF request = None THEN Remaining(s.esc) ELSE request
             after == IF code = "ok" THEN Reclaimed(s, op, amount) ELSE s
             outcome == IF code = "ok" THEN Result("reclaim", amount) ELSE Result("reclaim", 0)
  <2>1. code \in ErrorCode \cup {"ok"}
    BY DEF ReclaimCode, ErrorCode
  <2>2. outcome \in Outcome
    <3>1. code = "ok" => amount \in Nat
      <4> HIDE DEF s
      <4> QED BY <1>2, ReclaimAmount
    <3> HIDE DEF code, amount
    <3> QED BY <3>1 DEF Result, Outcome, Method
  <2>3. Answer(e, op, code, outcome, after)
    BY <1>5 DEF Reclaim, Answer
  <2>4. after = s \/ Does(after, s, p, op)
    BY DEF Does
  <2> HIDE DEF code, after, outcome, s
  <2> QED BY <2>1, <2>2, <2>3, <2>4
<1>6. ASSUME NEW amount \in Amounts, NEW task \in TaskIds, ClaimOp(p, e, op, amount, task)
      PROVE  Goal
  <2> DEFINE code == ClaimCode(s.esc, p, amount)
             after == IF code = "ok" THEN Claimed(s, amount, task) ELSE s
  <2>1. code \in ErrorCode \cup {"ok"}
    BY DEF ClaimCode, ErrorCode
  <2>2. Result("claim", 0) \in Outcome
    BY DEF Result, Outcome, Method
  <2>3. Answer(e, op, code, Result("claim", 0), after) /\ TaskIdAllowed(s, task)
    BY <1>6 DEF ClaimOp
  <2>4. after = s \/ Does(after, s, p, op)
    BY <2>3 DEF Does
  <2> HIDE DEF code, after, s
  <2> QED BY <2>1, <2>2, <2>3, <2>4
<1>7. ASSUME Dispute(p, e, op) PROVE Goal
  <2> DEFINE code == DisputeCode(s.esc, p)
             after == IF code = "ok" THEN Disputed(s) ELSE s
  <2>1. code \in ErrorCode \cup {"ok"}
    BY DEF DisputeCode, ErrorCode
  <2>2. Result("dispute", 0) \in Outcome
    BY DEF Result, Outcome, Method
  <2>3. Answer(e, op, code, Result("dispute", 0), after)
    BY <1>7 DEF Dispute
  <2>4. after = s \/ Contests(after, s, p)
    BY DEF Contests
  <2> HIDE DEF code, after, s
  <2> QED BY <2>1, <2>2, <2>3, <2>4
<1> HIDE DEF Goal
<1>8. Goal
  BY <1>3, <1>4, <1>5, <1>6, <1>7 DEF Request
<1> QED BY <1>1, <1>8 DEF Goal

\* Every handler preserves the invariant of the book it works on.
LEMMA DoesHandled ==
    ASSUME NEW s, BookInv(s), NEW p \in Parties, NEW op \in OpRefs, NEW after,
           now \in Nat, s.esc.state = "open" => ~LockElapsed(s.esc),
           <<s.esc.escrow_id, "release", op>> \notin s.paid,
           <<s.esc.escrow_id, "reclaim", op>> \notin s.paid,
           after = s \/ Does(after, s, p, op) \/ Contests(after, s, p)
    PROVE  IsHandled(after, s, op)
<1>1. CASE after = s
  BY <1>1, UntouchedHandled
<1>2. ASSUME NEW payee \in Parties, NEW window \in Windows \cup {None},
             BindCode(s.esc, p) = "ok", after = Bound(s, payee, window)
      PROVE  IsHandled(after, s, op)
  BY <1>2, BoundHandled
<1>3. ASSUME NEW amount \in Amounts, NEW payee \in Parties,
             ReleaseCode(s.esc, p, amount, payee) = "ok",
             after = Released(s, op, amount, payee)
      PROVE  IsHandled(after, s, op)
  BY <1>3, ReleasedHandled
<1>4. ASSUME NEW request \in Amounts \cup {None},
             ReclaimCode(s.esc, p, request) = "ok",
             after = Reclaimed(s, op, IF request = None THEN Remaining(s.esc) ELSE request)
      PROVE  IsHandled(after, s, op)
  BY <1>4, ReclaimedHandled
<1>5. ASSUME NEW amount \in Amounts, NEW task \in TaskIds,
             ClaimCode(s.esc, p, amount) = "ok", TaskIdAllowed(s, task),
             after = Claimed(s, amount, task)
      PROVE  IsHandled(after, s, op)
  BY <1>5, ClaimedHandled
<1>6. CASE Contests(after, s, p)
  BY <1>6, DisputedHandled DEF Contests
<1>7. CASE Does(after, s, p, op)
  BY <1>2, <1>3, <1>4, <1>5, <1>7 DEF Does
<1> QED BY <1>1, <1>6, <1>7

\* A fresh request, answered ok or not, is a step of one escrow that is cached.
LEMMA RequestStep ==
    ASSUME Inv, NEW p \in Parties, NEW e \in EscrowIds, NEW op \in OpRefs,
           Request(p, e, op)
    PROVE  /\ e \in Opened /\ op_results[e][op] = None
           /\ \E after, code, outcome :
                /\ IsStep(after, e, op)
                /\ outcome \in Outcome
                /\ code \in ErrorCode \cup {"ok"}
                /\ Answer(e, op, code, outcome, after)
                /\ \/ after = Resolved(e)
                   \/ Does(after, Resolved(e), p, op)
                   \/ Contests(after, Resolved(e), p)
<1> DEFINE s == Resolved(e)
<1>1. e \in Opened /\ op_results[e][op] = None
  BY DEF Request, Bind, Release, Reclaim, ClaimOp, Dispute, Fresh, Opened
<1>2. /\ BookInv(s) /\ s.esc.escrow_id = e
      /\ s.esc.state = "open" => ~LockElapsed(s.esc)
      /\ <<e, "release", op>> \notin s.paid /\ <<e, "reclaim", op>> \notin s.paid
  BY <1>1, ResolvedIsEffective DEF IsEffective
<1>3. now \in Nat
  BY TimesAssumption DEF Inv, TypeOK
<1>4. PICK after, code, outcome :
        /\ outcome \in Outcome
        /\ code \in ErrorCode \cup {"ok"}
        /\ Answer(e, op, code, outcome, after)
        /\ after = s \/ Does(after, s, p, op) \/ Contests(after, s, p)
  BY <1>2, RequestDoes
<1> HIDE DEF s
<1>5. IsHandled(after, s, op)
  BY <1>2, <1>3, <1>4, DoesHandled
<1>6. IsStep(after, e, op)
  BY <1>1, <1>5, HandledIsStep DEF s
<1> QED BY <1>1, <1>4, <1>6 DEF s

--------------------------------------------------------------------------------
(* The invariant is inductive *)

\* Committing what a handler made of one escrow's book leaves the books of the
\* other escrows in order: no key of theirs was paid.
LEMMA CommitInv ==
    ASSUME Inv, NEW e \in Opened, NEW op \in OpRefs \cup {None}, NEW after,
           IsStep(after, e, op), Commit(after),
           op_results' \in [EscrowIds -> [OpRefs -> Outcome \cup {None}]],
           \A x \in EscrowIds, o \in OpRefs :
             op_results[x][o] # None => op_results'[x][o] # None,
           \/ after.paid \subseteq paid \cup LazyKeys(e)
           \/ op \in OpRefs /\ op_results'[e][op] # None,
           UNCHANGED <<lock_ops, now>>
    PROVE  Inv'
<1>1. /\ BookInv(after) /\ after.esc.escrow_id = e /\ paid \subseteq after.paid
      /\ after.paid \subseteq paid \cup LazyKeys(e) \cup OpKeys(e, op)
  BY DEF IsStep
<1>2. /\ after \in BookType /\ after.esc \in Escrow
      /\ after.balances \in [Parties -> Nat] /\ after.credited \in [Parties -> Nat]
      /\ after.paid \subseteq Transition
  BY <1>1 DEF BookInv, BookType
<1>3. /\ escrows' = [escrows EXCEPT ![e] = after.esc]
      /\ balances' = after.balances /\ paid' = after.paid
      /\ credited' = [credited EXCEPT ![e] = after.credited]
  BY <1>1 DEF Commit
<1>4. /\ e \in EscrowIds /\ escrows \in [EscrowIds -> Escrow \cup {None}]
      /\ credited \in [EscrowIds -> [Parties -> Nat]]
  BY DEF Inv, TypeOK, Opened
<1>5. TypeOK'
  BY <1>2, <1>3, <1>4 DEF Inv, TypeOK
<1>6. Opened' = Opened
  BY <1>2, <1>3, <1>4, NoneAssumption DEF Opened
<1>7. ASSUME NEW x \in Opened'
      PROVE  escrows'[x].escrow_id = x /\ BookInv(Book(x)')
  <2>1. CASE x = e
    <3>1. Book(x)' = after
      <4>1. Book(x)' = [esc |-> after.esc, balances |-> after.balances,
                        paid |-> after.paid, credited |-> after.credited]
        BY <1>3, <1>4, <2>1 DEF Book
      <4> QED BY <1>2, <4>1 DEF BookType
    <3> QED BY <1>1, <1>3, <1>4, <2>1, <3>1
  <2>2. CASE x # e
    <3>1. /\ x \in Opened /\ x \in EscrowIds
          /\ escrows[x].escrow_id = x /\ BookInv(Book(x))
      BY <1>6 DEF Inv, Opened
    <3>2. escrows'[x] = escrows[x] /\ credited'[x] = credited[x]
      BY <1>3, <1>4, <2>2, <3>1
    <3>3. \A kind, ref : <<x, kind, ref>> \in paid' => <<x, kind, ref>> \in paid
      BY <1>1, <1>3, <2>2 DEF LazyKeys, ExpiryKey, OpKeys
    <3> DEFINE old == Book(x)
               new == [esc |-> escrows[x], balances |-> balances', paid |-> paid',
                       credited |-> credited[x]]
    <3>4. Book(x)' = new
      BY <3>2 DEF Book
    <3>5. /\ old.esc = escrows[x] /\ old.paid = paid /\ old.credited = credited[x]
          /\ new.esc = escrows[x] /\ new.paid = paid' /\ new.credited = credited[x]
      BY DEF Book
    <3>6. new \in BookType
      <4>1. escrows[x] \in Escrow
        BY <3>1, <3>5 DEF BookInv, BookType
      <4> QED BY <1>2, <1>3, <1>4, <3>1, <4>1 DEF BookType
    <3> HIDE DEF old, new
    <3>7. BookInv(old) /\ old.esc.escrow_id = x
      BY <3>1, <3>5 DEF old
    <3>8. BookInv(new)
      <4>1. RecordConsistent(new.esc) /\ SuspendsExpiryBriefly(new.esc)
        BY <3>5, <3>7 DEF BookInv
      <4>2. ~ReuseTaskIds => BookPaid(new)
        BY <3>3, <3>5, <3>7 DEF BookInv, BookPaid, ClaimKey
      <4>3. ExpiryKey(new.esc.escrow_id) \in new.paid => new.esc.expired
        BY <3>3, <3>5, <3>7 DEF BookInv, ExpiryKey
      <4> QED BY <3>6, <4>1, <4>2, <4>3 DEF BookInv
    <3> QED BY <3>1, <3>2, <3>4, <3>8
  <2> QED BY <2>1, <2>2
<1>8. ASSUME NEW x \in EscrowIds \ Opened', NEW p \in Parties
      PROVE  credited'[x][p] = 0
  BY <1>3, <1>4, <1>6 DEF Inv
<1>9. ASSUME NEW key \in paid'
      PROVE  /\ key[1] \in Opened'
             /\ key[2] \in {"release", "reclaim"} => op_results'[key[1]][key[3]] # None
  <2>1. CASE key \in paid
    <3>1. key \in Transition
      BY <2>1 DEF Inv, TypeOK
    <3>2. key[1] \in EscrowIds /\ (key[2] \in {"release", "reclaim"} => key[3] \in OpRefs)
      BY <3>1 DEF Transition
    <3> QED BY <1>6, <2>1, <3>2 DEF Inv
  <2>2. CASE key \in LazyKeys(e)
    BY <1>6, <2>2 DEF LazyKeys, ExpiryKey
  <2>3. CASE key \in OpKeys(e, op) /\ key \notin paid \cup LazyKeys(e)
    BY <1>3, <1>6, <2>3 DEF OpKeys
  <2> QED BY <1>1, <1>3, <1>9, <2>1, <2>2, <2>3
<1>10. RefsMatch'
  BY <1>6 DEF Inv, RefsMatch, Opens
<1> QED BY <1>5, <1>7, <1>8, <1>9, <1>10 DEF Inv

\* escrowLock opens a well-formed escrow.
LEMMA NewEscrowType ==
    ASSUME NEW p \in Parties, NEW e \in EscrowIds, NEW amount \in Amounts,
           NEW until \in ValidUntils, NEW window \in Windows \cup {None},
           NEW payee \in Parties \cup {None}
    PROVE  /\ NewEscrow(e, p, amount, until, window, payee) \in Escrow
           /\ NewEscrow(e, p, amount, until, window, payee) # None
<1> DEFINE length == IF window = None THEN DefaultWindow ELSE window
           esc == NewEscrow(e, p, amount, until, window, payee)
<1>1. length \in Int /\ until \in Int /\ amount \in Nat
  BY TimesAssumption, AmountsAssumption
<1>2. esc = [escrow_id |-> e, buyer_id |-> p,
             locked_cu |-> amount, valid_until_ms |-> until,
             challenge_window_ms |-> length,
             state |-> "open", released_cu |-> 0, reclaimed_cu |-> 0,
             payee_id |-> payee, claim |-> None,
             dispute |-> FALSE, had_settlement |-> FALSE, expired |-> FALSE]
  BY DEF NewEscrow
<1> HIDE DEF length, esc
<1>3. esc \in Escrow
  BY <1>1, <1>2 DEF Escrow, EscrowState
<1> QED BY <1>3, NoneAssumption DEF esc

\* escrowLock preserves the invariant: what it debits is what the escrow holds.
LEMMA LockInv ==
    ASSUME Inv, NEW p \in Parties, NEW op \in LockRefs, NEW e \in EscrowIds,
           NEW amount \in Amounts, NEW until \in ValidUntils,
           NEW window \in Windows \cup {None}, NEW payee \in Parties \cup {None},
           Lock(p, op, e, amount, until, window, payee)
    PROVE  Inv'
<1> DEFINE esc == NewEscrow(e, p, amount, until, window, payee)
<1>1. /\ amount \in Nat /\ 0 < amount /\ amount <= balances[p]
  <2>1. amount \in Nat /\ balances[p] \in Nat
    BY AmountsAssumption DEF Inv, TypeOK
  <2>2. ~(amount <= 0) /\ balances[p] >= amount
    BY DEF Lock, LockCode, Funded
  <2> QED BY <2>1, <2>2
<1>2. /\ escrows[e] = None /\ e \notin Opened
      /\ escrows' = [escrows EXCEPT ![e] = esc]
      /\ balances' = [balances EXCEPT ![p] = @ - amount]
      /\ lock_ops' = [lock_ops EXCEPT ![op] = [code |-> "ok", escrow_id |-> e]]
      /\ UNCHANGED <<paid, op_results, now, credited>>
  BY DEF Lock, Opened
<1>3. esc \in Escrow /\ esc # None
  BY NewEscrowType
<1>4. /\ esc.escrow_id = e /\ esc.buyer_id = p /\ esc.locked_cu = amount
      /\ esc.released_cu = 0 /\ esc.reclaimed_cu = 0 /\ esc.claim = None
      /\ esc.state = "open" /\ esc.dispute = FALSE /\ esc.had_settlement = FALSE
      /\ esc.expired = FALSE
  BY DEF NewEscrow
<1> HIDE DEF esc
<1>5. /\ escrows \in [EscrowIds -> Escrow \cup {None}]
      /\ balances \in [Parties -> Nat] /\ balances' \in [Parties -> Nat]
      /\ credited \in [EscrowIds -> [Parties -> Nat]] /\ paid \subseteq Transition
  <2>1. balances \in [Parties -> Nat]
    BY DEF Inv, TypeOK
  <2>2. balances[p] - amount \in Nat
    BY <1>1, <2>1
  <2> QED BY <1>2, <2>1, <2>2 DEF Inv, TypeOK
<1>6. TypeOK'
  <2>1. [code |-> "ok", escrow_id |-> e] \in LockOutcome
    BY DEF LockOutcome
  <2>2. lock_ops' \in [LockRefs -> LockOutcome \cup {None}]
    BY <1>2, <2>1 DEF Inv, TypeOK
  <2> QED BY <1>2, <1>3, <1>5, <2>2 DEF Inv, TypeOK
<1>7. Opened' = Opened \cup {e}
  BY <1>2, <1>3, <1>5 DEF Opened
<1>8. ASSUME NEW x \in Opened'
      PROVE  escrows'[x].escrow_id = x /\ BookInv(Book(x)')
  <2> DEFINE new == [esc |-> escrows'[x], balances |-> balances', paid |-> paid,
                     credited |-> credited[x]]
  <2>1. Book(x)' = new
    BY <1>2 DEF Book
  <2>2. x \in EscrowIds
    BY DEF Opened
  <2>3. CASE x = e
    <3>1. escrows'[x] = esc
      BY <1>2, <1>5, <2>3
    <3>2. new \in BookType /\ new.esc = esc /\ new.paid = paid /\ new.credited = credited[e]
      BY <1>3, <1>5, <2>2, <2>3, <3>1 DEF BookType
    <3> HIDE DEF new
    <3>3. RecordConsistent(esc) /\ SuspendsExpiryBriefly(esc)
      BY <1>1, <1>4 DEF RecordConsistent, SuspendsExpiryBriefly, Remaining
    <3>4. BookPaid(new)
      BY <1>2, <1>4, <3>2 DEF Inv, BookPaid, Due
    <3>5. ExpiryKey(esc.escrow_id) \notin paid
      BY <1>2, <1>4 DEF Inv, ExpiryKey
    <3> QED BY <1>4, <2>1, <2>3, <3>1, <3>2, <3>3, <3>4, <3>5 DEF BookInv
  <2>4. CASE x # e
    <3>1. x \in Opened /\ escrows'[x] = escrows[x]
      BY <1>2, <1>5, <1>7, <2>4
    <3>2. escrows[x].escrow_id = x /\ BookInv(Book(x))
      BY <3>1 DEF Inv
    <3> DEFINE old == Book(x)
    <3>3. /\ old.esc = escrows[x] /\ old.paid = paid /\ old.credited = credited[x]
          /\ new.esc = escrows[x] /\ new.paid = paid /\ new.credited = credited[x]
      BY <3>1 DEF Book
    <3>4. new \in BookType
      <4>1. escrows[x] \in Escrow
        BY <3>2, <3>3 DEF BookInv, BookType
      <4> QED BY <1>5, <2>2, <3>1, <4>1 DEF BookType
    <3> HIDE DEF old, new
    <3>5. BookInv(old)
      BY <3>2 DEF old
    <3>6. BookInv(new)
      BY <3>3, <3>4, <3>5 DEF BookInv, BookPaid
    <3> QED BY <2>1, <3>1, <3>2, <3>6
  <2> QED BY <2>3, <2>4
<1>9. \A x \in EscrowIds \ Opened' : \A q \in Parties : credited'[x][q] = 0
  BY <1>2, <1>7 DEF Inv
<1>10. \A key \in paid' :
         /\ key[1] \in Opened'
         /\ key[2] \in {"release", "reclaim"} => op_results'[key[1]][key[3]] # None
  BY <1>2, <1>7 DEF Inv
<1>11. RefsMatch'
  <2>1. /\ lock_ops[op] = None /\ lock_ops \in [LockRefs -> LockOutcome \cup {None}]
        /\ RefsMatch
    BY DEF Lock, FreshLock, Inv, TypeOK
  <2>2. ASSUME NEW x \in EscrowIds PROVE ~Opens(op, x)
    <3>1. [code |-> "ok", escrow_id |-> x] \in LockOutcome
      BY DEF LockOutcome
    <3> QED BY <2>1, <3>1, NoneAssumption DEF Opens
  <2>3. ~\E other \in LockRefs : Opens(other, e)
    BY <1>2, <2>1 DEF RefsMatch
  <2>4. \A other \in LockRefs, x \in EscrowIds :
          Opens(other, x)' <=> (Opens(other, x) \/ (other = op /\ x = e))
    <3>1. ASSUME NEW other \in LockRefs, NEW x \in EscrowIds, other # op
          PROVE  Opens(other, x)' <=> Opens(other, x)
      BY <1>2, <2>1, <3>1 DEF Opens
    <3>2. ASSUME NEW x \in EscrowIds PROVE Opens(op, x)' <=> x = e
      BY <1>2, <2>1 DEF Opens
    <3> QED BY <2>2, <3>1, <3>2
  <2>5. \A x \in Opened' : x \in EscrowIds
    BY DEF Opened
  <2> QED BY <1>7, <2>1, <2>2, <2>3, <2>4, <2>5 DEF RefsMatch
<1> QED BY <1>6, <1>8, <1>9, <1>10, <1>11 DEF Inv

\* Every fresh request on an escrow preserves the invariant.
LEMMA RequestInv ==
    ASSUME Inv, NEW p \in Parties, NEW e \in EscrowIds, NEW op \in OpRefs,
           Request(p, e, op)
    PROVE  Inv'
<1>1. PICK after, code, outcome :
        /\ IsStep(after, e, op)
        /\ outcome \in Outcome
        /\ code \in ErrorCode \cup {"ok"}
        /\ Answer(e, op, code, outcome, after)
  BY RequestStep
<1>2. e \in Opened /\ op_results[e][op] = None
  BY RequestStep
<1> DEFINE cached == IF code = "ok" THEN outcome ELSE Error(code)
<1>3. cached \in Outcome /\ cached # None
  BY <1>1, NoneAssumption DEF Error, Outcome
<1>4. /\ op_results' = [op_results EXCEPT ![e][op] = cached]
      /\ Commit(after) /\ UNCHANGED <<lock_ops, now>>
  BY <1>1 DEF Answer
<1> HIDE DEF cached
<1>5. op_results \in [EscrowIds -> [OpRefs -> Outcome \cup {None}]]
  BY DEF Inv, TypeOK
<1>6. op_results' \in [EscrowIds -> [OpRefs -> Outcome \cup {None}]]
  BY <1>3, <1>4, <1>5
<1>7. \A x \in EscrowIds, o \in OpRefs :
        op_results[x][o] # None => op_results'[x][o] # None
  BY <1>3, <1>4, <1>5
<1>8. op_results'[e][op] # None
  BY <1>3, <1>4, <1>5
<1> QED BY <1>1, <1>2, <1>4, <1>6, <1>7, <1>8, CommitInv

\* escrowStatus does to an escrow what _effective_state does.
LEMMA StatusStep ==
    ASSUME Inv, NEW e \in EscrowIds, Status(e)
    PROVE  /\ e \in Opened /\ Commit(Resolved(e))
           /\ UNCHANGED <<lock_ops, op_results, now>>
           /\ Resolved(e).paid \subseteq paid \cup LazyKeys(e)
           /\ \A op : IsStep(Resolved(e), e, op)
<1>1. e \in Opened /\ Commit(Resolved(e)) /\ UNCHANGED <<lock_ops, op_results, now>>
  BY DEF Status, Opened
<1>2. /\ BookInv(Resolved(e)) /\ Resolved(e).esc.escrow_id = e
      /\ IsEffective(Resolved(e), Book(e)) /\ Book(e).esc.escrow_id = e
  BY <1>1, ResolvedIsEffective
<1>3. Book(e).esc = escrows[e] /\ Book(e).paid = paid /\ Book(e).credited = credited[e]
  BY DEF Book
<1>4. Resolved(e).paid \subseteq paid \cup LazyKeys(e)
  BY <1>2, <1>3 DEF IsEffective
<1>5. ASSUME NEW op PROVE IsStep(Resolved(e), e, op)
  <2> DEFINE s == Resolved(e)
             b == Book(e)
  <2> HIDE DEF s, b
  <2>1. /\ BookInv(s) /\ s.esc.escrow_id = e /\ IsEffective(s, b)
        /\ b.esc = escrows[e] /\ b.paid = paid /\ b.credited = credited[e]
    BY <1>2, <1>3 DEF s, b
  <2>2. /\ paid \subseteq s.paid
        /\ s.paid \subseteq paid \cup LazyKeys(e) \cup OpKeys(e, op)
    BY <1>4, <2>1 DEF IsEffective, s
  <2>3. IsStep(s, e, op)
    BY <2>1, <2>2 DEF IsStep, IsEffective, b
  <2> QED BY <2>3 DEF s
<1> QED BY <1>1, <1>4, <1>5

\* escrowStatus preserves the invariant.
LEMMA StatusInv ==
    ASSUME Inv, NEW e \in EscrowIds, Status(e)
    PROVE  Inv'
<1>1. PICK after : after = Resolved(e)
  OBVIOUS
<1>2. UNCHANGED <<lock_ops, op_results, now>>
  BY StatusStep
<1>3. /\ e \in Opened /\ Commit(after) /\ IsStep(after, e, None)
      /\ after.paid \subseteq paid \cup LazyKeys(e)
  BY <1>1, StatusStep
<1>4. /\ op_results' \in [EscrowIds -> [OpRefs -> Outcome \cup {None}]]
      /\ \A x \in EscrowIds, o \in OpRefs :
           op_results[x][o] # None => op_results'[x][o] # None
  BY <1>2 DEF Inv, TypeOK
<1> QED BY <1>2, <1>3, <1>4, CommitInv

\* The agent starts in the invariant.
LEMMA InitInv == Init => Inv
<1> SUFFICES ASSUME Init PROVE Inv
  OBVIOUS
<1>1. Opened = {} /\ paid = {}
  BY DEF Init, Opened
<1>2. TypeOK
  BY FundsAssumption, TimesAssumption DEF Init, TypeOK
<1>3. \A e \in EscrowIds \ Opened : \A p \in Parties : credited[e][p] = 0
  BY DEF Init
<1>4. RefsMatch
  <2>1. ASSUME NEW op \in LockRefs, NEW e \in EscrowIds PROVE ~Opens(op, e)
    <3>1. [code |-> "ok", escrow_id |-> e] \in LockOutcome
      BY DEF LockOutcome
    <3> QED BY <3>1, NoneAssumption DEF Init, Opens
  <2> QED BY <1>1, <2>1 DEF RefsMatch
<1> QED BY <1>1, <1>2, <1>3, <1>4 DEF Inv

\* A replayed request preserves the invariant.
LEMMA StutterInv == Inv /\ UNCHANGED vars => Inv'
<1> SUFFICES ASSUME Inv, UNCHANGED vars PROVE Inv'
  OBVIOUS
<1>1. /\ escrows' = escrows /\ balances' = balances /\ paid' = paid
      /\ lock_ops' = lock_ops /\ op_results' = op_results /\ now' = now
      /\ credited' = credited
  BY DEF vars
<1>2. TypeOK' /\ Opened' = Opened /\ \A e : Book(e)' = Book(e)
  BY <1>1 DEF Inv, TypeOK, Opened, Book
<1>3. RefsMatch'
  BY <1>1, <1>2 DEF Inv, RefsMatch, Opens
<1> QED BY <1>1, <1>2, <1>3 DEF Inv

\* Every step of the agent preserves the invariant.
LEMMA NextInv == Inv /\ [Next]_vars => Inv'
<1> SUFFICES ASSUME Inv, [Next]_vars PROVE Inv'
  OBVIOUS
<1>1. ASSUME NEW p \in Parties, NEW op \in LockRefs, LockRequest(p, op)
      PROVE  Inv'
  <2>1. ASSUME NEW amount \in Amounts, LockRefused(p, op, amount)
        PROVE  Inv'
    <3>1. UNCHANGED <<escrows, balances, paid, op_results, now, credited>>
      BY <2>1 DEF LockRefused
    <3>2. lock_ops' \in [LockRefs -> LockOutcome \cup {None}]
      <4>1. [code |-> LockCode(p, amount), escrow_id |-> None] \in LockOutcome
        BY DEF LockCode, LockOutcome, ErrorCode
      <4> QED BY <2>1, <4>1 DEF LockRefused, Inv, TypeOK
    <3>3. TypeOK' /\ Opened' = Opened /\ \A e : Book(e)' = Book(e)
      BY <3>1, <3>2 DEF Inv, TypeOK, Opened, Book
    <3>4. \A e \in Opened' : escrows'[e].escrow_id = e /\ BookInv(Book(e)')
      BY <3>1, <3>3 DEF Inv
    <3>5. RefsMatch'
      <4>1. /\ lock_ops[op] = None /\ LockCode(p, amount) # "ok"
            /\ lock_ops \in [LockRefs -> LockOutcome \cup {None}]
            /\ lock_ops' = [lock_ops EXCEPT ![op] =
                              [code |-> LockCode(p, amount), escrow_id |-> None]]
        BY <2>1 DEF LockRefused, FreshLock, Inv, TypeOK
      <4>2. ASSUME NEW other \in LockRefs, NEW e \in EscrowIds
            PROVE  Opens(other, e)' <=> Opens(other, e)
        <5>1. [code |-> "ok", escrow_id |-> e] # None
          BY NoneAssumption DEF LockOutcome
        <5>2. CASE other = op
          <6>1. ~Opens(other, e)
            BY <4>1, <5>1, <5>2 DEF Opens
          <6>2. lock_ops'[other].code # "ok"
            BY <4>1, <5>2
          <6>3. ~Opens(other, e)'
            BY <6>2 DEF Opens
          <6> QED BY <6>1, <6>3
        <5>3. CASE other # op
          BY <4>1, <5>3 DEF Opens
        <5> QED BY <5>2, <5>3
      <4>3. \A e \in Opened : e \in EscrowIds
        BY DEF Opened
      <4>4. RefsMatch
        BY DEF Inv
      <4> QED BY <3>3, <4>2, <4>3, <4>4 DEF RefsMatch
    <3> QED BY <3>1, <3>3, <3>4, <3>5 DEF Inv
  <2> QED BY <1>1, <2>1, LockInv DEF LockRequest
<1>2. ASSUME NEW p \in Parties, NEW e \in EscrowIds, NEW op \in OpRefs, Request(p, e, op)
      PROVE  Inv'
  BY <1>2, RequestInv
<1>3. ASSUME NEW op \in LockRefs, ReplayLock(op) PROVE Inv'
  BY <1>3, StutterInv DEF ReplayLock
<1>4. ASSUME NEW e \in EscrowIds, NEW op \in OpRefs, Replay(e, op) PROVE Inv'
  BY <1>4, StutterInv DEF Replay
<1>5. ASSUME NEW e \in EscrowIds, Status(e) PROVE Inv'
  BY <1>5, StatusInv
<1>6. ASSUME Tick PROVE Inv'
  <2>1. /\ UNCHANGED <<escrows, balances, paid, lock_ops, op_results, credited>>
        /\ now' \in 0 .. MaxTime
    BY <1>6, TimesAssumption DEF Tick, Inv, TypeOK
  <2>2. TypeOK' /\ Opened' = Opened /\ \A e : Book(e)' = Book(e)
    BY <2>1 DEF Inv, TypeOK, Opened, Book
  <2>3. \A e \in Opened' : escrows'[e].escrow_id = e /\ BookInv(Book(e)')
    BY <2>1, <2>2 DEF Inv
  <2>4. RefsMatch'
    BY <2>1, <2>2 DEF Inv, RefsMatch, Opens
  <2> QED BY <2>1, <2>2, <2>3, <2>4 DEF Inv
<1>7. CASE UNCHANGED vars
  BY <1>7, StutterInv
<1> QED BY <1>1, <1>2, <1>3, <1>4, <1>5, <1>6, <1>7 DEF Next

\* A step leaves an open escrow alone, or is one handler's work on its book.
LEMMA OneStepOrNone ==
    ASSUME Inv, [Next]_vars, NEW e \in Opened
    PROVE  \/ Untouched(e)
           \/ \E op, after : /\ IsStep(after, e, op)
                             /\ escrows'[e] = after.esc
                             /\ credited'[e] = after.credited
<1> DEFINE Goal == \/ Untouched(e)
                   \/ \E op, after : /\ IsStep(after, e, op)
                                     /\ escrows'[e] = after.esc
                                     /\ credited'[e] = after.credited
<1>1. /\ e \in EscrowIds /\ escrows[e] # None
      /\ escrows \in [EscrowIds -> Escrow \cup {None}]
      /\ credited \in [EscrowIds -> [Parties -> Nat]]
  BY DEF Inv, TypeOK, Opened
<1>2. ASSUME NEW x \in EscrowIds, NEW op, NEW after, IsStep(after, x, op), Commit(after)
      PROVE  Goal
  <2>1. /\ escrows' = [escrows EXCEPT ![x] = after.esc]
        /\ credited' = [credited EXCEPT ![x] = after.credited]
    BY <1>2 DEF Commit, IsStep
  <2>2. CASE x = e
    <3>1. escrows'[e] = after.esc /\ credited'[e] = after.credited
      BY <1>1, <2>1, <2>2
    <3> QED BY <1>2, <2>2, <3>1
  <2>3. CASE x # e
    BY <1>1, <2>1, <2>3 DEF Untouched
  <2> QED BY <2>2, <2>3
<1>3. ASSUME UNCHANGED <<escrows, credited>> PROVE Untouched(e)
  BY <1>3 DEF Untouched
<1>4. ASSUME NEW p \in Parties, NEW op \in LockRefs, LockRequest(p, op)
      PROVE  Untouched(e)
  <2>1. ASSUME NEW amount \in Amounts, LockRefused(p, op, amount)
        PROVE  Untouched(e)
    BY <1>3, <2>1 DEF LockRefused
  <2>2. ASSUME NEW x \in EscrowIds, NEW amount \in Amounts, NEW until \in ValidUntils,
               NEW window \in Windows \cup {None}, NEW payee \in Parties \cup {None},
               Lock(p, op, x, amount, until, window, payee)
        PROVE  Untouched(e)
    <3>1. x # e
      BY <1>1, <2>2 DEF Lock
    <3> QED BY <1>1, <2>2, <3>1 DEF Lock, Untouched
  <2> QED BY <1>4, <2>1, <2>2 DEF LockRequest
<1>5. ASSUME NEW p \in Parties, NEW x \in EscrowIds, NEW op \in OpRefs, Request(p, x, op)
      PROVE  Goal
  <2>1. PICK after, code, outcome :
          IsStep(after, x, op) /\ Answer(x, op, code, outcome, after)
    BY <1>5, RequestStep
  <2>2. Commit(after)
    BY <2>1 DEF Answer
  <2> HIDE DEF Goal
  <2> QED BY <1>2, <2>1, <2>2
<1>6. ASSUME NEW x \in EscrowIds, Status(x) PROVE Goal
  <2>1. PICK after : after = Resolved(x)
    OBVIOUS
  <2>2. IsStep(after, x, None) /\ Commit(after)
    BY <1>6, <2>1, StatusStep
  <2> HIDE DEF Goal
  <2> QED BY <1>2, <2>2
<1>7. ASSUME NEW op \in LockRefs, ReplayLock(op) PROVE Untouched(e)
  BY <1>3, <1>7 DEF ReplayLock, vars
<1>8. ASSUME NEW x \in EscrowIds, NEW op \in OpRefs, Replay(x, op) PROVE Untouched(e)
  BY <1>3, <1>8 DEF Replay, vars
<1>9. ASSUME Tick PROVE Untouched(e)
  BY <1>3, <1>9 DEF Tick
<1>10. ASSUME UNCHANGED vars PROVE Untouched(e)
  BY <1>3, <1>10 DEF vars
<1>11. Untouched(e) => Goal
  OBVIOUS
<1> HIDE DEF Goal
<1>12. ASSUME Next PROVE Goal
  <2>1. CASE \E p \in Parties, op \in LockRefs : LockRequest(p, op)
    BY <1>4, <1>11, <2>1, Zenon
  <2>2. CASE \E p \in Parties, x \in EscrowIds, op \in OpRefs : Request(p, x, op)
    BY <1>5, <2>2
  <2>3. CASE \E x \in EscrowIds : Status(x)
    BY <1>6, <2>3
  <2>4. CASE \/ \E op \in LockRefs : ReplayLock(op)
             \/ \E x \in EscrowIds, op \in OpRefs : Replay(x, op)
             \/ Tick
    BY <1>7, <1>8, <1>9, <1>11, <2>4, Zenon
  <2> QED BY <1>12, <2>1, <2>2, <2>3, <2>4 DEF Next
<1>13. Goal
  BY <1>10, <1>11, <1>12, Zenon
<1> QED BY <1>13 DEF Goal

--------------------------------------------------------------------------------
(* Theorems *)

\* The invariant holds in every state the agent reaches: each record agrees with
\* itself and with the ledger, and an op_ref not in the cache has not been paid.
THEOREM Invariance == Spec => []Inv
BY InitInv, NextInv, PTL DEF Spec

\* Type correctness: no balance and no money field of an escrow ever goes below
\* zero, because every handler checks the amount before it assigns.
THEOREM TypeCorrect == Spec => []TypeOK
<1>1. Inv => TypeOK
  BY DEF Inv
<1> QED BY <1>1, Invariance, PTL

\* The parts of every escrow's record agree, whatever handlers ran in what order.
THEOREM RecordsStayConsistent == Spec => []EscrowsConsistent
<1>1. Inv => EscrowsConsistent
  BY DEF Inv, EscrowsConsistent, BookInv, Book
<1> QED BY <1>1, Invariance, PTL

\* A payee's claim holds the lock open for less than one challenge window.
THEOREM ClaimsSuspendExpiryBriefly == Spec => []ClaimSuspendsExpiryBriefly
<1>1. Inv => ClaimSuspendsExpiryBriefly
  BY DEF Inv, ClaimSuspendsExpiryBriefly, BookInv, Book
<1> QED BY <1>1, Invariance, PTL

\* Every released and reclaimed amount is paid exactly once, if no payee claims
\* again for a task that was auto-released on the same escrow.
THEOREM PaysInFull ==
    ASSUME ~ReuseTaskIds
    PROVE  Spec => []PaidInFull
<1>1. Inv => PaidInFull
  BY DEF Inv, PaidInFull, BookInv, BookPaid, Book
<1> QED BY <1>1, Invariance, PTL

\* No step of the agent changes anything about a disputed escrow.
THEOREM DisputesFreeze == Spec => DisputeFreezes
<1> DEFINE Frozen == \A e \in EscrowIds :
         (escrows[e] # None /\ escrows[e].state = "disputed") => Untouched(e)
<1>1. Inv /\ [Next]_vars => [Frozen]_vars
  <2> SUFFICES ASSUME Inv, [Next]_vars, NEW e \in EscrowIds,
                      escrows[e] # None, escrows[e].state = "disputed",
                      ~Untouched(e)
               PROVE  FALSE
    OBVIOUS
  <2>1. e \in Opened
    BY DEF Opened
  <2>2. PICK op, after : /\ IsStep(after, e, op)
                         /\ escrows'[e] = after.esc /\ credited'[e] = after.credited
    BY <2>1, OneStepOrNone
  <2> QED BY <2>2 DEF IsStep, Book, Untouched
<1>2. Spec => [][Frozen]_vars
  BY <1>1, Invariance, PTL DEF Spec
<1> QED BY <1>2 DEF DisputeFreezes

\* A pending claim ends by a dispute or by a payment of at least its amount, if no
\* payee claims again for a task that was auto-released on the same escrow.
THEOREM ClaimsAreNotUndercut ==
    ASSUME ~ReuseTaskIds
    PROVE  Spec => ClaimNotUndercut
<1> DEFINE Paid == \A e \in EscrowIds :
         Pending(e) /\ escrows'[e].claim # escrows[e].claim =>
           LET payee == escrows[e].payee_id IN
           credited'[e][payee] >= credited[e][payee] + escrows[e].claim.amount_cu
<1>1. Inv /\ [Next]_vars => [Paid]_vars
  <2> SUFFICES ASSUME Inv, [Next]_vars, NEW e \in EscrowIds,
                      Pending(e), escrows'[e].claim # escrows[e].claim
               PROVE  credited'[e][escrows[e].payee_id]
                        >= credited[e][escrows[e].payee_id] + escrows[e].claim.amount_cu
    OBVIOUS
  <2>1. e \in Opened /\ escrows[e].state = "claimed"
    BY DEF Opened, Pending
  <2>2. PICK op, after : /\ IsStep(after, e, op)
                         /\ escrows'[e] = after.esc /\ credited'[e] = after.credited
    BY <2>1, OneStepOrNone DEF Untouched
  <2> QED BY <2>1, <2>2 DEF IsStep
<1>2. Spec => [][Paid]_vars
  BY <1>1, Invariance, PTL DEF Spec
<1> QED BY <1>2 DEF ClaimNotUndercut
================================================================================
