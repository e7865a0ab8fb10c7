-------------------------- MODULE EscrowCustodyProofs --------------------------
(***************************************************************************)
(* Proofs that the escrow agent implements the custody of money, and of    *)
(* the action properties that say who may move money when.                 *)
(***************************************************************************)
EXTENDS EscrowAgentProofs, FiniteSetTheorems

--------------------------------------------------------------------------------
(* Accounts: a balance grows by what the ledger recorded as paid to it *)

Gains(after, b) ==
    /\ after.balances \in [Parties -> Nat] /\ after.credited \in [Parties -> Nat]
    /\ \A p \in Parties :
         after.balances[p] - b.balances[p] = after.credited[p] - b.credited[p]

\* A book gains nothing on itself, nor by a change to its record.
LEMMA GainsNothing ==
    ASSUME NEW b \in BookType, NEW esc
    PROVE  Gains(b, b) /\ Gains([b EXCEPT !.esc = esc], b)
<1>1. b.balances \in [Parties -> Nat] /\ b.credited \in [Parties -> Nat]
  BY DEF BookType
<1>2. /\ [b EXCEPT !.esc = esc].balances = b.balances
      /\ [b EXCEPT !.esc = esc].credited = b.credited
  BY DEF BookType
<1> QED BY <1>1, <1>2 DEF Gains

\* What is gained in two steps is gained.
LEMMA GainsTwice ==
    ASSUME NEW b \in BookType, NEW s, NEW after, Gains(s, b), Gains(after, s)
    PROVE  Gains(after, b)
<1>1. b.balances \in [Parties -> Nat] /\ b.credited \in [Parties -> Nat]
  BY DEF BookType
<1>2. ASSUME NEW p \in Parties
      PROVE  after.balances[p] - b.balances[p] = after.credited[p] - b.credited[p]
  <2>1. /\ s.balances[p] - b.balances[p] = s.credited[p] - b.credited[p]
        /\ after.balances[p] - s.balances[p] = after.credited[p] - s.credited[p]
    BY DEF Gains
  <2>2. /\ b.balances[p] \in Nat /\ b.credited[p] \in Nat
        /\ s.balances[p] \in Nat /\ s.credited[p] \in Nat
        /\ after.balances[p] \in Nat /\ after.credited[p] \in Nat
    BY <1>1 DEF Gains
  <2> QED BY <2>1, <2>2
<1> QED BY <1>2 DEF Gains

\* CreditLedger.payout adds the same amount to the balance and to the history.
LEMMA PayoutGains ==
    ASSUME NEW b \in BookType, NEW esc, NEW kind, NEW ref, NEW account \in Parties,
           NEW amount \in Nat
    PROVE  Gains(Payout([b EXCEPT !.esc = esc], kind, ref, account, amount), b)
<1> DEFINE drawn == [b EXCEPT !.esc = esc]
           after == Payout(drawn, kind, ref, account, amount)
<1>1. b.balances \in [Parties -> Nat] /\ b.credited \in [Parties -> Nat]
  BY DEF BookType
<1>2. drawn.balances = b.balances /\ drawn.credited = b.credited
  BY DEF BookType
<1>3. Gains(drawn, b)
  BY GainsNothing
<1> HIDE DEF drawn
<1>4. \/ after = drawn
      \/ /\ after.balances = Credit(b.balances, account, amount)
         /\ after.credited = Credit(b.credited, account, amount)
  BY <1>2 DEF Payout
<1> HIDE DEF after
<1>5. CASE after = drawn
  BY <1>3, <1>5 DEF after, drawn
<1>6. ASSUME NEW accounts \in [Parties -> Nat]
      PROVE  /\ Credit(accounts, account, amount) \in [Parties -> Nat]
             /\ \A p \in Parties : Credit(accounts, account, amount)[p] =
                  accounts[p] + (IF p = account THEN amount ELSE 0)
  BY CreditType
<1>7. CASE /\ after.balances = Credit(b.balances, account, amount)
           /\ after.credited = Credit(b.credited, account, amount)
  <2>1. /\ after.balances \in [Parties -> Nat] /\ after.credited \in [Parties -> Nat]
        /\ \A p \in Parties : after.balances[p] =
             b.balances[p] + (IF p = account THEN amount ELSE 0)
        /\ \A p \in Parties : after.credited[p] =
             b.credited[p] + (IF p = account THEN amount ELSE 0)
    BY <1>1, <1>7, <1>6
  <2>2. ASSUME NEW p \in Parties
        PROVE  after.balances[p] - b.balances[p] = after.credited[p] - b.credited[p]
    <3>1. b.balances[p] \in Nat /\ b.credited[p] \in Nat
      BY <1>1
    <3> QED BY <2>1, <3>1
  <2>3. Gains(after, b)
    BY <2>1, <2>2 DEF Gains
  <2> QED BY <2>3 DEF after, drawn
<1> QED BY <1>4, <1>5, <1>7

--------------------------------------------------------------------------------
(* Records: what a disbursement may do to one *)

\* The record t follows r: money only leaves the escrow, a pending claim is paid,
\* the payee is final, and a bound escrow that paid its payee nothing gives the
\* buyer something back only when its lock ended.
Follows(t, r) ==
    /\ t.escrow_id = r.escrow_id /\ t.buyer_id = r.buyer_id
    /\ t.locked_cu = r.locked_cu /\ t.valid_until_ms = r.valid_until_ms
    /\ t.payee_id = r.payee_id \/ r.payee_id = None
    /\ t.released_cu >= r.released_cu /\ t.reclaimed_cu >= r.reclaimed_cu
    /\ r.claim # None => t.released_cu >= r.released_cu + r.claim.amount_cu
    /\ t.dispute = r.dispute
    /\ r.expired => t.expired
    /\ t.reclaimed_cu > r.reclaimed_cu =>
         \/ r.payee_id = None \/ t.had_settlement
         \/ t.expired /\ now >= r.valid_until_ms

\* A record that follows one that follows another follows it too.
LEMMA FollowsTwice ==
    ASSUME NEW r \in Escrow, NEW s \in Escrow, NEW t \in Escrow,
           RecordConsistent(s), RecordConsistent(t), Follows(s, r), Follows(t, s)
    PROVE  Follows(t, r)
<1>1. /\ r.released_cu \in Nat /\ r.reclaimed_cu \in Nat
      /\ s.released_cu \in Nat /\ s.reclaimed_cu \in Nat
      /\ t.released_cu \in Nat /\ t.reclaimed_cu \in Nat
      /\ r.claim # None => r.claim.amount_cu \in Nat
  BY DEF Escrow, Claim
<1>2. /\ t.payee_id = r.payee_id \/ r.payee_id = None
      /\ t.released_cu >= r.released_cu /\ t.reclaimed_cu >= r.reclaimed_cu
      /\ r.claim # None => t.released_cu >= r.released_cu + r.claim.amount_cu
      /\ r.expired => t.expired
  BY <1>1 DEF Follows
<1>3. s.had_settlement => t.had_settlement
  BY <1>1 DEF Follows, RecordConsistent
<1>4. ASSUME t.reclaimed_cu > r.reclaimed_cu
      PROVE  \/ r.payee_id = None \/ t.had_settlement
             \/ t.expired /\ now >= r.valid_until_ms
  <2>1. CASE s.reclaimed_cu > r.reclaimed_cu
    BY <1>3, <2>1 DEF Follows
  <2>2. CASE t.reclaimed_cu > s.reclaimed_cu
    BY <2>2 DEF Follows
  <2> QED BY <1>1, <1>4, <2>1, <2>2
<1> QED BY <1>2, <1>4 DEF Follows

\* Following asks nothing new of a record without a pending claim.
LEMMA FollowsItself ==
    ASSUME NEW r \in Escrow, r.claim = None
    PROVE  Follows(r, r)
<1> r.released_cu \in Nat /\ r.reclaimed_cu \in Nat
  BY DEF Escrow
<1> QED BY DEF Follows

\* Money moved as a disbursement moves it.
Moves(after, b) == Gains(after, b) /\ Follows(after.esc, b.esc)

\* Two disbursements in one handler are one disbursement.
LEMMA MovesTwice ==
    ASSUME NEW b, BookInv(b), NEW s, BookInv(s), NEW after, BookInv(after),
           Moves(s, b), Moves(after, s)
    PROVE  Moves(after, b)
<1>1. /\ b \in BookType /\ b.esc \in Escrow /\ s.esc \in Escrow /\ after.esc \in Escrow
      /\ RecordConsistent(s.esc) /\ RecordConsistent(after.esc)
  BY DEF BookInv, BookType
<1>2. Gains(after, b)
  BY <1>1, GainsTwice DEF Moves
<1>3. Follows(after.esc, b.esc)
  BY <1>1, FollowsTwice DEF Moves
<1> QED BY <1>2, <1>3 DEF Moves

\* A payment to the payee that covers a pending claim moves money.
LEMMA SettledMoves ==
    ASSUME NEW b, BookInv(b), NEW payee \in Parties, NEW amount \in Nat,
           NEW kind, NEW ref,
           b.esc.payee_id = None \/ b.esc.payee_id = payee,
           b.esc.claim # None => amount >= b.esc.claim.amount_cu
    PROVE  Moves(Payout([b EXCEPT !.esc = Settled(b.esc, payee, amount)],
                        kind, ref, payee, amount), b)
<1> DEFINE esc == Settled(b.esc, payee, amount)
           after == Payout([b EXCEPT !.esc = esc], kind, ref, payee, amount)
<1>1. b \in BookType /\ b.esc \in Escrow
  BY DEF BookInv, BookType
<1>2. IsSettled(esc, b.esc, payee, amount)
  <2> HIDE DEF after
  <2> QED BY <1>1, SettledType
<1> HIDE DEF esc
<1>3. Gains(after, b)
  BY <1>1, PayoutGains
<1>4. after.esc = esc
  BY <1>1 DEF Payout, BookType
<1>5. Follows(esc, b.esc)
  <2>1. /\ b.esc.released_cu \in Nat /\ b.esc.reclaimed_cu \in Nat
        /\ b.esc.claim # None => b.esc.claim.amount_cu \in Nat
    BY <1>1 DEF Escrow, Claim
  <2> QED BY <1>2, <2>1 DEF IsSettled, Follows
<1> HIDE DEF after
<1>6. Moves(after, b)
  BY <1>3, <1>4, <1>5 DEF Moves
<1> QED BY <1>6 DEF after, esc

\* A payment back to the buyer of an escrow without a claim moves money, if the
\* escrow is not bound, has paid its payee, or ended.
LEMMA ReclaimedMoves ==
    ASSUME NEW b, BookInv(b), NEW esc \in Escrow, NEW amount \in Nat,
           NEW kind, NEW ref,
           b.esc.claim = None,
           IsReclaimed(esc, b.esc, amount), b.esc.expired => esc.expired,
           \/ b.esc.payee_id = None \/ b.esc.had_settlement
           \/ esc.expired /\ now >= b.esc.valid_until_ms
    PROVE  Moves(Payout([b EXCEPT !.esc = esc], kind, ref, esc.buyer_id, amount), b)
<1> DEFINE after == Payout([b EXCEPT !.esc = esc], kind, ref, esc.buyer_id, amount)
<1>1. b \in BookType /\ b.esc \in Escrow /\ esc.buyer_id \in Parties
  BY DEF BookInv, BookType, Escrow
<1>2. Gains(after, b)
  BY <1>1, PayoutGains
<1>3. after.esc = esc
  BY <1>1 DEF Payout, BookType
<1>4. Follows(esc, b.esc)
  <2>1. b.esc.released_cu \in Nat /\ b.esc.reclaimed_cu \in Nat
    BY <1>1 DEF Escrow
  <2> QED BY <2>1 DEF IsReclaimed, Follows
<1> HIDE DEF after
<1>5. Moves(after, b)
  BY <1>2, <1>3, <1>4 DEF Moves
<1> QED BY <1>5 DEF after

--------------------------------------------------------------------------------
(* Handlers: what each makes of a book *)

\* _auto_release of an elapsed claim is a disbursement.
LEMMA AutoReleaseMoves ==
    ASSUME NEW b, BookInv(b), b.esc.state = "claimed"
    PROVE  Moves(AutoRelease(b), b)
<1> DEFINE payee == b.esc.payee_id
           amount == b.esc.claim.amount_cu
<1>1. payee \in Parties /\ amount \in Nat /\ amount >= amount
  BY DEF BookInv, BookType, RecordConsistent, Escrow, Claim
<1>2. AutoRelease(b) = Payout([b EXCEPT !.esc = Settled(b.esc, payee, amount)],
                              "auto_release", b.esc.claim.task_id, payee, amount)
  BY DEF AutoRelease
<1>3. b.esc.payee_id = payee /\ b.esc.claim.amount_cu = amount
  OBVIOUS
<1> HIDE DEF payee, amount
<1> QED BY <1>1, <1>2, <1>3, SettledMoves

\* _auto_reclaim_expiry of an elapsed lock is a disbursement.
LEMMA AutoReclaimExpiryMoves ==
    ASSUME NEW b, BookInv(b), LockElapsed(b.esc)
    PROVE  Moves(AutoReclaimExpiry(b), b)
<1>1. b.esc.state = "open" /\ b.esc.claim = None /\ now >= b.esc.valid_until_ms
  BY DEF LockElapsed
<1>2. PICK esc \in Escrow, amount \in Nat :
        /\ IsReclaimed(esc, b.esc, amount) /\ esc.expired
        /\ AutoReclaimExpiry(b) =
             Payout([b EXCEPT !.esc = esc], "expiry_reclaim", None, esc.buyer_id, amount)
  BY <1>1, ExpiryDraws
<1> QED BY <1>1, <1>2, ReclaimedMoves

\* What time does to a book before a handler looks at it: nothing at all, or a
\* disbursement.  A claim that is pending after it has its window still open, and
\* an elapsed one leaves the escrow open or closed.
LEMMA EffectiveMoves ==
    ASSUME NEW b, BookInv(b)
    PROVE  LET s == EffectiveState(b) IN
           /\ s = b \/ Moves(s, b)
           /\ b.esc.state = "claimed" /\ ~WindowElapsed(b.esc) => s = b
           /\ WindowElapsed(b.esc) => s.esc.state \in {"open", "closed"}
           /\ s.esc.state = "claimed" => ~WindowElapsed(s.esc)
<1> DEFINE released == IF WindowElapsed(b.esc) THEN AutoRelease(b) ELSE b
           s == EffectiveState(b)
<1>1. s = IF LockElapsed(released.esc) THEN AutoReclaimExpiry(released) ELSE released
  BY DEF EffectiveState
<1>2. /\ BookInv(released)
      /\ released = b \/ Moves(released, b)
      /\ WindowElapsed(b.esc) => released.esc.state \in {"open", "closed"}
      /\ ~WindowElapsed(b.esc) => released = b
  BY AutoReleaseInv, AutoReleaseMoves DEF WindowElapsed
<1> HIDE DEF released, s
<1>3. CASE LockElapsed(released.esc)
  <2>1. released.esc.state = "open" /\ s = AutoReclaimExpiry(released)
    BY <1>1, <1>3 DEF LockElapsed
  <2>2. /\ Moves(AutoReclaimExpiry(released), released)
        /\ AutoReclaimExpiry(released).esc.state = "closed"
        /\ BookInv(AutoReclaimExpiry(released))
    <3>1. BookInv(released)
      BY <1>2
    <3>2. Moves(AutoReclaimExpiry(released), released)
      BY <1>3, <3>1, AutoReclaimExpiryMoves
    <3> QED BY <2>1, <3>1, <3>2, AutoReclaimExpiryInv
  <2>3. Moves(s, b)
    <3>1. CASE released = b
      BY <2>1, <2>2, <3>1
    <3>2. CASE Moves(released, b)
      BY <1>2, <2>1, <2>2, <3>2, MovesTwice
    <3> QED BY <1>2, <3>1, <3>2
  <2>4. s.esc.state = "closed"
    BY <2>1, <2>2
  <2> QED BY <1>2, <2>1, <2>3, <2>4 DEF s
<1>4. CASE ~LockElapsed(released.esc)
  <2>1. s = released
    BY <1>1, <1>4
  <2> QED BY <1>2, <2>1 DEF s, WindowElapsed
<1> QED BY <1>3, <1>4

\* Whatever a handler does, short of a dispute, is a disbursement.
LEMMA DoesMove ==
    ASSUME NEW s, BookInv(s), NEW p \in Parties, NEW op, NEW after, Does(after, s, p, op)
    PROVE  Moves(after, s)
<1>1. /\ s \in BookType /\ s.esc \in Escrow
      /\ s.esc.claim # None <=> s.esc.state \in {"claimed", "disputed"}
  BY DEF BookInv, BookType, RecordConsistent
<1>2. s.esc.released_cu \in Nat /\ s.esc.reclaimed_cu \in Nat
  BY <1>1 DEF Escrow
<1>3. ASSUME NEW payee \in Parties, NEW window \in Windows \cup {None},
             BindCode(s.esc, p) = "ok", after = Bound(s, payee, window)
      PROVE  Moves(after, s)
  <2> DEFINE length == IF window = None THEN s.esc.challenge_window_ms ELSE window
             esc == [s.esc EXCEPT !.payee_id = payee, !.challenge_window_ms = length]
  <2>1. s.esc.payee_id = None /\ s.esc.claim = None
    BY <1>3 DEF BindCode, BookInv, RecordConsistent
  <2>2. after = [s EXCEPT !.esc = esc]
    BY <1>3 DEF Bound
  <2> HIDE DEF length
  <2>3. Follows(esc, s.esc)
    BY <1>1, <1>2, <2>1 DEF Follows, Escrow
  <2> HIDE DEF esc
  <2>4. after.esc = esc /\ Gains(after, s)
    BY <1>1, <2>2, GainsNothing DEF BookType
  <2> QED BY <2>3, <2>4 DEF Moves
<1>4. ASSUME NEW amount \in Amounts, NEW payee \in Parties,
             ReleaseCode(s.esc, p, amount, payee) = "ok",
             after = Released(s, op, amount, payee)
      PROVE  Moves(after, s)
  <2>1. /\ amount \in Nat /\ Releasable(s.esc) /\ ~Undercuts(s.esc, amount)
        /\ s.esc.payee_id \in {None, payee}
    BY <1>4, AmountsAssumption DEF ReleaseCode
  <2>2. s.esc.claim # None => amount >= s.esc.claim.amount_cu
    <3> SUFFICES ASSUME s.esc.claim # None PROVE amount >= s.esc.claim.amount_cu
      OBVIOUS
    <3>1. s.esc.state = "claimed" /\ s.esc.claim.amount_cu \in Nat
      BY <1>1, <2>1 DEF Releasable, Escrow, Claim
    <3> QED BY <2>1, <3>1 DEF Undercuts
  <2> QED BY <1>4, <2>1, <2>2, SettledMoves DEF Released
<1>5. ASSUME NEW request \in Amounts \cup {None},
             ReclaimCode(s.esc, p, request) = "ok",
             after = Reclaimed(s, op, IF request = None THEN Remaining(s.esc) ELSE request)
      PROVE  Moves(after, s)
  <2> DEFINE amount == IF request = None THEN Remaining(s.esc) ELSE request
  <2>1. s.esc.state = "open" /\ ~Guarded(s.esc)
    BY <1>5 DEF ReclaimCode
  <2>2. amount \in Nat /\ 0 < amount
    BY <1>5, ReclaimAmount
  <2>3. after = Reclaimed(s, op, amount)
    BY <1>5
  <2> HIDE DEF amount
  <2>4. PICK esc \in Escrow :
          /\ IsReclaimed(esc, s.esc, amount) /\ esc.expired = s.esc.expired
          /\ after = Payout([s EXCEPT !.esc = esc], "reclaim", op, esc.buyer_id, amount)
    BY <1>1, <2>2, <2>3, ReclaimDraws
  <2>5. s.esc.claim = None /\ (s.esc.payee_id = None \/ s.esc.had_settlement)
    BY <1>1, <2>1 DEF Guarded
  <2> QED BY <2>2, <2>4, <2>5, ReclaimedMoves
<1>6. ASSUME NEW amount \in Amounts, NEW task \in TaskIds,
             ClaimCode(s.esc, p, amount) = "ok", after = Claimed(s, amount, task)
      PROVE  Moves(after, s)
  <2> DEFINE claim == [amount_cu |-> amount, task_id |-> task,
                       window_ends_ms |-> now + s.esc.challenge_window_ms]
             esc == [s.esc EXCEPT !.claim = claim, !.state = "claimed"]
  <2>1. s.esc.claim = None
    BY <1>1, <1>6 DEF ClaimCode
  <2>2. after = [s EXCEPT !.esc = esc]
    BY <1>6 DEF Claimed
  <2> HIDE DEF claim
  <2>3. Follows(esc, s.esc)
    BY <1>1, <1>2, <2>1 DEF Follows, Escrow
  <2> HIDE DEF esc
  <2>4. after.esc = esc /\ Gains(after, s)
    BY <1>1, <2>2, GainsNothing DEF BookType
  <2> QED BY <2>3, <2>4 DEF Moves
<1> QED BY <1>3, <1>4, <1>5, <1>6 DEF Does

--------------------------------------------------------------------------------
(* Steps of the agent *)

\* What one message leaves of the book of the escrow e it touches.
Touches(after, e) ==
    /\ BookInv(after) /\ after.esc.escrow_id = e
    /\ escrows[e].state = "disputed" => after = Book(e)
    /\ \/ after = Book(e)
       \/ Moves(after, Book(e))
       \/ \E p \in Parties : Contests(after, Book(e), p)

\* A fresh request is a disbursement or a dispute of the escrow it names, or
\* leaves it alone.
LEMMA RequestTouches ==
    ASSUME Inv, NEW p \in Parties, NEW e \in EscrowIds, NEW op \in OpRefs,
           Request(p, e, op)
    PROVE  /\ e \in Opened
           /\ \E after : Commit(after) /\ Touches(after, e)
<1> DEFINE b == Book(e)
           s == Resolved(e)
<1>1. e \in Opened
  BY RequestStep
<1>2. /\ BookInv(b) /\ BookInv(s) /\ IsEffective(s, b)
      /\ b.esc.escrow_id = e
  BY <1>1, ResolvedIsEffective
<1>3. s = b \/ Moves(s, b)
  BY <1>2, EffectiveMoves DEF Resolved
<1>4. PICK after, code, outcome :
        /\ IsStep(after, e, op) /\ Answer(e, op, code, outcome, after)
        /\ \/ after = s \/ Does(after, s, p, op) \/ Contests(after, s, p)
  BY RequestStep
<1>5. /\ Commit(after) /\ BookInv(after) /\ after.esc.escrow_id = e
      /\ escrows[e].state = "disputed" => after = Book(e)
  BY <1>4 DEF Answer, IsStep
<1> HIDE DEF b, s
<1>6. ASSUME after = s PROVE Touches(after, e)
  BY <1>3, <1>5, <1>6 DEF Touches, b
<1>7. ASSUME Does(after, s, p, op) PROVE Touches(after, e)
  <2>1. Moves(after, s)
    BY <1>2, <1>7, DoesMove
  <2>2. Moves(after, b)
    <3>1. CASE s = b
      BY <2>1, <3>1
    <3>2. CASE Moves(s, b)
      BY <1>2, <1>5, <2>1, <3>2, MovesTwice
    <3> QED BY <1>3, <3>1, <3>2
  <2> QED BY <1>5, <2>2 DEF Touches, b
<1>8. ASSUME Contests(after, s, p) PROVE Touches(after, e)
  <2>1. s.esc.state = "claimed"
    BY <1>8 DEF Contests, DisputeCode
  <2>2. s = b
    BY <1>2, <2>1 DEF IsEffective
  <2> QED BY <1>5, <1>8, <2>2 DEF Touches, b
<1> QED BY <1>1, <1>4, <1>5, <1>6, <1>7, <1>8

\* escrowStatus lets time do its part, and nothing else.
LEMMA StatusTouches ==
    ASSUME Inv, NEW e \in EscrowIds, Status(e)
    PROVE  e \in Opened /\ Commit(Resolved(e)) /\ Touches(Resolved(e), e)
<1>1. e \in Opened /\ Commit(Resolved(e))
  BY StatusStep
<1>2. /\ BookInv(Book(e)) /\ BookInv(Resolved(e)) /\ Resolved(e).esc.escrow_id = e
      /\ escrows[e].state = "disputed" => Resolved(e) = Book(e)
  BY <1>1, ResolvedIsEffective, StatusStep DEF IsStep
<1>3. Resolved(e) = Book(e) \/ Moves(Resolved(e), Book(e))
  BY <1>2, EffectiveMoves DEF Resolved
<1> QED BY <1>1, <1>2, <1>3 DEF Touches

\* Every step touches at most one escrow.
LEMMA StepTouches ==
    ASSUME Inv, [Next]_vars
    PROVE  \/ UNCHANGED <<escrows, balances>>
           \/ \E p \in Parties, op \in LockRefs, e \in EscrowIds, amount \in Amounts,
                 until \in ValidUntils, window \in Windows \cup {None},
                 payee \in Parties \cup {None} :
                Lock(p, op, e, amount, until, window, payee)
           \/ \E e \in Opened : \E after : Commit(after) /\ Touches(after, e)
<1>1. ASSUME NEW p \in Parties, NEW op \in LockRefs, LockRequest(p, op)
      PROVE  \/ UNCHANGED <<escrows, balances>>
             \/ \E e \in EscrowIds, amount \in Amounts,
                 until \in ValidUntils, window \in Windows \cup {None},
                 payee \in Parties \cup {None} :
                Lock(p, op, e, amount, until, window, payee)
  BY <1>1 DEF LockRequest, LockRefused
<1>2. ASSUME NEW p \in Parties, NEW e \in EscrowIds, NEW op \in OpRefs, Request(p, e, op)
      PROVE  \E x \in Opened : \E after : Commit(after) /\ Touches(after, x)
  BY <1>2, RequestTouches
<1>3. ASSUME NEW e \in EscrowIds, Status(e)
      PROVE  \E x \in Opened : \E after : Commit(after) /\ Touches(after, x)
  BY <1>3, StatusTouches
<1>4. ASSUME \/ \E op \in LockRefs : ReplayLock(op)
             \/ \E e \in EscrowIds, op \in OpRefs : Replay(e, op)
             \/ Tick
             \/ UNCHANGED vars
      PROVE  UNCHANGED <<escrows, balances>>
  BY <1>4 DEF ReplayLock, Replay, Tick, vars
<1> QED BY <1>1, <1>2, <1>3, <1>4 DEF Next

--------------------------------------------------------------------------------
(* Refinement: the steps of EscrowCustody *)

\* A lock is a deposit.
LEMMA LockDeposits ==
    ASSUME Inv, NEW p \in Parties, NEW op \in LockRefs, NEW e \in EscrowIds,
           NEW amount \in Amounts, NEW until \in ValidUntils,
           NEW window \in Windows \cup {None}, NEW payee \in Parties \cup {None},
           Lock(p, op, e, amount, until, window, payee)
    PROVE  Custody!Next
<1> DEFINE esc == NewEscrow(e, p, amount, until, window, payee)
<1>1. /\ amount \in Nat /\ 0 < amount /\ amount <= balances[p]
      /\ balances \in [Parties -> Nat]
  <2>1. amount \in Nat /\ balances[p] \in Nat /\ balances \in [Parties -> Nat]
    BY AmountsAssumption DEF Inv, TypeOK
  <2>2. ~(amount <= 0) /\ balances[p] >= amount
    BY DEF Lock, LockCode, Funded
  <2> QED BY <2>1, <2>2
<1>2. /\ escrows[e] = None
      /\ escrows' = [escrows EXCEPT ![e] = esc]
      /\ balances' = [balances EXCEPT ![p] = @ - amount]
      /\ escrows \in [EscrowIds -> Escrow \cup {None}]
  BY DEF Lock, Inv, TypeOK
<1>3. VaultOf(esc) = [owner |-> p, beneficiary |-> payee, held |-> amount,
                      pledge |-> 0, frozen |-> FALSE, settled |-> FALSE]
  BY <1>1 DEF VaultOf, NewEscrow, Remaining
<1>4. esc # None
  BY NewEscrowType
<1> HIDE DEF esc
<1>5. Vaults' = [Vaults EXCEPT ![e] = VaultOf(esc)]
  BY <1>2, <1>4 DEF Vaults
<1>6. Vaults[e] = None
  BY <1>2 DEF Vaults
<1>7. Custody!Deposit(e, p, amount, payee)
  BY <1>1, <1>2, <1>3, <1>5, <1>6 DEF Custody!Deposit
<1>8. amount \in 1 .. balances[p]
  BY <1>1
<1> QED BY <1>7, <1>8 DEF Custody!Next

\* What is released and reclaimed is what reaches the two accounts, if the ledger
\* paid what the record says, before and after.
LEMMA MovesPay ==
    ASSUME NEW b, BookInv(b), NEW after, BookInv(after), Moves(after, b),
           NEW p \in Parties,
           b.credited[p] = Due(b.esc, p), after.credited[p] = Due(after.esc, p)
    PROVE  after.balances[p] =
               b.balances[p]
             + (IF p = after.esc.payee_id THEN after.esc.released_cu - b.esc.released_cu ELSE 0)
             + (IF p = b.esc.buyer_id THEN after.esc.reclaimed_cu - b.esc.reclaimed_cu ELSE 0)
<1>1. /\ b.esc \in Escrow /\ after.esc \in Escrow
      /\ b.balances[p] \in Nat /\ b.credited[p] \in Nat
      /\ after.balances[p] \in Nat /\ after.credited[p] \in Nat
  BY DEF BookInv, BookType
<1>2. after.balances[p] - b.balances[p] = after.credited[p] - b.credited[p]
  BY DEF Moves, Gains
<1>3. /\ after.esc.buyer_id = b.esc.buyer_id
      /\ after.esc.payee_id = b.esc.payee_id \/ b.esc.payee_id = None
      /\ b.esc.payee_id = None => b.esc.released_cu = 0
  BY DEF Moves, Follows, BookInv, RecordConsistent
<1>4. /\ b.esc.released_cu \in Nat /\ b.esc.reclaimed_cu \in Nat
      /\ after.esc.released_cu \in Nat /\ after.esc.reclaimed_cu \in Nat
  BY <1>1 DEF Escrow
<1>5. after.balances[p] = b.balances[p] + (Due(after.esc, p) - Due(b.esc, p))
  BY <1>1, <1>2
<1>6. Due(after.esc, p) - Due(b.esc, p) =
          (IF p = after.esc.payee_id THEN after.esc.released_cu - b.esc.released_cu ELSE 0)
        + (IF p = b.esc.buyer_id THEN after.esc.reclaimed_cu - b.esc.reclaimed_cu ELSE 0)
  BY <1>3, <1>4, NoneAssumption DEF Due
<1> DEFINE toPayee == IF p = after.esc.payee_id
                      THEN after.esc.released_cu - b.esc.released_cu ELSE 0
           toBuyer == IF p = b.esc.buyer_id
                      THEN after.esc.reclaimed_cu - b.esc.reclaimed_cu ELSE 0
<1>7. toPayee \in Int /\ toBuyer \in Int
  BY <1>4
<1>8. Due(after.esc, p) - Due(b.esc, p) = toPayee + toBuyer
  BY <1>6
<1> HIDE DEF toPayee, toBuyer
<1>9. after.balances[p] = b.balances[p] + toPayee + toBuyer
  BY <1>1, <1>5, <1>7, <1>8
<1> QED BY <1>9 DEF toPayee, toBuyer

\* Vaults with the same fields are the same.
LEMMA SameVault ==
    ASSUME NEW v \in Custody!Vault, NEW w \in Custody!Vault,
           v.owner = w.owner, v.beneficiary = w.beneficiary, v.held = w.held,
           v.pledge = w.pledge, v.frozen = w.frozen, v.settled = w.settled
    PROVE  v = w
BY DEF Custody!Vault

\* The vault of a well-formed escrow.
LEMMA VaultOfType ==
    ASSUME NEW esc \in Escrow, RecordConsistent(esc)
    PROVE  LET v == VaultOf(esc) IN
           /\ v \in Custody!Vault /\ v # None
           /\ v.owner = esc.buyer_id /\ v.beneficiary = esc.payee_id
           /\ v.held = Remaining(esc) /\ v.frozen = esc.dispute
           /\ v.pledge = IF esc.claim = None THEN 0 ELSE esc.claim.amount_cu
           /\ v.settled = esc.had_settlement
<1> DEFINE pledge == IF esc.claim = None THEN 0 ELSE esc.claim.amount_cu
<1>1. Remaining(esc) \in Nat /\ pledge \in Nat
  BY DEF RecordConsistent, Remaining, Escrow, Claim
<1>2. /\ esc.buyer_id \in Parties /\ esc.payee_id \in Parties \cup {None}
      /\ esc.dispute \in BOOLEAN /\ esc.had_settlement \in BOOLEAN
  BY DEF Escrow
<1>3. VaultOf(esc) = [owner |-> esc.buyer_id, beneficiary |-> esc.payee_id,
                      held |-> Remaining(esc), pledge |-> pledge,
                      frozen |-> esc.dispute, settled |-> esc.had_settlement]
  BY DEF VaultOf
<1> HIDE DEF pledge
<1>4. VaultOf(esc) \in Custody!Vault
  BY <1>1, <1>2, <1>3 DEF Custody!Vault
<1>5. VaultOf(esc) # None
  BY <1>4, VaultAssumption
<1> QED BY <1>3, <1>4, <1>5 DEF pledge

\* A step that moves money as a disbursement does is a disbursement.
LEMMA MovesDisburse ==
    ASSUME Inv, PaidInFull, PaidInFull', NEW e \in Opened, NEW after,
           Commit(after), BookInv(after), after.esc.escrow_id = e,
           Moves(after, Book(e)), escrows[e].state # "disputed"
    PROVE  Custody!Next
<1> DEFINE b == Book(e)
           v == VaultOf(b.esc)
           toPayee == after.esc.released_cu - b.esc.released_cu
           toBuyer == after.esc.reclaimed_cu - b.esc.reclaimed_cu
           pledge == IF after.esc.claim = None THEN 0 ELSE after.esc.claim.amount_cu
           payee == after.esc.payee_id
<1>1. /\ BookInv(b) /\ b.esc = escrows[e] /\ b.balances = balances
      /\ e \in EscrowIds /\ escrows \in [EscrowIds -> Escrow \cup {None}]
  BY DEF Inv, TypeOK, Book, Opened
<1>2. /\ Follows(after.esc, b.esc) /\ Gains(after, b)
      /\ b.esc \in Escrow /\ after.esc \in Escrow
      /\ RecordConsistent(b.esc) /\ RecordConsistent(after.esc)
      /\ after.balances \in [Parties -> Nat]
  BY <1>1 DEF Moves, BookInv, BookType
<1>3. /\ escrows' = [escrows EXCEPT ![e] = after.esc]
      /\ balances' = after.balances
  BY DEF Commit
<1>4. \A p \in Parties : balances'[p] =
        balances[p] + (IF p = payee THEN toPayee ELSE 0)
                    + (IF p = b.esc.buyer_id THEN toBuyer ELSE 0)
  <2> SUFFICES ASSUME NEW p \in Parties
               PROVE  balances'[p] =
        balances[p] + (IF p = payee THEN toPayee ELSE 0)
                    + (IF p = b.esc.buyer_id THEN toBuyer ELSE 0)
    OBVIOUS
  <2>1. b.credited[p] = Due(b.esc, p)
    BY DEF PaidInFull, Book
  <2>2. after.credited[p] = Due(after.esc, p)
    <3>1. escrows'[e] = after.esc /\ e \in EscrowIds /\ after.esc # None
      BY <1>1, <1>2, <1>3, NoneAssumption
    <3>2. credited'[e] = after.credited
      BY <3>1 DEF Commit, Inv, TypeOK
    <3> QED BY <3>1, <3>2 DEF PaidInFull, Opened
  <2> QED BY <1>1, <1>3, <2>1, <2>2, MovesPay
<1> HIDE DEF b
<1>5. /\ b.esc.locked_cu \in Nat /\ b.esc.released_cu \in Nat /\ b.esc.reclaimed_cu \in Nat
      /\ after.esc.released_cu \in Nat /\ after.esc.reclaimed_cu \in Nat
      /\ after.esc.locked_cu = b.esc.locked_cu
      /\ b.esc.claim # None => b.esc.claim.amount_cu \in Nat
      /\ after.esc.claim # None => after.esc.claim.amount_cu \in Nat
      /\ payee \in Parties \cup {None} /\ b.esc.buyer_id \in Parties
  BY <1>2 DEF Escrow, Claim, Follows
<1>6. /\ toPayee \in Nat /\ toBuyer \in Nat /\ pledge \in Nat
  BY <1>2, <1>5 DEF Follows
<1>7. Remaining(after.esc) = Remaining(b.esc) - toPayee - toBuyer /\ Remaining(b.esc) \in Int
  BY <1>5 DEF Remaining
<1>8. /\ v \in Custody!Vault /\ v # None
      /\ v.owner = b.esc.buyer_id /\ v.beneficiary = b.esc.payee_id
      /\ v.held = Remaining(b.esc) /\ v.frozen = b.esc.dispute
      /\ v.pledge = IF b.esc.claim = None THEN 0 ELSE b.esc.claim.amount_cu
      /\ v.settled = b.esc.had_settlement
  BY <1>2, VaultOfType
<1>9. Vaults[e] = v
  BY <1>1 DEF Vaults, Opened
<1> HIDE DEF v
<1>10. VaultOf(after.esc) =
         [v EXCEPT !.beneficiary = payee,
                   !.held = v.held - toPayee - toBuyer,
                   !.pledge = pledge,
                   !.settled = v.settled \/ toPayee > 0]
  <2>1. after.esc.had_settlement = (b.esc.had_settlement \/ toPayee > 0)
    BY <1>2, <1>5, <1>6 DEF RecordConsistent, Escrow
  <2>2. after.esc.buyer_id = b.esc.buyer_id /\ after.esc.dispute = b.esc.dispute
    BY <1>2 DEF Follows
  <2> DEFINE settled == v.settled \/ toPayee > 0
             w == VaultOf(after.esc)
             d == [v EXCEPT !.beneficiary = payee, !.held = v.held - toPayee - toBuyer,
                            !.pledge = pledge, !.settled = settled]
  <2>3. /\ w \in Custody!Vault
        /\ w.owner = v.owner /\ w.beneficiary = payee
        /\ w.held = v.held - toPayee - toBuyer /\ w.frozen = v.frozen
        /\ w.pledge = pledge /\ w.settled = settled
    BY <1>2, <1>7, <1>8, <2>1, <2>2, VaultOfType
  <2>4. settled \in BOOLEAN
    OBVIOUS
  <2> HIDE DEF settled, w, toPayee, toBuyer, payee, pledge
  <2>5. /\ d \in Custody!Vault
        /\ d.owner = v.owner /\ d.beneficiary = payee
        /\ d.held = v.held - toPayee - toBuyer /\ d.frozen = v.frozen
        /\ d.pledge = pledge /\ d.settled = settled
    <3>1. /\ v.held - toPayee - toBuyer \in Nat /\ pledge \in Nat
          /\ payee \in Parties \cup {None}
      BY <1>5, <1>6, <2>3 DEF Custody!Vault
    <3> QED BY <1>8, <2>4, <3>1 DEF Custody!Vault
  <2> HIDE DEF d
  <2>6. w = d
    BY <2>3, <2>5, SameVault
  <2> QED BY <2>6 DEF w, d, settled
<1>11. Vaults' = [Vaults EXCEPT ![e] = VaultOf(after.esc)]
  <2>1. after.esc # None
    BY <1>2, NoneAssumption
  <2> QED BY <1>1, <1>3, <2>1 DEF Vaults
<1>12. /\ ~v.frozen
       /\ v.held - toPayee - toBuyer >= 0
       /\ toPayee >= v.pledge
       /\ payee = v.beneficiary \/ v.beneficiary = None
       /\ toPayee > 0 \/ pledge > 0 => payee # None
       /\ pledge <= v.held - toPayee - toBuyer
  <2>1. ~v.frozen
    BY <1>1, <1>2, <1>8 DEF RecordConsistent
  <2>2. v.held - toPayee - toBuyer >= 0 /\ pledge <= v.held - toPayee - toBuyer
    BY <1>2, <1>5, <1>7, <1>8 DEF RecordConsistent
  <2>3. toPayee >= v.pledge
    BY <1>2, <1>5, <1>6, <1>8 DEF Follows
  <2>4. payee = v.beneficiary \/ v.beneficiary = None
    BY <1>2, <1>8 DEF Follows
  <2>5. toPayee > 0 \/ pledge > 0 => payee # None
    BY <1>2, <1>5 DEF RecordConsistent
  <2> QED BY <2>1, <2>2, <2>3, <2>4, <2>5
<1>13. toBuyer > 0 => \/ v.beneficiary = None
                      \/ v.settled \/ toPayee > 0
                      \/ v.held - toPayee - toBuyer = 0
  <2> SUFFICES ASSUME toBuyer > 0
               PROVE  \/ v.beneficiary = None
                      \/ v.settled \/ toPayee > 0
                      \/ v.held - toPayee - toBuyer = 0
    OBVIOUS
  <2>1. \/ b.esc.payee_id = None \/ after.esc.had_settlement
        \/ after.esc.expired
    BY <1>2, <1>5 DEF Follows
  <2>2. after.esc.had_settlement => b.esc.had_settlement \/ toPayee > 0
    BY <1>2, <1>5 DEF RecordConsistent, Escrow
  <2>3. after.esc.expired => Remaining(after.esc) = 0
    BY <1>2 DEF RecordConsistent
  <2> QED BY <1>7, <1>8, <2>1, <2>2, <2>3
<1>14. balances' = [p \in Parties |->
            balances[p] + (IF p = payee THEN toPayee ELSE 0)
                        + (IF p = v.owner THEN toBuyer ELSE 0)]
  <2> HIDE DEF toPayee, toBuyer, payee
  <2>1. balances' \in [Parties -> Nat]
    BY <1>2, <1>3
  <2> QED BY <1>4, <1>8, <2>1
<1> HIDE DEF toPayee, toBuyer, pledge, payee
<1>15. Custody!Disburse(e, toPayee, toBuyer, pledge, payee)
  BY <1>8, <1>9, <1>10, <1>11, <1>12, <1>13, <1>14 DEF Custody!Disburse
<1>16. /\ toPayee \in 0 .. Vaults[e].held /\ toBuyer \in 0 .. Vaults[e].held
       /\ pledge \in 0 .. Vaults[e].held
  <2>1. Vaults[e].held \in Int
    BY <1>7, <1>8, <1>9
  <2> QED BY <1>6, <1>9, <1>12, <2>1
<1> QED BY <1>1, <1>5, <1>8, <1>9, <1>15, <1>16 DEF Custody!Next

\* A dispute is a freeze.
LEMMA ContestFreezes ==
    ASSUME Inv, NEW e \in Opened, NEW after, NEW p,
           Commit(after), after.esc.escrow_id = e, Contests(after, Book(e), p)
    PROVE  Custody!Next
<1> DEFINE esc == [escrows[e] EXCEPT !.dispute = TRUE, !.state = "disputed"]
<1>1. /\ escrows[e] \in Escrow /\ RecordConsistent(escrows[e])
      /\ escrows[e].state = "claimed" /\ e \in EscrowIds
      /\ escrows \in [EscrowIds -> Escrow \cup {None}]
  BY DEF Inv, TypeOK, BookInv, BookType, Book, Opened, Contests, DisputeCode
<1>2. after.esc = esc /\ after.balances = balances
  BY DEF Contests, Disputed, Book
<1>3. escrows' = [escrows EXCEPT ![e] = esc] /\ balances' = balances
  BY <1>2 DEF Commit
<1>4. /\ esc \in Escrow /\ esc # None
      /\ esc.buyer_id = escrows[e].buyer_id /\ esc.payee_id = escrows[e].payee_id
      /\ esc.locked_cu = escrows[e].locked_cu /\ esc.released_cu = escrows[e].released_cu
      /\ esc.reclaimed_cu = escrows[e].reclaimed_cu /\ esc.claim = escrows[e].claim
      /\ esc.had_settlement = escrows[e].had_settlement /\ esc.expired = escrows[e].expired
      /\ esc.dispute = TRUE /\ esc.state = "disputed"
  <2>1. esc \in Escrow
    BY <1>1 DEF Escrow, EscrowState
  <2> QED BY <1>1, <2>1, NoneAssumption DEF Escrow
<1> HIDE DEF esc
<1>5. RecordConsistent(esc) /\ Remaining(esc) = Remaining(escrows[e])
  BY <1>1, <1>4 DEF RecordConsistent, Remaining
<1> DEFINE v == VaultOf(escrows[e])
           d == [v EXCEPT !.frozen = TRUE]
<1>6. /\ v \in Custody!Vault /\ v # None /\ ~v.frozen /\ v.pledge > 0
  BY <1>1, VaultOfType DEF RecordConsistent
<1>7. VaultOf(esc) = d
  <2>1. /\ VaultOf(esc) \in Custody!Vault /\ VaultOf(esc).frozen = TRUE
        /\ VaultOf(esc).owner = v.owner /\ VaultOf(esc).beneficiary = v.beneficiary
        /\ VaultOf(esc).held = v.held /\ VaultOf(esc).pledge = v.pledge
        /\ VaultOf(esc).settled = v.settled
    BY <1>1, <1>4, <1>5, VaultOfType
  <2> HIDE DEF v
  <2>2. /\ d \in Custody!Vault /\ d.frozen = TRUE
        /\ d.owner = v.owner /\ d.beneficiary = v.beneficiary
        /\ d.held = v.held /\ d.pledge = v.pledge /\ d.settled = v.settled
    BY <1>6 DEF Custody!Vault
  <2> HIDE DEF d
  <2> QED BY <2>1, <2>2, SameVault
<1>8. Vaults[e] = v /\ Vaults' = [Vaults EXCEPT ![e] = VaultOf(esc)]
  BY <1>1, <1>3, <1>4 DEF Vaults, Opened
<1> HIDE DEF v
<1>9. Custody!Freeze(e)
  <2>1. Vaults' = [Vaults EXCEPT ![e].frozen = TRUE]
    BY <1>7, <1>8
  <2> QED BY <1>3, <1>6, <1>8, <2>1 DEF Custody!Freeze
<1> QED BY <1>1, <1>6, <1>8, <1>9 DEF Custody!Next

\* A step that leaves every book alone is no step of the custody.
LEMMA UntouchedVaults ==
    ASSUME UNCHANGED <<escrows, balances>>
    PROVE  UNCHANGED Custody!vars
BY DEF Custody!vars, Vaults

\* Whatever task ids the payees name, the agent seen through the mapping starts like
\* EscrowCustody, and each of its steps is a step of EscrowCustody as long as the
\* ledger has paid what the records say: money leaves an escrow only to its payee and
\* its buyer, a pledged claim is paid before anything else, a bound escrow is not
\* emptied behind the payee's back, and a dispute freezes it (escrow.py:381-418,
\* 463-620).
THEOREM StepsRefineCustody ==
    Spec => /\ Custody!Init
            /\ [][PaidInFull /\ PaidInFull' => [Custody!Next]_(Custody!vars)]_vars
<1>1. Init => Custody!Init
  BY DEF Init, Custody!Init, Vaults
<1>2. Inv /\ [Next]_vars =>
        [PaidInFull /\ PaidInFull' => [Custody!Next]_(Custody!vars)]_vars
  <2> SUFFICES ASSUME Inv, [Next]_vars, PaidInFull, PaidInFull'
               PROVE  Custody!Next \/ UNCHANGED Custody!vars
    OBVIOUS
  <2>1. CASE UNCHANGED <<escrows, balances>>
    BY <2>1, UntouchedVaults
  <2>2. CASE \E p \in Parties, op \in LockRefs, e \in EscrowIds, amount \in Amounts,
                until \in ValidUntils, window \in Windows \cup {None},
                payee \in Parties \cup {None} :
               Lock(p, op, e, amount, until, window, payee)
    BY <2>2, LockDeposits
  <2>3. ASSUME NEW e \in Opened, NEW after, Commit(after), Touches(after, e)
        PROVE  Custody!Next \/ UNCHANGED Custody!vars
    <3>1. BookInv(after) /\ after.esc.escrow_id = e
      BY <2>3 DEF Touches
    <3>2. CASE after = Book(e)
      <4>1. /\ e \in EscrowIds /\ escrows \in [EscrowIds -> Escrow \cup {None}]
            /\ after.esc = escrows[e] /\ after.balances = balances
        BY <3>2 DEF Inv, TypeOK, Opened, Book
      <4>2. UNCHANGED <<escrows, balances>>
        BY <2>3, <3>1, <4>1 DEF Commit
      <4> QED BY <4>2, UntouchedVaults
    <3>3. CASE after # Book(e) /\ Moves(after, Book(e))
      <4>1. escrows[e].state # "disputed"
        BY <2>3, <3>3 DEF Touches
      <4> QED BY <2>3, <3>1, <3>3, <4>1, MovesDisburse
    <3>4. CASE \E p \in Parties : Contests(after, Book(e), p)
      BY <2>3, <3>1, <3>4, ContestFreezes
    <3> QED BY <2>3, <3>2, <3>3, <3>4 DEF Touches
  <2> QED BY <2>1, <2>2, <2>3, StepTouches
<1> QED BY <1>1, <1>2, Invariance, PTL DEF Spec

\* The agent implements EscrowCustody, if no payee claims again for a task whose claim
\* was auto-released on the same escrow.  The agent does not enforce that; where a
\* payee does, the ledger skips a payment (escrow.py:381) and PaidInFull ends.
THEOREM RefinesCustody ==
    ASSUME ~ReuseTaskIds
    PROVE  Spec => ImplementsCustody
<1>1. Spec => []PaidInFull
  BY PaysInFull
<1>2. /\ PaidInFull /\ PaidInFull'
      /\ [PaidInFull /\ PaidInFull' => [Custody!Next]_(Custody!vars)]_vars
      => [Custody!Next]_(Custody!vars)
  <2>1. UNCHANGED vars => UNCHANGED Custody!vars
    BY UntouchedVaults DEF vars
  <2> QED BY <2>1
<1> QED BY <1>1, <1>2, StepsRefineCustody, PTL DEF ImplementsCustody, Custody!Spec

--------------------------------------------------------------------------------
(* Who may move money when *)

\* Committing a book to one escrow leaves the others alone.
LEMMA CommitElsewhere ==
    ASSUME Inv, NEW after, Commit(after), NEW e \in EscrowIds, after.esc.escrow_id # e
    PROVE  Untouched(e)
BY DEF Inv, TypeOK, Commit, Untouched

\* Committing the book that was read changes nothing.
LEMMA CommitSame ==
    ASSUME Inv, NEW e \in Opened, Commit(Book(e))
    PROVE  Untouched(e)
<1>1. Book(e).esc = escrows[e] /\ Book(e).credited = credited[e] /\ Book(e).esc.escrow_id = e
  BY DEF Book, Inv
<1>2. e \in EscrowIds
  BY DEF Opened
<1> QED BY <1>1, <1>2 DEF Inv, TypeOK, Commit, Untouched

\* A request on another escrow, or none on any, leaves the escrow alone.
LEMMA OnlyItsOwn ==
    ASSUME Inv, [Next]_vars, NEW e \in Opened,
           ~\E p \in Parties, op \in OpRefs : Request(p, e, op),
           ~Status(e)
    PROVE  Untouched(e)
<1>1. /\ e \in EscrowIds /\ escrows[e] # None
      /\ escrows \in [EscrowIds -> Escrow \cup {None}]
  BY DEF Inv, TypeOK, Opened
<1>2. ASSUME NEW p \in Parties, NEW op \in LockRefs, LockRequest(p, op)
      PROVE  Untouched(e)
  <2>1. ASSUME NEW amount \in Amounts, LockRefused(p, op, amount)
        PROVE  Untouched(e)
    BY <2>1 DEF LockRefused, Untouched
  <2>2. ASSUME NEW x \in EscrowIds, NEW amount \in Amounts, NEW until \in ValidUntils,
               NEW window \in Windows \cup {None}, NEW payee \in Parties \cup {None},
               Lock(p, op, x, amount, until, window, payee)
        PROVE  Untouched(e)
    <3>1. x # e
      BY <1>1, <2>2 DEF Lock
    <3> QED BY <1>1, <2>2, <3>1 DEF Lock, Untouched
  <2> QED BY <1>2, <2>1, <2>2 DEF LockRequest
<1>3. ASSUME NEW p \in Parties, NEW x \in EscrowIds, NEW op \in OpRefs, Request(p, x, op)
      PROVE  Untouched(e)
  <2>1. x # e
    BY <1>3
  <2>2. PICK after, code, outcome :
          IsStep(after, x, op) /\ Answer(x, op, code, outcome, after)
    BY <1>3, RequestStep
  <2>3. Commit(after) /\ after.esc.escrow_id = x
    BY <2>2 DEF Answer, IsStep
  <2> QED BY <1>1, <2>1, <2>3, CommitElsewhere
<1>4. ASSUME NEW x \in EscrowIds, Status(x) PROVE Untouched(e)
  <2>1. x # e
    BY <1>4
  <2>2. Commit(Resolved(x)) /\ Resolved(x).esc.escrow_id = x
    BY <1>4, StatusStep DEF IsStep
  <2> QED BY <1>1, <2>1, <2>2, CommitElsewhere
<1>5. ASSUME \/ \E op \in LockRefs : ReplayLock(op)
             \/ \E x \in EscrowIds, op \in OpRefs : Replay(x, op)
             \/ Tick
             \/ UNCHANGED vars
      PROVE  Untouched(e)
  BY <1>5 DEF ReplayLock, Replay, Tick, vars, Untouched
<1> QED BY <1>2, <1>3, <1>4, <1>5 DEF Next

\* A step leaves an escrow alone, or touches it and commits what it made of it.
LEMMA TouchedOrNot ==
    ASSUME Inv, [Next]_vars, NEW e \in Opened
    PROVE  \/ Untouched(e)
           \/ \E after : Touches(after, e) /\ escrows'[e] = after.esc
<1>1. ASSUME NEW after, Commit(after), Touches(after, e)
      PROVE  escrows'[e] = after.esc
  BY <1>1 DEF Inv, TypeOK, Opened, Commit, Touches
<1>2. CASE \E p \in Parties, op \in OpRefs : Request(p, e, op)
  BY <1>1, <1>2, RequestTouches DEF Opened
<1>3. CASE Status(e)
  <2>1. Commit(Resolved(e)) /\ Touches(Resolved(e), e)
    BY <1>3, StatusTouches DEF Opened
  <2> QED BY <1>1, <2>1
<1> QED BY <1>2, <1>3, OnlyItsOwn

\* Of a bound escrow that never paid its payee, the buyer gets nothing back, by any
\* request of anybody, until the lock ended or the payee was paid.
THEOREM NeverDrainedBeforeSettlement == Spec => NotDrainedBeforeSettlement
<1> DEFINE Earned(e) ==
             (/\ escrows[e] # None /\ escrows[e].payee_id # None
              /\ ~escrows[e].had_settlement
              /\ escrows'[e].reclaimed_cu > escrows[e].reclaimed_cu)
             => \/ escrows'[e].had_settlement
                \/ escrows'[e].expired /\ now >= escrows[e].valid_until_ms
<1>1. Inv /\ [Next]_vars => [\A e \in EscrowIds : Earned(e)]_vars
  <2> SUFFICES ASSUME Inv, [Next]_vars, NEW e \in EscrowIds,
                      escrows[e] # None, escrows[e].payee_id # None,
                      escrows'[e].reclaimed_cu > escrows[e].reclaimed_cu
               PROVE  \/ escrows'[e].had_settlement
                      \/ escrows'[e].expired /\ now >= escrows[e].valid_until_ms
    OBVIOUS
  <2>1. e \in Opened /\ escrows[e].reclaimed_cu \in Nat
    BY DEF Opened, Inv, TypeOK, Escrow
  <2>2. PICK after : Touches(after, e) /\ escrows'[e] = after.esc
    BY <2>1, TouchedOrNot DEF Untouched
  <2>3. Book(e).esc = escrows[e]
    BY DEF Book
  <2>4. after.esc.reclaimed_cu # escrows[e].reclaimed_cu
    BY <2>1, <2>2
  <2>5. Follows(after.esc, escrows[e])
    <3>1. after # Book(e)
      BY <2>3, <2>4
    <3>2. ASSUME NEW p \in Parties, Contests(after, Book(e), p) PROVE FALSE
      <4>1. after.esc.reclaimed_cu = Book(e).esc.reclaimed_cu
        <5>1. Book(e) \in BookType
          BY <2>1 DEF Inv, BookInv
        <5> QED BY <3>2, <5>1 DEF Contests, Disputed, BookType, Escrow
      <4> QED BY <2>3, <2>4, <4>1
    <3> QED BY <2>2, <2>3, <3>1, <3>2 DEF Touches, Moves
  <2> QED BY <2>2, <2>5 DEF Follows
<1>2. Spec => [][\A e \in EscrowIds : Earned(e)]_vars
  BY <1>1, Invariance, PTL DEF Spec
<1> QED BY <1>2 DEF NotDrainedBeforeSettlement

\* One look at an escrow whose lock ended a challenge window ago leaves nothing
\* undecided in it: an elapsed claim and the elapsed lock take effect together.
THEOREM OneTouchIsEnough == Spec => OneTouchSettles
<1> DEFINE Settles(e) ==
             (/\ Status(e)
              /\ now >= escrows[e].valid_until_ms
              /\ now >= escrows[e].valid_until_ms + escrows[e].challenge_window_ms)
             => escrows'[e].state \in {"closed", "disputed"}
<1>1. Inv /\ [Next]_vars => [\A e \in EscrowIds : Settles(e)]_vars
  <2> SUFFICES ASSUME Inv, NEW e \in EscrowIds, Status(e),
                      now >= escrows[e].valid_until_ms,
                      now >= escrows[e].valid_until_ms + escrows[e].challenge_window_ms
               PROVE  escrows'[e].state \in {"closed", "disputed"}
    OBVIOUS
  <2> DEFINE b == Book(e)
             s == Resolved(e)
  <2>1. e \in Opened /\ Commit(s) /\ now \in Int
    BY StatusStep, TimesAssumption DEF Inv, TypeOK
  <2>2. /\ BookInv(b) /\ BookInv(s) /\ s.esc.escrow_id = e /\ IsEffective(s, b)
        /\ s.esc.state = "claimed" => ~WindowElapsed(s.esc)
        /\ s = b \/ Moves(s, b)
    BY <2>1, ResolvedIsEffective, EffectiveMoves DEF Resolved
  <2>3. b.esc = escrows[e]
    BY DEF Book
  <2>4. escrows'[e] = s.esc
    BY <2>1, <2>2 DEF Commit, Inv, TypeOK
  <2> HIDE DEF b, s
  <2>5. s.esc \in Escrow /\ b.esc \in Escrow /\ s.esc.valid_until_ms = b.esc.valid_until_ms
    BY <2>2 DEF BookInv, BookType, Moves, Follows
  <2>6. ASSUME s.esc.state = "open" PROVE FALSE
    <3>1. s.esc.claim = None /\ ~s.esc.dispute /\ ~LockElapsed(s.esc)
      BY <2>2, <2>6 DEF IsEffective, BookInv, RecordConsistent
    <3> QED BY <2>3, <2>5, <2>6, <3>1 DEF LockElapsed
  <2>7. ASSUME s.esc.state = "claimed" PROVE FALSE
    <3>1. s = b
      BY <2>2, <2>7 DEF IsEffective
    <3>2. /\ s.esc.claim # None /\ s.esc.claim \in Claim
          /\ s.esc.claim.window_ends_ms < s.esc.valid_until_ms + s.esc.challenge_window_ms
      BY <2>2, <2>5, <2>7 DEF BookInv, RecordConsistent, SuspendsExpiryBriefly, Escrow
    <3>3. ~(now >= s.esc.claim.window_ends_ms)
      BY <2>2, <2>7, <3>2 DEF WindowElapsed
    <3>4. /\ s.esc.claim.window_ends_ms \in Int /\ s.esc.valid_until_ms \in Int
          /\ s.esc.challenge_window_ms \in Int
      BY <2>5, <3>2 DEF Escrow, Claim
    <3> QED BY <2>1, <2>3, <3>1, <3>2, <3>3, <3>4
  <2> QED BY <2>4, <2>5, <2>6, <2>7 DEF Escrow, EscrowState
<1>2. Spec => [][\A e \in EscrowIds : Settles(e)]_vars
  BY <1>1, Invariance, PTL DEF Spec
<1> QED BY <1>2 DEF OneTouchSettles

\* Inside the window, a request on an escrow with a pending claim changes it only
\* as the buyer's own dispute or release to the payee.
LEMMA WindowIsTheBuyers ==
    ASSUME Inv, NEW e \in Opened, Pending(e), now < escrows[e].claim.window_ends_ms,
           NEW p \in Parties, NEW op \in OpRefs, Request(p, e, op)
    PROVE  \/ Untouched(e)
           \/ Dispute(escrows[e].buyer_id, e, op)
           \/ \E amount \in Amounts :
                Release(escrows[e].buyer_id, e, op, amount, escrows[e].payee_id)
<1> DEFINE b == Book(e)
           esc == escrows[e]
<1>1. /\ b.esc = esc /\ BookInv(b) /\ esc.state = "claimed"
  BY ResolvedIsEffective DEF Book, Pending
<1>2. /\ esc.payee_id # None /\ esc.claim \in Claim /\ now \in Int
  BY <1>1, TimesAssumption
     DEF BookInv, BookType, RecordConsistent, Escrow, Inv, TypeOK
<1>3. Resolved(e) = b
  <2>1. ~WindowElapsed(esc)
    BY <1>2 DEF WindowElapsed, Claim
  <2> QED BY <1>1, <2>1, EffectiveMoves DEF Resolved
<1>4. ASSUME NEW code, NEW outcome, Answer(e, op, code, outcome, b) PROVE Untouched(e)
  BY <1>4, CommitSame DEF Answer
<1>5. ASSUME NEW payee \in Parties, NEW window \in Windows \cup {None},
             Bind(p, e, op, payee, window)
      PROVE  Untouched(e)
  <2>1. BindCode(b.esc, p) # "ok"
    BY <1>1, <1>2 DEF BindCode
  <2>2. Answer(e, op, BindCode(b.esc, p), Result("bind", 0), b)
    BY <1>3, <1>5, <2>1 DEF Bind
  <2> QED BY <1>4, <2>2
<1>6. ASSUME NEW request \in Amounts \cup {None}, Reclaim(p, e, op, request)
      PROVE  Untouched(e)
  <2> DEFINE amount == IF request = None THEN Remaining(b.esc) ELSE request
  <2>1. ReclaimCode(b.esc, p, request) # "ok"
    BY <1>1 DEF ReclaimCode
  <2>2. Answer(e, op, ReclaimCode(b.esc, p, request), Result("reclaim", amount), b)
    BY <1>3, <1>6, <2>1 DEF Reclaim
  <2> QED BY <1>4, <2>2
<1>7. ASSUME NEW amount \in Amounts, NEW task \in TaskIds, ClaimOp(p, e, op, amount, task)
      PROVE  Untouched(e)
  <2>1. ClaimCode(b.esc, p, amount) # "ok"
    BY <1>1 DEF ClaimCode
  <2>2. Answer(e, op, ClaimCode(b.esc, p, amount), Result("claim", 0), b)
    BY <1>3, <1>7, <2>1 DEF ClaimOp
  <2> QED BY <1>4, <2>2
<1>8. ASSUME NEW amount \in Amounts, NEW payee \in Parties, Release(p, e, op, amount, payee)
      PROVE  Untouched(e) \/ Release(esc.buyer_id, e, op, amount, esc.payee_id)
  <2> DEFINE code == ReleaseCode(b.esc, p, amount, payee)
  <2>1. CASE code = "ok"
    <3>1. p = esc.buyer_id /\ payee = esc.payee_id
      BY <1>1, <1>2, <2>1 DEF ReleaseCode
    <3> QED BY <1>8, <3>1
  <2>2. CASE code # "ok"
    <3>1. Answer(e, op, code, Result("release", amount), b)
      BY <1>3, <1>8, <2>2 DEF Release
    <3> QED BY <1>4, <3>1
  <2> QED BY <2>1, <2>2
<1>9. ASSUME Dispute(p, e, op)
      PROVE  Untouched(e) \/ Dispute(esc.buyer_id, e, op)
  <2> DEFINE code == DisputeCode(b.esc, p)
  <2>1. CASE code = "ok"
    <3>1. p = esc.buyer_id
      BY <1>1, <2>1 DEF DisputeCode
    <3> QED BY <1>9, <3>1
  <2>2. CASE code # "ok"
    <3>1. Answer(e, op, code, Result("dispute", 0), b)
      BY <1>3, <1>9, <2>2 DEF Dispute
    <3> QED BY <1>4, <3>1
  <2> QED BY <2>1, <2>2
<1> HIDE DEF b
<1> QED BY <1>5, <1>6, <1>7, <1>8, <1>9 DEF Request

\* No handler but dispute leaves an escrow disputed that was not.
LEMMA DoesNotDispute ==
    ASSUME NEW s, BookInv(s), NEW p \in Parties, NEW op, NEW after,
           Does(after, s, p, op), s.esc.state # "disputed"
    PROVE  after.esc.state # "disputed"
<1>1. s \in BookType /\ s.esc \in Escrow
  BY DEF BookInv, BookType
<1>2. ASSUME NEW b \in BookType, NEW esc, NEW kind, NEW ref, NEW account, NEW amount
      PROVE  Payout([b EXCEPT !.esc = esc], kind, ref, account, amount).esc = esc
  BY DEF Payout, BookType
<1>3. ASSUME NEW payee \in Parties, NEW window \in Windows \cup {None},
             after = Bound(s, payee, window)
      PROVE  after.esc.state # "disputed"
  BY <1>1, <1>3 DEF Bound, BookType, Escrow
<1>4. ASSUME NEW amount \in Amounts, NEW payee \in Parties, after = Released(s, op, amount, payee)
      PROVE  after.esc.state # "disputed"
  <2>1. amount \in Nat
    BY AmountsAssumption
  <2>2. after.esc = Settled(s.esc, payee, amount)
    BY <1>1, <1>2, <1>4 DEF Released
  <2>3. IsSettled(Settled(s.esc, payee, amount), s.esc, payee, amount)
    BY <1>1, <2>1, SettledType
  <2> QED BY <2>2, <2>3 DEF IsSettled
<1>5. ASSUME NEW request \in Amounts \cup {None},
             ReclaimCode(s.esc, p, request) = "ok",
             after = Reclaimed(s, op, IF request = None THEN Remaining(s.esc) ELSE request)
      PROVE  after.esc.state # "disputed"
  <2> DEFINE amount == IF request = None THEN Remaining(s.esc) ELSE request
  <2>1. amount \in Nat /\ 0 < amount
    BY <1>5, ReclaimAmount
  <2>2. after = Reclaimed(s, op, amount)
    BY <1>5
  <2> HIDE DEF amount
  <2>3. PICK esc \in Escrow :
          /\ esc.state = IF Remaining(esc) <= 0 THEN "closed" ELSE "open"
          /\ after = Payout([s EXCEPT !.esc = esc], "reclaim", op, esc.buyer_id, amount)
    BY <1>1, <2>1, <2>2, ReclaimDraws
  <2>4. after.esc = esc
    BY <1>1, <1>2, <2>3
  <2> QED BY <2>3, <2>4
<1>6. ASSUME NEW amount \in Amounts, NEW task \in TaskIds, after = Claimed(s, amount, task)
      PROVE  after.esc.state # "disputed"
  BY <1>1, <1>6 DEF Claimed, BookType, Escrow
<1> QED BY <1>3, <1>4, <1>5, <1>6 DEF Does

\* Once the window ended, a request or a look at the escrow pays the claim: it is
\* too late to contest it.
LEMMA TooLateToContest ==
    ASSUME Inv, NEW e \in Opened, Pending(e), ~(now < escrows[e].claim.window_ends_ms)
    PROVE  /\ Status(e) => escrows'[e].state # "disputed"
           /\ \A p \in Parties, op \in OpRefs :
                Request(p, e, op) => escrows'[e].state # "disputed"
<1> DEFINE s == Resolved(e)
<1>1. /\ Book(e).esc = escrows[e] /\ BookInv(Book(e)) /\ escrows[e].state = "claimed"
      /\ BookInv(s) /\ s.esc.escrow_id = e
  BY ResolvedIsEffective DEF Book, Pending
<1>2. WindowElapsed(escrows[e])
  <2>1. escrows[e].claim # None /\ escrows[e].claim \in Claim /\ now \in Int
    BY <1>1, TimesAssumption
       DEF BookInv, BookType, RecordConsistent, Escrow, Inv, TypeOK
  <2> QED BY <1>1, <2>1 DEF WindowElapsed, Claim
<1>3. s.esc.state \in {"open", "closed"}
  BY <1>1, <1>2, EffectiveMoves DEF Resolved
<1>4. ASSUME NEW after, Commit(after), after.esc.escrow_id = e
      PROVE  escrows'[e] = after.esc
  BY <1>4 DEF Inv, TypeOK, Opened, Commit
<1>5. ASSUME Status(e) PROVE escrows'[e].state # "disputed"
  BY <1>1, <1>3, <1>4, <1>5 DEF Status
<1>6. ASSUME NEW p \in Parties, NEW op \in OpRefs, Request(p, e, op)
      PROVE  escrows'[e].state # "disputed"
  <2>1. PICK after, code, outcome :
          /\ IsStep(after, e, op) /\ Answer(e, op, code, outcome, after)
          /\ \/ after = s \/ Does(after, s, p, op) \/ Contests(after, s, p)
    BY <1>6, RequestStep DEF Opened
  <2>2. escrows'[e] = after.esc
    BY <1>4, <2>1 DEF Answer, IsStep
  <2> HIDE DEF s
  <2>3. ~Contests(after, s, p)
    BY <1>3 DEF Contests, DisputeCode
  <2>4. Does(after, s, p, op) => after.esc.state # "disputed"
    BY <1>1, <1>3, DoesNotDispute
  <2> QED BY <1>3, <2>1, <2>2, <2>3, <2>4
<1> QED BY <1>5, <1>6

\* A pending claim is the buyer's alone to answer while its window lasts, and
\* nobody's to contest afterwards, whichever message comes first after its end.
THEOREM WindowsAreHonoured == Spec => ChallengeWindowHonoured
<1> DEFINE Honoured(e) ==
             Pending(e) =>
               IF now < escrows[e].claim.window_ends_ms
               THEN \/ Untouched(e)
                    \/ \E op \in OpRefs :
                         \/ Dispute(escrows[e].buyer_id, e, op)
                         \/ \E amount \in Amounts :
                              Release(escrows[e].buyer_id, e, op, amount, escrows[e].payee_id)
               ELSE escrows'[e].state # "disputed"
<1>1. Inv /\ [Next]_vars => [\A e \in EscrowIds : Honoured(e)]_vars
  <2> SUFFICES ASSUME Inv, [Next]_vars, NEW e \in EscrowIds, Pending(e)
               PROVE  Honoured(e)
    OBVIOUS
  <2>1. e \in Opened /\ escrows[e].state = "claimed"
    BY DEF Pending, Opened
  <2>2. ASSUME Untouched(e) PROVE Honoured(e)
    BY <2>1, <2>2 DEF Untouched
  <2>3. CASE now < escrows[e].claim.window_ends_ms
    <3>1. ASSUME NEW p \in Parties, NEW op \in OpRefs, Request(p, e, op)
          PROVE  Honoured(e)
      <4>1. \/ Untouched(e)
            \/ Dispute(escrows[e].buyer_id, e, op)
            \/ \E amount \in Amounts :
                 Release(escrows[e].buyer_id, e, op, amount, escrows[e].payee_id)
        BY <2>1, <2>3, <3>1, WindowIsTheBuyers
      <4> QED BY <2>3, <4>1
    <3>2. ASSUME Status(e) PROVE Untouched(e)
      <4>1. ~WindowElapsed(escrows[e]) /\ Book(e).esc = escrows[e]
        <5>1. /\ escrows[e] \in Escrow /\ escrows[e].claim # None /\ now \in Int
          <6>1. BookInv(Book(e)) /\ Book(e).esc = escrows[e] /\ now \in Int
            BY <2>1, TimesAssumption DEF Inv, TypeOK, Book
          <6> QED BY <2>1, <6>1 DEF BookInv, BookType, RecordConsistent
        <5>2. escrows[e].claim.window_ends_ms \in Int
          BY <5>1 DEF Escrow, Claim
        <5> QED BY <2>3, <5>1, <5>2 DEF WindowElapsed, Book
      <4>2. Resolved(e) = Book(e)
        BY <2>1, <4>1, EffectiveMoves, ResolvedIsEffective DEF Resolved
      <4> QED BY <2>1, <3>2, <4>2, CommitSame DEF Status
    <3> HIDE DEF Honoured
    <3> QED BY <2>1, <2>2, <3>1, <3>2, OnlyItsOwn
  <2>4. CASE ~(now < escrows[e].claim.window_ends_ms)
    <3>1. ASSUME \/ Status(e) \/ \E p \in Parties, op \in OpRefs : Request(p, e, op)
          PROVE  Honoured(e)
      <4>1. escrows'[e].state # "disputed"
        BY <2>1, <2>4, <3>1, TooLateToContest
      <4> QED BY <2>4, <4>1
    <3> HIDE DEF Honoured
    <3> QED BY <2>1, <2>2, <3>1, OnlyItsOwn
  <2> QED BY <2>3, <2>4
<1>2. Spec => [][\A e \in EscrowIds : Honoured(e)]_vars
  BY <1>1, Invariance, PTL DEF Spec
<1> QED BY <1>2 DEF ChallengeWindowHonoured

\* The cache of escrowLock names each escrow exactly once.
THEOREM LocksOpenOneEscrow == Spec => []OneEscrowPerLock
<1>1. Inv => OneEscrowPerLock
  <2> SUFFICES ASSUME Inv, NEW e \in Opened
               PROVE  Cardinality({op \in LockRefs : Opens(op, e)}) = 1
    BY DEF OneEscrowPerLock
  <2>1. PICK op \in LockRefs : /\ Opens(op, e)
                               /\ \A other \in LockRefs : Opens(other, e) => other = op
    BY DEF Inv, RefsMatch
  <2>2. {x \in LockRefs : Opens(x, e)} = {op}
    BY <2>1
  <2> QED BY <2>2, FS_Singleton
<1> QED BY <1>1, Invariance, PTL

================================================================================
