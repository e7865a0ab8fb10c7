----------------------------- MODULE PurchaseProofs -----------------------------
(***************************************************************************)
(* Proofs that the terms of a purchase hold, that covered work stays       *)
(* payable and that the program of the buyer settles it, for all prices,   *)
(* budgets, times and sets of tasks.                                       *)
(*                                                                         *)
(* The agent's part of each proof is about one book, the escrow and the    *)
(* ledger that a handler works on: first for the operators of EscrowAgent, *)
(* one lemma each, then for the handlers, then for the steps of Purchase.  *)
(***************************************************************************)
EXTENDS PurchasePromises, SetInduction

--------------------------------------------------------------------------------
(* The escrow of the purchase, whatever the ledger does *)

Remaining(esc) == esc.locked_cu - esc.released_cu - esc.reclaimed_cu

\* What is always true of the escrow's record.
EscrowOK(esc) ==
    /\ esc \in Agent!Escrow
    /\ esc.escrow_id = E /\ esc.buyer_id = Buyer /\ esc.payee_id \in {Provider, None}
    /\ Remaining(esc) >= 0
    /\ esc.state = "closed" => Remaining(esc) = 0
    /\ esc.state \in {"claimed", "disputed"} => esc.claim # None
    /\ esc.claim # None =>
         /\ esc.payee_id = Provider
         /\ esc.state \in {"claimed", "disputed"}
         /\ esc.claim.amount_cu <= Remaining(esc)

\* A step keeps what is bound to the provider until the escrow settles or runs out.
Keeps(esc, after) ==
    /\ after.had_settlement \/ ~esc.had_settlement
    /\ after.expired \/ ~esc.expired
    /\ ~after.had_settlement /\ ~after.expired /\ esc.payee_id = Provider =>
         /\ after.payee_id = Provider
         /\ after.state = "closed" => esc.state = "closed"
         /\ Remaining(after) = Remaining(esc)

\* A book is the record Agent!Book makes.
IsBook(b) ==
    b = [esc |-> b.esc, balances |-> b.balances, paid |-> b.paid,
         credited |-> b.credited]

LEMMA ReplaceEscrow ==
    ASSUME NEW b, IsBook(b), NEW esc
    PROVE  LET c == [b EXCEPT !.esc = esc] IN IsBook(c) /\ c.esc = esc
BY DEF IsBook

\* The ledger does not touch the record.
LEMMA PayoutKeepsEscrow ==
    ASSUME NEW b, IsBook(b), NEW kind, NEW ref, NEW account, NEW amount
    PROVE  LET c == Agent!Payout(b, kind, ref, account, amount) IN
           IsBook(c) /\ c.esc = b.esc
BY DEF IsBook, Agent!Payout

LEMMA SettledOK ==
    ASSUME NEW esc, EscrowOK(esc), NEW amount \in Nat, amount <= Remaining(esc)
    PROVE  LET s == Agent!Settled(esc, Provider, amount) IN
           EscrowOK(s) /\ Keeps(esc, s)
<1> DEFINE s == Agent!Settled(esc, Provider, amount)
           closes == Remaining(esc) - amount <= 0
<1>1. esc \in Agent!Escrow /\ Remaining(esc) \in Int
  BY DEF EscrowOK, Agent!Escrow, Remaining
<1>2. s = [esc EXCEPT !.payee_id = Provider, !.claim = None, !.released_cu = @ + amount,
                      !.had_settlement = TRUE,
                      !.state = IF closes THEN "closed" ELSE "open"]
  BY DEF Agent!Settled, Agent!Remaining, Remaining
<1> HIDE DEF s, closes
<1>3. /\ s \in Agent!Escrow
      /\ s.escrow_id = esc.escrow_id /\ s.buyer_id = esc.buyer_id
      /\ s.payee_id = Provider /\ s.claim = None
      /\ s.had_settlement = TRUE /\ s.expired = esc.expired
      /\ s.state = IF closes THEN "closed" ELSE "open"
  <2>1. /\ esc.released_cu + amount \in Nat
        /\ (IF closes THEN "closed" ELSE "open") \in Agent!EscrowState
    BY <1>1 DEF Agent!Escrow, Agent!EscrowState
  <2> QED BY <1>1, <1>2, <2>1 DEF Agent!Escrow
<1>4. Remaining(s) = Remaining(esc) - amount
  BY <1>1, <1>2 DEF Agent!Escrow, Remaining
<1>5. closes <=> Remaining(esc) - amount <= 0
  BY DEF closes
<1>6. EscrowOK(s)
  BY <1>1, <1>3, <1>4, <1>5 DEF EscrowOK
<1>7. Keeps(esc, s)
  BY <1>3 DEF Keeps
<1> QED BY <1>6, <1>7 DEF s

LEMMA AutoReleaseOK ==
    ASSUME NEW b, IsBook(b), EscrowOK(b.esc), b.esc.claim # None
    PROVE  LET c == Agent!AutoRelease(b) IN
           IsBook(c) /\ EscrowOK(c.esc) /\ Keeps(b.esc, c.esc)
<1> DEFINE s == Agent!Settled(b.esc, Provider, b.esc.claim.amount_cu)
<1>1. b.esc.claim.amount_cu \in Nat /\ b.esc.claim.amount_cu <= Remaining(b.esc)
  BY DEF EscrowOK, Agent!Escrow, Agent!Claim
<1>2. EscrowOK(s) /\ Keeps(b.esc, s)
  BY <1>1, SettledOK
<1>3. b.esc.payee_id = Provider
  BY DEF EscrowOK
<1> DEFINE settled == [b EXCEPT !.esc = s]
<1>4. Agent!AutoRelease(b) = Agent!Payout(settled, "auto_release", b.esc.claim.task_id,
                                          Provider, b.esc.claim.amount_cu)
  BY <1>3 DEF Agent!AutoRelease
<1> HIDE DEF s
<1>5. IsBook(settled) /\ settled.esc = s
  BY ReplaceEscrow
<1> HIDE DEF settled
<1> QED BY <1>2, <1>4, <1>5, PayoutKeepsEscrow

LEMMA AutoReclaimExpiryOK ==
    ASSUME NEW b, IsBook(b), EscrowOK(b.esc), b.esc.claim = None
    PROVE  LET c == Agent!AutoReclaimExpiry(b) IN
           IsBook(c) /\ EscrowOK(c.esc) /\ Keeps(b.esc, c.esc)
<1> DEFINE amount == Agent!Remaining(b.esc)
           esc == [b.esc EXCEPT !.reclaimed_cu = @ + amount,
                                !.state = "closed", !.expired = TRUE]
           closed == [b EXCEPT !.esc = esc]
<1>0. amount = Remaining(b.esc) /\ amount \in Nat
  BY DEF EscrowOK, Agent!Escrow, Agent!Remaining, Remaining
<1> HIDE DEF amount
<1>1. EscrowOK(esc) /\ Keeps(b.esc, esc)
  <2>1. /\ esc \in Agent!Escrow
        /\ esc.escrow_id = b.esc.escrow_id /\ esc.buyer_id = b.esc.buyer_id
        /\ esc.payee_id = b.esc.payee_id /\ esc.claim = b.esc.claim
        /\ esc.had_settlement = b.esc.had_settlement /\ esc.expired = TRUE
        /\ esc.state = "closed"
    <3>1. /\ b.esc \in Agent!Escrow /\ b.esc.reclaimed_cu + amount \in Nat
          /\ "closed" \in Agent!EscrowState
      BY <1>0 DEF EscrowOK, Agent!Escrow, Agent!EscrowState
    <3> QED BY <3>1 DEF Agent!Escrow
  <2>2. Remaining(esc) = 0
    BY <1>0 DEF EscrowOK, Agent!Escrow, Remaining
  <2> HIDE DEF esc
  <2>3. EscrowOK(esc)
    BY <2>1, <2>2 DEF EscrowOK
  <2>4. Keeps(b.esc, esc)
    BY <2>1 DEF Keeps
  <2> QED BY <2>3, <2>4
<1> HIDE DEF esc
<1>2. IsBook(closed) /\ closed.esc = esc
  BY ReplaceEscrow
<1>3. Agent!AutoReclaimExpiry(b) =
        IF amount > 0
        THEN Agent!Payout(closed, "expiry_reclaim", None, esc.buyer_id, amount)
        ELSE closed
  BY Zenon DEF Agent!AutoReclaimExpiry, amount, esc
<1> HIDE DEF closed
<1> QED BY <1>1, <1>2, <1>3, PayoutKeepsEscrow

LEMMA KeepsTransitive ==
    ASSUME NEW x, NEW y, NEW z, EscrowOK(x), EscrowOK(y), EscrowOK(z),
           Keeps(x, y), Keeps(y, z)
    PROVE  Keeps(x, z)
BY DEF Keeps, EscrowOK, Agent!Escrow

\* _effective_state, with one or two transitions.
LEMMA EffectiveStateOK ==
    ASSUME NEW b, IsBook(b), EscrowOK(b.esc)
    PROVE  LET c == Agent!EffectiveState(b) IN
           IsBook(c) /\ EscrowOK(c.esc) /\ Keeps(b.esc, c.esc)
<1> DEFINE released == IF Agent!WindowElapsed(b.esc) THEN Agent!AutoRelease(b) ELSE b
<1>1. IsBook(released) /\ EscrowOK(released.esc) /\ Keeps(b.esc, released.esc)
  BY AutoReleaseOK DEF Agent!WindowElapsed, Keeps
<1> HIDE DEF released
<1>2. CASE Agent!LockElapsed(released.esc)
  <2> DEFINE c == Agent!AutoReclaimExpiry(released)
  <2>1. IsBook(c) /\ EscrowOK(c.esc) /\ Keeps(released.esc, c.esc)
    BY <1>1, <1>2, AutoReclaimExpiryOK DEF Agent!LockElapsed
  <2>2. Agent!EffectiveState(b) = c
    BY <1>2 DEF Agent!EffectiveState, released
  <2> HIDE DEF c
  <2> QED BY <1>1, <2>1, <2>2, KeepsTransitive
<1>3. CASE ~Agent!LockElapsed(released.esc)
  BY <1>1, <1>3 DEF Agent!EffectiveState, released
<1> QED BY <1>2, <1>3

--------------------------------------------------------------------------------
(* What each handler does to the escrow once the clock was looked at *)

LEMMA BoundOK ==
    ASSUME NEW b, IsBook(b), EscrowOK(b.esc), Agent!BindCode(b.esc, Buyer) = "ok"
    PROVE  LET c == Agent!Bound(b, Provider, None) IN
           IsBook(c) /\ EscrowOK(c.esc) /\ Keeps(b.esc, c.esc)
<1> DEFINE esc == [b.esc EXCEPT !.payee_id = Provider, !.challenge_window_ms = @]
<1>1. b.esc.payee_id = None
  BY DEF Agent!BindCode
<1>2. EscrowOK(esc) /\ Keeps(b.esc, esc)
  BY <1>1, NoneAssumption DEF EscrowOK, Keeps, Remaining, Agent!Escrow
<1>3. Agent!Bound(b, Provider, None) = [b EXCEPT !.esc = esc]
  BY DEF Agent!Bound
<1> HIDE DEF esc
<1> QED BY <1>2, <1>3, ReplaceEscrow

LEMMA ReleasedOK ==
    ASSUME NEW b, IsBook(b), EscrowOK(b.esc), NEW amount \in Nat, NEW op,
           Agent!ReleaseCode(b.esc, Buyer, amount, Provider) = "ok"
    PROVE  LET c == Agent!Released(b, op, amount, Provider) IN
           IsBook(c) /\ EscrowOK(c.esc) /\ Keeps(b.esc, c.esc)
<1> DEFINE s == Agent!Settled(b.esc, Provider, amount)
<1>1. amount <= Remaining(b.esc)
  BY DEF Agent!ReleaseCode, Agent!Remaining, Remaining, EscrowOK, Agent!Escrow
<1>2. EscrowOK(s) /\ Keeps(b.esc, s)
  BY <1>1, SettledOK
<1> HIDE DEF s
<1> DEFINE settled == [b EXCEPT !.esc = s]
<1>3. Agent!Released(b, op, amount, Provider) =
        Agent!Payout(settled, "release", op, Provider, amount)
  BY DEF Agent!Released, s
<1>4. IsBook(settled) /\ settled.esc = s
  BY ReplaceEscrow
<1> HIDE DEF settled
<1> QED BY <1>2, <1>3, <1>4, PayoutKeepsEscrow

LEMMA ReclaimedOK ==
    ASSUME NEW b, IsBook(b), EscrowOK(b.esc), NEW op,
           Agent!ReclaimCode(b.esc, Buyer, None) = "ok"
    PROVE  LET c == Agent!Reclaimed(b, op, Agent!Remaining(b.esc)) IN
           IsBook(c) /\ EscrowOK(c.esc) /\ Keeps(b.esc, c.esc)
<1> DEFINE amount == Agent!Remaining(b.esc)
           esc == [b.esc EXCEPT
                     !.reclaimed_cu = @ + amount,
                     !.state = IF Agent!Remaining(b.esc) - amount <= 0
                               THEN "closed" ELSE "open"]
           drawn == [b EXCEPT !.esc = esc]
<1>1. /\ b.esc.state = "open"
      /\ b.esc.payee_id = None \/ b.esc.had_settlement
  BY DEF Agent!ReclaimCode, Agent!Guarded
<1>2. EscrowOK(esc) /\ Keeps(b.esc, esc)
  <2>1. amount = Remaining(b.esc) /\ amount \in Nat
    BY DEF EscrowOK, Agent!Escrow, Agent!Remaining, Remaining
  <2>2. Agent!Remaining(b.esc) - amount <= 0
    BY <2>1
  <2>3. b.esc.claim = None
    BY <1>1 DEF EscrowOK
  <2> HIDE DEF amount
  <2>4. /\ esc \in Agent!Escrow
        /\ esc.escrow_id = b.esc.escrow_id /\ esc.buyer_id = b.esc.buyer_id
        /\ esc.payee_id = b.esc.payee_id /\ esc.claim = None
        /\ esc.had_settlement = b.esc.had_settlement /\ esc.expired = b.esc.expired
        /\ esc.state \in {"open", "closed"}
    <3>1. /\ b.esc \in Agent!Escrow /\ b.esc.reclaimed_cu + amount \in Nat
          /\ (IF Agent!Remaining(b.esc) - amount <= 0 THEN "closed" ELSE "open")
               \in Agent!EscrowState
      BY <2>1 DEF EscrowOK, Agent!Escrow, Agent!EscrowState
    <3> QED BY <2>3, <3>1 DEF Agent!Escrow
  <2>5. Remaining(esc) = 0
    BY <2>1 DEF EscrowOK, Agent!Escrow, Remaining
  <2> HIDE DEF esc
  <2>6. EscrowOK(esc)
    BY <2>4, <2>5 DEF EscrowOK
  <2>7. Keeps(b.esc, esc)
    BY <1>1, <2>4, NoneAssumption DEF EscrowOK, Keeps
  <2> QED BY <2>6, <2>7
<1>3. Agent!Reclaimed(b, op, amount) =
        IF amount > 0 THEN Agent!Payout(drawn, "reclaim", op, esc.buyer_id, amount)
                      ELSE drawn
  BY DEF Agent!Reclaimed
<1> HIDE DEF esc, amount
<1>4. IsBook(drawn) /\ drawn.esc = esc
  BY ReplaceEscrow
<1> HIDE DEF drawn
<1>5. LET c == Agent!Reclaimed(b, op, amount) IN
      IsBook(c) /\ EscrowOK(c.esc) /\ Keeps(b.esc, c.esc)
  BY <1>2, <1>3, <1>4, PayoutKeepsEscrow
<1> QED BY <1>5 DEF amount

LEMMA ClaimedOK ==
    ASSUME NEW b, IsBook(b), EscrowOK(b.esc), NEW amount \in Nat, NEW t \in TaskIds,
           now \in Nat, Agent!ClaimCode(b.esc, Provider, amount) = "ok"
    PROVE  LET c == Agent!Claimed(b, amount, t) IN
           IsBook(c) /\ EscrowOK(c.esc) /\ Keeps(b.esc, c.esc)
<1> DEFINE claim == [amount_cu |-> amount, task_id |-> t,
                     window_ends_ms |-> now + b.esc.challenge_window_ms]
           esc == [b.esc EXCEPT !.claim = claim, !.state = "claimed"]
<1>1. /\ b.esc.payee_id = Provider /\ b.esc.state = "open"
      /\ amount <= Remaining(b.esc)
  BY DEF Agent!ClaimCode, Agent!ClaimCovered, Agent!Remaining, Remaining
<1>2. claim \in Agent!Claim /\ claim.amount_cu = amount
  BY DEF EscrowOK, Agent!Escrow, Agent!Claim
<1>3. Agent!Claimed(b, amount, t) = [b EXCEPT !.esc = esc]
  BY DEF Agent!Claimed
<1> HIDE DEF claim
<1>4. esc.claim # None
  BY <1>2, NoneAssumption DEF EscrowOK, Agent!Escrow
<1>5. EscrowOK(esc) /\ Keeps(b.esc, esc)
  <2>1. /\ esc \in Agent!Escrow /\ esc.claim = claim /\ esc.state = "claimed"
        /\ esc.escrow_id = b.esc.escrow_id /\ esc.buyer_id = b.esc.buyer_id
        /\ esc.payee_id = Provider /\ Remaining(esc) = Remaining(b.esc)
        /\ esc.had_settlement = b.esc.had_settlement /\ esc.expired = b.esc.expired
    BY <1>1, <1>2 DEF EscrowOK, Remaining, Agent!Escrow, Agent!EscrowState
  <2> HIDE DEF esc
  <2>2. EscrowOK(esc)
    BY <1>1, <1>2, <1>4, <2>1 DEF EscrowOK
  <2> QED BY <2>1, <2>2 DEF Keeps
<1> HIDE DEF esc
<1> QED BY <1>3, <1>5, ReplaceEscrow

LEMMA DisputedOK ==
    ASSUME NEW b, IsBook(b), EscrowOK(b.esc), Agent!DisputeCode(b.esc, Buyer) = "ok"
    PROVE  LET c == Agent!Disputed(b) IN
           IsBook(c) /\ EscrowOK(c.esc) /\ Keeps(b.esc, c.esc)
<1> DEFINE esc == [b.esc EXCEPT !.dispute = TRUE, !.state = "disputed"]
<1>1. EscrowOK(esc) /\ Keeps(b.esc, esc)
  BY DEF Agent!DisputeCode, EscrowOK, Keeps, Remaining, Agent!Escrow, Agent!EscrowState
<1>2. Agent!Disputed(b) = [b EXCEPT !.esc = esc]
  BY DEF Agent!Disputed
<1> HIDE DEF esc
<1> QED BY <1>1, <1>2, ReplaceEscrow
--------------------------------------------------------------------------------
(* The inductive invariant *)

UnderWay == {"covering", "working", "done"}

\* What the requests to the agent carry.
SentOK ==
    \A r \in sent :
      /\ r.op[1] \in {"release", "claim"} => r.amount \in Nat
      /\ r.op[1] \in {"reclaim", "giveup"} => r.amount = None

AgentOK ==
    /\ now \in Nat
    /\ escrows \in [{E} -> Agent!Escrow \cup {None}]
    /\ Esc # None => EscrowOK(Esc)

\* Work was accepted only on an escrow that exists.
Covered == \A t \in TaskIds : Accepted(t) => Esc # None

\* Until the first settlement or the end of the lock, what a task costs is bound to the
\* provider.
WorkIsCovered ==
    \A t \in TaskIds :
      Accepted(t) /\ ~Esc.had_settlement /\ ~Esc.expired =>
        /\ Esc.payee_id = Provider
        /\ Esc.state # "closed"
        /\ Agent!Remaining(Esc) >= job[t].cost

\* Nothing was sent or agreed to before the offer came.
NothingAgreed ==
    buyer.at = "start" =>
      /\ offer = None /\ acks = <<>> /\ sent = {}
      /\ \A t \in TaskIds : job[t].state = "none"

\* One positive ack, at the price of the offer, and only for an offer the provider
\* has forgotten or marked.
AcksOK ==
    /\ \A i \in DOMAIN acks : acks[i].code = "ok" =>
         /\ acks[i].price = buyer.offer.price
         /\ offer = None \/ offer.accepted
    /\ \A i, j \in DOMAIN acks : acks[i].code = "ok" /\ acks[j].code = "ok" => i = j

\* The price offered is the one the provider keeps, the buyer accepted and no task
\* exceeds.
PriceOK ==
    /\ offer # None => offer.price = buyer.offer.price
    /\ buyer.at \in {"accepted", "binding", "trading"} => buyer.price = buyer.offer.price
    /\ \A t \in TaskIds :
         /\ job[t].state # "none" => buyer.price = buyer.offer.price
         /\ job[t].state \in UnderWay => job[t].cost <= buyer.offer.price

Inv ==
    /\ TypeOK /\ SentOK /\ AgentOK /\ Covered /\ NothingAgreed /\ AcksOK /\ PriceOK
    /\ WorkIsCovered

--------------------------------------------------------------------------------
(* The steps of the agent *)

\* What a step of the agent means for the escrow.
EscrowStep ==
    /\ AgentOK'
    /\ Esc # None => Esc' # None /\ Keeps(Esc, Esc')

LEMMA ResolvedOK ==
    ASSUME AgentOK, Esc # None
    PROVE  LET b == Agent!Resolved(E) IN
           IsBook(b) /\ EscrowOK(b.esc) /\ Keeps(Esc, b.esc)
<1>1. IsBook(Agent!Book(E)) /\ Agent!Book(E).esc = Esc
  BY DEF Agent!Book, IsBook, Esc
<1> QED BY <1>1, EffectiveStateOK DEF AgentOK, Agent!Resolved

\* A book written back is the next state of the escrow.
LEMMA CommitOK ==
    ASSUME AgentOK, Esc # None, NEW b, IsBook(b), EscrowOK(b.esc), Keeps(Esc, b.esc),
           Agent!Commit(b), now' = now
    PROVE  EscrowStep
<1>1. b.esc \in Agent!Escrow /\ b.esc.escrow_id = E
  BY DEF EscrowOK
<1>2. escrows' = [escrows EXCEPT ![E] = b.esc]
  BY <1>1 DEF Agent!Commit
<1>3. Esc' = b.esc
  BY <1>2 DEF AgentOK, Esc
<1>4. AgentOK'
  BY <1>1, <1>2, <1>3 DEF AgentOK
<1> QED BY <1>1, <1>3, <1>4, NoneAssumption DEF EscrowStep

\* The end of a handler: it goes on from the book that _effective_state left, or it
\* refuses the request and keeps that book.
LEMMA AnswerOK ==
    ASSUME AgentOK, Esc # None, NEW op, NEW code, NEW outcome, NEW c,
           IsBook(c), EscrowOK(c.esc), Keeps(Agent!Resolved(E).esc, c.esc),
           Agent!Answer(E, op, code, outcome, c)
    PROVE  EscrowStep
<1>1. Agent!Commit(c) /\ now' = now
  BY DEF Agent!Answer
<1>2. Keeps(Esc, c.esc)
  BY ResolvedOK, KeepsTransitive DEF AgentOK
<1> QED BY <1>1, <1>2, CommitOK

LEMMA KeepsItself == \A esc : Keeps(esc, esc)
BY DEF Keeps

LEMMA HandleOK ==
    ASSUME AgentOK, SentOK, sent \subseteq Request, NEW r \in sent, Handle(r)
    PROVE  EscrowStep
<1> DEFINE b == Agent!Resolved(E)
<1>1. r.op \in OpRefs /\ Esc # None
  BY DEF Handle, Agent!Bind, Agent!Release, Agent!Reclaim, Agent!ClaimOp, Agent!Dispute,
     Agent!Fresh, Esc
<1>2. IsBook(b) /\ EscrowOK(b.esc)
  BY <1>1, ResolvedOK
<1> HIDE DEF b
<1>3. CASE r.op[1] = "bind"
  <2> DEFINE code == Agent!BindCode(b.esc, Buyer)
             c == IF code = "ok" THEN Agent!Bound(b, Provider, None) ELSE b
  <2>1. Agent!Answer(E, r.op, code, Agent!Result("bind", 0), c)
    BY <1>3 DEF Handle, Agent!Bind, b
  <2>2. IsBook(c) /\ EscrowOK(c.esc) /\ Keeps(b.esc, c.esc)
    BY <1>2, BoundOK, KeepsItself
  <2> HIDE DEF code, c
  <2> QED BY <1>1, <2>1, <2>2, AnswerOK DEF b
<1>4. CASE r.op[1] = "release"
  <2> DEFINE code == Agent!ReleaseCode(b.esc, Buyer, r.amount, Provider)
             c == IF code = "ok" THEN Agent!Released(b, r.op, r.amount, Provider) ELSE b
  <2>1. Agent!Answer(E, r.op, code, Agent!Result("release", r.amount), c)
    BY <1>4 DEF Handle, Agent!Release, b
  <2>2. r.amount \in Nat
    BY <1>4 DEF SentOK
  <2>3. IsBook(c) /\ EscrowOK(c.esc) /\ Keeps(b.esc, c.esc)
    BY <1>2, <2>2, ReleasedOK, KeepsItself
  <2> HIDE DEF code, c
  <2> QED BY <1>1, <2>1, <2>3, AnswerOK DEF b
<1>5. CASE r.op[1] \in {"reclaim", "giveup"}
  <2> DEFINE code == Agent!ReclaimCode(b.esc, Buyer, None)
             amount == Agent!Remaining(b.esc)
             c == IF code = "ok" THEN Agent!Reclaimed(b, r.op, amount) ELSE b
  <2>1. r.amount = None
    BY <1>5 DEF SentOK
  <2>2. Agent!Answer(E, r.op, code, Agent!Result("reclaim", amount), c)
    BY <1>5, <2>1 DEF Handle, Agent!Reclaim, b
  <2>3. IsBook(c) /\ EscrowOK(c.esc) /\ Keeps(b.esc, c.esc)
    BY <1>2, ReclaimedOK, KeepsItself
  <2> HIDE DEF code, c
  <2> QED BY <1>1, <2>2, <2>3, AnswerOK DEF b
<1>6. CASE r.op[1] = "claim"
  <2> DEFINE code == Agent!ClaimCode(b.esc, Provider, r.amount)
             c == IF code = "ok" THEN Agent!Claimed(b, r.amount, r.op[2]) ELSE b
  <2>1. Agent!Answer(E, r.op, code, Agent!Result("claim", 0), c)
    BY <1>6 DEF Handle, Agent!ClaimOp, b
  <2>2. r.amount \in Nat /\ now \in Nat
    BY <1>6 DEF SentOK, AgentOK
  <2>3. r.op[2] \in TaskIds
    BY <1>1, <1>6 DEF OpRefs
  <2>4. IsBook(c) /\ EscrowOK(c.esc) /\ Keeps(b.esc, c.esc)
    BY <1>2, <2>2, <2>3, ClaimedOK, KeepsItself
  <2> HIDE DEF code, c
  <2> QED BY <1>1, <2>1, <2>4, AnswerOK DEF b
<1>7. CASE r.op[1] = "dispute"
  <2> DEFINE code == Agent!DisputeCode(b.esc, Buyer)
             c == IF code = "ok" THEN Agent!Disputed(b) ELSE b
  <2>1. Agent!Answer(E, r.op, code, Agent!Result("dispute", 0), c)
    BY <1>7 DEF Handle, Agent!Dispute, b
  <2>2. IsBook(c) /\ EscrowOK(c.esc) /\ Keeps(b.esc, c.esc)
    BY <1>2, DisputedOK, KeepsItself
  <2> HIDE DEF code, c
  <2> QED BY <1>1, <2>1, <2>2, AnswerOK DEF b
<1> QED BY <1>3, <1>4, <1>5, <1>6, <1>7 DEF Handle

LEMMA HandleLockOK ==
    ASSUME AgentOK, sent \subseteq Request, NEW r \in sent, HandleLock(r)
    PROVE  EscrowStep /\ Esc' # None
<1> DEFINE new == Agent!NewEscrow(E, Buyer, Budget, r.until, None, None)
<1>1. r.until \in Nat
  BY DEF HandleLock, Request, LockRef, OpRefs, AcceptRef
<1>2. Esc = None /\ escrows' = [escrows EXCEPT ![E] = new] /\ now' = now
  BY DEF HandleLock, Agent!Lock, Esc
<1>3. new = [escrow_id |-> E, buyer_id |-> Buyer, locked_cu |-> Budget,
             valid_until_ms |-> r.until, challenge_window_ms |-> DefaultWindow,
             state |-> "open", released_cu |-> 0, reclaimed_cu |-> 0,
             payee_id |-> None, claim |-> None, dispute |-> FALSE,
             had_settlement |-> FALSE, expired |-> FALSE]
  BY DEF Agent!NewEscrow
<1> HIDE DEF new
<1>4. new \in Agent!Escrow
  BY <1>1, <1>3, PricesAssumption, TimesAssumption DEF Agent!Escrow, Agent!EscrowState
<1>5. EscrowOK(new)
  BY <1>3, <1>4, PricesAssumption DEF EscrowOK, Remaining
<1>6. Esc' = new
  BY <1>2 DEF AgentOK, Esc
<1>7. AgentOK'
  BY <1>2, <1>4, <1>5, <1>6 DEF AgentOK
<1> QED BY <1>2, <1>4, <1>6, <1>7, NoneAssumption DEF EscrowStep

LEMMA StatusOK ==
    ASSUME AgentOK, Agent!Status(E)
    PROVE  EscrowStep /\ Esc' = Agent!Resolved(E).esc
<1>1. Esc # None /\ Agent!Commit(Agent!Resolved(E)) /\ now' = now
  BY DEF Agent!Status, Esc
<1>2. EscrowOK(Agent!Resolved(E).esc)
  BY <1>1, ResolvedOK
<1>3. EscrowStep
  BY <1>1, ResolvedOK, CommitOK
<1>4. Esc' = Agent!Resolved(E).esc
  BY <1>1, <1>2 DEF EscrowOK, Agent!Commit, AgentOK, Esc
<1> QED BY <1>3, <1>4

LEMMA AgentStepsOK ==
    ASSUME AgentOK, SentOK, sent \subseteq Request, AgentSteps \/ UNCHANGED agent
    PROVE  EscrowStep
<1>1. CASE Agent!Tick
  BY <1>1, KeepsItself DEF Agent!Tick, AgentOK, EscrowStep, Esc
<1>2. CASE UNCHANGED agent
  BY <1>2, KeepsItself DEF agent, AgentOK, EscrowStep, Esc
<1> QED BY <1>1, <1>2, HandleOK, HandleLockOK, StatusOK DEF AgentSteps

\* What the agent does keeps what is covered.
LEMMA StillCovered ==
    ASSUME AgentOK, EscrowStep, Covered, WorkIsCovered, NEW t \in TaskIds,
           Accepted(t), job'[t].cost = job[t].cost,
           ~Esc'.had_settlement, ~Esc'.expired
    PROVE  /\ Esc'.payee_id = Provider
           /\ Esc'.state # "closed"
           /\ Agent!Remaining(Esc') >= job'[t].cost
<1>1. Esc # None /\ Esc' # None /\ Keeps(Esc, Esc') /\ EscrowOK(Esc)
  BY DEF Covered, EscrowStep, AgentOK
<1>2. ~Esc.had_settlement /\ ~Esc.expired
  BY <1>1 DEF Keeps
<1>3. /\ Esc.payee_id = Provider /\ Esc.state # "closed"
      /\ Agent!Remaining(Esc) >= job[t].cost
  BY <1>2 DEF WorkIsCovered
<1> QED BY <1>1, <1>3 DEF Keeps, Remaining, Agent!Remaining

--------------------------------------------------------------------------------
(* The invariant is inductive *)

LEMMA InitInv == Init => Inv
<1> SUFFICES ASSUME Init PROVE Inv
  OBVIOUS
<1>1. escrows = [e \in {E} |-> None] /\ now = 0 /\ Esc = None
  BY DEF Init, Agent!Init, Esc
<1>2. TypeOK
  BY DEF Init, TypeOK, Offer, Step, JobState
<1>3. AgentOK /\ SentOK
  BY <1>1 DEF Init, AgentOK, SentOK
<1>4. Covered /\ WorkIsCovered
  BY DEF Init, Covered, WorkIsCovered, Accepted
<1>5. NothingAgreed /\ AcksOK /\ PriceOK
  BY DEF Init, NothingAgreed, AcksOK, PriceOK, UnderWay
<1> QED BY <1>2, <1>3, <1>4, <1>5 DEF Inv

\* Steps of the negotiation keep the terms.
Terms == NothingAgreed /\ AcksOK /\ PriceOK

LEMMA NegotiationTerms ==
    ASSUME Inv, RequestOffer \/ HandleAccept \/ AcceptAnswered \/ Reconnect \/ Reprice
    PROVE  TypeOK' /\ Terms'
<1> USE DEF Inv, Terms
<1>1. CASE RequestOffer
  <2>1. PICK request \in OfferRequest :
          IF price > request.max_price_cu
          THEN Goto("stopped") /\ UNCHANGED offer
          ELSE LET until == now + Validity(request.offer_valid_ms) IN
               /\ offer' = [price |-> price, valid_until |-> until, accepted |-> FALSE]
               /\ buyer' = [buyer EXCEPT !.at = "offered",
                              !.offer = [price |-> price, valid_until |-> until]]
    BY <1>1, Zenon DEF RequestOffer
  <2> DEFINE until == now + Validity(request.offer_valid_ms)
  <2>2. /\ buyer.at = "start" /\ offer = None /\ acks = <<>> /\ sent = {}
        /\ \A t \in TaskIds : job[t].state = "none"
        /\ UNCHANGED <<price, acks, sent, job>>
    BY <1>1 DEF RequestOffer, NothingAgreed
  <2>3. until \in Int
    <3>1. request.offer_valid_ms \in Validities \cup {None}
      BY DEF OfferRequest
    <3>2. DefaultValidity \in Int /\ \A v \in Validities : v \in Int
      BY TimesAssumption
    <3>3. Validity(request.offer_valid_ms) \in {DefaultValidity} \cup Validities
      BY <3>1, Zenon DEF Validity
    <3> QED BY <3>2, <3>3 DEF AgentOK
  <2>4. CASE price > request.max_price_cu
    <3>1. buyer' = [buyer EXCEPT !.at = "stopped"] /\ offer' = offer
      BY <2>1, <2>4 DEF Goto
    <3>2. TypeOK'
      BY <2>2, <3>1 DEF TypeOK, Step
    <3>3. buyer'.at = "stopped"
      BY <3>1 DEF TypeOK
    <3> QED BY <2>2, <3>1, <3>2, <3>3 DEF NothingAgreed, AcksOK, PriceOK, UnderWay
  <2>5. CASE ~(price > request.max_price_cu)
    <3> HIDE DEF until
    <3>1. /\ offer' = [price |-> price, valid_until |-> until, accepted |-> FALSE]
          /\ buyer' = [buyer EXCEPT !.at = "offered",
                         !.offer = [price |-> price, valid_until |-> until]]
      BY <2>1, <2>5 DEF until
    <3>2. TypeOK'
      BY <2>2, <2>3, <3>1 DEF TypeOK, Step, Offer, OfferRecord
    <3>3. buyer'.at = "offered" /\ buyer'.offer.price = price
      BY <3>1 DEF TypeOK
    <3> QED BY <2>2, <3>1, <3>2, <3>3 DEF NothingAgreed, AcksOK, PriceOK, UnderWay
  <2> QED BY <2>4, <2>5
<1>2. CASE HandleAccept
  <2> DEFINE ack == [code |-> AcceptVerdict,
                     price |-> IF AcceptVerdict = "ok" THEN offer.price ELSE None]
  <2>1. /\ acks' = Append(acks, ack) /\ sent # {}
        /\ offer' = IF AcceptVerdict = "ok" THEN [offer EXCEPT !.accepted = TRUE] ELSE offer
        /\ UNCHANGED <<price, sent, buyer, job>>
    BY <1>2 DEF HandleAccept
  <2>2. AcceptVerdict = "ok" => offer # None /\ ~offer.accepted /\ offer \in OfferRecord
    BY DEF AcceptVerdict, TypeOK
  <2>3. ack \in Ack /\ offer' \in OfferRecord \cup {None}
    BY <2>1, <2>2 DEF Ack, AcceptCode, AcceptVerdict, OfferRecord, TypeOK
  <2>4. TypeOK'
    BY <2>1, <2>3 DEF TypeOK
  <2>5. /\ DOMAIN acks' = 1 .. Len(acks) + 1 /\ DOMAIN acks = 1 .. Len(acks)
        /\ \A i \in DOMAIN acks : acks'[i] = acks[i]
        /\ acks'[Len(acks) + 1] = ack
    BY <2>1, <2>3 DEF TypeOK
  <2>6. ack.code = AcceptVerdict /\ (AcceptVerdict = "ok" => ack.price = offer.price)
    OBVIOUS
  <2>7. AcceptVerdict = "ok" =>
          /\ offer'.accepted /\ offer'.price = offer.price
          /\ \A i \in DOMAIN acks : acks[i].code # "ok"
    BY <2>1, <2>2 DEF OfferRecord, AcksOK
  <2> HIDE DEF ack
  <2>8. Len(acks) \in Nat
    BY DEF TypeOK
  <2>9. PriceOK'
    BY <2>1, <2>2, <2>7 DEF PriceOK
  <2>10. AcksOK'
    BY <2>1, <2>2, <2>5, <2>6, <2>7, <2>8 DEF AcksOK, PriceOK
  <2>11. NothingAgreed'
    BY <2>1 DEF NothingAgreed
  <2> QED BY <2>4, <2>9, <2>10, <2>11
<1>3. CASE AcceptAnswered
  <2>1. PICK i \in DOMAIN acks :
          buyer' = IF acks[i].code = "ok"
                   THEN [buyer EXCEPT !.at = "accepted", !.price = acks[i].price]
                   ELSE [buyer EXCEPT !.at = "stopped"]
    BY <1>3, Zenon DEF AcceptAnswered
  <2>2. buyer.at = "accepting" /\ UNCHANGED <<price, offer, acks, sent, job>>
    BY <1>3 DEF AcceptAnswered
  <2>3. acks[i] \in Ack
    BY DEF TypeOK
  <2>4. TypeOK'
    BY <2>1, <2>2, <2>3 DEF TypeOK, Step, Ack
  <2>5. /\ buyer'.at \in {"accepted", "stopped"} /\ buyer'.offer = buyer.offer
        /\ buyer'.price = buyer.price \/ buyer'.price = buyer.offer.price
        /\ buyer'.at = "accepted" => buyer'.price = buyer.offer.price
    BY <2>1, <2>3 DEF TypeOK, AcksOK
  <2> QED BY <2>2, <2>4, <2>5 DEF NothingAgreed, AcksOK, PriceOK
<1>4. CASE Reconnect \/ Reprice
  BY <1>4 DEF Reconnect, Reprice, TypeOK, NothingAgreed, AcksOK, PriceOK
<1> QED BY <1>1, <1>2, <1>3, <1>4

\* The other steps of the buyer's program send a request at most and move it on.
LEMMA ProgramTerms ==
    ASSUME Inv, UNCHANGED <<price, offer, acks, job>>,
           NEW requests \in SUBSET Request, sent' = sent \cup requests,
           NEW at \in Step, buyer' = [buyer EXCEPT !.at = at],
           buyer.at # "start",
           at = buyer.at \/ at \notin {"start", "accepted"},
           at \in {"binding", "trading"} => buyer.at \in {"accepted", "binding", "trading"}
    PROVE  TypeOK' /\ Terms'
<1> USE DEF Inv, Terms
<1>1. buyer'.at = at /\ buyer'.offer = buyer.offer /\ buyer'.price = buyer.price
  BY DEF TypeOK
<1>2. TypeOK'
  BY DEF TypeOK
<1> QED BY <1>1, <1>2 DEF NothingAgreed, AcksOK, PriceOK

\* Nothing is sent for a task that has no price, and every request is well formed.
LEMMA Requests ==
    /\ \A t \in TaskIds, amount \in Nat :
         /\ [op |-> <<"release", t>>, amount |-> amount] \in Request
         /\ [op |-> <<"claim", t>>, amount |-> amount] \in Request
    /\ \A method \in {"bind", "dispute", "reclaim", "giveup"} :
         [op |-> <<method, None>>, amount |-> None] \in Request
    /\ \A until \in Nat : [op |-> LockRef, until |-> until] \in Request
    /\ [op |-> AcceptRef] \in Request
BY DEF Request, OpRefs

\* The program's own steps.
Program ==
    \/ SendLock \/ LockAnswered \/ SendAccept \/ SendBind \/ BindAnswered
    \/ SendReclaim \/ ReclaimAnswered \/ GiveUp

Pays(t) == SendRelease(t) \/ SendDispute(t) \/ SendClaim(t)

LEMMA ProgramOK == Inv /\ Program => TypeOK' /\ Terms' /\ SentOK'
<1> SUFFICES ASSUME Inv, Program PROVE TypeOK' /\ Terms' /\ SentOK'
  OBVIOUS
<1>1. ASSUME NEW request \in Request, Send(request), NEW at \in Step, Goto(at),
             buyer.at # "start", at \notin {"start", "accepted"},
             at \in {"binding", "trading"} => buyer.at \in {"accepted", "binding", "trading"},
             UNCHANGED <<price, offer, acks, job>>,
             request.op[1] \notin {"release", "claim"},
             request.op[1] \in {"reclaim", "giveup"} => request.amount = None
      PROVE  TypeOK' /\ Terms' /\ SentOK'
  <2>1. sent' = sent \cup {request} /\ {request} \in SUBSET Request
    BY <1>1 DEF Send
  <2>2. buyer' = [buyer EXCEPT !.at = at]
    BY <1>1 DEF Goto
  <2>3. SentOK'
    BY <1>1, <2>1 DEF SentOK, Inv
  <2> QED BY <1>1, <2>1, <2>2, <2>3, ProgramTerms
<1>2. ASSUME NEW at \in Step, Goto(at), UNCHANGED <<price, offer, acks, job, sent>>,
             buyer.at # "start", at \notin {"start", "accepted"},
             at \in {"binding", "trading"} => buyer.at \in {"accepted", "binding", "trading"}
      PROVE  TypeOK' /\ Terms' /\ SentOK'
  <2>1. sent' = sent \cup {} /\ {} \in SUBSET Request
    BY <1>2
  <2>2. buyer' = [buyer EXCEPT !.at = at]
    BY <1>2 DEF Goto
  <2>3. SentOK'
    BY <1>2 DEF SentOK, Inv
  <2> QED BY <1>2, <2>1, <2>2, <2>3, ProgramTerms
<1>3. CASE SendLock
  <2>1. now + LockTime \in Nat
    BY TimesAssumption DEF Inv, AgentOK
  <2>2. [op |-> LockRef, until |-> now + LockTime] \in Request
    BY <2>1, Requests
  <2> QED BY <1>1, <1>3, <2>2 DEF SendLock, Step, LockRef
<1>4. CASE SendAccept
  BY <1>1, <1>4, Requests DEF SendAccept, Step, AcceptRef
<1>5. CASE SendBind \/ SendReclaim \/ GiveUp
  <2>1. buyer.at # "start"
    BY <1>5 DEF SendBind, SendReclaim, GiveUp
  <2>2. CASE SendBind
    BY <1>1, <2>1, <2>2, Requests DEF SendBind, Step
  <2>3. CASE SendReclaim
    BY <1>1, <2>1, <2>3, Requests DEF SendReclaim, Step
  <2>4. CASE GiveUp
    BY <1>1, <2>1, <2>4, Requests DEF GiveUp, Step
  <2> QED BY <1>5, <2>2, <2>3, <2>4
<1>6. CASE LockAnswered
  BY <1>2, <1>6 DEF LockAnswered, Step
<1>7. CASE BindAnswered
  BY <1>2, <1>7 DEF BindAnswered, Step
<1>8. CASE ReclaimAnswered
  BY <1>2, <1>8 DEF ReclaimAnswered, Step
<1> QED BY <1>3, <1>4, <1>5, <1>6, <1>7, <1>8 DEF Program

LEMMA PaysOK ==
    ASSUME Inv, NEW t \in TaskIds, Pays(t)
    PROVE  TypeOK' /\ Terms' /\ SentOK'
<1>1. buyer.at # "start" /\ buyer.at \in Step /\ UNCHANGED <<price, offer, acks, buyer, job>>
  <2>1. CASE SendClaim(t)
    BY <2>1 DEF SendClaim, Inv, NothingAgreed, TypeOK
  <2>2. CASE SendRelease(t) \/ SendDispute(t)
    BY <2>2 DEF SendRelease, SendDispute, Inv, TypeOK
  <2> QED BY <2>1, <2>2 DEF Pays
<1>2. buyer' = [buyer EXCEPT !.at = buyer.at]
  BY <1>1 DEF Inv, TypeOK
<1>3. ASSUME NEW request \in Request, Send(request),
             request.op[1] \in {"release", "claim"} => request.amount \in Nat,
             request.op[1] \notin {"reclaim", "giveup"}
      PROVE  TypeOK' /\ Terms' /\ SentOK'
  <2>1. sent' = sent \cup {request} /\ {request} \in SUBSET Request
    BY <1>3 DEF Send
  <2>2. SentOK'
    BY <1>3, <2>1 DEF SentOK, Inv
  <2>3. TypeOK' /\ Terms'
    BY <1>1, <1>2, <2>1, ProgramTerms
  <2> QED BY <2>2, <2>3
<1>4. CASE SendDispute(t)
  BY <1>3, <1>4, Requests DEF SendDispute
<1>5. CASE SendRelease(t) \/ SendClaim(t)
  <2>1. job[t].cost \in Nat
    BY <1>5, PricesAssumption DEF SendRelease, SendClaim, Inv, TypeOK
  <2> QED BY <1>3, <1>5, <2>1, Requests DEF SendRelease, SendClaim
<1> QED BY <1>4, <1>5 DEF Pays

\* The steps of a task: its price is fixed within the agreed one, and stays.
LEMMA JobTerms ==
    ASSUME Inv, NEW t \in TaskIds, UNCHANGED <<price, offer, acks, sent, buyer>>,
           buyer.at # "start",
           NEW state \in JobState, NEW cost \in Prices \cup {None},
           job' = [job EXCEPT ![t] = [state |-> state, cost |-> cost]],
           state \in UnderWay => cost # None /\ cost <= buyer.offer.price,
           buyer.price = buyer.offer.price
    PROVE  TypeOK' /\ Terms' /\ SentOK'
<1> USE DEF Inv, Terms
<1>1. \A u \in TaskIds : job'[u] = IF u = t THEN [state |-> state, cost |-> cost]
                                           ELSE job[u]
  BY DEF TypeOK
<1>2. TypeOK'
  BY <1>1 DEF TypeOK, UnderWay
<1>3. PriceOK'
  BY <1>1 DEF PriceOK
<1> QED BY <1>2, <1>3 DEF NothingAgreed, AcksOK, SentOK

\* A task that moves on keeps its price.
LEMMA MovesOn ==
    ASSUME NEW t \in TaskIds, NEW state,
           NEW f \in [TaskIds -> [state : JobState, cost : Prices \cup {None}]]
    PROVE  [f EXCEPT ![t].state = state] =
             [f EXCEPT ![t] = [state |-> state, cost |-> f[t].cost]]
<1>1. [f[t] EXCEPT !.state = state] = [state |-> state, cost |-> f[t].cost]
  <2>1. f[t] \in [state : JobState, cost : Prices \cup {None}]
    OBVIOUS
  <2> HIDE DEF JobState
  <2> QED BY <2>1
<1> QED BY <1>1, Zenon

\* The steps of a task that do not ask the agent.
LEMMA JobOK ==
    ASSUME Inv, NEW t \in TaskIds, Invoke(t) \/ CheckPrice(t) \/ Work(t)
    PROVE  /\ TypeOK' /\ Terms' /\ SentOK'
           /\ \A u \in TaskIds : Accepted(u)' =>
                Accepted(u) /\ job'[u].cost = job[u].cost
<1> USE DEF Inv
<1>1. /\ job \in [TaskIds -> [state : JobState, cost : Prices \cup {None}]]
      /\ job[t] \in [state : JobState, cost : Prices \cup {None}]
  BY DEF TypeOK
<1>2. /\ buyer.at # "start" /\ buyer.price = buyer.offer.price
      /\ UNCHANGED <<price, offer, acks, sent, buyer>>
  BY DEF Invoke, CheckPrice, Work, NothingAgreed, PriceOK
<1>3. PICK state \in JobState, cost \in Prices \cup {None} :
        /\ job' = [job EXCEPT ![t] = [state |-> state, cost |-> cost]]
        /\ state \in UnderWay => cost # None /\ cost <= buyer.offer.price
        /\ state \in {"working", "done"} => Accepted(t) /\ cost = job[t].cost
  <2>1. CASE Invoke(t)
    <3>1. job' = [job EXCEPT ![t] = [state |-> "invoked", cost |-> job[t].cost]]
      <4>1. job' = [job EXCEPT ![t].state = "invoked"]
        BY <2>1 DEF Invoke
      <4> QED BY <1>1, <4>1, MovesOn
    <3> QED BY <1>1, <3>1 DEF JobState, UnderWay
  <2>2. CASE CheckPrice(t)
    <3>1. CASE WithinBudget
      <4>1. job' = [job EXCEPT ![t] = [state |-> "covering", cost |-> price]]
        BY <2>2, <3>1 DEF CheckPrice
      <4>2. price \in Prices /\ price <= buyer.offer.price
        BY <1>2, <3>1 DEF WithinBudget, TypeOK
      <4>3. price # None
        BY <4>2, NoneAssumption
      <4> QED BY <4>1, <4>2, <4>3 DEF JobState, UnderWay
    <3>2. CASE ~WithinBudget
      <4>1. job' = [job EXCEPT ![t] = [state |-> "refused", cost |-> job[t].cost]]
        <5>1. job' = [job EXCEPT ![t].state = "refused"]
          BY <2>2, <3>2 DEF CheckPrice
        <5> QED BY <1>1, <5>1, MovesOn
      <4> QED BY <1>1, <4>1 DEF JobState, UnderWay
    <3> QED BY <3>1, <3>2
  <2>3. CASE Work(t)
    <3>1. job' = [job EXCEPT ![t] = [state |-> "done", cost |-> job[t].cost]]
      BY <2>3 DEF Work, Cost
    <3>2. job[t].state = "working" /\ job[t].cost # None /\ job[t].cost <= buyer.offer.price
      BY <2>3 DEF Work, PriceOK, UnderWay, TypeOK
    <3> QED BY <1>1, <3>1, <3>2 DEF JobState, UnderWay, Accepted
  <2> QED BY <2>1, <2>2, <2>3
<1>4. TypeOK' /\ Terms' /\ SentOK'
  BY <1>2, <1>3, JobTerms
<1>5. \A u \in TaskIds : job'[u] = IF u = t THEN [state |-> state, cost |-> cost]
                                           ELSE job[u]
  BY <1>1, <1>3
<1> QED BY <1>3, <1>4, <1>5 DEF Accepted

\* The status that covers() asks for shows an escrow that is bound to the provider
\* and holds what the task costs.
LEMMA CheckCoversOK ==
    ASSUME Inv, NEW t \in TaskIds, CheckCovers(t)
    PROVE  Inv'
<1> DEFINE seen == Agent!Resolved(E)
           state == IF Covers(seen, job[t].cost) THEN "working" ELSE "refused"
<1> USE DEF Inv
<1>1. EscrowStep /\ Esc' = seen.esc /\ Esc # None
  BY StatusOK DEF CheckCovers, Agent!Status, Esc
<1> HIDE DEF seen
<1>2. /\ job[t].state = "covering" /\ UNCHANGED <<price, offer, acks, sent, buyer>>
      /\ job' = [job EXCEPT ![t].state = state]
  BY DEF CheckCovers, seen
<1>3. /\ job \in [TaskIds -> [state : JobState, cost : Prices \cup {None}]]
      /\ job[t] \in [state : JobState, cost : Prices \cup {None}] /\ job[t].cost # None
  BY <1>2 DEF TypeOK
<1>4. job' = [job EXCEPT ![t] = [state |-> state, cost |-> job[t].cost]]
  BY <1>2, <1>3, MovesOn, Zenon
<1>5. \A u \in TaskIds : job'[u] = IF u = t THEN [state |-> state, cost |-> job[t].cost]
                                           ELSE job[u]
  BY <1>4 DEF TypeOK
<1>6. /\ buyer.at # "start" /\ buyer.price = buyer.offer.price
      /\ job[t].cost <= buyer.offer.price
  BY <1>2 DEF NothingAgreed, PriceOK, UnderWay
<1>7. TypeOK' /\ Terms' /\ SentOK'
  <2>1. state \in JobState
    BY DEF JobState
  <2> HIDE DEF state, Inv
  <2>2. job[t].cost \in Prices \cup {None}
    BY <1>3
  <2>3. state \in UnderWay => job[t].cost # None /\ job[t].cost <= buyer.offer.price
    BY <1>3, <1>6
  <2>4. UNCHANGED <<price, offer, acks, sent, buyer>>
    BY <1>2
  <2> QED BY <1>4, <1>6, <2>1, <2>2, <2>3, <2>4, JobTerms, Zenon
<1>8. AgentOK' /\ Covered'
  BY <1>1, <1>2, <1>5 DEF EscrowStep, Covered
<1>9. WorkIsCovered'
  <2> SUFFICES ASSUME NEW u \in TaskIds, Accepted(u)',
                      ~Esc'.had_settlement, ~Esc'.expired
               PROVE  /\ Esc'.payee_id = Provider
                      /\ Esc'.state # "closed"
                      /\ Agent!Remaining(Esc') >= job'[u].cost
    BY DEF WorkIsCovered
  <2>1. CASE u # t
    BY <1>1, <1>5, <2>1, StillCovered DEF Accepted
  <2>2. CASE u = t
    <3>1. Covers(seen, job[t].cost)
      BY <1>5, <2>2 DEF Accepted
    <3>2. EscrowOK(Esc') /\ job'[t].cost = job[t].cost
      BY <1>1, <1>5 DEF EscrowStep, AgentOK
    <3>3. job[t].cost \in Nat \ {0}
      BY <1>3, PricesAssumption
    <3> QED BY <1>1, <2>2, <3>1, <3>2, <3>3, PartiesAssumption
            DEF Covers, EscrowOK, Agent!Remaining, Remaining
  <2> QED BY <2>1, <2>2
<1> QED BY <1>7, <1>8, <1>9 DEF Terms

\* A step that begins no work.
LEMMA OtherOK ==
    ASSUME Inv, TypeOK', Terms', SentOK', EscrowStep,
           \A u \in TaskIds : Accepted(u)' => Accepted(u) /\ job'[u].cost = job[u].cost
    PROVE  Inv'
<1>1. AgentOK' /\ Covered'
  BY DEF Inv, EscrowStep, Covered
<1>2. WorkIsCovered'
  BY StillCovered DEF WorkIsCovered, Inv
<1> QED BY <1>1, <1>2 DEF Inv, Terms

LEMMA NextInv == Inv /\ [Next]_vars => Inv'
<1> SUFFICES ASSUME Inv, [Next]_vars PROVE Inv'
  OBVIOUS
<1>1. ASSUME UNCHANGED <<agent, job>>, TypeOK', Terms', SentOK' PROVE Inv'
  BY <1>1, OtherOK, AgentStepsOK DEF Inv, Accepted, TypeOK
<1>2. CASE RequestOffer \/ HandleAccept \/ AcceptAnswered \/ Reconnect \/ Reprice
  <2>1. UNCHANGED <<agent, job>>
    BY <1>2 DEF RequestOffer, HandleAccept, AcceptAnswered, Reconnect, Reprice
  <2>2. SentOK'
    BY <1>2 DEF RequestOffer, HandleAccept, AcceptAnswered, Reconnect, Reprice, Inv, SentOK
  <2> QED BY <1>1, <1>2, <2>1, <2>2, NegotiationTerms
<1>3. CASE Program
  <2>1. UNCHANGED <<agent, job>>
    BY <1>3 DEF Program, SendLock, LockAnswered, SendAccept, SendBind, BindAnswered,
       SendReclaim, ReclaimAnswered, GiveUp
  <2> QED BY <1>1, <1>3, <2>1, ProgramOK
<1>4. ASSUME NEW t \in TaskIds, Pays(t) PROVE Inv'
  <2>1. UNCHANGED <<agent, job>>
    BY <1>4 DEF Pays, SendRelease, SendDispute, SendClaim
  <2> QED BY <1>1, <1>4, <2>1, PaysOK
<1>5. ASSUME NEW t \in TaskIds, Invoke(t) \/ CheckPrice(t) \/ Work(t) PROVE Inv'
  <2>1. UNCHANGED agent
    BY <1>5 DEF Invoke, CheckPrice, Work
  <2> QED BY <1>5, <2>1, JobOK, OtherOK, AgentStepsOK DEF Inv, TypeOK
<1>6. ASSUME NEW t \in TaskIds, CheckCovers(t) PROVE Inv'
  BY <1>6, CheckCoversOK
<1>7. CASE AgentSteps \/ UNCHANGED vars
  <2>1. UNCHANGED <<price, offer, acks, sent, buyer, job>>
    BY <1>7 DEF AgentSteps, vars
  <2>2. TypeOK' /\ Terms' /\ SentOK'
    BY <2>1 DEF Inv, TypeOK, Terms, NothingAgreed, AcksOK, PriceOK, SentOK
  <2>3. EscrowStep
    BY <1>7, AgentStepsOK DEF Inv, TypeOK, vars
  <2> QED BY <2>1, <2>2, <2>3, OtherOK DEF Accepted
<1> QED BY <1>2, <1>3, <1>4, <1>5, <1>6, <1>7
        DEF Next, Buys, Provides, Program, Pays

LEMMA Invariance == Spec => []Inv
BY InitInv, NextInv, PTL DEF Spec

--------------------------------------------------------------------------------

(* Every variable of a purchase keeps its type, and no task is under way without a
   price. *)
THEOREM TypeCorrect == Spec => []TypeOK
<1>1. Inv => TypeOK
  BY DEF Inv
<1> QED BY <1>1, Invariance, PTL

(* However often the accept is repeated, whenever it is handled and whatever happens
   to the price meanwhile, the terms of the offer hold (provider.py:552-575, 347). *)
THEOREM TermsAlwaysHold == Spec => []TermsHold
<1>1. Inv => TermsHold
  <2> SUFFICES ASSUME Inv PROVE TermsHold
    OBVIOUS
  <2> DEFINE positive == {i \in DOMAIN acks : acks[i].code = "ok"}
  <2>1. Cardinality(positive) <= 1
    <3>1. CASE positive = {}
      BY <3>1, FS_EmptySet
    <3>2. CASE positive # {}
      <4>1. PICK i : positive = {i}
        BY <3>2 DEF Inv, AcksOK
      <4> HIDE DEF positive
      <4> QED BY <4>1, FS_Singleton
    <3> QED BY <3>1, <3>2
  <2>2. \A i \in positive : acks[i].price = buyer.offer.price
    BY DEF Inv, AcksOK
  <2>3. \A t \in TaskIds : job[t].state = "done" => job[t].cost <= buyer.offer.price
    BY DEF Inv, PriceOK, UnderWay
  <2> QED BY <2>1, <2>2, <2>3 DEF TermsHold
<1> QED BY <1>1, Invariance, PTL

(* What covers() saw stays good for the provider: until the escrow settles something,
   runs out or is disputed, the cost of every task it began is there, and a claim of
   it would be accepted unless another is pending, whatever the buyer asks of the
   agent in between (provider.py:360, escrow.py:583-596, 535).  The escrow a claim
   finds is the one that _effective_state leaves, which keeps what is covered. *)
THEOREM CoveredWorkIsPayable == Spec => []WorkIsPayable
<1> DEFINE esc == Agent!Resolved(E).esc
<1>1. ASSUME Inv, NEW t \in TaskIds, Accepted(t),
             ~esc.expired, ~esc.had_settlement, esc.state # "disputed"
      PROVE  /\ Agent!Remaining(esc) >= job[t].cost
             /\ esc.claim = None => Agent!ClaimCode(esc, Provider, job[t].cost) = "ok"
  <2>1. Esc # None /\ EscrowOK(Esc) /\ EscrowOK(esc) /\ Keeps(Esc, esc)
    BY <1>1, ResolvedOK DEF Inv, Covered, AgentOK
  <2> HIDE DEF esc
  <2>2. ~Esc.had_settlement /\ ~Esc.expired
    BY <1>1, <2>1 DEF Keeps
  <2>3. /\ Esc.payee_id = Provider /\ Esc.state # "closed"
        /\ Agent!Remaining(Esc) >= job[t].cost
    BY <1>1, <2>2 DEF Inv, WorkIsCovered
  <2>4. /\ esc.payee_id = Provider /\ esc.state # "closed"
        /\ Agent!Remaining(esc) >= job[t].cost
    BY <1>1, <2>1, <2>3 DEF Keeps, Remaining, Agent!Remaining
  <2>5. job[t].cost \in Nat \ {0}
    BY <1>1, PricesAssumption DEF Inv, TypeOK, Accepted
  <2>6. ASSUME esc.claim = None PROVE esc.state = "open"
    BY <1>1, <2>1, <2>4, <2>6 DEF EscrowOK, Agent!Escrow, Agent!EscrowState
  <2> QED BY <1>1, <2>4, <2>5, <2>6, NoneAssumption
          DEF Agent!ClaimCode, Agent!ClaimCovered
<1>2. Inv => WorkIsPayable
  BY <1>1, Zenon DEF WorkIsPayable
<1> QED BY <1>2, Invariance, PTL

--------------------------------------------------------------------------------
(* Where the money went.  The ledger pays for a transition of the escrow at most
   once, and none is ever refused for that: a release and a reclaim have an op_ref
   of their own, and a task is claimed under one op_ref *)

Results == [OpRefs -> Agent!Outcome \cup {None}]

OkIn(results, op) == results[op] # None /\ results[op].code = "ok"

\* The provider was paid what the escrow released, and the buyer what it reclaimed.
Booked(b) ==
    /\ IsBook(b) /\ EscrowOK(b.esc) /\ b.esc.locked_cu = Budget
    /\ b.credited \in [{Buyer, Provider} -> Int]
    /\ b.credited[Provider] = b.esc.released_cu
    /\ b.credited[Buyer] = b.esc.reclaimed_cu

\* Only answered requests were paid for, and never the pending claim.
Keys(b, results) ==
    /\ \A op \in OpRefs :
         <<E, "release", op>> \in b.paid \/ <<E, "reclaim", op>> \in b.paid
           => results[op] # None
    /\ \A t \in TaskIds :
         <<E, "auto_release", t>> \in b.paid => results[<<"claim", t>>] # None
    /\ b.esc.claim # None =>
         /\ results[<<"claim", b.esc.claim.task_id>>] # None
         /\ <<E, "auto_release", b.esc.claim.task_id>> \notin b.paid
    /\ <<E, "expiry_reclaim", None>> \in b.paid => b.esc.state = "closed"

Releases(results) == {t \in TaskIds : OkIn(results, <<"release", t>>)}

Amounts(results) == [t \in Releases(results) |-> results[<<"release", t>>].amount]

\* The releases that were answered ok are part of what was released, and a reclaim
\* of all that remains closed the escrow for good.
Told(esc, results) ==
    /\ IsFiniteSet(Releases(results))
    /\ SumFunction(Amounts(results)) <= esc.released_cu
    /\ OkIn(results, <<"reclaim", None>>) => esc.state = "closed"

Sound(b, results) == Booked(b) /\ Keys(b, results) /\ Told(b.esc, results)

AgentSound ==
    /\ op_results \in [{E} -> Results]
    /\ credited \in [{E} -> [{Buyer, Provider} -> Int]]
    /\ Esc = None =>
         /\ paid = {} /\ credited[E][Buyer] = 0 /\ credited[E][Provider] = 0
         /\ \A op \in OpRefs : op_results[E][op] = None
    /\ Esc # None => Sound(Agent!Book(E), op_results[E])

\* A release is sent for what a done task costs, and answered for as much.
ReleasesOK ==
    /\ \A r \in sent, t \in TaskIds : r.op = <<"release", t>> =>
         job[t].state = "done" /\ r.amount = job[t].cost
    /\ \A t \in Releases(op_results[E]) :
         /\ job[t].state = "done"
         /\ op_results[E][<<"release", t>>].amount = job[t].cost

\* The program ends with a reclaim that was sent when every release was answered.
EndOK ==
    /\ buyer.at \in {"closing", "done"} => Settled
    /\ buyer.at = "done" => Ok(<<"reclaim", None>>)

MoneyInv == AgentSound /\ ReleasesOK /\ EndOK

\* The book c is b after a payment that had not been made.
IsPaid(b, c, key, account, amount) ==
    /\ IsBook(c) /\ c.esc = b.esc
    /\ c.paid = b.paid \cup {key}
    /\ c.credited = [b.credited EXCEPT ![account] = @ + amount]

LEMMA PaidOut ==
    ASSUME NEW b, IsBook(b), b.esc.escrow_id = E, NEW kind, NEW ref,
           <<E, kind, ref>> \notin b.paid, NEW account, NEW amount
    PROVE  IsPaid(b, Agent!Payout(b, kind, ref, account, amount), <<E, kind, ref>>,
                  account, amount)
<1> DEFINE key == <<E, kind, ref>>
           c == [esc |-> b.esc, paid |-> b.paid \cup {key},
                 balances |-> Agent!Credit(b.balances, account, amount),
                 credited |-> Agent!Credit(b.credited, account, amount)]
<1>1. Agent!Payout(b, kind, ref, account, amount) = c
  BY DEF Agent!Payout
<1>2. /\ c.esc = b.esc /\ c.paid = b.paid \cup {key}
      /\ c.credited = [b.credited EXCEPT ![account] = @ + amount]
  BY DEF Agent!Credit
<1>3. IsBook(c)
  BY DEF IsBook
<1> HIDE DEF c
<1> QED BY <1>1, <1>2, <1>3 DEF IsPaid

\* What a pending settlement leaves.
LEMMA SettledFields ==
    ASSUME NEW esc \in Agent!Escrow, NEW amount \in Nat
    PROVE  LET s == Agent!Settled(esc, Provider, amount) IN
           /\ s.claim = None /\ s.locked_cu = esc.locked_cu
           /\ s.released_cu = esc.released_cu + amount
           /\ s.reclaimed_cu = esc.reclaimed_cu
<1> DEFINE s == Agent!Settled(esc, Provider, amount)
           state == IF Agent!Remaining(esc) - amount <= 0 THEN "closed" ELSE "open"
<1>1. s = [esc EXCEPT !.payee_id = Provider, !.claim = None, !.released_cu = @ + amount,
                      !.had_settlement = TRUE, !.state = state]
  BY DEF Agent!Settled
<1> HIDE DEF s, state
<1>2. /\ s.claim = None /\ s.locked_cu = esc.locked_cu
      /\ s.released_cu = esc.released_cu + amount
      /\ s.reclaimed_cu = esc.reclaimed_cu
  BY <1>1 DEF Agent!Escrow
<1> QED BY <1>2 DEF s

LEMMA AmountsIntegral ==
    ASSUME NEW results \in Results
    PROVE  /\ Integral(Amounts(results), Releases(results))
           /\ SumFunction(Amounts(results)) =
                SumFunctionOnSet(Amounts(results), Releases(results))
           /\ IsFiniteSet(Releases(results)) => SumFunction(Amounts(results)) \in Int
<1>1. ASSUME NEW t \in Releases(results) PROVE Amounts(results)[t] \in Int
  <2>1. <<"release", t>> \in OpRefs /\ results[<<"release", t>>] # None
    BY DEF OpRefs, Releases, OkIn
  <2>2. results[<<"release", t>>] \in Agent!Outcome
    BY <2>1 DEF Results
  <2> QED BY <2>2 DEF Amounts, Agent!Outcome
<1>2. DOMAIN Amounts(results) = Releases(results)
  BY DEF Amounts
<1>3. Integral(Amounts(results), Releases(results))
  BY <1>1 DEF Integral
<1>4. SumFunction(Amounts(results)) =
        SumFunctionOnSet(Amounts(results), Releases(results))
  BY <1>2, SumDomain
<1> QED BY <1>3, <1>4, SumType

\* More may be released than was asked for.
LEMMA ToldGrows ==
    ASSUME NEW results \in Results, NEW esc, Told(esc, results), esc.released_cu \in Int,
           NEW after, after.released_cu \in Int, after.released_cu >= esc.released_cu,
           esc.state = "closed" => after.state = "closed"
    PROVE  Told(after, results)
<1>1. SumFunction(Amounts(results)) \in Int
  BY AmountsIntegral DEF Told
<1> QED BY <1>1 DEF Told

LEMMA AutoReleaseSound ==
    ASSUME NEW results \in Results, NEW b, Sound(b, results), Agent!WindowElapsed(b.esc)
    PROVE  Sound(Agent!AutoRelease(b), results)
<1> DEFINE claim == b.esc.claim
           s == Agent!Settled(b.esc, Provider, claim.amount_cu)
           settled == [b EXCEPT !.esc = s]
           c == Agent!AutoRelease(b)
<1>1. /\ Booked(b) /\ IsBook(b) /\ EscrowOK(b.esc) /\ b.esc.state = "claimed"
      /\ claim # None /\ claim \in Agent!Claim /\ b.esc \in Agent!Escrow
      /\ b.esc.payee_id = Provider
  BY DEF Sound, Booked, Agent!WindowElapsed, EscrowOK, Agent!Escrow
<1>2. claim.amount_cu \in Nat /\ claim.task_id \in TaskIds
  BY <1>1 DEF Agent!Claim
<1>3. /\ s.claim = None /\ s.locked_cu = b.esc.locked_cu
      /\ s.released_cu = b.esc.released_cu + claim.amount_cu
      /\ s.reclaimed_cu = b.esc.reclaimed_cu
  BY <1>1, <1>2, SettledFields
<1>4. c = Agent!Payout(settled, "auto_release", claim.task_id, Provider, claim.amount_cu)
  BY <1>1 DEF Agent!AutoRelease
<1>5. IsBook(c) /\ EscrowOK(c.esc)
  BY <1>1, AutoReleaseOK
<1>6. s.escrow_id = E
  <2>1. claim.amount_cu <= Remaining(b.esc)
    BY <1>1 DEF EscrowOK
  <2> QED BY <1>1, <1>2, <2>1, SettledOK DEF EscrowOK
<1> HIDE DEF s
<1>7. /\ IsBook(settled) /\ settled.esc = s
      /\ settled.paid = b.paid /\ settled.credited = b.credited
  BY <1>1 DEF IsBook
<1>8. <<E, "auto_release", claim.task_id>> \notin b.paid
  BY <1>1 DEF Sound, Keys
<1> HIDE DEF claim, settled, c
<1>9. IsPaid(settled, c, <<E, "auto_release", claim.task_id>>, Provider, claim.amount_cu)
  BY <1>4, <1>6, <1>7, <1>8, PaidOut
<1>10. Booked(c)
  BY <1>1, <1>2, <1>3, <1>5, <1>7, <1>9, PartiesAssumption DEF Booked, IsPaid, Agent!Escrow
<1>11. Keys(c, results)
  <2>1. results[<<"claim", claim.task_id>>] # None
    BY <1>1 DEF Sound, Keys, claim
  <2>2. <<E, "expiry_reclaim", None>> \notin b.paid
    BY <1>1 DEF Sound, Keys
  <2> QED BY <1>3, <1>7, <1>9, <2>1, <2>2 DEF Sound, Keys, IsPaid
<1>12. Told(c.esc, results)
  <2>1. b.esc.released_cu \in Nat
    BY <1>1 DEF Agent!Escrow
  <2>2. s.released_cu \in Int /\ s.released_cu >= b.esc.released_cu
    BY <1>2, <1>3, <2>1
  <2>3. b.esc.state # "closed"
    BY <1>1
  <2> QED BY <1>7, <1>9, <2>1, <2>2, <2>3, ToldGrows DEF Sound, IsPaid
<1> QED BY <1>10, <1>11, <1>12 DEF Sound, c

\* All that remains goes to the buyer.
LEMMA DrawnFields ==
    ASSUME NEW b, Booked(b), NEW esc, EscrowOK(esc),
           esc.claim = None, esc.locked_cu = b.esc.locked_cu,
           esc.released_cu = b.esc.released_cu,
           esc.reclaimed_cu = b.esc.reclaimed_cu + Agent!Remaining(b.esc),
           NEW kind, NEW ref, <<E, kind, ref>> \notin b.paid
    PROVE  LET drawn == [b EXCEPT !.esc = esc]
               c == IF Agent!Remaining(b.esc) > 0
                    THEN Agent!Payout(drawn, kind, ref, esc.buyer_id, Agent!Remaining(b.esc))
                    ELSE drawn
           IN  Booked(c) /\ c.esc = esc /\ c.paid \subseteq b.paid \cup {<<E, kind, ref>>}
<1> DEFINE drawn == [b EXCEPT !.esc = esc]
           amount == Agent!Remaining(b.esc)
           c == IF amount > 0 THEN Agent!Payout(drawn, kind, ref, esc.buyer_id, amount)
                              ELSE drawn
<1>1. /\ amount \in Nat /\ IsBook(b) /\ b.credited \in [{Buyer, Provider} -> Int]
      /\ esc.escrow_id = E /\ esc.buyer_id = Buyer
      /\ b.esc \in Agent!Escrow /\ b.esc.reclaimed_cu \in Nat
  BY DEF Booked, EscrowOK, Agent!Escrow, Agent!Remaining, Remaining
<1> HIDE DEF amount
<1>2. /\ IsBook(drawn) /\ drawn.esc = esc
      /\ drawn.paid = b.paid /\ drawn.credited = b.credited
  BY <1>1 DEF IsBook
<1> HIDE DEF drawn
<1>3. CASE amount > 0
  <2>1. c = Agent!Payout(drawn, kind, ref, Buyer, amount)
    BY <1>1, <1>3
  <2>2. IsPaid(drawn, c, <<E, kind, ref>>, Buyer, amount)
    BY <1>1, <1>2, <2>1, PaidOut
  <2> HIDE DEF c
  <2>3. Booked(c)
    BY <1>1, <1>2, <2>2, PartiesAssumption DEF Booked, IsPaid, amount
  <2> QED BY <1>2, <2>2, <2>3 DEF IsPaid, c, drawn, amount
<1>4. CASE ~(amount > 0)
  <2>1. c = drawn /\ amount = 0
    BY <1>1, <1>4
  <2> HIDE DEF c
  <2>2. Booked(c)
    BY <1>1, <1>2, <2>1 DEF Booked, amount
  <2> QED BY <1>2, <2>1, <2>2 DEF c, drawn, amount
<1> QED BY <1>3, <1>4

LEMMA AutoReclaimExpirySound ==
    ASSUME NEW results \in Results, NEW b, Sound(b, results), Agent!LockElapsed(b.esc)
    PROVE  Sound(Agent!AutoReclaimExpiry(b), results)
<1> DEFINE amount == Agent!Remaining(b.esc)
           esc == [b.esc EXCEPT !.reclaimed_cu = @ + amount,
                                !.state = "closed", !.expired = TRUE]
           drawn == [b EXCEPT !.esc = esc]
           c == Agent!AutoReclaimExpiry(b)
<1>1. /\ Booked(b) /\ IsBook(b) /\ EscrowOK(b.esc) /\ b.esc \in Agent!Escrow
      /\ b.esc.claim = None /\ b.esc.state = "open"
  BY DEF Sound, Booked, Agent!LockElapsed, EscrowOK
<1>2. c = IF amount > 0
          THEN Agent!Payout(drawn, "expiry_reclaim", None, esc.buyer_id, amount)
          ELSE drawn
  BY Zenon DEF Agent!AutoReclaimExpiry
<1>3. /\ esc.claim = None /\ esc.locked_cu = b.esc.locked_cu /\ esc.state = "closed"
      /\ esc.released_cu = b.esc.released_cu
      /\ esc.reclaimed_cu = b.esc.reclaimed_cu + amount
  BY <1>1 DEF Agent!Escrow
<1>4. <<E, "expiry_reclaim", None>> \notin b.paid
  BY <1>1 DEF Sound, Keys
<1>5. EscrowOK(esc)
  <2>1. EscrowOK(c.esc)
    BY <1>1, AutoReclaimExpiryOK
  <2> HIDE DEF esc
  <2>2. IsBook(drawn) /\ drawn.esc = esc
    BY <1>1, ReplaceEscrow
  <2> HIDE DEF drawn, amount, c
  <2>3. c.esc = esc
    BY <1>2, <2>2, PayoutKeepsEscrow
  <2> QED BY <2>1, <2>3
<1> HIDE DEF esc
<1>6. Booked(c) /\ c.esc = esc /\ c.paid \subseteq b.paid \cup {<<E, "expiry_reclaim", None>>}
  <2> HIDE DEF c
  <2> QED BY <1>1, <1>2, <1>3, <1>4, <1>5, DrawnFields
<1> HIDE DEF amount, drawn, c
<1>7. Keys(c, results)
  BY <1>3, <1>6 DEF Sound, Keys
<1>8. Told(c.esc, results)
  <2>1. b.esc.released_cu \in Nat
    BY <1>1 DEF Agent!Escrow
  <2> QED BY <1>3, <1>6, <2>1, ToldGrows DEF Sound
<1> QED BY <1>6, <1>7, <1>8 DEF Sound, c

LEMMA EffectiveStateSound ==
    ASSUME NEW results \in Results, NEW b, Sound(b, results)
    PROVE  Sound(Agent!EffectiveState(b), results)
<1> DEFINE released == IF Agent!WindowElapsed(b.esc) THEN Agent!AutoRelease(b) ELSE b
<1>1. Sound(released, results)
  BY AutoReleaseSound
<1>2. Agent!EffectiveState(b) = IF Agent!LockElapsed(released.esc)
                                THEN Agent!AutoReclaimExpiry(released) ELSE released
  BY DEF Agent!EffectiveState
<1> HIDE DEF released
<1> QED BY <1>1, <1>2, AutoReclaimExpirySound

--------------------------------------------------------------------------------
(* A request is answered once, under an op_ref nothing was paid for yet *)

\* What a handler leaves when it answers.
Answers(results, after, op, outcome) ==
    /\ op \in OpRefs /\ results[op] = None
    /\ outcome \in Agent!Outcome
    /\ after = [results EXCEPT ![op] = outcome]

LEMMA AnswersType ==
    ASSUME NEW results \in Results, NEW op, NEW outcome, NEW after,
           Answers(results, after, op, outcome)
    PROVE  /\ after \in Results /\ after[op] = outcome /\ outcome # None
           /\ \A other \in OpRefs \ {op} : after[other] = results[other]
BY NoneAssumption DEF Answers, Results

\* An answer that is no release leaves the sum of them.
LEMMA SameReleases ==
    ASSUME NEW results \in Results, NEW op, NEW outcome, NEW after,
           Answers(results, after, op, outcome),
           outcome.code # "ok" \/ op[1] # "release"
    PROVE  /\ Releases(after) = Releases(results)
           /\ SumFunction(Amounts(after)) = SumFunction(Amounts(results))
<1>0. results[op] = None
  BY DEF Answers
<1>1. /\ after[op] = outcome /\ outcome # None /\ results[op] = None
      /\ \A other \in OpRefs \ {op} : after[other] = results[other]
  BY <1>0, AnswersType
<1>2. \A t \in TaskIds :
        /\ OkIn(after, <<"release", t>>) <=> OkIn(results, <<"release", t>>)
        /\ OkIn(results, <<"release", t>>) =>
             after[<<"release", t>>] = results[<<"release", t>>]
  BY <1>1 DEF OkIn, OpRefs
<1>3. Releases(after) = Releases(results)
  BY <1>2 DEF Releases
<1>4. Amounts(after) = Amounts(results)
  BY <1>2, <1>3 DEF Amounts, Releases
<1> QED BY <1>3, <1>4

LEMMA ToldAnswered ==
    ASSUME NEW results \in Results, NEW op, NEW outcome, NEW after,
           Answers(results, after, op, outcome), NEW esc, Told(esc, results),
           \/ outcome.code # "ok"
           \/ op[1] # "release" /\ (op = <<"reclaim", None>> => esc.state = "closed")
    PROVE  Told(esc, after)
<1>1. /\ Releases(after) = Releases(results)
      /\ SumFunction(Amounts(after)) = SumFunction(Amounts(results))
  BY SameReleases
<1>2. /\ after[op] = outcome
      /\ \A other \in OpRefs \ {op} : after[other] = results[other]
  BY AnswersType
<1>3. <<"reclaim", None>> \in OpRefs
  BY DEF OpRefs
<1>4. OkIn(after, <<"reclaim", None>>) => esc.state = "closed"
  BY <1>2, <1>3 DEF Told, OkIn
<1> QED BY <1>1, <1>4 DEF Told

\* A release that is answered ok was added to what the escrow released.
LEMMA ToldReleased ==
    ASSUME NEW results \in Results, NEW t \in TaskIds, NEW outcome, NEW after,
           Answers(results, after, <<"release", t>>, outcome),
           outcome.code = "ok", outcome.amount \in Int,
           NEW esc, Told(esc, results), esc.state # "closed", esc.released_cu \in Int,
           NEW new, new.released_cu = esc.released_cu + outcome.amount
    PROVE  Told(new, after)
<1> DEFINE op == <<"release", t>>
<1>0. results[op] = None /\ op \in OpRefs
  BY DEF Answers
<1>1. /\ after \in Results /\ after[op] = outcome /\ outcome # None
      /\ \A other \in OpRefs \ {op} : after[other] = results[other]
  BY AnswersType
<1>2. \A u \in TaskIds \ {t} : <<"release", u>> \in OpRefs \ {op}
  BY DEF OpRefs
<1>3. Releases(after) = Releases(results) \cup {t} /\ t \notin Releases(results)
  BY <1>0, <1>1, <1>2 DEF Releases, OkIn
<1> DEFINE f == Amounts(results)
           g == Amounts(after)
           S == Releases(results)
<1>4. Alike(f, g, S) /\ g[t] = outcome.amount
  BY <1>1, <1>2, <1>3 DEF Alike, Amounts, Releases
<1>5. IsFiniteSet(S) /\ SumFunction(f) <= esc.released_cu
  BY DEF Told
<1>6. /\ Integral(f, S) /\ SumFunction(f) = SumFunctionOnSet(f, S)
      /\ SumFunction(f) \in Int
  BY <1>5, AmountsIntegral
<1>7. SumFunction(g) = SumFunctionOnSet(g, S \cup {t})
  BY <1>1, <1>3, AmountsIntegral
<1> HIDE DEF f, g, S
<1>8. SumFunctionOnSet(g, S \cup {t}) = SumFunctionOnSet(f, S) + g[t]
  <2>1. ExtendsBy(f, g, S, t)
    BY <1>3, <1>4, <1>5, <1>6 DEF ExtendsBy, S
  <2> QED BY <2>1, SumAdds
<1>9. SumFunction(g) <= new.released_cu
  BY <1>4, <1>5, <1>6, <1>7, <1>8
<1>10. IsFiniteSet(Releases(after))
  BY <1>3, <1>5, FS_AddElement DEF S
<1>11. ~OkIn(after, <<"reclaim", None>>)
  <2>1. <<"reclaim", None>> \in OpRefs \ {op}
    BY DEF OpRefs
  <2> QED BY <1>1, <2>1 DEF Told, OkIn
<1> QED BY <1>9, <1>10, <1>11 DEF Told, g

LEMMA KeysAnswered ==
    ASSUME NEW results \in Results, NEW op, NEW outcome, NEW after,
           Answers(results, after, op, outcome), NEW b, Keys(b, results), EscrowOK(b.esc)
    PROVE  Keys(b, after)
<1>1. /\ after[op] = outcome /\ outcome # None
      /\ \A other \in OpRefs \ {op} : after[other] = results[other]
  BY AnswersType
<1>2. \A other \in OpRefs : results[other] # None => after[other] # None
  BY <1>1
<1>3. \A t \in TaskIds : <<"claim", t>> \in OpRefs
  BY DEF OpRefs
<1>4. b.esc.claim # None => b.esc.claim.task_id \in TaskIds
  BY DEF EscrowOK, Agent!Escrow, Agent!Claim
<1> QED BY <1>2, <1>3, <1>4 DEF Keys

\* A request that was refused.
LEMMA RefusedSound ==
    ASSUME NEW results \in Results, NEW op, NEW outcome, NEW after,
           Answers(results, after, op, outcome), outcome.code # "ok",
           NEW b, Sound(b, results)
    PROVE  Sound(b, after)
<1>1. Keys(b, after)
  BY KeysAnswered DEF Sound, Booked
<1>2. Told(b.esc, after)
  BY ToldAnswered DEF Sound
<1> QED BY <1>1, <1>2 DEF Sound

\* A request that moves no money and begins no claim.
LEMMA MovedNothing ==
    ASSUME NEW results \in Results, NEW op, NEW outcome, NEW after,
           Answers(results, after, op, outcome), op[1] \notin {"release", "reclaim"},
           NEW b, Sound(b, results), NEW esc, EscrowOK(esc),
           esc.locked_cu = b.esc.locked_cu, esc.released_cu = b.esc.released_cu,
           esc.reclaimed_cu = b.esc.reclaimed_cu, esc.claim = b.esc.claim,
           b.esc.state = "closed" => esc.state = "closed"
    PROVE  Sound([b EXCEPT !.esc = esc], after)
<1> DEFINE c == [b EXCEPT !.esc = esc]
<1>1. Booked(b) /\ IsBook(b) /\ b.esc.released_cu \in Int
  BY DEF Sound, Booked, EscrowOK, Agent!Escrow
<1>2. IsBook(c) /\ c.esc = esc /\ c.paid = b.paid /\ c.credited = b.credited
  BY <1>1 DEF IsBook
<1> HIDE DEF c
<1>3. Booked(c)
  BY <1>1, <1>2 DEF Booked
<1>4. Keys(c, after)
  <2>1. Keys(c, results)
    BY <1>2 DEF Keys, Sound
  <2> QED BY <1>2, <2>1, KeysAnswered
<1>5. Told(c.esc, after)
  <2>1. Told(c.esc, results)
    BY <1>1, <1>2, ToldGrows DEF Sound
  <2>2. op # <<"reclaim", None>>
    OBVIOUS
  <2> QED BY <2>1, <2>2, ToldAnswered
<1> QED BY <1>3, <1>4, <1>5 DEF Sound, c

LEMMA BoundSound ==
    ASSUME NEW results \in Results, NEW op, NEW outcome, NEW after,
           Answers(results, after, op, outcome), op[1] \notin {"release", "reclaim"},
           NEW b, Sound(b, results), Agent!BindCode(b.esc, Buyer) = "ok"
    PROVE  Sound(Agent!Bound(b, Provider, None), after)
<1> DEFINE esc == [b.esc EXCEPT !.payee_id = Provider, !.challenge_window_ms = @]
<1>1. IsBook(b) /\ EscrowOK(b.esc) /\ b.esc \in Agent!Escrow
  BY DEF Sound, Booked, EscrowOK
<1>2. Agent!Bound(b, Provider, None) = [b EXCEPT !.esc = esc]
  BY DEF Agent!Bound
<1>3. /\ esc.locked_cu = b.esc.locked_cu /\ esc.released_cu = b.esc.released_cu
      /\ esc.reclaimed_cu = b.esc.reclaimed_cu /\ esc.claim = b.esc.claim
      /\ esc.state = b.esc.state
  BY <1>1 DEF Agent!Escrow
<1> HIDE DEF esc
<1>4. EscrowOK(esc)
  <2>1. EscrowOK(Agent!Bound(b, Provider, None).esc)
    BY <1>1, BoundOK
  <2> QED BY <1>1, <1>2, <2>1, ReplaceEscrow
<1> QED BY <1>2, <1>3, <1>4, MovedNothing

LEMMA DisputedSound ==
    ASSUME NEW results \in Results, NEW op, NEW outcome, NEW after,
           Answers(results, after, op, outcome), op[1] \notin {"release", "reclaim"},
           NEW b, Sound(b, results), Agent!DisputeCode(b.esc, Buyer) = "ok"
    PROVE  Sound(Agent!Disputed(b), after)
<1> DEFINE esc == [b.esc EXCEPT !.dispute = TRUE, !.state = "disputed"]
<1>1. /\ IsBook(b) /\ EscrowOK(b.esc) /\ b.esc \in Agent!Escrow
      /\ b.esc.state = "claimed"
  BY DEF Sound, Booked, EscrowOK, Agent!DisputeCode
<1>2. Agent!Disputed(b) = [b EXCEPT !.esc = esc]
  BY DEF Agent!Disputed
<1>3. /\ esc.locked_cu = b.esc.locked_cu /\ esc.released_cu = b.esc.released_cu
      /\ esc.reclaimed_cu = b.esc.reclaimed_cu /\ esc.claim = b.esc.claim
  BY <1>1 DEF Agent!Escrow
<1> HIDE DEF esc
<1>4. EscrowOK(esc)
  <2>1. EscrowOK(Agent!Disputed(b).esc)
    BY <1>1, DisputedOK
  <2> QED BY <1>1, <1>2, <2>1, ReplaceEscrow
<1> QED BY <1>1, <1>2, <1>3, <1>4, MovedNothing

\* A task is claimed once, so that its automatic release was not paid yet.
LEMMA ClaimedSound ==
    ASSUME NEW results \in Results, NEW t \in TaskIds, NEW outcome, NEW after,
           Answers(results, after, <<"claim", t>>, outcome),
           NEW b, Sound(b, results), NEW amount \in Nat, now \in Nat,
           Agent!ClaimCode(b.esc, Provider, amount) = "ok"
    PROVE  Sound(Agent!Claimed(b, amount, t), after)
<1> DEFINE op == <<"claim", t>>
           claim == [amount_cu |-> amount, task_id |-> t,
                     window_ends_ms |-> now + b.esc.challenge_window_ms]
           esc == [b.esc EXCEPT !.claim = claim, !.state = "claimed"]
           c == Agent!Claimed(b, amount, t)
<1>1. /\ Booked(b) /\ IsBook(b) /\ EscrowOK(b.esc) /\ b.esc \in Agent!Escrow
      /\ b.esc.state = "open" /\ b.esc.released_cu \in Int
  BY DEF Sound, Booked, EscrowOK, Agent!ClaimCode, Agent!Escrow
<1>2. c = [b EXCEPT !.esc = esc]
  BY DEF Agent!Claimed
<1>3. claim.task_id = t
  OBVIOUS
<1>4. EscrowOK(c.esc)
  BY <1>1, ClaimedOK
<1> HIDE DEF c, claim
<1>5. /\ esc.locked_cu = b.esc.locked_cu /\ esc.released_cu = b.esc.released_cu
      /\ esc.reclaimed_cu = b.esc.reclaimed_cu /\ esc.claim = claim
      /\ esc.state = "claimed"
  BY <1>1 DEF Agent!Escrow
<1> HIDE DEF esc
<1>6. IsBook(c) /\ c.esc = esc /\ c.paid = b.paid /\ c.credited = b.credited
  BY <1>1, <1>2 DEF IsBook
<1>7. Booked(c)
  BY <1>1, <1>4, <1>5, <1>6 DEF Booked
<1>8. results[op] = None /\ op \in OpRefs
  BY DEF Answers
<1>9. /\ after[op] = outcome /\ outcome # None
      /\ \A other \in OpRefs \ {op} : after[other] = results[other]
  BY AnswersType
<1>10. Keys(c, after)
  <2>1. Keys(b, after)
    BY <1>1, KeysAnswered DEF Sound
  <2>2. <<E, "auto_release", t>> \notin b.paid
    BY <1>8 DEF Sound, Keys
  <2>3. <<E, "expiry_reclaim", None>> \notin b.paid
    BY <1>1 DEF Sound, Keys
  <2> QED BY <1>3, <1>5, <1>6, <1>9, <2>1, <2>2, <2>3 DEF Keys
<1>11. Told(c.esc, after)
  <2>1. Told(b.esc, after)
    BY ToldAnswered DEF Sound
  <2>2. after \in Results
    BY AnswersType
  <2> QED BY <1>1, <1>5, <1>6, <2>1, <2>2, ToldGrows
<1> QED BY <1>7, <1>10, <1>11 DEF Sound, c

LEMMA ReleasedSound ==
    ASSUME NEW results \in Results, NEW t \in TaskIds, NEW after, NEW amount \in Nat,
           Answers(results, after, <<"release", t>>, Agent!Result("release", amount)),
           NEW b, Sound(b, results),
           Agent!ReleaseCode(b.esc, Buyer, amount, Provider) = "ok"
    PROVE  Sound(Agent!Released(b, <<"release", t>>, amount, Provider), after)
<1> DEFINE op == <<"release", t>>
           outcome == Agent!Result("release", amount)
           s == Agent!Settled(b.esc, Provider, amount)
           settled == [b EXCEPT !.esc = s]
           c == Agent!Released(b, op, amount, Provider)
<1>1. /\ Booked(b) /\ IsBook(b) /\ EscrowOK(b.esc) /\ b.esc \in Agent!Escrow
      /\ b.esc.state # "closed" /\ b.esc.released_cu \in Int /\ b.esc.reclaimed_cu \in Int
      /\ b.esc.locked_cu \in Int
  BY DEF Sound, Booked, EscrowOK, Agent!Escrow, Agent!ReleaseCode, Agent!Releasable
<1>2. outcome.code = "ok" /\ outcome.amount = amount
  BY DEF Agent!Result
<1>3. /\ s.claim = None /\ s.locked_cu = b.esc.locked_cu
      /\ s.released_cu = b.esc.released_cu + amount
      /\ s.reclaimed_cu = b.esc.reclaimed_cu
  BY <1>1, SettledFields
<1>4. c = Agent!Payout(settled, "release", op, Provider, amount)
  BY DEF Agent!Released
<1>5. EscrowOK(c.esc)
  BY <1>1, ReleasedOK
<1>6. results[op] = None /\ op \in OpRefs
  BY DEF Answers
<1>7. <<E, "release", op>> \notin b.paid
  BY <1>6 DEF Sound, Keys
<1> HIDE DEF c, s, outcome
<1>8. /\ IsBook(settled) /\ settled.esc = s
      /\ settled.paid = b.paid /\ settled.credited = b.credited
  BY <1>1 DEF IsBook
<1> HIDE DEF settled
<1>9. c.esc = s
  BY <1>4, <1>8, PayoutKeepsEscrow
<1>10. IsPaid(settled, c, <<E, "release", op>>, Provider, amount)
  <2>1. s.escrow_id = E
    BY <1>5, <1>9 DEF EscrowOK
  <2> QED BY <1>4, <1>7, <1>8, <2>1, PaidOut
<1>11. Booked(c)
  BY <1>1, <1>3, <1>5, <1>8, <1>9, <1>10, PartiesAssumption DEF Booked, IsPaid
<1>12. Keys(c, after)
  <2>1. Keys(b, after)
    BY <1>1, KeysAnswered DEF Sound
  <2>2. after[op] # None
    BY AnswersType
  <2>3. <<E, "expiry_reclaim", None>> \notin b.paid
    BY <1>1 DEF Sound, Keys
  <2> QED BY <1>3, <1>8, <1>9, <1>10, <2>1, <2>2, <2>3 DEF Keys, IsPaid
<1>13. Told(c.esc, after)
  <2>1. Answers(results, after, <<"release", t>>, outcome)
    BY DEF outcome
  <2>2. c.esc.released_cu = b.esc.released_cu + outcome.amount
    BY <1>2, <1>3, <1>9
  <2>3. outcome.amount \in Int /\ Told(b.esc, results)
    BY <1>2 DEF Sound
  <2> QED BY <1>1, <1>2, <2>1, <2>2, <2>3, ToldReleased
<1> QED BY <1>11, <1>12, <1>13 DEF Sound, c

\* A reclaim of all that remains.
LEMMA ReclaimedSound ==
    ASSUME NEW results \in Results, NEW op, NEW outcome, NEW after,
           Answers(results, after, op, outcome), op[1] # "release",
           NEW b, Sound(b, results), Agent!ReclaimCode(b.esc, Buyer, None) = "ok"
    PROVE  Sound(Agent!Reclaimed(b, op, Agent!Remaining(b.esc)), after)
<1> DEFINE amount == Agent!Remaining(b.esc)
           state == IF Agent!Remaining(b.esc) - amount <= 0 THEN "closed" ELSE "open"
           esc == [b.esc EXCEPT !.reclaimed_cu = @ + amount, !.state = state]
           drawn == [b EXCEPT !.esc = esc]
           c == Agent!Reclaimed(b, op, amount)
<1>1. /\ Booked(b) /\ IsBook(b) /\ EscrowOK(b.esc) /\ b.esc \in Agent!Escrow
      /\ b.esc.state = "open" /\ b.esc.claim = None /\ b.esc.released_cu \in Int
  BY DEF Sound, Booked, EscrowOK, Agent!Escrow, Agent!ReclaimCode
<1>2. amount \in Int /\ state = "closed"
  BY <1>1 DEF Agent!Escrow, Agent!Remaining
<1>3. c = IF amount > 0 THEN Agent!Payout(drawn, "reclaim", op, esc.buyer_id, amount)
                        ELSE drawn
  BY DEF Agent!Reclaimed
<1>4. EscrowOK(c.esc)
  BY <1>1, ReclaimedOK
<1> HIDE DEF state, c
<1>5. /\ esc.claim = None /\ esc.locked_cu = b.esc.locked_cu /\ esc.state = "closed"
      /\ esc.released_cu = b.esc.released_cu
      /\ esc.reclaimed_cu = b.esc.reclaimed_cu + amount
  BY <1>1, <1>2 DEF Agent!Escrow
<1> HIDE DEF esc
<1>6. EscrowOK(esc)
  <2>1. IsBook(drawn) /\ drawn.esc = esc
    BY <1>1, ReplaceEscrow
  <2> HIDE DEF drawn, amount
  <2>2. c.esc = esc
    BY <1>3, <2>1, PayoutKeepsEscrow
  <2> QED BY <1>4, <2>2
<1>7. results[op] = None /\ op \in OpRefs
  BY DEF Answers
<1>8. <<E, "reclaim", op>> \notin b.paid
  BY <1>7 DEF Sound, Keys
<1>9. Booked(c) /\ c.esc = esc /\ c.paid \subseteq b.paid \cup {<<E, "reclaim", op>>}
  BY <1>1, <1>3, <1>5, <1>6, <1>8, DrawnFields
<1> HIDE DEF amount, drawn
<1>10. Keys(c, after)
  <2>1. Keys(b, after)
    BY <1>1, KeysAnswered DEF Sound
  <2>2. after[op] # None
    BY AnswersType
  <2> QED BY <1>5, <1>9, <2>1, <2>2 DEF Keys
<1>11. Told(c.esc, after)
  <2>1. Told(esc, results)
    BY <1>1, <1>5, ToldGrows DEF Sound
  <2> QED BY <1>5, <1>9, <2>1, ToldAnswered
<1> QED BY <1>9, <1>10, <1>11 DEF Sound, c, amount

--------------------------------------------------------------------------------
(* The steps of the agent *)

\* What a step tells: old answers stand, and a new one to a release names the amount
\* that was asked for.
NewlyTold ==
    /\ \A op \in OpRefs : op_results[E][op] # None => op_results'[E][op] = op_results[E][op]
    /\ \A t \in TaskIds : OkIn(op_results'[E], <<"release", t>>) =>
         \/ OkIn(op_results[E], <<"release", t>>)
         \/ \E r \in sent : /\ r.op = <<"release", t>>
                            /\ op_results'[E][r.op].amount = r.amount

MoneyStep ==
    /\ AgentSound' /\ NewlyTold
    /\ Esc # None => Esc' # None

LEMMA ResolvedSound ==
    ASSUME AgentSound, Esc # None
    PROVE  Sound(Agent!Resolved(E), op_results[E])
BY EffectiveStateSound DEF AgentSound, Agent!Resolved

\* A book that is written back.
LEMMA CommitSound ==
    ASSUME AgentOK, AgentSound, Esc # None, NEW b, NEW results \in Results,
           Sound(b, results), Agent!Commit(b), op_results' = [op_results EXCEPT ![E] = results]
    PROVE  AgentSound' /\ Esc' # None
<1>1. IsBook(b) /\ b.esc.escrow_id = E /\ b.esc \in Agent!Escrow
  BY DEF Sound, Booked, EscrowOK
<1>2. /\ escrows' = [escrows EXCEPT ![E] = b.esc] /\ balances' = b.balances
      /\ paid' = b.paid /\ credited' = [credited EXCEPT ![E] = b.credited]
  BY <1>1 DEF Agent!Commit
<1>3. Esc' = b.esc /\ credited'[E] = b.credited /\ op_results'[E] = results
  BY <1>2 DEF AgentOK, AgentSound, Esc
<1>4. Agent!Book(E)' = b
  BY <1>1, <1>2, <1>3 DEF Agent!Book, IsBook, Esc
<1>5. b.credited \in [{Buyer, Provider} -> Int]
  BY DEF Sound, Booked
<1>6. Esc' # None
  BY <1>1, <1>3, NoneAssumption
<1> QED BY <1>2, <1>3, <1>4, <1>5, <1>6 DEF AgentSound

LEMMA OutcomeTypes ==
    /\ \A code \in Agent!ErrorCode : Agent!Error(code) \in Agent!Outcome
    /\ \A code : Agent!Error(code).code = code
    /\ \A method \in Agent!Method, amount \in Nat :
         /\ Agent!Result(method, amount) \in Agent!Outcome
         /\ Agent!Result(method, amount).code = "ok"
         /\ Agent!Result(method, amount).amount = amount
BY DEF Agent!Error, Agent!Result, Agent!Outcome

\* The end of a handler, whether it did what was asked for or refused it.
LEMMA AnswerSound ==
    ASSUME AgentOK, AgentSound, Esc # None, NEW r \in sent, r.op \in OpRefs,
           op_results[E][r.op] = None,
           NEW code \in Agent!ErrorCode \cup {"ok"}, NEW outcome \in Agent!Outcome,
           NEW c, Agent!Answer(E, r.op, code, outcome, c),
           code # "ok" => c = Agent!Resolved(E),
           \A after : Answers(op_results[E], after, r.op, outcome) /\ code = "ok"
                        => Sound(c, after),
           outcome.code = "ok", r.op[1] = "release" => outcome.amount = r.amount
    PROVE  MoneyStep
<1> DEFINE results == op_results[E]
           told == IF code = "ok" THEN outcome ELSE Agent!Error(code)
           after == [results EXCEPT ![r.op] = told]
<1>1. results \in Results /\ Sound(Agent!Resolved(E), results)
  BY ResolvedSound DEF AgentSound
<1>2. told \in Agent!Outcome /\ (code # "ok" => told.code # "ok")
  BY OutcomeTypes
<1>3. Answers(results, after, r.op, told)
  BY <1>2 DEF Answers
<1>4. Agent!Commit(c) /\ op_results' = [op_results EXCEPT ![E][r.op] = told]
  BY DEF Agent!Answer
<1>5. op_results' = [op_results EXCEPT ![E] = after]
  BY <1>4 DEF AgentSound
<1> HIDE DEF told, after, results
<1>6. /\ after \in Results /\ after[r.op] = told
      /\ \A other \in OpRefs \ {r.op} : after[other] = results[other]
  BY <1>1, <1>3, AnswersType
<1>7. Sound(c, after)
  <2>1. CASE code = "ok"
    BY <1>3, <2>1 DEF told, results
  <2>2. CASE code # "ok"
    BY <1>1, <1>2, <1>3, <2>2, RefusedSound
  <2> QED BY <2>1, <2>2
<1>8. AgentSound' /\ Esc' # None
  BY <1>4, <1>5, <1>6, <1>7, CommitSound
<1>9. op_results'[E] = after
  BY <1>5 DEF AgentSound
<1>10. NewlyTold
  <2>1. \A op \in OpRefs : results[op] # None => after[op] = results[op]
    BY <1>6 DEF results
  <2>2. ASSUME NEW t \in TaskIds, OkIn(after, <<"release", t>>),
               ~OkIn(results, <<"release", t>>)
        PROVE  r.op = <<"release", t>> /\ after[r.op].amount = r.amount
    <3>1. <<"release", t>> \in OpRefs
      BY DEF OpRefs
    <3>2. r.op = <<"release", t>>
      BY <1>6, <2>2, <3>1 DEF OkIn
    <3>3. code = "ok" /\ told = outcome
      BY <1>2, <1>6, <2>2, <3>2 DEF OkIn, told
    <3> QED BY <1>6, <3>2, <3>3
  <2> QED BY <1>9, <2>1, <2>2 DEF NewlyTold, results
<1> QED BY <1>8, <1>10 DEF MoneyStep

LEMMA HandleSound ==
    ASSUME AgentOK, SentOK, AgentSound, sent \subseteq Request, NEW r \in sent, Handle(r)
    PROVE  MoneyStep
<1> DEFINE b == Agent!Resolved(E)
<1>1. /\ r.op \in OpRefs /\ Esc # None /\ op_results[E][r.op] = None
      /\ op_results[E] \in Results
  BY DEF Handle, Agent!Bind, Agent!Release, Agent!Reclaim, Agent!ClaimOp, Agent!Dispute,
     Agent!Fresh, Esc, AgentSound
<1>2. Sound(b, op_results[E]) /\ EscrowOK(b.esc)
  BY <1>1, ResolvedSound DEF Sound, Booked
<1> HIDE DEF b
<1>3. CASE r.op[1] = "bind"
  <2> DEFINE code == Agent!BindCode(b.esc, Buyer)
             outcome == Agent!Result("bind", 0)
             c == IF code = "ok" THEN Agent!Bound(b, Provider, None) ELSE b
  <2>1. Agent!Answer(E, r.op, code, outcome, c)
    BY <1>3 DEF Handle, Agent!Bind, b
  <2>2. code \in Agent!ErrorCode \cup {"ok"}
    BY DEF Agent!BindCode, Agent!ErrorCode
  <2>3. outcome \in Agent!Outcome /\ outcome.code = "ok"
    BY OutcomeTypes DEF Agent!Method
  <2> HIDE DEF outcome
  <2>4. ASSUME NEW after, Answers(op_results[E], after, r.op, outcome), code = "ok"
        PROVE  Sound(c, after)
    BY <1>1, <1>2, <1>3, <2>4, BoundSound
  <2>5. code # "ok" => c = Agent!Resolved(E)
    BY DEF b
  <2> HIDE DEF code, c
  <2> QED BY <1>1, <1>3, <2>1, <2>2, <2>3, <2>4, <2>5, AnswerSound
<1>4. CASE r.op[1] = "release"
  <2> DEFINE code == Agent!ReleaseCode(b.esc, Buyer, r.amount, Provider)
             outcome == Agent!Result("release", r.amount)
             c == IF code = "ok" THEN Agent!Released(b, r.op, r.amount, Provider) ELSE b
  <2>1. Agent!Answer(E, r.op, code, outcome, c)
    BY <1>4 DEF Handle, Agent!Release, b
  <2>2. code \in Agent!ErrorCode \cup {"ok"}
    BY DEF Agent!ReleaseCode, Agent!ErrorCode
  <2>3. r.amount \in Nat
    BY <1>4 DEF SentOK
  <2>4. outcome \in Agent!Outcome /\ outcome.code = "ok" /\ outcome.amount = r.amount
    BY <2>3, OutcomeTypes DEF Agent!Method
  <2>5. PICK t \in TaskIds : r.op = <<"release", t>>
    BY <1>1, <1>4 DEF OpRefs
  <2>6. ASSUME NEW after, Answers(op_results[E], after, r.op, outcome), code = "ok"
        PROVE  Sound(c, after)
    BY <1>1, <1>2, <2>3, <2>5, <2>6, ReleasedSound
  <2>7. code # "ok" => c = Agent!Resolved(E)
    BY DEF b
  <2> HIDE DEF code, c, outcome
  <2> QED BY <1>1, <2>1, <2>2, <2>4, <2>6, <2>7, AnswerSound
<1>5. CASE r.op[1] \in {"reclaim", "giveup"}
  <2> DEFINE code == Agent!ReclaimCode(b.esc, Buyer, None)
             amount == Agent!Remaining(b.esc)
             outcome == Agent!Result("reclaim", amount)
             c == IF code = "ok" THEN Agent!Reclaimed(b, r.op, amount) ELSE b
  <2>1. r.amount = None
    BY <1>5 DEF SentOK
  <2>2. Agent!Answer(E, r.op, code, outcome, c)
    BY <1>5, <2>1 DEF Handle, Agent!Reclaim, b
  <2>3. code \in Agent!ErrorCode \cup {"ok"}
    BY DEF Agent!ReclaimCode, Agent!ErrorCode
  <2>4. amount \in Nat
    BY <1>2 DEF EscrowOK, Agent!Escrow, Agent!Remaining, Remaining
  <2>5. outcome \in Agent!Outcome /\ outcome.code = "ok"
    <3> HIDE DEF amount
    <3> QED BY <2>4, OutcomeTypes DEF Agent!Method
  <2> HIDE DEF outcome
  <2>6. ASSUME NEW after, Answers(op_results[E], after, r.op, outcome), code = "ok"
        PROVE  Sound(c, after)
    BY <1>1, <1>2, <1>5, <2>6, ReclaimedSound
  <2>7. code # "ok" => c = Agent!Resolved(E)
    BY DEF b
  <2> HIDE DEF code, c
  <2> QED BY <1>1, <1>5, <2>2, <2>3, <2>5, <2>6, <2>7, AnswerSound
<1>6. CASE r.op[1] = "claim"
  <2> DEFINE code == Agent!ClaimCode(b.esc, Provider, r.amount)
             outcome == Agent!Result("claim", 0)
             c == IF code = "ok" THEN Agent!Claimed(b, r.amount, r.op[2]) ELSE b
  <2>1. Agent!Answer(E, r.op, code, outcome, c)
    BY <1>6 DEF Handle, Agent!ClaimOp, b
  <2>2. code \in Agent!ErrorCode \cup {"ok"}
    BY DEF Agent!ClaimCode, Agent!ErrorCode
  <2>3. r.amount \in Nat /\ now \in Nat
    BY <1>6 DEF SentOK, AgentOK
  <2>4. PICK t \in TaskIds : r.op = <<"claim", t>>
    BY <1>1, <1>6 DEF OpRefs
  <2>5. outcome \in Agent!Outcome /\ outcome.code = "ok"
    BY OutcomeTypes DEF Agent!Method
  <2> HIDE DEF outcome
  <2>6. ASSUME NEW after, Answers(op_results[E], after, r.op, outcome), code = "ok"
        PROVE  Sound(c, after)
    BY <1>1, <1>2, <2>3, <2>4, <2>6, ClaimedSound
  <2>7. code # "ok" => c = Agent!Resolved(E)
    BY DEF b
  <2> HIDE DEF code, c
  <2> QED BY <1>1, <1>6, <2>1, <2>2, <2>5, <2>6, <2>7, AnswerSound
<1>7. CASE r.op[1] = "dispute"
  <2> DEFINE code == Agent!DisputeCode(b.esc, Buyer)
             outcome == Agent!Result("dispute", 0)
             c == IF code = "ok" THEN Agent!Disputed(b) ELSE b
  <2>1. Agent!Answer(E, r.op, code, outcome, c)
    BY <1>7 DEF Handle, Agent!Dispute, b
  <2>2. code \in Agent!ErrorCode \cup {"ok"}
    BY DEF Agent!DisputeCode, Agent!ErrorCode
  <2>3. outcome \in Agent!Outcome /\ outcome.code = "ok"
    BY OutcomeTypes DEF Agent!Method
  <2> HIDE DEF outcome
  <2>4. ASSUME NEW after, Answers(op_results[E], after, r.op, outcome), code = "ok"
        PROVE  Sound(c, after)
    BY <1>1, <1>2, <1>7, <2>4, DisputedSound
  <2>5. code # "ok" => c = Agent!Resolved(E)
    BY DEF b
  <2> HIDE DEF code, c
  <2> QED BY <1>1, <1>7, <2>1, <2>2, <2>3, <2>4, <2>5, AnswerSound
<1> QED BY <1>3, <1>4, <1>5, <1>6, <1>7 DEF Handle

LEMMA LockSound ==
    ASSUME AgentOK, AgentSound, sent \subseteq Request, NEW r \in sent, HandleLock(r)
    PROVE  MoneyStep
<1>1. /\ Esc = None /\ Esc' # None /\ EscrowOK(Esc')
      /\ escrows' = [escrows EXCEPT ![E] =
                       Agent!NewEscrow(E, Buyer, Budget, r.until, None, None)]
      /\ UNCHANGED <<paid, op_results, credited, now>>
  BY HandleLockOK DEF HandleLock, Agent!Lock, Esc, EscrowStep, AgentOK
<1>2. /\ Esc'.locked_cu = Budget /\ Esc'.released_cu = 0 /\ Esc'.reclaimed_cu = 0
      /\ Esc'.claim = None
  BY <1>1 DEF Agent!NewEscrow, AgentOK, Esc
<1>3. /\ paid = {} /\ credited[E][Buyer] = 0 /\ credited[E][Provider] = 0
      /\ \A op \in OpRefs : op_results[E][op] = None
      /\ credited[E] \in [{Buyer, Provider} -> Int] /\ op_results[E] \in Results
  BY <1>1 DEF AgentSound
<1>4. PICK b : b = Agent!Book(E)'
  OBVIOUS
<1>5. /\ IsBook(b) /\ b.esc = Esc' /\ b.paid = {} /\ b.credited = credited[E]
  BY <1>1, <1>3, <1>4 DEF Agent!Book, IsBook, Esc
<1>6. Booked(b)
  BY <1>1, <1>2, <1>3, <1>5 DEF Booked
<1>7. Keys(b, op_results[E])
  BY <1>2, <1>5 DEF Keys
<1>8. Told(b.esc, op_results[E])
  <2>1. /\ \A t \in TaskIds : <<"release", t>> \in OpRefs
        /\ <<"reclaim", None>> \in OpRefs
    BY DEF OpRefs
  <2>2. Releases(op_results[E]) = {} /\ ~OkIn(op_results[E], <<"reclaim", None>>)
    BY <1>3, <2>1 DEF Releases, OkIn
  <2>3. DOMAIN Amounts(op_results[E]) = {} /\ IsFiniteSet({})
    BY <2>2, FS_EmptySet DEF Amounts
  <2>4. SumFunction(Amounts(op_results[E])) = 0
    BY <2>3, SumDomain, SumOfNone
  <2> QED BY <1>2, <1>5, <2>2, <2>3, <2>4 DEF Told
<1>9. AgentSound'
  <2>1. Sound(b, op_results[E])
    BY <1>6, <1>7, <1>8 DEF Sound
  <2> QED BY <1>1, <1>4, <2>1 DEF AgentSound
<1> QED BY <1>1, <1>9 DEF MoneyStep, NewlyTold

LEMMA StatusSound ==
    ASSUME AgentOK, AgentSound, Agent!Status(E)
    PROVE  MoneyStep
<1>1. /\ Esc # None /\ Agent!Commit(Agent!Resolved(E)) /\ op_results' = op_results
  BY DEF Agent!Status, Esc
<1>2. Sound(Agent!Resolved(E), op_results[E])
  BY <1>1, ResolvedSound
<1>3. op_results' = [op_results EXCEPT ![E] = op_results[E]] /\ op_results[E] \in Results
  BY <1>1 DEF AgentSound
<1>4. AgentSound' /\ Esc' # None
  BY <1>1, <1>2, <1>3, CommitSound
<1> QED BY <1>1, <1>4 DEF MoneyStep, NewlyTold

LEMMA AgentStepsSound ==
    ASSUME AgentOK, SentOK, AgentSound, sent \subseteq Request,
           AgentSteps \/ Agent!Status(E) \/ UNCHANGED agent
    PROVE  MoneyStep
<1>1. ASSUME UNCHANGED <<escrows, balances, paid, op_results, credited>> PROVE MoneyStep
  <2>1. Esc' = Esc /\ Agent!Book(E)' = Agent!Book(E)
    BY <1>1 DEF Esc, Agent!Book
  <2> QED BY <1>1, <2>1 DEF MoneyStep, NewlyTold, AgentSound
<1>2. CASE Agent!Tick \/ UNCHANGED agent
  BY <1>1, <1>2 DEF Agent!Tick, agent
<1> QED BY <1>2, HandleSound, LockSound, StatusSound DEF AgentSteps

--------------------------------------------------------------------------------
(* The steps of the buyer and the provider *)

\* What is done stays done, at the price it was done for.
DoneStays == \A t \in TaskIds : job[t].state = "done" => job'[t] = job[t]

\* What is over stays over, once the program waits for its last answer.
OverStays ==
    buyer.at \in {"closing", "done"} /\ Settled => UNCHANGED job

LEMMA JobsStay ==
    ASSUME Inv, [Next]_vars
    PROVE  DoneStays /\ OverStays
<1>1. job \in [TaskIds -> [state : JobState, cost : Prices \cup {None}]]
  BY DEF Inv, TypeOK
<1>2. CASE UNCHANGED job
  BY <1>2 DEF DoneStays, OverStays
<1>3. ASSUME NEW t \in TaskIds, Invoke(t) \/ CheckPrice(t) \/ CheckCovers(t) \/ Work(t)
      PROVE  DoneStays /\ OverStays
  <2>1. /\ job[t].state \in {"none", "invoked", "covering", "working"}
        /\ job[t].state = "none" => buyer.at \in {"binding", "trading"}
        /\ \A u \in TaskIds \ {t} : job'[u] = job[u]
    BY <1>1, <1>3 DEF Invoke, CheckPrice, CheckCovers, Work
  <2> QED BY <2>1 DEF DoneStays, OverStays, Settled
<1>4. CASE /\ ~\E t \in TaskIds : Invoke(t) \/ CheckPrice(t) \/ CheckCovers(t) \/ Work(t)
           /\ Buys \/ Provides
  <2>1. UNCHANGED job
    BY <1>4 DEF Buys, Provides, RequestOffer, SendLock, LockAnswered, SendAccept,
       AcceptAnswered, SendBind, BindAnswered, SendReclaim, ReclaimAnswered, GiveUp,
       SendRelease, SendDispute, HandleAccept, Reconnect, Reprice, SendClaim
  <2> QED BY <1>2, <2>1
<1> QED BY <1>2, <1>3, <1>4 DEF Next, AgentSteps, vars

\* Every step of the purchase is a step of the agent, or leaves it alone.
LEMMA AgentMoves ==
    ASSUME [Next]_vars
    PROVE  AgentSteps \/ Agent!Status(E) \/ UNCHANGED agent
BY DEF Next, Buys, Provides, RequestOffer, SendLock, LockAnswered, SendAccept,
   AcceptAnswered, SendBind, BindAnswered, SendReclaim, ReclaimAnswered, GiveUp,
   SendRelease, SendDispute, HandleAccept, Reconnect, Reprice, SendClaim, Invoke,
   CheckPrice, CheckCovers, Work, vars

\* Releases are sent for done tasks only.
LEMMA SentMoves ==
    ASSUME [Next]_vars, NEW r \in sent', NEW t \in TaskIds, r.op = <<"release", t>>,
           r \notin sent
    PROVE  job[t].state = "done" /\ job'[t] = job[t] /\ r.amount = job[t].cost
<1>1. CASE \E u \in TaskIds : SendRelease(u)
  <2>1. PICK u \in TaskIds : SendRelease(u)
    BY <1>1
  <2>2. r = [op |-> <<"release", u>>, amount |-> job[u].cost]
    BY <2>1 DEF SendRelease, Send
  <2>3. u = t
    BY <2>2
  <2> QED BY <2>1, <2>2, <2>3 DEF SendRelease
<1>2. ASSUME NEW method, NEW ref, NEW amount,
             sent' = sent \cup {[op |-> <<method, ref>>, amount |-> amount]},
             method # "release"
      PROVE  FALSE
  BY <1>2
<1>3. CASE UNCHANGED sent
  BY <1>3
<1>4. CASE SendLock \/ SendAccept
  BY <1>4 DEF SendLock, SendAccept, Send, LockRef, AcceptRef
<1>5. CASE SendBind \/ SendReclaim \/ GiveUp
  BY <1>5 DEF SendBind, SendReclaim, GiveUp, Send
<1>6. CASE \E u \in TaskIds : SendDispute(u) \/ SendClaim(u)
  BY <1>2, <1>6 DEF SendDispute, SendClaim, Send
<1>7. CASE \E u \in TaskIds : Invoke(u) \/ CheckPrice(u) \/ CheckCovers(u) \/ Work(u)
  BY <1>3, <1>7 DEF Invoke, CheckPrice, CheckCovers, Work
<1>8. CASE \/ RequestOffer \/ LockAnswered \/ AcceptAnswered \/ BindAnswered
           \/ ReclaimAnswered \/ HandleAccept \/ Reconnect \/ Reprice
  BY <1>3, <1>8 DEF RequestOffer, LockAnswered, AcceptAnswered, BindAnswered,
     ReclaimAnswered, HandleAccept, Reconnect, Reprice
<1>9. CASE AgentSteps \/ UNCHANGED vars
  BY <1>3, <1>9 DEF AgentSteps, vars
<1> QED BY <1>1, <1>4, <1>5, <1>6, <1>7, <1>8, <1>9 DEF Next, Buys, Provides

\* The program comes to its end by way of a reclaim that was answered.
LEMMA ProgramMoves ==
    ASSUME Inv, [Next]_vars, buyer'.at \in {"closing", "done"}
    PROVE  \/ buyer'.at = buyer.at
           \/ SendReclaim
           \/ ReclaimAnswered /\ Ok(<<"reclaim", None>>)
<1>1. ASSUME NEW at, Goto(at) PROVE buyer'.at = at
  BY <1>1 DEF Goto, Inv, TypeOK
<1>2. CASE RequestOffer \/ AcceptAnswered
  BY <1>2 DEF RequestOffer, AcceptAnswered, Goto, Inv, TypeOK
<1>3. CASE SendLock \/ SendAccept \/ SendBind \/ GiveUp
  BY <1>1, <1>3 DEF SendLock, SendAccept, SendBind, GiveUp
<1>4. CASE LockAnswered \/ BindAnswered \/ ReclaimAnswered
  BY <1>1, <1>4 DEF LockAnswered, BindAnswered, ReclaimAnswered
<1>5. CASE UNCHANGED buyer
  BY <1>5
<1>6. CASE \E t \in TaskIds : Invoke(t) \/ SendRelease(t) \/ SendDispute(t)
  BY <1>5, <1>6 DEF Invoke, SendRelease, SendDispute
<1>7. CASE Provides
  BY <1>5, <1>7 DEF Provides, HandleAccept, Reconnect, Reprice, SendClaim, CheckPrice,
     CheckCovers, Work
<1>8. CASE AgentSteps \/ UNCHANGED vars
  BY <1>5, <1>8 DEF AgentSteps, vars
<1> QED BY <1>2, <1>3, <1>4, <1>6, <1>7, <1>8 DEF Next, Buys

LEMMA MoneyInit == Init => MoneyInv
<1> SUFFICES ASSUME Init PROVE MoneyInv
  OBVIOUS
<1>1. Esc = None /\ op_results = [e \in {E} |-> [op \in OpRefs |-> None]]
  BY DEF Init, Agent!Init, Esc
<1>2. AgentSound
  <2>1. op_results \in [{E} -> Results]
    BY <1>1 DEF Results
  <2>2. paid = {} /\ credited = [e \in {E} |-> [p \in {Buyer, Provider} |-> 0]]
    BY DEF Init, Agent!Init
  <2> QED BY <1>1, <2>1, <2>2 DEF AgentSound
<1>3. ReleasesOK
  <2>1. \A t \in TaskIds : <<"release", t>> \in OpRefs
    BY DEF OpRefs
  <2>2. Releases(op_results[E]) = {}
    BY <1>1, <2>1 DEF Releases, OkIn
  <2> QED BY <2>2 DEF Init, ReleasesOK
<1>4. EndOK
  BY DEF Init, EndOK
<1> QED BY <1>2, <1>3, <1>4 DEF MoneyInv

LEMMA MoneyNext == Inv /\ MoneyInv /\ [Next]_vars => MoneyInv'
<1> SUFFICES ASSUME Inv, MoneyInv, [Next]_vars PROVE MoneyInv'
  OBVIOUS
<1>1. /\ AgentOK /\ SentOK /\ sent \subseteq Request
      /\ AgentSound /\ ReleasesOK /\ EndOK
  BY DEF Inv, TypeOK, MoneyInv
<1>2. MoneyStep
  BY <1>1, AgentMoves, AgentStepsSound
<1>3. DoneStays /\ OverStays
  BY JobsStay
<1>4. ReleasesOK'
  <2>1. ASSUME NEW r \in sent', NEW t \in TaskIds, r.op = <<"release", t>>
        PROVE  job'[t].state = "done" /\ r.amount = job'[t].cost
    <3>1. CASE r \in sent
      BY <1>1, <1>3, <2>1, <3>1 DEF ReleasesOK, DoneStays
    <3>2. CASE r \notin sent
      BY <2>1, <3>2, SentMoves
    <3> QED BY <3>1, <3>2
  <2>2. ASSUME NEW t \in TaskIds, OkIn(op_results'[E], <<"release", t>>)
        PROVE  /\ job'[t].state = "done"
               /\ op_results'[E][<<"release", t>>].amount = job'[t].cost
    <3>1. CASE OkIn(op_results[E], <<"release", t>>)
      <4>1. t \in Releases(op_results[E]) /\ <<"release", t>> \in OpRefs
        BY <3>1 DEF Releases, OpRefs
      <4>2. op_results'[E][<<"release", t>>] = op_results[E][<<"release", t>>]
        BY <1>2, <3>1, <4>1 DEF MoneyStep, NewlyTold, OkIn
      <4> QED BY <1>1, <1>3, <4>1, <4>2 DEF ReleasesOK, DoneStays
    <3>2. CASE ~OkIn(op_results[E], <<"release", t>>)
      <4>1. PICK r \in sent : /\ r.op = <<"release", t>>
                              /\ op_results'[E][r.op].amount = r.amount
        BY <1>2, <2>2, <3>2 DEF MoneyStep, NewlyTold
      <4> QED BY <1>1, <1>3, <4>1 DEF ReleasesOK, DoneStays
    <3> QED BY <3>1, <3>2
  <2> QED BY <2>1, <2>2 DEF ReleasesOK, Releases
<1>5. EndOK'
  <2>1. ASSUME NEW op \in OpRefs, Ok(op) PROVE Ok(op)'
    <3>1. Esc # None /\ op_results[E][op] # None /\ op_results[E][op].code = "ok"
      BY <2>1 DEF Ok, Answered, Outcome
    <3>2. Esc' # None /\ op_results'[E][op] = op_results[E][op]
      BY <1>2, <3>1 DEF MoneyStep, NewlyTold
    <3> QED BY <3>1, <3>2 DEF Ok, Answered, Outcome
  <2>2. /\ \A t \in TaskIds : <<"release", t>> \in OpRefs
        /\ <<"reclaim", None>> \in OpRefs
    BY DEF OpRefs
  <2>3. Settled /\ UNCHANGED job => Settled'
    BY <2>1, <2>2 DEF Settled
  <2> SUFFICES ASSUME buyer'.at \in {"closing", "done"}
               PROVE  Settled' /\ (buyer'.at = "done" => Ok(<<"reclaim", None>>)')
    BY DEF EndOK
  <2>4. CASE buyer'.at = buyer.at
    BY <1>1, <1>3, <2>1, <2>2, <2>3, <2>4 DEF EndOK, OverStays
  <2>5. CASE SendReclaim
    <3>1. Settled /\ UNCHANGED job /\ buyer'.at = "closing"
      BY <2>5 DEF SendReclaim, Goto, Inv, TypeOK
    <3> QED BY <2>3, <3>1
  <2>6. CASE ReclaimAnswered /\ Ok(<<"reclaim", None>>)
    <3>1. buyer.at = "closing" /\ UNCHANGED job
      BY <2>6 DEF ReclaimAnswered
    <3> QED BY <1>1, <2>1, <2>2, <2>3, <2>6, <3>1 DEF EndOK
  <2> QED BY <2>4, <2>5, <2>6, ProgramMoves
<1> QED BY <1>2, <1>4, <1>5 DEF MoneyInv, MoneyStep

(* A buyer that comes to the end of its program has settled everything: the escrow is
   closed without a claim, its whole budget went to the provider or came back, and the
   provider has at least what all the tasks it did cost (examples/05_escrow_e2e.py:
   141-147), whatever was repeated, crossed or ran out of time meanwhile. *)
THEOREM SettlesWhatWasDone == Spec => []PurchaseSettles
<1>1. Inv /\ MoneyInv => PurchaseSettles
  <2> SUFFICES ASSUME Inv, MoneyInv, buyer.at = "done"
               PROVE  /\ Esc.state = "closed" /\ Esc.claim = None
                      /\ credited[E][Buyer] + credited[E][Provider] = Budget
                      /\ credited[E][Provider] >= SumFunction([t \in Done |-> job[t].cost])
    BY DEF PurchaseSettles
  <2> DEFINE results == op_results[E]
             b == Agent!Book(E)
  <2>1. Settled /\ Esc # None /\ OkIn(results, <<"reclaim", None>>)
    BY DEF MoneyInv, EndOK, Ok, Answered, Outcome, OkIn
  <2>2. /\ Booked(b) /\ Told(Esc, results) /\ b.esc = Esc /\ b.credited = credited[E]
        /\ EscrowOK(Esc) /\ Esc \in Agent!Escrow
    BY <2>1 DEF MoneyInv, AgentSound, Sound, Booked, Agent!Book, Esc, EscrowOK
  <2>3. Esc.state = "closed" /\ Esc.claim = None
    BY <2>1, <2>2 DEF Told, EscrowOK
  <2>4. credited[E][Buyer] + credited[E][Provider] = Budget
    BY <2>2, <2>3 DEF Booked, EscrowOK, Agent!Escrow, Remaining
  <2>5. Releases(results) = Done
    BY <2>1 DEF MoneyInv, ReleasesOK, Releases, Settled, Done, Ok, Answered, Outcome, OkIn
  <2>6. Amounts(results) = [t \in Done |-> job[t].cost]
    BY <2>5 DEF MoneyInv, ReleasesOK, Amounts
  <2>7. SumFunction(Amounts(results)) <= credited[E][Provider]
    BY <2>2 DEF Told, Booked
  <2>8. SumFunction(Amounts(results)) \in Int /\ credited[E][Provider] \in Int
    BY <2>2, AmountsIntegral DEF Told, MoneyInv, AgentSound
  <2> QED BY <2>3, <2>4, <2>6, <2>7, <2>8
<1>2. Inv /\ MoneyInv /\ [Next]_vars => MoneyInv'
  BY MoneyNext
<1> QED BY <1>1, <1>2, Invariance, MoneyInit, PTL DEF Spec
================================================================================
