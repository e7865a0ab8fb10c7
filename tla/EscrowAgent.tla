------------------------------ MODULE EscrowAgent ------------------------------
(***************************************************************************)
(* The escrow agent of src/src/acmp/escrow.py: one pool of escrows, one    *)
(* credit ledger, and the seven acmp/escrow* handlers.                     *)
(*                                                                         *)
(* EscrowAgent.serve handles the messages of all connections on one event  *)
(* loop and no handler awaits, so a handler is one atomic step here.  Time *)
(* moves only between handlers, and no timer runs: an elapsed challenge    *)
(* window or an expired lock takes effect inside the next handler that     *)
(* touches the escrow (EffectiveState).                                    *)
(*                                                                         *)
(* A CU amount is an integer: the rounding of the code's floats is not     *)
(* modelled.  Names, proofs, reasons and evidence are dropped, since no    *)
(* handler reads them.                                                     *)
(*                                                                         *)
(* A definition under "Fault:" is no part of the agent.  It is a plausible *)
(* bug of the definition below it, and PROJECT.json names the property     *)
(* that catches the bug when it takes that definition's place.             *)
(***************************************************************************)
EXTENDS Integers, FiniteSets

CONSTANTS
    Parties,        \* the self-reported identities of the connections
    EscrowIds,      \* bound: the escrows one behaviour may open
    LockRefs,       \* the op_refs of escrowLock, cached agent-wide
    OpRefs,         \* the op_refs of the other requests, cached per escrow
    TaskIds,        \* task ids a claim may name
    Amounts,        \* the amount_cu a request may carry; 0 stands for all <= 0
    Windows,        \* challenge_window_ms values a request may carry
    DefaultWindow,  \* default_challenge_window_ms of the agent
    ValidUntils,    \* valid_until_ms values a lock may carry
    MaxTime,        \* bound: where the clock stops
    Funds,          \* what the ledger holds for each party at the start
    ReuseTaskIds,   \* may a payee claim again for a task already auto-released?
    None            \* Python's None

VARIABLES
    escrows,     \* EscrowAgent._escrows: escrow id -> Escrow record or None
    balances,    \* CreditLedger._balances
    paid,        \* CreditLedger._paid: the transitions already paid out
    lock_ops,    \* EscrowAgent._lock_ops: op_ref -> first outcome of escrowLock
    op_results,  \* Escrow.op_results, by escrow: op_ref -> first outcome
    now,         \* what now_ms() returns
    credited     \* history: what the ledger paid to each party out of each escrow

vars == <<escrows, balances, paid, lock_ops, op_results, now, credited>>

--------------------------------------------------------------------------------
(* Data *)

EscrowState == {"open", "claimed", "disputed", "closed"}

Claim == [amount_cu : Nat, task_id : TaskIds, window_ends_ms : Int]

Escrow ==
    [escrow_id : EscrowIds, buyer_id : Parties,
     locked_cu : Nat, valid_until_ms : Int, challenge_window_ms : Int,
     state : EscrowState, released_cu : Nat, reclaimed_cu : Nat,
     payee_id : Parties \cup {None}, claim : Claim \cup {None},
     dispute : BOOLEAN, had_settlement : BOOLEAN, expired : BOOLEAN]

ErrorCode ==
    {"insufficient_funds", "not_authorized", "invalid_state",
     "amount_exceeds_remaining", "escrow_expired"}

Method == {"bind", "release", "reclaim", "claim", "dispute"}

\* A cached outcome: an error's code, or a result with the amount it reports.
Error(code) == [code |-> code, method |-> "none", amount |-> 0]
Result(method, amount) == [code |-> "ok", method |-> method, amount |-> amount]

Outcome ==
    [code : ErrorCode \cup {"ok"}, method : Method \cup {"none"}, amount : Nat]

\* The outcome of escrowLock: the escrow it opened, or an error's code.
LockOutcome == [code : ErrorCode \cup {"ok"}, escrow_id : EscrowIds \cup {None}]

\* A key of the ledger's _paid set, (escrow_id, "kind:ref").
Transition ==
    (EscrowIds \X {"release", "reclaim"} \X OpRefs)
      \cup (EscrowIds \X {"auto_release"} \X TaskIds)
      \cup (EscrowIds \X {"expiry_reclaim"} \X {None})

ASSUME AmountsAssumption == Amounts \subseteq Nat
ASSUME TimesAssumption ==
    /\ Windows \subseteq Int /\ DefaultWindow \in Int
    /\ ValidUntils \subseteq Int
    /\ MaxTime \in Nat
ASSUME FundsAssumption == Funds \in [Parties -> Nat]
ASSUME ReuseAssumption == ReuseTaskIds \in BOOLEAN
ASSUME NoneAssumption ==
    /\ None \notin Parties /\ None \notin EscrowIds
    /\ None \notin Claim /\ None \notin Escrow
    /\ None \notin Outcome /\ None \notin LockOutcome

Opened == {e \in EscrowIds : escrows[e] # None}

Remaining(esc) == esc.locked_cu - esc.released_cu - esc.reclaimed_cu

--------------------------------------------------------------------------------
(* A handler works on a book: one escrow and the ledger beside it *)

Book(e) ==
    [esc |-> escrows[e], balances |-> balances, paid |-> paid,
     credited |-> credited[e]]

Commit(b) ==
    LET e == b.esc.escrow_id IN
    /\ escrows' = [escrows EXCEPT ![e] = b.esc]
    /\ balances' = b.balances
    /\ paid' = b.paid
    /\ credited' = [credited EXCEPT ![e] = b.credited]

Credit(accounts, account, amount) ==
    [accounts EXCEPT ![account] = @ + amount]

\* Fault: the payout key forgets the op_ref or task.
PayoutOncePerKind(b, kind, ref, account, amount) ==
    LET key == <<b.esc.escrow_id, kind, None>> IN
    IF key \in b.paid
    THEN b
    ELSE [esc |-> b.esc, paid |-> b.paid \cup {key},
          balances |-> Credit(b.balances, account, amount),
          credited |-> Credit(b.credited, account, amount)]

\* CreditLedger.payout: at most once per (escrow, transition).
Payout(b, kind, ref, account, amount) ==
    LET key == <<b.esc.escrow_id, kind, ref>> IN
    IF key \in b.paid
    THEN b
    ELSE [esc |-> b.esc, paid |-> b.paid \cup {key},
          balances |-> Credit(b.balances, account, amount),
          credited |-> Credit(b.credited, account, amount)]

\* Fault: what remains is looked at before the payment is recorded.
SettledStale(esc, payee, amount) ==
    [esc EXCEPT !.payee_id = payee,
                !.claim = None,
                !.released_cu = @ + amount,
                !.had_settlement = TRUE,
                !.state = IF Remaining(esc) <= 0 THEN "closed" ELSE "open"]

\* The assignments a release and an auto-release share.
Settled(esc, payee, amount) ==
    [esc EXCEPT !.payee_id = payee,
                !.claim = None,
                !.released_cu = @ + amount,
                !.had_settlement = TRUE,
                !.state = IF Remaining(esc) - amount <= 0 THEN "closed" ELSE "open"]

AutoRelease(b) ==
    LET claim == b.esc.claim
        payee == b.esc.payee_id
        esc   == Settled(b.esc, payee, claim.amount_cu)
    IN Payout([b EXCEPT !.esc = esc],
              "auto_release", claim.task_id, payee, claim.amount_cu)

\* Fault: the amount to pay is computed after it was recorded as reclaimed.
AutoReclaimExpiryLate(b) ==
    LET esc == [b.esc EXCEPT !.reclaimed_cu = @ + Remaining(b.esc),
                             !.state = "closed", !.expired = TRUE]
        amount == Remaining(esc)
        closed == [b EXCEPT !.esc = esc]
    IN IF amount > 0
       THEN Payout(closed, "expiry_reclaim", None, esc.buyer_id, amount)
       ELSE closed

AutoReclaimExpiry(b) ==
    LET amount == Remaining(b.esc)
        esc == [b.esc EXCEPT !.reclaimed_cu = @ + amount,
                             !.state = "closed", !.expired = TRUE]
        closed == [b EXCEPT !.esc = esc]
    IN IF amount > 0
       THEN Payout(closed, "expiry_reclaim", None, esc.buyer_id, amount)
       ELSE closed

\* Fault: the end of the window still counts as inside it.
WindowElapsedStrictly(esc) ==
    esc.state = "claimed" /\ esc.claim # None /\ now > esc.claim.window_ends_ms
\* Fault: a lock past its end no longer resolves its pending claim.
WindowElapsedInTime(esc) ==
    /\ esc.state = "claimed" /\ esc.claim # None
    /\ now >= esc.claim.window_ends_ms /\ now < esc.valid_until_ms

WindowElapsed(esc) ==
    esc.state = "claimed" /\ esc.claim # None /\ now >= esc.claim.window_ends_ms

\* Fault: an escrow that paid its payee is taken for finished.
LockElapsedUnsettled(esc) ==
    /\ esc.state = "open" /\ esc.claim = None /\ ~esc.dispute
    /\ ~esc.had_settlement /\ now >= esc.valid_until_ms

LockElapsed(esc) ==
    /\ esc.state = "open" /\ esc.claim = None /\ ~esc.dispute
    /\ now >= esc.valid_until_ms

\* Fault: at most one of the two transitions per call.
EffectiveStateOnce(b) ==
    IF WindowElapsed(b.esc) THEN AutoRelease(b)
    ELSE IF LockElapsed(b.esc) THEN AutoReclaimExpiry(b)
    ELSE b

\* _effective_state: an elapsed window may return the escrow to open, where an
\* elapsed lock closes it in the same call.
EffectiveState(b) ==
    LET released == IF WindowElapsed(b.esc) THEN AutoRelease(b) ELSE b
    IN IF LockElapsed(released.esc) THEN AutoReclaimExpiry(released) ELSE released

\* Fault: the handlers forget to look at the clock.
ResolvedNever(e) == Book(e)

Resolved(e) == EffectiveState(Book(e))

--------------------------------------------------------------------------------
(* Idempotency: a repeated op_ref replays its first outcome, so that no part of
   the handler runs again, whoever sends it and whatever it carries *)

\* Fault: the handlers forget the cache.
FreshAlways(e, op) == escrows[e] # None

Fresh(e, op) == escrows[e] # None /\ op_results[e][op] = None

\* Fault: a retried lock runs again.
FreshLockAlways(op) == TRUE

FreshLock(op) == lock_ops[op] = None

Replay(e, op) ==
    /\ escrows[e] # None
    /\ op_results[e][op] # None
    /\ UNCHANGED vars

ReplayLock(op) == lock_ops[op] # None /\ UNCHANGED vars

\* Fault: the outcome is not cached.
AnswerUncached(e, op, code, outcome, b) ==
    Commit(b) /\ UNCHANGED <<op_results, lock_ops, now>>

\* The end of every fresh handler: what it did to the book is kept on both
\* outcomes (time may have moved money before a guard refused the request).
Answer(e, op, code, outcome, b) ==
    /\ Commit(b)
    /\ op_results' = [op_results EXCEPT ![e][op] =
                        IF code = "ok" THEN outcome ELSE Error(code)]
    /\ UNCHANGED <<lock_ops, now>>

--------------------------------------------------------------------------------
(* acmp/escrowLock *)

NewEscrow(e, buyer, amount, validUntil, window, payee) ==
    [escrow_id |-> e, buyer_id |-> buyer,
     locked_cu |-> amount, valid_until_ms |-> validUntil,
     challenge_window_ms |-> IF window = None THEN DefaultWindow ELSE window,
     state |-> "open", released_cu |-> 0, reclaimed_cu |-> 0,
     payee_id |-> payee, claim |-> None,
     dispute |-> FALSE, had_settlement |-> FALSE, expired |-> FALSE]

\* Fault: the debit does not look at the balance.
FundedAlways(p, amount) == TRUE

Funded(p, amount) == balances[p] >= amount

LockCode(p, amount) ==
    IF amount <= 0 THEN "invalid_state"
    ELSE IF ~Funded(p, amount) THEN "insufficient_funds"
    ELSE "ok"

LockRefused(p, op, amount) ==
    /\ FreshLock(op)
    /\ LockCode(p, amount) # "ok"
    /\ lock_ops' = [lock_ops EXCEPT ![op] =
                      [code |-> LockCode(p, amount), escrow_id |-> None]]
    /\ UNCHANGED <<escrows, balances, paid, op_results, now, credited>>

\* new_escrow_id draws 48 random bits: an id in use is taken never to be drawn again.
Lock(p, op, e, amount, validUntil, window, payee) ==
    /\ FreshLock(op)
    /\ LockCode(p, amount) = "ok"
    /\ escrows[e] = None
    /\ balances' = [balances EXCEPT ![p] = @ - amount]
    /\ escrows' = [escrows EXCEPT ![e] =
                     NewEscrow(e, p, amount, validUntil, window, payee)]
    /\ lock_ops' = [lock_ops EXCEPT ![op] = [code |-> "ok", escrow_id |-> e]]
    /\ UNCHANGED <<paid, op_results, now, credited>>

--------------------------------------------------------------------------------
(* acmp/escrowBind: the state is not looked at, so that a closed escrow that did
   not expire can still be bound *)

BindCode(esc, p) ==
    IF esc.expired THEN "escrow_expired"
    ELSE IF p # esc.buyer_id THEN "not_authorized"
    ELSE IF esc.payee_id # None THEN "invalid_state"
    ELSE "ok"

Bound(b, payee, window) ==
    LET esc == [b.esc EXCEPT
                  !.payee_id = payee,
                  !.challenge_window_ms = IF window = None THEN @ ELSE window]
    IN [b EXCEPT !.esc = esc]

Bind(p, e, op, payee, window) ==
    /\ Fresh(e, op)
    /\ LET b    == Resolved(e)
           code == BindCode(b.esc, p)
       IN Answer(e, op, code, Result("bind", 0),
                 IF code = "ok" THEN Bound(b, payee, window) ELSE b)

--------------------------------------------------------------------------------
(* acmp/escrowRelease *)

\* Fault: any state but closed will do.
ReleasableUnlessClosed(esc) == esc.state # "closed"

Releasable(esc) == esc.state \in {"open", "claimed"}

\* Fault: a smaller release resolves the claim too.
UndercutsNever(esc, amount) == FALSE

Undercuts(esc, amount) == esc.state = "claimed" /\ amount < esc.claim.amount_cu

ReleaseCode(esc, p, amount, payee) ==
    IF esc.expired THEN "escrow_expired"
    ELSE IF p # esc.buyer_id THEN "not_authorized"
    ELSE IF ~Releasable(esc) THEN "invalid_state"
    ELSE IF amount <= 0 THEN "invalid_state"
    ELSE IF Undercuts(esc, amount) THEN "invalid_state"
    ELSE IF esc.payee_id \notin {None, payee} THEN "not_authorized"
    ELSE IF amount > Remaining(esc) THEN "amount_exceeds_remaining"
    ELSE "ok"

Released(b, op, amount, payee) ==
    Payout([b EXCEPT !.esc = Settled(b.esc, payee, amount)],
           "release", op, payee, amount)

Release(p, e, op, amount, payee) ==
    /\ Fresh(e, op)
    /\ LET b    == Resolved(e)
           code == ReleaseCode(b.esc, p, amount, payee)
       IN Answer(e, op, code, Result("release", amount),
                 IF code = "ok" THEN Released(b, op, amount, payee) ELSE b)

--------------------------------------------------------------------------------
(* acmp/escrowReclaim: without an amount, all that remains *)

\* Fault: the bound-escrow guard of s4.4 is missing.
GuardedNever(esc) == FALSE

Guarded(esc) == esc.payee_id # None /\ ~esc.had_settlement

ReclaimCode(esc, p, amount) ==
    IF esc.expired THEN "escrow_expired"
    ELSE IF p # esc.buyer_id THEN "not_authorized"
    ELSE IF esc.state # "open" THEN "invalid_state"
    ELSE IF Guarded(esc) THEN "invalid_state"
    ELSE IF amount = None THEN "ok"
    ELSE IF amount <= 0 THEN "invalid_state"
    ELSE IF amount > Remaining(esc) THEN "amount_exceeds_remaining"
    ELSE "ok"

Reclaimed(b, op, amount) ==
    LET esc == [b.esc EXCEPT
                  !.reclaimed_cu = @ + amount,
                  !.state = IF Remaining(b.esc) - amount <= 0 THEN "closed" ELSE "open"]
        drawn == [b EXCEPT !.esc = esc]
    IN IF amount > 0
       THEN Payout(drawn, "reclaim", op, esc.buyer_id, amount)
       ELSE drawn

Reclaim(p, e, op, request) ==
    /\ Fresh(e, op)
    /\ LET b      == Resolved(e)
           code   == ReclaimCode(b.esc, p, request)
           amount == IF request = None THEN Remaining(b.esc) ELSE request
       IN Answer(e, op, code, Result("reclaim", amount),
                 IF code = "ok" THEN Reclaimed(b, op, amount) ELSE b)

--------------------------------------------------------------------------------
(* acmp/escrowClaim *)

\* Fault: a claim may exceed what remains.
ClaimCoveredAlways(esc, amount) == TRUE

ClaimCovered(esc, amount) == amount <= Remaining(esc)

ClaimCode(esc, p, amount) ==
    IF esc.expired THEN "escrow_expired"
    ELSE IF esc.payee_id = None \/ p # esc.payee_id THEN "not_authorized"
    ELSE IF esc.state # "open" THEN "invalid_state"
    ELSE IF amount <= 0 THEN "invalid_state"
    ELSE IF ~ClaimCovered(esc, amount) THEN "amount_exceeds_remaining"
    ELSE "ok"

Claimed(b, amount, task) ==
    LET claim == [amount_cu |-> amount, task_id |-> task,
                  window_ends_ms |-> now + b.esc.challenge_window_ms]
    IN [b EXCEPT !.esc = [b.esc EXCEPT !.claim = claim, !.state = "claimed"]]

\* The agent accepts any task_id.  With ReuseTaskIds = FALSE the payees never
\* name one whose claim on this escrow was auto-released before.
TaskIdAllowed(b, task) ==
    ReuseTaskIds \/ <<b.esc.escrow_id, "auto_release", task>> \notin b.paid

ClaimOp(p, e, op, amount, task) ==
    /\ Fresh(e, op)
    /\ LET b    == Resolved(e)
           code == ClaimCode(b.esc, p, amount)
       IN /\ TaskIdAllowed(b, task)
          /\ Answer(e, op, code, Result("claim", 0),
                    IF code = "ok" THEN Claimed(b, amount, task) ELSE b)

--------------------------------------------------------------------------------
(* acmp/escrowDispute: nothing ever leaves the disputed state *)

DisputeCode(esc, p) ==
    IF esc.expired THEN "escrow_expired"
    ELSE IF p # esc.buyer_id THEN "not_authorized"
    ELSE IF esc.state # "claimed" THEN "invalid_state"
    ELSE "ok"

Disputed(b) ==
    [b EXCEPT !.esc = [b.esc EXCEPT !.dispute = TRUE, !.state = "disputed"]]

Dispute(p, e, op) ==
    /\ Fresh(e, op)
    /\ LET b    == Resolved(e)
           code == DisputeCode(b.esc, p)
       IN Answer(e, op, code, Result("dispute", 0),
                 IF code = "ok" THEN Disputed(b) ELSE b)

--------------------------------------------------------------------------------
(* acmp/escrowStatus, EscrowAgent.escrow, and a request whose missing parameter
   becomes an uncached -35099: all they do to the state is to resolve the escrow *)

Status(e) ==
    /\ escrows[e] # None
    /\ Commit(Resolved(e))
    /\ UNCHANGED <<lock_ops, op_results, now>>

Tick == now < MaxTime /\ now' = now + 1
          /\ UNCHANGED <<escrows, balances, paid, lock_ops, op_results, credited>>

--------------------------------------------------------------------------------

Init ==
    /\ escrows = [e \in EscrowIds |-> None]
    /\ balances = Funds
    /\ paid = {}
    /\ lock_ops = [op \in LockRefs |-> None]
    /\ op_results = [e \in EscrowIds |-> [op \in OpRefs |-> None]]
    /\ now = 0
    /\ credited = [e \in EscrowIds |-> [p \in Parties |-> 0]]

LockRequest(p, op) ==
    \/ \E amount \in Amounts : LockRefused(p, op, amount)
    \/ \E e \in EscrowIds, amount \in Amounts, until \in ValidUntils,
          window \in Windows \cup {None}, payee \in Parties \cup {None} :
         Lock(p, op, e, amount, until, window, payee)

Request(p, e, op) ==
    \/ \E payee \in Parties, window \in Windows \cup {None} : Bind(p, e, op, payee, window)
    \/ \E amount \in Amounts, payee \in Parties : Release(p, e, op, amount, payee)
    \/ \E amount \in Amounts \cup {None} : Reclaim(p, e, op, amount)
    \/ \E amount \in Amounts, task \in TaskIds : ClaimOp(p, e, op, amount, task)
    \/ Dispute(p, e, op)

Next ==
    \/ \E p \in Parties, op \in LockRefs : LockRequest(p, op)
    \/ \E p \in Parties, e \in EscrowIds, op \in OpRefs : Request(p, e, op)
    \/ \E op \in LockRefs : ReplayLock(op)
    \/ \E e \in EscrowIds, op \in OpRefs : Replay(e, op)
    \/ \E e \in EscrowIds : Status(e)
    \/ Tick

Spec == Init /\ [][Next]_vars
================================================================================
