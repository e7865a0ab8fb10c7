------------------------------- MODULE Purchase --------------------------------
(***************************************************************************)
(* One purchase among three parties (examples/05_escrow_e2e.py): a buyer,  *)
(* a provider and the escrow agent.  The buyer negotiates an offer         *)
(* (Negotiator), locks and binds an escrow (EscrowClient), invokes tasks   *)
(* against it, releases what they cost and reclaims the rest.  The         *)
(* provider checks at the agent that the escrow covers a task, and may     *)
(* claim what a task cost.                                                 *)
(*                                                                         *)
(* The agent is EscrowAgent, handler by handler, with one escrow.  A       *)
(* request once sent may be handled at any later time, several times or    *)
(* never: the callers retry with the op_ref of the first try, on           *)
(* connections of their own.  The answer to an agent's request is what the *)
(* agent caches for its op_ref, and may never arrive.                      *)
(*                                                                         *)
(* A definition under "Fault:" is no part of the program.  It is a         *)
(* plausible bug of the definition below it, and PROJECT.json names the    *)
(* property that catches the bug when it takes that definition's place.    *)
(***************************************************************************)
EXTENDS Integers, FiniteSets, Sequences

CONSTANTS
    Buyer, Provider,    \* the party ids of the two connections to the agent
    TaskIds,            \* the tasks invoked against the escrow
    Prices,             \* what the provider may charge for the capability
    Budget,             \* max_price_cu of the offer request, and what is locked
    Validities,         \* offer_valid_ms values the buyer may ask for
    DefaultValidity,    \* DEFAULT_OFFER_VALID_MS
    LockTime,           \* how long the buyer locks its escrow for
    DefaultWindow,      \* default_challenge_window_ms of the agent
    MaxTime,            \* bound: where the clock stops
    MaxAcks,            \* bound: how often an accept is handled
    None                \* Python's None

VARIABLES
    escrows, balances, paid, lock_ops, op_results, now, credited,  \* of EscrowAgent
    price,   \* price_cu of the registered capability
    offer,   \* the provider's record of the offer, None if it has none
    acks,    \* the answers to acmp/accept, in the order they were sent
    sent,    \* the requests sent to the agent, and the accept
    buyer,   \* the program of the buyer and the price it agreed to
    job      \* what became of the invoke of each task

agent == <<escrows, balances, paid, lock_ops, op_results, now, credited>>
vars == <<agent, price, offer, acks, sent, buyer, job>>

--------------------------------------------------------------------------------
(* Data *)

E == "escrow"
LockRef == <<"lock", None>>
AcceptRef == <<"accept", None>>

\* One op_ref for each call of EscrowClient; "giveup" is a reclaim as well.
OpRefs == ({"bind", "dispute", "reclaim", "giveup"} \X {None})
            \cup ({"release", "claim"} \X TaskIds)

Agent == INSTANCE EscrowAgent WITH
    Parties <- {Buyer, Provider}, EscrowIds <- {E}, LockRefs <- {LockRef},
    Amounts <- {}, Windows <- {}, ValidUntils <- {},
    Funds <- [p \in {Buyer, Provider} |-> IF p = Buyer THEN Budget ELSE 0],
    ReuseTaskIds <- TRUE

Esc == escrows[E]

AcceptCode == {"ok", "not_found", "already_accepted", "expired"}

Request ==
    [op : OpRefs, amount : Nat \cup {None}]
      \cup [op : {LockRef}, until : Nat] \cup [op : {AcceptRef}]

OfferRequest == [max_price_cu : {Budget}, offer_valid_ms : Validities \cup {None}]

\* What the provider keeps of an offer, what the buyer gets, and the answer to its
\* accept.
OfferRecord == [price : Prices, valid_until : Int, accepted : BOOLEAN]
Offer == [price : Prices, valid_until : Int]
Ack == [code : AcceptCode, price : Prices \cup {None}]

Step == {"start", "offered", "locking", "locked", "accepting", "accepted", "binding",
         "trading", "closing", "done", "stopped"}

JobState == {"none", "invoked", "covering", "working", "done", "refused"}

ASSUME PricesAssumption == Prices \subseteq Nat \ {0} /\ Budget \in Nat \ {0}
ASSUME TimesAssumption ==
    /\ Validities \subseteq Int /\ DefaultWindow \in Int
    /\ {DefaultValidity, LockTime} \subseteq Nat
ASSUME BoundsAssumption == MaxTime \in Nat /\ MaxAcks \in Nat
ASSUME PartiesAssumption == Buyer # Provider
ASSUME NoneAssumption ==
    /\ None \notin {Buyer, Provider} /\ None \notin Prices
    /\ None \notin Agent!Escrow /\ None \notin Agent!Claim /\ None \notin Agent!Outcome

Send(request) == sent' = sent \cup {request}
Goto(step) == buyer' = [buyer EXCEPT !.at = step]

Outcome(op) == IF Esc = None THEN None ELSE op_results[E][op]
Answered(op) == Outcome(op) # None
Ok(op) == Answered(op) /\ Outcome(op).code = "ok"

--------------------------------------------------------------------------------
(* Negotiation: acmp/offerRequest and acmp/accept *)

\* offer_valid_ms or DEFAULT_OFFER_VALID_MS: 0 is no wish either.
Validity(asked) == IF asked \in {None, 0} THEN DefaultValidity ELSE asked

RequestOffer ==
    /\ buyer.at = "start"
    /\ \E request \in OfferRequest :
         IF price > request.max_price_cu
         THEN Goto("stopped") /\ UNCHANGED offer
         ELSE LET until == now + Validity(request.offer_valid_ms) IN
              /\ offer' = [price |-> price, valid_until |-> until, accepted |-> FALSE]
              /\ buyer' = [buyer EXCEPT !.at = "offered",
                             !.offer = [price |-> price, valid_until |-> until]]
    /\ UNCHANGED <<agent, price, acks, sent, job>>

SendAccept ==
    /\ buyer.at = "locked"
    /\ Send([op |-> AcceptRef])
    /\ Goto("accepting")
    /\ UNCHANGED <<agent, price, offer, acks, job>>

AcceptVerdict ==
    IF offer = None THEN "not_found"
    ELSE IF offer.accepted THEN "already_accepted"
    ELSE IF now > offer.valid_until THEN "expired"
    ELSE "ok"

\* The ack carries the price on record, and the escrow id the buyer sent.
HandleAccept ==
    /\ [op |-> AcceptRef] \in sent
    /\ Len(acks) < MaxAcks
    /\ LET code == AcceptVerdict IN
       /\ acks' = Append(acks, [code |-> code,
                                price |-> IF code = "ok" THEN offer.price ELSE None])
       /\ offer' = IF code = "ok" THEN [offer EXCEPT !.accepted = TRUE] ELSE offer
    /\ UNCHANGED <<agent, price, sent, buyer, job>>

\* The first answer that arrives; an error ends the program.
AcceptAnswered ==
    /\ buyer.at = "accepting"
    /\ \E i \in DOMAIN acks :
         buyer' = IF acks[i].code = "ok"
                  THEN [buyer EXCEPT !.at = "accepted", !.price = acks[i].price]
                  ELSE [buyer EXCEPT !.at = "stopped"]
    /\ UNCHANGED <<agent, price, offer, acks, sent, job>>

\* A new connection is served by a fresh Provider, which knows of no offer.
Reconnect ==
    /\ offer # None /\ \A t \in TaskIds : job[t].state = "none"
    /\ offer' = None
    /\ UNCHANGED <<agent, price, acks, sent, buyer, job>>

\* Provider.register again, at another price.
Reprice ==
    /\ \E p \in Prices \ {price} : price' = p
    /\ UNCHANGED <<agent, offer, acks, sent, buyer, job>>

--------------------------------------------------------------------------------
(* The buyer's calls of EscrowClient and Buyer.invoke *)

SendLock ==
    /\ buyer.at = "offered"
    /\ Send([op |-> LockRef, until |-> now + LockTime])
    /\ Goto("locking")
    /\ UNCHANGED <<agent, price, offer, acks, job>>

LockAnswered ==
    /\ buyer.at = "locking" /\ lock_ops[LockRef] # None
    /\ Goto(IF lock_ops[LockRef].code = "ok" THEN "locked" ELSE "stopped")
    /\ UNCHANGED <<agent, price, offer, acks, sent, job>>

SendBind ==
    /\ buyer.at = "accepted"
    /\ Send([op |-> <<"bind", None>>, amount |-> None])
    /\ Goto("binding")
    /\ UNCHANGED <<agent, price, offer, acks, job>>

BindAnswered ==
    /\ buyer.at = "binding" /\ Answered(<<"bind", None>>)
    /\ Goto(IF Ok(<<"bind", None>>) THEN "trading" ELSE "stopped")
    /\ UNCHANGED <<agent, price, offer, acks, sent, job>>

\* An impatient buyer may invoke before the bind was answered.
Invoke(t) ==
    /\ buyer.at \in {"binding", "trading"}
    /\ job[t].state = "none"
    /\ job' = [job EXCEPT ![t].state = "invoked"]
    /\ UNCHANGED <<agent, price, offer, acks, sent, buyer>>

SendRelease(t) ==
    /\ buyer.at = "trading" /\ job[t].state = "done"
    /\ Send([op |-> <<"release", t>>, amount |-> job[t].cost])
    /\ UNCHANGED <<agent, price, offer, acks, buyer, job>>

\* The buyer contests a claim instead.
SendDispute(t) ==
    /\ buyer.at = "trading"
    /\ [op |-> <<"claim", t>>, amount |-> job[t].cost] \in sent
    /\ Send([op |-> <<"dispute", None>>, amount |-> None])
    /\ UNCHANGED <<agent, price, offer, acks, buyer, job>>

\* Fault: the program goes on when its releases are sent.
SettledSent ==
    \A t \in TaskIds :
      job[t].state = "done" => [op |-> <<"release", t>>, amount |-> job[t].cost] \in sent

\* Every task is answered, and every release of what a task cost.
Settled ==
    \A t \in TaskIds :
      /\ job[t].state \in {"none", "refused", "done"}
      /\ job[t].state = "done" => Ok(<<"release", t>>)

SendReclaim ==
    /\ buyer.at = "trading" /\ Settled
    /\ Send([op |-> <<"reclaim", None>>, amount |-> None])
    /\ Goto("closing")
    /\ UNCHANGED <<agent, price, offer, acks, job>>

ReclaimAnswered ==
    /\ buyer.at = "closing" /\ Answered(<<"reclaim", None>>)
    /\ Goto(IF Ok(<<"reclaim", None>>) THEN "done" ELSE "stopped")
    /\ UNCHANGED <<agent, price, offer, acks, sent, job>>

\* At any time the buyer may give up and ask for all that remains.
GiveUp ==
    /\ buyer.at \notin {"start", "offered", "locking", "done"}
    /\ Send([op |-> <<"giveup", None>>, amount |-> None])
    /\ Goto("stopped")
    /\ UNCHANGED <<agent, price, offer, acks, job>>

--------------------------------------------------------------------------------
(* The provider: Provider._execute with an EscrowClient, and its claims *)

WithinBudget == price <= buyer.price

\* Fault: the price is left to be looked up when the task is done.
CheckPriceOnly(t) ==
    /\ job[t].state = "invoked"
    /\ job' = [job EXCEPT ![t].state = IF WithinBudget THEN "covering" ELSE "refused"]
    /\ UNCHANGED <<agent, price, offer, acks, sent, buyer>>

\* What the capability costs is fixed here, whatever happens to it later.
CheckPrice(t) ==
    /\ job[t].state = "invoked"
    /\ job' = [job EXCEPT ![t] = IF WithinBudget
                                 THEN [state |-> "covering", cost |-> price]
                                 ELSE [@ EXCEPT !.state = "refused"]]
    /\ UNCHANGED <<agent, price, offer, acks, sent, buyer>>

\* Fault: anybody may ask for the status of an escrow.
CoversAnyone(b, amount) == Agent!Remaining(b.esc) >= amount

\* EscrowClient.covers, from the status the agent gives to a party of the escrow.
\* Any other error than ESCROW_NOT_FOUND is passed on, and fails the invoke too.
Covers(b, amount) ==
    /\ Provider \in {b.esc.buyer_id, b.esc.payee_id}
    /\ Agent!Remaining(b.esc) >= amount

CheckCovers(t) ==
    /\ job[t].state = "covering"
    /\ Agent!Status(E)
    /\ job' = [job EXCEPT ![t].state =
                 IF Covers(Agent!Resolved(E), job[t].cost) THEN "working" ELSE "refused"]
    /\ UNCHANGED <<price, offer, acks, sent, buyer>>

\* Fault: the result names the price of the day.
CostLooked(t) == price

Cost(t) == job[t].cost

Work(t) ==
    /\ job[t].state = "working"
    /\ job' = [job EXCEPT ![t] = [state |-> "done", cost |-> Cost(t)]]
    /\ UNCHANGED <<agent, price, offer, acks, sent, buyer>>

SendClaim(t) ==
    /\ job[t].state = "done"
    /\ Send([op |-> <<"claim", t>>, amount |-> job[t].cost])
    /\ UNCHANGED <<agent, price, offer, acks, buyer, job>>

--------------------------------------------------------------------------------
(* The agent handles a request, which a party repeats until it is answered *)

HandleLock(r) ==
    /\ r.op = LockRef
    /\ Agent!Lock(Buyer, LockRef, E, Budget, r.until, None, None)

Handle(r) ==
    /\ r.op \in OpRefs
    /\ LET method == r.op[1] IN
       \/ method = "bind" /\ Agent!Bind(Buyer, E, r.op, Provider, None)
       \/ method = "release" /\ Agent!Release(Buyer, E, r.op, r.amount, Provider)
       \/ method \in {"reclaim", "giveup"} /\ Agent!Reclaim(Buyer, E, r.op, r.amount)
       \/ method = "claim" /\ Agent!ClaimOp(Provider, E, r.op, r.amount, r.op[2])
       \/ method = "dispute" /\ Agent!Dispute(Buyer, E, r.op)

\* Anybody may look at the escrow, and time passes.
AgentSteps ==
    /\ \/ \E r \in sent : HandleLock(r) \/ Handle(r)
       \/ Agent!Status(E)
       \/ Agent!Tick
    /\ UNCHANGED <<price, offer, acks, sent, buyer, job>>

--------------------------------------------------------------------------------

Init ==
    /\ Agent!Init
    /\ price \in Prices
    /\ offer = None
    /\ acks = <<>>
    /\ sent = {}
    /\ buyer = [at |-> "start", offer |-> None, price |-> None]
    /\ job = [t \in TaskIds |-> [state |-> "none", cost |-> None]]

Buys ==
    \/ RequestOffer \/ SendLock \/ LockAnswered \/ SendAccept \/ AcceptAnswered
    \/ SendBind \/ BindAnswered \/ SendReclaim \/ ReclaimAnswered \/ GiveUp
    \/ \E t \in TaskIds : Invoke(t) \/ SendRelease(t) \/ SendDispute(t)

Provides ==
    \/ HandleAccept \/ Reconnect \/ Reprice
    \/ \E t \in TaskIds : CheckPrice(t) \/ CheckCovers(t) \/ Work(t) \/ SendClaim(t)

Next == Buys \/ Provides \/ AgentSteps

Spec == Init /\ [][Next]_vars
================================================================================
