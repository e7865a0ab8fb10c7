---------------------------- MODULE PurchasePromises ----------------------------
(* What negotiation, escrow and invoke promise together. *)
EXTENDS Purchase, FiniteSetsExt

(* Type correctness of what the purchase adds to the agent; in particular no task
   is under way without a price. *)
TypeOK ==
    /\ price \in Prices
    /\ offer \in OfferRecord \cup {None}
    /\ acks \in Seq(Ack)
    /\ sent \subseteq Request
    /\ buyer \in [at : Step, offer : Offer \cup {None}, price : Prices \cup {None}]
    /\ job \in [TaskIds -> [state : JobState, cost : Prices \cup {None}]]
    /\ \A t \in TaskIds :
         job[t].state \in {"covering", "working", "done"} => job[t].cost # None

--------------------------------------------------------------------------------
(* The terms that were negotiated hold, although the accept may be handled late,
   twice or by a provider that forgot the offer, and although the price of the
   capability may change at any time: at most one accept is acknowledged, at the
   price the offer named, and no task costs more than that (provider.py:552-575,
   347). *)
TermsHold ==
    LET positive == {i \in DOMAIN acks : acks[i].code = "ok"} IN
    /\ Cardinality(positive) <= 1
    /\ \A i \in positive : acks[i].price = buyer.offer.price
    /\ \A t \in TaskIds :
         job[t].state = "done" => job[t].cost <= buyer.offer.price

Accepted(t) == job[t].state \in {"working", "done"}

(* What covers() is good for.  Once the provider began a task, and whatever the
   buyer asks for meanwhile, however late its bind and its reclaims are handled
   (Layer 1 s3.3, Layer 4 s4.4): all the task costs is still there, and were the
   provider's claim of it handled now, after what time has done to the escrow, the
   agent would accept it, or tell the provider that another claim is pending.
   Three things end this.  The lock runs out; the first settlement gives the rest
   back to the buyer to reclaim; and a dispute ends it for good, also for a task
   covered after it, since covers() looks at what remains and not at the state
   (escrow.py:919, 583-589). *)
WorkIsPayable ==
    \A t \in TaskIds :
      Accepted(t) =>
        LET esc == Agent!Resolved(E).esc IN
        \/ esc.expired \/ esc.had_settlement \/ esc.state = "disputed"
        \/ /\ Agent!Remaining(esc) >= job[t].cost
           /\ esc.claim = None => Agent!ClaimCode(esc, Provider, job[t].cost) = "ok"

Done == {t \in TaskIds : job[t].state = "done"}

(* A buyer whose program ran to its end (examples/05_escrow_e2e.py:141-147) paid
   for every task that was done and got all the rest back, although its requests
   may be repeated and cross the claims of the provider. *)
PurchaseSettles ==
    buyer.at = "done" =>
      /\ Esc.state = "closed" /\ Esc.claim = None
      /\ credited[E][Buyer] + credited[E][Provider] = Budget
      /\ credited[E][Provider] >= SumFunction([t \in Done |-> job[t].cost])
================================================================================
