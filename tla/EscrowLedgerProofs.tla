-------------------------- MODULE EscrowLedgerProofs ---------------------------
(***************************************************************************)
(* Proofs that the sums come out even: the accounts of the ledger against  *)
(* the records of all escrows, and the records against the answers given.  *)
(***************************************************************************)
EXTENDS EscrowCustodyProofs, SetInduction

--------------------------------------------------------------------------------
(* The ledger against the escrows.  An escrow's share of a party's balance is
   added up over the escrows opened so far, of which there are finitely many *)

Shares(p) == [e \in Opened |-> Share(e, p)]

Balanced == \A p \in Parties : balances[p] = Funds[p] + SumFunctionOnSet(Shares(p), Opened)

LedgerInv == Inv /\ IsFiniteSet(Opened) /\ Balanced

\* The shares are integers.
LEMMA ShareType ==
    ASSUME Inv, NEW e \in Opened, NEW p \in Parties
    PROVE  Share(e, p) \in Int
<1>1. escrows[e] \in Escrow
  BY DEF Inv, TypeOK, Opened
<1>2. /\ escrows[e].released_cu \in Nat /\ escrows[e].reclaimed_cu \in Nat
      /\ escrows[e].locked_cu \in Nat
  BY <1>1 DEF Escrow
<1> QED BY <1>2 DEF Share, Due

\* A handler opens no escrow.
LEMMA TouchKeepsOpened ==
    ASSUME Inv, NEW e \in Opened, NEW after, Commit(after), Touches(after, e)
    PROVE  /\ escrows' = [escrows EXCEPT ![e] = after.esc]
           /\ balances' = after.balances
           /\ escrows'[e] = after.esc /\ Opened' = Opened
<1>1. /\ BookInv(after) /\ after.esc.escrow_id = e /\ e \in EscrowIds
  BY DEF Touches, Opened
<1>2. after.esc \in Escrow
  BY <1>1 DEF BookInv, BookType
<1>3. escrows' = [escrows EXCEPT ![e] = after.esc] /\ balances' = after.balances
  BY <1>1 DEF Commit
<1> QED BY <1>1, <1>2, <1>3, NoneAssumption DEF Inv, TypeOK, Opened

\* A handler moves an account as it moves the share of the escrow it works on.
LEMMA TouchShares ==
    ASSUME Inv, ~ReuseTaskIds, NEW e \in Opened, NEW after, Commit(after),
           Touches(after, e), NEW p \in Parties
    PROVE  balances'[p] - balances[p] = Share(e, p)' - Share(e, p)
<1> DEFINE b == Book(e)
<1>1. /\ b.esc = escrows[e] /\ b.balances = balances /\ b.credited = credited[e]
      /\ BookInv(b) /\ b.esc.escrow_id = e /\ e \in EscrowIds
  BY DEF Book, Inv, Opened
<1>2. BookInv(after) /\ after.esc.escrow_id = e
  BY DEF Touches
<1>3. /\ b.esc \in Escrow /\ after.esc \in Escrow
      /\ b.balances[p] \in Nat /\ b.credited[p] \in Nat
      /\ after.balances[p] \in Nat /\ after.credited[p] \in Nat
  BY <1>1, <1>2 DEF BookInv, BookType
<1>4. escrows'[e] = after.esc /\ balances' = after.balances
  BY TouchKeepsOpened
<1>6. after.credited[p] = Due(after.esc, p) /\ b.credited[p] = Due(b.esc, p)
  BY <1>1, <1>2 DEF BookInv, BookPaid
<1> DEFINE locked(esc) == IF p = esc.buyer_id THEN esc.locked_cu ELSE 0
<1>7. /\ after.balances[p] - b.balances[p] = after.credited[p] - b.credited[p]
      /\ locked(after.esc) = locked(b.esc)
  <2>1. CASE after = b
    BY <1>3, <2>1
  <2>2. CASE Moves(after, b)
    BY <2>2 DEF Moves, Gains, Follows
  <2>3. ASSUME NEW q \in Parties, Contests(after, b, q)
        PROVE  /\ after.balances[p] - b.balances[p] = after.credited[p] - b.credited[p]
               /\ locked(after.esc) = locked(b.esc)
    <3>1. after = Disputed(b)
      BY <2>3 DEF Contests
    <3>2. b \in BookType /\ b.esc \in Escrow
      BY <1>1 DEF BookInv, BookType
    <3> HIDE DEF b
    <3>3. /\ after.balances = b.balances /\ after.credited = b.credited
          /\ after.esc.buyer_id = b.esc.buyer_id /\ after.esc.locked_cu = b.esc.locked_cu
      BY <3>1, <3>2 DEF Disputed, BookType, Escrow
    <3> QED BY <1>3, <3>3
  <2> QED BY <2>1, <2>2, <2>3 DEF Touches
<1>8. locked(b.esc) \in Nat
  BY <1>3 DEF Escrow
<1>9. Share(e, p) = b.credited[p] - locked(b.esc)
  BY <1>1, <1>6 DEF Share
<1>10. Share(e, p)' = after.credited[p] - locked(after.esc)
  BY <1>4, <1>6 DEF Share, Due
<1> HIDE DEF b, locked
<1>11. balances'[p] - balances[p] = Share(e, p)' - Share(e, p)
  <2>1. balances[p] = b.balances[p] /\ balances'[p] = after.balances[p]
    BY <1>1, <1>4
  <2> QED BY <1>3, <1>7, <1>8, <1>9, <1>10, <2>1
<1> QED BY <1>11

\* The account follows the share when a handler commits.
LEMMA CommitBalances ==
    ASSUME LedgerInv, Inv', ~ReuseTaskIds, NEW e \in Opened, NEW after, Commit(after),
           Touches(after, e)
    PROVE  LedgerInv'
<1>1. Inv /\ IsFiniteSet(Opened) /\ Balanced /\ e \in EscrowIds
  BY DEF LedgerInv, Opened
<1>2. ASSUME NEW p \in Parties
      PROVE  balances'[p] = Funds[p] + SumFunctionOnSet(Shares(p)', Opened)
  <2> DEFINE f == Shares(p)
  <2>1. PICK g : g = Shares(p)'
    OBVIOUS
  <2>2. /\ escrows' = [escrows EXCEPT ![e] = after.esc] /\ Opened' = Opened
        /\ balances'[p] - balances[p] = Share(e, p)' - Share(e, p)
    BY <1>1, TouchShares, TouchKeepsOpened
  <2>3. Integral(f, Opened) /\ \A x \in Opened : f[x] = Share(x, p)
    BY <1>1, ShareType DEF Shares, Integral
  <2>4. \A x \in Opened : g[x] = Share(x, p)'
    BY <2>1, <2>2 DEF Shares
  <2>5. Alike(f, g, Opened \ {e})
    <3>1. \A x \in Opened \ {e} : escrows'[x] = escrows[x]
      BY <1>1, <2>2 DEF Inv, TypeOK, Opened
    <3> QED BY <2>3, <2>4, <3>1 DEF Share, Alike
  <2>6. g[e] \in Int
    <3>1. e \in Opened'
      BY <2>2
    <3>2. escrows'[e] \in Escrow
      BY <3>1 DEF Inv, TypeOK, Opened
    <3>3. /\ escrows'[e].released_cu \in Nat /\ escrows'[e].reclaimed_cu \in Nat
          /\ escrows'[e].locked_cu \in Nat
      BY <3>2 DEF Escrow
    <3>4. Share(e, p)' \in Int
      BY <3>3 DEF Share, Due
    <3> QED BY <2>4, <3>4
  <2>7. f[e] \in Int /\ f[e] = Share(e, p) /\ g[e] = Share(e, p)'
    BY <2>3, <2>4 DEF Integral
  <2>8. balances[p] = Funds[p] + SumFunctionOnSet(f, Opened)
    BY <1>1 DEF Balanced
  <2>9. balances[p] \in Nat /\ balances'[p] \in Nat /\ Funds[p] \in Nat
    BY <1>1, FundsAssumption DEF Inv, TypeOK
  <2> HIDE DEF f
  <2>10. /\ SumFunctionOnSet(f, Opened) \in Int
         /\ SumFunctionOnSet(g, Opened) = SumFunctionOnSet(f, Opened) + (g[e] - f[e])
    BY <1>1, <2>3, <2>5, <2>6, SumChanges, SumType
  <2>11. balances'[p] = Funds[p] + SumFunctionOnSet(g, Opened)
    BY <2>2, <2>6, <2>7, <2>8, <2>9, <2>10
  <2> QED BY <2>1, <2>11
<1>3. Opened' = Opened
  BY <1>1, TouchKeepsOpened
<1> QED BY <1>1, <1>2, <1>3 DEF LedgerInv, Balanced

\* escrowLock takes from its buyer's account what the new escrow holds.
LEMMA LockBalances ==
    ASSUME LedgerInv, Inv', NEW p \in Parties, NEW op \in LockRefs, NEW e \in EscrowIds,
           NEW amount \in Amounts, NEW until \in ValidUntils,
           NEW window \in Windows \cup {None}, NEW payee \in Parties \cup {None},
           Lock(p, op, e, amount, until, window, payee)
    PROVE  LedgerInv'
<1> DEFINE esc == NewEscrow(e, p, amount, until, window, payee)
<1>1. /\ Inv /\ IsFiniteSet(Opened) /\ Balanced /\ amount \in Nat
      /\ escrows \in [EscrowIds -> Escrow \cup {None}]
      /\ balances \in [Parties -> Nat]
  BY AmountsAssumption DEF LedgerInv, Inv, TypeOK
<1>2. /\ escrows' = [escrows EXCEPT ![e] = esc] /\ escrows[e] = None
      /\ balances' = [balances EXCEPT ![p] = @ - amount]
  BY DEF Lock
<1>3. /\ esc # None /\ esc.buyer_id = p /\ esc.locked_cu = amount
      /\ esc.released_cu = 0 /\ esc.reclaimed_cu = 0
  BY NewEscrowType DEF NewEscrow
<1> HIDE DEF esc
<1>4. e \notin Opened /\ Opened' = Opened \cup {e} /\ escrows'[e] = esc
  BY <1>1, <1>2, <1>3 DEF Opened
<1>5. ASSUME NEW q \in Parties
      PROVE  balances'[q] = Funds[q] + SumFunctionOnSet(Shares(q)', Opened \cup {e})
  <2> DEFINE f == Shares(q)
             part == IF q = p THEN amount ELSE 0
  <2>1. PICK g : g = Shares(q)'
    OBVIOUS
  <2>2. Integral(f, Opened) /\ \A x \in Opened : f[x] = Share(x, q)
    BY <1>1, ShareType DEF Shares, Integral
  <2>3. \A x \in Opened \cup {e} : g[x] = Share(x, q)'
    BY <1>4, <2>1 DEF Shares
  <2>4. Alike(f, g, Opened)
    <3>1. \A x \in Opened : escrows'[x] = escrows[x]
      BY <1>1, <1>2, <1>4 DEF Opened
    <3> QED BY <2>2, <2>3, <3>1 DEF Share, Alike
  <2>5. g[e] = 0 - part
    <3>1. Due(esc, q) = 0
      BY <1>3 DEF Due
    <3>2. Share(e, q)' = Due(esc, q) - part
      BY <1>3, <1>4 DEF Share, Due
    <3> QED BY <2>3, <3>1, <3>2
  <2>6. part \in Nat /\ balances'[q] = balances[q] - part
    BY <1>1, <1>2
  <2>7. balances[q] = Funds[q] + SumFunctionOnSet(f, Opened)
    BY <1>1 DEF Balanced
  <2>8. balances[q] \in Nat /\ Funds[q] \in Nat
    BY <1>1, FundsAssumption
  <2>9. g[e] \in Int
    BY <2>5, <2>6
  <2> HIDE DEF f, part
  <2>10. /\ SumFunctionOnSet(f, Opened) \in Int
         /\ SumFunctionOnSet(g, Opened \cup {e}) = SumFunctionOnSet(f, Opened) + g[e]
    <3>1. ExtendsBy(f, g, Opened, e)
      BY <1>1, <1>4, <2>2, <2>4, <2>9 DEF ExtendsBy
    <3>2. IsFiniteSet(Opened) /\ Integral(f, Opened)
      BY <3>1 DEF ExtendsBy
    <3> QED BY <3>1, <3>2, SumAdds, SumType
  <2>11. balances'[q] = Funds[q] + SumFunctionOnSet(g, Opened \cup {e})
    BY <2>5, <2>6, <2>7, <2>8, <2>10
  <2> QED BY <2>1, <2>11
<1>6. IsFiniteSet(Opened')
  BY <1>1, <1>4, FS_AddElement
<1> QED BY <1>4, <1>5, <1>6 DEF LedgerInv, Balanced

\* The ledger matches the escrows after every step.
LEMMA LedgerStep ==
    ASSUME LedgerInv, ~ReuseTaskIds, [Next]_vars
    PROVE  LedgerInv'
<1>1. Inv /\ Inv'
  BY NextInv DEF LedgerInv
<1>2. CASE UNCHANGED <<escrows, balances>>
  BY <1>1, <1>2 DEF LedgerInv, Balanced, Shares, Share, Opened
<1>3. ASSUME NEW p \in Parties, NEW op \in LockRefs, NEW e \in EscrowIds,
             NEW amount \in Amounts, NEW until \in ValidUntils,
             NEW window \in Windows \cup {None}, NEW payee \in Parties \cup {None},
             Lock(p, op, e, amount, until, window, payee)
      PROVE  LedgerInv'
  BY <1>1, <1>3, LockBalances
<1>4. ASSUME NEW e \in Opened, NEW after, Commit(after), Touches(after, e)
      PROVE  LedgerInv'
  BY <1>1, <1>4, CommitBalances
<1> QED BY <1>1, <1>2, <1>3, <1>4, StepTouches

\* No escrow is open at the start, and the balances are the funds.
LEMMA LedgerStart == Init => LedgerInv
<1> SUFFICES ASSUME Init PROVE LedgerInv
  OBVIOUS
<1>1. Opened = {} /\ balances = Funds
  BY DEF Init, Opened
<1>2. IsFiniteSet(Opened)
  BY <1>1, FS_EmptySet
<1>3. ASSUME NEW p \in Parties
      PROVE  balances[p] = Funds[p] + SumFunctionOnSet(Shares(p), Opened)
  <2> DEFINE f == Shares(p)
  <2>1. SumFunctionOnSet(f, Opened) = 0
    <3> HIDE DEF f
    <3> QED BY <1>1, SumOfNone
  <2> QED BY <1>1, <2>1, FundsAssumption
<1> QED BY <1>2, <1>3, InitInv DEF LedgerInv, Balanced

--------------------------------------------------------------------------------
(* The answers against the records.  An escrow caches finitely many answers, and
   none before it is opened *)

Moving == {"release", "reclaim"}

\* What the answers of one escrow say moved, against what its record says.
Accounted(e) ==
    /\ escrows[e].released_cu >= Reported(e, "release")
    /\ escrows[e].reclaimed_cu >= Reported(e, "reclaim")
    /\ ~escrows[e].expired => escrows[e].reclaimed_cu = Reported(e, "reclaim")

AnswersInv ==
    /\ Inv
    /\ \A e \in EscrowIds \ Opened, op \in OpRefs : op_results[e][op] = None
    /\ \A e \in Opened :
         /\ \A method \in Moving : IsFiniteSet(AnsweredOk(e, method))
         /\ Accounted(e)

\* The sum of what was answered is a natural number's worth of amounts.
LEMMA ReportedType ==
    ASSUME Inv, NEW e \in EscrowIds, NEW method, IsFiniteSet(AnsweredOk(e, method))
    PROVE  /\ Reported(e, method) \in Int
           /\ AnsweredOk(e, method) = {} => Reported(e, method) = 0
<1> DEFINE S == AnsweredOk(e, method)
           f == [op \in S |-> op_results[e][op].amount]
<1>1. Reported(e, method) = SumFunctionOnSet(f, S)
  BY DEF Reported, SumFunction
<1>2. Integral(f, S)
  <2>1. ASSUME NEW op \in S PROVE op_results[e][op].amount \in Nat
    <3>1. op_results[e][op] \in Outcome
      BY DEF Inv, TypeOK, AnsweredOk
    <3> QED BY <3>1 DEF Outcome
  <2> QED BY <2>1 DEF Integral
<1>3. IsFiniteSet(S)
  OBVIOUS
<1> HIDE DEF f, S
<1>4. SumFunctionOnSet(f, S) \in Int /\ (S = {} => SumFunctionOnSet(f, S) = 0)
  BY <1>2, <1>3, SumType, SumOfNone
<1> QED BY <1>1, <1>4 DEF S

\* A first answer adds its amount to what its method reported.
LEMMA AnswerAdds ==
    ASSUME Inv, NEW e \in EscrowIds, NEW op \in OpRefs, op_results[e][op] = None,
           NEW outcome \in Outcome,
           op_results' = [op_results EXCEPT ![e][op] = outcome],
           NEW method, IsFiniteSet(AnsweredOk(e, method))
    PROVE  /\ IsFiniteSet(AnsweredOk(e, method)')
           /\ Reported(e, method)' =
                Reported(e, method) + (IF outcome.method = method THEN outcome.amount ELSE 0)
<1>a. PICK S : S = AnsweredOk(e, method)
  OBVIOUS
<1>b. PICK f : f = [o \in S |-> op_results[e][o].amount]
  OBVIOUS
<1>1. /\ op_results \in [EscrowIds -> [OpRefs -> Outcome \cup {None}]]
      /\ outcome # None /\ outcome.amount \in Nat
  BY NoneAssumption DEF Inv, TypeOK, Outcome
<1>2. op_results'[e] = [op_results[e] EXCEPT ![op] = outcome]
  BY <1>1
<1>3. op_results'[e][op] = outcome /\ \A o \in OpRefs \ {op} : op_results'[e][o] = op_results[e][o]
  BY <1>1, <1>2
<1>4. op \notin S /\ IsFiniteSet(S)
  BY <1>a DEF AnsweredOk
<1>5. Reported(e, method) = SumFunctionOnSet(f, S)
  BY <1>a, <1>b DEF Reported, SumFunction
<1>6. PICK T : T = AnsweredOk(e, method)'
  OBVIOUS
<1>7. PICK g : g = [o \in T |-> op_results'[e][o].amount]
  OBVIOUS
<1>8. Reported(e, method)' = SumFunctionOnSet(g, T)
  BY <1>6, <1>7 DEF Reported, SumFunction
<1>9. Integral(f, S)
  <2>1. ASSUME NEW o \in S PROVE op_results[e][o].amount \in Nat
    <3>1. op_results[e][o] \in Outcome
      BY <1>1, <1>a DEF AnsweredOk
    <3> QED BY <3>1 DEF Outcome
  <2> QED BY <1>b, <2>1 DEF Integral
<1>10. \A o \in S : o \in OpRefs \ {op} /\ f[o] = op_results[e][o].amount
  BY <1>a, <1>b DEF AnsweredOk
<1>11. SumFunctionOnSet(f, S) \in Int
  BY <1>4, <1>9, SumType
<1>12. CASE outcome.method = method
  <2>1. T = S \cup {op}
    BY <1>1, <1>3, <1>6, <1>12, <1>a DEF AnsweredOk
  <2>2. g[op] = outcome.amount /\ g[op] \in Int
    BY <1>1, <1>3, <1>7, <2>1
  <2>3. Alike(f, g, S)
    BY <1>3, <1>7, <1>10, <2>1 DEF Alike
  <2>4. /\ IsFiniteSet(T)
        /\ SumFunctionOnSet(g, T) = SumFunctionOnSet(f, S) + g[op]
    <3>0. ExtendsBy(f, g, S, op)
      BY <1>4, <1>9, <1>10, <2>2, <2>3 DEF ExtendsBy
    <3>1. SumFunctionOnSet(g, S \cup {op}) = SumFunctionOnSet(f, S) + g[op]
      BY <3>0, SumAdds
    <3>2. IsFiniteSet(S \cup {op})
      BY <1>4, FS_AddElement
    <3> QED BY <2>1, <3>1, <3>2
  <2> QED BY <1>5, <1>6, <1>8, <1>12, <2>2, <2>4
<1>13. CASE outcome.method # method
  <2>1. T = S
    BY <1>1, <1>3, <1>4, <1>6, <1>13, <1>a DEF AnsweredOk
  <2>2. Alike(f, g, S)
    BY <1>3, <1>7, <1>10, <2>1 DEF Alike
  <2>3. SumFunctionOnSet(g, T) = SumFunctionOnSet(f, S)
    BY <1>4, <1>9, <2>1, <2>2, SumsOfAlike
  <2> QED BY <1>4, <1>5, <1>6, <1>8, <1>11, <1>13, <2>1, <2>3
<1> QED BY <1>12, <1>13

\* What is answered for one escrow is not looked at for another.
LEMMA AnswersElsewhere ==
    ASSUME NEW e, op_results'[e] = op_results[e], NEW method
    PROVE  /\ AnsweredOk(e, method)' = AnsweredOk(e, method)
           /\ Reported(e, method)' = Reported(e, method)
BY DEF Reported, AnsweredOk

\* The record t is r with what the outcome reports, and nothing else, drawn.
Tells(outcome, t, r) ==
    /\ t.escrow_id = r.escrow_id /\ t.expired = r.expired
    /\ t.released_cu =
         r.released_cu + (IF outcome.method = "release" THEN outcome.amount ELSE 0)
    /\ t.reclaimed_cu =
         r.reclaimed_cu + (IF outcome.method = "reclaim" THEN outcome.amount ELSE 0)
    /\ outcome.method = "reclaim" => ~r.expired

\* An answer that reports no movement, of a record that has none.
LEMMA TellsNothing ==
    ASSUME NEW r \in Escrow, NEW t, NEW outcome, outcome.method \notin Moving,
           t.escrow_id = r.escrow_id, t.expired = r.expired,
           t.released_cu = r.released_cu, t.reclaimed_cu = r.reclaimed_cu
    PROVE  Tells(outcome, t, r)
<1> r.released_cu \in Nat /\ r.reclaimed_cu \in Nat
  BY DEF Escrow
<1> QED BY DEF Tells, Moving

\* What a request that is not refused made of the book, its answer tells.
Fulfils(after, s, outcome, e, op) ==
    /\ outcome \in Outcome
    /\ op_results' = [op_results EXCEPT ![e][op] = outcome]
    /\ Commit(after) /\ Tells(outcome, after.esc, s.esc)

\* A refusal tells that nothing moved.
LEMMA RefusalTells ==
    ASSUME NEW s, BookInv(s), NEW e, NEW op, NEW code \in ErrorCode, NEW outcome,
           Answer(e, op, code, outcome, s)
    PROVE  Fulfils(s, s, Error(code), e, op)
<1>1. code # "ok" /\ s.esc \in Escrow
  BY DEF ErrorCode, BookInv, BookType
<1>2. Error(code) \in Outcome /\ Error(code).method \notin Moving
  BY DEF Error, Outcome, Moving
<1>3. Commit(s) /\ op_results' = [op_results EXCEPT ![e][op] = Error(code)]
  BY <1>1 DEF Answer
<1>4. Tells(Error(code), s.esc, s.esc)
  BY <1>1, <1>2, TellsNothing
<1> QED BY <1>2, <1>3, <1>4 DEF Fulfils

\* Whatever a fresh request did to the resolved book is what its answer tells.
LEMMA RequestTells ==
    ASSUME NEW p \in Parties, NEW e \in EscrowIds, NEW op \in OpRefs, Request(p, e, op),
           BookInv(Resolved(e))
    PROVE  \E after, outcome : Fulfils(after, Resolved(e), outcome, e, op)
<1> DEFINE s == Resolved(e)
           Goal == \E after, outcome : Fulfils(after, s, outcome, e, op)
<1>1. BookInv(s) /\ s \in BookType /\ s.esc \in Escrow
  BY DEF BookInv, BookType
<1>2. ASSUME NEW code \in ErrorCode, NEW outcome, Answer(e, op, code, outcome, s)
      PROVE  Goal
  <2> HIDE DEF s
  <2> QED BY <1>1, <1>2, RefusalTells
<1>3. ASSUME NEW outcome \in Outcome, NEW after, Answer(e, op, "ok", outcome, after),
             Tells(outcome, after.esc, s.esc)
      PROVE  Goal
  BY <1>3 DEF Answer, Fulfils
<1>4. ASSUME NEW payee \in Parties, NEW window \in Windows \cup {None},
             Bind(p, e, op, payee, window)
      PROVE  Goal
  <2> DEFINE code == BindCode(s.esc, p)
             after == Bound(s, payee, window)
  <2>1. Answer(e, op, code, Result("bind", 0), IF code = "ok" THEN after ELSE s)
    BY <1>4 DEF Bind
  <2>2. code \in ErrorCode \cup {"ok"}
    BY DEF BindCode, ErrorCode
  <2>3. Result("bind", 0) \in Outcome /\ Result("bind", 0).method \notin Moving
    BY DEF Result, Outcome, Method, Moving
  <2> HIDE DEF s, code
  <2>4. /\ after.esc.escrow_id = s.esc.escrow_id /\ after.esc.expired = s.esc.expired
        /\ after.esc.released_cu = s.esc.released_cu
        /\ after.esc.reclaimed_cu = s.esc.reclaimed_cu
    BY <1>1 DEF Bound, BookType, Escrow
  <2> HIDE DEF after
  <2>5. Tells(Result("bind", 0), after.esc, s.esc)
    BY <1>1, <2>3, <2>4, TellsNothing
  <2> HIDE DEF Goal
  <2>6. CASE code = "ok"
    BY <1>3, <2>1, <2>3, <2>5, <2>6
  <2>7. CASE code \in ErrorCode /\ code # "ok"
    BY <1>2, <2>1, <2>7
  <2> QED BY <2>2, <2>6, <2>7
<1>5. ASSUME NEW amount \in Amounts, NEW payee \in Parties,
             Release(p, e, op, amount, payee)
      PROVE  Goal
  <2> DEFINE code == ReleaseCode(s.esc, p, amount, payee)
             after == Released(s, op, amount, payee)
             esc == Settled(s.esc, payee, amount)
             outcome == Result("release", amount)
  <2>0. amount \in Nat
    BY AmountsAssumption
  <2>1. Answer(e, op, code, outcome, IF code = "ok" THEN after ELSE s)
    BY <1>5 DEF Release
  <2>2. code \in ErrorCode \cup {"ok"}
    BY DEF ReleaseCode, ErrorCode
  <2>3. outcome \in Outcome /\ outcome.method = "release" /\ outcome.amount = amount
    BY <2>0 DEF Result, Outcome, Method
  <2> HIDE DEF s, code, outcome
  <2>4. after.esc = esc
    BY <1>1 DEF Released, Payout, BookType
  <2>5. IsSettled(esc, s.esc, payee, amount)
    BY <1>1, <2>0, SettledType
  <2> HIDE DEF after, esc
  <2>6. s.esc.reclaimed_cu \in Nat
    BY <1>1 DEF Escrow
  <2>7. Tells(outcome, after.esc, s.esc)
    BY <2>3, <2>4, <2>5, <2>6 DEF IsSettled, Tells
  <2> HIDE DEF Goal
  <2>8. CASE code = "ok"
    BY <1>3, <2>1, <2>3, <2>7, <2>8
  <2>9. CASE code \in ErrorCode /\ code # "ok"
    BY <1>2, <2>1, <2>9
  <2> QED BY <2>2, <2>8, <2>9
<1>6. ASSUME NEW request \in Amounts \cup {None}, Reclaim(p, e, op, request)
      PROVE  Goal
  <2> DEFINE code == ReclaimCode(s.esc, p, request)
             amount == IF request = None THEN Remaining(s.esc) ELSE request
             after == Reclaimed(s, op, amount)
             outcome == Result("reclaim", amount)
  <2>1. Answer(e, op, code, outcome, IF code = "ok" THEN after ELSE s)
    BY <1>6 DEF Reclaim
  <2>2. code \in ErrorCode \cup {"ok"}
    BY DEF ReclaimCode, ErrorCode
  <2>3. code = "ok" => ~s.esc.expired
    BY DEF ReclaimCode
  <2>4. code = "ok" => amount \in Nat /\ 0 < amount
    <3> HIDE DEF s
    <3> QED BY <1>1, ReclaimAmount
  <2> HIDE DEF s, code, amount, Goal
  <2>5. CASE code = "ok"
    <3>1. outcome \in Outcome /\ outcome.method = "reclaim" /\ outcome.amount = amount
      BY <2>4, <2>5 DEF Result, Outcome, Method
    <3>2. PICK esc \in Escrow :
            /\ IsReclaimed(esc, s.esc, amount) /\ esc.expired = s.esc.expired
            /\ after = Payout([s EXCEPT !.esc = esc], "reclaim", op, esc.buyer_id, amount)
      BY <1>1, <2>4, <2>5, ReclaimDraws
    <3> HIDE DEF outcome, after
    <3>3. after.esc = esc
      BY <1>1, <3>2 DEF Payout, BookType
    <3>4. s.esc.released_cu \in Nat
      BY <1>1 DEF Escrow
    <3>5. Tells(outcome, after.esc, s.esc)
      BY <2>3, <2>5, <3>1, <3>2, <3>3, <3>4 DEF IsReclaimed, Tells
    <3> QED BY <1>3, <2>1, <2>5, <3>1, <3>5
  <2>6. CASE code \in ErrorCode /\ code # "ok"
    BY <1>2, <2>1, <2>6
  <2> QED BY <2>2, <2>5, <2>6
<1>7. ASSUME NEW amount \in Amounts, NEW task \in TaskIds, ClaimOp(p, e, op, amount, task)
      PROVE  Goal
  <2> DEFINE code == ClaimCode(s.esc, p, amount)
             after == Claimed(s, amount, task)
  <2>1. Answer(e, op, code, Result("claim", 0), IF code = "ok" THEN after ELSE s)
    BY <1>7 DEF ClaimOp
  <2>2. code \in ErrorCode \cup {"ok"}
    BY DEF ClaimCode, ErrorCode
  <2>3. Result("claim", 0) \in Outcome /\ Result("claim", 0).method \notin Moving
    BY DEF Result, Outcome, Method, Moving
  <2> HIDE DEF s, code
  <2>4. /\ after.esc.escrow_id = s.esc.escrow_id /\ after.esc.expired = s.esc.expired
        /\ after.esc.released_cu = s.esc.released_cu
        /\ after.esc.reclaimed_cu = s.esc.reclaimed_cu
    BY <1>1 DEF Claimed, BookType, Escrow
  <2> HIDE DEF after
  <2>5. Tells(Result("claim", 0), after.esc, s.esc)
    BY <1>1, <2>3, <2>4, TellsNothing
  <2> HIDE DEF Goal
  <2>6. CASE code = "ok"
    BY <1>3, <2>1, <2>3, <2>5, <2>6
  <2>7. CASE code \in ErrorCode /\ code # "ok"
    BY <1>2, <2>1, <2>7
  <2> QED BY <2>2, <2>6, <2>7
<1>8. ASSUME Dispute(p, e, op) PROVE Goal
  <2> DEFINE code == DisputeCode(s.esc, p)
             after == Disputed(s)
  <2>1. Answer(e, op, code, Result("dispute", 0), IF code = "ok" THEN after ELSE s)
    BY <1>8 DEF Dispute
  <2>2. code \in ErrorCode \cup {"ok"}
    BY DEF DisputeCode, ErrorCode
  <2>3. Result("dispute", 0) \in Outcome /\ Result("dispute", 0).method \notin Moving
    BY DEF Result, Outcome, Method, Moving
  <2> HIDE DEF s, code
  <2>4. /\ after.esc.escrow_id = s.esc.escrow_id /\ after.esc.expired = s.esc.expired
        /\ after.esc.released_cu = s.esc.released_cu
        /\ after.esc.reclaimed_cu = s.esc.reclaimed_cu
    BY <1>1 DEF Disputed, BookType, Escrow
  <2> HIDE DEF after
  <2>5. Tells(Result("dispute", 0), after.esc, s.esc)
    BY <1>1, <2>3, <2>4, TellsNothing
  <2> HIDE DEF Goal
  <2>6. CASE code = "ok"
    BY <1>3, <2>1, <2>3, <2>5, <2>6
  <2>7. CASE code \in ErrorCode /\ code # "ok"
    BY <1>2, <2>1, <2>7
  <2> QED BY <2>2, <2>6, <2>7
<1> HIDE DEF Goal
<1>9. Goal
  BY <1>4, <1>5, <1>6, <1>7, <1>8 DEF Request
<1> QED BY <1>9 DEF Goal

\* Time gives the buyer nothing back except by expiry.
LEMMA TimeTells ==
    ASSUME NEW b, BookInv(b)
    PROVE  LET s == EffectiveState(b) IN
           /\ s.esc.released_cu >= b.esc.released_cu
           /\ s.esc.reclaimed_cu >= b.esc.reclaimed_cu
           /\ b.esc.expired => s.esc.expired
           /\ ~s.esc.expired => s.esc.reclaimed_cu = b.esc.reclaimed_cu
<1> DEFINE released == IF WindowElapsed(b.esc) THEN AutoRelease(b) ELSE b
           s == EffectiveState(b)
<1>1. s = IF LockElapsed(released.esc) THEN AutoReclaimExpiry(released) ELSE released
  BY DEF EffectiveState
<1>2. b.esc.released_cu \in Nat /\ b.esc.reclaimed_cu \in Nat
  BY DEF BookInv, BookType, Escrow
<1>3. /\ s.esc.released_cu >= b.esc.released_cu
      /\ s.esc.reclaimed_cu >= b.esc.reclaimed_cu
      /\ b.esc.expired => s.esc.expired
  <2>1. s = b \/ Moves(s, b)
    BY EffectiveMoves
  <2> HIDE DEF s
  <2> QED BY <1>2, <2>1 DEF Moves, Follows
<1>4. BookInv(released) /\ released.esc.reclaimed_cu = b.esc.reclaimed_cu
  <2>1. CASE WindowElapsed(b.esc)
    <3>1. b.esc.state = "claimed"
      BY <2>1 DEF WindowElapsed
    <3>2. /\ BookInv(AutoRelease(b))
          /\ AutoRelease(b).esc = Settled(b.esc, b.esc.payee_id, b.esc.claim.amount_cu)
      BY <3>1, AutoReleaseInv
    <3>3. /\ b.esc \in Escrow /\ b.esc.payee_id \in Parties
          /\ b.esc.claim.amount_cu \in Nat
      BY <3>1 DEF BookInv, BookType, RecordConsistent, Escrow, Claim
    <3>4. AutoRelease(b).esc.reclaimed_cu = b.esc.reclaimed_cu
      <4>1. IsSettled(Settled(b.esc, b.esc.payee_id, b.esc.claim.amount_cu),
                      b.esc, b.esc.payee_id, b.esc.claim.amount_cu)
        BY <3>3, SettledType
      <4> QED BY <3>2, <4>1 DEF IsSettled
    <3> QED BY <2>1, <3>2, <3>4
  <2>2. CASE ~WindowElapsed(b.esc)
    BY <2>2
  <2> QED BY <2>1, <2>2
<1>5. ASSUME LockElapsed(released.esc) PROVE s.esc.expired
  <2> HIDE DEF released
  <2>1. released.esc.state = "open"
    BY <1>5 DEF LockElapsed
  <2>2. PICK esc \in Escrow, amount \in Nat :
          /\ esc.expired
          /\ AutoReclaimExpiry(released) =
               Payout([released EXCEPT !.esc = esc], "expiry_reclaim", None,
                      esc.buyer_id, amount)
    BY <1>4, <2>1, ExpiryDraws
  <2>3. AutoReclaimExpiry(released).esc = esc
    BY <1>4, <2>2 DEF Payout, BookInv, BookType
  <2> HIDE DEF s
  <2> QED BY <1>1, <1>5, <2>2, <2>3
<1> HIDE DEF s, released
<1>6. ~s.esc.expired => s.esc.reclaimed_cu = b.esc.reclaimed_cu
  BY <1>1, <1>4, <1>5
<1> QED BY <1>3, <1>6 DEF s

\* The record of an escrow that is opened has naturals.
LEMMA RecordType ==
    ASSUME Inv, NEW e \in Opened
    PROVE  /\ escrows[e] \in Escrow
           /\ escrows[e].released_cu \in Nat /\ escrows[e].reclaimed_cu \in Nat
<1>1. escrows[e] \in Escrow
  BY DEF Inv, TypeOK, Opened
<1> QED BY <1>1 DEF Escrow

\* A request and its answer move a record and what is reported of it together.
LEMMA RequestAccounts ==
    ASSUME AnswersInv, Inv', NEW p \in Parties, NEW e \in EscrowIds, NEW op \in OpRefs,
           Request(p, e, op)
    PROVE  AnswersInv'
<1>1. /\ Inv /\ e \in Opened /\ op_results[e][op] = None
      /\ \A method \in Moving : IsFiniteSet(AnsweredOk(e, method))
      /\ Accounted(e)
  BY RequestStep DEF AnswersInv
<1> DEFINE s == Resolved(e)
           b == Book(e)
<1>2. /\ BookInv(b) /\ b.esc = escrows[e] /\ b.esc.escrow_id = e
      /\ BookInv(s) /\ s.esc.escrow_id = e
  BY <1>1, ResolvedIsEffective DEF Book
<1>3. PICK after, outcome : Fulfils(after, s, outcome, e, op)
  BY <1>2, RequestTells
<1>4. /\ s.esc.released_cu >= escrows[e].released_cu
      /\ s.esc.reclaimed_cu >= escrows[e].reclaimed_cu
      /\ escrows[e].expired => s.esc.expired
      /\ ~s.esc.expired => s.esc.reclaimed_cu = escrows[e].reclaimed_cu
  BY <1>2, TimeTells DEF Resolved
<1>5. /\ escrows[e].released_cu \in Nat /\ escrows[e].reclaimed_cu \in Nat
      /\ s.esc.released_cu \in Nat /\ s.esc.reclaimed_cu \in Nat
  BY <1>1, <1>2, RecordType DEF BookInv, BookType, Escrow
<1> HIDE DEF s, b
<1>6. /\ outcome \in Outcome /\ outcome.amount \in Nat
      /\ op_results' = [op_results EXCEPT ![e][op] = outcome]
      /\ Tells(outcome, after.esc, s.esc)
      /\ escrows' = [escrows EXCEPT ![e] = after.esc]
  BY <1>2, <1>3 DEF Fulfils, Commit, Tells, Outcome
<1>7. /\ escrows \in [EscrowIds -> Escrow \cup {None}]
      /\ op_results \in [EscrowIds -> [OpRefs -> Outcome \cup {None}]]
  BY <1>1 DEF Inv, TypeOK
<1>8. escrows'[e] = after.esc /\ e \in Opened'
  <2>1. Request(p, e, op) => \E any : Commit(any) /\ Touches(any, e)
    BY <1>1, RequestTouches
  <2>2. PICK any : Commit(any) /\ Touches(any, e)
    BY <2>1
  <2>3. Opened' = Opened
    BY <1>1, <2>2, TouchKeepsOpened
  <2> QED BY <1>1, <1>6, <1>7, <2>3
<1>9. \A x \in EscrowIds \ {e} : escrows'[x] = escrows[x] /\ op_results'[x] = op_results[x]
  BY <1>6, <1>7
<1>10. Opened' = Opened
  BY <1>1, <1>7, <1>8, <1>9 DEF Opened
<1>11. \A x \in EscrowIds \ Opened', o \in OpRefs : op_results'[x][o] = None
  BY <1>1, <1>9, <1>10 DEF AnswersInv
<1>12. ASSUME NEW method \in Moving
       PROVE  /\ IsFiniteSet(AnsweredOk(e, method)') /\ Reported(e, method) \in Int
              /\ Reported(e, method)' = Reported(e, method)
                   + (IF outcome.method = method THEN outcome.amount ELSE 0)
  BY <1>1, <1>6, AnswerAdds, ReportedType
<1>13. Accounted(e)'
  <2>1. "release" \in Moving /\ "reclaim" \in Moving
    BY DEF Moving
  <2> DEFINE r == IF outcome.method = "release" THEN outcome.amount ELSE 0
             c == IF outcome.method = "reclaim" THEN outcome.amount ELSE 0
  <2>2. /\ Reported(e, "release")' = Reported(e, "release") + r
        /\ Reported(e, "reclaim")' = Reported(e, "reclaim") + c
        /\ Reported(e, "release") \in Int /\ Reported(e, "reclaim") \in Int
    BY <1>12, <2>1
  <2>3. /\ escrows'[e].released_cu = s.esc.released_cu + r
        /\ escrows'[e].reclaimed_cu = s.esc.reclaimed_cu + c
        /\ escrows'[e].expired = s.esc.expired
    BY <1>6, <1>8 DEF Tells
  <2>4. r \in Nat /\ c \in Nat
    BY <1>6
  <2> HIDE DEF r, c
  <2>5. escrows'[e].released_cu >= Reported(e, "release")'
    BY <1>1, <1>4, <1>5, <2>2, <2>3, <2>4 DEF Accounted
  <2>6. escrows'[e].reclaimed_cu >= Reported(e, "reclaim")'
    BY <1>1, <1>4, <1>5, <2>2, <2>3, <2>4 DEF Accounted
  <2>7. ~escrows'[e].expired => escrows'[e].reclaimed_cu = Reported(e, "reclaim")'
    BY <1>1, <1>4, <1>5, <2>2, <2>3, <2>4 DEF Accounted
  <2> QED BY <2>5, <2>6, <2>7 DEF Accounted
<1>14. ASSUME NEW x \in Opened'
       PROVE  /\ \A method \in Moving : IsFiniteSet(AnsweredOk(x, method)')
              /\ Accounted(x)'
  <2>1. CASE x = e
    BY <1>12, <1>13, <2>1
  <2>2. CASE x # e
    <3>1. x \in Opened /\ x \in EscrowIds \ {e}
      BY <1>10, <2>2 DEF Opened
    <3>2. \A method : /\ AnsweredOk(x, method)' = AnsweredOk(x, method)
                      /\ Reported(x, method)' = Reported(x, method)
      BY <1>9, <3>1, AnswersElsewhere
    <3>3. /\ \A method \in Moving : IsFiniteSet(AnsweredOk(x, method))
          /\ Accounted(x)
      BY <3>1 DEF AnswersInv
    <3> QED BY <1>9, <3>1, <3>2, <3>3 DEF Accounted
  <2> QED BY <2>1, <2>2
<1> QED BY <1>11, <1>14 DEF AnswersInv

\* escrowStatus answers nothing: what it moves is time's doing.
LEMMA StatusAccounts ==
    ASSUME AnswersInv, Inv', NEW e \in EscrowIds, Status(e)
    PROVE  AnswersInv'
<1>1. /\ Inv /\ e \in Opened /\ Accounted(e) /\ UNCHANGED op_results
      /\ Commit(Resolved(e)) /\ Touches(Resolved(e), e)
  BY StatusTouches DEF AnswersInv, Status
<1>2. BookInv(Book(e)) /\ Book(e).esc = escrows[e] /\ BookInv(Resolved(e))
  BY <1>1, ResolvedIsEffective DEF Book
<1>3. PICK s : s = Resolved(e)
  OBVIOUS
<1>4. /\ s.esc.released_cu >= escrows[e].released_cu
      /\ s.esc.reclaimed_cu >= escrows[e].reclaimed_cu
      /\ escrows[e].expired => s.esc.expired
      /\ ~s.esc.expired => s.esc.reclaimed_cu = escrows[e].reclaimed_cu
  BY <1>2, <1>3, TimeTells DEF Resolved
<1>5. /\ escrows[e].released_cu \in Nat /\ escrows[e].reclaimed_cu \in Nat
      /\ s.esc.released_cu \in Nat /\ s.esc.reclaimed_cu \in Nat
  BY <1>1, <1>2, <1>3, RecordType DEF BookInv, BookType, Escrow
<1>6. /\ escrows' = [escrows EXCEPT ![e] = s.esc]
      /\ escrows'[e] = s.esc /\ Opened' = Opened
  BY <1>1, <1>3, TouchKeepsOpened
<1>7. \A x, method : /\ AnsweredOk(x, method)' = AnsweredOk(x, method)
                     /\ Reported(x, method)' = Reported(x, method)
  BY <1>1, AnswersElsewhere
<1>8. Reported(e, "release") \in Int /\ Reported(e, "reclaim") \in Int
  BY <1>1, ReportedType DEF AnswersInv, Moving
<1>9. ASSUME NEW x \in Opened PROVE Accounted(x)'
  <2>1. CASE x = e
    BY <1>1, <1>4, <1>5, <1>6, <1>7, <1>8, <2>1 DEF Accounted
  <2>2. CASE x # e
    <3>1. escrows'[x] = escrows[x]
      BY <1>1, <1>6, <2>2 DEF Inv, TypeOK, Opened
    <3> QED BY <1>7, <3>1 DEF AnswersInv, Accounted
  <2> QED BY <2>1, <2>2
<1> QED BY <1>1, <1>6, <1>7, <1>9 DEF AnswersInv

\* A new escrow answered nothing yet.
LEMMA LockAccounts ==
    ASSUME AnswersInv, Inv', NEW p \in Parties, NEW op \in LockRefs, NEW e \in EscrowIds,
           NEW amount \in Amounts, NEW until \in ValidUntils,
           NEW window \in Windows \cup {None}, NEW payee \in Parties \cup {None},
           Lock(p, op, e, amount, until, window, payee)
    PROVE  AnswersInv'
<1> DEFINE esc == NewEscrow(e, p, amount, until, window, payee)
<1>1. Inv /\ escrows \in [EscrowIds -> Escrow \cup {None}]
  BY DEF AnswersInv, Inv, TypeOK
<1>2. /\ escrows' = [escrows EXCEPT ![e] = esc] /\ escrows[e] = None
      /\ UNCHANGED op_results
  BY DEF Lock
<1>3. /\ esc # None /\ esc.released_cu = 0 /\ esc.reclaimed_cu = 0
  BY NewEscrowType DEF NewEscrow
<1> HIDE DEF esc
<1>4. e \notin Opened /\ Opened' = Opened \cup {e} /\ escrows'[e] = esc
  BY <1>1, <1>2, <1>3 DEF Opened
<1>5. \A x, method : /\ AnsweredOk(x, method)' = AnsweredOk(x, method)
                     /\ Reported(x, method)' = Reported(x, method)
  BY <1>2, AnswersElsewhere
<1>6. \A method : AnsweredOk(e, method) = {}
  BY <1>4 DEF AnswersInv, AnsweredOk
<1>7. \A method : IsFiniteSet(AnsweredOk(e, method)) /\ Reported(e, method) = 0
  BY <1>1, <1>6, FS_EmptySet, ReportedType
<1>8. Accounted(e)'
  BY <1>3, <1>4, <1>5, <1>7 DEF Accounted
<1>9. ASSUME NEW x \in Opened PROVE Accounted(x)'
  <2>1. escrows'[x] = escrows[x]
    BY <1>1, <1>2, <1>4 DEF Opened
  <2> QED BY <1>5, <2>1 DEF AnswersInv, Accounted
<1> QED BY <1>2, <1>4, <1>5, <1>7, <1>8, <1>9 DEF AnswersInv

\* The answers account for the records after every step.
LEMMA AnswersStep ==
    ASSUME AnswersInv, [Next]_vars
    PROVE  AnswersInv'
<1>1. Inv /\ Inv'
  BY NextInv DEF AnswersInv
<1>2. ASSUME UNCHANGED <<escrows, op_results>> PROVE AnswersInv'
  <2>1. \A x, method : /\ AnsweredOk(x, method)' = AnsweredOk(x, method)
                       /\ Reported(x, method)' = Reported(x, method)
    BY <1>2, AnswersElsewhere
  <2> QED BY <1>1, <1>2, <2>1 DEF AnswersInv, Accounted, Opened
<1>3. ASSUME NEW p \in Parties, NEW op \in LockRefs, LockRequest(p, op)
      PROVE  AnswersInv'
  <2>1. ASSUME NEW amount \in Amounts, LockRefused(p, op, amount)
        PROVE  AnswersInv'
    BY <1>2, <2>1 DEF LockRefused
  <2> QED BY <1>1, <1>3, <2>1, LockAccounts DEF LockRequest
<1>4. ASSUME NEW p \in Parties, NEW e \in EscrowIds, NEW op \in OpRefs, Request(p, e, op)
      PROVE  AnswersInv'
  BY <1>1, <1>4, RequestAccounts
<1>5. ASSUME NEW e \in EscrowIds, Status(e) PROVE AnswersInv'
  BY <1>1, <1>5, StatusAccounts
<1>6. ASSUME \/ \E op \in LockRefs : ReplayLock(op)
             \/ \E e \in EscrowIds, op \in OpRefs : Replay(e, op)
             \/ Tick
             \/ UNCHANGED vars
      PROVE  AnswersInv'
  BY <1>2, <1>6 DEF ReplayLock, Replay, Tick, vars
<1> QED BY <1>3, <1>4, <1>5, <1>6 DEF Next

--------------------------------------------------------------------------------
(* Theorems *)

\* The ledger's balances and the escrows' records are two accounts of the same
\* money, however many escrows there are, if no payee claims again for a task
\* that was auto-released on the same escrow.
THEOREM LedgerBalances ==
    ASSUME ~ReuseTaskIds
    PROVE  Spec => []LedgerMatchesEscrows
<1>1. LedgerInv => LedgerMatchesEscrows
  BY DEF LedgerInv, Balanced, LedgerMatchesEscrows, Shares, SumFunction
<1>2. LedgerInv /\ [Next]_vars => LedgerInv'
  BY LedgerStep
<1> QED BY <1>1, <1>2, LedgerStart, PTL DEF Spec

\* What the callers were told adds up to what moved, however many op_refs were
\* used and however often each was sent, and whether or not task ids are reused.
THEOREM AnswersAccount == Spec => []AnswersAccountForMoney
<1>1. Init => AnswersInv
  BY InitInv DEF Init, AnswersInv, Opened
<1>2. AnswersInv /\ [Next]_vars => AnswersInv'
  BY AnswersStep
<1>3. AnswersInv => AnswersAccountForMoney
  <2> SUFFICES ASSUME AnswersInv, NEW e \in Opened
               PROVE  /\ Accounted(e)
                      /\ Reported(e, "release") > 0 => escrows[e].had_settlement
    BY DEF AnswersAccountForMoney, Accounted
  <2>1. /\ Inv /\ Accounted(e) /\ e \in EscrowIds
        /\ IsFiniteSet(AnsweredOk(e, "release"))
    BY DEF AnswersInv, Moving, Opened
  <2>2. escrows[e].had_settlement <=> escrows[e].released_cu > 0
    BY <2>1 DEF Inv, Book, BookInv, RecordConsistent
  <2>3. escrows[e].released_cu \in Nat /\ Reported(e, "release") \in Int
    BY <2>1, RecordType, ReportedType
  <2> QED BY <2>1, <2>2, <2>3 DEF Accounted
<1> QED BY <1>1, <1>2, <1>3, PTL DEF Spec
================================================================================
