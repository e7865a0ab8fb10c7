----------------------------- MODULE SessionProofs -----------------------------
(***************************************************************************)
(* Proofs about one connection: for any number of tasks, chunks and        *)
(* heartbeats, whatever breaks and whoever gives up, a listener gets its   *)
(* chunks numbered without a gap, and nothing about a task follows its     *)
(* answer.                                                                 *)
(*                                                                         *)
(* The argument follows a chunk through the queue.  What of a task is      *)
(* neither received nor lost lies in to_buyer, in the order in which it    *)
(* was sent (InOrder, Gapless): the queue may be cut at its end, by Drop,  *)
(* but never inside.  An answer lies behind all of it, since the dispatch  *)
(* that sent it is done and runs no handler and no heartbeat any more.     *)
(***************************************************************************)
EXTENDS SessionPromises, TLAPS

IsChunk(q, i, t) == q[i].kind = "chunk" /\ q[i].task_id = t
IsAnswer(q, i, t) == q[i].kind = "answer" /\ q[i].task_id = t
IsAbout(q, i, t) == q[i].kind # "closed" /\ q[i].task_id = t

\* An invoke is sent once and read once.
InvokedOnce(t) ==
    /\ \A i \in DOMAIN to_provider :
         to_provider[i].kind = "invoke" /\ to_provider[i].task_id = t =>
           /\ dispatch[t] = None
           /\ call[t] # "idle"
           /\ \A j \in DOMAIN to_provider :
                to_provider[j].kind = "invoke" /\ to_provider[j].task_id = t => j = i
    /\ dispatch[t] # None => call[t] # "idle"

\* The provider's side of a task goes through its life once.
WorkLives(t) ==
    /\ dispatch[t] = None =>
         /\ handler[t] = None
         /\ out[t].seq = 0 /\ ~out[t].final
         /\ \A i \in DOMAIN to_buyer : ~IsAbout(to_buyer, i, t)
    /\ handler[t] \in {"working", "cancelling"} => dispatch[t] = "running"
    /\ t \in keepalive => dispatch[t] = "running"
    /\ out[t].final => out[t].seq > 0

\* An answer is the end of a task, and says streamed of a complete stream only;
\* d is the task's dispatch and o its output.
AnswerEnds(q, t, d, o) ==
    \A i \in DOMAIN q : IsAnswer(q, i, t) =>
      /\ d = "done"
      /\ q[i].outcome = "streamed" => o.final
      /\ \A j \in DOMAIN q : i < j => ~IsAbout(q, j, t)

\* The chunks of t in q are in order, and only the last of all is final.
InOrder(q, t, o) ==
    /\ \A i \in DOMAIN q : IsChunk(q, i, t) =>
         q[i].seq < o.seq /\ (q[i].final <=> o.final /\ q[i].seq + 1 = o.seq)
    /\ \A i, j \in DOMAIN q :
         IsChunk(q, i, t) /\ IsChunk(q, j, t) /\ i < j => q[i].seq < q[j].seq

\* The chunks of t from number a to number b - 1 are among the first n of q.
Holds(q, n, t, a, b) ==
    \A s \in a .. (b - 1) :
      \E j \in 1 .. n : j <= Len(q) /\ IsChunk(q, j, t) /\ q[j].seq = s

\* Whoever has got the chunks below a finds the next ones in q before any later
\* one, and all of them before the answer.
Gapless(q, t, a, o) ==
    /\ \A i \in DOMAIN q : IsChunk(q, i, t) =>
         a <= q[i].seq /\ Holds(q, i - 1, t, a, q[i].seq)
    /\ \A i \in DOMAIN q : IsAnswer(q, i, t) => Holds(q, i - 1, t, a, o.seq)

\* What the listener of t got is the beginning of what was sent.
GotPrefix(t) ==
    /\ Len(received[t]) <= out[t].seq
    /\ \A i \in DOMAIN received[t] :
         /\ received[t][i].seq = i - 1
         /\ received[t][i].final <=> out[t].final /\ i = out[t].seq

GotAll(t) ==
    out[t].final /\ (profile[t].listens => Len(received[t]) = out[t].seq)

\* The rest is on its way to whoever still listens.
RestArrives(t) ==
    reader = "reading" /\ t \in listeners =>
      /\ Gapless(to_buyer, t, Len(received[t]), out[t])
      /\ link = "up" =>
           Holds(to_buyer, Len(to_buyer), t, Len(received[t]), out[t].seq)

\* The buyer's side of a task.
CallLives(t) ==
    /\ t \in pending \cup listeners => call[t] = "waiting"
    /\ call[t] = "waiting" /\ profile[t].listens => t \in listeners
    /\ future[t] \in Outcome =>
         /\ dispatch[t] = "done"
         /\ \A i \in DOMAIN to_buyer : ~IsAbout(to_buyer, i, t)
    /\ call[t] \in Outcome => dispatch[t] = "done"
    /\ future[t] = "streamed" \/ call[t] = "streamed" => GotAll(t)

TaskInv(t) ==
    /\ InvokedOnce(t)
    /\ WorkLives(t)
    /\ AnswerEnds(to_buyer, t, dispatch[t], out[t])
    /\ InOrder(to_buyer, t, out[t])
    /\ GotPrefix(t)
    /\ RestArrives(t)
    /\ CallLives(t)

Inv == TypeOK /\ \A t \in TaskIds : TaskInv(t)

--------------------------------------------------------------------------------
(* Types *)

CallState == Outcome \cup {"idle", "waiting", "timeout", "closed"}

LEMMA EndCallType ==
    ASSUME BuyerType, NEW t \in TaskIds, NEW how \in CallState, EndCall(t, how)
    PROVE  /\ call' \in [TaskIds -> CallState]
           /\ pending' \in SUBSET TaskIds /\ listeners' \in SUBSET TaskIds
BY DEF BuyerType, EndCall, CallState

LEMMA VerdictType ==
    ASSUME NEW t \in TaskIds, HandlerDone(t)
    PROVE  Verdict(t) \in Outcome
BY DEF Verdict, HandlerDone, Outcome

LEMMA MessageTypes ==
    ASSUME NEW m \in Message
    PROVE  /\ m.kind \in {"invoke", "input", "cancel", "heartbeat"} => m.task_id \in TaskIds
           /\ m.kind = "chunk" => m \in ChunkMessage /\ m.task_id \in TaskIds /\ m.seq \in Nat
           /\ m.kind = "answer" => m.task_id \in TaskIds /\ m.outcome \in Outcome
BY DEF Message, ChunkMessage

LEMMA SentTypes ==
    /\ \A t \in TaskIds : \A k \in {"invoke", "input", "cancel", "heartbeat"} :
         [kind |-> k, task_id |-> t] \in Message
    /\ \A t \in TaskIds, s \in Nat, f \in BOOLEAN :
         [kind |-> "chunk", task_id |-> t, seq |-> s, final |-> f] \in Message
    /\ \A t \in TaskIds, o \in Outcome :
         [kind |-> "answer", task_id |-> t, outcome |-> o] \in Message
    /\ [kind |-> "closed"] \in Message
BY DEF Message

LEMMA OutType ==
    ASSUME ProviderType, NEW t \in TaskIds
    PROVE  /\ out[t] \in [seq : 0 .. MaxChunks, final : BOOLEAN]
           /\ out[t].seq \in 0 .. MaxChunks /\ out[t].final \in BOOLEAN
           /\ out[t].seq \in Nat
<1>1. out[t] \in [seq : 0 .. MaxChunks, final : BOOLEAN]
  BY DEF ProviderType
<1> QED BY <1>1, BoundsAssumption

LEMMA TypeInit == Init => TypeOK
<1> SUFFICES ASSUME Init PROVE TypeOK
  OBVIOUS
<1>1. WireType
  BY DEF Init, WireType
<1>2. BuyerType
  <2>1. received \in [TaskIds -> Seq(ChunkMessage)]
    BY DEF Init
  <2> QED BY <2>1 DEF Init, BuyerType, None
<1>3. ProviderType
  <2>1. out \in [TaskIds -> [seq : 0..MaxChunks, final : BOOLEAN]]
    BY BoundsAssumption DEF Init
  <2>2. beats \in 0..MaxBeats
    BY BoundsAssumption DEF Init
  <2> QED BY <2>1, <2>2 DEF Init, ProviderType, None
<1> QED BY <1>1, <1>2, <1>3 DEF TypeOK

LEMMA WireStep ==
    ASSUME TypeOK, [Next]_vars
    PROVE  WireType'
<1>a. /\ WireType
      /\ \A q \in Seq(Message), m \in Message : Append(q, m) \in Seq(Message)
      /\ \A q \in Seq(Message) : q # <<>> => Tail(q) \in Seq(Message)
  BY DEF TypeOK
<1>1. CASE Drop
  <2>1. PICK i \in 0 .. Len(to_provider), j \in 0 .. Len(to_buyer) :
          /\ to_provider' = Append(SubSeq(to_provider, 1, i), [kind |-> "closed"])
          /\ to_buyer' = Append(SubSeq(to_buyer, 1, j), [kind |-> "closed"])
    BY <1>1 DEF Drop
  <2>2. SubSeq(to_provider, 1, i) \in Seq(Message) /\ SubSeq(to_buyer, 1, j) \in Seq(Message)
    BY <1>a DEF WireType
  <2>3. to_provider' \in Seq(Message) /\ to_buyer' \in Seq(Message)
    BY <2>1, <2>2, SentTypes
  <2>4. link' = "down" /\ profile' = profile
    BY <1>1 DEF Drop
  <2> QED BY <1>a, <2>3, <2>4 DEF WireType
<1>2. CASE ReaderReads
  BY <1>2, <1>a DEF ReaderReads, WireType
<1>3. CASE Close
  BY <1>3, <1>a, SentTypes DEF Close, ToProvider, WireType
<1>4. CASE ProviderReads
  BY <1>4, <1>a DEF ProviderReads, WireType
<1>5. CASE ServeReturns
  BY <1>5, <1>a DEF ServeReturns, WireType
<1>6. ASSUME NEW t \in TaskIds, Buyers(t)
      PROVE  WireType'
  BY <1>6, <1>a, SentTypes
     DEF Buyers, Invoke, CallResumes, CallTimesOut, SendInput, ToProvider, WireType
<1>7. ASSUME NEW t \in TaskIds, NEW final \in BOOLEAN, Emit(t, final)
      PROVE  WireType'
  <2>1. out[t].seq \in Nat
    BY OutType DEF TypeOK
  <2> QED BY <1>7, <1>a, <2>1, SentTypes DEF Emit, ToBuyer, WireType
<1>8. ASSUME NEW t \in TaskIds, Heartbeat(t)
      PROVE  WireType'
  BY <1>8, <1>a, SentTypes DEF Heartbeat, ToBuyer, WireType
<1>9. ASSUME NEW t \in TaskIds, HandlerEnds(t)
      PROVE  WireType'
  BY <1>9, <1>a DEF HandlerEnds, WireType
<1>10. ASSUME NEW t \in TaskIds, Answer(t)
       PROVE  WireType'
  <2>1. Verdict(t) \in Outcome
    BY <1>10, VerdictType DEF Answer
  <2> QED BY <1>10, <1>a, <2>1, SentTypes DEF Answer, ToBuyer, WireType
<1>11. CASE UNCHANGED vars
  BY <1>11, <1>a DEF vars, WireType
<1>12. CASE CloseProviderEnd
  BY <1>12, <1>a, SentTypes DEF CloseProviderEnd, ToBuyer, WireType
<1> QED
  BY <1>1, <1>2, <1>3, <1>4, <1>5, <1>6, <1>7, <1>8, <1>9, <1>10, <1>11, <1>12
     DEF Next, Handlers

LEMMA BuyerStep ==
    ASSUME TypeOK, [Next]_vars
    PROVE  BuyerType'
<1>a. BuyerType
  BY DEF TypeOK
<1>1. ASSUME UNCHANGED buyer
      PROVE  BuyerType'
  BY <1>1, <1>a DEF buyer, BuyerType
<1>2. CASE ReaderReads
  <2> DEFINE m == Head(to_buyer)
  <2>1. m \in Message
    BY <1>2 DEF ReaderReads, TypeOK, WireType
  <2> HIDE DEF m
  <2>2. ASSUME m.kind \in {"chunk", "heartbeat"}, Notify(m), UNCHANGED <<pending, future>>
        PROVE  BuyerType'
    <3>1. m.task_id \in TaskIds /\ (m.kind = "chunk" => m \in ChunkMessage)
      BY <2>1, <2>2, MessageTypes
    <3>2. received' \in [TaskIds -> Seq(ChunkMessage)]
      <4>1. received \in [TaskIds -> Seq(ChunkMessage)]
        BY <1>a DEF BuyerType
      <4>2. CASE received' = received
        BY <4>1, <4>2
      <4>3. ASSUME m.kind = "chunk",
                   received' = [received EXCEPT ![m.task_id] = Append(@, m)]
            PROVE  received' \in [TaskIds -> Seq(ChunkMessage)]
        <5>1. Append(received[m.task_id], m) \in Seq(ChunkMessage)
          BY <3>1, <4>1, <4>3
        <5> QED BY <3>1, <4>1, <4>3, <5>1
      <4> QED BY <2>2, <4>2, <4>3 DEF Notify
    <3>3. reader' \in {"reading", "stopped", "ended", "crashed"}
      BY <1>a, <2>2 DEF Notify, BuyerType
    <3> QED BY <1>2, <1>a, <2>2, <3>2, <3>3 DEF ReaderReads, BuyerType
  <2>3. ASSUME m.kind = "answer",
               pending' = pending \ {m.task_id},
               future' = IF m.task_id \in pending /\ future[m.task_id] = None
                         THEN [future EXCEPT ![m.task_id] = m.outcome] ELSE future,
               UNCHANGED <<reader, received>>
        PROVE  BuyerType'
    <3>1. m.task_id \in TaskIds /\ m.outcome \in Outcome
      BY <2>1, <2>3, MessageTypes
    <3> QED BY <1>2, <1>a, <2>3, <3>1 DEF ReaderReads, BuyerType
  <2>4. ASSUME m.kind = "closed", reader' = "ended", FailPending,
               UNCHANGED <<pending, received>>
        PROVE  BuyerType'
    BY <1>2, <1>a, <2>4 DEF ReaderReads, FailPending, BuyerType
  <2> QED BY <1>2, <2>2, <2>3, <2>4, Zenon DEF ReaderReads, m
<1>3. CASE Close
  BY <1>3, <1>a DEF Close, BuyerType
<1>4. ASSUME NEW t \in TaskIds, Buyers(t)
      PROVE  BuyerType'
  <2>1. CASE Invoke(t)
    <3>1. /\ call' \in [TaskIds -> CallState]
          /\ pending' \in SUBSET TaskIds /\ listeners' \in SUBSET TaskIds
      BY <1>a, <1>4, <2>1, EndCallType DEF Invoke, BuyerType, CallState
    <3> QED BY <1>a, <2>1, <3>1 DEF Invoke, BuyerType, CallState
  <2>2. CASE CallResumes(t)
    <3>1. future[t] \in CallState
      BY <1>a, <1>4, <2>2 DEF CallResumes, BuyerType, CallState
    <3> QED BY <1>a, <1>4, <2>2, <3>1, EndCallType DEF CallResumes, BuyerType, CallState
  <2>3. CASE CallTimesOut(t)
    <3>1. \E how \in CallState : EndCall(t, how)
      BY <2>3 DEF CallTimesOut, CallState
    <3> QED BY <1>a, <1>4, <2>3, <3>1, EndCallType DEF CallTimesOut, BuyerType, CallState
  <2>4. CASE SendInput(t)
    BY <1>a, <1>4, <2>4 DEF SendInput, BuyerType
  <2> QED BY <1>4, <2>1, <2>2, <2>3, <2>4 DEF Buyers
<1> QED
  BY <1>1, <1>2, <1>3, <1>4
     DEF Next, Drop, CloseProviderEnd, ProviderReads, ServeReturns, Handlers, Emit, Heartbeat,
         HandlerEnds, Answer, vars

LEMMA ProviderStep ==
    ASSUME TypeOK, [Next]_vars
    PROVE  ProviderType'
<1>a. ProviderType
  BY DEF TypeOK
<1>1. ASSUME UNCHANGED server
      PROVE  ProviderType'
  BY <1>1, <1>a DEF server, ProviderType
<1>2. CASE ProviderReads
  <2> DEFINE m == Head(to_provider)
  <2>1. m \in Message
    BY <1>2 DEF ProviderReads, TypeOK, WireType
  <2>2. m.kind \in {"invoke", "input", "cancel"} => m.task_id \in TaskIds
    BY <2>1, MessageTypes
  <2> HIDE DEF m
  <2>3. /\ serving' \in {"serving", "draining", "stopped"}
        /\ fed' \in SUBSET TaskIds /\ keepalive' \in SUBSET TaskIds
    BY <1>2, <1>a, <2>2 DEF ProviderReads, ProviderType, m
  <2>4. dispatch' \in [TaskIds -> {None, "running", "done"}]
    BY <1>2, <1>a, <2>2 DEF ProviderReads, ProviderType, m
  <2>5. handler' \in [TaskIds -> {None, "working", "cancelling", "output", "no output",
                                  "raised", "cancelled"}]
    BY <1>2, <1>a, <2>2 DEF ProviderReads, ProviderType, m
  <2> QED BY <1>2, <1>a, <2>3, <2>4, <2>5 DEF ProviderReads, ProviderType
<1>3. CASE ServeReturns
  BY <1>3, <1>a DEF ServeReturns, ProviderType
<1>4. ASSUME NEW t \in TaskIds, NEW final \in BOOLEAN, Emit(t, final)
      PROVE  ProviderType'
  <2>1. out' \in [TaskIds -> [seq : 0..MaxChunks, final : BOOLEAN]]
    <3> DEFINE o == [[out[t] EXCEPT !.seq = @ + 1] EXCEPT !.final = final]
    <3>1. out' = [out EXCEPT ![t] = o]
      BY <1>4 DEF Emit, NextOut
    <3>2. out[t].seq + 1 \in 0 .. MaxChunks
      BY <1>4, <1>a, OutType, BoundsAssumption DEF Emit
    <3>3. o \in [seq : 0..MaxChunks, final : BOOLEAN]
      BY <1>a, <3>2, OutType
    <3> QED BY <1>a, <3>1, <3>3 DEF ProviderType
  <2> QED BY <1>4, <1>a, <2>1 DEF Emit, ProviderType
<1>5. ASSUME NEW t \in TaskIds, Heartbeat(t)
      PROVE  ProviderType'
  <2>1. beats' \in 0 .. MaxBeats
    <3>1. beats \in 0 .. MaxBeats
      BY <1>a DEF ProviderType
    <3> QED BY <1>5, <3>1, BoundsAssumption DEF Heartbeat
  <2>2. keepalive' \in SUBSET TaskIds
    BY <1>5, <1>a DEF Heartbeat, ProviderType
  <2> QED BY <1>5, <1>a, <2>1, <2>2 DEF Heartbeat, ProviderType
<1>6. ASSUME NEW t \in TaskIds, HandlerEnds(t)
      PROVE  ProviderType'
  BY <1>6, <1>a DEF HandlerEnds, ProviderType
<1>7. ASSUME NEW t \in TaskIds, Answer(t)
      PROVE  ProviderType'
  BY <1>7, <1>a DEF Answer, Quiet, ProviderType
<1>8. CASE CloseProviderEnd
  BY <1>8, <1>a DEF CloseProviderEnd, ProviderType
<1> QED
  BY <1>1, <1>2, <1>3, <1>4, <1>5, <1>6, <1>7, <1>8
     DEF Next, Drop, ReaderReads, Close, Buyers, Invoke, CallResumes, CallTimesOut,
         SendInput, Handlers, vars

LEMMA TypeStep ==
    ASSUME TypeOK, [Next]_vars
    PROVE  TypeOK'
BY WireStep, BuyerStep, ProviderStep DEF TypeOK

\* Every variable of the connection and its ends keeps its type: a result the buyer
\* gets is one of the outcomes, whatever ended its handler.
THEOREM TypeCorrect == Spec => []TypeOK
<1> QED BY TypeInit, TypeStep, PTL DEF Spec

--------------------------------------------------------------------------------
(* The queue: what InOrder, Gapless and AnswerEnds become when q is cut after n
   messages and m is put behind them, and when its first message is read *)

Cut(q, q2, n, m) ==
    /\ n \in 0 .. Len(q) /\ Len(q2) = n + 1
    /\ \A i \in 1 .. n : q2[i] = q[i]
    /\ q2[n + 1] = m

LEMMA AppendCuts ==
    ASSUME NEW q \in Seq(Message), NEW m \in Message
    PROVE  Cut(q, Append(q, m), Len(q), m)
BY DEF Cut

LEMMA SubSeqCuts ==
    ASSUME NEW q \in Seq(Message), NEW m \in Message, NEW n \in 0 .. Len(q)
    PROVE  Cut(q, Append(SubSeq(q, 1, n), m), n, m)
<1>1. SubSeq(q, 1, n) \in Seq(Message) /\ Len(SubSeq(q, 1, n)) = n
  OBVIOUS
<1>2. \A i \in 1 .. n : SubSeq(q, 1, n)[i] = q[i]
  OBVIOUS
<1> QED BY <1>1, <1>2 DEF Cut

LEMMA TailShifts ==
    ASSUME NEW q \in Seq(Message), q # <<>>
    PROVE  /\ Tail(q) \in Seq(Message) /\ Head(q) = q[1] /\ Len(q) \in Nat \ {0}
           /\ Len(Tail(q)) = Len(q) - 1
           /\ \A i \in 1 .. Len(Tail(q)) : Tail(q)[i] = q[i + 1]
OBVIOUS

LEMMA HoldsCut ==
    ASSUME NEW q \in Seq(Message), NEW q2 \in Seq(Message), NEW n, NEW m, Cut(q, q2, n, m),
           NEW t, NEW k \in Int, NEW a \in Nat, NEW b \in Nat, k <= n, Holds(q, k, t, a, b)
    PROVE  Holds(q2, k, t, a, b)
<1> SUFFICES ASSUME NEW s \in a .. (b - 1)
             PROVE  \E j \in 1 .. k : j <= Len(q2) /\ IsChunk(q2, j, t) /\ q2[j].seq = s
  BY DEF Holds
<1>1. PICK j \in 1 .. k : j <= Len(q) /\ IsChunk(q, j, t) /\ q[j].seq = s
  BY DEF Holds
<1>2. q2[j] = q[j] /\ j <= Len(q2)
  BY <1>1 DEF Cut
<1> QED BY <1>1, <1>2 DEF IsChunk

LEMMA HoldsTail ==
    ASSUME NEW q \in Seq(Message), q # <<>>,
           NEW t, NEW k \in Nat, NEW a \in Nat, NEW b \in Nat, NEW c \in Nat, a <= c,
           IsChunk(q, 1, t) => q[1].seq < c,
           Holds(q, k, t, a, b)
    PROVE  Holds(Tail(q), k - 1, t, c, b)
<1> SUFFICES ASSUME NEW s \in c .. (b - 1)
             PROVE  \E j \in 1 .. (k - 1) : j <= Len(Tail(q)) /\ IsChunk(Tail(q), j, t)
                                            /\ Tail(q)[j].seq = s
  BY DEF Holds
<1>0. s \in a .. (b - 1)
  OBVIOUS
<1>1. PICK j \in 1 .. k : j <= Len(q) /\ IsChunk(q, j, t) /\ q[j].seq = s
  BY <1>0 DEF Holds
<1>2. s \in Int /\ c <= s
  OBVIOUS
<1>3. j # 1
  <2>1. j = 1 => s < c
    BY <1>1
  <2> QED BY <1>2, <2>1
<1>4. j - 1 \in 1 .. (k - 1) /\ j - 1 <= Len(Tail(q)) /\ Tail(q)[j - 1] = q[j]
  BY <1>1, <1>3, TailShifts
<1> QED BY <1>1, <1>4 DEF IsChunk

LEMMA CutKeepsOrder ==
    ASSUME NEW q \in Seq(Message), NEW q2 \in Seq(Message), NEW n, NEW m, Cut(q, q2, n, m),
           NEW t, NEW o, ~(m.kind \in {"chunk", "answer"} /\ m.task_id = t),
           InOrder(q, t, o)
    PROVE  InOrder(q2, t, o)
BY DEF Cut, InOrder, IsChunk

LEMMA CutKeepsRest ==
    ASSUME NEW q \in Seq(Message), NEW q2 \in Seq(Message), NEW n, NEW m, Cut(q, q2, n, m),
           NEW t, NEW o \in [seq : Nat, final : BOOLEAN], NEW a \in Nat,
           ~(m.kind \in {"chunk", "answer"} /\ m.task_id = t),
           Gapless(q, t, a, o)
    PROVE  Gapless(q2, t, a, o)
<1>1. ASSUME NEW i \in DOMAIN q2, IsChunk(q2, i, t)
      PROVE  a <= q2[i].seq /\ Holds(q2, i - 1, t, a, q2[i].seq)
  <2>1. i \in DOMAIN q /\ i <= n /\ IsChunk(q, i, t) /\ q2[i] = q[i]
    BY <1>1 DEF Cut, IsChunk
  <2>2. q[i].seq \in Nat
    BY <2>1, MessageTypes DEF IsChunk
  <2>3. a <= q[i].seq /\ Holds(q, i - 1, t, a, q[i].seq)
    BY <2>1 DEF Gapless
  <2>4. i - 1 \in Int /\ i - 1 <= n
    BY <2>1 DEF Cut
  <2> QED BY <2>1, <2>2, <2>3, <2>4, HoldsCut
<1>2. ASSUME NEW i \in DOMAIN q2, IsAnswer(q2, i, t)
      PROVE  Holds(q2, i - 1, t, a, o.seq)
  <2>1. i \in DOMAIN q /\ i <= n /\ IsAnswer(q, i, t)
    BY <1>2 DEF Cut, IsAnswer
  <2>2. Holds(q, i - 1, t, a, o.seq)
    BY <2>1 DEF Gapless
  <2>3. i - 1 \in Int /\ i - 1 <= n
    BY <2>1 DEF Cut
  <2> QED BY <2>2, <2>3, HoldsCut
<1> QED BY <1>1, <1>2 DEF Gapless

LEMMA CutKeepsEnds ==
    ASSUME NEW q \in Seq(Message), NEW q2 \in Seq(Message), NEW n, NEW m, Cut(q, q2, n, m),
           NEW t, NEW d, NEW o, m.kind = "closed" \/ m.task_id # t,
           AnswerEnds(q, t, d, o)
    PROVE  AnswerEnds(q2, t, d, o)
BY DEF Cut, AnswerEnds, IsAnswer, IsAbout

LEMMA TailKeepsOrder ==
    ASSUME NEW q \in Seq(Message), q # <<>>, NEW t, NEW o, InOrder(q, t, o)
    PROVE  InOrder(Tail(q), t, o)
BY TailShifts DEF InOrder, IsChunk

LEMMA TailKeepsEnds ==
    ASSUME NEW q \in Seq(Message), q # <<>>, NEW t, NEW d, NEW o, AnswerEnds(q, t, d, o)
    PROVE  AnswerEnds(Tail(q), t, d, o)
BY TailShifts DEF AnswerEnds, IsAnswer, IsAbout

\* Whoever reads a chunk of t finds the one it waits for.
LEMMA TailKeepsRest ==
    ASSUME NEW q \in Seq(Message), q # <<>>,
           NEW t, NEW o \in [seq : Nat, final : BOOLEAN], NEW a \in Nat,
           InOrder(q, t, o), Gapless(q, t, a, o)
    PROVE  /\ IsChunk(q, 1, t) => /\ q[1].seq = a
                                  /\ Gapless(Tail(q), t, a + 1, o)
           /\ ~IsChunk(q, 1, t) => Gapless(Tail(q), t, a, o)
<1>1. ASSUME IsChunk(q, 1, t) PROVE q[1].seq = a
  <2>1. q[1].seq \in Nat /\ 1 \in DOMAIN q
    BY <1>1, TailShifts, MessageTypes DEF IsChunk
  <2>2. a <= q[1].seq /\ Holds(q, 0, t, a, q[1].seq)
    BY <1>1, <2>1 DEF Gapless
  <2>3. ~(a < q[1].seq)
    BY <2>1, <2>2 DEF Holds
  <2> QED BY <2>1, <2>2, <2>3
<1>2. ASSUME NEW c \in Nat, a <= c,
             IsChunk(q, 1, t) => q[1].seq = a /\ c = a + 1,
             ~IsChunk(q, 1, t) => c = a
      PROVE  Gapless(Tail(q), t, c, o)
  <2>1. ASSUME NEW i \in DOMAIN Tail(q), IsChunk(Tail(q), i, t)
        PROVE  c <= Tail(q)[i].seq /\ Holds(Tail(q), i - 1, t, c, Tail(q)[i].seq)
    <3>1. /\ i + 1 \in DOMAIN q /\ 1 \in DOMAIN q /\ i \in Nat \ {0}
          /\ IsChunk(q, i + 1, t) /\ Tail(q)[i] = q[i + 1] /\ q[i + 1] \in Message
      BY <2>1, TailShifts DEF IsChunk
    <3>2. q[i + 1].seq \in Nat
      BY <3>1, MessageTypes DEF IsChunk
    <3>3. a <= q[i + 1].seq /\ Holds(q, i, t, a, q[i + 1].seq)
      BY <3>1 DEF Gapless
    <3>4. IsChunk(q, 1, t) => q[1].seq < q[i + 1].seq
      BY <3>1 DEF InOrder
    <3>5. c <= q[i + 1].seq
      BY <1>2, <3>2, <3>3, <3>4
    <3>6. IsChunk(q, 1, t) => q[1].seq < c
      BY <1>2
    <3> QED BY <1>2, <3>1, <3>2, <3>3, <3>5, <3>6, HoldsTail
  <2>2. ASSUME NEW i \in DOMAIN Tail(q), IsAnswer(Tail(q), i, t)
        PROVE  Holds(Tail(q), i - 1, t, c, o.seq)
    <3>1. i + 1 \in DOMAIN q /\ i \in Nat \ {0} /\ IsAnswer(q, i + 1, t)
      BY <2>2, TailShifts DEF IsAnswer
    <3>2. Holds(q, i, t, a, o.seq)
      BY <3>1 DEF Gapless
    <3>3. IsChunk(q, 1, t) => q[1].seq < c
      BY <1>2
    <3> QED BY <1>2, <3>1, <3>2, <3>3, HoldsTail
  <2> QED BY <2>1, <2>2 DEF Gapless
<1> QED BY <1>1, <1>2

--------------------------------------------------------------------------------
(* What a step leaves of the invariant when it concerns one side of a task only *)

LEMMA TaskTypes ==
    ASSUME TypeOK, NEW t \in TaskIds
    PROVE  /\ to_buyer \in Seq(Message) /\ to_provider \in Seq(Message)
           /\ out[t] \in [seq : Nat, final : BOOLEAN] /\ out[t].seq \in Nat
           /\ received[t] \in Seq(ChunkMessage) /\ Len(received[t]) \in Nat
<1>1. to_buyer \in Seq(Message) /\ to_provider \in Seq(Message)
  BY DEF TypeOK, WireType
<1>2. out[t] \in [seq : Nat, final : BOOLEAN] /\ out[t].seq \in Nat
  BY OutType, BoundsAssumption DEF TypeOK
<1>3. received[t] \in Seq(ChunkMessage)
  BY DEF TypeOK, BuyerType
<1> QED BY <1>1, <1>2, <1>3

\* A buyer that begins, ends or abandons a call touches nothing of what was sent to
\* it; who begins to listen has missed nothing, since nothing was sent.
LEMMA BuyerActs ==
    ASSUME Inv, NEW t \in TaskIds,
           UNCHANGED <<profile, to_buyer, link, future, received, server>>,
           InvokedOnce(t)',
           reader' = "reading" => reader = "reading",
           t \in listeners' => t \in listeners \/ dispatch[t] = None,
           t \in pending' \cup listeners' => call'[t] = "waiting",
           call'[t] = "waiting" /\ profile[t].listens => t \in listeners',
           call'[t] \in Outcome => call'[t] \in {call[t], future[t]}
    PROVE  TaskInv(t)'
<1> USE DEF server
<1>a. TaskInv(t) /\ TypeOK
  BY DEF Inv
<1>1. WorkLives(t)'
  BY <1>a DEF TaskInv, WorkLives
<1>2. AnswerEnds(to_buyer, t, dispatch[t], out[t])' /\ InOrder(to_buyer, t, out[t])'
  BY <1>a DEF TaskInv
<1>3. GotPrefix(t)'
  BY <1>a DEF TaskInv, GotPrefix
<1>4. RestArrives(t)'
  <2>1. CASE t \in listeners
    BY <1>a, <2>1 DEF TaskInv, RestArrives
  <2>2. CASE dispatch[t] = None
    <3>1. /\ out[t].seq = 0 /\ Len(received[t]) = 0
          /\ \A i \in DOMAIN to_buyer : ~IsAbout(to_buyer, i, t)
      BY <1>a, <2>2, TaskTypes DEF TaskInv, WorkLives, GotPrefix
    <3>2. Gapless(to_buyer, t, 0, out[t])
      BY <3>1 DEF Gapless, IsChunk, IsAnswer, IsAbout
    <3>3. Holds(to_buyer, Len(to_buyer), t, 0, 0)
      BY DEF Holds
    <3> QED BY <3>1, <3>2, <3>3 DEF RestArrives
  <2> QED BY <2>1, <2>2 DEF RestArrives
<1>5. CallLives(t)'
  <2>1. call'[t] \in Outcome => dispatch[t] = "done"
    BY <1>a DEF TaskInv, CallLives
  <2>2. future[t] = "streamed" \/ call'[t] = "streamed" => GotAll(t)
    BY <1>a DEF TaskInv, CallLives, Outcome
  <2>3. future[t] \in Outcome =>
          dispatch[t] = "done" /\ \A i \in DOMAIN to_buyer : ~IsAbout(to_buyer, i, t)
    BY <1>a DEF TaskInv, CallLives
  <2>4. UNCHANGED <<GotAll(t)>>
    BY DEF GotAll
  <2> QED BY <2>1, <2>2, <2>3, <2>4 DEF CallLives
<1> QED BY <1>1, <1>2, <1>3, <1>4, <1>5 DEF TaskInv

\* A provider that sends nothing.
LEMMA ProviderActs ==
    ASSUME Inv, NEW t \in TaskIds,
           UNCHANGED <<profile, to_buyer, link, buyer, out>>,
           InvokedOnce(t)', WorkLives(t)',
           dispatch[t] = "done" => dispatch'[t] = "done"
    PROVE  TaskInv(t)'
<1> USE DEF buyer
<1>a. TaskInv(t)
  BY DEF Inv
<1>2. AnswerEnds(to_buyer, t, dispatch[t], out[t])'
  BY <1>a DEF TaskInv, AnswerEnds
<1>3. InOrder(to_buyer, t, out[t])' /\ GotPrefix(t)' /\ RestArrives(t)'
  BY <1>a DEF TaskInv, GotPrefix, RestArrives
<1>4. CallLives(t)'
  BY <1>a DEF TaskInv, CallLives, GotAll
<1> QED BY <1>2, <1>3, <1>4 DEF TaskInv

\* What is put into the queue, or lost from its end, concerns other tasks.
LEMMA OthersAreSent ==
    ASSUME Inv, TypeOK', NEW t \in TaskIds,
           NEW n, NEW m, Cut(to_buyer, to_buyer', n, m),
           m.kind = "closed" \/ m.task_id # t,
           link' = "up" => link = "up" /\ n = Len(to_buyer),
           UNCHANGED <<profile, buyer, dispatch[t], handler[t], out[t]>>,
           t \in keepalive' => t \in keepalive,
           InvokedOnce(t)'
    PROVE  TaskInv(t)'
<1> USE DEF buyer
<1>a. TaskInv(t) /\ TypeOK
  BY DEF Inv
<1>b. to_buyer \in Seq(Message) /\ to_buyer' \in Seq(Message)
  BY <1>a DEF TypeOK, WireType
<1>c. ~(m.kind \in {"chunk", "answer"} /\ m.task_id = t)
  OBVIOUS
<1>0. ASSUME \A i \in DOMAIN to_buyer : ~IsAbout(to_buyer, i, t)
      PROVE  \A i \in DOMAIN to_buyer' : ~IsAbout(to_buyer', i, t)
  BY <1>0, <1>b DEF Cut, IsAbout
<1>1. WorkLives(t)'
  BY <1>a, <1>0 DEF TaskInv, WorkLives
<1>2. AnswerEnds(to_buyer, t, dispatch[t], out[t])' /\ InOrder(to_buyer, t, out[t])'
  BY <1>a, <1>b, <1>c, CutKeepsEnds, CutKeepsOrder DEF TaskInv
<1>3. GotPrefix(t)'
  BY <1>a DEF TaskInv, GotPrefix
<1>4. RestArrives(t)'
  <2> SUFFICES ASSUME reader = "reading", t \in listeners
               PROVE  /\ Gapless(to_buyer', t, Len(received[t]), out[t])
                      /\ link' = "up" => Holds(to_buyer', Len(to_buyer'), t,
                                               Len(received[t]), out[t].seq)
    BY DEF RestArrives
  <2>1. Gapless(to_buyer', t, Len(received[t]), out[t])
    BY <1>a, <1>b, <1>c, TaskTypes, CutKeepsRest DEF TaskInv, RestArrives
  <2>2. ASSUME link' = "up"
        PROVE  Holds(to_buyer', Len(to_buyer'), t, Len(received[t]), out[t].seq)
    <3>1. Holds(to_buyer, Len(to_buyer), t, Len(received[t]), out[t].seq)
      BY <1>a, <2>2 DEF TaskInv, RestArrives
    <3>2. Holds(to_buyer', n, t, Len(received[t]), out[t].seq)
      BY <1>a, <1>b, <2>2, <3>1, TaskTypes, HoldsCut
    <3>3. n \in 1 .. Len(to_buyer') \cup {0} /\ Len(to_buyer') = n + 1 /\ n \in Nat
      BY <1>b DEF Cut
    <3> QED BY <3>2, <3>3 DEF Holds
  <2> QED BY <2>1, <2>2
<1>5. CallLives(t)'
  BY <1>a, <1>0 DEF TaskInv, CallLives, GotAll
<1> QED BY <1>1, <1>2, <1>3, <1>4, <1>5 DEF TaskInv

LEMMA InvokesStay ==
    ASSUME Inv, TypeOK', NEW t \in TaskIds,
           NEW n, NEW m, Cut(to_provider, to_provider', n, m),
           m.kind # "invoke" \/ m.task_id # t,
           dispatch'[t] = dispatch[t], call'[t] = "idle" => call[t] = "idle"
    PROVE  InvokedOnce(t)'
<1>1. InvokedOnce(t) /\ to_provider \in Seq(Message) /\ to_provider' \in Seq(Message)
  BY DEF Inv, TaskInv, TypeOK, WireType
<1> QED BY <1>1 DEF Cut, InvokedOnce

LEMMA NothingInvoked ==
    ASSUME Inv, NEW t \in TaskIds, UNCHANGED <<to_provider, dispatch[t]>>,
           call'[t] = "idle" => call[t] = "idle"
    PROVE  InvokedOnce(t)'
BY DEF Inv, TaskInv, InvokedOnce

--------------------------------------------------------------------------------
(* The actions *)

LEMMA DropStep ==
    ASSUME Inv, TypeOK', NEW t \in TaskIds, Drop
    PROVE  TaskInv(t)'
<1>1. PICK i \in 0 .. Len(to_provider), j \in 0 .. Len(to_buyer) :
        /\ to_provider' = Append(SubSeq(to_provider, 1, i), [kind |-> "closed"])
        /\ to_buyer' = Append(SubSeq(to_buyer, 1, j), [kind |-> "closed"])
  BY DEF Drop
<1>2. to_provider \in Seq(Message) /\ to_buyer \in Seq(Message)
  BY DEF Inv, TypeOK, WireType
<1>3. /\ Cut(to_provider, to_provider', i, [kind |-> "closed"])
      /\ Cut(to_buyer, to_buyer', j, [kind |-> "closed"])
  BY <1>1, <1>2, SentTypes, SubSeqCuts
<1>4. InvokedOnce(t)'
  BY <1>3, InvokesStay DEF Drop, buyer, server
<1> QED BY <1>3, <1>4, OthersAreSent DEF Drop, buyer, server

LEMMA CloseProviderEndStep ==
    ASSUME Inv, TypeOK', NEW t \in TaskIds, CloseProviderEnd
    PROVE  TaskInv(t)'
<1>1. /\ to_buyer' = Append(to_buyer, [kind |-> "closed"])
      /\ UNCHANGED <<profile, to_provider, link, buyer, dispatch, handler, out, keepalive>>
  BY DEF CloseProviderEnd, ToBuyer
<1>2. Cut(to_buyer, to_buyer', Len(to_buyer), [kind |-> "closed"])
  BY <1>1, SentTypes, AppendCuts DEF Inv, TypeOK, WireType
<1>3. InvokedOnce(t)'
  BY <1>1, NothingInvoked DEF buyer
<1> QED BY <1>1, <1>2, <1>3, OthersAreSent

LEMMA CloseStep ==
    ASSUME Inv, TypeOK', NEW t \in TaskIds, Close
    PROVE  TaskInv(t)'
<1>1. InvokedOnce(t)'
  <2>1. CASE to_provider' = to_provider
    BY <2>1, NothingInvoked DEF Close, server
  <2>2. CASE ToProvider([kind |-> "closed"])
    <3>1. Cut(to_provider, to_provider', Len(to_provider), [kind |-> "closed"])
      BY <2>2, SentTypes, AppendCuts DEF Inv, TypeOK, WireType, ToProvider
    <3> QED BY <3>1, InvokesStay DEF Close, server
  <2> QED BY <2>1, <2>2 DEF Close
<1>2. CallLives(t)
  BY DEF Inv, TaskInv
<1> QED BY <1>1, <1>2, BuyerActs DEF Close, CallLives

LEMMA EndCallEnds ==
    ASSUME TypeOK, NEW t \in TaskIds, NEW how, how \notin {"idle", "waiting"}, EndCall(t, how)
    PROVE  /\ call'[t] = how /\ t \notin pending' \cup listeners'
           /\ \A u \in TaskIds \ {t} :
                /\ call'[u] = call[u]
                /\ u \in pending' <=> u \in pending
                /\ u \in listeners' <=> u \in listeners
BY DEF TypeOK, BuyerType, EndCall

LEMMA BuyersStep ==
    ASSUME Inv, TypeOK', NEW t \in TaskIds, NEW u \in TaskIds, Buyers(u)
    PROVE  TaskInv(t)'
<1>a. TaskInv(t) /\ TypeOK /\ CallLives(t) /\ CallLives(u)
  BY DEF Inv, TaskInv
<1>b. to_provider \in Seq(Message)
  BY <1>a DEF TypeOK, WireType
<1>1. CASE Invoke(u)
  <2>1. CASE BuyerCanSend
    <3> DEFINE m == [kind |-> "invoke", task_id |-> u]
    <3>1. /\ call' = [call EXCEPT ![u] = "waiting"]
          /\ pending' = pending \cup {u}
          /\ listeners' = IF profile[u].listens THEN listeners \cup {u} ELSE listeners
          /\ to_provider' = Append(to_provider, m)
      BY <1>1, <2>1 DEF Invoke, ToProvider
    <3>2. m \in Message
      BY SentTypes
    <3>3. Cut(to_provider, to_provider', Len(to_provider), m)
      BY <1>b, <3>1, <3>2, AppendCuts
    <3>4. /\ call'[u] = "waiting" /\ call[u] = "idle"
          /\ t # u => call'[t] = call[t]
          /\ UNCHANGED <<profile, to_buyer, link, reader, future, received, server>>
      BY <1>1, <1>a, <3>1 DEF Invoke, TypeOK, BuyerType
    <3>5. InvokedOnce(t)'
      <4>1. CASE t # u
        BY <3>3, <3>4, <4>1, InvokesStay DEF server
      <4>2. CASE t = u
        <5>1. /\ dispatch[t] = None
              /\ \A i \in DOMAIN to_provider :
                   ~(to_provider[i].kind = "invoke" /\ to_provider[i].task_id = t)
          BY <1>a, <3>4, <4>2 DEF TaskInv, InvokedOnce
        <5>2. \A i \in DOMAIN to_provider' :
                to_provider'[i].kind = "invoke" /\ to_provider'[i].task_id = t
                  => i = Len(to_provider) + 1
          BY <1>b, <3>1, <5>1
        <5> QED BY <3>4, <4>2, <5>1, <5>2 DEF InvokedOnce, server
      <4> QED BY <4>1, <4>2
    <3>6. t = u => dispatch[t] = None
      BY <1>a, <3>4 DEF TaskInv, InvokedOnce
    <3>7. /\ t \in listeners' => t \in listeners \/ dispatch[t] = None
          /\ t \in pending' \cup listeners' => call'[t] = "waiting"
          /\ call'[t] = "waiting" /\ profile[t].listens => t \in listeners'
          /\ call'[t] \in Outcome => call'[t] = call[t]
      BY <1>a, <3>1, <3>4, <3>6 DEF CallLives, Outcome
    <3> HIDE DEF m
    <3> QED BY <3>4, <3>5, <3>7, BuyerActs
  <2>2. CASE ~BuyerCanSend
    <3>1. EndCall(u, "closed") /\ UNCHANGED to_provider
      BY <1>1, <2>2 DEF Invoke
    <3>2. /\ call'[u] = "closed" /\ u \notin pending' \cup listeners'
          /\ t # u => /\ call'[t] = call[t]
                      /\ t \in pending' <=> t \in pending
                      /\ t \in listeners' <=> t \in listeners
      BY <1>a, <3>1, EndCallEnds
    <3>3. UNCHANGED <<profile, to_buyer, link, reader, future, received, server>>
      BY <1>1 DEF Invoke
    <3>4. InvokedOnce(t)'
      BY <3>1, <3>2, <3>3, NothingInvoked DEF server
    <3> QED BY <1>a, <3>2, <3>3, <3>4, BuyerActs DEF CallLives, Outcome
  <2> QED BY <2>1, <2>2
<1>2. CASE CallResumes(u)
  <2>0. future[u] \in Outcome \cup {"closed"}
    BY <1>a, <1>2 DEF CallResumes, TypeOK, BuyerType
  <2>1. /\ call'[u] = future[u] /\ u \notin pending' \cup listeners'
        /\ t # u => /\ call'[t] = call[t]
                    /\ t \in pending' <=> t \in pending
                    /\ t \in listeners' <=> t \in listeners
    BY <1>2, <1>a, <2>0, EndCallEnds DEF CallResumes, Outcome
  <2>2. UNCHANGED <<profile, to_buyer, to_provider, link, reader, future, received, server>>
    BY <1>2 DEF CallResumes
  <2>3. InvokedOnce(t)'
    BY <2>0, <2>1, <2>2, NothingInvoked DEF server, Outcome
  <2> QED BY <1>a, <2>0, <2>1, <2>2, <2>3, BuyerActs DEF CallLives, Outcome
<1>3. CASE CallTimesOut(u)
  <2> DEFINE m == [kind |-> "cancel", task_id |-> u]
  <2>1. PICK how \in {"timeout", "closed"} :
          EndCall(u, how) /\ (to_provider' = Append(to_provider, m) \/ UNCHANGED to_provider)
    BY <1>3 DEF CallTimesOut, ToProvider
  <2>2. /\ call'[u] = how /\ u \notin pending' \cup listeners'
        /\ t # u => /\ call'[t] = call[t]
                    /\ t \in pending' <=> t \in pending
                    /\ t \in listeners' <=> t \in listeners
    BY <1>a, <2>1, EndCallEnds
  <2>3. UNCHANGED <<profile, to_buyer, link, reader, future, received, server>>
    BY <1>3 DEF CallTimesOut
  <2>4. InvokedOnce(t)'
    <3>1. CASE to_provider' = Append(to_provider, m)
      <4>1. m \in Message
        BY SentTypes
      <4>2. Cut(to_provider, to_provider', Len(to_provider), m)
        BY <1>b, <3>1, <4>1, AppendCuts
      <4> QED BY <2>2, <2>3, <4>2, InvokesStay DEF server
    <3> QED BY <2>1, <2>2, <2>3, <3>1, NothingInvoked DEF server
  <2> HIDE DEF m
  <2> QED BY <1>a, <2>2, <2>3, <2>4, BuyerActs DEF CallLives, Outcome
<1>4. CASE SendInput(u)
  <2> DEFINE m == [kind |-> "input", task_id |-> u]
  <2>1. m \in Message
    BY SentTypes
  <2>2. Cut(to_provider, to_provider', Len(to_provider), m)
    BY <1>4, <1>b, <2>1, AppendCuts DEF SendInput, ToProvider
  <2>3. UNCHANGED <<profile, to_buyer, link, reader, call, pending, listeners, future,
                    received, server>>
    BY <1>4 DEF SendInput
  <2>4. InvokedOnce(t)'
    BY <2>2, <2>3, InvokesStay DEF server
  <2> HIDE DEF m
  <2> QED BY <1>a, <2>3, <2>4, BuyerActs DEF CallLives
<1> QED BY <1>1, <1>2, <1>3, <1>4 DEF Buyers

\* The reader loop takes the first message; the other variables it changes are those
\* of the message's task.
LEMMA ReadingStep ==
    ASSUME Inv, TypeOK', NEW t \in TaskIds, ReaderReads
    PROVE  TaskInv(t)'
<1> DEFINE m == Head(to_buyer)
<1>a. TaskInv(t) /\ TypeOK
  BY DEF Inv
<1>b. /\ to_buyer \in Seq(Message) /\ to_buyer # <<>> /\ to_buyer' = Tail(to_buyer)
      /\ m = to_buyer[1] /\ m \in Message /\ Len(to_buyer) \in Nat \ {0}
      /\ 1 \in DOMAIN to_buyer
  BY <1>a, TailShifts DEF ReaderReads, TypeOK, WireType
<1>c. UNCHANGED <<profile, to_provider, link, call, listeners, server>>
  BY DEF ReaderReads
<1>d. reader = "reading"
  BY DEF ReaderReads
<1>e. /\ out[t] \in [seq : Nat, final : BOOLEAN] /\ out[t].seq \in Nat
      /\ received[t] \in Seq(ChunkMessage) /\ Len(received[t]) \in Nat
  BY <1>a, TaskTypes
<1> HIDE DEF m
<1>1. InvokedOnce(t)'
  BY <1>c, NothingInvoked DEF server
<1>2. ASSUME \A i \in DOMAIN to_buyer : ~IsAbout(to_buyer, i, t)
      PROVE  \A i \in DOMAIN to_buyer' : ~IsAbout(to_buyer', i, t)
  BY <1>2, <1>b, TailShifts DEF IsAbout
<1>3. WorkLives(t)'
  BY <1>a, <1>c, <1>2 DEF TaskInv, WorkLives, server
<1>4. AnswerEnds(to_buyer, t, dispatch[t], out[t])' /\ InOrder(to_buyer, t, out[t])'
  BY <1>a, <1>b, <1>c, TailKeepsEnds, TailKeepsOrder DEF TaskInv, server
<1>5. ASSUME t \in listeners
      PROVE  /\ IsChunk(to_buyer, 1, t) =>
                  /\ m.seq = Len(received[t])
                  /\ Gapless(to_buyer', t, Len(received[t]) + 1, out[t])
             /\ ~IsChunk(to_buyer, 1, t) =>
                  Gapless(to_buyer', t, Len(received[t]), out[t])
  BY <1>5, <1>a, <1>b, <1>d, <1>e, TailKeepsRest DEF TaskInv, RestArrives
<1>6. ASSUME t \in listeners, link = "up",
             NEW c \in Nat, Len(received[t]) <= c,
             IsChunk(to_buyer, 1, t) => m.seq < c
      PROVE  Holds(to_buyer', Len(to_buyer'), t, c, out[t].seq)
  <2>1. Holds(to_buyer, Len(to_buyer), t, Len(received[t]), out[t].seq)
    BY <1>6, <1>a, <1>d DEF TaskInv, RestArrives
  <2>2. Len(to_buyer') = Len(to_buyer) - 1
    BY <1>b, TailShifts
  <2>3. IsChunk(to_buyer, 1, t) => to_buyer[1].seq < c
    BY <1>6, <1>b
  <2>4. Holds(Tail(to_buyer), Len(to_buyer) - 1, t, c, out[t].seq)
    BY <1>6, <1>b, <1>e, <2>1, <2>3, HoldsTail
  <2> QED BY <1>b, <2>2, <2>4
<1>7. ASSUME received'[t] = received[t], ~(t \in listeners /\ IsChunk(to_buyer, 1, t))
             \/ reader' # "reading"
      PROVE  GotPrefix(t)' /\ RestArrives(t)'
  <2>1. GotPrefix(t)'
    BY <1>7, <1>a, <1>c DEF TaskInv, GotPrefix, server
  <2>2. RestArrives(t)'
    BY <1>7, <1>5, <1>6, <1>c, <1>e DEF RestArrives, server
  <2> QED BY <2>1, <2>2
<1>8. ASSUME t \in listeners, IsChunk(to_buyer, 1, t),
             received'[t] = Append(received[t], m)
      PROVE  GotPrefix(t)' /\ RestArrives(t)'
  <2>1. m.seq = Len(received[t]) /\ m.seq < out[t].seq
        /\ (m.final <=> out[t].final /\ m.seq + 1 = out[t].seq)
    BY <1>5, <1>8, <1>a, <1>b DEF TaskInv, InOrder
  <2>2. /\ Len(received'[t]) = Len(received[t]) + 1
        /\ received'[t][Len(received[t]) + 1] = m
        /\ DOMAIN received'[t] = 1 .. (Len(received[t]) + 1)
        /\ \A i \in 1 .. Len(received[t]) : received'[t][i] = received[t][i]
    <3>1. m \in ChunkMessage
      BY <1>8, <1>b, MessageTypes DEF IsChunk
    <3> QED BY <1>8, <1>e, <3>1
  <2>3. GotPrefix(t)'
    <3>1. Len(received'[t]) <= out[t].seq
      BY <1>e, <2>1, <2>2
    <3>2. ASSUME NEW i \in 1 .. (Len(received[t]) + 1)
          PROVE  /\ received'[t][i].seq = i - 1
                 /\ received'[t][i].final <=> out[t].final /\ i = out[t].seq
      <4>1. CASE i = Len(received[t]) + 1
        BY <1>e, <2>1, <2>2, <4>1
      <4>2. CASE i \in 1 .. Len(received[t])
        <5>1. DOMAIN received[t] = 1 .. Len(received[t])
          BY <1>e
        <5> QED BY <1>a, <2>2, <4>2, <5>1 DEF TaskInv, GotPrefix
      <4> QED BY <1>e, <4>1, <4>2
    <3> QED BY <1>c, <2>2, <3>1, <3>2 DEF GotPrefix, server
  <2>4. RestArrives(t)'
    <3>1. Gapless(to_buyer', t, Len(received[t]) + 1, out[t])
      BY <1>5, <1>8
    <3>2. ASSUME link = "up"
          PROVE  Holds(to_buyer', Len(to_buyer'), t, Len(received[t]) + 1, out[t].seq)
      BY <1>6, <1>8, <1>e, <2>1, <3>2
    <3> QED BY <1>c, <2>2, <3>1, <3>2 DEF RestArrives, server
  <2> QED BY <2>3, <2>4
<1>9. ASSUME GotPrefix(t)', received'[t] = received[t] \/ Len(received'[t]) = Len(received[t]) + 1,
             GotAll(t)
      PROVE  GotAll(t)'
  BY <1>9, <1>c, <1>e DEF GotAll, GotPrefix, server
<1>10. ASSUME UNCHANGED <<pending, future>>, GotPrefix(t)', RestArrives(t)',
              received'[t] = received[t] \/ Len(received'[t]) = Len(received[t]) + 1
       PROVE  TaskInv(t)'
  <2>1. CallLives(t)'
    <3>1. CallLives(t)
      BY <1>a DEF TaskInv
    <3>2. future[t] = "streamed" \/ call[t] = "streamed" => GotAll(t)'
      BY <3>1, <1>9, <1>10 DEF CallLives
    <3> QED BY <3>1, <3>2, <1>2, <1>10, <1>c DEF CallLives, server
  <2> QED BY <1>1, <1>3, <1>4, <1>10, <2>1 DEF TaskInv
<1>11. ASSUME m.kind \in {"chunk", "heartbeat"}, Notify(m), UNCHANGED <<pending, future>>
       PROVE  TaskInv(t)'
  <2>1. received \in [TaskIds -> Seq(ChunkMessage)]
    BY <1>a DEF TypeOK, BuyerType
  <2>2. CASE reader' = "crashed" /\ UNCHANGED received
    BY <1>7, <1>10, <1>11, <2>2
  <2>3. CASE received' = IF m.task_id \in listeners /\ m.kind = "chunk"
                         THEN [received EXCEPT ![m.task_id] = Append(@, m)] ELSE received
    <3>1. CASE t \in listeners /\ IsChunk(to_buyer, 1, t)
      <4>1. received'[t] = Append(received[t], m)
        BY <1>b, <2>1, <2>3, <3>1 DEF IsChunk
      <4>2. Len(received'[t]) = Len(received[t]) + 1
        BY <1>e, <4>1
      <4> QED BY <1>8, <1>10, <1>11, <3>1, <4>1, <4>2
    <3>2. CASE ~(t \in listeners /\ IsChunk(to_buyer, 1, t))
      <4>1. received'[t] = received[t]
        BY <1>b, <2>1, <2>3, <3>2 DEF IsChunk
      <4> QED BY <1>7, <1>10, <1>11, <3>2, <4>1
    <3> QED BY <3>1, <3>2
  <2> QED BY <1>11, <2>2, <2>3 DEF Notify
<1>12. ASSUME m.kind = "answer",
              pending' = pending \ {m.task_id},
              future' = IF m.task_id \in pending /\ future[m.task_id] = None
                        THEN [future EXCEPT ![m.task_id] = m.outcome] ELSE future,
              UNCHANGED <<reader, received>>
       PROVE  TaskInv(t)'
  <2>1. ~IsChunk(to_buyer, 1, t)
    BY <1>b, <1>12 DEF IsChunk
  <2>2. GotPrefix(t)' /\ RestArrives(t)'
    BY <1>7, <1>12, <2>1
  <2>3. CallLives(t)
    BY <1>a DEF TaskInv
  <2>4. UNCHANGED <<GotAll(t)>>
    BY <1>12, <1>c DEF GotAll, server
  <2>5. CASE future'[t] = future[t]
    BY <1>2, <1>c, <1>12, <2>3, <2>4, <2>5, <1>1, <1>3, <1>4, <2>2
       DEF TaskInv, CallLives, server
  <2>6. CASE future'[t] # future[t]
    <3>1. m.task_id = t /\ t \in pending /\ future'[t] = m.outcome
      BY <1>12, <1>a, <2>6 DEF TypeOK, BuyerType
    <3>2. IsAnswer(to_buyer, 1, t)
      BY <1>b, <1>12, <3>1 DEF IsAnswer
    <3>3. /\ dispatch[t] = "done"
          /\ m.outcome = "streamed" => out[t].final
          /\ \A j \in DOMAIN to_buyer : 1 < j => ~IsAbout(to_buyer, j, t)
      BY <1>a, <1>b, <3>2 DEF TaskInv, AnswerEnds
    <3>4. \A j \in DOMAIN to_buyer' : ~IsAbout(to_buyer', j, t)
      BY <1>b, <3>3, TailShifts DEF IsAbout
    <3>5. profile[t].listens => Len(received[t]) = out[t].seq
      <4> SUFFICES ASSUME profile[t].listens
                   PROVE  Len(received[t]) = out[t].seq
        OBVIOUS
      <4>1. t \in listeners
        BY <2>3, <3>1 DEF CallLives
      <4>2. Holds(to_buyer, 0, t, Len(received[t]), out[t].seq)
        BY <1>a, <1>b, <1>d, <3>2, <4>1 DEF TaskInv, RestArrives, Gapless
      <4>3. ~(Len(received[t]) < out[t].seq)
        BY <1>e, <4>2 DEF Holds
      <4>4. Len(received[t]) <= out[t].seq
        BY <1>a DEF TaskInv, GotPrefix
      <4> QED BY <1>e, <4>3, <4>4
    <3>6. call[t] = "waiting"
      BY <2>3, <3>1 DEF CallLives
    <3>7. CallLives(t)'
      BY <1>c, <1>12, <2>3, <2>4, <3>1, <3>3, <3>4, <3>5, <3>6
         DEF CallLives, GotAll, server
    <3> QED BY <1>1, <1>3, <1>4, <2>2, <3>7 DEF TaskInv
  <2> QED BY <2>5, <2>6
<1>13. ASSUME m.kind = "closed", reader' = "ended", FailPending,
              UNCHANGED <<pending, received>>
       PROVE  TaskInv(t)'
  <2>1. GotPrefix(t)' /\ RestArrives(t)'
    BY <1>7, <1>13
  <2>2. future'[t] \in {future[t], "closed"}
    BY <1>13 DEF FailPending
  <2>3. UNCHANGED <<GotAll(t)>>
    BY <1>13, <1>c DEF GotAll, server
  <2>4. CallLives(t)'
    BY <1>2, <1>a, <1>c, <1>13, <2>2, <2>3 DEF TaskInv, CallLives, Outcome, server
  <2> QED BY <1>1, <1>3, <1>4, <2>1, <2>4 DEF TaskInv
<1> QED BY <1>11, <1>12, <1>13, Zenon DEF ReaderReads, m

LEMMA ServingStep ==
    ASSUME Inv, TypeOK', NEW t \in TaskIds, ProviderReads
    PROVE  TaskInv(t)'
<1> DEFINE m == Head(to_provider)
<1>a. InvokedOnce(t) /\ WorkLives(t) /\ TypeOK
  BY DEF Inv, TaskInv
<1>b. /\ to_provider \in Seq(Message) /\ to_provider # <<>> /\ to_provider' = Tail(to_provider)
      /\ m = to_provider[1] /\ m \in Message /\ 1 \in DOMAIN to_provider
  BY <1>a, TailShifts DEF ProviderReads, TypeOK, WireType
<1>c. UNCHANGED <<profile, to_buyer, link, buyer, out>>
  BY DEF ProviderReads
<1>d. dispatch \in [TaskIds -> {None, "running", "done"}]
      /\ handler \in [TaskIds -> {None, "working", "cancelling", "output", "no output",
                                  "raised", "cancelled"}]
  BY <1>a DEF TypeOK, ProviderType
<1> HIDE DEF m
<1>1. ASSUME NEW i \in DOMAIN to_provider', to_provider'[i].kind = "invoke",
             to_provider'[i].task_id = t
      PROVE  /\ i + 1 \in DOMAIN to_provider /\ to_provider'[i] = to_provider[i + 1]
             /\ dispatch[t] = None /\ call[t] # "idle"
             /\ ~(m.kind = "invoke" /\ m.task_id = t)
  <2>1. i + 1 \in DOMAIN to_provider /\ to_provider'[i] = to_provider[i + 1] /\ i + 1 # 1
    BY <1>1, <1>b, TailShifts
  <2> QED BY <1>1, <1>a, <1>b, <2>1 DEF InvokedOnce
<1>2. ASSUME NEW i \in DOMAIN to_provider', NEW j \in DOMAIN to_provider',
             to_provider'[i].kind = "invoke", to_provider'[i].task_id = t,
             to_provider'[j].kind = "invoke", to_provider'[j].task_id = t
      PROVE  j = i
  <2>1. /\ i + 1 \in DOMAIN to_provider /\ to_provider'[i] = to_provider[i + 1]
        /\ j + 1 \in DOMAIN to_provider /\ to_provider'[j] = to_provider[j + 1]
    BY <1>2, <1>1
  <2>2. j + 1 = i + 1
    BY <1>2, <1>a, <2>1 DEF InvokedOnce
  <2>3. i \in Nat /\ j \in Nat
    BY <1>b, TailShifts
  <2> QED BY <2>2, <2>3
<1>3. ASSUME dispatch'[t] = dispatch[t] \/ (m.kind = "invoke" /\ m.task_id = t)
      PROVE  InvokedOnce(t)'
  <2>1. m.kind = "invoke" /\ m.task_id = t => call[t] # "idle"
    BY <1>a, <1>b DEF InvokedOnce
  <2>2. call' = call
    BY <1>c DEF buyer
  <2>3. dispatch'[t] # None => call[t] # "idle"
    BY <1>3, <1>a, <2>1 DEF InvokedOnce
  <2> QED BY <1>1, <1>2, <1>3, <2>2, <2>3 DEF InvokedOnce
<1>4. CASE m.kind = "invoke" /\ m.task_id = t
  <2>1. dispatch[t] = None
    BY <1>4, <1>a, <1>b DEF InvokedOnce
  <2>2. dispatch'[t] = "running"
    BY <1>4, <1>d DEF ProviderReads, m
  <2>3. WorkLives(t)'
    BY <1>a, <1>c, <2>1, <2>2 DEF WorkLives, None
  <2> QED BY <1>3, <1>4, <1>c, <2>1, <2>3, ProviderActs DEF None
<1>5. CASE ~(m.kind = "invoke" /\ m.task_id = t)
  <2>1. dispatch'[t] = dispatch[t] /\ (t \in keepalive' <=> t \in keepalive)
    BY <1>5, <1>d DEF ProviderReads, m
  <2>2. handler'[t] = handler[t]
        \/ (dispatch[t] = "running" /\ handler'[t] = "cancelling")
    BY <1>5, <1>d DEF ProviderReads, m
  <2>3. WorkLives(t)'
    BY <1>a, <1>c, <2>1, <2>2 DEF WorkLives, None
  <2> QED BY <1>3, <1>c, <2>1, <2>3, ProviderActs
<1> QED BY <1>4, <1>5

LEMMA ServeReturnsStep ==
    ASSUME Inv, TypeOK', NEW t \in TaskIds, ServeReturns
    PROVE  TaskInv(t)'
<1>1. InvokedOnce(t)'
  BY NothingInvoked DEF ServeReturns, buyer
<1>2. WorkLives(t)'
  BY DEF Inv, TaskInv, WorkLives, ServeReturns
<1> QED BY <1>1, <1>2, ProviderActs DEF ServeReturns

LEMMA HandlerEndsStep ==
    ASSUME Inv, TypeOK', NEW t \in TaskIds, NEW u \in TaskIds, HandlerEnds(u)
    PROVE  TaskInv(t)'
<1>1. InvokedOnce(t)'
  BY NothingInvoked DEF HandlerEnds, buyer
<1>2. /\ handler'[t] \in {"working", "cancelling"} => handler[t] \in {"working", "cancelling"}
      /\ handler[t] = None => handler'[t] = None
  BY DEF HandlerEnds, Inv, TypeOK, ProviderType, None
<1>3. WorkLives(t)'
  BY <1>2 DEF Inv, TaskInv, WorkLives, HandlerEnds
<1> QED BY <1>1, <1>3, ProviderActs DEF HandlerEnds

\* A chunk is put behind all that was sent of its task.
LEMMA EmitStep ==
    ASSUME Inv, TypeOK', NEW t \in TaskIds, NEW u \in TaskIds, NEW final \in BOOLEAN,
           Emit(u, final)
    PROVE  TaskInv(t)'
<1> DEFINE m == [kind |-> "chunk", task_id |-> u, seq |-> out[u].seq, final |-> final]
           n == Len(to_buyer)
<1>a. TaskInv(t) /\ TypeOK
  BY DEF Inv
<1>b. /\ to_buyer \in Seq(Message) /\ to_buyer' \in Seq(Message) /\ n \in Nat
      /\ out[t] \in [seq : Nat, final : BOOLEAN] /\ out[t].seq \in Nat
      /\ Len(received[t]) \in Nat /\ out[u].seq \in Nat
  BY <1>a, TaskTypes DEF TypeOK, WireType
<1>c. UNCHANGED <<profile, to_provider, link, buyer, dispatch, handler, keepalive>>
  BY DEF Emit
<1>d. m \in Message
  BY <1>b, SentTypes
<1>e. Cut(to_buyer, to_buyer', n, m) /\ to_buyer' = Append(to_buyer, m)
  BY <1>b, <1>d, AppendCuts DEF Emit, ToBuyer
<1>1. InvokedOnce(t)'
  BY <1>c, NothingInvoked DEF buyer
<1>2. CASE t # u
  <2>1. out'[t] = out[t]
    BY <1>2, <1>a DEF Emit, NextOut, TypeOK, ProviderType
  <2>2. m.task_id # t
    BY <1>2
  <2> HIDE DEF m, n
  <2> QED BY <1>c, <1>e, <1>1, <2>1, <2>2, OthersAreSent DEF n
<1>3. CASE t = u
  <2>1. /\ out'[t].seq = out[t].seq + 1 /\ out'[t].final = final /\ ~out[t].final
        /\ handler[t] \in {"working", "cancelling"} /\ link = "up"
    BY <1>3, <1>a DEF Emit, NextOut, ProviderCanSend, TypeOK, ProviderType
  <2>2. /\ m.kind = "chunk" /\ m.task_id = t /\ m.seq = out[t].seq /\ m.final = final
    BY <1>3
  <2> HIDE DEF m
  <2>3. dispatch[t] = "running"
    BY <1>a, <2>1 DEF TaskInv, WorkLives
  <2>4. \A i \in DOMAIN to_buyer : ~IsAnswer(to_buyer, i, t)
    BY <1>a, <2>3 DEF TaskInv, AnswerEnds
  <2>5. /\ DOMAIN to_buyer = 1 .. n /\ DOMAIN to_buyer' = 1 .. (n + 1)
        /\ to_buyer'[n + 1] = m
        /\ \A i \in 1 .. n : to_buyer'[i] = to_buyer[i]
    BY <1>b, <1>e DEF Cut
  <2> HIDE DEF n
  <2>6. \A i \in DOMAIN to_buyer' : ~IsAnswer(to_buyer', i, t)
    BY <1>b, <2>2, <2>4, <2>5 DEF IsAnswer
  <2>7. WorkLives(t)'
    BY <1>a, <1>b, <1>c, <2>1, <2>3 DEF TaskInv, WorkLives, None
  <2>8. AnswerEnds(to_buyer, t, dispatch[t], out[t])'
    BY <2>6 DEF AnswerEnds
  <2>9. InOrder(to_buyer, t, out[t])'
    <3>1. ASSUME NEW i \in DOMAIN to_buyer', IsChunk(to_buyer', i, t)
          PROVE  /\ to_buyer'[i].seq < out'[t].seq
                 /\ to_buyer'[i].final <=> out'[t].final /\ to_buyer'[i].seq + 1 = out'[t].seq
                 /\ i \in 1 .. n => to_buyer'[i].seq < out[t].seq
      <4>1. CASE i = n + 1
        BY <1>b, <2>1, <2>2, <2>5, <4>1
      <4>2. CASE i \in 1 .. n
        <5>1. to_buyer[i].seq < out[t].seq /\ ~to_buyer[i].final /\ to_buyer'[i] = to_buyer[i]
          BY <1>a, <2>1, <2>5, <3>1, <4>2 DEF TaskInv, InOrder, IsChunk
        <5>2. to_buyer[i].seq \in Nat
          BY <1>b, <2>5, <3>1, <4>2, <5>1, MessageTypes DEF IsChunk
        <5> QED BY <1>b, <2>1, <5>1, <5>2
      <4> QED BY <1>b, <2>5, <4>1, <4>2
    <3>2. ASSUME NEW i \in DOMAIN to_buyer', NEW j \in DOMAIN to_buyer',
                 IsChunk(to_buyer', i, t), IsChunk(to_buyer', j, t), i < j
          PROVE  to_buyer'[i].seq < to_buyer'[j].seq
      <4>1. i \in 1 .. n
        BY <1>b, <2>5, <3>2
      <4>2. CASE j = n + 1
        BY <2>2, <2>5, <3>1, <3>2, <4>1, <4>2
      <4>3. CASE j \in 1 .. n
        BY <1>a, <2>5, <3>2, <4>1, <4>3 DEF TaskInv, InOrder, IsChunk
      <4> QED BY <1>b, <2>5, <4>2, <4>3
    <3> QED BY <3>1, <3>2 DEF InOrder
  <2>10. GotPrefix(t)'
    <3>1. received'[t] = received[t]
      BY <1>c DEF buyer
    <3>2. /\ Len(received[t]) <= out[t].seq
          /\ \A i \in DOMAIN received[t] :
               received[t][i].seq = i - 1 /\ ~received[t][i].final
      BY <1>a, <2>1 DEF TaskInv, GotPrefix
    <3>3. DOMAIN received[t] = 1 .. Len(received[t])
      BY <1>a, TaskTypes
    <3> QED BY <1>b, <2>1, <3>1, <3>2, <3>3 DEF GotPrefix
  <2>11. RestArrives(t)'
    <3> SUFFICES ASSUME reader = "reading", t \in listeners
                 PROVE  /\ Gapless(to_buyer', t, Len(received[t]), out'[t])
                        /\ Holds(to_buyer', n + 1, t, Len(received[t]), out'[t].seq)
      BY <1>b, <1>c, <1>e DEF RestArrives, buyer, Cut
    <3>1. /\ Gapless(to_buyer, t, Len(received[t]), out[t])
          /\ Holds(to_buyer, n, t, Len(received[t]), out[t].seq)
      BY <1>a, <2>1 DEF TaskInv, RestArrives, n
    <3>2. Len(received[t]) <= out[t].seq
      BY <1>a DEF TaskInv, GotPrefix
    <3>3. Holds(to_buyer', n, t, Len(received[t]), out[t].seq)
      <4>1. n \in Int /\ n <= n /\ Cut(to_buyer, to_buyer', n, m)
        BY <1>b, <1>e
      <4>2. Holds(to_buyer, n, t, Len(received[t]), out[t].seq)
        BY <3>1
      <4> QED BY <1>b, <4>1, <4>2, HoldsCut
    <3>4. ASSUME NEW i \in DOMAIN to_buyer', IsChunk(to_buyer', i, t)
          PROVE  /\ Len(received[t]) <= to_buyer'[i].seq
                 /\ Holds(to_buyer', i - 1, t, Len(received[t]), to_buyer'[i].seq)
      <4>1. CASE i = n + 1
        BY <1>b, <2>2, <2>5, <3>2, <3>3, <4>1
      <4>2. CASE i \in 1 .. n
        <5>1. IsChunk(to_buyer, i, t) /\ to_buyer'[i] = to_buyer[i] /\ i \in DOMAIN to_buyer
          BY <2>5, <3>4, <4>2 DEF IsChunk
        <5>2. to_buyer[i].seq \in Nat
          BY <1>b, <5>1, MessageTypes DEF IsChunk
        <5>3. /\ Len(received[t]) <= to_buyer[i].seq
              /\ Holds(to_buyer, i - 1, t, Len(received[t]), to_buyer[i].seq)
          BY <3>1, <5>1 DEF Gapless
        <5>4. i - 1 \in Int /\ i - 1 <= n
          BY <1>b, <4>2
        <5> QED BY <1>b, <1>e, <5>1, <5>2, <5>3, <5>4, HoldsCut
      <4> QED BY <1>b, <2>5, <4>1, <4>2
    <3>5. Gapless(to_buyer', t, Len(received[t]), out'[t])
      BY <2>6, <3>4 DEF Gapless
    <3>6. Holds(to_buyer', n + 1, t, Len(received[t]), out'[t].seq)
      <4> SUFFICES ASSUME NEW s \in Len(received[t]) .. (out'[t].seq - 1)
                   PROVE  \E j \in 1 .. (n + 1) : j <= Len(to_buyer')
                            /\ IsChunk(to_buyer', j, t) /\ to_buyer'[j].seq = s
        BY DEF Holds
      <4>1. CASE s = out[t].seq
        <5>1. n + 1 <= Len(to_buyer') /\ IsChunk(to_buyer', n + 1, t)
              /\ to_buyer'[n + 1].seq = s
          BY <1>b, <1>e, <2>2, <2>5, <4>1 DEF IsChunk, Cut
        <5> QED BY <1>b, <5>1
      <4>2. CASE s \in Len(received[t]) .. (out[t].seq - 1)
        BY <1>b, <3>3, <4>2 DEF Holds
      <4> QED BY <1>b, <2>1, <4>1, <4>2
    <3> QED BY <3>5, <3>6
  <2>12. CallLives(t)'
    BY <1>a, <1>c, <2>3 DEF TaskInv, CallLives, Outcome, buyer
  <2> QED BY <1>1, <2>7, <2>8, <2>9, <2>10, <2>11, <2>12 DEF TaskInv
<1> QED BY <1>2, <1>3

\* A heartbeat is no chunk and no answer, and is sent of a task at work only.
LEMMA HeartbeatStep ==
    ASSUME Inv, TypeOK', NEW t \in TaskIds, NEW u \in TaskIds, Heartbeat(u)
    PROVE  TaskInv(t)'
<1> DEFINE m == [kind |-> "heartbeat", task_id |-> u]
           n == Len(to_buyer)
<1>a. TaskInv(t) /\ TaskInv(u) /\ TypeOK
  BY DEF Inv
<1>b. to_buyer \in Seq(Message) /\ to_buyer' \in Seq(Message) /\ n \in Nat
  BY <1>a, TaskTypes DEF TypeOK, WireType
<1>c. UNCHANGED <<profile, to_provider, link, buyer, dispatch, handler, out>>
  BY DEF Heartbeat
<1>1. InvokedOnce(t)'
  BY <1>c, NothingInvoked DEF buyer
<1>2. CASE ~ProviderCanSend
  <2>1. to_buyer' = to_buyer /\ (t \in keepalive' => t \in keepalive)
    BY <1>2 DEF Heartbeat
  <2>2. WorkLives(t)'
    BY <1>a, <1>c, <2>1 DEF TaskInv, WorkLives
  <2> QED BY <1>c, <1>1, <2>1, <2>2, ProviderActs
<1>3. CASE ProviderCanSend
  <2>1. /\ m.kind = "heartbeat" /\ m.task_id = u /\ m \in Message
        /\ to_buyer' = Append(to_buyer, m) /\ keepalive' = keepalive
    BY <1>3, SentTypes DEF Heartbeat, ToBuyer
  <2> HIDE DEF m
  <2>2. Cut(to_buyer, to_buyer', n, m)
    BY <1>b, <2>1, AppendCuts
  <2> HIDE DEF n
  <2>3. CASE t # u
    BY <1>c, <1>1, <2>1, <2>2, <2>3, OthersAreSent DEF n
  <2>4. CASE t = u
    <3>1. dispatch[t] = "running"
      BY <1>a, <2>4 DEF Heartbeat, TaskInv, WorkLives
    <3>2. WorkLives(t)'
      BY <1>a, <1>c, <2>1, <3>1 DEF TaskInv, WorkLives, None
    <3>3. AnswerEnds(to_buyer, t, dispatch[t], out[t])'
      <4>1. \A i \in DOMAIN to_buyer : ~IsAnswer(to_buyer, i, t)
        BY <1>a, <3>1 DEF TaskInv, AnswerEnds
      <4>2. \A i \in DOMAIN to_buyer' : ~IsAnswer(to_buyer', i, t)
        BY <1>b, <2>1, <2>2, <4>1 DEF Cut, IsAnswer
      <4> QED BY <4>2 DEF AnswerEnds
    <3>4. InOrder(to_buyer, t, out[t])'
      BY <1>a, <1>b, <1>c, <2>1, <2>2, CutKeepsOrder DEF TaskInv
    <3>5. GotPrefix(t)'
      BY <1>a, <1>c DEF TaskInv, GotPrefix, buyer
    <3>6. RestArrives(t)'
      <4> SUFFICES ASSUME reader = "reading", t \in listeners
                   PROVE  /\ Gapless(to_buyer', t, Len(received[t]), out[t])
                          /\ link = "up" => Holds(to_buyer', n + 1, t, Len(received[t]),
                                                  out[t].seq)
        BY <1>c, <2>2 DEF RestArrives, buyer, Cut
      <4>1. Gapless(to_buyer', t, Len(received[t]), out[t])
        BY <1>a, <1>b, <2>1, <2>2, TaskTypes, CutKeepsRest DEF TaskInv, RestArrives
      <4>2. ASSUME link = "up"
            PROVE  Holds(to_buyer', n, t, Len(received[t]), out[t].seq)
        <5>1. Holds(to_buyer, n, t, Len(received[t]), out[t].seq) /\ n <= n
          BY <1>a, <1>b, <4>2 DEF TaskInv, RestArrives, n
        <5> QED BY <1>a, <1>b, <2>2, <5>1, TaskTypes, HoldsCut
      <4> QED BY <1>b, <4>1, <4>2 DEF Holds
    <3>7. CallLives(t)'
      BY <1>a, <1>c, <3>1 DEF TaskInv, CallLives, GotAll, Outcome, buyer
    <3> QED BY <1>1, <3>2, <3>3, <3>4, <3>5, <3>6, <3>7 DEF TaskInv
  <2> QED BY <2>3, <2>4
<1> QED BY <1>2, <1>3

\* The dispatch that answers is the last thing a task does.
LEMMA AnswerStep ==
    ASSUME Inv, TypeOK', NEW t \in TaskIds, NEW u \in TaskIds, Answer(u)
    PROVE  TaskInv(t)'
<1> DEFINE m == [kind |-> "answer", task_id |-> u, outcome |-> Verdict(u)]
           n == Len(to_buyer)
<1>a. TaskInv(t) /\ TaskInv(u) /\ TypeOK
  BY DEF Inv
<1>b. to_buyer \in Seq(Message) /\ to_buyer' \in Seq(Message) /\ n \in Nat
  BY <1>a, TaskTypes DEF TypeOK, WireType
<1>c. /\ UNCHANGED <<profile, to_provider, link, buyer, handler, out>>
      /\ keepalive' = keepalive \ {u}
      /\ dispatch[u] = "running" /\ HandlerDone(u)
      /\ dispatch'[u] = "done"
      /\ t # u => dispatch'[t] = dispatch[t]
  BY <1>a DEF Answer, Quiet, TypeOK, ProviderType
<1>1. InvokedOnce(t)'
  <2>1. CASE t # u
    BY <1>c, <2>1, NothingInvoked DEF buyer
  <2>2. CASE t = u
    <3>1. \A i \in DOMAIN to_provider :
            ~(to_provider[i].kind = "invoke" /\ to_provider[i].task_id = t)
      BY <1>a, <1>c, <2>2 DEF TaskInv, InvokedOnce, None
    <3>2. call[t] # "idle"
      BY <1>a, <1>c, <2>2 DEF TaskInv, InvokedOnce, None
    <3> QED BY <1>c, <3>1, <3>2 DEF InvokedOnce, buyer
  <2> QED BY <2>1, <2>2
<1>2. ASSUME t = u
      PROVE  /\ dispatch'[t] = "done" /\ t \notin keepalive'
             /\ handler'[t] \notin {"working", "cancelling"}
             /\ out[t].final => out[t].seq > 0
  BY <1>2, <1>a, <1>c DEF TaskInv, WorkLives, HandlerDone
<1>3. CASE ~ProviderCanSend
  <2>1. to_buyer' = to_buyer
    BY <1>3 DEF Answer
  <2>2. WorkLives(t)'
    BY <1>a, <1>c, <1>2, <2>1 DEF TaskInv, WorkLives, None
  <2> QED BY <1>c, <1>1, <2>1, <2>2, ProviderActs
<1>4. CASE ProviderCanSend
  <2>1. /\ m.kind = "answer" /\ m.task_id = u /\ m.outcome = Verdict(u) /\ m \in Message
        /\ to_buyer' = Append(to_buyer, m)
    BY <1>4, <1>c, SentTypes, VerdictType DEF Answer, ToBuyer
  <2> HIDE DEF m
  <2>2. Cut(to_buyer, to_buyer', n, m)
    BY <1>b, <2>1, AppendCuts
  <2> HIDE DEF n
  <2>3. CASE t # u
    BY <1>c, <1>1, <2>1, <2>2, <2>3, OthersAreSent DEF n
  <2>4. CASE t = u
    <3>0. /\ DOMAIN to_buyer = 1 .. n /\ DOMAIN to_buyer' = 1 .. (n + 1)
          /\ to_buyer'[n + 1] = m
          /\ \A i \in 1 .. n : to_buyer'[i] = to_buyer[i]
      BY <1>b, <2>2 DEF Cut, n
    <3>1. \A i \in 1 .. n : ~IsAnswer(to_buyer, i, t)
      BY <1>a, <1>c, <2>4, <3>0 DEF TaskInv, AnswerEnds
    <3>2. WorkLives(t)'
      BY <1>a, <1>c, <1>2, <2>4 DEF TaskInv, WorkLives, None
    <3>3. m.outcome = "streamed" => out[t].final
      BY <1>c, <2>1, <2>4 DEF Verdict, HandlerDone
    <3>4. AnswerEnds(to_buyer, t, dispatch[t], out[t])'
      <4>1. ASSUME NEW i \in DOMAIN to_buyer', IsAnswer(to_buyer', i, t)
            PROVE  i = n + 1
        BY <1>b, <3>0, <3>1, <4>1 DEF IsAnswer
      <4>2. \A j \in DOMAIN to_buyer' : ~(n + 1 < j)
        BY <1>b, <3>0
      <4> QED BY <1>c, <2>1, <2>4, <3>0, <3>3, <4>1, <4>2 DEF AnswerEnds
    <3>5. InOrder(to_buyer, t, out[t])'
      <4>1. \A i \in DOMAIN to_buyer' : IsChunk(to_buyer', i, t) =>
              i \in DOMAIN to_buyer /\ IsChunk(to_buyer, i, t) /\ to_buyer'[i] = to_buyer[i]
        BY <1>b, <2>1, <3>0 DEF IsChunk
      <4> QED BY <1>a, <1>c, <4>1 DEF TaskInv, InOrder
    <3>6. GotPrefix(t)'
      BY <1>a, <1>c DEF TaskInv, GotPrefix, buyer
    <3>7. RestArrives(t)'
      <4> SUFFICES ASSUME reader = "reading", t \in listeners
                   PROVE  /\ Gapless(to_buyer', t, Len(received[t]), out[t])
                          /\ Holds(to_buyer', n + 1, t, Len(received[t]), out[t].seq)
        BY <1>c, <2>2 DEF RestArrives, buyer, Cut
      <4>a. out[t].seq \in Nat /\ Len(received[t]) \in Nat
        BY <1>a, TaskTypes
      <4>1. /\ Gapless(to_buyer, t, Len(received[t]), out[t])
            /\ Holds(to_buyer, n, t, Len(received[t]), out[t].seq) /\ n <= n
        BY <1>4, <1>a, <1>b DEF TaskInv, RestArrives, ProviderCanSend, n
      <4>2. Holds(to_buyer', n, t, Len(received[t]), out[t].seq)
        BY <1>b, <2>2, <4>a, <4>1, HoldsCut
      <4>3. ASSUME NEW i \in DOMAIN to_buyer', IsChunk(to_buyer', i, t)
            PROVE  /\ Len(received[t]) <= to_buyer'[i].seq
                   /\ Holds(to_buyer', i - 1, t, Len(received[t]), to_buyer'[i].seq)
        <5>1. i \in 1 .. n /\ IsChunk(to_buyer, i, t) /\ to_buyer'[i] = to_buyer[i]
              /\ i \in DOMAIN to_buyer
          BY <1>b, <2>1, <3>0, <4>3 DEF IsChunk
        <5>2. to_buyer[i].seq \in Nat
          BY <1>b, <5>1, MessageTypes DEF IsChunk
        <5>3. /\ Len(received[t]) <= to_buyer[i].seq
              /\ Holds(to_buyer, i - 1, t, Len(received[t]), to_buyer[i].seq)
          BY <4>1, <5>1 DEF Gapless
        <5>4. i - 1 \in Int /\ i - 1 <= n
          BY <1>b, <5>1
        <5> QED BY <1>b, <2>2, <4>a, <5>1, <5>2, <5>3, <5>4, HoldsCut
      <4>4. ASSUME NEW i \in DOMAIN to_buyer', IsAnswer(to_buyer', i, t)
            PROVE  Holds(to_buyer', i - 1, t, Len(received[t]), out[t].seq)
        <5>1. i = n + 1
          BY <1>b, <3>0, <3>1, <4>4 DEF IsAnswer
        <5>2. i - 1 = n
          BY <1>b, <5>1
        <5> QED BY <4>2, <5>2
      <4>5. Gapless(to_buyer', t, Len(received[t]), out[t])
        BY <4>3, <4>4 DEF Gapless
      <4>6. Holds(to_buyer', n + 1, t, Len(received[t]), out[t].seq)
        BY <1>b, <4>2 DEF Holds
      <4> QED BY <4>5, <4>6
    <3>8. CallLives(t)'
      BY <1>a, <1>c, <2>4 DEF TaskInv, CallLives, GotAll, Outcome, buyer
    <3> QED BY <1>1, <3>2, <3>4, <3>5, <3>6, <3>7, <3>8 DEF TaskInv
  <2> QED BY <2>3, <2>4
<1> QED BY <1>3, <1>4

--------------------------------------------------------------------------------

LEMMA InvInit == Init => Inv
<1> SUFFICES ASSUME Init, NEW t \in TaskIds PROVE TaskInv(t)
  BY TypeInit DEF Inv
<1>1. InvokedOnce(t) /\ WorkLives(t)
  BY DEF Init, InvokedOnce, WorkLives, None
<1>2. AnswerEnds(to_buyer, t, dispatch[t], out[t]) /\ InOrder(to_buyer, t, out[t])
  BY DEF Init, AnswerEnds, InOrder
<1>3. GotPrefix(t) /\ RestArrives(t)
  BY DEF Init, GotPrefix, RestArrives
<1>4. CallLives(t)
  BY DEF Init, CallLives, Outcome, None
<1> QED BY <1>1, <1>2, <1>3, <1>4 DEF TaskInv

LEMMA InvStep ==
    ASSUME Inv, [Next]_vars
    PROVE  Inv'
<1>1. TypeOK'
  BY TypeStep DEF Inv
<1> SUFFICES ASSUME NEW t \in TaskIds PROVE TaskInv(t)'
  BY <1>1 DEF Inv
<1>2. CASE UNCHANGED vars
  BY <1>2 DEF vars, buyer, server, Inv, TaskInv, InvokedOnce, WorkLives, GotPrefix,
              RestArrives, CallLives, GotAll
<1>3. ASSUME NEW u \in TaskIds, Buyers(u) \/ Handlers(u) \/ Answer(u)
      PROVE  TaskInv(t)'
  BY <1>1, <1>3, BuyersStep, EmitStep, HeartbeatStep, HandlerEndsStep, AnswerStep
     DEF Handlers
<1> QED
  BY <1>1, <1>2, <1>3, DropStep, CloseProviderEndStep, ReadingStep, CloseStep,
     ServingStep, ServeReturnsStep DEF Next

\* The inductive invariant holds of every behaviour of a connection.
THEOREM Invariance == Spec => []Inv
BY InvInit, InvStep, PTL DEF Spec

\* Whatever is lost, abandoned or raised on the way, an on_chunk callback gets the
\* chunks of its task from number 0 on without a gap, nothing after the final one,
\* and all of them when its invoke returns a result that says output_streamed.
THEOREM StreamsAreComplete == Spec => []StreamIsComplete
<1>1. Inv => StreamIsComplete
  <2> SUFFICES ASSUME Inv, NEW t \in TaskIds
               PROVE  /\ \A i \in DOMAIN received[t] :
                           /\ received[t][i].seq = i - 1
                           /\ received[t][i].final => i = Len(received[t])
                      /\ call[t] = "streamed" /\ profile[t].listens =>
                           received[t] # <<>> /\ Last(received[t]).final
    BY DEF StreamIsComplete
  <2>1. /\ GotPrefix(t) /\ WorkLives(t)
        /\ call[t] = "streamed" => GotAll(t)
    BY DEF Inv, TaskInv, CallLives
  <2>2. /\ Len(received[t]) \in Nat /\ out[t].seq \in Nat
        /\ DOMAIN received[t] = 1 .. Len(received[t])
    BY TaskTypes DEF Inv
  <2>3. ASSUME NEW i \in DOMAIN received[t]
        PROVE  /\ received[t][i].seq = i - 1
               /\ received[t][i].final => i = Len(received[t])
    BY <2>1, <2>2 DEF GotPrefix
  <2>4. ASSUME call[t] = "streamed", profile[t].listens
        PROVE  received[t] # <<>> /\ Last(received[t]).final
    <3>1. /\ out[t].final /\ Len(received[t]) = out[t].seq /\ out[t].seq > 0
      BY <2>1, <2>4 DEF GotAll, WorkLives
    <3>2. Len(received[t]) \in DOMAIN received[t]
      BY <2>2, <3>1
    <3> QED BY <2>1, <2>2, <3>1, <3>2 DEF GotPrefix, Last
  <2> QED BY <2>3, <2>4
<1> QED BY <1>1, Invariance, PTL

\* In whatever order a handler, its heartbeats and a cancel come to their end, nothing
\* about a task is sent after its answer.
THEOREM AnswersAreLast == Spec => []AnswerIsLast
<1>1. Inv => AnswerIsLast
  <2> SUFFICES ASSUME Inv PROVE AnswerIsLast
    OBVIOUS
  <2>1. ASSUME NEW i \in DOMAIN to_buyer, NEW j \in DOMAIN to_buyer,
               i < j, to_buyer[i].kind = "answer"
        PROVE  ~About(j, to_buyer[i].task_id)
    <3>1. to_buyer[i] \in Message
      BY <2>1 DEF Inv, TypeOK, WireType
    <3>2. to_buyer[i].task_id \in TaskIds
      BY <2>1, <3>1, MessageTypes
    <3> QED BY <2>1, <3>2 DEF Inv, TaskInv, AnswerEnds, IsAnswer, IsAbout, About
  <2>2. ASSUME NEW t \in TaskIds, future[t] \in Outcome, NEW i \in DOMAIN to_buyer
        PROVE  ~About(i, t)
    BY <2>2 DEF Inv, TaskInv, CallLives, IsAbout, About
  <2> QED BY <2>1, <2>2 DEF AnswerIsLast
<1> QED BY <1>1, Invariance, PTL

================================================================================
