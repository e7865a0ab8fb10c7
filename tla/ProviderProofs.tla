----------------------------- MODULE ProviderProofs -----------------------------
(***************************************************************************)
(* Proofs that the provider is idempotent and loses no input, for any      *)
(* number of tasks, requests, cancels and chunks, in any order of arrival, *)
(* as long as a task id is not sent again before it was answered.          *)
(*                                                                         *)
(* The input of a task reaches its handler through three places: the       *)
(* inbox, the held chunks of a task that no handler serves yet, and the    *)
(* context of the handler.  Each step moves a chunk from one of them to    *)
(* the next, and what Feed releases ends at the first chunk that is        *)
(* missing, which exists as the least of a set of naturals.                *)
(***************************************************************************)
EXTENDS ProviderPromises, SequenceTheorems, SetInduction

PC == {"unsent", "sent", "covers", "running", "answered"}

Waiting(r) == pc[r] \in {"sent", "covers", "running"}

Shape ==
    /\ pc \in [Requests -> PC]
    /\ task \in [Requests -> TaskIds \cup {None}]
    /\ handler \in [Requests -> HandlerState]
    /\ result_cache \in [TaskIds -> Outcome \cup {None}]
    /\ running \in [TaskIds -> Requests \cup {None}]
    /\ answer \in [Requests -> Outcome \cup {None}]
    /\ started \in SUBSET Requests

\* Every request that was sent names its task, and no two wait for the same.
OneWaits ==
    /\ \A r \in Requests : pc[r] # "unsent" => task[r] \in TaskIds
    /\ \A q, r \in Requests : Waiting(q) /\ Waiting(r) /\ task[q] = task[r] => q = r

\* The cache holds what was answered, and nothing for a task in service.
CacheOK ==
    \A r \in Requests :
      /\ pc[r] = "answered" => answer[r] \in Outcome /\ result_cache[task[r]] = answer[r]
      /\ InService(r) => result_cache[task[r]] = None

\* A handler begins in service only, and is over when its request is answered.
HandlersOK ==
    /\ \A r \in Requests :
         /\ pc[r] \in {"unsent", "sent", "covers"} => handler[r] = "none"
         /\ pc[r] = "running" => handler[r] # "none"
         /\ pc[r] = "answered" => handler[r] = "none" \/ HandlerDone(r)
         /\ r \in started => handler[r] # "none"
    /\ \A t \in TaskIds : running[t] # None =>
         pc[running[t]] = "running" /\ task[running[t]] = t
    /\ \A q, r \in started : task[q] = task[r] => q = r

Core == Shape /\ OneWaits /\ CacheOK /\ HandlersOK

Invokes(i) == i \in DOMAIN inbox /\ inbox[i].kind = "invoke"

\* The invoke on its way is all there is of a request not yet dispatched.
InboxOK ==
    /\ inbox \in Seq(Message)
    /\ \A i \in DOMAIN inbox : Invokes(i) => pc[inbox[i].id] = "sent"
    /\ \A i, j \in DOMAIN inbox :
         Invokes(i) /\ Invokes(j) /\ inbox[i].id = inbox[j].id => i = j

SeqsOK == input_seq \in [TaskIds -> Nat]

Inv == Core /\ InboxOK /\ SeqsOK

--------------------------------------------------------------------------------
(* The inbox *)

LEMMA ConcatElement ==
    ASSUME NEW S, NEW a \in Seq(S), NEW b \in Seq(S),
           NEW j \in 1..(Len(a) + Len(b)), j > Len(a)
    PROVE  (a \o b)[j] = b[j - Len(a)]
BY ConcatProperties

\* RemoveAt leaves the other elements, in their order.
LEMMA RemoveAtProperties ==
    ASSUME NEW S, NEW s \in Seq(S), NEW i \in DOMAIN s
    PROVE  /\ RemoveAt(s, i) \in Seq(S)
           /\ DOMAIN RemoveAt(s, i) = 1..(Len(s) - 1)
           /\ \A j \in 1..(Len(s) - 1) :
                RemoveAt(s, i)[j] = s[IF j < i THEN j ELSE j + 1]
<1>1. i \in 1..Len(s) /\ Len(s) \in Nat
  OBVIOUS
<1> DEFINE before == SubSeq(s, 1, i - 1)
           after == SubSeq(s, i + 1, Len(s))
<1>2. /\ before \in Seq(S) /\ Len(before) = i - 1
      /\ \A j \in 1..(i - 1) : before[j] = s[j]
  BY <1>1
<1>3. /\ after \in Seq(S) /\ Len(after) = Len(s) - i
      /\ \A j \in 1..(Len(s) - i) : after[j] = s[i + j]
  BY <1>1
<1> HIDE DEF before, after
<1>4. RemoveAt(s, i) = before \o after
  BY DEF RemoveAt, before, after
<1>5. before \o after \in Seq(S) /\ Len(before \o after) = Len(s) - 1
  BY <1>1, <1>2, <1>3
<1>6. ASSUME NEW j \in 1..(Len(s) - 1)
      PROVE  (before \o after)[j] = s[IF j < i THEN j ELSE j + 1]
  <2>1. CASE j < i
    BY <1>1, <1>2, <1>3, <2>1
  <2>2. CASE ~(j < i)
    <3>1. j > Len(before) /\ j \in 1..(Len(before) + Len(after))
      BY <1>1, <1>2, <1>3, <2>2
    <3>2. (before \o after)[j] = after[j - Len(before)]
      BY <1>2, <1>3, <3>1, ConcatElement
    <3>3. j - Len(before) \in 1..(Len(s) - i) /\ i + (j - Len(before)) = j + 1
      BY <1>1, <1>2, <2>2, SMT
    <3> QED BY <1>3, <2>2, <3>2, <3>3
  <2> QED BY <2>1, <2>2
<1> QED BY <1>1, <1>4, <1>5, <1>6

LEMMA InvokeIds ==
    ASSUME NEW m \in Message, m.kind = "invoke"
    PROVE  m.id \in Requests
BY DEF Message

LEMMA InboxAfterDispatch ==
    ASSUME Inv, NEW i \in DOMAIN inbox, inbox' = RemoveAt(inbox, i),
           \A q \in Requests : pc'[q] = pc[q] \/ (Invokes(i) /\ q = inbox[i].id)
    PROVE  InboxOK'
<1> USE DEF Inv, InboxOK
<1>1. /\ inbox' \in Seq(Message) /\ DOMAIN inbox' = 1..(Len(inbox) - 1)
      /\ \A j \in DOMAIN inbox' : inbox'[j] = inbox[IF j < i THEN j ELSE j + 1]
  BY RemoveAtProperties
<1>2. DOMAIN inbox = 1..Len(inbox) /\ Len(inbox) \in Nat
  OBVIOUS
<1> DEFINE old(j) == IF j < i THEN j ELSE j + 1
<1>3. \A j \in DOMAIN inbox' :
        old(j) \in DOMAIN inbox /\ old(j) # i /\ inbox'[j] = inbox[old(j)]
  BY <1>1, <1>2
<1>4. \A j, k \in DOMAIN inbox' : old(j) = old(k) => j = k
  BY <1>1, <1>2
<1> HIDE DEF old
<1>5. ASSUME NEW j \in DOMAIN inbox', Invokes(j)'
      PROVE  pc'[inbox'[j].id] = "sent"
  <2>1. Invokes(old(j)) /\ old(j) # i /\ inbox'[j].id = inbox[old(j)].id
    BY <1>3, <1>5 DEF Invokes
  <2>2. inbox[old(j)].id \in Requests /\ pc[inbox[old(j)].id] = "sent"
    BY <1>3, <2>1, InvokeIds DEF Invokes
  <2> QED BY <1>3, <2>1, <2>2
<1>6. ASSUME NEW j \in DOMAIN inbox', NEW k \in DOMAIN inbox', Invokes(j)', Invokes(k)',
             inbox'[j].id = inbox'[k].id
      PROVE  j = k
  BY <1>3, <1>4, <1>6 DEF Invokes
<1> QED BY <1>1, <1>5, <1>6

LEMMA InboxAfterSend ==
    ASSUME Inv, NEW m \in Message, inbox' = Append(inbox, m),
           \A i \in DOMAIN inbox : Invokes(i) => pc'[inbox[i].id] = "sent",
           m.kind = "invoke" => pc[m.id] = "unsent" /\ pc'[m.id] = "sent"
    PROVE  InboxOK'
<1> USE DEF Inv, InboxOK
<1>1. /\ inbox' \in Seq(Message) /\ DOMAIN inbox' = DOMAIN inbox \cup {Len(inbox) + 1}
      /\ \A i \in DOMAIN inbox : inbox'[i] = inbox[i]
      /\ inbox'[Len(inbox) + 1] = m /\ Len(inbox) + 1 \notin DOMAIN inbox
  OBVIOUS
<1>2. \A i \in DOMAIN inbox' : Invokes(i)' => pc'[inbox'[i].id] = "sent"
  BY <1>1 DEF Invokes
<1>3. \A i, j \in DOMAIN inbox' :
        Invokes(i)' /\ Invokes(j)' /\ inbox'[i].id = inbox'[j].id => i = j
  BY <1>1 DEF Invokes
<1> QED BY <1>1, <1>2, <1>3

LEMMA InboxUntouched ==
    ASSUME Inv, inbox' = inbox,
           \A q \in Requests : pc[q] = "sent" => pc'[q] = "sent"
    PROVE  InboxOK'
BY InvokeIds DEF Inv, InboxOK, Invokes

--------------------------------------------------------------------------------
(* What becomes of one request *)

\* A request that waits is answered: nothing else was answered for its task.
LEMMA FinishCore ==
    ASSUME Core, NEW r \in Requests, Waiting(r), NEW outcome \in Outcome,
           result_cache[task[r]] = None, Finish(r, outcome),
           handler[r] = "none" \/ HandlerDone(r),
           running' \in [TaskIds -> Requests \cup {None}],
           \A t \in TaskIds : running'[t] # None =>
             running'[t] = running[t] /\ running[t] # r,
           UNCHANGED <<task, handler, started>>
    PROVE  Core'
<1> USE DEF Core
<1>1. task[r] \in TaskIds /\ outcome # None /\ None \notin Outcome
  BY NoneAssumption DEF OneWaits, Waiting
<1>2. /\ result_cache' = [result_cache EXCEPT ![task[r]] = outcome]
      /\ answer' = [answer EXCEPT ![r] = outcome]
      /\ pc' = [pc EXCEPT ![r] = "answered"]
  BY DEF Finish
<1>3. /\ Shape'
      /\ \A q \in Requests : q # r => pc'[q] = pc[q] /\ answer'[q] = answer[q]
      /\ pc'[r] = "answered" /\ answer'[r] = outcome
      /\ result_cache'[task[r]] = outcome
      /\ \A t \in TaskIds : t # task[r] => result_cache'[t] = result_cache[t]
  BY <1>1, <1>2 DEF Shape, PC
<1>4. OneWaits'
  BY <1>1, <1>3 DEF OneWaits, Waiting
<1>5. CacheOK'
  <2> SUFFICES ASSUME NEW q \in Requests, q # r
               PROVE  /\ pc[q] = "answered" => result_cache'[task[q]] = answer[q]
                      /\ InService(q) => result_cache'[task[q]] = None
    BY <1>3 DEF CacheOK, InService
  <2>1. pc[q] = "answered" => task[q] \in TaskIds /\ task[q] # task[r]
    BY <1>1 DEF CacheOK, OneWaits
  <2>2. InService(q) => task[q] \in TaskIds /\ task[q] # task[r]
    BY DEF OneWaits, Waiting, InService
  <2> QED BY <1>3, <2>1, <2>2 DEF CacheOK
<1>6. HandlersOK'
  BY <1>3 DEF HandlersOK, HandlerDone
<1> QED BY <1>3, <1>4, <1>5, <1>6

LEMMA BeginCore ==
    ASSUME Core, NEW r \in Requests, pc[r] \in {"sent", "covers"},
           result_cache[task[r]] = None, Begin(r), UNCHANGED <<task, started>>
    PROVE  Core'
<1> USE DEF Core
<1>1. task[r] \in TaskIds /\ Waiting(r) /\ handler[r] = "none"
  BY DEF OneWaits, Waiting, HandlersOK
<1>2. CASE params[task[r]].fault = "feature"
  <2>1. Finish(r, "feature") /\ UNCHANGED <<handler, running>>
    BY <1>2 DEF Begin
  <2>2. \A t \in TaskIds : running[t] # None => running[t] # r
    BY DEF HandlersOK
  <2> QED BY <1>1, <2>1, <2>2, FinishCore DEF Outcome, Shape
<1>3. CASE params[task[r]].fault # "feature"
  <2>1. /\ handler' = [handler EXCEPT ![r] = "created"]
        /\ running' = [running EXCEPT ![task[r]] = r]
        /\ pc' = [pc EXCEPT ![r] = "running"]
        /\ UNCHANGED <<result_cache, answer>>
    BY <1>3 DEF Begin
  <2>2. /\ Shape'
        /\ \A q \in Requests : q # r => pc'[q] = pc[q] /\ handler'[q] = handler[q]
        /\ pc'[r] = "running" /\ handler'[r] = "created"
        /\ running'[task[r]] = r
        /\ \A t \in TaskIds : t # task[r] => running'[t] = running[t]
    BY <1>1, <2>1 DEF Shape, PC, HandlerState
  <2>3. OneWaits' /\ CacheOK'
    BY <1>1, <2>1, <2>2 DEF OneWaits, Waiting, CacheOK, InService
  <2>4. ASSUME NEW t \in TaskIds, running'[t] # None
        PROVE  pc'[running'[t]] = "running" /\ task[running'[t]] = t
    BY <1>1, <2>2, <2>4 DEF HandlersOK, Shape
  <2>5. HandlersOK'
    BY <2>2, <2>4 DEF HandlersOK, HandlerDone
  <2> QED BY <2>2, <2>3, <2>5
<1> QED BY <1>2, <1>3

LEMMA HandleInvokeCore ==
    ASSUME Core, NEW r \in Requests, pc[r] = "sent", HandleInvoke(r), task' = task
    PROVE  Core'
<1> USE DEF Core
<1>1. task[r] \in TaskIds /\ Waiting(r) /\ handler[r] = "none"
  BY DEF OneWaits, Waiting, HandlersOK
<1>2. \A t \in TaskIds : running[t] # None => running[t] # r
  BY DEF HandlersOK
<1>3. CASE result_cache[task[r]] # None
  <2>1. /\ answer' = [answer EXCEPT ![r] = result_cache[task[r]]]
        /\ pc' = [pc EXCEPT ![r] = "answered"]
        /\ UNCHANGED <<result_cache, handler, running, started>>
    BY <1>3 DEF HandleInvoke, Replay
  <2>2. /\ Shape' /\ result_cache[task[r]] \in Outcome
        /\ \A q \in Requests : q # r => pc'[q] = pc[q] /\ answer'[q] = answer[q]
        /\ pc'[r] = "answered" /\ answer'[r] = result_cache[task[r]]
    BY <1>1, <1>3, <2>1 DEF Shape, PC
  <2>3. OneWaits' /\ CacheOK'
    BY <1>1, <2>1, <2>2 DEF OneWaits, Waiting, CacheOK, InService
  <2>4. HandlersOK'
    BY <1>1, <1>2, <2>1, <2>2 DEF HandlersOK, HandlerDone
  <2> QED BY <2>2, <2>3, <2>4
<1>4. CASE result_cache[task[r]] = None /\ params[task[r]].fault = "capability"
  <2>1. Finish(r, "capability") /\ UNCHANGED <<handler, running, started>>
    BY <1>4 DEF HandleInvoke
  <2> QED BY <1>1, <1>2, <1>4, <2>1, FinishCore DEF Outcome, Shape
<1>5. CASE /\ result_cache[task[r]] = None /\ params[task[r]].fault # "capability"
           /\ params[task[r]].escrow
  <2>1. /\ pc' = [pc EXCEPT ![r] = "covers"]
        /\ UNCHANGED <<handler, running, result_cache, answer, started>>
    BY <1>5 DEF HandleInvoke
  <2>2. /\ Shape' /\ pc'[r] = "covers"
        /\ \A q \in Requests : q # r => pc'[q] = pc[q]
    BY <2>1 DEF Shape, PC
  <2>3. OneWaits' /\ CacheOK'
    BY <1>1, <1>5, <2>1, <2>2 DEF OneWaits, Waiting, CacheOK, InService
  <2>4. HandlersOK'
    BY <1>1, <1>2, <2>1, <2>2 DEF HandlersOK, HandlerDone
  <2> QED BY <2>2, <2>3, <2>4
<1>6. CASE /\ result_cache[task[r]] = None /\ params[task[r]].fault # "capability"
           /\ ~params[task[r]].escrow
  <2>1. Begin(r) /\ started' = started
    BY <1>6 DEF HandleInvoke
  <2> QED BY <1>6, <2>1, BeginCore
<1> QED BY <1>3, <1>4, <1>5, <1>6

\* The task of a handler moves on while its request is in service.
LEMMA HandlerCore ==
    ASSUME Core, NEW r \in Requests, NEW h \in HandlerState \ {"none"},
           handler[r] \notin {"none", "returned", "raised", "cancelled"} \/ h = handler[r],
           handler' = [handler EXCEPT ![r] = h],
           \/ started' = started
           \/ started' = started \cup {r} /\ handler[r] = "created",
           UNCHANGED <<pc, task, result_cache, running, answer>>
    PROVE  Core'
<1> USE DEF Core
<1>1. /\ Shape' /\ handler'[r] = h
      /\ \A q \in Requests : q # r => handler'[q] = handler[q]
  BY DEF Shape
<1>2. OneWaits' /\ CacheOK'
  BY DEF OneWaits, Waiting, CacheOK, InService
<1>3. pc[r] \in {"running", "answered"}
  BY DEF HandlersOK, Shape, PC
<1>4. ASSUME NEW p \in started', NEW q \in started', task[p] = task[q]
      PROVE  p = q
  <2>1. ASSUME NEW u \in started, task[u] = task[r], handler[r] = "created"
        PROVE  u = r
    <3>1. u \in Requests /\ pc[r] = "running" /\ pc[u] \in {"running", "answered"}
      BY <1>3, <2>1 DEF HandlersOK, HandlerDone, Shape, PC
    <3>2. pc[u] # "answered"
      BY <2>1, <3>1, NoneAssumption DEF CacheOK, InService
    <3> QED BY <2>1, <3>1, <3>2 DEF OneWaits, Waiting
  <2> QED BY <1>4, <2>1 DEF HandlersOK
<1>5. HandlersOK'
  BY <1>1, <1>3, <1>4 DEF HandlersOK, HandlerDone
<1> QED BY <1>1, <1>2, <1>5

--------------------------------------------------------------------------------
(* The invariant is inductive *)

LEMMA InitInv == Init => Inv
BY DEF Init, Inv, SeqsOK, Core, Shape, PC, HandlerState, OneWaits, CacheOK, HandlersOK, InboxOK,
   Invokes, Waiting, InService, HandlerDone

LEMMA SendsInv ==
    ASSUME Inv, ~OverlapRetries, Buyers
    PROVE  Inv'
<1> USE DEF Inv
<1>1. ASSUME NEW r \in Requests, NEW t \in TaskIds, SendInvoke(r, t) PROVE Inv'
  <2>1. /\ pc[r] = "unsent" /\ pc' = [pc EXCEPT ![r] = "sent"]
        /\ task' = [task EXCEPT ![r] = t]
        /\ inbox' = Append(inbox, [kind |-> "invoke", id |-> r])
        /\ UNCHANGED <<handler, result_cache, running, answer, started>>
        /\ \A q \in Requests : task[q] = t => pc[q] \in {"unsent", "answered"}
    BY <1>1 DEF SendInvoke, served, InFlight
  <2>2. /\ Shape' /\ pc'[r] = "sent" /\ task'[r] = t
        /\ \A q \in Requests : q # r => pc'[q] = pc[q] /\ task'[q] = task[q]
    BY <2>1 DEF Core, Shape, PC
  <2>3. OneWaits'
    BY <2>1, <2>2 DEF Core, OneWaits, Waiting
  <2>4. CacheOK'
    BY <2>1, <2>2 DEF Core, CacheOK, InService
  <2>5. HandlersOK'
    <3>1. ASSUME NEW u \in TaskIds, running[u] # None
          PROVE  running[u] \in Requests /\ running[u] # r
      BY <2>1, <3>1 DEF Core, HandlersOK, Shape
    <3> QED BY <2>1, <2>2, <3>1 DEF Core, HandlersOK, HandlerDone
  <2>6. InboxOK'
    <3>1. [kind |-> "invoke", id |-> r] \in Message
      BY DEF Message
    <3>2. \A i \in DOMAIN inbox : Invokes(i) => pc'[inbox[i].id] = "sent"
      BY <2>1, <2>2, InvokeIds DEF InboxOK, Invokes
    <3> HIDE DEF Inv
    <3> QED BY <2>1, <2>2, <3>1, <3>2, InboxAfterSend
  <2>7. SeqsOK'
    BY <1>1 DEF SendInvoke, SeqsOK
  <2> QED BY <2>2, <2>3, <2>4, <2>5, <2>6, <2>7 DEF Core
<1>2. ASSUME NEW m \in Message, m.kind # "invoke", inbox' = Append(inbox, m),
             UNCHANGED <<pc, task, handler, result_cache, running, answer, started>>
      PROVE  Core' /\ InboxOK'
  <2>1. Core'
    BY <1>2 DEF Core, Shape, OneWaits, CacheOK, HandlersOK, Waiting, InService, HandlerDone
  <2>2. InboxOK'
    <3>1. \A i \in DOMAIN inbox : Invokes(i) => pc'[inbox[i].id] = "sent"
      BY <1>2 DEF InboxOK
    <3> HIDE DEF Inv
    <3> QED BY <1>2, <3>1, InboxAfterSend
  <2> QED BY <2>1, <2>2
<1>3. ASSUME NEW t \in TaskIds, SendCancel(t) PROVE Inv'
  <2>1. [kind |-> "cancel", task_id |-> t] \in Message
    BY DEF Message
  <2> QED BY <1>2, <1>3, <2>1 DEF SendCancel, served, SeqsOK
<1>4. ASSUME NEW t \in TaskIds, SendInputChunk(t) PROVE Inv'
  <2>1. [kind |-> "inputChunk", task_id |-> t, seq |-> input_seq[t]] \in Message
    BY <1>4, BoundsAssumption DEF Message, SendInputChunk, Seqs, SeqsOK
  <2> QED BY <1>2, <1>4, <2>1 DEF SendInputChunk, served, SeqsOK
<1> QED BY <1>1, <1>3, <1>4 DEF Buyers

\* The steps of the provider change no message and no seq of the buyers.
LEMMA DispatchInv ==
    ASSUME Inv, Dispatch
    PROVE  Inv'
<1>1. PICK i \in DOMAIN inbox :
        /\ inbox' = RemoveAt(inbox, i)
        /\ \/ inbox[i].kind = "invoke" /\ HandleInvoke(inbox[i].id)
           \/ inbox[i].kind = "cancel" /\ HandleCancel(inbox[i].task_id)
           \/ inbox[i].kind = "inputChunk"
                /\ HandleInputChunk(inbox[i].task_id, inbox[i].seq)
        /\ UNCHANGED <<params, task, input_seq, cancels>>
  BY DEF Dispatch
<1>2. inbox[i] \in Message /\ SeqsOK'
  BY <1>1 DEF Inv, InboxOK, SeqsOK
<1>3. CASE inbox[i].kind = "invoke" /\ HandleInvoke(inbox[i].id)
  <2> DEFINE r == inbox[i].id
  <2>1. r \in Requests /\ pc[r] = "sent"
    BY <1>2, <1>3, InvokeIds DEF Inv, InboxOK, Invokes
  <2>2. Core'
    BY <1>1, <1>3, <2>1, HandleInvokeCore DEF Inv
  <2>3. \A q \in Requests : q # r => pc'[q] = pc[q]
    BY <1>3 DEF HandleInvoke, Replay, Finish, Begin, Inv, Core, Shape
  <2>4. InboxOK'
    BY <1>1, <1>3, <2>3, InboxAfterDispatch DEF Invokes
  <2> QED BY <1>2, <2>2, <2>4 DEF Inv
<1>4. CASE inbox[i].kind = "cancel" /\ HandleCancel(inbox[i].task_id)
  <2> DEFINE t == inbox[i].task_id
  <2>1. t \in TaskIds
    BY <1>2, <1>4 DEF Message
  <2>2. UNCHANGED <<pc, task, result_cache, running, answer, started>>
    BY <1>1, <1>4 DEF HandleCancel
  <2>3. CASE running[t] = None
    <3>1. handler' = handler
      BY <1>4, <2>3 DEF HandleCancel
    <3> QED BY <1>1, <1>2, <2>2, <3>1, InboxAfterDispatch
            DEF Inv, Core, Shape, OneWaits, CacheOK, HandlersOK, Waiting, InService, HandlerDone
  <2>4. CASE running[t] # None
    <3> DEFINE r == running[t]
               h == Cancelled(r)
    <3>1. r \in Requests /\ pc[r] = "running" /\ handler[r] \in HandlerState \ {"none"}
      BY <2>1, <2>4 DEF Inv, Core, Shape, HandlersOK
    <3>2. handler' = [handler EXCEPT ![r] = h]
      BY <1>4, <2>4 DEF HandleCancel
    <3>3. /\ h \in HandlerState \ {"none"}
          /\ handler[r] \notin {"none", "returned", "raised", "cancelled"} \/ h = handler[r]
      BY <3>1 DEF Cancelled, HandlerDone, HandlerState
    <3> HIDE DEF r, h
    <3>4. Core'
      BY <2>2, <3>1, <3>2, <3>3, HandlerCore DEF Inv
    <3>5. InboxOK'
      BY <1>1, <2>2, InboxAfterDispatch
    <3> QED BY <1>2, <3>4, <3>5 DEF Inv
  <2> QED BY <2>3, <2>4
<1>5. CASE inbox[i].kind = "inputChunk"
             /\ HandleInputChunk(inbox[i].task_id, inbox[i].seq)
  <2>1. UNCHANGED <<pc, task, handler, result_cache, running, answer, started>>
    BY <1>1, <1>5 DEF HandleInputChunk
  <2>2. InboxOK'
    BY <1>1, <2>1, InboxAfterDispatch
  <2>3. Core'
    BY <2>1 DEF Inv, Core, Shape, OneWaits, CacheOK, HandlersOK, Waiting, InService, HandlerDone
  <2> QED BY <1>2, <2>2, <2>3 DEF Inv
<1> QED BY <1>1, <1>3, <1>4, <1>5

\* What follows the two awaits of an invoke.
LEMMA ContinuesInv ==
    ASSUME Inv, NEW r \in Requests,
           Resume(r) \/ \E verdict \in {"covered", "refused", "raised"} :
                          CoversAnswered(r, verdict)
    PROVE  Inv'
<1>1. UNCHANGED <<inbox, task, input_seq, started>> /\ pc[r] \in {"covers", "running"}
  BY DEF Resume, CoversAnswered
<1>2. Waiting(r) /\ task[r] \in TaskIds /\ result_cache[task[r]] = None
  BY <1>1 DEF Inv, Core, Waiting, OneWaits, CacheOK, InService
<1>3. \A q \in Requests : q # r => pc'[q] = pc[q]
  BY DEF Resume, CoversAnswered, Begin, Finish, Inv, Core, Shape
<1>4. InboxOK' /\ SeqsOK'
  <2>1. \A q \in Requests : pc[q] = "sent" => pc'[q] = "sent"
    BY <1>1, <1>3
  <2> QED BY <1>1, <2>1, InboxUntouched DEF Inv, SeqsOK
<1>5. CASE Resume(r)
  <2>1. PICK outcome \in Outcome : Finish(r, outcome)
    BY <1>5 DEF Resume, Outcome, HandlerDone
  <2>2. HandlerDone(r) /\ running' = Deregistered(task[r]) /\ handler' = handler
    BY <1>5 DEF Resume
  <2>3. /\ running' \in [TaskIds -> Requests \cup {None}]
        /\ \A t \in TaskIds : running'[t] # None =>
             running'[t] = running[t] /\ running[t] # r
    BY <1>2, <2>2 DEF Deregistered, Inv, Core, Shape, HandlersOK
  <2>4. Core'
    BY <1>1, <1>2, <2>1, <2>2, <2>3, FinishCore DEF Inv
  <2> QED BY <1>4, <2>4 DEF Inv
<1>6. CASE CoversAnswered(r, "covered")
  BY <1>1, <1>2, <1>4, <1>6, BeginCore DEF CoversAnswered, Inv
<1>7. ASSUME NEW outcome \in Outcome, Finish(r, outcome), pc[r] = "covers",
             UNCHANGED <<handler, running>>
      PROVE  Inv'
  <2>1. /\ handler[r] = "none" /\ running' \in [TaskIds -> Requests \cup {None}]
        /\ \A t \in TaskIds : running'[t] # None =>
             running'[t] = running[t] /\ running[t] # r
    BY <1>7 DEF Inv, Core, Shape, HandlersOK
  <2>2. Core'
    BY <1>1, <1>2, <1>7, <2>1, FinishCore DEF Inv
  <2> QED BY <1>4, <2>2 DEF Inv
<1>8. CASE CoversAnswered(r, "refused") \/ CoversAnswered(r, "raised")
  BY <1>7, <1>8 DEF CoversAnswered, Outcome
<1> QED BY <1>5, <1>6, <1>8

LEMMA HandlersInv ==
    ASSUME Inv, NEW r \in Requests, Handlers(r)
    PROVE  Inv'
<1>1. UNCHANGED <<inbox, pc, task, result_cache, running, answer, input_seq>>
  BY DEF Handlers, HandlerStarts, HandlerTakesChunk, HandlerEnds, HandlerStops
<1>2. InboxOK' /\ SeqsOK'
  BY <1>1, InboxUntouched DEF Inv, SeqsOK
<1>3. PICK h \in HandlerState \ {"none"} :
        /\ handler[r] \notin {"none", "returned", "raised", "cancelled"}
        /\ handler' = [handler EXCEPT ![r] = h]
        /\ \/ started' = started
           \/ started' = started \cup {r} /\ handler[r] = "created"
  <2>1. CASE HandlerStarts(r)
    BY <2>1 DEF HandlerStarts, HandlerState
  <2>2. CASE HandlerTakesChunk(r)
    <3>1. handler' = [handler EXCEPT ![r] = "working"]
      BY <2>2 DEF HandlerTakesChunk, Inv, Core, Shape
    <3> QED BY <2>2, <3>1 DEF HandlerTakesChunk, HandlerState
  <2>3. CASE HandlerEnds(r)
    BY <2>3 DEF HandlerEnds, HandlerState
  <2>4. CASE HandlerStops(r)
    BY <2>4 DEF HandlerStops, HandlerState
  <2> QED BY <2>1, <2>2, <2>3, <2>4 DEF Handlers
<1>4. Core'
  BY <1>1, <1>3, HandlerCore DEF Inv
<1> QED BY <1>2, <1>4 DEF Inv

LEMMA NextInv == ~OverlapRetries /\ Inv /\ [Next]_vars => Inv'
<1> SUFFICES ASSUME ~OverlapRetries, Inv, [Next]_vars PROVE Inv'
  OBVIOUS
<1>1. CASE UNCHANGED vars
  <2>1. Core' /\ SeqsOK'
    BY <1>1 DEF vars, Inv, Core, Shape, OneWaits, CacheOK, HandlersOK, Waiting, InService,
       HandlerDone, SeqsOK
  <2>2. InboxOK'
    BY <1>1, InboxUntouched DEF vars
  <2> QED BY <2>1, <2>2 DEF Inv
<1> QED BY <1>1, SendsInv, DispatchInv, ContinuesInv, HandlersInv DEF Next

LEMMA Invariance == ~OverlapRetries /\ Spec => []Inv
<1> SUFFICES ASSUME ~OverlapRetries PROVE Spec => []Inv
  OBVIOUS
<1>1. Inv /\ [Next]_vars => Inv'
  BY NextInv
<1> QED BY <1>1, InitInv, PTL DEF Spec

--------------------------------------------------------------------------------

(* All requests for one task get the same answer, whatever failed, was cancelled or
   was sent again (provider.py:296-321), if no retry overlaps the first try. *)
THEOREM AllAnswersAgree == ~OverlapRetries /\ Spec => []AnswersAgree
<1>1. Inv => AnswersAgree
  BY DEF Inv, Core, CacheOK, AnswersAgree
<1> QED BY <1>1, Invariance, PTL

(* The code of a handler runs at most once for a task id (provider.py:296, 369), if no
   retry overlaps the first try. *)
THEOREM TasksRunOnce == ~OverlapRetries /\ Spec => []OneExecutionPerTask
<1>1. Inv => OneExecutionPerTask
  BY DEF Inv, Core, HandlersOK, OneExecutionPerTask
<1> QED BY <1>1, Invariance, PTL

--------------------------------------------------------------------------------
(* TaskContext *)

\* The chunks are released without a gap, up to the first that is missing.
LEMMA ReleasedIsGapless ==
    ASSUME NEW expected \in 0..InputLength, NEW held \in SUBSET Seqs
    PROVE  /\ ReleasedUpTo(expected, held) \in expected..InputLength
           /\ ReleasedUpTo(expected, held) \notin held
           /\ expected..(ReleasedUpTo(expected, held) - 1) \subseteq held
<1> DEFINE missing == {n \in expected..InputLength : n \notin held}
<1>1. InputLength \in Nat /\ InputLength \notin held /\ expected \in Nat
  BY BoundsAssumption DEF Seqs
<1>2. missing \in SUBSET Nat /\ InputLength \in missing
  BY <1>1
<1>3. PICK n \in missing : \A k \in missing : n <= k
  BY <1>2, LeastNatural
<1>4. ASSUME NEW k \in expected..(n - 1) PROVE k \in held
  <2>1. k \in expected..InputLength /\ ~(n <= k)
    BY <1>1, <1>3
  <2> QED BY <1>3, <2>1
<1>5. /\ n \in expected..InputLength
      /\ n \notin held /\ expected..(n - 1) \subseteq held
  BY <1>3, <1>4
<1>6. \E k \in expected..InputLength : k \notin held /\ expected..(k - 1) \subseteq held
  BY <1>5
<1> QED BY <1>6 DEF ReleasedUpTo

\* Feeding loses nothing: what a context was fed is released or kept.
LEMMA FeedKeeps ==
    ASSUME NEW c \in TaskContext, NEW seqs \in SUBSET Seqs
    PROVE  /\ Feed(c, seqs) \in TaskContext
           /\ Feed(c, seqs).taken = c.taken
           /\ c.expected <= Feed(c, seqs).expected
           /\ Feed(c, seqs).buffer \cup 0..(Feed(c, seqs).expected - 1)
                = seqs \cup c.buffer \cup 0..(c.expected - 1)
<1> DEFINE held == c.buffer \cup seqs
           next == ReleasedUpTo(c.expected, held)
<1>1. /\ c.expected \in 0..InputLength /\ c.buffer \in SUBSET Seqs /\ c.taken \in 0..InputLength
      /\ held \in SUBSET Seqs
  BY DEF TaskContext
<1>2. InputLength \in Nat /\ c.expected \in Nat
  BY <1>1, BoundsAssumption
<1>3. /\ next \in c.expected..InputLength
      /\ c.expected..(next - 1) \subseteq held
  BY <1>1, ReleasedIsGapless
<1>4. Feed(c, seqs) = [c EXCEPT !.expected = next, !.buffer = held \ (c.expected..(next - 1))]
  BY DEF Feed
<1> HIDE DEF next
<1>5. /\ Feed(c, seqs).expected = next /\ Feed(c, seqs).taken = c.taken
      /\ Feed(c, seqs).buffer = held \ (c.expected..(next - 1))
  BY <1>4 DEF TaskContext
<1>6. Feed(c, seqs) \in TaskContext
  <2>1. next \in 0..InputLength /\ held \ (c.expected..(next - 1)) \in SUBSET Seqs
    BY <1>1, <1>2, <1>3
  <2> HIDE DEF held
  <2> QED BY <1>4, <2>1 DEF TaskContext
<1>7. 0..(next - 1) = (0..(c.expected - 1)) \cup (c.expected..(next - 1))
  BY <1>2, <1>3
<1> QED BY <1>2, <1>3, <1>5, <1>6, <1>7

--------------------------------------------------------------------------------
(* Types *)

DispatchType ==
    /\ pc \in [Requests -> PC]
    /\ handler \in [Requests -> HandlerState]
    /\ ctx \in [Requests -> TaskContext]
    /\ result_cache \in [TaskIds -> Outcome \cup {None}]
    /\ running \in [TaskIds -> Requests \cup {None}]
    /\ pending_input \in [TaskIds -> SUBSET Seqs]
    /\ answer \in [Requests -> Outcome \cup {None}]
    /\ started \in SUBSET Requests
    /\ cancel_seen \in SUBSET Requests

BuyersType ==
    /\ params \in [TaskIds -> Params]
    /\ inbox \in Seq(Message)
    /\ task \in [Requests -> TaskIds \cup {None}]
    /\ input_seq \in [TaskIds -> 0..InputLength]
    /\ cancels \in [TaskIds -> 0..MaxCancels]

\* Every request that was sent names its task, also when retries overlap.
Served == \A r \in Requests : pc[r] # "unsent" => task[r] \in TaskIds

Delivered ==
    \A i \in DOMAIN inbox : inbox[i].kind = "invoke" => pc[inbox[i].id] # "unsent"

TypeInv == BuyersType /\ DispatchType /\ Served /\ Delivered

LEMMA MessageFields ==
    ASSUME NEW m \in Message
    PROVE  /\ m.kind = "invoke" => m.id \in Requests
           /\ m.kind = "cancel" => m.task_id \in TaskIds
           /\ m.kind = "inputChunk" => m.task_id \in TaskIds /\ m.seq \in Seqs
BY DEF Message

LEMMA FinishType ==
    ASSUME DispatchType, NEW r \in Requests, task[r] \in TaskIds, NEW outcome \in Outcome,
           Finish(r, outcome)
    PROVE  /\ result_cache' \in [TaskIds -> Outcome \cup {None}]
           /\ answer' \in [Requests -> Outcome \cup {None}]
           /\ pc' \in [Requests -> PC]
           /\ \A q \in Requests : pc[q] # "unsent" => pc'[q] # "unsent"
           /\ \A q \in Requests \ {r} : pc'[q] = pc[q]
BY DEF DispatchType, Finish, PC

LEMMA AdoptedType ==
    ASSUME DispatchType, NEW t \in TaskIds
    PROVE  /\ NewContext \in TaskContext
           /\ Adopted(t) \in TaskContext
           /\ Adopted(t).taken = 0 /\ 0 <= Adopted(t).expected
           /\ Adopted(t).buffer \cup 0..(Adopted(t).expected - 1) = pending_input[t]
<1>1. NewContext \in TaskContext
  BY BoundsAssumption DEF NewContext, TaskContext
<1>2. /\ NewContext.taken = 0 /\ NewContext.expected = 0 /\ NewContext.buffer = {}
  BY DEF NewContext
<1>3. pending_input[t] \in SUBSET Seqs
  BY DEF DispatchType
<1>4. /\ Adopted(t) \in TaskContext /\ Adopted(t).taken = NewContext.taken
      /\ NewContext.expected <= Adopted(t).expected
      /\ Adopted(t).buffer \cup 0..(Adopted(t).expected - 1)
           = pending_input[t] \cup NewContext.buffer \cup 0..(NewContext.expected - 1)
  BY <1>1, <1>3, FeedKeeps DEF Adopted
<1>5. 0..(0 - 1) = {}
  OBVIOUS
<1> HIDE DEF NewContext
<1> QED BY <1>1, <1>2, <1>4, <1>5

LEMMA BeginType ==
    ASSUME DispatchType, NEW r \in Requests, task[r] \in TaskIds, Begin(r),
           UNCHANGED <<started, cancel_seen>>
    PROVE  /\ DispatchType'
           /\ \A q \in Requests : pc[q] # "unsent" => pc'[q] # "unsent"
           /\ \A q \in Requests \ {r} : pc'[q] = pc[q]
<1>1. CASE params[task[r]].fault = "feature"
  BY <1>1, FinishType DEF Begin, DispatchType, Outcome
<1>2. CASE params[task[r]].fault # "feature"
  <2>1. /\ ctx' = [ctx EXCEPT ![r] = Adopted(task[r])]
        /\ pending_input' = [pending_input EXCEPT ![task[r]] = {}]
        /\ handler' = [handler EXCEPT ![r] = "created"]
        /\ running' = [running EXCEPT ![task[r]] = r]
        /\ pc' = [pc EXCEPT ![r] = "running"]
        /\ UNCHANGED <<result_cache, answer>>
    BY <1>2 DEF Begin
  <2>2. Adopted(task[r]) \in TaskContext
    BY AdoptedType
  <2>3. ctx' \in [Requests -> TaskContext]
    BY <2>1, <2>2 DEF DispatchType
  <2> QED BY <2>1, <2>3 DEF DispatchType, HandlerState, PC
<1> QED BY <1>1, <1>2

LEMMA HandleInvokeType ==
    ASSUME DispatchType, NEW r \in Requests, task[r] \in TaskIds, HandleInvoke(r)
    PROVE  /\ DispatchType'
           /\ \A q \in Requests : pc[q] # "unsent" => pc'[q] # "unsent"
           /\ \A q \in Requests \ {r} : pc'[q] = pc[q]
<1>1. CASE result_cache[task[r]] # None /\ Replay(r)
             /\ UNCHANGED <<handler, ctx, running, pending_input, started, cancel_seen>>
  <2>1. result_cache[task[r]] \in Outcome
    BY <1>1 DEF DispatchType
  <2> QED BY <1>1, <2>1 DEF Replay, DispatchType, PC
<1>2. CASE Finish(r, "capability")
             /\ UNCHANGED <<handler, ctx, running, pending_input, started, cancel_seen>>
  BY <1>2, FinishType DEF DispatchType, Outcome
<1>3. CASE pc' = [pc EXCEPT ![r] = "covers"]
             /\ UNCHANGED <<handler, ctx, running, pending_input, result_cache, answer,
                            started, cancel_seen>>
  BY <1>3 DEF DispatchType, PC
<1>4. CASE Begin(r) /\ UNCHANGED <<started, cancel_seen>>
  BY <1>4, BeginType
<1> QED BY <1>1, <1>2, <1>3, <1>4 DEF HandleInvoke

LEMMA HandleCancelType ==
    ASSUME DispatchType, NEW t \in TaskIds, HandleCancel(t)
    PROVE  DispatchType' /\ pc' = pc
<1>1. handler' \in [Requests -> HandlerState]
  BY DEF HandleCancel, Cancelled, DispatchType, HandlerState
<1>2. cancel_seen' \in SUBSET Requests
  BY DEF HandleCancel, DispatchType
<1> QED BY <1>1, <1>2 DEF HandleCancel, DispatchType

LEMMA HandleInputChunkType ==
    ASSUME DispatchType, NEW t \in TaskIds, NEW seq \in Seqs, HandleInputChunk(t, seq)
    PROVE  DispatchType' /\ pc' = pc
<1>1. CASE running[t] = None
  <2>1. pending_input' \in [TaskIds -> SUBSET Seqs]
    BY <1>1 DEF HandleInputChunk, DispatchType
  <2> QED BY <1>1, <2>1 DEF HandleInputChunk, DispatchType
<1>2. CASE running[t] # None
  <2> DEFINE r == running[t]
             c == Feed(ctx[r], {seq})
  <2>1. r \in Requests /\ ctx[r] \in TaskContext
    BY <1>2 DEF DispatchType
  <2>2. c \in TaskContext
    BY <2>1, FeedKeeps
  <2>3. ctx' = [ctx EXCEPT ![r] = c]
    BY <1>2 DEF HandleInputChunk
  <2> HIDE DEF c, r
  <2>4. ctx' \in [Requests -> TaskContext]
    BY <2>1, <2>2, <2>3 DEF DispatchType
  <2> QED BY <1>2, <2>4 DEF HandleInputChunk, DispatchType
<1> QED BY <1>1, <1>2

LEMMA TypeInit == Init => TypeInv
<1> SUFFICES ASSUME Init PROVE TypeInv
  OBVIOUS
<1>1. BuyersType
  BY BoundsAssumption DEF Init, BuyersType
<1>2. NewContext \in TaskContext
  BY BoundsAssumption DEF NewContext, TaskContext
<1>3. DispatchType
  BY <1>2 DEF Init, DispatchType, PC, HandlerState
<1>4. Served /\ Delivered
  BY DEF Init, Served, Delivered
<1> QED BY <1>1, <1>3, <1>4 DEF TypeInv

LEMMA TypeSends ==
    ASSUME TypeInv, Buyers
    PROVE  TypeInv'
<1>a. BuyersType /\ DispatchType /\ Served /\ Delivered
  BY DEF TypeInv
<1>b. \A m \in Message : Append(inbox, m) \in Seq(Message)
  BY <1>a DEF BuyersType
<1>c. ASSUME NEW m \in Message, inbox' = Append(inbox, m),
             \A q \in Requests : pc[q] # "unsent" => pc'[q] # "unsent",
             m.kind = "invoke" => pc'[m.id] # "unsent"
      PROVE  Delivered'
  <2>1. inbox \in Seq(Message)
    BY <1>a DEF BuyersType
  <2>2. ASSUME NEW i \in DOMAIN inbox', inbox'[i].kind = "invoke"
        PROVE  pc'[inbox'[i].id] # "unsent"
    <3>1. CASE i = Len(inbox) + 1
      BY <1>c, <2>1, <2>2, <3>1
    <3>2. CASE i \in DOMAIN inbox
      BY <1>a, <1>c, <2>1, <2>2, <3>2, MessageFields DEF Delivered
    <3> QED BY <1>c, <2>1, <3>1, <3>2
  <2> QED BY <2>2 DEF Delivered
<1>1. ASSUME NEW r \in Requests, NEW t \in TaskIds, SendInvoke(r, t) PROVE TypeInv'
  <2> DEFINE m == [kind |-> "invoke", id |-> r]
  <2>1. m \in Message /\ m.id = r
    BY DEF Message
  <2>2. /\ pc' = [pc EXCEPT ![r] = "sent"] /\ task' = [task EXCEPT ![r] = t]
        /\ inbox' = Append(inbox, m) /\ UNCHANGED <<params, input_seq, cancels, served>>
    BY <1>1 DEF SendInvoke
  <2> HIDE DEF m
  <2>3. BuyersType'
    BY <1>a, <1>b, <2>1, <2>2 DEF BuyersType
  <2>4. DispatchType'
    BY <1>a, <2>2 DEF DispatchType, served, PC
  <2>5. Served'
    BY <1>a, <2>2 DEF Served, BuyersType, DispatchType
  <2>6. Delivered'
    BY <1>a, <1>c, <2>1, <2>2 DEF DispatchType
  <2> QED BY <2>3, <2>4, <2>5, <2>6 DEF TypeInv
<1>2. ASSUME NEW m \in Message, m.kind # "invoke", inbox' = Append(inbox, m),
             UNCHANGED <<params, pc, task, served>>,
             input_seq' \in [TaskIds -> 0..InputLength],
             cancels' \in [TaskIds -> 0..MaxCancels]
      PROVE  TypeInv'
  <2>1. BuyersType'
    BY <1>a, <1>b, <1>2 DEF BuyersType
  <2>2. DispatchType' /\ Served'
    BY <1>a, <1>2 DEF DispatchType, Served, served
  <2>3. Delivered'
    BY <1>2, <1>c
  <2> QED BY <2>1, <2>2, <2>3 DEF TypeInv
<1>3. ASSUME NEW t \in TaskIds, SendCancel(t) PROVE TypeInv'
  <2> DEFINE m == [kind |-> "cancel", task_id |-> t]
  <2>1. m \in Message /\ m.kind # "invoke"
    BY DEF Message
  <2>2. cancels' \in [TaskIds -> 0..MaxCancels] /\ input_seq' \in [TaskIds -> 0..InputLength]
    BY <1>a, <1>3, BoundsAssumption DEF SendCancel, BuyersType
  <2>3. inbox' = Append(inbox, m) /\ UNCHANGED <<params, pc, task, served>>
    BY <1>3 DEF SendCancel
  <2> HIDE DEF m
  <2> QED BY <1>2, <2>1, <2>2, <2>3
<1>4. ASSUME NEW t \in TaskIds, SendInputChunk(t) PROVE TypeInv'
  <2> DEFINE m == [kind |-> "inputChunk", task_id |-> t, seq |-> input_seq[t]]
  <2>0. input_seq[t] \in Seqs
    BY <1>a, <1>4, BoundsAssumption DEF SendInputChunk, BuyersType, Seqs
  <2>1. m \in Message /\ m.kind # "invoke"
    BY <2>0 DEF Message
  <2>2. cancels' \in [TaskIds -> 0..MaxCancels] /\ input_seq' \in [TaskIds -> 0..InputLength]
    BY <1>a, <1>4, BoundsAssumption DEF SendInputChunk, BuyersType
  <2>3. inbox' = Append(inbox, m) /\ UNCHANGED <<params, pc, task, served>>
    BY <1>4 DEF SendInputChunk
  <2> HIDE DEF m
  <2> QED BY <1>2, <2>1, <2>2, <2>3
<1> QED BY <1>1, <1>3, <1>4 DEF Buyers

LEMMA TypeDispatch ==
    ASSUME TypeInv, Dispatch
    PROVE  TypeInv'
<1>a. BuyersType /\ DispatchType /\ Served /\ Delivered
  BY DEF TypeInv
<1>1. PICK i \in DOMAIN inbox :
        /\ inbox' = RemoveAt(inbox, i)
        /\ \/ inbox[i].kind = "invoke" /\ HandleInvoke(inbox[i].id)
           \/ inbox[i].kind = "cancel" /\ HandleCancel(inbox[i].task_id)
           \/ inbox[i].kind = "inputChunk"
                /\ HandleInputChunk(inbox[i].task_id, inbox[i].seq)
        /\ UNCHANGED <<params, task, input_seq, cancels>>
  BY DEF Dispatch
<1>2. inbox \in Seq(Message) /\ inbox[i] \in Message
  BY <1>a DEF BuyersType
<1>3. /\ inbox' \in Seq(Message) /\ DOMAIN inbox' = 1..(Len(inbox) - 1)
      /\ \A j \in DOMAIN inbox' : \E k \in DOMAIN inbox : inbox'[j] = inbox[k]
  <2>1. /\ inbox' \in Seq(Message) /\ DOMAIN inbox' = 1..(Len(inbox) - 1)
        /\ \A j \in 1..(Len(inbox) - 1) : inbox'[j] = inbox[IF j < i THEN j ELSE j + 1]
    BY <1>1, <1>2, RemoveAtProperties
  <2>2. DOMAIN inbox = 1..Len(inbox) /\ Len(inbox) \in Nat
    BY <1>2
  <2>3. ASSUME NEW j \in 1..(Len(inbox) - 1)
        PROVE  \E k \in DOMAIN inbox : inbox'[j] = inbox[k]
    <3>1. (IF j < i THEN j ELSE j + 1) \in DOMAIN inbox
      BY <2>2
    <3>2. inbox'[j] = inbox[IF j < i THEN j ELSE j + 1]
      BY <2>1
    <3> QED BY <3>1, <3>2
  <2>4. \A j \in DOMAIN inbox' : \E k \in DOMAIN inbox : inbox'[j] = inbox[k]
    BY <2>1, <2>3
  <2> QED BY <2>1, <2>4
<1>4. BuyersType'
  BY <1>a, <1>1, <1>3 DEF BuyersType
<1>5. DispatchType' /\ \A q \in Requests : pc[q] # "unsent" => pc'[q] # "unsent"
  <2>1. CASE inbox[i].kind = "invoke" /\ HandleInvoke(inbox[i].id)
    <3>1. inbox[i].id \in Requests
      BY <1>2, <2>1, MessageFields
    <3>2. task[inbox[i].id] \in TaskIds
      BY <1>a, <2>1, <3>1 DEF Served, Delivered
    <3> QED BY <1>a, <2>1, <3>1, <3>2, HandleInvokeType
  <2>2. CASE inbox[i].kind = "cancel" /\ HandleCancel(inbox[i].task_id)
    BY <1>a, <1>2, <2>2, MessageFields, HandleCancelType
  <2>3. CASE inbox[i].kind = "inputChunk"
               /\ HandleInputChunk(inbox[i].task_id, inbox[i].seq)
    BY <1>a, <1>2, <2>3, MessageFields, HandleInputChunkType
  <2> QED BY <1>1, <2>1, <2>2, <2>3
<1>6. Served'
  <2>1. \A q \in Requests : pc[q] = "unsent" => pc'[q] = "unsent" \/ task[q] \in TaskIds
    <3>1. CASE inbox[i].kind = "invoke" /\ HandleInvoke(inbox[i].id)
      <4>1. inbox[i].id \in Requests
        BY <1>2, <3>1, MessageFields
      <4>2. task[inbox[i].id] \in TaskIds
        BY <1>a, <3>1, <4>1 DEF Served, Delivered
      <4>3. \A q \in Requests \ {inbox[i].id} : pc'[q] = pc[q]
        BY <1>a, <3>1, <4>1, <4>2, HandleInvokeType
      <4> QED BY <4>2, <4>3
    <3>2. CASE pc' = pc
      BY <3>2
    <3> QED BY <1>1, <3>1, <3>2 DEF HandleCancel, HandleInputChunk
  <2> QED BY <1>a, <1>1, <2>1 DEF Served
<1>7. Delivered'
  <2>1. ASSUME NEW j \in DOMAIN inbox', inbox'[j].kind = "invoke"
        PROVE  pc'[inbox'[j].id] # "unsent"
    <3>1. PICK k \in DOMAIN inbox : inbox'[j] = inbox[k]
      BY <1>3
    <3>2. inbox[k].id \in Requests /\ pc[inbox[k].id] # "unsent"
      BY <1>a, <1>2, <2>1, <3>1, MessageFields DEF Delivered
    <3> QED BY <1>5, <3>1, <3>2
  <2> QED BY <2>1 DEF Delivered
<1> QED BY <1>4, <1>5, <1>6, <1>7 DEF TypeInv

LEMMA TypeContinues ==
    ASSUME TypeInv, NEW r \in Requests,
           Resume(r) \/ \E verdict \in {"covered", "refused", "raised"} :
                          CoversAnswered(r, verdict)
    PROVE  TypeInv'
<1>a. BuyersType /\ DispatchType /\ Served /\ Delivered
  BY DEF TypeInv
<1>b. /\ UNCHANGED <<params, inbox, task, input_seq, cancels, started, cancel_seen>>
      /\ pc[r] # "unsent"
  BY DEF Resume, CoversAnswered
<1>c. task[r] \in TaskIds
  BY <1>a, <1>b DEF Served
<1>1. ASSUME NEW outcome \in Outcome, Finish(r, outcome),
             running' \in [TaskIds -> Requests \cup {None}],
             UNCHANGED <<handler, ctx, pending_input>>
      PROVE  /\ DispatchType'
             /\ \A q \in Requests : pc[q] # "unsent" => pc'[q] # "unsent"
             /\ \A q \in Requests \ {r} : pc'[q] = pc[q]
  BY <1>a, <1>b, <1>c, <1>1, FinishType DEF DispatchType
<1>2. /\ DispatchType'
      /\ \A q \in Requests : pc[q] # "unsent" => pc'[q] # "unsent"
      /\ \A q \in Requests \ {r} : pc'[q] = pc[q]
  <2>1. CASE Resume(r)
    <3>1. PICK outcome \in Outcome : Finish(r, outcome)
      BY <2>1 DEF Resume, Outcome, HandlerDone
    <3>2. running' \in [TaskIds -> Requests \cup {None}]
      BY <1>a, <2>1 DEF Resume, Deregistered, DispatchType
    <3> QED BY <1>1, <2>1, <3>1, <3>2 DEF Resume
  <2>2. CASE CoversAnswered(r, "covered")
    BY <1>a, <1>b, <1>c, <2>2, BeginType DEF CoversAnswered
  <2>3. CASE CoversAnswered(r, "refused") \/ CoversAnswered(r, "raised")
    <3>1. PICK outcome \in Outcome : Finish(r, outcome)
      BY <2>3 DEF CoversAnswered, Outcome
    <3>2. UNCHANGED <<handler, ctx, running, pending_input>>
      BY <2>3 DEF CoversAnswered
    <3>3. running' \in [TaskIds -> Requests \cup {None}]
      BY <1>a, <3>2 DEF DispatchType
    <3> QED BY <1>1, <3>1, <3>2, <3>3
  <2> QED BY <2>1, <2>2, <2>3
<1>3. BuyersType'
  BY <1>a, <1>b DEF BuyersType
<1>4. Served'
  BY <1>a, <1>b, <1>2, <1>c DEF Served
<1>5. Delivered'
  <2>1. ASSUME NEW i \in DOMAIN inbox, inbox[i].kind = "invoke"
        PROVE  pc'[inbox[i].id] # "unsent"
    BY <1>a, <1>2, <2>1, MessageFields DEF Delivered, BuyersType
  <2> QED BY <1>b, <2>1 DEF Delivered
<1> QED BY <1>2, <1>3, <1>4, <1>5 DEF TypeInv

LEMMA TypeHandlers ==
    ASSUME TypeInv, NEW r \in Requests, Handlers(r)
    PROVE  TypeInv'
<1>a. BuyersType /\ DispatchType /\ Served /\ Delivered
  BY DEF TypeInv
<1>b. UNCHANGED <<params, inbox, pc, task, result_cache, running, pending_input, answer,
                  input_seq, cancels, cancel_seen>>
  BY DEF Handlers, HandlerStarts, HandlerTakesChunk, HandlerEnds, HandlerStops
<1>1. handler' \in [Requests -> HandlerState] /\ started' \in SUBSET Requests
  BY <1>a DEF Handlers, HandlerStarts, HandlerTakesChunk, HandlerEnds, HandlerStops,
              DispatchType, HandlerState
<1>2. ctx' \in [Requests -> TaskContext]
  <2>1. CASE HandlerTakesChunk(r)
    <3> DEFINE c == [ctx[r] EXCEPT !.taken = @ + 1]
    <3>1. ctx[r] \in TaskContext /\ ctx[r].taken < ctx[r].expected
      BY <1>a, <2>1 DEF HandlerTakesChunk, DispatchType
    <3>2. ctx[r].taken \in 0..InputLength /\ ctx[r].expected \in 0..InputLength
      BY <3>1 DEF TaskContext
    <3>3. ctx[r].taken + 1 \in 0..InputLength
      BY <3>1, <3>2, BoundsAssumption
    <3>4. c \in TaskContext
      BY <3>1, <3>3 DEF TaskContext
    <3>5. ctx' = [ctx EXCEPT ![r] = c]
      BY <2>1 DEF HandlerTakesChunk
    <3> QED BY <1>a, <3>4, <3>5 DEF DispatchType
  <2>2. CASE ctx' = ctx
    BY <1>a, <2>2 DEF DispatchType
  <2> QED BY <2>1, <2>2 DEF Handlers, HandlerStarts, HandlerEnds, HandlerStops
<1>3. BuyersType' /\ DispatchType' /\ Served' /\ Delivered'
  BY <1>a, <1>b, <1>1, <1>2 DEF BuyersType, DispatchType, Served, Delivered
<1> QED BY <1>3 DEF TypeInv

LEMMA TypeNext ==
    ASSUME TypeInv, [Next]_vars
    PROVE  TypeInv'
<1>1. CASE UNCHANGED vars
  BY <1>1 DEF vars, TypeInv, BuyersType, DispatchType, Served, Delivered
<1> QED BY <1>1, TypeSends, TypeDispatch, TypeContinues, TypeHandlers DEF Next

LEMMA TypeInvariance == Spec => []TypeInv
BY TypeInit, TypeNext, PTL DEF Spec

\* Every variable of the provider keeps its type, overlapping retries included; in
\* particular what TaskContext releases never goes beyond the final chunk.
THEOREM TypeCorrect == Spec => []TypeOK
<1>1. TypeInv => TypeOK
  BY DEF TypeInv, BuyersType, DispatchType, PC, TypeOK
<1> QED BY <1>1, TypeInvariance, PTL

--------------------------------------------------------------------------------
(* Where the chunks of a task are *)

Kept(t) ==
    /\ running[t] = None /\ result_cache[t] = None =>
         0..(input_seq[t] - 1) = ChunksInFlight(t) \cup pending_input[t]
    /\ running[t] # None =>
         /\ pending_input[t] = {}
         /\ 0..(input_seq[t] - 1) = ChunksInFlight(t) \cup ChunksReached(running[t])
         /\ ctx[running[t]].taken <= ctx[running[t]].expected

ChunkInv == Inv /\ TypeInv /\ \A t \in TaskIds : Kept(t)

LEMMA InFlightAfterSend ==
    ASSUME inbox \in Seq(Message), NEW m \in Message, inbox' = Append(inbox, m), NEW t
    PROVE  ChunksInFlight(t)' =
             ChunksInFlight(t)
               \cup (IF m.kind = "inputChunk" /\ m.task_id = t THEN {m.seq} ELSE {})
<1>1. /\ DOMAIN inbox' = DOMAIN inbox \cup {Len(inbox) + 1}
      /\ \A i \in DOMAIN inbox : inbox'[i] = inbox[i]
      /\ inbox'[Len(inbox) + 1] = m
  OBVIOUS
<1> QED BY <1>1 DEF ChunksInFlight

LEMMA InFlightAfterDispatch ==
    ASSUME inbox \in Seq(Message), NEW i \in DOMAIN inbox, inbox' = RemoveAt(inbox, i), NEW t
    PROVE  ChunksInFlight(t) =
             ChunksInFlight(t)'
               \cup (IF inbox[i].kind = "inputChunk" /\ inbox[i].task_id = t
                     THEN {inbox[i].seq} ELSE {})
<1>1. /\ DOMAIN inbox' = 1..(Len(inbox) - 1)
      /\ \A j \in 1..(Len(inbox) - 1) : inbox'[j] = inbox[IF j < i THEN j ELSE j + 1]
  BY RemoveAtProperties
<1>2. DOMAIN inbox = 1..Len(inbox) /\ Len(inbox) \in Nat /\ i \in Nat
  OBVIOUS
<1>3. \A j \in DOMAIN inbox' : \E k \in DOMAIN inbox : inbox'[j] = inbox[k]
  BY <1>1, <1>2
<1>4. ASSUME NEW k \in DOMAIN inbox, k # i
      PROVE  \E j \in DOMAIN inbox' : inbox'[j] = inbox[k]
  <2>1. CASE k < i
    BY <1>1, <1>2, <2>1
  <2>2. CASE k > i
    <3>1. k - 1 \in DOMAIN inbox' /\ ~(k - 1 < i) /\ (k - 1) + 1 = k
      BY <1>1, <1>2, <2>2
    <3> QED BY <1>1, <3>1
  <2> QED BY <1>2, <1>4, <2>1, <2>2
<1>5. ChunksInFlight(t)' \subseteq ChunksInFlight(t)
  BY <1>3 DEF ChunksInFlight
<1>6. ASSUME NEW s \in ChunksInFlight(t)
      PROVE  s \in ChunksInFlight(t)' \/ (/\ inbox[i].kind = "inputChunk"
                                          /\ inbox[i].task_id = t /\ s = inbox[i].seq)
  <2>1. PICK k \in DOMAIN inbox :
          inbox[k].kind = "inputChunk" /\ inbox[k].task_id = t /\ s = inbox[k].seq
    BY <1>6 DEF ChunksInFlight
  <2> QED BY <1>4, <2>1 DEF ChunksInFlight
<1>7. inbox[i].kind = "inputChunk" /\ inbox[i].task_id = t => inbox[i].seq \in ChunksInFlight(t)
  BY DEF ChunksInFlight
<1> QED BY <1>5, <1>6, <1>7

LEMMA ChunkFacts ==
    ASSUME ChunkInv, NEW t \in TaskIds
    PROVE  /\ inbox \in Seq(Message)
           /\ input_seq[t] \in 0..InputLength
           /\ pending_input[t] \in SUBSET Seqs
           /\ running[t] # None =>
                /\ running[t] \in Requests /\ ctx[running[t]] \in TaskContext
                /\ pc[running[t]] = "running" /\ task[running[t]] = t
BY DEF ChunkInv, TypeInv, BuyersType, DispatchType, Inv, Core, HandlersOK

\* No handler is registered yet for a request that is about to begin.
LEMMA NoneRunsYet ==
    ASSUME ChunkInv, NEW r \in Requests, pc[r] \in {"sent", "covers"}
    PROVE  task[r] \in TaskIds /\ running[task[r]] = None
<1>1. task[r] \in TaskIds
  BY DEF ChunkInv, Inv, Core, OneWaits
<1> QED BY <1>1, ChunkFacts DEF ChunkInv, Inv, Core, OneWaits, Waiting

\* An answered task needs its chunks no more.
LEMMA FinishKeeps ==
    ASSUME ChunkInv, NEW r \in Requests, task[r] \in TaskIds, NEW outcome \in Outcome,
           Finish(r, outcome), UNCHANGED <<ctx, pending_input, input_seq>>,
           NEW t \in TaskIds, ChunksInFlight(t)' = ChunksInFlight(t),
           running'[t] = running[t] \/ (running'[t] = None /\ t = task[r])
    PROVE  Kept(t)'
<1>1. /\ t = task[r] => result_cache'[t] # None
      /\ t # task[r] => result_cache'[t] = result_cache[t]
  BY NoneAssumption DEF Finish, ChunkInv, TypeInv, DispatchType
<1> QED BY <1>1 DEF ChunkInv, Kept, ChunksReached

\* The handler gets what was held for it.
LEMMA BeginKeeps ==
    ASSUME ChunkInv, NEW r \in Requests, pc[r] \in {"sent", "covers"},
           result_cache[task[r]] = None, Begin(r), UNCHANGED input_seq,
           NEW t \in TaskIds, ChunksInFlight(t)' = ChunksInFlight(t)
    PROVE  Kept(t)'
<1>1. task[r] \in TaskIds /\ running[task[r]] = None
  BY NoneRunsYet
<1>2. CASE params[task[r]].fault = "feature"
  BY <1>1, <1>2, FinishKeeps DEF Begin, Outcome
<1>3. CASE params[task[r]].fault # "feature"
  <2>1. /\ ctx' = [ctx EXCEPT ![r] = Adopted(task[r])]
        /\ pending_input' = [pending_input EXCEPT ![task[r]] = {}]
        /\ running' = [running EXCEPT ![task[r]] = r]
        /\ UNCHANGED <<result_cache, input_seq>>
    BY <1>3 DEF Begin
  <2>t. DispatchType
    BY DEF ChunkInv, TypeInv
  <2>2. CASE t = task[r]
    <3>1. /\ running'[t] = r /\ r # None /\ pending_input'[t] = {} /\ ctx'[r] = Adopted(t)
      BY <2>t, <2>1, <2>2, NoneAssumption DEF DispatchType
    <3>2. /\ Adopted(t).taken <= Adopted(t).expected
          /\ Adopted(t).buffer \cup 0..(Adopted(t).expected - 1) = pending_input[t]
      BY <2>t, AdoptedType
    <3>3. 0..(input_seq[t] - 1) = ChunksInFlight(t) \cup pending_input[t]
      BY <1>1, <2>2 DEF ChunkInv, Kept
    <3> QED BY <2>1, <3>1, <3>2, <3>3 DEF Kept, ChunksReached
  <2>3. CASE t # task[r]
    <3>1. running'[t] = running[t] /\ pending_input'[t] = pending_input[t]
      BY <2>t, <2>1, <2>3 DEF DispatchType
    <3>2. running[t] # None => running[t] # r
      BY <2>3, ChunkFacts
    <3>3. running[t] # None => ctx'[running[t]] = ctx[running[t]]
      BY <2>1, <3>2
    <3> QED BY <2>1, <3>1, <3>3 DEF ChunkInv, Kept, ChunksReached
  <2> QED BY <2>2, <2>3
<1> QED BY <1>2, <1>3

LEMMA HandleInvokeKeeps ==
    ASSUME ChunkInv, NEW r \in Requests, pc[r] = "sent", HandleInvoke(r), UNCHANGED input_seq,
           NEW t \in TaskIds, ChunksInFlight(t)' = ChunksInFlight(t)
    PROVE  Kept(t)'
<1>1. task[r] \in TaskIds
  BY NoneRunsYet
<1>2. CASE UNCHANGED <<ctx, running, pending_input, result_cache>>
  BY <1>2 DEF ChunkInv, Kept, ChunksReached
<1>3. CASE Finish(r, "capability") /\ UNCHANGED <<ctx, running, pending_input>>
  BY <1>1, <1>3, FinishKeeps DEF Outcome
<1>4. CASE result_cache[task[r]] = None /\ Begin(r)
  BY <1>4, BeginKeeps
<1> QED BY <1>2, <1>3, <1>4 DEF HandleInvoke, Replay

\* A chunk that comes is held, or fed to the handler that is registered.
LEMMA HandleInputChunkKeeps ==
    ASSUME ChunkInv, NEW u \in TaskIds, NEW seq \in Seqs, HandleInputChunk(u, seq),
           UNCHANGED input_seq, NEW t \in TaskIds,
           ChunksInFlight(t) = ChunksInFlight(t)' \cup (IF u = t THEN {seq} ELSE {})
    PROVE  Kept(t)'
<1>t. DispatchType /\ Kept(t) /\ Kept(u)
  BY DEF ChunkInv, TypeInv
<1>1. UNCHANGED <<running, result_cache>>
  BY DEF HandleInputChunk
<1>2. CASE running[u] = None
  <2>1. pending_input' = [pending_input EXCEPT ![u] = @ \cup {seq}] /\ ctx' = ctx
    BY <1>2 DEF HandleInputChunk
  <2>2. CASE t = u
    <3>1. pending_input'[t] = pending_input[t] \cup {seq}
      BY <1>t, <2>1, <2>2 DEF DispatchType
    <3> QED BY <1>t, <1>1, <1>2, <2>2, <3>1 DEF Kept
  <2>3. CASE t # u
    <3>1. pending_input'[t] = pending_input[t]
      BY <1>t, <2>1, <2>3 DEF DispatchType
    <3> QED BY <1>t, <1>1, <2>1, <2>3, <3>1 DEF Kept, ChunksReached
  <2> QED BY <2>2, <2>3
<1>3. CASE running[u] # None
  <2>0. PICK r \in Requests : r = running[u]
    BY <1>3, ChunkFacts
  <2> DEFINE c == Feed(ctx[r], {seq})
  <2>1. ctx[r] \in TaskContext /\ task[r] = u /\ r # None
    BY <1>3, <2>0, ChunkFacts
  <2>2. ctx' = [ctx EXCEPT ![r] = c] /\ pending_input' = pending_input
    BY <1>3, <2>0 DEF HandleInputChunk
  <2>3. /\ c.taken = ctx[r].taken /\ ctx[r].expected <= c.expected /\ c \in TaskContext
        /\ c.buffer \cup 0..(c.expected - 1)
             = {seq} \cup ctx[r].buffer \cup 0..(ctx[r].expected - 1)
    BY <2>1, FeedKeeps
  <2>c. ctx'[r] = c
    BY <1>t, <2>2 DEF DispatchType
  <2> HIDE DEF c
  <2>4. CASE t = u
    <3>2. /\ pending_input[t] = {}
          /\ 0..(input_seq[t] - 1) = ChunksInFlight(t) \cup ChunksReached(r)
          /\ ctx[r].taken <= ctx[r].expected
      BY <1>t, <1>3, <2>0, <2>4 DEF Kept
    <3>3. ctx'[r].taken <= ctx'[r].expected
      <4>1. /\ ctx[r].taken \in Nat /\ ctx[r].expected \in Nat /\ c.expected \in Nat
        BY <2>1, <2>3, BoundsAssumption DEF TaskContext
      <4> QED BY <2>3, <2>c, <3>2, <4>1
    <3>4. ChunksReached(r) = ctx[r].buffer \cup 0..(ctx[r].expected - 1)
      BY DEF ChunksReached
    <3>5. ChunksReached(r)' = ctx'[r].buffer \cup 0..(ctx'[r].expected - 1)
      BY DEF ChunksReached
    <3>6. ChunksReached(r)' = {seq} \cup ChunksReached(r)
      BY <2>3, <2>c, <3>4, <3>5
    <3>7. running'[t] = r
      BY <1>1, <2>0, <2>4
    <3>8. 0..(input_seq'[t] - 1) = ChunksInFlight(t)' \cup ChunksReached(r)'
      BY <2>4, <3>2, <3>6
    <3>9. pending_input'[t] = {}
      BY <2>2, <3>2
    <3> QED BY <2>1, <3>3, <3>7, <3>8, <3>9 DEF Kept
  <2>5. CASE t # u
    <3>1. running[t] # None => running[t] # r
      BY <2>1, <2>5, ChunkFacts
    <3>2. running[t] # None => ctx'[running[t]] = ctx[running[t]]
      BY <2>2, <3>1
    <3> QED BY <1>t, <1>1, <2>2, <2>5, <3>2 DEF Kept, ChunksReached
  <2> QED BY <2>4, <2>5
<1> QED BY <1>2, <1>3

LEMMA SendsKeep ==
    ASSUME ChunkInv, Buyers, NEW t \in TaskIds
    PROVE  Kept(t)'
<1>a. /\ inbox \in Seq(Message) /\ Kept(t) /\ BuyersType
      /\ input_seq[t] \in Nat
  BY BoundsAssumption DEF ChunkInv, TypeInv, BuyersType
<1>1. ASSUME NEW m \in Message, m.kind # "inputChunk", inbox' = Append(inbox, m),
             UNCHANGED <<input_seq, running, result_cache, pending_input, ctx>>
      PROVE  Kept(t)'
  <2>1. ChunksInFlight(t)' = ChunksInFlight(t)
    BY <1>a, <1>1, InFlightAfterSend
  <2> QED BY <1>a, <1>1, <2>1 DEF Kept, ChunksReached
<1>2. ASSUME NEW r \in Requests, NEW u \in TaskIds, SendInvoke(r, u) PROVE Kept(t)'
  <2>1. [kind |-> "invoke", id |-> r] \in Message
    BY DEF Message
  <2> QED BY <1>1, <1>2, <2>1 DEF SendInvoke, served
<1>3. ASSUME NEW u \in TaskIds, SendCancel(u) PROVE Kept(t)'
  <2>1. [kind |-> "cancel", task_id |-> u] \in Message
    BY DEF Message
  <2> QED BY <1>1, <1>3, <2>1 DEF SendCancel, served
<1>4. ASSUME NEW u \in TaskIds, SendInputChunk(u) PROVE Kept(t)'
  <2> DEFINE m == [kind |-> "inputChunk", task_id |-> u, seq |-> input_seq[u]]
  <2>0. input_seq[u] \in Seqs
    BY <1>a, <1>4, BoundsAssumption DEF SendInputChunk, BuyersType, Seqs
  <2>1. /\ m \in Message /\ m.kind = "inputChunk" /\ m.task_id = u /\ m.seq = input_seq[u]
    BY <2>0 DEF Message
  <2>2. /\ inbox' = Append(inbox, m) /\ input_seq' = [input_seq EXCEPT ![u] = @ + 1]
        /\ UNCHANGED <<running, result_cache, pending_input, ctx>>
    BY <1>4 DEF SendInputChunk, served
  <2> HIDE DEF m
  <2>3. ChunksInFlight(t)' = ChunksInFlight(t) \cup (IF u = t THEN {input_seq[u]} ELSE {})
    BY <1>a, <2>1, <2>2, InFlightAfterSend
  <2>4. CASE u = t
    <3>1. input_seq'[t] = input_seq[t] + 1
      BY <1>a, <2>2, <2>4 DEF BuyersType
    <3>2. 0..(input_seq'[t] - 1) = (0..(input_seq[t] - 1)) \cup {input_seq[t]}
      BY <1>a, <3>1
    <3> QED BY <1>a, <2>2, <2>3, <2>4, <3>2 DEF Kept, ChunksReached
  <2>5. CASE u # t
    <3>1. input_seq'[t] = input_seq[t]
      BY <1>a, <2>2, <2>5 DEF BuyersType
    <3> QED BY <1>a, <2>2, <2>3, <2>5, <3>1 DEF Kept, ChunksReached
  <2> QED BY <2>4, <2>5
<1> QED BY <1>2, <1>3, <1>4 DEF Buyers

LEMMA DispatchKeeps ==
    ASSUME ChunkInv, Dispatch, NEW t \in TaskIds
    PROVE  Kept(t)'
<1>1. PICK i \in DOMAIN inbox :
        /\ inbox' = RemoveAt(inbox, i)
        /\ \/ inbox[i].kind = "invoke" /\ HandleInvoke(inbox[i].id)
           \/ inbox[i].kind = "cancel" /\ HandleCancel(inbox[i].task_id)
           \/ inbox[i].kind = "inputChunk"
                /\ HandleInputChunk(inbox[i].task_id, inbox[i].seq)
        /\ UNCHANGED <<params, task, input_seq, cancels>>
  BY DEF Dispatch
<1>2. inbox \in Seq(Message) /\ inbox[i] \in Message
  BY ChunkFacts
<1>3. ChunksInFlight(t) =
        ChunksInFlight(t)'
          \cup (IF inbox[i].kind = "inputChunk" /\ inbox[i].task_id = t
                THEN {inbox[i].seq} ELSE {})
  BY <1>1, <1>2, InFlightAfterDispatch
<1>4. CASE inbox[i].kind = "invoke" /\ HandleInvoke(inbox[i].id)
  <2>1. inbox[i].id \in Requests /\ pc[inbox[i].id] = "sent"
    BY <1>2, <1>4, MessageFields DEF ChunkInv, Inv, InboxOK, Invokes
  <2>2. ChunksInFlight(t)' = ChunksInFlight(t)
    BY <1>3, <1>4
  <2> QED BY <1>1, <1>4, <2>1, <2>2, HandleInvokeKeeps
<1>5. CASE inbox[i].kind = "cancel" /\ HandleCancel(inbox[i].task_id)
  <2>1. UNCHANGED <<input_seq, running, result_cache, pending_input, ctx>>
    BY <1>1, <1>5 DEF HandleCancel
  <2>2. ChunksInFlight(t)' = ChunksInFlight(t)
    BY <1>3, <1>5
  <2> QED BY <2>1, <2>2 DEF ChunkInv, Kept, ChunksReached
<1>6. CASE inbox[i].kind = "inputChunk"
             /\ HandleInputChunk(inbox[i].task_id, inbox[i].seq)
  <2>1. inbox[i].task_id \in TaskIds /\ inbox[i].seq \in Seqs
    BY <1>2, <1>6, MessageFields
  <2>2. ChunksInFlight(t) =
          ChunksInFlight(t)' \cup (IF inbox[i].task_id = t THEN {inbox[i].seq} ELSE {})
    BY <1>3, <1>6
  <2> QED BY <1>1, <1>6, <2>1, <2>2, HandleInputChunkKeeps
<1> QED BY <1>1, <1>4, <1>5, <1>6

LEMMA ContinuesKeep ==
    ASSUME ChunkInv, NEW r \in Requests, NEW t \in TaskIds,
           Resume(r) \/ \E verdict \in {"covered", "refused", "raised"} :
                          CoversAnswered(r, verdict)
    PROVE  Kept(t)'
<1>1. /\ UNCHANGED <<inbox, input_seq>> /\ pc[r] \in {"covers", "running"}
      /\ ChunksInFlight(t)' = ChunksInFlight(t)
  BY DEF Resume, CoversAnswered, ChunksInFlight
<1>2. task[r] \in TaskIds /\ result_cache[task[r]] = None
  BY <1>1 DEF ChunkInv, Inv, Core, OneWaits, CacheOK, InService
<1>3. CASE Resume(r)
  <2>1. PICK outcome \in Outcome : Finish(r, outcome)
    BY <1>3 DEF Resume, Outcome, HandlerDone
  <2>2. running'[t] = running[t] \/ (running'[t] = None /\ t = task[r])
    BY <1>3, <1>2 DEF Resume, Deregistered, ChunkInv, TypeInv, DispatchType
  <2>3. UNCHANGED <<ctx, pending_input, input_seq>>
    BY <1>3 DEF Resume
  <2> QED BY <1>1, <1>2, <2>1, <2>2, <2>3, FinishKeeps
<1>4. CASE CoversAnswered(r, "covered")
  <2>1. Begin(r) /\ pc[r] = "covers"
    BY <1>4 DEF CoversAnswered
  <2> QED BY <1>1, <1>2, <2>1, BeginKeeps
<1>5. CASE CoversAnswered(r, "refused") \/ CoversAnswered(r, "raised")
  <2>1. PICK outcome \in Outcome : Finish(r, outcome)
    BY <1>5 DEF CoversAnswered, Outcome
  <2>2. UNCHANGED <<ctx, pending_input, running>>
    BY <1>5 DEF CoversAnswered
  <2> QED BY <1>1, <1>2, <2>1, <2>2, FinishKeeps
<1> QED BY <1>3, <1>4, <1>5

LEMMA HandlersKeep ==
    ASSUME ChunkInv, NEW r \in Requests, NEW t \in TaskIds, Handlers(r)
    PROVE  Kept(t)'
<1>1. /\ UNCHANGED <<inbox, input_seq, running, result_cache, pending_input>>
      /\ ChunksInFlight(t)' = ChunksInFlight(t)
  BY DEF Handlers, HandlerStarts, HandlerTakesChunk, HandlerEnds, HandlerStops, ChunksInFlight
<1>2. ASSUME running[t] # None
      PROVE  /\ ctx'[running[t]].buffer = ctx[running[t]].buffer
             /\ ctx'[running[t]].expected = ctx[running[t]].expected
             /\ ctx'[running[t]].taken <= ctx'[running[t]].expected
  <2> DEFINE q == running[t]
  <2>1. /\ q \in Requests /\ ctx[q] \in TaskContext /\ ctx[q].taken <= ctx[q].expected
        /\ ctx \in [Requests -> TaskContext]
    BY <1>2, ChunkFacts DEF ChunkInv, Kept, TypeInv, DispatchType
  <2> HIDE DEF q
  <2>2. CASE HandlerTakesChunk(r) /\ r = q
    <3>1. /\ ctx'[q] = [ctx[q] EXCEPT !.taken = @ + 1] /\ ctx[q].taken < ctx[q].expected
      BY <2>1, <2>2 DEF HandlerTakesChunk
    <3>2. ctx[q].taken \in Nat /\ ctx[q].expected \in Nat
      BY <2>1, BoundsAssumption DEF TaskContext
    <3>3. /\ ctx'[q].taken = ctx[q].taken + 1 /\ ctx'[q].expected = ctx[q].expected
          /\ ctx'[q].buffer = ctx[q].buffer
      BY <2>1, <3>1 DEF TaskContext
    <3> QED BY <3>1, <3>2, <3>3 DEF q
  <2>3. CASE ctx'[q] = ctx[q]
    BY <2>1, <2>3 DEF q
  <2>4. HandlerTakesChunk(r) /\ r # q => ctx'[q] = ctx[q]
    BY <2>1 DEF HandlerTakesChunk
  <2> QED BY <2>2, <2>3, <2>4 DEF Handlers, HandlerStarts, HandlerEnds, HandlerStops
<1> QED BY <1>1, <1>2 DEF ChunkInv, Kept, ChunksReached

LEMMA ChunkInvNext ==
    ASSUME ~OverlapRetries, ChunkInv, [Next]_vars
    PROVE  ChunkInv'
<1>1. Inv' /\ TypeInv'
  BY NextInv, TypeNext DEF ChunkInv
<1> SUFFICES ASSUME NEW t \in TaskIds PROVE Kept(t)'
  BY <1>1 DEF ChunkInv
<1>2. CASE UNCHANGED vars
  BY <1>2 DEF vars, ChunkInv, Kept, ChunksInFlight, ChunksReached
<1> QED BY <1>2, SendsKeep, DispatchKeeps, ContinuesKeep, HandlersKeep DEF Next

\* No chunk of a streamed input is lost on its way to the handler, whatever order the
\* chunks, the invoke and the cancels arrive in, if no retry overlaps the first try.
THEOREM ChunksReachHandlers == ~OverlapRetries /\ Spec => []NoChunkLost
<1> SUFFICES ASSUME ~OverlapRetries PROVE Spec => []NoChunkLost
  OBVIOUS
<1>1. Init => ChunkInv
  <2> SUFFICES ASSUME Init, NEW t \in TaskIds PROVE Kept(t)
    BY InitInv, TypeInit DEF ChunkInv
  <2>1. ChunksInFlight(t) = {} /\ 0..(input_seq[t] - 1) = {}
    BY DEF Init, ChunksInFlight
  <2> QED BY <2>1 DEF Init, Kept
<1>2. ChunkInv /\ [Next]_vars => ChunkInv'
  BY ChunkInvNext
<1>3. ChunkInv => NoChunkLost
  BY DEF ChunkInv, Kept, NoChunkLost
<1> QED BY <1>1, <1>2, <1>3, PTL DEF Spec
================================================================================
