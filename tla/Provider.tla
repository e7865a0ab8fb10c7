------------------------------- MODULE Provider --------------------------------
(***************************************************************************)
(* The invoke side of src/src/acmp/provider.py: the dispatch of            *)
(* acmp/invoke, acmp/cancel and acmp/inputChunk, the result cache, the     *)
(* registration of running handlers and the input side of TaskContext.     *)
(*                                                                         *)
(* serve_forever starts one asyncio task per message, in the order it      *)
(* reads them.  A dispatch runs without interruption up to an await that   *)
(* suspends: the call of EscrowVerifier.covers or the wait for the         *)
(* handler's own task.  Those are the steps of this module.  Everything    *)
(* between two of them is one action, as it is on the event loop.          *)
(*                                                                         *)
(* Chunks carry only their seq, an outcome only what it tells the buyer.   *)
(* Output chunks, heartbeats, offers and the closing of the channel are    *)
(* not part of this module.                                                *)
(*                                                                         *)
(* A definition under "Fault:" is no part of the provider.  It is a        *)
(* plausible bug of the definition below it, and PROJECT.json names the    *)
(* property that catches the bug when it takes that definition's place.    *)
(***************************************************************************)
EXTENDS Integers, SequencesExt

CONSTANTS
    TaskIds,         \* the task ids buyers use
    MaxRequests,     \* bound: how many acmp/invoke requests are sent
    MaxCancels,      \* bound: how many acmp/cancel are sent for one task
    InputLength,     \* the chunks of a streamed input, the last one final
    Reordering,      \* may the transport let an input chunk overtake or fall behind?
    OverlapRetries,  \* may a task id be sent again before its answer is there?
    None             \* Python's None

Requests == 1..MaxRequests
Seqs == 0..(InputLength - 1)

VARIABLES
    params,         \* what the requests for a task ask for, the same on a retry
    inbox,          \* messages sent and not yet dispatched
    pc,             \* how far the dispatch of each request is
    task,           \* the task_id of each request
    handler,        \* the asyncio task of the handler each request started
    ctx,            \* the TaskContext of each request, its input side
    result_cache,   \* Provider._result_cache
    running,        \* Provider._running: task id -> the request whose handler it holds
    pending_input,  \* Provider._pending_input: the seqs held for each task
    answer,         \* the outcome each request was answered with
    input_seq,      \* Buyer._input_seq: the next seq of each task
    cancels,        \* how many cancels were sent for each task
    started,        \* history: the requests whose handler's code ran
    cancel_seen     \* history: the requests in service when a cancel for them came

vars == <<params, inbox, pc, task, handler, ctx, result_cache, running,
          pending_input, answer, input_seq, cancels, started, cancel_seen>>

served == <<handler, ctx, result_cache, running, pending_input, answer,
            started, cancel_seen>>

--------------------------------------------------------------------------------
(* Data *)

\* Where an invoke of the task fails, if it does: an unknown capability or an
\* exceeded budget, a feature not advertised, a proof method not supported.
Params == [escrow : BOOLEAN, input_stream : BOOLEAN,
           fault : {"none", "capability", "feature", "proof"}]

\* What an answer tells: "capability" stands for both early errors, "internal"
\* for whatever a handler or the escrow agent raised.
Outcome == {"result", "capability", "escrow_invalid", "feature", "proof",
            "cancelled", "internal"}

Message ==
    [kind : {"invoke"}, id : Requests]
      \cup [kind : {"cancel"}, task_id : TaskIds]
      \cup [kind : {"inputChunk"}, task_id : TaskIds, seq : Seqs]

\* Chunks below expected left the buffer for the queue, those below taken the
\* queue for the handler.
TaskContext == [expected : 0..InputLength, buffer : SUBSET Seqs, taken : 0..InputLength]

HandlerState ==
    {"none", "created", "working", "cancelling", "returned", "raised", "cancelled"}

ASSUME BoundsAssumption ==
    /\ MaxRequests \in Nat /\ MaxCancels \in Nat
    /\ InputLength \in Nat \ {0}
    /\ Reordering \in BOOLEAN /\ OverlapRetries \in BOOLEAN
ASSUME NoneAssumption == None \notin Requests /\ None \notin TaskIds /\ None \notin Outcome

HandlerDone(r) == handler[r] \in {"returned", "raised", "cancelled"}

InService(r) == pc[r] \in {"covers", "running"}

--------------------------------------------------------------------------------
(* TaskContext: chunks are released to the handler strictly in order *)

NewContext == [expected |-> 0, buffer |-> {}, taken |-> 0]

\* Fault: one chunk too many is released.
ReleasedPast(expected, held) ==
    1 + CHOOSE n \in expected..InputLength :
          n \notin held /\ expected..(n - 1) \subseteq held
\* Fault: one call releases at most one chunk.
ReleasedOne(expected, held) == IF expected \in held THEN expected + 1 ELSE expected

\* The first seq after expected that is not held.
ReleasedUpTo(expected, held) ==
    CHOOSE n \in expected..InputLength :
      n \notin held /\ expected..(n - 1) \subseteq held

\* TaskContext._feed_input, for every seq of a set at once: the order in which
\* they are fed makes no difference to what is released in the end.
Feed(c, seqs) ==
    LET held == c.buffer \cup seqs
        next == ReleasedUpTo(c.expected, held)
    IN [c EXCEPT !.expected = next, !.buffer = held \ (c.expected..(next - 1))]

--------------------------------------------------------------------------------
(* acmp/invoke *)

Replay(r) ==
    /\ answer' = [answer EXCEPT ![r] = result_cache[task[r]]]
    /\ pc' = [pc EXCEPT ![r] = "answered"]
    /\ UNCHANGED result_cache

\* Fault: only results are cached.
FinishResultsOnly(r, outcome) ==
    /\ result_cache' = [result_cache EXCEPT ![task[r]] =
                          IF outcome = "result" THEN outcome ELSE @]
    /\ answer' = [answer EXCEPT ![r] = outcome]
    /\ pc' = [pc EXCEPT ![r] = "answered"]
\* Fault: what the handler returned is cached before the proof is checked.
FinishCachedEarly(r, outcome) ==
    /\ result_cache' = [result_cache EXCEPT ![task[r]] =
                          IF handler[r] = "returned" THEN "result" ELSE outcome]
    /\ answer' = [answer EXCEPT ![r] = outcome]
    /\ pc' = [pc EXCEPT ![r] = "answered"]

\* The end of _handle_invoke: result and error alike are cached, then sent.
Finish(r, outcome) ==
    /\ result_cache' = [result_cache EXCEPT ![task[r]] = outcome]
    /\ answer' = [answer EXCEPT ![r] = outcome]
    /\ pc' = [pc EXCEPT ![r] = "answered"]

\* Fault: chunks that came before the invoke are not handed over.
AdoptedNothing(t) == NewContext

Adopted(t) == Feed(NewContext, pending_input[t])

\* _execute from _check_features to the registration, without an await: the
\* held chunks are adopted, the handler's task is created and registered.
Begin(r) ==
    LET t == task[r] IN
    IF params[t].fault = "feature"
    THEN Finish(r, "feature") /\ UNCHANGED <<handler, ctx, running, pending_input>>
    ELSE /\ ctx' = [ctx EXCEPT ![r] = Adopted(t)]
         /\ pending_input' = [pending_input EXCEPT ![t] = {}]
         /\ handler' = [handler EXCEPT ![r] = "created"]
         /\ running' = [running EXCEPT ![t] = r]
         /\ pc' = [pc EXCEPT ![r] = "running"]
         /\ UNCHANGED <<result_cache, answer>>

HandleInvoke(r) ==
    LET t == task[r] IN
    /\ \/ /\ result_cache[t] # None
          /\ Replay(r)
          /\ UNCHANGED <<handler, ctx, running, pending_input>>
       \/ /\ result_cache[t] = None
          /\ params[t].fault = "capability"
          /\ Finish(r, "capability")
          /\ UNCHANGED <<handler, ctx, running, pending_input>>
       \/ /\ result_cache[t] = None
          /\ params[t].fault # "capability" /\ params[t].escrow
          /\ pc' = [pc EXCEPT ![r] = "covers"]
          /\ UNCHANGED <<handler, ctx, running, pending_input, result_cache, answer>>
       \/ /\ result_cache[t] = None
          /\ params[t].fault # "capability" /\ ~params[t].escrow
          /\ Begin(r)
    /\ UNCHANGED <<started, cancel_seen>>

\* The escrow agent's answer to covers: yes, no, or an error of its own.
CoversAnswered(r, verdict) ==
    /\ pc[r] = "covers"
    /\ CASE verdict = "covered" -> Begin(r)
         [] verdict = "refused" ->
              Finish(r, "escrow_invalid") /\ UNCHANGED <<handler, ctx, running, pending_input>>
         [] verdict = "raised" ->
              Finish(r, "internal") /\ UNCHANGED <<handler, ctx, running, pending_input>>
    /\ UNCHANGED <<params, inbox, task, input_seq, cancels, started, cancel_seen>>

\* self._running.pop(task_id), whoever's entry it holds.
Deregistered(t) == [running EXCEPT ![t] = None]

\* _execute after the handler's task is done.
Resume(r) ==
    /\ pc[r] = "running" /\ HandlerDone(r)
    /\ running' = Deregistered(task[r])
    /\ Finish(r, CASE handler[r] = "cancelled" -> "cancelled"
                   [] handler[r] = "raised"    -> "internal"
                   [] handler[r] = "returned"  ->
                        IF params[task[r]].fault = "proof" THEN "proof" ELSE "result")
    /\ UNCHANGED <<params, inbox, task, handler, ctx, pending_input, input_seq,
                   cancels, started, cancel_seen>>

--------------------------------------------------------------------------------
(* acmp/cancel and acmp/inputChunk *)

\* Fault: the handler is only told, not stopped.
CancelledTold(r) == handler[r]

\* Task.cancel has no effect on a task that is done.
Cancelled(r) == IF HandlerDone(r) THEN handler[r] ELSE "cancelling"

HandleCancel(t) ==
    /\ cancel_seen' = cancel_seen \cup {r \in Requests : task[r] = t /\ InService(r)}
    /\ IF running[t] = None
       THEN UNCHANGED handler
       ELSE handler' = [handler EXCEPT ![running[t]] = Cancelled(running[t])]
    /\ UNCHANGED <<pc, ctx, result_cache, running, pending_input, answer, started>>

HandleInputChunk(t, seq) ==
    /\ IF running[t] = None
       THEN /\ pending_input' = [pending_input EXCEPT ![t] = @ \cup {seq}]
            /\ UNCHANGED ctx
       ELSE /\ ctx' = [ctx EXCEPT ![running[t]] = Feed(ctx[running[t]], {seq})]
            /\ UNCHANGED pending_input
    /\ UNCHANGED <<pc, handler, result_cache, running, answer, started, cancel_seen>>

\* The messages that may be dispatched next: the oldest, or with Reordering a
\* chunk ahead of others or any message ahead of chunks.
Deliverable(i) ==
    \/ i = 1
    \/ /\ Reordering
       /\ \/ inbox[i].kind = "inputChunk"
          \/ \A j \in 1..(i - 1) : inbox[j].kind = "inputChunk"

Dispatch ==
    \E i \in DOMAIN inbox :
      /\ Deliverable(i)
      /\ inbox' = RemoveAt(inbox, i)
      /\ \/ inbox[i].kind = "invoke" /\ HandleInvoke(inbox[i].id)
         \/ inbox[i].kind = "cancel" /\ HandleCancel(inbox[i].task_id)
         \/ inbox[i].kind = "inputChunk" /\ HandleInputChunk(inbox[i].task_id, inbox[i].seq)
      /\ UNCHANGED <<params, task, input_seq, cancels>>

--------------------------------------------------------------------------------
(* The handlers, the host application's code *)

\* The first step of the handler's task.  A task cancelled before it never runs.
HandlerStarts(r) ==
    /\ handler[r] = "created"
    /\ handler' = [handler EXCEPT ![r] = "working"]
    /\ started' = started \cup {r}
    /\ UNCHANGED <<params, inbox, pc, task, ctx, result_cache, running,
                   pending_input, answer, input_seq, cancels, cancel_seen>>

\* TaskContext.input_chunks yields the next chunk, until the final one.
HandlerTakesChunk(r) ==
    /\ handler[r] = "working"
    /\ ctx[r].taken < ctx[r].expected
    /\ ctx' = [ctx EXCEPT ![r].taken = @ + 1]
    /\ UNCHANGED <<params, inbox, pc, task, handler, result_cache, running,
                   pending_input, answer, input_seq, cancels, started, cancel_seen>>

\* A handler returns or raises when it likes, whatever it read of its input.
HandlerEnds(r) ==
    /\ handler[r] = "working"
    /\ \E end \in {"returned", "raised"} : handler' = [handler EXCEPT ![r] = end]
    /\ UNCHANGED <<params, inbox, pc, task, ctx, result_cache, running,
                   pending_input, answer, input_seq, cancels, started, cancel_seen>>

\* A handler that is interrupted may still end in its own way.
HandlerStops(r) ==
    /\ handler[r] = "cancelling"
    /\ \E end \in {"cancelled"} \cup (IF r \in started THEN {"returned", "raised"} ELSE {}) :
         handler' = [handler EXCEPT ![r] = end]
    /\ UNCHANGED <<params, inbox, pc, task, ctx, result_cache, running,
                   pending_input, answer, input_seq, cancels, started, cancel_seen>>

--------------------------------------------------------------------------------
(* The buyers *)

InFlight(t) == \E r \in Requests : task[r] = t /\ pc[r] \notin {"unsent", "answered"}

SendInvoke(r, t) ==
    /\ pc[r] = "unsent"
    /\ \A q \in 1..(r - 1) : pc[q] # "unsent"
    /\ OverlapRetries \/ ~InFlight(t)
    /\ pc' = [pc EXCEPT ![r] = "sent"]
    /\ task' = [task EXCEPT ![r] = t]
    /\ inbox' = Append(inbox, [kind |-> "invoke", id |-> r])
    /\ UNCHANGED <<params, input_seq, cancels, served>>

SendCancel(t) ==
    /\ cancels[t] < MaxCancels
    /\ cancels' = [cancels EXCEPT ![t] = @ + 1]
    /\ inbox' = Append(inbox, [kind |-> "cancel", task_id |-> t])
    /\ UNCHANGED <<params, pc, task, input_seq, served>>

\* Buyer.send_input_chunk.  A buyer sends the final chunk once and no more after.
SendInputChunk(t) ==
    /\ params[t].input_stream /\ input_seq[t] < InputLength
    /\ input_seq' = [input_seq EXCEPT ![t] = @ + 1]
    /\ inbox' = Append(inbox, [kind |-> "inputChunk", task_id |-> t, seq |-> input_seq[t]])
    /\ UNCHANGED <<params, pc, task, cancels, served>>

--------------------------------------------------------------------------------

Init ==
    /\ params \in [TaskIds -> Params]
    /\ inbox = <<>>
    /\ pc = [r \in Requests |-> "unsent"]
    /\ task = [r \in Requests |-> None]
    /\ handler = [r \in Requests |-> "none"]
    /\ ctx = [r \in Requests |-> NewContext]
    /\ result_cache = [t \in TaskIds |-> None]
    /\ running = [t \in TaskIds |-> None]
    /\ pending_input = [t \in TaskIds |-> {}]
    /\ answer = [r \in Requests |-> None]
    /\ input_seq = [t \in TaskIds |-> 0]
    /\ cancels = [t \in TaskIds |-> 0]
    /\ started = {}
    /\ cancel_seen = {}

Buyers ==
    \/ \E r \in Requests, t \in TaskIds : SendInvoke(r, t)
    \/ \E t \in TaskIds : SendCancel(t) \/ SendInputChunk(t)

Handlers(r) == HandlerStarts(r) \/ HandlerTakesChunk(r) \/ HandlerEnds(r) \/ HandlerStops(r)

Next ==
    \/ Buyers
    \/ Dispatch
    \/ \E r \in Requests, verdict \in {"covered", "refused", "raised"} :
         CoversAnswered(r, verdict)
    \/ \E r \in Requests : Resume(r) \/ Handlers(r)

Spec == Init /\ [][Next]_vars
================================================================================
