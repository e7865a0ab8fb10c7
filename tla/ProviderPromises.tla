--------------------------- MODULE ProviderPromises ----------------------------
(* What the invoke side of the provider promises its buyers. *)
EXTENDS Provider

(* Type correctness: every variable of the provider and its buyers keeps its
   shape; in particular a context never expects a chunk beyond the final one. *)
TypeOK ==
    /\ params \in [TaskIds -> Params]
    /\ inbox \in Seq(Message)
    /\ pc \in [Requests -> {"unsent", "sent", "covers", "running", "answered"}]
    /\ task \in [Requests -> TaskIds \cup {None}]
    /\ handler \in [Requests -> HandlerState]
    /\ ctx \in [Requests -> TaskContext]
    /\ result_cache \in [TaskIds -> Outcome \cup {None}]
    /\ running \in [TaskIds -> Requests \cup {None}]
    /\ pending_input \in [TaskIds -> SUBSET Seqs]
    /\ answer \in [Requests -> Outcome \cup {None}]
    /\ input_seq \in [TaskIds -> 0..InputLength]
    /\ cancels \in [TaskIds -> 0..MaxCancels]
    /\ started \in SUBSET Requests
    /\ cancel_seen \in SUBSET Requests

(* Idempotency (README.md:117-119, test_l1_transaction.py:114): however often an
   invoke is sent again, whatever became of the first one, the handler's code
   runs at most once for a task id.  With OverlapRetries this is not so. *)
OneExecutionPerTask ==
    \A q, r \in started : task[q] = task[r] => q = r

(* Every request for a task is answered with the same outcome, errors and
   cancellations included: the cache of _handle_invoke holds what was sent. *)
AnswersAgree ==
    \A q, r \in Requests :
      task[q] = task[r] /\ pc[q] = "answered" /\ pc[r] = "answered"
        => answer[q] = answer[r]

ChunksInFlight(t) ==
    {inbox[i].seq : i \in {j \in DOMAIN inbox :
                             inbox[j].kind = "inputChunk" /\ inbox[j].task_id = t}}

ChunksReached(r) == ctx[r].buffer \cup 0..(ctx[r].expected - 1)

(* No chunk of a streamed input is lost between the buyer and the handler,
   whether it comes before, during or after the adoption of the held chunks by
   _execute (provider.py:369): until the task is answered each chunk sent is in
   flight, held for the task or in the context of its handler; none stays held
   beside a running handler; a handler took only what was released to it, and
   what was released is a prefix of what was sent. *)
NoChunkLost ==
    \A t \in TaskIds :
      /\ running[t] = None /\ result_cache[t] = None =>
           0..(input_seq[t] - 1) = ChunksInFlight(t) \cup pending_input[t]
      /\ running[t] # None =>
           LET r == running[t] IN
           /\ pending_input[t] = {}
           /\ 0..(input_seq[t] - 1) = ChunksInFlight(t) \cup ChunksReached(r)
           /\ ctx[r].taken <= ctx[r].expected

--------------------------------------------------------------------------------
(* A cancel that comes while a task is in service keeps its handler from
   starting: by the comment on provider.py:460 only the cancel of an unknown or
   finished task has no effect.  It is not so for a task that waits for the
   escrow agent. *)
CancelPreventsStart ==
    [][\A r \in cancel_seen : r \in started' => r \in started]_vars

--------------------------------------------------------------------------------
(* Progress *)

HasAllInput(r) ==
    /\ handler[r] = "working"
    /\ params[task[r]].input_stream => ctx[r].taken = InputLength

\* The event loop runs every dispatch, handler and continuation that is ready;
\* the escrow agent answers; a handler that has all its input ends some time,
\* and one that was cancelled stops.  Buyers owe nothing, not even the chunks.
LiveSpec ==
    /\ Spec
    /\ WF_vars(Dispatch)
    /\ \A r \in Requests :
         /\ WF_vars(\E verdict \in {"covered", "refused", "raised"} : CoversAnswered(r, verdict))
         /\ WF_vars(Resume(r))
         /\ WF_vars(HandlerStarts(r))
         /\ WF_vars(HandlerTakesChunk(r))
         /\ WF_vars(HandlerStops(r))
         /\ WF_vars(HasAllInput(r) /\ HandlerEnds(r))

AllInputSent(t) == params[t].input_stream => input_seq[t] = InputLength

(* An invoke is answered once its buyer has sent all of its input, in whatever
   order the chunks and the invoke itself arrive (acmp/invoke, Layer 1 s3.4):
   a handler that waits for its next chunk is not left waiting for ever. *)
InvokeAnswered ==
    \A r \in Requests :
      (pc[r] # "unsent" /\ AllInputSent(task[r])) ~> (pc[r] = "answered")

CancelInFlight(t) ==
    \E i \in DOMAIN inbox : inbox[i].kind = "cancel" /\ inbox[i].task_id = t

(* A cancel on its way to a running handler ends its invoke, even one whose
   handler waits for input that never comes (Layer 1 s3.7). *)
CancelEndsInvoke ==
    \A r \in Requests :
      (pc[r] = "running" /\ CancelInFlight(task[r])) ~> (pc[r] = "answered")
================================================================================
