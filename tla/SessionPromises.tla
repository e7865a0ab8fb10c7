----------------------------- MODULE SessionPromises ----------------------------
(* What a connection promises the two ends. *)
EXTENDS Session

ChunkMessage == [kind : {"chunk"}, task_id : TaskIds, seq : Nat, final : BOOLEAN]

WireType ==
    /\ profile \in Profiles
    /\ to_provider \in Seq(Message) /\ to_buyer \in Seq(Message)
    /\ link \in {"up", "down"}

BuyerType ==
    /\ reader \in {"reading", "stopped", "ended", "crashed"}
    /\ closing \in BOOLEAN /\ closed \in BOOLEAN
    /\ call \in [TaskIds -> Outcome \cup {"idle", "waiting", "timeout", "closed"}]
    /\ future \in [TaskIds -> Outcome \cup {None, "closed"}]
    /\ pending \in SUBSET TaskIds /\ listeners \in SUBSET TaskIds
    /\ received \in [TaskIds -> Seq(ChunkMessage)]
    /\ input_sent \in SUBSET TaskIds

ProviderType ==
    /\ host_closed \in BOOLEAN
    /\ serving \in {"serving", "draining", "stopped"}
    /\ dispatch \in [TaskIds -> {None, "running", "done"}]
    /\ handler \in [TaskIds -> {None, "working", "cancelling", "output", "no output",
                                "raised", "cancelled"}]
    /\ fed \in SUBSET TaskIds
    /\ out \in [TaskIds -> [seq : 0..MaxChunks, final : BOOLEAN]]
    /\ keepalive \in SUBSET TaskIds
    /\ beats \in 0..MaxBeats

(* Type correctness: every variable of the connection and its ends keeps its
   shape. *)
TypeOK == WireType /\ BuyerType /\ ProviderType

(* on_chunk gets the chunks of its task numbered from 0 without a gap, nothing
   after the final one, and a result that says output_streamed is returned only
   when the final chunk was delivered (Layer 1 s3.5). *)
StreamIsComplete ==
    \A t \in TaskIds :
      /\ \A i \in DOMAIN received[t] :
           /\ received[t][i].seq = i - 1
           /\ received[t][i].final => i = Len(received[t])
      /\ call[t] = "streamed" /\ profile[t].listens =>
           received[t] # <<>> /\ Last(received[t]).final

About(i, t) == to_buyer[i].kind # "closed" /\ to_buyer[i].task_id = t

(* Nothing about a task follows its answer, whatever the order in which its
   handler, its keep-alive loop and a cancel come to their end: no heartbeat
   reports on work that is over. *)
AnswerIsLast ==
    /\ \A i, j \in DOMAIN to_buyer :
         i < j /\ to_buyer[i].kind = "answer" => ~About(j, to_buyer[i].task_id)
    /\ \A t \in TaskIds :
         future[t] \in Outcome => \A i \in DOMAIN to_buyer : ~About(i, t)

(* Buyer.close stops the reader loop and closes the transport (buyer.py:52).  It
   does not after a callback raised. *)
CloseClosesTransport == closing => closed

--------------------------------------------------------------------------------
(* Progress *)

\* Both event loops run what is ready, and a handler that is cancelled stops.
\* That handlers end by themselves, that callbacks do not raise or that anybody
\* calls close is not assumed.
LiveSpec ==
    /\ Spec
    /\ WF_vars(ReaderReads)
    /\ WF_vars(ProviderReads)
    /\ WF_vars(ServeReturns)
    /\ \A t \in TaskIds :
         /\ WF_vars(CallResumes(t))
         /\ WF_vars(Answer(t))
         /\ WF_vars(handler[t] = "cancelling" /\ HandlerEnds(t))

HandlersEnd == \A t \in TaskIds : []<>(handler[t] # "working")

(* A call without a timeout that the reader loop listens for ends when its handler
   does, when the connection breaks or when the provider's end is closed, as long
   as the loop is neither stopped nor crashed by then. *)
CallsEnd ==
    HandlersEnd =>
      \A t \in TaskIds :
        (call[t] = "waiting" /\ reader = "reading")
          ~> (call[t] # "waiting" \/ reader \in {"stopped", "crashed"})

(* A call that timed out stops the work of the provider (buyer.py:115-117), even
   if its handler waits for input, and even when the answer crosses the cancel. *)
TimeoutStopsWork ==
    \A t \in TaskIds :
      call[t] = "timeout" ~> (dispatch[t] = "done" \/ link = "down")

(* serve_forever returns after the buyer closed or the connection broke, once the
   handlers have ended. *)
ServiceEnds ==
    HandlersEnd =>
      (((closing /\ reader # "crashed") \/ link = "down") ~> serving = "stopped")

(* Closing the buyer lets serve_forever return instead of blocking, so that
   callers should await it (buyer.py:54-58), if handlers block on nothing but
   their input.  It is not so for a handler that still waits for its input. *)
CloseLetsServeReturn ==
    (\A t \in TaskIds : []<>(handler[t] # "working" \/ Starving(t)))
      => (closed ~> serving = "stopped")
================================================================================
