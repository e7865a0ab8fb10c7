-------------------------------- MODULE Session --------------------------------
(***************************************************************************)
(* One connection between a Buyer (src/src/acmp/buyer.py) and a Provider   *)
(* (src/src/acmp/provider.py) from __aenter__ to the end of serve_forever: *)
(* the buyer's reader loop, its pending futures, timeouts and listeners,   *)
(* the provider's output chunks and heartbeats, and the ways in which the  *)
(* connection ends.                                                        *)
(*                                                                         *)
(* The queues are those of InMemoryTransport, first in first out, with     *)
(* None as the sentinel of closure.  Either end may be closed: the buyer's *)
(* by Buyer.close, the provider's by whoever owns it, since no method of   *)
(* Provider does.  Queues do not break; a WebSocket does, and one that is  *)
(* closed from the provider's side is closed as a whole, which is Drop as  *)
(* well.  Sending does not suspend.                                        *)
(*                                                                         *)
(* Every task is invoked once; retries, cancels that overtake and the      *)
(* reordering of input are the subject of Provider.  An input stream is    *)
(* reduced to its final chunk, which a handler that reads it waits for.    *)
(*                                                                         *)
(* A definition under "Fault:" is no part of the program.  It is a         *)
(* plausible bug of the definition below it, and PROJECT.json names the    *)
(* property that catches the bug when it takes that definition's place.    *)
(***************************************************************************)
EXTENDS Integers, SequencesExt

CONSTANTS
    TaskIds,         \* the tasks the buyer may invoke
    Profiles,        \* what it may ask for, for each task that it invokes
    MaxChunks,       \* bound: output chunks of one handler
    MaxBeats,        \* bound: heartbeats sent
    CallbacksRaise,  \* may on_chunk or on_heartbeat raise?
    Endings          \* how the connection may end, apart from Buyer.close:
                     \* a subset of {"broken", "provider closes"}

VARIABLES
    profile,      \* what the invoke of each task asks for
    to_provider,  \* the queue the provider receives from
    to_buyer,     \* the queue the buyer receives from
    link,         \* whether the connection is whole
    reader,       \* the buyer's reader loop
    closing,      \* whether Buyer.close was called
    closed,       \* _closed of the buyer's endpoint
    host_closed,  \* _closed of the provider's endpoint
    call,         \* the coroutine of each Buyer.invoke
    pending,      \* the tasks with a request in Buyer._pending
    future,       \* what the reader loop set each future to
    listeners,    \* the tasks in Buyer._listeners
    received,     \* history: the chunks each on_chunk got
    input_sent,   \* the tasks whose input the buyer sent
    serving,      \* serve_forever
    dispatch,     \* the _handle_invoke of each task
    handler,      \* the asyncio task of its handler
    fed,          \* the tasks whose handler has its input
    out,          \* the output side of its TaskContext
    keepalive,    \* the tasks with a live _keepalive_loop
    beats         \* the number of heartbeats sent

buyer == <<reader, closing, closed, call, pending, future, listeners, received, input_sent>>
server == <<host_closed, serving, dispatch, handler, fed, out, keepalive, beats>>
vars == <<profile, to_provider, to_buyer, link, buyer, server>>

--------------------------------------------------------------------------------
(* Data *)

None == "none"

\* timed: timeout_ms is set.  listens: on_chunk and on_heartbeat are given.
Profile == [timed : BOOLEAN, listens : BOOLEAN, stream : BOOLEAN,
            input_stream : BOOLEAN, proof : {None, "result-hash", "other"}]

Outcome == {"result", "streamed", "internal", "proof", "cancelled"}

Message ==
    [kind : {"invoke", "input", "cancel", "heartbeat"}, task_id : TaskIds]
      \cup [kind : {"chunk"}, task_id : TaskIds, seq : Nat, final : BOOLEAN]
      \cup [kind : {"answer"}, task_id : TaskIds, outcome : Outcome]
      \cup [kind : {"closed"}]

ASSUME ProfilesAssumption == Profiles \subseteq UNION {[S -> Profile] : S \in SUBSET TaskIds}
ASSUME BoundsAssumption == MaxChunks \in Nat /\ MaxBeats \in Nat
ASSUME SwitchAssumption == CallbacksRaise \in BOOLEAN
ASSUME EndingsAssumption == Endings \subseteq {"broken", "provider closes"}

--------------------------------------------------------------------------------
(* Transport: sending fails once the own endpoint is closed or the link is down *)

BuyerCanSend == link = "up" /\ ~closed
ProviderCanSend == link = "up" /\ ~host_closed

ToProvider(m) == to_provider' = Append(to_provider, m)
ToBuyer(m) == to_buyer' = Append(to_buyer, m)

\* A broken connection: what was under way may be lost, and both ends get to
\* know after what still arrives.
Drop ==
    /\ "broken" \in Endings /\ link = "up" /\ ~host_closed
    /\ link' = "down"
    /\ \E i \in 0..Len(to_provider), j \in 0..Len(to_buyer) :
         /\ to_provider' = Append(SubSeq(to_provider, 1, i), [kind |-> "closed"])
         /\ to_buyer' = Append(SubSeq(to_buyer, 1, j), [kind |-> "closed"])
    /\ UNCHANGED <<profile, buyer, server>>

\* The provider's endpoint is closed: the buyer's reader loop gets to know, and
\* serve_forever, which waits on the other queue, does not.
CloseProviderEnd ==
    /\ "provider closes" \in Endings /\ link = "up" /\ ~host_closed
    /\ host_closed' = TRUE
    /\ ToBuyer([kind |-> "closed"])
    /\ UNCHANGED <<profile, to_provider, link, buyer, serving, dispatch, handler,
                   fed, out, keepalive, beats>>

--------------------------------------------------------------------------------
(* Buyer.invoke and Buyer.request *)

\* Both finally clauses.
EndCall(t, how) ==
    /\ call' = [call EXCEPT ![t] = how]
    /\ pending' = pending \ {t}
    /\ listeners' = listeners \ {t}

Invoke(t) ==
    /\ t \in DOMAIN profile /\ call[t] = "idle"
    /\ IF BuyerCanSend
       THEN /\ call' = [call EXCEPT ![t] = "waiting"]
            /\ pending' = pending \cup {t}
            /\ listeners' = IF profile[t].listens THEN listeners \cup {t} ELSE listeners
            /\ ToProvider([kind |-> "invoke", task_id |-> t])
       ELSE EndCall(t, "closed") /\ UNCHANGED to_provider
    /\ UNCHANGED <<profile, to_buyer, link, reader, closing, closed, future,
                   received, input_sent, server>>

\* The future is done and invoke goes on with what it holds.
CallResumes(t) ==
    /\ call[t] = "waiting" /\ future[t] # None
    /\ EndCall(t, future[t])
    /\ UNCHANGED <<profile, to_provider, to_buyer, link, reader, closing, closed,
                   future, received, input_sent, server>>

\* Fault: the error is passed on before the provider is told.
CallTimesOutSilently(t) ==
    /\ call[t] = "waiting" /\ profile[t].timed
    /\ EndCall(t, "timeout")
    /\ UNCHANGED <<profile, to_provider, to_buyer, link, reader, closing, closed,
                   future, received, input_sent, server>>

\* wait_for gives up, even when the future was resolved in the same turn.
\* invoke tells the provider, and if it cannot it raises that error instead.
CallTimesOut(t) ==
    /\ call[t] = "waiting" /\ profile[t].timed
    /\ IF BuyerCanSend
       THEN EndCall(t, "timeout") /\ ToProvider([kind |-> "cancel", task_id |-> t])
       ELSE EndCall(t, "closed") /\ UNCHANGED to_provider
    /\ UNCHANGED <<profile, to_buyer, link, reader, closing, closed, future,
                   received, input_sent, server>>

\* Buyer.send_input_chunk, the final one.
SendInput(t) ==
    /\ call[t] # "idle" /\ profile[t].input_stream /\ t \notin input_sent
    /\ BuyerCanSend
    /\ input_sent' = input_sent \cup {t}
    /\ ToProvider([kind |-> "input", task_id |-> t])
    /\ UNCHANGED <<profile, to_buyer, link, reader, closing, closed, call, pending,
                   future, listeners, received, server>>

--------------------------------------------------------------------------------
(* Buyer._read_loop *)

\* Fault: the loop ends without failing what is pending.
FailPendingNot == UNCHANGED future

FailPending ==
    future' = [t \in TaskIds |-> IF t \in pending /\ future[t] = None
                                 THEN "closed" ELSE future[t]]

\* A notification is dropped unless somebody listens.  An exception of the
\* callback ends the reader loop, and nothing else.
Notify(m) ==
    LET t == m.task_id IN
    \/ /\ received' = IF t \in listeners /\ m.kind = "chunk"
                      THEN [received EXCEPT ![t] = Append(@, m)] ELSE received
       /\ UNCHANGED reader
    \/ /\ CallbacksRaise /\ t \in listeners
       /\ reader' = "crashed"
       /\ UNCHANGED received

ReaderReads ==
    /\ reader = "reading" /\ to_buyer # <<>>
    /\ to_buyer' = Tail(to_buyer)
    /\ LET m == Head(to_buyer) IN
       \/ /\ m.kind \in {"chunk", "heartbeat"}
          /\ Notify(m)
          /\ UNCHANGED <<pending, future>>
       \/ /\ m.kind = "answer"
          /\ pending' = pending \ {m.task_id}
          /\ future' = IF m.task_id \in pending /\ future[m.task_id] = None
                       THEN [future EXCEPT ![m.task_id] = m.outcome] ELSE future
          /\ UNCHANGED <<reader, received>>
       \/ /\ m.kind = "closed"
          /\ reader' = "ended"
          /\ FailPending
          /\ UNCHANGED <<pending, received>>
    /\ UNCHANGED <<profile, to_provider, link, closing, closed, call, listeners,
                   input_sent, server>>

\* Fault: close stops the reader loop and leaves the transport alone.
CloseReaderOnly ==
    /\ ~closing
    /\ closing' = TRUE
    /\ reader' = IF reader = "reading" THEN "stopped" ELSE reader
    /\ UNCHANGED <<profile, to_provider, to_buyer, link, closed, call, pending,
                   future, listeners, received, input_sent, server>>

\* Buyer.close: the reader loop is cancelled and awaited, then the transport is
\* closed.  If a callback ended the loop, the await raises that exception.
Close ==
    /\ ~closing
    /\ closing' = TRUE
    /\ IF reader = "crashed"
       THEN UNCHANGED <<reader, closed, to_provider>>
       ELSE /\ reader' = IF reader = "reading" THEN "stopped" ELSE reader
            /\ closed' = TRUE
            /\ IF link = "up" THEN ToProvider([kind |-> "closed"])
                              ELSE UNCHANGED to_provider
    /\ UNCHANGED <<profile, to_buyer, link, call, pending, future, listeners,
                   received, input_sent, server>>

--------------------------------------------------------------------------------
(* Provider.serve_forever *)

HandlerDone(t) == handler[t] \in {"output", "no output", "raised", "cancelled"}

\* One message at a time; a dispatch runs up to its first await.
ProviderReads ==
    /\ serving = "serving" /\ to_provider # <<>>
    /\ to_provider' = Tail(to_provider)
    /\ LET m == Head(to_provider)
           t == m.task_id IN
       \/ /\ m.kind = "invoke"
          /\ dispatch' = [dispatch EXCEPT ![t] = "running"]
          /\ handler' = [handler EXCEPT ![t] = "working"]
          /\ keepalive' = keepalive \cup {t}
          /\ UNCHANGED <<serving, fed>>
       \/ /\ m.kind = "input"
          /\ fed' = fed \cup {t}
          /\ UNCHANGED <<serving, dispatch, handler, keepalive>>
       \/ /\ m.kind = "cancel"
          /\ handler' = [handler EXCEPT ![t] =
                           IF dispatch[t] = "running" /\ ~HandlerDone(t)
                           THEN "cancelling" ELSE @]
          /\ UNCHANGED <<serving, dispatch, fed, keepalive>>
       \/ /\ m.kind = "closed"
          /\ serving' = "draining"
          /\ UNCHANGED <<dispatch, handler, fed, keepalive>>
    /\ UNCHANGED <<profile, to_buyer, link, buyer, host_closed, out, beats>>

\* The gather over the dispatches in flight is done.
ServeReturns ==
    /\ serving = "draining"
    /\ \A t \in TaskIds : dispatch[t] # "running"
    /\ serving' = "stopped"
    /\ UNCHANGED <<profile, to_provider, to_buyer, link, buyer, host_closed, dispatch,
                   handler, fed, out, keepalive, beats>>

--------------------------------------------------------------------------------
(* Handlers: TaskContext.emit and the keep-alive loop *)

\* Fault: a chunk that is sent does not count.
NextOutStuck(t, final) == [out EXCEPT ![t].final = final]

NextOut(t, final) == [out EXCEPT ![t].seq = @ + 1, ![t].final = final]

\* emit raises unless the buyer asked for a stream that is not yet final.  It
\* also raises when it cannot send; handlers that raise are HandlerEnds.  One that
\* catches its cancellation may still emit.
Emit(t, final) ==
    /\ handler[t] \in {"working", "cancelling"}
    /\ profile[t].stream /\ ~out[t].final /\ ProviderCanSend
    /\ out[t].seq < MaxChunks
    /\ ToBuyer([kind |-> "chunk", task_id |-> t, seq |-> out[t].seq, final |-> final])
    /\ out' = NextOut(t, final)
    /\ UNCHANGED <<profile, to_provider, link, buyer, host_closed, serving, dispatch,
                   handler, fed, keepalive, beats>>

\* A bare heartbeat, of the loop or of the handler itself.  A loop that cannot
\* send ends.
Heartbeat(t) ==
    /\ t \in keepalive /\ beats < MaxBeats
    /\ beats' = beats + 1
    /\ IF ProviderCanSend
       THEN ToBuyer([kind |-> "heartbeat", task_id |-> t]) /\ UNCHANGED keepalive
       ELSE keepalive' = keepalive \ {t} /\ UNCHANGED to_buyer
    /\ UNCHANGED <<profile, to_provider, link, buyer, host_closed, serving, dispatch,
                   handler, fed, out>>

Starving(t) == handler[t] = "working" /\ profile[t].input_stream /\ t \notin fed

\* A handler that waits for its input ends by a cancel only.
HandlerEnds(t) ==
    /\ \/ handler[t] = "working" /\ ~Starving(t)
       \/ handler[t] = "cancelling"
    /\ \E end \in {"output", "no output", "raised"}
                    \cup (IF handler[t] = "cancelling" THEN {"cancelled"} ELSE {}) :
         handler' = [handler EXCEPT ![t] = end]
    /\ UNCHANGED <<profile, to_provider, to_buyer, link, buyer, host_closed, serving,
                   dispatch, fed, out, keepalive, beats>>

--------------------------------------------------------------------------------
(* The end of _execute and of _handle_invoke *)

\* Fault: a handler that returned nothing is answered with nothing.
VerdictUnset(t) ==
    CASE handler[t] = "cancelled" -> "cancelled"
      [] handler[t] = "raised" -> "internal"
      [] handler[t] = "no output" -> IF out[t].final THEN "streamed" ELSE None
      [] handler[t] = "output" -> IF out[t].seq > 0 THEN "internal" ELSE "result"

Verdict(t) ==
    CASE handler[t] = "cancelled" -> "cancelled"
      [] handler[t] = "raised" -> "internal"
      [] ~HandlerDone(t) -> None
      [] OTHER ->
           IF out[t].final
           THEN IF handler[t] = "output" THEN "internal"
                ELSE IF profile[t].proof # None THEN "proof" ELSE "streamed"
           ELSE IF out[t].seq > 0 \/ handler[t] = "no output" THEN "internal"
                ELSE IF profile[t].proof = "other" THEN "proof" ELSE "result"

\* Fault: the keep-alive loop is left running.
QuietNot(t) == keepalive

Quiet(t) == keepalive \ {t}

\* The keep-alive loop is cancelled and the outcome sent.  If it cannot be sent
\* the dispatch ends with that exception, which nobody looks at.
Answer(t) ==
    /\ dispatch[t] = "running" /\ HandlerDone(t)
    /\ dispatch' = [dispatch EXCEPT ![t] = "done"]
    /\ keepalive' = Quiet(t)
    /\ IF ProviderCanSend
       THEN ToBuyer([kind |-> "answer", task_id |-> t, outcome |-> Verdict(t)])
       ELSE UNCHANGED to_buyer
    /\ UNCHANGED <<profile, to_provider, link, buyer, host_closed, serving, handler,
                   fed, out, beats>>

--------------------------------------------------------------------------------

Init ==
    /\ profile \in Profiles
    /\ to_provider = <<>> /\ to_buyer = <<>>
    /\ link = "up"
    /\ reader = "reading"
    /\ closing = FALSE /\ closed = FALSE /\ host_closed = FALSE
    /\ call = [t \in TaskIds |-> "idle"]
    /\ pending = {} /\ listeners = {} /\ input_sent = {} /\ fed = {} /\ keepalive = {}
    /\ future = [t \in TaskIds |-> None]
    /\ received = [t \in TaskIds |-> <<>>]
    /\ serving = "serving"
    /\ dispatch = [t \in TaskIds |-> None]
    /\ handler = [t \in TaskIds |-> None]
    /\ out = [t \in TaskIds |-> [seq |-> 0, final |-> FALSE]]
    /\ beats = 0

Buyers(t) == Invoke(t) \/ CallResumes(t) \/ CallTimesOut(t) \/ SendInput(t)

Handlers(t) == (\E final \in BOOLEAN : Emit(t, final)) \/ Heartbeat(t) \/ HandlerEnds(t)

Next ==
    \/ Drop
    \/ CloseProviderEnd
    \/ ReaderReads
    \/ Close
    \/ ProviderReads
    \/ ServeReturns
    \/ \E t \in TaskIds : Buyers(t) \/ Handlers(t) \/ Answer(t)

Spec == Init /\ [][Next]_vars
================================================================================
