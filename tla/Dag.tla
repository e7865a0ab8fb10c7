---------------------------------- MODULE Dag ----------------------------------
(***************************************************************************)
(* src/src/acmp/dag.py: a DAG of tasks is validated and then walked by     *)
(* DagOrchestrator.run, which invokes every task whose dependencies are    *)
(* completed, all at once, and stops everything at the first failure.      *)
(*                                                                         *)
(* run and each run_one are coroutines on one event loop.  run is          *)
(* suspended in asyncio.wait and, when it cleans up, in asyncio.gather;    *)
(* run_one while it waits for its answer.  A step of this module is what   *)
(* happens between two of those points.                                    *)
(*                                                                         *)
(* run_one leaves Task.timeout_ms at its default, so each of its invokes   *)
(* has a deadline (30 s, messages.py:74).  There is no clock here: while   *)
(* an invoke waits, its deadline may expire.                               *)
(*                                                                         *)
(* What a task returns matters only as far as a later task can resolve     *)
(* its input from it.  The provider is reduced to what the orchestrator    *)
(* sees of it: it reads one message after the other, works, answers, and   *)
(* stops when it is told to.  The connection stays open while run works.   *)
(*                                                                         *)
(* A definition under "Fault:" is no part of the program.  It is a         *)
(* plausible bug of the definition below it, and PROJECT.json names the    *)
(* property that catches the bug when it takes that definition's place.    *)
(***************************************************************************)
EXTENDS Integers, SequencesExt

CONSTANTS
    TaskIds,      \* the task ids a DAG may name
    Dags,         \* the DAGs a buyer may hand to run
    InterruptAt   \* where run's caller may cancel it: subset of {"running", "stopping"}

VARIABLES
    dag,            \* the DAG given to run
    status,         \* where run is
    pending_deps,   \* for each task the dependencies not yet completed
    scheduled,      \* the tasks that were found ready
    in_flight,      \* the tasks whose handle run has not collected
    completed,      \* the tasks whose result run has
    handle,         \* the asyncio task of each task's run_one
    wire,           \* messages on their way to the provider
    work,           \* what the provider does about each task
    reply,          \* answers on their way to the buyer
    launches,       \* history: how many run_one were started for each task
    cancelled       \* history: how many acmp/cancel run and invoke sent for each task

vars == <<dag, status, pending_deps, scheduled, in_flight, completed, handle,
          wire, work, reply, launches, cancelled>>

provider == <<wire, work, reply>>

--------------------------------------------------------------------------------
(* Data *)

\* refs holds <<u, t>> if the input of t is an InputRef to the output of u.
IsDag(d) ==
    /\ DOMAIN d = {"tasks", "edges", "refs"}
    /\ d.tasks \in Seq(TaskIds)
    /\ d.edges \in Seq(TaskIds \X TaskIds)
    /\ d.refs \subseteq TaskIds \X ToSet(d.tasks)

\* "timeout" and "failed": invoke raised TIMEOUT, or run_one anything else.
HandleState == {"none", "created", "waiting", "cancelling", "ok", "failed", "timeout",
                "cancelled"}

Message == [kind : {"invoke", "cancel"}, task_id : TaskIds]

ASSUME TaskIdsAssumption == IsFiniteSet(TaskIds)
ASSUME DagsAssumption == \A d \in Dags : IsDag(d)
ASSUME InterruptAssumption == InterruptAt \subseteq {"running", "stopping"}

Incoming(d, t) == {u \in TaskIds : <<u, t>> \in ToSet(d.edges)}

\* What F makes of the elements of q, one after the other, beginning with base.
Folded(F, base, q) == FoldLeft(LAMBDA s, x : F[s][x], base, q)

\* The elements of q that are in S, in the order of q.
Among(q, S) ==
    Folded([r \in Seq(ToSet(q)) |->
              [x \in ToSet(q) |-> IF x \in S THEN Append(r, x) ELSE r]], <<>>, q)

\* An edge that is listed twice counts twice.
Outgoing(d, t) == LET from == Among(d.edges, {t} \X TaskIds)
                  IN [i \in DOMAIN from |-> from[i][2]]

--------------------------------------------------------------------------------
(* validate_dag *)

\* Fault: a node that two paths lead to counts as a cycle.
ClosesCycleMet(a, nxt) == nxt \in a.visited

ClosesCycle(a, nxt) == nxt \in a.stack

Search == [visited : SUBSET TaskIds, stack : SUBSET TaskIds, cycle : BOOLEAN]

\* The loop of visit(node) comes to nxt.  A cycle found ends the search.
Meet(visit) ==
    [a \in Search |-> [nxt \in TaskIds |->
       IF a.cycle THEN a
       ELSE IF ClosesCycle(a, nxt) THEN [a EXCEPT !.cycle = TRUE]
       ELSE IF nxt \in a.visited THEN a
       ELSE visit[nxt][a]]]

\* visit(node); visit is the function itself, for the calls that it makes.
Visited(d, visit, node, a) ==
    LET begun == [a EXCEPT !.visited = @ \cup {node}, !.stack = @ \cup {node}]
        met == Folded(Meet(visit), begun, Outgoing(d, node))
    IN [met EXCEPT !.stack = @ \ {node}]

\* The depth-first search, from every task it has not come to yet.
HasCycle(d) ==
    LET visit[node \in TaskIds] == [a \in Search |-> Visited(d, visit, node, a)]
        from == [a \in Search |-> [t \in TaskIds |->
                   IF a.cycle \/ t \in a.visited THEN a ELSE visit[t][a]]]
    IN Folded(from, [visited |-> {}, stack |-> {}, cycle |-> FALSE], d.tasks).cycle

Validated(d) ==
    /\ IsInjective(d.tasks)
    /\ \A e \in ToSet(d.edges) : {e[1], e[2]} \subseteq ToSet(d.tasks)
    /\ ~HasCycle(d)
    /\ \A r \in d.refs : r[1] \in Incoming(d, r[2])

--------------------------------------------------------------------------------
(* DagOrchestrator.run *)

\* Fault: run waits although there is nothing left.
LoopEndless(ready, flight) ==
    /\ status' = "running"
    /\ in_flight' = flight \cup ToSet(ready)
    /\ handle' = [t \in TaskIds |-> IF t \in ToSet(ready) THEN "created" ELSE handle[t]]
    /\ launches' = [t \in TaskIds |->
                      launches[t] + Cardinality({i \in DOMAIN ready : ready[i] = t})]

\* The head of the loop: the ready tasks get a run_one of their own, then run
\* waits for the first handle of flight that is done.
Loop(ready, flight) ==
    /\ status' = IF ready = <<>> /\ flight = {} THEN "returned" ELSE "running"
    /\ in_flight' = flight \cup ToSet(ready)
    /\ handle' = [t \in TaskIds |-> IF t \in ToSet(ready) THEN "created" ELSE handle[t]]
    /\ launches' = [t \in TaskIds |->
                      launches[t] + Cardinality({i \in DOMAIN ready : ready[i] = t})]

\* run up to its first asyncio.wait.
Start ==
    /\ status = "new"
    /\ IF Validated(dag)
       THEN LET roots == Among(dag.tasks, {t \in TaskIds : Incoming(dag, t) = {}}) IN
            /\ pending_deps' = [t \in TaskIds |-> Incoming(dag, t)]
            /\ scheduled' = ToSet(roots)
            /\ Loop(roots, {})
       ELSE /\ status' = "rejected"
            /\ UNCHANGED <<pending_deps, scheduled, in_flight, handle, launches>>
    /\ UNCHANGED <<dag, completed, provider, cancelled>>

\* pending_deps, scheduled and ready while the loop over the results goes on.
Marking == [pending : [TaskIds -> SUBSET TaskIds], scheduled : SUBSET TaskIds,
            ready : Seq(TaskIds)]

\* Fault: a dependent is released as often as an edge leads to it.
IsReleasedUnchecked(m, t) == m.pending[t] = {}

\* Fault: the first dependency completed releases the dependent.
IsReleasedEarly(m, t) == t \notin m.scheduled

IsReleased(m, t) == m.pending[t] = {} /\ t \notin m.scheduled

\* A dependent loses one dependency, and becomes ready with the last.
Release(m, e) ==
    LET lost == [m EXCEPT !.pending[e[2]] = @ \ {e[1]}] IN
    IF IsReleased(lost, e[2])
    THEN [lost EXCEPT !.scheduled = @ \cup {e[2]}, !.ready = Append(@, e[2])]
    ELSE lost

Released(ok) ==
    Folded([m \in Marking |-> [e \in TaskIds \X TaskIds |->
              IF e[1] \in ok THEN Release(m, e) ELSE m]],
           [pending |-> pending_deps, scheduled |-> scheduled, ready |-> <<>>], dag.edges)

\* Fault: the siblings of a failed task go on.
StopNothing(flight) ==
    /\ status' = IF flight = {} THEN "raised" ELSE "stopping"
    /\ UNCHANGED <<handle, launches>>

\* The finally clause up to its gather.  Task.cancel has no effect on a handle
\* that is done, and one that has not begun never will.
Stop(flight) ==
    /\ status' = IF flight = {} THEN "raised" ELSE "stopping"
    /\ handle' = [t \in TaskIds |->
                    IF t \in flight /\ handle[t] \in {"created", "waiting"}
                    THEN "cancelling" ELSE handle[t]]
    /\ UNCHANGED launches

HandleDone(t) == handle[t] \in {"ok", "failed", "timeout", "cancelled"}

Done == {t \in in_flight : HandleDone(t)}

\* asyncio.wait returns every handle done by then.  The results among them
\* count even if one of them failed.
Collect ==
    /\ status = "running"
    /\ \E t \in in_flight : HandleDone(t)
    /\ LET ok == {t \in Done : handle[t] = "ok"}
           rel == Released(ok)
       IN /\ completed' = completed \cup ok
          /\ pending_deps' = rel.pending
          /\ scheduled' = rel.scheduled
          /\ IF ok = Done
             THEN Loop(rel.ready, in_flight \ Done)
             ELSE Stop(in_flight \ Done) /\ in_flight' = in_flight \ Done
    /\ UNCHANGED <<dag, provider, cancelled>>

\* Whoever awaits run cancels it while it waits for answers.
Interrupted ==
    /\ "running" \in InterruptAt /\ status = "running"
    /\ Stop(in_flight)
    /\ UNCHANGED <<dag, pending_deps, scheduled, in_flight, completed, provider, cancelled>>

\* Fault: an error ends the loop over the cancels after the first.
CancelAbandonedFirst ==
    /\ status = "stopping" /\ \A t \in in_flight : HandleDone(t)
    /\ status' = "raised"
    /\ LET first == Among(dag.tasks, in_flight)[1] IN
       /\ wire' = Append(wire, [kind |-> "cancel", task_id |-> first])
       /\ cancelled' = [cancelled EXCEPT ![first] = @ + 1]
    /\ UNCHANGED <<dag, pending_deps, scheduled, in_flight, completed, handle,
                   work, reply, launches>>

\* The gather is over: one acmp/cancel for each abandoned task.
CancelAbandoned ==
    /\ status = "stopping" /\ \A t \in in_flight : HandleDone(t)
    /\ status' = "raised"
    /\ LET left == Among(dag.tasks, in_flight) IN
       wire' = wire \o [i \in DOMAIN left |-> [kind |-> "cancel", task_id |-> left[i]]]
    /\ cancelled' = [t \in TaskIds |-> cancelled[t] + IF t \in in_flight THEN 1 ELSE 0]
    /\ UNCHANGED <<dag, pending_deps, scheduled, in_flight, completed, handle,
                   work, reply, launches>>

\* The gather itself is cancelled: it still waits for the handles, but then it
\* raises, and the loop below it that sends the cancels is not reached.
InterruptedCleanup ==
    /\ "stopping" \in InterruptAt /\ status = "stopping"
    /\ status' = "unwinding"
    /\ UNCHANGED <<dag, pending_deps, scheduled, in_flight, completed, handle,
                   provider, launches, cancelled>>

Unwind ==
    /\ status = "unwinding" /\ \A t \in in_flight : HandleDone(t)
    /\ status' = "cut_short"
    /\ UNCHANGED <<dag, pending_deps, scheduled, in_flight, completed, handle,
                   provider, launches, cancelled>>

--------------------------------------------------------------------------------
(* run_one and Buyer.invoke *)

runState == <<dag, status, pending_deps, scheduled, in_flight, completed,
              launches, cancelled>>

References(t) == {r[1] : r \in {s \in dag.refs : s[2] = t}}

\* resolve_input may raise: a completed task that is missing, or a field that
\* the output of the other task does not have.
ResolutionFails(t) ==
    /\ handle[t] = "created" /\ References(t) # {}
    /\ handle' = [handle EXCEPT ![t] = "failed"]
    /\ UNCHANGED <<runState, provider>>

RunOne(t) ==
    /\ handle[t] = "created" /\ References(t) \subseteq completed
    /\ handle' = [handle EXCEPT ![t] = "waiting"]
    /\ wire' = Append(wire, [kind |-> "invoke", task_id |-> t])
    /\ UNCHANGED <<runState, work, reply>>

\* Fault: the caller learns of the timeout, the provider does not.
TimesOutSilently(t) ==
    /\ handle[t] = "waiting"
    /\ handle' = [handle EXCEPT ![t] = "timeout"]
    /\ UNCHANGED <<runState, provider>>

\* The deadline expires before the answer is there: invoke itself tells the
\* provider to stop, and raises TIMEOUT.
TimesOut(t) ==
    /\ handle[t] = "waiting"
    /\ handle' = [handle EXCEPT ![t] = "timeout"]
    /\ wire' = Append(wire, [kind |-> "cancel", task_id |-> t])
    /\ cancelled' = [cancelled EXCEPT ![t] = @ + 1]
    /\ UNCHANGED <<dag, status, pending_deps, scheduled, in_flight, completed,
                   work, reply, launches>>

\* The reader loop hands the answer to whoever still waits for it.
Answered(t) ==
    /\ reply[t] # "none"
    /\ reply' = [reply EXCEPT ![t] = "none"]
    /\ handle' = [handle EXCEPT ![t] = IF @ = "waiting" THEN reply[t] ELSE @]
    /\ UNCHANGED <<runState, wire, work>>

HandleStops(t) ==
    /\ handle[t] = "cancelling"
    /\ handle' = [handle EXCEPT ![t] = "cancelled"]
    /\ UNCHANGED <<runState, provider>>

--------------------------------------------------------------------------------
(* The provider: an invoke begins work, a cancel ends it if it is still going on *)

ProviderReads ==
    /\ wire # <<>>
    /\ wire' = Tail(wire)
    /\ LET t == Head(wire).task_id IN
       work' = [work EXCEPT ![t] =
                  IF Head(wire).kind = "invoke" THEN "working"
                  ELSE IF @ = "working" THEN "cancelling" ELSE @]
    /\ UNCHANGED <<runState, handle, reply>>

ProviderEnds(t) ==
    /\ work[t] \in {"working", "cancelling"}
    /\ work' = [work EXCEPT ![t] = "ended"]
    /\ \E outcome \in {"ok", "failed"} : reply' = [reply EXCEPT ![t] = outcome]
    /\ UNCHANGED <<runState, handle, wire>>

--------------------------------------------------------------------------------

Init ==
    /\ dag \in Dags
    /\ status = "new"
    /\ pending_deps = [t \in TaskIds |-> {}]
    /\ scheduled = {} /\ in_flight = {} /\ completed = {}
    /\ handle = [t \in TaskIds |-> "none"]
    /\ wire = <<>>
    /\ work = [t \in TaskIds |-> "none"]
    /\ reply = [t \in TaskIds |-> "none"]
    /\ launches = [t \in TaskIds |-> 0]
    /\ cancelled = [t \in TaskIds |-> 0]

Run == Start \/ Collect \/ CancelAbandoned \/ Unwind

Coroutine(t) == ResolutionFails(t) \/ RunOne(t) \/ HandleStops(t)

Next ==
    \/ Run
    \/ Interrupted
    \/ InterruptedCleanup
    \/ ProviderReads
    \/ \E t \in TaskIds : Coroutine(t) \/ TimesOut(t) \/ Answered(t) \/ ProviderEnds(t)

Spec == Init /\ [][Next]_vars
================================================================================
