------------------------------ MODULE DagPromises -------------------------------
(* What DagOrchestrator promises the buyer who hands it a DAG. *)
EXTENDS Dag

Tasks == ToSet(dag.tasks)

(* Type correctness; and run never waits for nothing (asyncio.wait raises on an
   empty set, dag.py:321). *)
TypeOK ==
    /\ IsDag(dag)
    /\ status \in {"new", "rejected", "running", "stopping", "unwinding",
                   "returned", "raised", "cut_short"}
    /\ pending_deps \in [TaskIds -> SUBSET TaskIds]
    /\ scheduled \in SUBSET TaskIds
    /\ in_flight \in SUBSET TaskIds
    /\ completed \in SUBSET TaskIds
    /\ handle \in [TaskIds -> HandleState]
    /\ wire \in Seq(Message)
    /\ work \in [TaskIds -> {"none", "working", "cancelling", "ended"}]
    /\ reply \in [TaskIds -> {"none", "ok", "failed"}]
    /\ launches \in [TaskIds -> Nat]
    /\ cancelled \in [TaskIds -> Nat]
    /\ status \in {"running", "stopping"} => in_flight # {}

--------------------------------------------------------------------------------
(* Validation *)

\* The reference: every non-empty set of tasks has one without an edge into it.
Acyclic(d) ==
    \A S \in SUBSET ToSet(d.tasks) :
      S # {} => \E t \in S : \A e \in ToSet(d.edges) : ~(e[2] = t /\ e[1] \in S)

WellFormed(d) ==
    /\ Cardinality(ToSet(d.tasks)) = Len(d.tasks)
    /\ \A e \in ToSet(d.edges) : {e[1], e[2]} \subseteq ToSet(d.tasks)
    /\ Acyclic(d)
    /\ d.refs \subseteq ToSet(d.edges)

(* validate_dag refuses exactly the DAGs that name a task twice, lead an edge to
   a task that is not there, have a cycle, or refer to an output without an edge
   (Layer 2 s3): neither a diamond nor an edge listed twice is a cycle. *)
RejectsExactlyMalformed ==
    status # "new" => (status = "rejected" <=> ~WellFormed(dag))

--------------------------------------------------------------------------------
(* Scheduling *)

(* No task is started before all of its dependencies are completed, so that
   resolve_input finds every output it refers to. *)
DependenciesFirst ==
    \A t \in TaskIds : handle[t] # "none" =>
      Incoming(dag, t) \cup References(t) \subseteq completed

(* However many edges lead to a task and in whatever batches its dependencies
   complete, it is invoked at most once, and run returns only with the result of
   every task. *)
RunsEachTaskOnce ==
    /\ \A t \in TaskIds : launches[t] <= 1
    /\ status = "returned" => completed = Tasks

--------------------------------------------------------------------------------
(* Fail-fast *)

Stopped == status \in {"stopping", "unwinding", "raised", "cut_short"}

(* Once run has seen a failure or was cancelled, nothing more is invoked, not
   even a task whose run_one was created but had not begun. *)
NothingInvokedAfterFailure ==
    [][Stopped => \A t \in TaskIds : handle'[t] = "waiting" => handle[t] = "waiting"]_vars

\* run tells the provider of each task in in_flight, which it did not collect, and
\* invoke of each task whose deadline expired: of one that is both, two cancels.
CancelsAreSent ==
    \A t \in TaskIds :
      cancelled[t] = (IF t \in in_flight THEN 1 ELSE 0) + (IF handle[t] = "timeout" THEN 1 ELSE 0)

(* When run raises, none of its invokes still waits, and if its cleanup was not
   cut short acmp/cancel was sent for each task whose answer it did not collect
   (DagOrchestrator, dag.py:270-277), once more for each task that timed out
   (Buyer.invoke, buyer.py:131-133), and for no other. *)
AbandonedAreCancelled ==
    /\ status = "raised" => CancelsAreSent
    /\ status \in {"raised", "cut_short"} =>
         \A t \in TaskIds : handle[t] \notin {"created", "waiting", "cancelling"}

--------------------------------------------------------------------------------
(* Progress *)

\* The event loop runs what is ready, the connection delivers, and the provider
\* obeys a cancel.  Neither that its handlers end by themselves nor that a deadline
\* expires is assumed.
LiveSpec ==
    /\ Spec
    /\ WF_vars(Run)
    /\ WF_vars(ProviderReads)
    /\ \A t \in TaskIds :
         /\ WF_vars(Coroutine(t))
         /\ WF_vars(Answered(t))
         /\ WF_vars(work[t] = "cancelling" /\ ProviderEnds(t))

Ended == status \in {"rejected", "returned", "raised", "cut_short"}

(* If every invoke ends some day, by its answer or its deadline, so does run: no
   task is forgotten.  After the first failure or timeout it ends without waiting
   for the other answers, and raises. *)
RunEnds ==
    /\ (\A t \in TaskIds : []<>(handle[t] # "waiting")) => <>Ended
    /\ \A t \in TaskIds : handle[t] \in {"failed", "timeout"} ~> status \in {"raised", "cut_short"}

(* After a failure no provider goes on working for the DAG, not even on a task
   that failed by its deadline (Layer 1 s3.7), if the cleanup was not cut short. *)
NoWorkLeftBehind ==
    (status = "raised") ~> (\A t \in TaskIds : work[t] \in {"none", "ended"})
================================================================================
