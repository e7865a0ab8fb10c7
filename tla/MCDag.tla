--------------------------------- MODULE MCDag ----------------------------------
(* Instances of the DAG orchestrator for TLC: every graph over three tasks, the
   graphs of more than one edge with each edge listed twice, inputs that refer
   along all edges or to one task too many, DAGs that name a task twice or an
   unknown one, and a diamond over four tasks. *)
EXTENDS DagPromises

CONSTANTS a, b, c, d

Three == {a, b, c}
Pairs == Three \X Three

Listed(E) == SelectSeq(<<<<a, a>>, <<a, b>>, <<a, c>>, <<b, a>>, <<b, b>>, <<b, c>>,
                         <<c, a>>, <<c, b>>, <<c, c>>>>, LAMBDA e : e \in E)

Graph(E, refs) == [tasks |-> <<a, b, c>>, edges |-> Listed(E), refs |-> refs]

Twice(E) == [tasks |-> <<c, b, a>>, edges |-> Listed(E) \o Listed(E), refs |-> E]

Diamond == <<<<a, b>>, <<a, c>>, <<b, d>>, <<c, d>>>>

MCDags ==
    {Graph(E, E) : E \in SUBSET Pairs}
      \cup {Graph(E, E \cup {p}) : E \in SUBSET Pairs, p \in Pairs}
      \cup {Twice(E) : E \in {S \in SUBSET Pairs : Cardinality(S) > 1}}
      \cup {[tasks |-> <<a, b, a>>, edges |-> <<>>, refs |-> {}],
            [tasks |-> <<a, b>>, edges |-> <<<<a, c>>>>, refs |-> {}],
            [tasks |-> <<>>, edges |-> <<>>, refs |-> {}],
            [tasks |-> <<a, b, c, d>>, edges |-> Diamond, refs |-> ToSet(Diamond)],
            [tasks |-> <<d, c, b, a>>, edges |-> Append(Diamond, <<d, a>>), refs |-> {}]}
================================================================================
