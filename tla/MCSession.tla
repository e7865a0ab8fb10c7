------------------------------- MODULE MCSession --------------------------------
(* Instances of a connection for TLC: one task that streams, two that share it. *)
EXTENDS SessionPromises

CONSTANTS t1, t2

Plain == [timed |-> FALSE, listens |-> FALSE, stream |-> FALSE,
          input_stream |-> FALSE, proof |-> None]
Streaming == [Plain EXCEPT !.listens = TRUE, !.stream = TRUE]
Reading == [Plain EXCEPT !.input_stream = TRUE]

Pair(p, q) == [t \in TaskIds |-> IF t = t1 THEN p ELSE q]

\* A timed task with streams both ways that has the connection for itself; a timed
\* dialogue beside a task whose proof is not there.
MCProfiles ==
    {[t \in {t1} |-> [Streaming EXCEPT !.timed = TRUE, !.input_stream = TRUE]],
     Pair([Reading EXCEPT !.timed = TRUE, !.listens = TRUE], [Plain EXCEPT !.proof = "other"])}

MCReading == {Pair(Reading, Plain)}

MCStreaming == {Pair(Streaming, Plain)}
================================================================================
