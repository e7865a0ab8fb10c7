------------------------------- MODULE DagProofs --------------------------------
(***************************************************************************)
(* Proofs about the DAG orchestrator, for every finite set of task ids and *)
(* every set of DAGs: validate_dag finds the cycles and nothing else, run  *)
(* walks a DAG in the order of its edges and stops cleanly.                *)
(*                                                                         *)
(* Two recursions have to be solved before anything can be said of them:   *)
(* the fold along a sequence, and the depth-first search, which calls      *)
(* itself.  For each there is a lemma that a solution exists, and then     *)
(* what the solution computes is an induction over its steps.              *)
(***************************************************************************)
EXTENDS DagPromises, SetInduction, SequenceTheorems

--------------------------------------------------------------------------------
(* Folds along a sequence *)

\* g[s] is what F makes of base along the elements of q whose positions are in s.
Unfolds(F, base, q, D, g) ==
    g = [s \in D |-> IF s = {} THEN base ELSE F[g[s \ {Max(s)}]][q[Max(s)]]]

\* Max picks a largest element of what is not empty.
LEMMA MaxIs ==
    ASSUME NEW n \in Nat, NEW s \in SUBSET (1..n), s # {}
    PROVE  Max(s) \in s /\ \A x \in s : x <= Max(s)
<1> DEFINE over == {m \in Nat : \A x \in s : x <= m}
<1>1. over \in SUBSET Nat /\ n \in over
  OBVIOUS
<1>2. PICK m \in over : \A k \in over : m <= k
  BY <1>1, LeastNatural
<1>3. m \in s
  <2>1. SUFFICES ASSUME m \notin s PROVE FALSE
    OBVIOUS
  <2>2. PICK x \in s : TRUE
    OBVIOUS
  <2>3. m \in Nat /\ x \in Nat /\ x >= 1 /\ x <= m
    OBVIOUS
  <2>4. \A y \in s : y <= m - 1
    BY <2>1, <2>3
  <2>5. m - 1 \in over
    BY <2>3, <2>4
  <2> QED BY <1>2, <2>3, <2>5
<1>4. \A x \in s : m >= x
  OBVIOUS
<1>5. \E x \in s : \A y \in s : x >= y
  BY <1>3, <1>4
<1>6. Max(s) \in s /\ \A y \in s : Max(s) >= y
  BY <1>5 DEF Max
<1> QED BY <1>6

\* The positions of a sequence, or any other finite set of which Max picks an element.
HaveMax(D) == IsFiniteSet(D) /\ \A s \in SUBSET D : s # {} => Max(s) \in s

\* A fold over the positions of a sequence exists: one more position at a time.
LEMMA Unfoldable ==
    ASSUME NEW F, NEW base, NEW D, NEW q, HaveMax(D)
    PROVE  \E g : Unfolds(F, base, q, SUBSET D, g)
<1> DEFINE Solved(n) == \E g : Unfolds(F, base, q, UpTo(D, n), g)
           unsolved == {n \in Nat : ~Solved(n)}
<1>0. IsFiniteSet(D)
  BY DEF HaveMax
<1>1. unsolved = {}
  <2>1. SUFFICES ASSUME unsolved # {} PROVE FALSE
    OBVIOUS
  <2>2. PICK n \in unsolved : \A m \in unsolved : n <= m
    BY <2>1, LeastNatural
  <2>3. n \in Nat /\ ~Solved(n)
    OBVIOUS
  <2>4. CASE n = 0
    <3> DEFINE g == [s \in UpTo(D, n) |-> base]
    <3>1. \A s \in UpTo(D, n) : s = {}
      BY <1>0, <2>4, WithoutElement DEF UpTo
    <3>2. Unfolds(F, base, q, UpTo(D, n), g)
      BY <3>1 DEF Unfolds
    <3> QED BY <2>3, <3>2
  <2>5. CASE n # 0
    <3>1. n - 1 \in Nat /\ Solved(n - 1)
      BY <2>2, <2>3, <2>5
    <3>2. PICK h : Unfolds(F, base, q, UpTo(D, n - 1), h)
      BY <3>1
    <3> DEFINE Rest(s) == s \ {Max(s)}
               g == [s \in UpTo(D, n) |->
                       IF s = {} THEN base ELSE F[h[Rest(s)]][q[Max(s)]]]
    <3>3. ASSUME NEW s \in UpTo(D, n), s # {}
          PROVE  Rest(s) \in UpTo(D, n - 1) /\ Rest(s) \in UpTo(D, n)
      <4>1. s \in SUBSET D /\ Cardinality(s) <= n
        BY DEF UpTo
      <4>2. Max(s) \in s
        BY <4>1, <3>3 DEF HaveMax
      <4>3. Rest(s) \in SUBSET D /\ Cardinality(Rest(s)) = Cardinality(s) - 1
            /\ Cardinality(s) \in Nat
        BY <1>0, <4>1, <4>2, WithoutElement
      <4>4. Cardinality(Rest(s)) <= n - 1 /\ Cardinality(Rest(s)) <= n
        BY <2>3, <4>1, <4>3
      <4> QED BY <4>3, <4>4 DEF UpTo
    <3>4. ASSUME NEW s \in UpTo(D, n), s # {}
          PROVE  g[Rest(s)] = h[Rest(s)]
      <4> DEFINE t == Rest(s)
      <4>1. t \in UpTo(D, n - 1) /\ t \in UpTo(D, n)
        BY <3>3, <3>4
      <4> HIDE DEF t
      <4>2. h[t] = IF t = {} THEN base ELSE F[h[Rest(t)]][q[Max(t)]]
        BY <3>2, <4>1 DEF Unfolds
      <4>3. g[t] = IF t = {} THEN base ELSE F[h[Rest(t)]][q[Max(t)]]
        BY <4>1
      <4>4. g[t] = h[t]
        BY <4>2, <4>3
      <4> QED BY <4>4 DEF t
    <3>5. Unfolds(F, base, q, UpTo(D, n), g)
      <4>1. ASSUME NEW s \in UpTo(D, n), s # {}
            PROVE  g[s] = F[g[s \ {Max(s)}]][q[Max(s)]]
        BY <3>4, <4>1
      <4>2. \A s \in UpTo(D, n) : s = {} => g[s] = base
        OBVIOUS
      <4>3. \A s \in UpTo(D, n) : g[s] = IF s = {} THEN base ELSE F[g[s \ {Max(s)}]][q[Max(s)]]
        BY <4>1, <4>2
      <4>4. g = [s \in UpTo(D, n) |-> g[s]]
        OBVIOUS
      <4> HIDE DEF g
      <4> QED BY <4>3, <4>4 DEF Unfolds
    <3> HIDE DEF g
    <3> QED BY <2>3, <3>5
  <2> QED BY <2>4, <2>5
<1>2. Cardinality(D) \in Nat /\ UpTo(D, Cardinality(D)) = SUBSET D
  BY <1>0, WithoutElement DEF UpTo
<1>3. Solved(Cardinality(D))
  BY <1>1, <1>2
<1> QED BY <1>2, <1>3

\* v holds what F has made of base before the first element of q and after each.
Course(F, base, q, v) ==
    /\ v[0] = base
    /\ \A i \in 1..Len(q) : v[i] = F[v[i - 1]][q[i]]
    /\ v[Len(q)] = Folded(F, base, q)

\* Every fold has a course, from base to what it comes to.
LEMMA FoldSteps ==
    ASSUME NEW X, NEW q \in Seq(X), NEW F, NEW base
    PROVE  \E v : Course(F, base, q, v)
<1> DEFINE n == Len(q)
           D == DOMAIN q
           g == CHOOSE g : Unfolds(F, base, q, SUBSET D, g)
<1>0. n \in Nat /\ D = 1..n
  OBVIOUS
<1>1. Unfolds(F, base, q, SUBSET D, g)
  <2>1. IsFiniteSet(D)
    BY <1>0, FS_Interval
  <2>2. \A s \in SUBSET D : s # {} => Max(s) \in s
    BY <1>0, MaxIs
  <2>3. HaveMax(D)
    BY <2>1, <2>2 DEF HaveMax
  <2> HIDE DEF D
  <2>4. \E h : Unfolds(F, base, q, SUBSET D, h)
    BY <2>3, Unfoldable
  <2> QED BY <2>4
<1>2. Folded(F, base, q) = g[D]
  BY Zenon DEF Folded, FoldLeft, MapThenFoldSet, Unfolds
<1> HIDE DEF g
<1>3. \A s \in SUBSET D : g[s] = IF s = {} THEN base ELSE F[g[s \ {Max(s)}]][q[Max(s)]]
  BY <1>1 DEF Unfolds
<1> DEFINE v == [i \in 0..n |-> g[1..i]]
<1>4. v[0] = base
  <2>1. 1..0 = {} /\ 0 \in 0..n
    BY <1>0
  <2> QED BY <1>3, <2>1
<1>5. ASSUME NEW i \in 1..n PROVE v[i] = F[v[i - 1]][q[i]]
  <2>0. i \in Nat /\ 1 <= i /\ i <= n /\ i \in 0..n /\ i - 1 \in 0..n
    BY <1>0
  <2>1. 1..i \in SUBSET D /\ 1..i # {} /\ i \in 1..i
    <3> HIDE DEF D, n
    <3>1. 1..i \in SUBSET (1..n)
      BY <1>0, <2>0
    <3>2. i \in 1..i
      BY <2>0
    <3> QED BY <1>0, <3>1, <3>2
  <2>2. Max(1..i) \in 1..i /\ i <= Max(1..i)
    BY <2>0, <2>1, MaxIs
  <2>3. Max(1..i) = i
    BY <2>0, <2>2
  <2>4. (1..i) \ {i} = 1..(i - 1)
    BY <2>0
  <2>5. g[1..i] = F[g[1..(i - 1)]][q[i]]
    BY <1>3, <2>1, <2>3, <2>4
  <2> QED BY <2>0, <2>5
<1>6. v[n] = Folded(F, base, q)
  BY <1>0, <1>2
<1> HIDE DEF v
<1>7. Course(F, base, q, v)
  BY <1>4, <1>5, <1>6 DEF Course
<1> QED BY <1>7

\* What holds before the first step and survives each step holds after the last.
LEMMA CountingUp ==
    ASSUME NEW n \in Nat, NEW good \in SUBSET (0..n), 0 \in good,
           \A i \in 1..n : i - 1 \in good => i \in good
    PROVE  good = 0..n
<1> DEFINE bad == (0..n) \ good
<1>1. SUFFICES ASSUME bad # {} PROVE FALSE
  OBVIOUS
<1>0. bad \in SUBSET Nat
  OBVIOUS
<1>2. PICK i \in bad : \A j \in bad : i <= j
  BY <1>0, <1>1, LeastNatural
<1>3. i \in 1..n /\ i - 1 \in 0..n /\ i - 1 \notin bad
  BY <1>2
<1> QED BY <1>2, <1>3

\* What a fold comes to is a value that its steps do not leave.
LEMMA FoldType ==
    ASSUME NEW X, NEW q \in Seq(X), NEW St, NEW F \in [St -> [X -> St]], NEW base \in St,
           NEW v, Course(F, base, q, v)
    PROVE  \A i \in 0..Len(q) : v[i] \in St
<1> DEFINE n == Len(q)
           good == {i \in 0..n : v[i] \in St}
<1>1. n \in Nat /\ \A i \in 1..n : q[i] \in X
  OBVIOUS
<1>2. 0 \in good
  BY <1>1 DEF Course
<1>3. ASSUME NEW i \in 1..n, i - 1 \in good PROVE i \in good
  <2>1. v[i - 1] \in St /\ q[i] \in X
    BY <1>1, <1>3
  <2>2. v[i] = F[v[i - 1]][q[i]]
    BY DEF Course
  <2>3. F[v[i - 1]] \in [X -> St]
    BY <2>1
  <2>4. v[i] \in St
    BY <2>1, <2>2, <2>3
  <2>5. i \in 0..n
    BY <1>1
  <2> QED BY <2>4, <2>5
<1>4. good \in SUBSET (0..n)
  OBVIOUS
<1> HIDE DEF good
<1>5. good = 0..n
  BY <1>1, <1>2, <1>3, <1>4, CountingUp
<1> QED BY <1>5 DEF good

--------------------------------------------------------------------------------
(* The elements of a sequence that are in a set *)

\* One more element at the end of a sequence.
LEMMA AppendIs ==
    ASSUME NEW X, NEW w \in Seq(X), NEW x \in X
    PROVE  /\ Append(w, x) \in Seq(X)
           /\ ToSet(Append(w, x)) = ToSet(w) \cup {x}
           /\ IsInjective(w) /\ x \notin ToSet(w) => IsInjective(Append(w, x))
<1> DEFINE n == Len(w)
           a == Append(w, x)
<1>1. n \in Nat /\ DOMAIN w = 1..n
  OBVIOUS
<1>2. a \in Seq(X) /\ Len(a) = n + 1 /\ DOMAIN a = 1..(n + 1)
      /\ a[n + 1] = x /\ \A i \in 1..n : a[i] = w[i]
  BY AppendProperties
<1> HIDE DEF a, n
<1>3. ToSet(a) = ToSet(w) \cup {x}
  <2>1. 1..(n + 1) = (1..n) \cup {n + 1}
    BY <1>1
  <2> QED BY <1>1, <1>2, <2>1 DEF ToSet
<1>4. ASSUME IsInjective(w), x \notin ToSet(w) PROVE IsInjective(a)
  <2>1. \A i, j \in 1..n : a[i] = a[j] => i = j
    BY <1>1, <1>2, <1>4 DEF IsInjective
  <2>2. \A i \in 1..n : a[i] # a[n + 1]
    BY <1>1, <1>2, <1>4 DEF ToSet
  <2>3. \A i \in 1..(n + 1) : i \in 1..n \/ i = n + 1
    BY <1>1
  <2> QED BY <1>2, <2>1, <2>2, <2>3 DEF IsInjective
<1> QED BY <1>2, <1>3, <1>4 DEF a

\* Among leaves out what is not in S, and nothing else; it repeats nothing itself.
LEMMA AmongIs ==
    ASSUME NEW X, NEW q \in Seq(X), NEW S
    PROVE  /\ Among(q, S) \in Seq(ToSet(q))
           /\ ToSet(Among(q, S)) = ToSet(q) \cap S
           /\ IsInjective(q) => IsInjective(Among(q, S))
<1> DEFINE n == Len(q)
           T == ToSet(q)
           F == [r \in Seq(T) |-> [x \in T |-> IF x \in S THEN Append(r, x) ELSE r]]
           Seen(i) == {q[j] : j \in 1..i} \cap S
<1>0. n \in Nat /\ DOMAIN q = 1..n /\ T = {q[j] : j \in 1..n} /\ q \in Seq(T)
  BY DEF ToSet
<1>1. F \in [Seq(T) -> [T -> Seq(T)]] /\ << >> \in Seq(T)
  OBVIOUS
<1>2. Among(q, S) = Folded(F, << >>, q)
  BY DEF Among
<1>3. \A r \in Seq(T), x \in T : F[r][x] = IF x \in S THEN Append(r, x) ELSE r
  OBVIOUS
<1> HIDE DEF F, T
<1>4. PICK v : Course(F, << >>, q, v)
  BY FoldSteps
<1>5. \A i \in 0..n : v[i] \in Seq(T)
  BY <1>0, <1>1, <1>4, FoldType
<1>6. ASSUME NEW i \in 1..n
      PROVE  /\ i \in 0..n /\ i - 1 \in 0..n /\ q[i] \in T /\ v[i - 1] \in Seq(T)
             /\ v[i] = IF q[i] \in S THEN Append(v[i - 1], q[i]) ELSE v[i - 1]
             /\ 1..i = (1..(i - 1)) \cup {i}
  <2>1. i \in 0..n /\ i - 1 \in 0..n /\ q[i] \in T
    BY <1>0
  <2>2. v[i - 1] \in Seq(T)
    BY <1>5, <2>1
  <2>3. v[i] = F[v[i - 1]][q[i]]
    BY <1>4 DEF Course
  <2>4. 1..i = (1..(i - 1)) \cup {i}
    BY <1>0
  <2> QED BY <1>3, <2>1, <2>2, <2>3, <2>4
<1>7. \A i \in 0..n : ToSet(v[i]) = Seen(i)
  <2> DEFINE good == {i \in 0..n : ToSet(v[i]) = Seen(i)}
  <2>1. 0 \in good
    <3>1. v[0] = << >> /\ 1..0 = {}
      BY <1>4 DEF Course
    <3> QED BY <1>0, <3>1 DEF ToSet
  <2>2. ASSUME NEW i \in 1..n, i - 1 \in good PROVE i \in good
    <3>1. ToSet(v[i - 1]) = Seen(i - 1)
      BY <2>2
    <3>2. Seen(i) = Seen(i - 1) \cup ({q[i]} \cap S)
      BY <1>6
    <3>3. ToSet(Append(v[i - 1], q[i])) = ToSet(v[i - 1]) \cup {q[i]}
      BY <1>6, AppendIs
    <3>4. ToSet(v[i]) = Seen(i)
      <4> HIDE DEF Seen
      <4> QED BY <1>6, <3>1, <3>2, <3>3
    <3> QED BY <1>6, <3>4
  <2>3. good \in SUBSET (0..n)
    OBVIOUS
  <2> HIDE DEF good
  <2>4. good = 0..n
    BY <1>0, <2>1, <2>2, <2>3, CountingUp
  <2> QED BY <2>4 DEF good
<1>8. ASSUME IsInjective(q) PROVE \A i \in 0..n : IsInjective(v[i])
  <2> DEFINE good == {i \in 0..n : IsInjective(v[i])}
  <2>1. 0 \in good
    <3>1. v[0] = << >>
      BY <1>4 DEF Course
    <3> QED BY <1>0, <3>1 DEF IsInjective
  <2>2. ASSUME NEW i \in 1..n, i - 1 \in good PROVE i \in good
    <3>1. IsInjective(v[i - 1]) /\ ToSet(v[i - 1]) = Seen(i - 1)
      BY <1>6, <1>7, <2>2
    <3>2. q[i] \notin Seen(i - 1)
      BY <1>0, <1>8 DEF IsInjective
    <3>3. IsInjective(Append(v[i - 1], q[i]))
      BY <1>6, <3>1, <3>2, AppendIs
    <3>4. IsInjective(v[i])
      BY <1>6, <3>1, <3>3
    <3> QED BY <1>6, <3>4
  <2>3. good \in SUBSET (0..n)
    OBVIOUS
  <2> HIDE DEF good
  <2>4. good = 0..n
    BY <1>0, <2>1, <2>2, <2>3, CountingUp
  <2> QED BY <2>4 DEF good
<1>9. v[n] = Among(q, S) /\ n \in 0..n
  BY <1>0, <1>2, <1>4 DEF Course
<1>10. Seen(n) = T \cap S
  BY <1>0
<1> QED BY <1>5, <1>7, <1>8, <1>9, <1>10 DEF T

--------------------------------------------------------------------------------
(* The depth-first search *)

Successors(d, t) == {u \in TaskIds : <<t, u>> \in ToSet(d.edges)}

\* visit comes to the successors of a task and to no other task.
LEMMA OutgoingIs ==
    ASSUME NEW d, IsDag(d), NEW t \in TaskIds
    PROVE  /\ Outgoing(d, t) \in Seq(TaskIds)
           /\ ToSet(Outgoing(d, t)) = Successors(d, t)
<1> DEFINE q == d.edges
           S == {t} \X TaskIds
           from == Among(q, S)
           out == [i \in DOMAIN from |-> from[i][2]]
<1>1. q \in Seq(TaskIds \X TaskIds)
  BY DEF IsDag
<1>2. from \in Seq(ToSet(q)) /\ ToSet(from) = ToSet(q) \cap S
  <2> HIDE DEF q, S
  <2> QED BY <1>1, AmongIs
<1>3. ToSet(q) \subseteq TaskIds \X TaskIds
  BY <1>1 DEF ToSet
<1>4. DOMAIN from = 1..Len(from) /\ Len(from) \in Nat
      /\ \A i \in DOMAIN from : from[i] \in TaskIds \X TaskIds
  <2> HIDE DEF from, q
  <2> QED BY <1>2, <1>3
<1> HIDE DEF from, q
<1>5. out \in Seq(TaskIds)
  BY <1>4
<1>6. ToSet(out) = {e[2] : e \in ToSet(from)}
  BY DEF ToSet
<1>7. {e[2] : e \in ToSet(q) \cap S} = {u \in TaskIds : <<t, u>> \in ToSet(q)}
  BY <1>3
<1>8. ToSet(out) = Successors(d, t)
  BY <1>2, <1>6, <1>7 DEF Successors, q
<1> QED BY <1>5, <1>8 DEF Outgoing, from, q

\* A search from any node only adds to what was visited, the node at least.
Widens(h) ==
    /\ h \in [TaskIds -> [Search -> Search]]
    /\ \A t \in TaskIds, a \in Search : a.visited \cup {t} \subseteq h[t][a].visited

Begun(t, a) == [a EXCEPT !.visited = @ \cup {t}, !.stack = @ \cup {t}]

\* The four outcomes of one turn of the loop.
LEMMA MeetIs ==
    ASSUME NEW h, NEW a \in Search, NEW x \in TaskIds
    PROVE  Meet(h)[a][x] = IF a.cycle THEN a
                           ELSE IF x \in a.stack THEN [a EXCEPT !.cycle = TRUE]
                           ELSE IF x \in a.visited THEN a
                           ELSE h[x][a]
BY DEF Meet, ClosesCycle

\* A turn of the loop forgets nothing that was visited.
LEMMA MeetType ==
    ASSUME NEW h, Widens(h)
    PROVE  /\ Meet(h) \in [Search -> [TaskIds -> Search]]
           /\ \A a \in Search, x \in TaskIds : a.visited \subseteq Meet(h)[a][x].visited
<1>1. ASSUME NEW a \in Search, NEW x \in TaskIds
      PROVE  Meet(h)[a][x] \in Search /\ a.visited \subseteq Meet(h)[a][x].visited
  <2>1. h[x][a] \in Search /\ a.visited \subseteq h[x][a].visited
    BY DEF Widens
  <2>2. [a EXCEPT !.cycle = TRUE] \in Search /\ [a EXCEPT !.cycle = TRUE].visited = a.visited
    BY DEF Search
  <2>3. Meet(h)[a][x] = IF a.cycle THEN a
                        ELSE IF x \in a.stack THEN [a EXCEPT !.cycle = TRUE]
                        ELSE IF x \in a.visited THEN a
                        ELSE h[x][a]
    BY MeetIs
  <2> QED BY <2>1, <2>2, <2>3
<1>2. Meet(h) \in [Search -> [TaskIds -> Search]]
  <2>1. Meet(h) = [a \in Search |-> [x \in TaskIds |-> Meet(h)[a][x]]]
    BY DEF Meet
  <2> QED BY <1>1, <2>1
<1> QED BY <1>1, <1>2

\* The first line of visit.
LEMMA BegunIs ==
    ASSUME NEW t \in TaskIds, NEW a \in Search
    PROVE  /\ Begun(t, a) \in Search
           /\ Begun(t, a).visited = a.visited \cup {t}
           /\ Begun(t, a).stack = a.stack \cup {t}
           /\ Begun(t, a).cycle = a.cycle
BY DEF Begun, Search

\* What a search of t knows before its first and after each of its successors.
SearchCourse(d, h, t, a, v) == Course(Meet(h), Begun(t, a), Outgoing(d, t), v)

\* The loop of visit has a course.
LEMMA SearchSteps ==
    ASSUME NEW d, IsDag(d), NEW h, NEW t \in TaskIds, NEW a \in Search
    PROVE  \E v : SearchCourse(d, h, t, a, v)
BY OutgoingIs, FoldSteps DEF SearchCourse

\* The search of t is over when its course is.
LEMMA SearchEnds ==
    ASSUME NEW d, NEW h, NEW t, NEW a, NEW v, SearchCourse(d, h, t, a, v)
    PROVE  Visited(d, h, t, a) = [v[Len(Outgoing(d, t))] EXCEPT !.stack = @ \ {t}]
BY DEF SearchCourse, Course, Visited, Begun

\* Along its course a search stays within its type and forgets nothing it visited.
LEMMA SearchType ==
    ASSUME NEW d, IsDag(d), NEW h, Widens(h), NEW t \in TaskIds, NEW a \in Search,
           NEW v, SearchCourse(d, h, t, a, v)
    PROVE  \A i \in 0..Len(Outgoing(d, t)) :
             v[i] \in Search /\ a.visited \cup {t} \subseteq v[i].visited
<1> DEFINE q == Outgoing(d, t)
           n == Len(q)
           F == Meet(h)
           b == Begun(t, a)
<1>1. q \in Seq(TaskIds) /\ n \in Nat /\ \A i \in 1..n : q[i] \in TaskIds
  <2>1. q \in Seq(TaskIds)
    BY OutgoingIs
  <2> HIDE DEF q
  <2> QED BY <2>1
<1>2. F \in [Search -> [TaskIds -> Search]]
      /\ \A c \in Search, x \in TaskIds : c.visited \subseteq F[c][x].visited
  BY MeetType
<1>3. b \in Search /\ b.visited = a.visited \cup {t}
  BY BegunIs
<1>4. Course(F, b, q, v)
  BY DEF SearchCourse
<1> HIDE DEF F, b, q
<1>5. \A i \in 0..n : v[i] \in Search
  BY <1>1, <1>2, <1>3, <1>4, FoldType
<1> DEFINE good == {i \in 0..n : a.visited \cup {t} \subseteq v[i].visited}
<1>6. 0 \in good
  BY <1>1, <1>3, <1>4 DEF Course
<1>7. ASSUME NEW i \in 1..n, i - 1 \in good PROVE i \in good
  <2>1. i \in 0..n /\ i - 1 \in 0..n /\ q[i] \in TaskIds
    BY <1>1
  <2>2. v[i] = F[v[i - 1]][q[i]]
    BY <1>4 DEF Course
  <2>3. v[i - 1].visited \subseteq v[i].visited
    BY <1>2, <1>5, <2>1, <2>2
  <2>4. a.visited \cup {t} \subseteq v[i - 1].visited
    BY <1>7
  <2> QED BY <2>1, <2>3, <2>4
<1>8. good \in SUBSET (0..n)
  OBVIOUS
<1> HIDE DEF good
<1>9. good = 0..n
  BY <1>1, <1>6, <1>7, <1>8, CountingUp
<1> QED BY <1>5, <1>9 DEF good, q

\* So does the search as a whole.
LEMMA VisitedWidens ==
    ASSUME NEW d, IsDag(d), NEW h, Widens(h), NEW t \in TaskIds, NEW a \in Search
    PROVE  /\ Visited(d, h, t, a) \in Search
           /\ a.visited \cup {t} \subseteq Visited(d, h, t, a).visited
<1> DEFINE n == Len(Outgoing(d, t))
<1>1. PICK v : SearchCourse(d, h, t, a, v)
  BY SearchSteps
<1>2. n \in 0..n
  BY OutgoingIs
<1>3. v[n] \in Search /\ a.visited \cup {t} \subseteq v[n].visited
  BY <1>1, <1>2, SearchType
<1>4. Visited(d, h, t, a) = [v[n] EXCEPT !.stack = @ \ {t}]
  BY <1>1, SearchEnds
<1> HIDE DEF n
<1> QED BY <1>3, <1>4 DEF Search

\* A search asks another only about what it has not visited.
LEMMA VisitedAgrees ==
    ASSUME NEW d, IsDag(d), NEW h, Widens(h), NEW t \in TaskIds, NEW a \in Search, NEW g,
           \A x \in TaskIds, b \in Search :
             a.visited \cup {t} \subseteq b.visited /\ x \notin b.visited => g[x][b] = h[x][b]
    PROVE  Visited(d, g, t, a) = Visited(d, h, t, a)
<1> DEFINE q == Outgoing(d, t)
           n == Len(q)
<1>1. q \in Seq(TaskIds)
  BY OutgoingIs
<1> HIDE DEF q
<1>2. n \in Nat /\ n \in 0..n /\ \A i \in 1..n : q[i] \in TaskIds
  BY <1>1
<1>3. PICK v : SearchCourse(d, h, t, a, v)
  BY SearchSteps
<1>4. PICK w : SearchCourse(d, g, t, a, w)
  BY SearchSteps
<1>5. \A i \in 0..n : v[i] \in Search /\ a.visited \cup {t} \subseteq v[i].visited
  BY <1>3, SearchType DEF q
<1> DEFINE good == {i \in 0..n : w[i] = v[i]}
<1>6. 0 \in good
  BY <1>2, <1>3, <1>4 DEF SearchCourse, Course
<1>7. ASSUME NEW i \in 1..n, i - 1 \in good PROVE i \in good
  <2>1. i \in 0..n /\ i - 1 \in 0..n /\ q[i] \in TaskIds
    BY <1>2
  <2>2. w[i] = Meet(g)[w[i - 1]][q[i]] /\ v[i] = Meet(h)[v[i - 1]][q[i]]
    BY <1>3, <1>4 DEF SearchCourse, Course, q
  <2>3. w[i - 1] = v[i - 1]
    BY <1>7
  <2>4. v[i - 1] \in Search /\ a.visited \cup {t} \subseteq v[i - 1].visited
    BY <1>5, <2>1
  <2>5. ASSUME NEW b \in Search, NEW x \in TaskIds, a.visited \cup {t} \subseteq b.visited
        PROVE  Meet(g)[b][x] = Meet(h)[b][x]
    <3>1. Meet(h)[b][x] = IF b.cycle THEN b
                          ELSE IF x \in b.stack THEN [b EXCEPT !.cycle = TRUE]
                          ELSE IF x \in b.visited THEN b
                          ELSE h[x][b]
      BY MeetIs
    <3>2. Meet(g)[b][x] = IF b.cycle THEN b
                          ELSE IF x \in b.stack THEN [b EXCEPT !.cycle = TRUE]
                          ELSE IF x \in b.visited THEN b
                          ELSE g[x][b]
      BY MeetIs
    <3>3. x \notin b.visited => g[x][b] = h[x][b]
      BY <2>5
    <3> QED BY <3>1, <3>2, <3>3
  <2> QED BY <2>1, <2>2, <2>3, <2>4, <2>5
<1>8. good \in SUBSET (0..n)
  OBVIOUS
<1> HIDE DEF good
<1>9. good = 0..n
  BY <1>2, <1>6, <1>7, <1>8, CountingUp
<1>10. w[n] = v[n]
  BY <1>2, <1>9 DEF good
<1>11. Visited(d, h, t, a) = [v[n] EXCEPT !.stack = @ \ {t}]
  BY <1>3, SearchEnds DEF q
<1>12. Visited(d, g, t, a) = [w[n] EXCEPT !.stack = @ \ {t}]
  BY <1>4, SearchEnds DEF q
<1> QED BY <1>10, <1>11, <1>12

\* How many tasks a search from t may still come to.
Ahead(t, a) == TaskIds \ (a.visited \cup {t})
Left(t, a) == Cardinality(Ahead(t, a))

\* Fewer tasks lie ahead of a search than of the one that calls it.
LEMMA LeftShrinks ==
    ASSUME NEW t \in TaskIds, NEW a \in Search, NEW x \in TaskIds, NEW b \in Search,
           a.visited \cup {t} \subseteq b.visited, x \notin b.visited
    PROVE  Left(x, b) < Left(t, a)
<1> DEFINE S == Ahead(t, a)
           s == Ahead(x, b)
<1>1. S \in SUBSET TaskIds /\ x \in S /\ s \subseteq S \ {x}
  BY DEF Ahead
<1> HIDE DEF S, s
<1>2. IsFiniteSet(S) /\ Cardinality(S) \in Nat /\ Cardinality(S \ {x}) = Cardinality(S) - 1
      /\ S \ {x} \in SUBSET TaskIds
  BY <1>1, TaskIdsAssumption, WithoutElement
<1>3. IsFiniteSet(S \ {x})
  BY <1>2, TaskIdsAssumption, WithoutElement
<1>4. Cardinality(s) \in Nat /\ Cardinality(s) <= Cardinality(S \ {x})
  BY <1>1, <1>3, WithoutElement
<1> QED BY <1>2, <1>4 DEF Left, S, s

\* The number of tasks that lie ahead.
LEMMA LeftIs ==
    ASSUME NEW t, NEW a
    PROVE  Left(t, a) \in Nat /\ Left(t, a) <= Cardinality(TaskIds)
<1>1. Ahead(t, a) \in SUBSET TaskIds
  BY DEF Ahead
<1> QED BY <1>1, TaskIdsAssumption, WithoutElement DEF Left

\* h is right about every search that has less than n tasks ahead of it.
RightBelow(d, h, n) ==
    \A t \in TaskIds, a \in Search : Left(t, a) < n => h[t][a] = Visited(d, h, t, a)

IsSearch(d, h) ==
    Widens(h) /\ \A t \in TaskIds, a \in Search : h[t][a] = Visited(d, h, t, a)

\* The recursion of visit has a solution: a search calls only searches with less ahead.
LEMMA SearchExists ==
    ASSUME NEW d, IsDag(d)
    PROVE  \E h : IsSearch(d, h)
<1> DEFINE Solved(n) == \E h : Widens(h) /\ RightBelow(d, h, n)
           unsolved == {n \in Nat : ~Solved(n)}
<1>1. unsolved = {}
  <2>1. SUFFICES ASSUME unsolved # {} PROVE FALSE
    OBVIOUS
  <2>2. PICK n \in unsolved : \A m \in unsolved : n <= m
    BY <2>1, LeastNatural
  <2>3. n \in Nat /\ ~Solved(n)
    OBVIOUS
  <2>4. CASE n = 0
    <3> DEFINE h == [t \in TaskIds |-> [a \in Search |-> Begun(t, a)]]
    <3>1. Widens(h)
      BY BegunIs DEF Widens
    <3>2. RightBelow(d, h, n)
      BY <2>4, LeftIs DEF RightBelow
    <3> QED BY <2>3, <3>1, <3>2
  <2>5. CASE n # 0
    <3>1. n - 1 \in Nat /\ Solved(n - 1)
      BY <2>2, <2>3, <2>5
    <3>2. PICK h : Widens(h) /\ RightBelow(d, h, n - 1)
      BY <3>1
    <3> DEFINE g == [t \in TaskIds |-> [a \in Search |-> Visited(d, h, t, a)]]
    <3>3. Widens(g)
      BY <3>2, VisitedWidens DEF Widens
    <3>4. \A t \in TaskIds, a \in Search : g[t][a] = Visited(d, h, t, a)
      OBVIOUS
    <3> HIDE DEF g
    <3>5. ASSUME NEW t \in TaskIds, NEW a \in Search, Left(t, a) < n
          PROVE  g[t][a] = Visited(d, g, t, a)
      <4>1. ASSUME NEW x \in TaskIds, NEW b \in Search,
                   a.visited \cup {t} \subseteq b.visited, x \notin b.visited
            PROVE  g[x][b] = h[x][b]
        <5>1. Left(x, b) < n - 1
          <6>1. Left(x, b) < Left(t, a)
            BY <4>1, LeftShrinks
          <6> QED BY <2>3, <3>5, <6>1, LeftIs
        <5>2. h[x][b] = Visited(d, h, x, b)
          BY <3>2, <5>1 DEF RightBelow
        <5> QED BY <3>4, <5>2
      <4>2. Visited(d, g, t, a) = Visited(d, h, t, a)
        BY <3>2, <4>1, VisitedAgrees
      <4> QED BY <3>4, <4>2
    <3>6. RightBelow(d, g, n)
      BY <3>5 DEF RightBelow
    <3> QED BY <2>3, <3>3, <3>6
  <2> QED BY <2>4, <2>5
<1> DEFINE N == Cardinality(TaskIds) + 1
<1>2. N \in Nat
  BY TaskIdsAssumption, FS_CardinalityType
<1>3. PICK h : Widens(h) /\ RightBelow(d, h, N)
  BY <1>1, <1>2
<1>4. ASSUME NEW t \in TaskIds, NEW a \in Search PROVE h[t][a] = Visited(d, h, t, a)
  <2>1. Left(t, a) < N
    BY LeftIs, TaskIdsAssumption, FS_CardinalityType
  <2> QED BY <1>3, <2>1 DEF RightBelow
<1> QED BY <1>3, <1>4 DEF IsSearch

From(visit) ==
    [a \in Search |-> [t \in TaskIds |->
       IF a.cycle \/ t \in a.visited THEN a ELSE visit[t][a]]]

Nothing == [visited |-> {}, stack |-> {}, cycle |-> FALSE]

\* The function that HasCycle defines is that search.
LEMMA TheSearch ==
    ASSUME NEW d, IsDag(d)
    PROVE  \E visit : /\ IsSearch(d, visit)
                      /\ HasCycle(d) = Folded(From(visit), Nothing, d.tasks).cycle
<1> DEFINE Is(g) == g = [node \in TaskIds |-> [a \in Search |-> Visited(d, g, node, a)]]
           visit == CHOOSE g : Is(g)
<1>1. PICK h : IsSearch(d, h)
  BY SearchExists
<1>2. Is(h)
  <2>1. h = [node \in TaskIds |-> [a \in Search |-> h[node][a]]]
    BY <1>1 DEF IsSearch, Widens
  <2>2. \A node \in TaskIds, a \in Search : h[node][a] = Visited(d, h, node, a)
    BY <1>1 DEF IsSearch
  <2> QED BY <2>1, <2>2
<1>3. Is(visit)
  BY <1>2
<1>4. HasCycle(d) = Folded(From(visit), Nothing, d.tasks).cycle
  BY DEF HasCycle, From, Nothing
<1> HIDE DEF visit
<1>5. \A t \in TaskIds, a \in Search : visit[t][a] = Visited(d, visit, t, a)
  BY <1>3
<1> DEFINE wrong == {n \in Nat : \E t \in TaskIds, a \in Search :
                                   Left(t, a) = n /\ visit[t][a] # h[t][a]}
<1>6. wrong = {}
  <2>1. SUFFICES ASSUME wrong # {} PROVE FALSE
    OBVIOUS
  <2>2. PICK n \in wrong : \A m \in wrong : n <= m
    BY <2>1, LeastNatural
  <2>3. PICK t \in TaskIds, a \in Search : Left(t, a) = n /\ visit[t][a] # h[t][a]
    OBVIOUS
  <2>4. ASSUME NEW x \in TaskIds, NEW b \in Search,
               a.visited \cup {t} \subseteq b.visited, x \notin b.visited
        PROVE  visit[x][b] = h[x][b]
    <3>1. Left(x, b) < n /\ Left(x, b) \in Nat /\ n \in Nat
      BY <2>3, <2>4, LeftShrinks, LeftIs
    <3>2. Left(x, b) \notin wrong
      BY <2>2, <3>1
    <3> QED BY <3>1, <3>2
  <2>5. Visited(d, visit, t, a) = Visited(d, h, t, a)
    BY <1>1, <2>4, VisitedAgrees DEF IsSearch
  <2>6. visit[t][a] = h[t][a]
    BY <1>1, <1>5, <2>5 DEF IsSearch
  <2> QED BY <2>3, <2>6
<1>7. \A t \in TaskIds, a \in Search : visit[t][a] = h[t][a]
  BY <1>6, LeftIs
<1>8. visit = h
  <2>1. visit = [node \in TaskIds |-> [a \in Search |-> visit[node][a]]]
    BY <1>3, <1>5
  <2>2. h = [node \in TaskIds |-> [a \in Search |-> h[node][a]]]
    BY <1>1 DEF IsSearch, Widens
  <2> QED BY <1>7, <2>1, <2>2
<1> QED BY <1>1, <1>4, <1>8

--------------------------------------------------------------------------------
(* What the search finds *)

\* What a search has visited and left for good.
Finished(a) == a.visited \ a.stack

\* Nothing leads out of what is finished, and there is no cycle in it.
Settled(d, a) ==
    /\ a.stack \subseteq a.visited
    /\ a.visited \subseteq ToSet(d.tasks)
    /\ \A x \in Finished(a) : Successors(d, x) \subseteq Finished(a)
    /\ \A S \in SUBSET Finished(a) :
         S # {} => \E x \in S : \A y \in S : x \notin Successors(d, y)

\* The stack is a path that ends in t.
PathTo(d, t, a) == \A x \in a.stack : \E y \in a.stack \cup {t} : y \in Successors(d, x)

\* Tasks that no walk along the edges leads out of, nor to an end.
Trap(d) ==
    \E S \in SUBSET ToSet(d.tasks) : S # {} /\ \A x \in S : \E y \in S : y \in Successors(d, x)

KnownEdges(d) == \A e \in ToSet(d.edges) : {e[1], e[2]} \subseteq ToSet(d.tasks)

Entered(d, t, a) ==
    /\ t \in ToSet(d.tasks) /\ t \notin a.visited /\ ~a.cycle
    /\ Settled(d, a) /\ PathTo(d, t, a)

\* What a search knows of b, when its stack is to be s.
Knows(d, s, b) ==
    /\ b.cycle => Trap(d)
    /\ ~b.cycle => Settled(d, b) /\ b.stack = s

\* The tasks of a DAG, and the ends of its edges, are task ids.
LEMMA TasksKnown ==
    ASSUME NEW d, IsDag(d), KnownEdges(d)
    PROVE  /\ ToSet(d.tasks) \subseteq TaskIds
           /\ \A t : Successors(d, t) \subseteq ToSet(d.tasks)
<1>1. ToSet(d.tasks) \subseteq TaskIds
  <2> DEFINE q == d.tasks
  <2>1. q \in Seq(TaskIds)
    BY DEF IsDag
  <2> HIDE DEF q
  <2>2. ToSet(q) \subseteq TaskIds
    BY <2>1 DEF ToSet
  <2> QED BY <2>2 DEF q
<1>2. ASSUME NEW t, NEW u \in Successors(d, t) PROVE u \in ToSet(d.tasks)
  <2>1. <<t, u>> \in ToSet(d.edges)
    BY DEF Successors
  <2>2. {<<t, u>>[1], <<t, u>>[2]} \subseteq ToSet(d.tasks)
    BY <2>1 DEF KnownEdges
  <2> QED BY <2>2
<1> QED BY <1>1, <1>2

\* One turn of the loop over the successors of t.
LEMMA MeetFinds ==
    ASSUME NEW d, IsDag(d), KnownEdges(d), NEW h, Widens(h),
           NEW t \in TaskIds, NEW a \in Search, Entered(d, t, a),
           NEW b \in Search, NEW x \in Successors(d, t),
           Knows(d, a.stack \cup {t}, b),
           Entered(d, x, b) => Knows(d, b.stack, h[x][b]) /\ x \in h[x][b].visited
    PROVE  LET r == Meet(h)[b][x] IN
             /\ Knows(d, a.stack \cup {t}, r)
             /\ ~r.cycle => x \in Finished(r) /\ Finished(b) \subseteq Finished(r)
<1> DEFINE r == Meet(h)[b][x]
           s == a.stack \cup {t}
<1>0. x \in TaskIds /\ x \in ToSet(d.tasks) /\ b.visited \subseteq r.visited
  <2>1. x \in TaskIds
    BY DEF Successors
  <2> QED BY <2>1, TasksKnown, MeetType
<1>1. r = IF b.cycle THEN b
          ELSE IF x \in b.stack THEN [b EXCEPT !.cycle = TRUE]
          ELSE IF x \in b.visited THEN b
          ELSE h[x][b]
  <2>1. x \in TaskIds
    BY <1>0
  <2> HIDE DEF s
  <2> QED BY <2>1, MeetIs
<1> HIDE DEF r
<1> SUFFICES /\ Knows(d, s, r)
             /\ ~r.cycle => x \in Finished(r) /\ Finished(b) \subseteq Finished(r)
  BY DEF r
<1>2. CASE b.cycle
  BY <1>1, <1>2 DEF Knows
<1>3. CASE ~b.cycle /\ x \in b.stack
  <2>1. Settled(d, b) /\ b.stack = s
    BY <1>3 DEF Knows
  <2>2. s \in SUBSET ToSet(d.tasks) /\ s # {}
    BY <2>1 DEF Settled
  <2>3. \A z \in s : \E y \in s : y \in Successors(d, z)
    BY <1>3, <2>1 DEF Entered, PathTo
  <2>4. Trap(d)
    BY <2>2, <2>3 DEF Trap
  <2>5. r.cycle
    BY <1>1, <1>3 DEF Search
  <2> QED BY <2>4, <2>5 DEF Knows
<1>4. CASE ~b.cycle /\ x \notin b.stack /\ x \in b.visited
  BY <1>1, <1>4 DEF Knows, Finished
<1>5. CASE ~b.cycle /\ x \notin b.stack /\ x \notin b.visited
  <2>1. Settled(d, b) /\ b.stack = s
    BY <1>5 DEF Knows
  <2>2. PathTo(d, x, b)
    BY <2>1 DEF Entered, PathTo
  <2>3. Entered(d, x, b)
    BY <1>0, <1>5, <2>1, <2>2 DEF Entered
  <2>4. r = h[x][b]
    BY <1>1, <1>5
  <2>5. Knows(d, s, r) /\ x \in r.visited
    BY <2>1, <2>3, <2>4
  <2>6. ~r.cycle => r.stack = s
    BY <2>5 DEF Knows
  <2>7. ~r.cycle => x \in Finished(r) /\ Finished(b) \subseteq Finished(r)
    BY <1>0, <1>5, <2>1, <2>5, <2>6 DEF Finished
  <2> QED BY <2>5, <2>7
<1> QED BY <1>2, <1>3, <1>4, <1>5

\* Before the loop.
LEMMA BegunFinds ==
    ASSUME NEW d, NEW t \in TaskIds, NEW a \in Search, Entered(d, t, a)
    PROVE  Knows(d, a.stack \cup {t}, Begun(t, a))
<1> DEFINE b == Begun(t, a)
<1>1. b.visited = a.visited \cup {t} /\ b.stack = a.stack \cup {t} /\ b.cycle = a.cycle
  BY BegunIs
<1> HIDE DEF b
<1>2. Finished(b) = Finished(a)
  BY <1>1 DEF Finished, Entered, Settled
<1>3. Settled(d, b)
  BY <1>1, <1>2 DEF Entered, Settled
<1> QED BY <1>1, <1>3 DEF Knows, Entered, b

\* After the loop: t is a source of whatever it is in, since it is not finished yet.
LEMMA LeavingFinds ==
    ASSUME NEW d, NEW t \in TaskIds, NEW a \in Search, Entered(d, t, a),
           NEW c \in Search, Knows(d, a.stack \cup {t}, c), t \in c.visited,
           ~c.cycle => Successors(d, t) \subseteq Finished(c),
           NEW r, r = [c EXCEPT !.stack = @ \ {t}]
    PROVE  Knows(d, a.stack, r)
<1>1. r.visited = c.visited /\ r.stack = c.stack \ {t} /\ r.cycle = c.cycle
  BY DEF Search
<1>2. CASE c.cycle
  BY <1>1, <1>2 DEF Knows
<1>3. CASE ~c.cycle
  <2>1. Settled(d, c) /\ c.stack = a.stack \cup {t} /\ Successors(d, t) \subseteq Finished(c)
    BY <1>3 DEF Knows
  <2>2. t \notin a.stack
    BY DEF Entered, Settled
  <2>3. r.stack = a.stack
    BY <1>1, <2>1, <2>2
  <2>4. Finished(r) = Finished(c) \cup {t} /\ t \notin Finished(c)
    BY <1>1, <2>1, <2>2 DEF Finished
  <2>5. \A x \in Finished(r) : Successors(d, x) \subseteq Finished(r)
    BY <2>1, <2>4 DEF Settled
  <2>6. ASSUME NEW S \in SUBSET Finished(r), S # {}
        PROVE  \E x \in S : \A y \in S : x \notin Successors(d, y)
    <3>1. CASE t \in S
      <4>1. \A y \in S : t \notin Successors(d, y)
        BY <2>1, <2>4 DEF Settled
      <4> QED BY <3>1, <4>1
    <3>2. CASE t \notin S
      <4>1. S \in SUBSET Finished(c)
        BY <2>4, <3>2
      <4> QED BY <2>1, <2>6, <4>1 DEF Settled
    <3> QED BY <3>1, <3>2
  <2>7. Settled(d, r)
    BY <1>1, <2>1, <2>5, <2>6 DEF Settled
  <2> QED BY <1>1, <1>3, <2>3, <2>7 DEF Knows
<1> QED BY <1>2, <1>3

VisitFinds(d, h, t, a) == Entered(d, t, a) => Knows(d, a.stack, h[t][a])

\* A search finds what it should if the searches it calls do.
LEMMA VisitStep ==
    ASSUME NEW d, IsDag(d), KnownEdges(d), NEW h, IsSearch(d, h),
           NEW t \in TaskIds, NEW a \in Search,
           \A x \in TaskIds, b \in Search :
             a.visited \cup {t} \subseteq b.visited /\ x \notin b.visited
               => VisitFinds(d, h, x, b)
    PROVE  VisitFinds(d, h, t, a)
<1> SUFFICES ASSUME Entered(d, t, a) PROVE Knows(d, a.stack, h[t][a])
  BY DEF VisitFinds
<1> DEFINE q == Outgoing(d, t)
           n == Len(q)
           s == a.stack \cup {t}
<1>0. Widens(h) /\ h[t][a] = Visited(d, h, t, a)
  BY DEF IsSearch
<1>1. q \in Seq(TaskIds) /\ ToSet(q) = Successors(d, t)
  BY OutgoingIs
<1> HIDE DEF q
<1>2. n \in Nat /\ n \in 0..n /\ DOMAIN q = 1..n /\ \A i \in 1..n : q[i] \in Successors(d, t)
  BY <1>1 DEF ToSet
<1>3. PICK v : SearchCourse(d, h, t, a, v)
  BY SearchSteps
<1>4. \A i \in 0..n : v[i] \in Search /\ a.visited \cup {t} \subseteq v[i].visited
  BY <1>0, <1>3, SearchType DEF q
<1> DEFINE Met(i) == {q[j] : j \in 1..i}
           good == {i \in 0..n : /\ Knows(d, s, v[i])
                                 /\ ~v[i].cycle => Met(i) \subseteq Finished(v[i])}
<1>5. 0 \in good
  <2>1. v[0] = Begun(t, a)
    BY <1>3 DEF SearchCourse, Course
  <2>2. Knows(d, s, v[0])
    BY <2>1, BegunFinds
  <2>3. Met(0) = {} /\ 0 \in 0..n
    BY <1>2
  <2> HIDE DEF Met
  <2> QED BY <2>2, <2>3
<1>6. ASSUME NEW i \in 1..n, i - 1 \in good PROVE i \in good
  <2> DEFINE b == v[i - 1]
             x == q[i]
  <2>1. i \in 0..n /\ i - 1 \in 0..n /\ x \in Successors(d, t) /\ x \in TaskIds
    BY <1>2 DEF Successors
  <2>2. v[i] = Meet(h)[b][x]
    BY <1>3 DEF SearchCourse, Course, q
  <2>3. b \in Search /\ a.visited \cup {t} \subseteq b.visited
    BY <1>4, <2>1
  <2>4. Knows(d, s, b) /\ (~b.cycle => Met(i - 1) \subseteq Finished(b))
    BY <1>6
  <2>5. Met(i) = Met(i - 1) \cup {x}
    <3>1. 1..i = (1..(i - 1)) \cup {i}
      BY <1>2
    <3> QED BY <3>1
  <2>6. v[i].cycle \/ ~b.cycle
    <3> HIDE DEF b, x, Met, good, s
    <3>1. b \in Search /\ x \in TaskIds
      BY <2>1, <2>3
    <3>2. b.cycle => Meet(h)[b][x] = b
      BY <3>1, MeetIs
    <3> QED BY <2>2, <3>2
  <2> HIDE DEF b, x, Met, good
  <2>7. Entered(d, x, b) => Knows(d, b.stack, h[x][b]) /\ x \in h[x][b].visited
    <3> SUFFICES ASSUME Entered(d, x, b)
                 PROVE  Knows(d, b.stack, h[x][b]) /\ x \in h[x][b].visited
      OBVIOUS
    <3>1. x \notin b.visited
      BY DEF Entered
    <3>2. VisitFinds(d, h, x, b)
      BY <2>1, <2>3, <3>1
    <3>3. x \in h[x][b].visited
      BY <1>0, <2>1, <2>3 DEF Widens
    <3> QED BY <3>2, <3>3 DEF VisitFinds
  <2>8. /\ Knows(d, s, Meet(h)[b][x])
        /\ ~Meet(h)[b][x].cycle => x \in Finished(Meet(h)[b][x])
                                   /\ Finished(b) \subseteq Finished(Meet(h)[b][x])
    BY <1>0, <2>1, <2>3, <2>4, <2>7, MeetFinds
  <2>9. ~v[i].cycle => Met(i) \subseteq Finished(v[i])
    BY <2>2, <2>4, <2>5, <2>6, <2>8
  <2> QED BY <2>1, <2>2, <2>8, <2>9 DEF good
<1>7. good \in SUBSET (0..n)
  OBVIOUS
<1> HIDE DEF good
<1>8. good = 0..n
  BY <1>2, <1>5, <1>6, <1>7, CountingUp
<1>9. Knows(d, s, v[n]) /\ (~v[n].cycle => Met(n) \subseteq Finished(v[n]))
  BY <1>2, <1>8 DEF good
<1>10. Met(n) = Successors(d, t)
  BY <1>1, <1>2 DEF ToSet
<1>11. v[n] \in Search /\ t \in v[n].visited
  BY <1>2, <1>4
<1>12. h[t][a] = [v[n] EXCEPT !.stack = @ \ {t}]
  BY <1>0, <1>3, SearchEnds DEF q
<1> HIDE DEF Met, n
<1> QED BY <1>9, <1>10, <1>11, <1>12, LeavingFinds

\* Every search does, again because less lies ahead of those it calls.
LEMMA VisitsFind ==
    ASSUME NEW d, IsDag(d), KnownEdges(d), NEW h, IsSearch(d, h)
    PROVE  \A t \in TaskIds, a \in Search : VisitFinds(d, h, t, a)
<1> DEFINE wrong == {n \in Nat : \E t \in TaskIds, a \in Search :
                                   Left(t, a) = n /\ ~VisitFinds(d, h, t, a)}
<1>1. wrong = {}
  <2>1. SUFFICES ASSUME wrong # {} PROVE FALSE
    OBVIOUS
  <2>2. PICK n \in wrong : \A m \in wrong : n <= m
    BY <2>1, LeastNatural
  <2>3. PICK t \in TaskIds, a \in Search : Left(t, a) = n /\ ~VisitFinds(d, h, t, a)
    OBVIOUS
  <2>4. ASSUME NEW x \in TaskIds, NEW b \in Search,
               a.visited \cup {t} \subseteq b.visited, x \notin b.visited
        PROVE  VisitFinds(d, h, x, b)
    <3>1. Left(x, b) < n /\ Left(x, b) \in Nat /\ n \in Nat
      BY <2>3, <2>4, LeftShrinks, LeftIs
    <3>2. Left(x, b) \notin wrong
      BY <2>2, <3>1
    <3> QED BY <3>1, <3>2
  <2>5. VisitFinds(d, h, t, a)
    BY <2>4, VisitStep
  <2> QED BY <2>3, <2>5
<1> QED BY <1>1, LeftIs

\* The loop over the tasks: what is visited is finished, and every task will be.
LEMMA CycleIsTrap ==
    ASSUME NEW d, IsDag(d), KnownEdges(d)
    PROVE  /\ HasCycle(d) => Trap(d)
           /\ ~HasCycle(d) => Acyclic(d)
<1> DEFINE q == d.tasks
           n == Len(q)
<1>1. PICK h : IsSearch(d, h) /\ HasCycle(d) = Folded(From(h), Nothing, q).cycle
  BY TheSearch
<1>2. q \in Seq(TaskIds)
  BY DEF IsDag
<1> HIDE DEF q
<1>3. n \in Nat /\ n \in 0..n /\ DOMAIN q = 1..n
      /\ \A i \in 1..n : q[i] \in TaskIds /\ q[i] \in ToSet(q)
  BY <1>2 DEF ToSet
<1>4. Widens(h) /\ From(h) \in [Search -> [TaskIds -> Search]] /\ Nothing \in Search
  <2>1. Widens(h)
    BY <1>1 DEF IsSearch
  <2>2. From(h) \in [Search -> [TaskIds -> Search]]
    BY <2>1 DEF Widens, From
  <2> QED BY <2>1, <2>2 DEF Nothing, Search
<1>5. PICK v : Course(From(h), Nothing, q, v)
  BY <1>2, FoldSteps
<1>6. \A i \in 0..n : v[i] \in Search
  BY <1>2, <1>4, <1>5, FoldType
<1> DEFINE Met(i) == {q[j] : j \in 1..i}
           good == {i \in 0..n : /\ Knows(d, {}, v[i])
                                 /\ ~v[i].cycle => Met(i) \subseteq v[i].visited}
<1>7. 0 \in good
  <2>1. v[0] = Nothing
    BY <1>5 DEF Course
  <2>2. Settled(d, v[0])
    BY <2>1 DEF Settled, Nothing, Finished
  <2>3. Knows(d, {}, v[0])
    BY <2>1, <2>2 DEF Knows, Nothing
  <2>4. Met(0) = {} /\ 0 \in 0..n
    BY <1>3
  <2> HIDE DEF Met
  <2> QED BY <2>3, <2>4
<1>8. ASSUME NEW i \in 1..n, i - 1 \in good PROVE i \in good
  <2> DEFINE b == v[i - 1]
             x == q[i]
  <2>1. i \in 0..n /\ i - 1 \in 0..n /\ x \in TaskIds /\ x \in ToSet(q)
    BY <1>3
  <2>2. b \in Search /\ v[i] = From(h)[b][x]
    BY <1>5, <1>6, <2>1 DEF Course
  <2>3. Knows(d, {}, b) /\ (~b.cycle => Met(i - 1) \subseteq b.visited)
    BY <1>8
  <2>4. Met(i) = Met(i - 1) \cup {x}
    <3>1. 1..i = (1..(i - 1)) \cup {i}
      BY <1>3
    <3> QED BY <3>1
  <2> HIDE DEF b, x, Met, good
  <2>5. v[i] = IF b.cycle \/ x \in b.visited THEN b ELSE h[x][b]
    BY <2>1, <2>2 DEF From
  <2>6. CASE b.cycle \/ x \in b.visited
    BY <2>1, <2>3, <2>4, <2>5, <2>6 DEF good
  <2>7. CASE ~b.cycle /\ x \notin b.visited
    <3>1. Settled(d, b) /\ b.stack = {}
      BY <2>3, <2>7 DEF Knows
    <3>2. Entered(d, x, b)
      BY <2>1, <2>7, <3>1 DEF Entered, PathTo, q
    <3>3. VisitFinds(d, h, x, b)
      BY <1>1, <2>1, <2>2, VisitsFind
    <3>4. Knows(d, {}, h[x][b])
      BY <3>1, <3>2, <3>3 DEF VisitFinds
    <3>5. b.visited \cup {x} \subseteq h[x][b].visited
      BY <1>4, <2>1, <2>2 DEF Widens
    <3>6. v[i] = h[x][b]
      BY <2>5, <2>7
    <3> QED BY <2>1, <2>3, <2>4, <2>7, <3>4, <3>5, <3>6 DEF good
  <2> QED BY <2>6, <2>7
<1>9. good \in SUBSET (0..n)
  OBVIOUS
<1> HIDE DEF good
<1>10. good = 0..n
  BY <1>3, <1>7, <1>8, <1>9, CountingUp
<1>11. Knows(d, {}, v[n]) /\ (~v[n].cycle => Met(n) \subseteq v[n].visited)
  BY <1>3, <1>10 DEF good
<1>12. Met(n) = ToSet(d.tasks)
  BY <1>3 DEF ToSet, q
<1>13. HasCycle(d) = v[n].cycle
  BY <1>1, <1>5 DEF Course
<1>14. v[n].cycle \in BOOLEAN
  BY <1>3, <1>6 DEF Search
<1> HIDE DEF Met
<1>15. ASSUME ~v[n].cycle PROVE Acyclic(d)
  <2>1. Settled(d, v[n]) /\ v[n].stack = {}
    BY <1>11, <1>15 DEF Knows
  <2>2. Finished(v[n]) = ToSet(d.tasks)
    BY <1>11, <1>12, <1>15, <2>1 DEF Finished, Settled
  <2>3. ASSUME NEW S \in SUBSET ToSet(d.tasks), S # {}
        PROVE  \E t \in S : \A e \in ToSet(d.edges) : ~(e[2] = t /\ e[1] \in S)
    <3>1. PICK t \in S : \A y \in S : t \notin Successors(d, y)
      BY <2>1, <2>2, <2>3 DEF Settled
    <3>2. ASSUME NEW e \in ToSet(d.edges), e[2] = t, e[1] \in S PROVE FALSE
      <4> DEFINE p == d.edges
      <4>1. p \in Seq(TaskIds \X TaskIds)
        BY DEF IsDag
      <4>2. e \in TaskIds \X TaskIds
        <5> HIDE DEF p
        <5>1. e \in ToSet(p)
          BY <3>2 DEF p
        <5> QED BY <4>1, <5>1 DEF ToSet
      <4>3. e = <<e[1], t>> /\ t \in TaskIds
        BY <3>2, <4>2
      <4>4. t \in Successors(d, e[1])
        BY <4>3 DEF Successors
      <4> QED BY <3>1, <3>2, <4>4
    <3> QED BY <3>2
  <2> QED BY <2>3 DEF Acyclic
<1>16. v[n].cycle => Trap(d)
  BY <1>11 DEF Knows
<1> QED BY <1>13, <1>14, <1>15, <1>16

\* The smallest trap has no source: without one it would still be a trap.
LEMMA TrapIsCycle ==
    ASSUME NEW d, IsDag(d), KnownEdges(d), Trap(d)
    PROVE  ~Acyclic(d)
<1> DEFINE traps == {S \in SUBSET ToSet(d.tasks) :
                       S # {} /\ \A x \in S : \E y \in S : y \in Successors(d, x)}
<1>1. traps # {} /\ traps \in SUBSET (SUBSET TaskIds)
  BY TasksKnown DEF Trap
<1>2. PICK S \in traps : \A x \in S : S \ {x} \notin traps
  <2> HIDE DEF traps
  <2> QED BY <1>1, TaskIdsAssumption, SmallestSet
<1>3. ASSUME NEW t \in S, \A e \in ToSet(d.edges) : ~(e[2] = t /\ e[1] \in S)
      PROVE  FALSE
  <2>1. \A x \in S : t \notin Successors(d, x)
    <3> SUFFICES ASSUME NEW x \in S, t \in Successors(d, x) PROVE FALSE
      OBVIOUS
    <3>1. <<x, t>> \in ToSet(d.edges)
      BY DEF Successors
    <3>2. ~(<<x, t>>[2] = t /\ <<x, t>>[1] \in S)
      BY <1>3, <3>1
    <3> QED BY <3>2
  <2>2. \A x \in S : \E y \in S \ {t} : y \in Successors(d, x)
    BY <2>1
  <2>3. S \ {t} \in traps
    BY <2>2
  <2> QED BY <1>2, <2>3
<1> QED BY <1>2, <1>3 DEF Acyclic

\* A sequence repeats nothing exactly if its elements are as many as its positions.
LEMMA DuplicatesCounted ==
    ASSUME NEW X, NEW q \in Seq(X)
    PROVE  IsInjective(q) <=> Cardinality(ToSet(q)) = Len(q)
<1> DEFINE n == Len(q)
           D == 1..n
           T == ToSet(q)
<1>1. n \in Nat /\ DOMAIN q = D /\ q \in [D -> T] /\ T = {q[i] : i \in D}
  BY DEF ToSet
<1>2. IsFiniteSet(D) /\ Cardinality(D) = n
  BY <1>1, FS_Interval
<1> HIDE DEF D, T
<1>3. q \in Surjection(D, T)
  BY <1>1 DEF Surjection
<1>4. Cardinality(T) = Cardinality(D) <=> q \in Injection(D, T)
  BY <1>2, <1>3, FS_Surjection
<1>5. q \in Injection(D, T) <=> IsInjective(q)
  BY <1>1 DEF Injection
<1> QED BY <1>2, <1>4, <1>5 DEF T

\* validate_dag decides what it is to decide.
LEMMA ValidatedIsWellFormed ==
    ASSUME NEW d, IsDag(d)
    PROVE  Validated(d) <=> WellFormed(d)
<1>1. IsInjective(d.tasks) <=> Cardinality(ToSet(d.tasks)) = Len(d.tasks)
  BY DuplicatesCounted DEF IsDag
<1>2. ASSUME KnownEdges(d) PROVE ~HasCycle(d) <=> Acyclic(d)
  BY <1>2, CycleIsTrap, TrapIsCycle
<1>3. (\A r \in d.refs : r[1] \in Incoming(d, r[2])) <=> d.refs \subseteq ToSet(d.edges)
  <2>1. ASSUME NEW r \in d.refs PROVE r = <<r[1], r[2]>> /\ r[1] \in TaskIds
    BY DEF IsDag
  <2> QED BY <2>1 DEF Incoming
<1> QED BY <1>1, <1>2, <1>3 DEF Validated, WellFormed, KnownEdges

--------------------------------------------------------------------------------
(* The walk *)

\* The tasks that are ready once done are completed.
Runnable(done) == {t \in Tasks : Incoming(dag, t) \subseteq done}

Books ==
    /\ pending_deps = [t \in TaskIds |-> Incoming(dag, t) \ completed]
    /\ scheduled = Runnable(completed)

LaunchedOnce ==
    \A t \in TaskIds : /\ launches[t] \in {0, 1}
                       /\ t \notin scheduled => launches[t] = 0 /\ handle[t] = "none"

\* Nothing that was found ready is forgotten while run goes on.
Going ==
    /\ in_flight \subseteq scheduled /\ completed \subseteq scheduled
    /\ status \in {"running", "returned"} => scheduled = in_flight \cup completed
    /\ status = "returned" => in_flight = {}

Idle ==
    /\ scheduled = {} /\ in_flight = {} /\ completed = {}
    /\ \A t \in TaskIds : launches[t] = 0 /\ handle[t] = "none"

Walk ==
    IF status \in {"new", "rejected"}
    THEN Idle /\ (status = "rejected" => ~Validated(dag))
    ELSE Validated(dag) /\ Books /\ LaunchedOnce /\ Going

WalkInv == TypeOK /\ Walk

\* What the loop over the results leaves when the tasks ok were completed.
ReleasedTo(ok, rel) ==
    /\ rel \in Marking
    /\ rel.pending = [t \in TaskIds |-> Incoming(dag, t) \ (completed \cup ok)]
    /\ rel.scheduled = Runnable(completed \cup ok)
    /\ rel.scheduled = scheduled \cup ToSet(rel.ready)
    /\ scheduled \cap ToSet(rel.ready) = {}
    /\ IsInjective(rel.ready)

\* The two outcomes of one dependency that is completed.
LEMMA ReleaseIs ==
    ASSUME NEW m \in Marking, NEW u \in TaskIds, NEW t \in TaskIds
    PROVE  LET r == Release(m, <<u, t>>)
               free == m.pending[t] \ {u} = {} /\ t \notin m.scheduled IN
             /\ r \in Marking
             /\ r.pending = [m.pending EXCEPT ![t] = @ \ {u}]
             /\ r.scheduled = IF free THEN m.scheduled \cup {t} ELSE m.scheduled
             /\ r.ready = IF free THEN Append(m.ready, t) ELSE m.ready
<1> DEFINE lost == [m EXCEPT !.pending[t] = @ \ {u}]
           r == Release(m, <<u, t>>)
           found == [lost EXCEPT !.scheduled = @ \cup {t}, !.ready = Append(@, t)]
<1>1. /\ m.pending \in [TaskIds -> SUBSET TaskIds] /\ m.scheduled \in SUBSET TaskIds
      /\ m.ready \in Seq(TaskIds)
  BY DEF Marking
<1>2. /\ lost \in Marking /\ lost.scheduled = m.scheduled /\ lost.ready = m.ready
      /\ lost.pending = [m.pending EXCEPT ![t] = @ \ {u}]
  BY <1>1 DEF Marking
<1>3. lost.pending[t] = m.pending[t] \ {u}
  BY <1>1, <1>2
<1>4. Append(m.ready, t) \in Seq(TaskIds)
  BY <1>1
<1>5. r = IF lost.pending[t] = {} /\ t \notin lost.scheduled THEN found ELSE lost
  BY DEF Release, IsReleased
<1> HIDE DEF lost
<1>6. /\ found \in Marking /\ found.pending = lost.pending
      /\ found.scheduled = m.scheduled \cup {t} /\ found.ready = Append(m.ready, t)
  BY <1>1, <1>2, <1>4 DEF Marking
<1> HIDE DEF found, r
<1> QED BY <1>2, <1>3, <1>5, <1>6 DEF r

\* The tasks of ok that an edge among the first i leads from, to t.
Lost(ok, i, t) == {u \in ok : \E j \in 1..i : dag.edges[j] = <<u, t>>}

\* The marking after the first i edges.
Marked(ok, i, m) ==
    /\ m \in Marking
    /\ \A t \in TaskIds : m.pending[t] = pending_deps[t] \ Lost(ok, i, t)
    /\ m.scheduled = scheduled \cup ToSet(m.ready)
    /\ scheduled \cap ToSet(m.ready) = {}
    /\ IsInjective(m.ready)
    /\ \A t \in ToSet(m.ready) : t \in Tasks /\ m.pending[t] = {}
    /\ \A t \in TaskIds : Lost(ok, i, t) # {} /\ m.pending[t] = {} => t \in m.scheduled

\* One turn of the loop over the edges.
LEMMA MarkingStep ==
    ASSUME IsDag(dag), KnownEdges(dag), NEW ok, NEW i \in Nat, 1 <= i, i <= Len(dag.edges),
           NEW m, Marked(ok, i - 1, m), NEW u, NEW t, dag.edges[i] = <<u, t>>, u \in ok
    PROVE  Marked(ok, i, Release(m, <<u, t>>))
<1> DEFINE q == dag.edges
           r == Release(m, <<u, t>>)
           free == m.pending[t] \ {u} = {} /\ t \notin m.scheduled
<1>1. /\ q \in Seq(TaskIds \X TaskIds) /\ i \in DOMAIN q /\ q[i] = <<u, t>>
      /\ 1..i = (1..(i - 1)) \cup {i}
  BY DEF IsDag
<1>2. u \in TaskIds /\ t \in TaskIds /\ <<u, t>> \in ToSet(q)
  <2> HIDE DEF q
  <2>1. q[i] \in TaskIds \X TaskIds /\ q[i] \in ToSet(q)
    BY <1>1 DEF ToSet
  <2> QED BY <1>1, <2>1
<1>3. t \in Tasks
  BY <1>2 DEF KnownEdges, Tasks
<1>4. m \in Marking
  BY DEF Marked
<1>5. /\ r \in Marking
      /\ r.pending = [m.pending EXCEPT ![t] = @ \ {u}]
      /\ r.scheduled = IF free THEN m.scheduled \cup {t} ELSE m.scheduled
      /\ r.ready = IF free THEN Append(m.ready, t) ELSE m.ready
  BY <1>2, <1>4, ReleaseIs
<1>6. \A x \in TaskIds : Lost(ok, i, x) = Lost(ok, i - 1, x) \cup (IF x = t THEN {u} ELSE {})
  <2>1. \A x \in TaskIds, y \in ok : q[i] = <<y, x>> <=> y = u /\ x = t
    BY <1>1
  <2>2. \A x \in TaskIds : \A y \in ok : (\E j \in 1..i : q[j] = <<y, x>>)
                          <=> (\E j \in 1..(i - 1) : q[j] = <<y, x>>) \/ q[i] = <<y, x>>
    BY <1>1
  <2> QED BY <2>1, <2>2 DEF Lost
<1>7. m.pending \in [TaskIds -> SUBSET TaskIds] /\ m.ready \in Seq(TaskIds)
  BY <1>4 DEF Marking
<1> HIDE DEF r
<1>8. ASSUME NEW x \in TaskIds
      PROVE  r.pending[x] = m.pending[x] \ (IF x = t THEN {u} ELSE {})
  BY <1>5, <1>7
<1>9. \A x \in TaskIds : r.pending[x] = pending_deps[x] \ Lost(ok, i, x)
  BY <1>6, <1>8 DEF Marked
<1>10. CASE free
  <2>1. r.ready = Append(m.ready, t) /\ r.scheduled = m.scheduled \cup {t}
    BY <1>5, <1>10
  <2>2. t \notin ToSet(m.ready) /\ t \notin scheduled
    BY <1>10 DEF Marked
  <2>3. ToSet(r.ready) = ToSet(m.ready) \cup {t} /\ IsInjective(r.ready)
    BY <1>2, <1>7, <2>1, <2>2, AppendIs DEF Marked
  <2>4. r.scheduled = scheduled \cup ToSet(r.ready) /\ scheduled \cap ToSet(r.ready) = {}
    BY <2>1, <2>2, <2>3 DEF Marked
  <2>5. \A x \in ToSet(r.ready) : x \in Tasks /\ r.pending[x] = {}
    <3>1. ToSet(m.ready) \subseteq TaskIds
      BY <1>7 DEF ToSet
    <3> QED BY <1>2, <1>3, <1>8, <1>10, <2>3, <3>1 DEF Marked
  <2>6. \A x \in TaskIds : Lost(ok, i, x) # {} /\ r.pending[x] = {} => x \in r.scheduled
    BY <1>6, <1>8, <2>1 DEF Marked
  <2> QED BY <1>5, <1>9, <2>3, <2>4, <2>5, <2>6 DEF Marked, r
<1>11. CASE ~free
  <2>1. r.ready = m.ready /\ r.scheduled = m.scheduled
    BY <1>5, <1>11
  <2>2. \A x \in ToSet(r.ready) : x \in Tasks /\ r.pending[x] = {}
    <3>1. ToSet(m.ready) \subseteq TaskIds
      BY <1>7 DEF ToSet
    <3> QED BY <1>8, <2>1, <3>1 DEF Marked
  <2>3. \A x \in TaskIds : Lost(ok, i, x) # {} /\ r.pending[x] = {} => x \in r.scheduled
    BY <1>6, <1>8, <1>11, <2>1 DEF Marked
  <2>4. /\ r.scheduled = scheduled \cup ToSet(r.ready)
        /\ scheduled \cap ToSet(r.ready) = {} /\ IsInjective(r.ready)
    BY <2>1 DEF Marked
  <2> QED BY <1>5, <1>9, <2>2, <2>3, <2>4 DEF Marked, r
<1> QED BY <1>10, <1>11

\* The loop releases the tasks that have become runnable, each of them once.
LEMMA ReleasedIs ==
    ASSUME IsDag(dag), KnownEdges(dag), Books, completed \subseteq TaskIds, NEW ok \in SUBSET TaskIds
    PROVE  ReleasedTo(ok, Released(ok))
<1> DEFINE q == dag.edges
           n == Len(q)
           Edges == TaskIds \X TaskIds
           F == [m \in Marking |-> [e \in Edges |-> IF e[1] \in ok THEN Release(m, e) ELSE m]]
           base == [pending |-> pending_deps, scheduled |-> scheduled, ready |-> << >>]
           rel == Released(ok)
<1>1. q \in Seq(Edges)
  BY DEF IsDag
<1>2. rel = Folded(F, base, q)
  BY DEF Released
<1>3. Tasks \subseteq TaskIds
  BY TasksKnown DEF Tasks
<1>4. scheduled \in SUBSET TaskIds /\ pending_deps \in [TaskIds -> SUBSET TaskIds]
      /\ \A t \in TaskIds : pending_deps[t] = Incoming(dag, t) \ completed
  BY <1>3 DEF Books, Runnable, Incoming
<1>5. base \in Marking
  BY <1>4 DEF Marking
<1>6. \A m \in Marking, e \in Edges : F[m][e] = IF e[1] \in ok THEN Release(m, e) ELSE m
  OBVIOUS
<1> HIDE DEF F, Edges, q, rel
<1>7. n \in Nat /\ n \in 0..n /\ DOMAIN q = 1..n /\ \A i \in 1..n : q[i] \in Edges
  BY <1>1
<1>8. PICK v : Course(F, base, q, v)
  BY <1>1, FoldSteps
<1> DEFINE good == {i \in 0..n : Marked(ok, i, v[i])}
<1>9. 0 \in good
  <2>1. v[0] = base
    BY <1>8 DEF Course
  <2>2. 1..0 = {} /\ ToSet(<< >>) = {} /\ IsInjective(<< >>)
    BY DEF ToSet, IsInjective
  <2>3. \A t : Lost(ok, 0, t) = {}
    BY <2>2 DEF Lost
  <2>4. Marked(ok, 0, base)
    BY <1>5, <2>2, <2>3 DEF Marked
  <2> QED BY <1>7, <2>1, <2>4
<1>10. ASSUME NEW i \in 1..n, i - 1 \in good PROVE i \in good
  <2>1. i \in 0..n /\ i - 1 \in 0..n /\ i \in Nat /\ 1 <= i /\ i <= Len(dag.edges)
    BY <1>7 DEF q
  <2>2. Marked(ok, i - 1, v[i - 1]) /\ v[i - 1] \in Marking
    BY <1>10 DEF Marked
  <2>3. PICK u \in TaskIds, t \in TaskIds : q[i] = <<u, t>>
    BY <1>7 DEF Edges
  <2>4. v[i] = F[v[i - 1]][q[i]]
    BY <1>8 DEF Course
  <2>5. v[i] = IF u \in ok THEN Release(v[i - 1], <<u, t>>) ELSE v[i - 1]
    BY <1>6, <1>7, <2>2, <2>3, <2>4
  <2>6. CASE u \in ok
    <3>1. Marked(ok, i, Release(v[i - 1], <<u, t>>))
      BY <2>1, <2>2, <2>3, <2>6, MarkingStep DEF q
    <3> QED BY <2>1, <2>5, <2>6, <3>1
  <2>7. CASE u \notin ok
    <3>1. \A x : Lost(ok, i, x) = Lost(ok, i - 1, x)
      <4>1. 1..i = (1..(i - 1)) \cup {i}
        BY <2>1
      <4>2. \A x : \A y \in ok : q[i] # <<y, x>>
        BY <2>3, <2>7
      <4> QED BY <4>1, <4>2 DEF Lost, q
    <3>2. Marked(ok, i, v[i - 1])
      BY <2>2, <3>1 DEF Marked
    <3> QED BY <2>1, <2>5, <2>7, <3>2
  <2> QED BY <2>6, <2>7
<1>11. good \in SUBSET (0..n)
  OBVIOUS
<1> HIDE DEF good
<1>12. good = 0..n
  BY <1>7, <1>9, <1>10, <1>11, CountingUp
<1>13. Marked(ok, n, rel)
  <2>1. v[n] = rel
    BY <1>2, <1>8 DEF Course
  <2> QED BY <1>7, <1>12, <2>1 DEF good
<1>14. \A t \in TaskIds : Lost(ok, n, t) = ok \cap Incoming(dag, t)
  <2>1. \A u, t : (\E j \in 1..n : q[j] = <<u, t>>) <=> <<u, t>> \in ToSet(q)
    BY <1>7 DEF ToSet
  <2> QED BY <2>1 DEF Lost, Incoming, q
<1>15. \A t \in TaskIds : rel.pending[t] = Incoming(dag, t) \ (completed \cup ok)
  BY <1>4, <1>13, <1>14 DEF Marked
<1>16. rel.pending = [t \in TaskIds |-> Incoming(dag, t) \ (completed \cup ok)]
  <2>1. rel.pending \in [TaskIds -> SUBSET TaskIds]
    BY <1>13 DEF Marked, Marking
  <2> QED BY <1>15, <2>1
<1>17. rel.scheduled = Runnable(completed \cup ok)
  <2>1. ASSUME NEW t \in Tasks, Incoming(dag, t) \subseteq completed \cup ok
        PROVE  t \in rel.scheduled
    <3>1. CASE Incoming(dag, t) \subseteq completed
      BY <1>13, <3>1 DEF Marked, Books, Runnable
    <3>2. CASE ~(Incoming(dag, t) \subseteq completed)
      <4>1. Lost(ok, n, t) # {} /\ rel.pending[t] = {}
        BY <1>3, <1>14, <1>15, <2>1, <3>2
      <4> QED BY <1>3, <1>13, <4>1 DEF Marked
    <3> QED BY <3>1, <3>2
  <2>2. ASSUME NEW t \in rel.scheduled
        PROVE  t \in Tasks /\ Incoming(dag, t) \subseteq completed \cup ok
    <3>1. CASE t \in scheduled
      BY <3>1 DEF Books, Runnable
    <3>2. CASE t \in ToSet(rel.ready)
      <4>1. t \in Tasks /\ rel.pending[t] = {}
        BY <1>13, <3>2 DEF Marked
      <4> QED BY <1>3, <1>15, <4>1
    <3> QED BY <1>13, <3>1, <3>2 DEF Marked
  <2> QED BY <2>1, <2>2 DEF Runnable
<1>18. ReleasedTo(ok, rel)
  BY <1>13, <1>16, <1>17 DEF Marked, ReleasedTo
<1> QED BY <1>18 DEF rel

\* The first state.
LEMMA InitWalk == Init => WalkInv
<1> SUFFICES ASSUME Init PROVE WalkInv
  OBVIOUS
<1>1. IsDag(dag)
  BY DagsAssumption DEF Init
<1>2. TypeOK
  BY <1>1 DEF Init, TypeOK, HandleState
<1>3. Walk
  BY DEF Init, Walk, Idle
<1> QED BY <1>2, <1>3 DEF WalkInv

\* A task is launched once for each time that it is in ready.
LEMMA ReadyCounted ==
    ASSUME NEW ready \in Seq(TaskIds), IsInjective(ready), NEW t \in TaskIds
    PROVE  Cardinality({i \in DOMAIN ready : ready[i] = t})
             = IF t \in ToSet(ready) THEN 1 ELSE 0
<1> DEFINE at == {i \in DOMAIN ready : ready[i] = t}
<1>1. CASE t \in ToSet(ready)
  <2>1. PICK i \in DOMAIN ready : ready[i] = t
    BY <1>1 DEF ToSet
  <2>2. at = {i}
    BY <2>1 DEF IsInjective
  <2> QED BY <1>1, <2>2, FS_Singleton
<1>2. CASE t \notin ToSet(ready)
  <2>1. at = {}
    BY <1>2 DEF ToSet
  <2> QED BY <1>2, <2>1, FS_EmptySet
<1> QED BY <1>1, <1>2

\* The head of the loop, with books that are up to date.
LEMMA LoopWalk ==
    ASSUME TypeOK, Validated(dag), UNCHANGED dag, LaunchedOnce,
           NEW ready \in Seq(TaskIds), IsInjective(ready), NEW flight \in SUBSET TaskIds,
           scheduled \cap ToSet(ready) = {},
           flight \subseteq scheduled, Loop(ready, flight),
           Books', completed' \in SUBSET TaskIds, completed' \subseteq scheduled,
           scheduled' = scheduled \cup ToSet(ready), scheduled = flight \cup completed',
           UNCHANGED <<wire, work, reply, cancelled>>
    PROVE  WalkInv'
<1>1. /\ status' = IF ready = << >> /\ flight = {} THEN "returned" ELSE "running"
      /\ in_flight' = flight \cup ToSet(ready)
      /\ handle' = [t \in TaskIds |-> IF t \in ToSet(ready) THEN "created" ELSE handle[t]]
      /\ launches' = [t \in TaskIds |->
                        launches[t] + Cardinality({i \in DOMAIN ready : ready[i] = t})]
  BY DEF Loop
<1>2. ToSet(ready) \subseteq TaskIds /\ (ToSet(ready) = {} <=> ready = << >>)
  <2>1. ToSet(ready) \subseteq TaskIds
    BY DEF ToSet
  <2>2. ready = << >> => ToSet(ready) = {}
    BY DEF ToSet
  <2>3. ready # << >> => 1 \in DOMAIN ready
    OBVIOUS
  <2>4. ready # << >> => ToSet(ready) # {}
    BY <2>3 DEF ToSet
  <2> QED BY <2>1, <2>2, <2>4
<1>3. \A t \in TaskIds : launches'[t] = launches[t] + (IF t \in ToSet(ready) THEN 1 ELSE 0)
  BY <1>1, ReadyCounted
<1>4. LaunchedOnce'
  <2>1. ASSUME NEW t \in TaskIds
        PROVE  /\ launches'[t] \in {0, 1}
               /\ t \notin scheduled' => launches'[t] = 0 /\ handle'[t] = "none"
    <3>1. t \in ToSet(ready) => launches[t] = 0
      BY DEF LaunchedOnce
    <3>2. launches[t] \in {0, 1}
      BY DEF LaunchedOnce
    <3>3. launches'[t] \in {0, 1}
      BY <1>3, <3>1, <3>2
    <3>4. t \notin scheduled' => launches'[t] = 0 /\ handle'[t] = "none"
      BY <1>1, <1>3, <3>2 DEF LaunchedOnce
    <3> QED BY <3>3, <3>4
  <2> QED BY <2>1 DEF LaunchedOnce
<1>5. Going'
  BY <1>1, <1>2 DEF Going
<1>6. Walk'
  BY <1>1, <1>4, <1>5 DEF Walk
<1>7. TypeOK'
  <2>1. launches' \in [TaskIds -> Nat]
    BY <1>1, <1>4 DEF LaunchedOnce
  <2>2. handle' \in [TaskIds -> HandleState]
    BY <1>1 DEF TypeOK, HandleState
  <2>3. in_flight' \in SUBSET TaskIds /\ scheduled' \in SUBSET TaskIds
        /\ (status' \in {"running", "stopping"} => in_flight' # {})
    BY <1>1, <1>2 DEF TypeOK
  <2>4. pending_deps' \in [TaskIds -> SUBSET TaskIds]
    BY DEF Books, Incoming
  <2>5. status' \in {"returned", "running"}
    BY <1>1
  <2> QED BY <2>1, <2>2, <2>3, <2>4, <2>5 DEF TypeOK
<1> QED BY <1>6, <1>7 DEF WalkInv

\* The tasks of the DAG at hand are task ids.
LEMMA KnownTasks ==
    ASSUME IsDag(dag), Validated(dag)
    PROVE  KnownEdges(dag) /\ Tasks \subseteq TaskIds
<1>1. KnownEdges(dag)
  BY DEF Validated, KnownEdges
<1> QED BY <1>1, TasksKnown DEF Tasks

\* What run launches first are the tasks without dependencies.
LEMMA StartWalk == ASSUME WalkInv, Start PROVE WalkInv'
<1>0. TypeOK /\ Idle /\ status = "new" /\ IsDag(dag)
  BY DEF WalkInv, Walk, Start, TypeOK
<1>1. CASE ~Validated(dag)
  <2>1. /\ status' = "rejected"
        /\ UNCHANGED <<dag, pending_deps, scheduled, in_flight, handle, launches, completed,
                       wire, work, reply, cancelled>>
    BY <1>1 DEF Start, provider
  <2>2. TypeOK'
    BY <1>0, <2>1 DEF TypeOK
  <2>3. Idle'
    BY <1>0, <2>1 DEF Idle
  <2>4. ~Validated(dag)'
    BY <1>1, <2>1
  <2> QED BY <2>1, <2>2, <2>3, <2>4 DEF WalkInv, Walk
<1>2. CASE Validated(dag)
  <2> DEFINE S == {t \in TaskIds : Incoming(dag, t) = {}}
             roots == Among(dag.tasks, S)
  <2>1. /\ pending_deps' = [t \in TaskIds |-> Incoming(dag, t)]
        /\ scheduled' = ToSet(roots)
        /\ Loop(roots, {})
        /\ UNCHANGED <<dag, completed, wire, work, reply, cancelled>>
    BY <1>2 DEF Start, provider
  <2> DEFINE q == dag.tasks
  <2>2. q \in Seq(TaskIds) /\ IsInjective(q) /\ Tasks \subseteq TaskIds
    BY <1>0, <1>2, KnownTasks DEF IsDag, Validated
  <2> HIDE DEF q
  <2>3. /\ Among(q, S) \in Seq(ToSet(q)) /\ ToSet(Among(q, S)) = ToSet(q) \cap S
        /\ IsInjective(Among(q, S))
    <3> HIDE DEF S
    <3> QED BY <2>2, AmongIs
  <2>4. roots \in Seq(ToSet(q)) /\ ToSet(roots) = Tasks \cap S /\ IsInjective(roots)
        /\ ToSet(q) \subseteq TaskIds
    BY <2>2, <2>3 DEF q, Tasks
  <2> HIDE DEF roots
  <2>5. roots \in Seq(TaskIds)
    BY <2>4
  <2>6. Books'
    <3>1. completed' = {} /\ Tasks' = Tasks /\ dag' = dag
      BY <1>0, <2>1 DEF Idle, Tasks
    <3>2. scheduled' = {t \in Tasks : Incoming(dag, t) \subseteq {}}
      BY <2>1, <2>2, <2>4
    <3>3. pending_deps' = [t \in TaskIds |-> Incoming(dag, t) \ {}]
      BY <2>1
    <3> QED BY <3>1, <3>2, <3>3 DEF Books, Runnable
  <2>7. LaunchedOnce
    BY <1>0 DEF Idle, LaunchedOnce
  <2>8. scheduled = {} /\ completed' = {}
    BY <1>0, <2>1 DEF Idle
  <2> QED BY <1>0, <1>2, <2>1, <2>4, <2>5, <2>6, <2>7, <2>8, LoopWalk
<1> QED BY <1>1, <1>2

\* The invariant where run is past validation.
LEMMA WalkFacts ==
    ASSUME WalkInv, status \notin {"new", "rejected"}
    PROVE  /\ TypeOK /\ IsDag(dag) /\ Validated(dag) /\ KnownEdges(dag)
           /\ Books /\ LaunchedOnce /\ Going
BY KnownTasks DEF WalkInv, Walk, TypeOK

\* The finally clause keeps the books as they are.
LEMMA StopWalk ==
    ASSUME WalkInv, status = "running", NEW flight \in SUBSET in_flight, Stop(flight),
           in_flight' = flight, Books', completed' \in SUBSET TaskIds,
           completed' \subseteq scheduled', scheduled \subseteq scheduled',
           scheduled' \in SUBSET TaskIds,
           UNCHANGED <<dag, wire, work, reply, cancelled>>
    PROVE  WalkInv'
<1>0. /\ TypeOK /\ IsDag(dag) /\ Validated(dag) /\ KnownEdges(dag)
      /\ Books /\ LaunchedOnce /\ Going
  BY WalkFacts
<1>1. /\ status' = IF flight = {} THEN "raised" ELSE "stopping"
      /\ handle' = [t \in TaskIds |->
                      IF t \in flight /\ handle[t] \in {"created", "waiting"}
                      THEN "cancelling" ELSE handle[t]]
      /\ launches' = launches
  BY DEF Stop
<1>2. LaunchedOnce'
  <2>1. \A t \in TaskIds : handle[t] = "none" => handle'[t] = "none"
    BY <1>1
  <2> QED BY <1>0, <1>1, <2>1 DEF LaunchedOnce
<1>3. Going'
  BY <1>0, <1>1 DEF Going
<1>4. Walk'
  BY <1>0, <1>1, <1>2, <1>3 DEF Walk
<1>5. TypeOK'
  <2>1. handle' \in [TaskIds -> HandleState]
    BY <1>0, <1>1 DEF TypeOK, HandleState
  <2>2. pending_deps' \in [TaskIds -> SUBSET TaskIds]
    BY DEF Books, Incoming
  <2> QED BY <1>0, <1>1, <2>1, <2>2 DEF TypeOK
<1> QED BY <1>4, <1>5 DEF WalkInv

\* Collecting results keeps the books: what is released is what has become runnable.
LEMMA CollectWalk == ASSUME WalkInv, Collect PROVE WalkInv'
<1> DEFINE ok == {t \in Done : handle[t] = "ok"}
           rel == Released(ok)
           flight == in_flight \ Done
<1>0. /\ TypeOK /\ IsDag(dag) /\ Validated(dag) /\ KnownEdges(dag)
      /\ Books /\ LaunchedOnce /\ Going /\ status = "running"
  BY WalkFacts DEF Collect
<1>1. /\ completed' = completed \cup ok
      /\ pending_deps' = rel.pending
      /\ scheduled' = rel.scheduled
      /\ IF ok = Done THEN Loop(rel.ready, flight) ELSE Stop(flight) /\ in_flight' = flight
      /\ UNCHANGED <<dag, wire, work, reply, cancelled>>
  BY DEF Collect, provider
<1>2. Done \subseteq in_flight /\ ok \subseteq Done /\ ok \in SUBSET TaskIds
      /\ completed \in SUBSET TaskIds /\ scheduled \in SUBSET TaskIds
      /\ in_flight \subseteq scheduled /\ completed \subseteq scheduled
      /\ scheduled = in_flight \cup completed
  BY <1>0 DEF Done, TypeOK, Going
<1> HIDE DEF ok
<1>3. ReleasedTo(ok, rel)
  BY <1>0, <1>2, ReleasedIs
<1> HIDE DEF rel
<1>4. Books'
  <2>1. Tasks' = Tasks /\ dag' = dag
    BY <1>1 DEF Tasks
  <2>2. pending_deps' = [t \in TaskIds |-> Incoming(dag, t) \ completed']
    BY <1>1, <1>3 DEF ReleasedTo
  <2>3. scheduled' = {t \in Tasks : Incoming(dag, t) \subseteq completed'}
    BY <1>1, <1>3 DEF ReleasedTo, Runnable
  <2> QED BY <2>1, <2>2, <2>3 DEF Books, Runnable
<1>5. /\ rel.ready \in Seq(TaskIds) /\ rel.scheduled \in SUBSET TaskIds
      /\ scheduled' = scheduled \cup ToSet(rel.ready)
      /\ scheduled \cap ToSet(rel.ready) = {} /\ IsInjective(rel.ready)
  BY <1>1, <1>3 DEF ReleasedTo, Marking
<1>6. completed' \in SUBSET TaskIds /\ completed' \subseteq scheduled
  BY <1>1, <1>2
<1>7. CASE ok = Done
  <2>1. flight \in SUBSET TaskIds /\ flight \subseteq scheduled /\ scheduled = flight \cup completed'
    BY <1>1, <1>2, <1>7
  <2>2. Loop(rel.ready, flight)
    BY <1>1, <1>7
  <2> HIDE DEF flight
  <2> QED BY <1>0, <1>1, <1>4, <1>5, <1>6, <2>1, <2>2, LoopWalk
<1>8. CASE ok # Done
  <2>1. flight \in SUBSET in_flight /\ Stop(flight) /\ in_flight' = flight
    BY <1>1, <1>8
  <2>2. completed' \subseteq scheduled' /\ scheduled \subseteq scheduled'
        /\ scheduled' \in SUBSET TaskIds
    BY <1>1, <1>5, <1>6
  <2> HIDE DEF flight
  <2> QED BY <1>0, <1>1, <1>4, <1>6, <2>1, <2>2, StopWalk
<1> QED BY <1>7, <1>8

\* What the results release was not launched before.
LEMMA ReleasedAreNew ==
    ASSUME WalkInv, status = "running",
           NEW t \in TaskIds, t \in ToSet(Released({u \in Done : handle[u] = "ok"}).ready)
    PROVE  handle[t] = "none"
<1> DEFINE ok == {u \in Done : handle[u] = "ok"}
           rel == Released(ok)
<1>1. TypeOK /\ IsDag(dag) /\ KnownEdges(dag) /\ Books /\ LaunchedOnce
  BY WalkFacts
<1>2. ok \in SUBSET TaskIds /\ completed \in SUBSET TaskIds
  BY <1>1 DEF Done, TypeOK
<1> HIDE DEF ok
<1>3. ReleasedTo(ok, rel)
  BY <1>1, <1>2, ReleasedIs
<1>4. t \in ToSet(rel.ready)
  BY DEF ok
<1>5. t \notin scheduled
  BY <1>3, <1>4 DEF ReleasedTo
<1> QED BY <1>1, <1>5 DEF LaunchedOnce

\* A step that leaves run's books alone, and begins nothing that was not launched.
LEMMA ElsewhereWalk ==
    ASSUME WalkInv,
           UNCHANGED <<dag, pending_deps, scheduled, in_flight, completed, launches>>,
           \/ status' = status
           \/ status \in {"stopping", "unwinding"}
              /\ status' \in {"raised", "unwinding", "cut_short"},
           handle' \in [TaskIds -> HandleState],
           \A t \in TaskIds : handle[t] = "none" => handle'[t] = "none",
           wire' \in Seq(Message),
           work' \in [TaskIds -> {"none", "working", "cancelling", "ended"}],
           reply' \in [TaskIds -> {"none", "ok", "failed"}],
           cancelled' \in [TaskIds -> Nat]
    PROVE  WalkInv'
<1>1. TypeOK'
  BY DEF WalkInv, TypeOK
<1>2. CASE status \in {"new", "rejected"}
  <2>1. status' = status /\ Idle /\ (status = "rejected" => ~Validated(dag))
    BY <1>2 DEF WalkInv, Walk
  <2>2. Idle'
    BY <2>1 DEF Idle
  <2>3. status' = "rejected" => ~Validated(dag)'
    BY <2>1
  <2> QED BY <1>1, <1>2, <2>1, <2>2, <2>3 DEF WalkInv, Walk
<1>3. CASE status \notin {"new", "rejected"}
  <2>0. Validated(dag) /\ Books /\ LaunchedOnce /\ Going
    BY <1>3 DEF WalkInv, Walk
  <2>1. status' \notin {"new", "rejected"}
    BY <1>3
  <2>2. Validated(dag)'
    BY <2>0
  <2>3. Books'
    BY <2>0 DEF Books, Runnable, Tasks
  <2>4. LaunchedOnce'
    BY <2>0 DEF LaunchedOnce
  <2>5. Going'
    BY <2>0 DEF Going
  <2> QED BY <1>1, <2>1, <2>2, <2>3, <2>4, <2>5 DEF WalkInv, Walk
<1> QED BY <1>2, <1>3

\* Sending the cancels.
LEMMA CancelAbandonedWalk == ASSUME WalkInv, CancelAbandoned PROVE WalkInv'
<1> DEFINE q == dag.tasks
           left == Among(q, in_flight)
           told == [i \in DOMAIN left |-> [kind |-> "cancel", task_id |-> left[i]]]
<1>1. /\ status = "stopping" /\ status' = "raised"
      /\ wire' = wire \o told
      /\ cancelled' = [t \in TaskIds |-> cancelled[t] + IF t \in in_flight THEN 1 ELSE 0]
      /\ UNCHANGED <<dag, pending_deps, scheduled, in_flight, completed, handle,
                     work, reply, launches>>
  BY DEF CancelAbandoned
<1>2. TypeOK /\ q \in Seq(TaskIds)
  BY DEF WalkInv, TypeOK, IsDag
<1> HIDE DEF q
<1>3. left \in Seq(ToSet(q)) /\ ToSet(q) \subseteq TaskIds
  <2>1. ToSet(q) \subseteq TaskIds
    BY <1>2 DEF ToSet
  <2> QED BY <1>2, <2>1, AmongIs
<1> HIDE DEF left
<1>4. Len(left) \in Nat /\ DOMAIN left = 1..Len(left)
      /\ \A i \in DOMAIN left : left[i] \in TaskIds
  BY <1>3
<1>5. told \in Seq(Message)
  <2>1. \A i \in DOMAIN left : [kind |-> "cancel", task_id |-> left[i]] \in Message
    BY <1>4 DEF Message
  <2> QED BY <1>4, <2>1
<1> HIDE DEF told
<1>6. wire' \in Seq(Message)
  BY <1>1, <1>2, <1>5 DEF TypeOK
<1>7. cancelled' \in [TaskIds -> Nat]
  BY <1>1, <1>2 DEF TypeOK
<1> QED BY <1>1, <1>2, <1>6, <1>7, ElsewhereWalk DEF TypeOK

\* A message read by the provider.
LEMMA ProviderReadsWalk == ASSUME WalkInv, ProviderReads PROVE WalkInv'
<1>1. /\ wire # << >> /\ wire' = Tail(wire)
      /\ work' = [work EXCEPT ![Head(wire).task_id] =
                    IF Head(wire).kind = "invoke" THEN "working"
                    ELSE IF @ = "working" THEN "cancelling" ELSE @]
      /\ UNCHANGED <<dag, status, pending_deps, scheduled, in_flight, completed,
                     launches, cancelled, handle, reply>>
  BY DEF ProviderReads, runState
<1>2. TypeOK /\ wire \in Seq(Message)
  BY DEF WalkInv, TypeOK
<1>3. wire' \in Seq(Message)
  BY <1>1, <1>2
<1>4. work' \in [TaskIds -> {"none", "working", "cancelling", "ended"}]
  BY <1>1, <1>2 DEF TypeOK
<1> QED BY <1>1, <1>2, <1>3, <1>4, ElsewhereWalk DEF TypeOK

\* A coroutine, or what becomes of its answer.
LEMMA TaskWalk ==
    ASSUME WalkInv, NEW t \in TaskIds,
           Coroutine(t) \/ TimesOut(t) \/ Answered(t) \/ ProviderEnds(t)
    PROVE  WalkInv'
<1>0. TypeOK
  BY DEF WalkInv
<1>1. CASE ResolutionFails(t)
  <2>1. handle[t] = "created" /\ handle' = [handle EXCEPT ![t] = "failed"]
        /\ UNCHANGED <<runState, provider>>
    BY <1>1 DEF ResolutionFails
  <2> QED BY <1>0, <2>1, ElsewhereWalk DEF TypeOK, HandleState, runState, provider
<1>2. CASE RunOne(t)
  <2>1. handle[t] = "created" /\ handle' = [handle EXCEPT ![t] = "waiting"]
        /\ wire' = Append(wire, [kind |-> "invoke", task_id |-> t])
        /\ UNCHANGED <<runState, work, reply>>
    BY <1>2 DEF RunOne
  <2>2. wire' \in Seq(Message)
    BY <1>0, <2>1 DEF TypeOK, Message
  <2> QED BY <1>0, <2>1, <2>2, ElsewhereWalk DEF TypeOK, HandleState, runState
<1>3. CASE HandleStops(t)
  <2>1. handle[t] = "cancelling" /\ handle' = [handle EXCEPT ![t] = "cancelled"]
        /\ UNCHANGED <<runState, provider>>
    BY <1>3 DEF HandleStops
  <2> QED BY <1>0, <2>1, ElsewhereWalk DEF TypeOK, HandleState, runState, provider
<1>4. CASE Answered(t)
  <2>1. reply[t] # "none" /\ reply' = [reply EXCEPT ![t] = "none"]
        /\ handle' = [handle EXCEPT ![t] = IF @ = "waiting" THEN reply[t] ELSE @]
        /\ UNCHANGED <<runState, wire, work>>
    BY <1>4 DEF Answered
  <2>2. reply' \in [TaskIds -> {"none", "ok", "failed"}]
    BY <1>0, <2>1 DEF TypeOK
  <2>3. handle' \in [TaskIds -> HandleState]
    BY <1>0, <2>1 DEF TypeOK, HandleState
  <2>4. \A u \in TaskIds : handle[u] = "none" => handle'[u] = "none"
    BY <1>0, <2>1 DEF TypeOK
  <2> QED BY <1>0, <2>1, <2>2, <2>3, <2>4, ElsewhereWalk DEF TypeOK, runState
<1>5. CASE ProviderEnds(t)
  <2>1. work' = [work EXCEPT ![t] = "ended"] /\ UNCHANGED <<runState, handle, wire>>
    BY <1>5 DEF ProviderEnds
  <2>2. PICK outcome \in {"ok", "failed"} : reply' = [reply EXCEPT ![t] = outcome]
    BY <1>5 DEF ProviderEnds
  <2>3. reply' \in [TaskIds -> {"none", "ok", "failed"}]
    BY <1>0, <2>2 DEF TypeOK
  <2> QED BY <1>0, <2>1, <2>3, ElsewhereWalk DEF TypeOK, runState
<1>6. CASE TimesOut(t)
  <2>1. /\ handle[t] = "waiting" /\ handle' = [handle EXCEPT ![t] = "timeout"]
        /\ wire' = Append(wire, [kind |-> "cancel", task_id |-> t])
        /\ cancelled' = [cancelled EXCEPT ![t] = @ + 1]
        /\ UNCHANGED <<dag, status, pending_deps, scheduled, in_flight, completed,
                       work, reply, launches>>
    BY <1>6 DEF TimesOut
  <2>2. wire' \in Seq(Message) /\ cancelled' \in [TaskIds -> Nat]
    BY <1>0, <2>1 DEF TypeOK, Message
  <2> QED BY <1>0, <2>1, <2>2, ElsewhereWalk DEF TypeOK, HandleState
<1> QED BY <1>1, <1>2, <1>3, <1>4, <1>5, <1>6 DEF Coroutine

\* The walk invariant is inductive: one case for each step.
LEMMA NextWalk == WalkInv /\ [Next]_vars => WalkInv'
<1> SUFFICES ASSUME WalkInv, [Next]_vars PROVE WalkInv'
  OBVIOUS
<1>0. TypeOK
  BY DEF WalkInv
<1>1. CASE Start
  BY <1>1, StartWalk
<1>2. CASE Collect
  BY <1>2, CollectWalk
<1>3. CASE CancelAbandoned
  BY <1>3, CancelAbandonedWalk
<1>4. CASE Unwind
  BY <1>0, <1>4, ElsewhereWalk DEF Unwind, provider, TypeOK
<1>5. CASE Interrupted
  <2>1. /\ status = "running" /\ Stop(in_flight)
        /\ UNCHANGED <<dag, pending_deps, scheduled, in_flight, completed,
                       wire, work, reply, cancelled>>
    BY <1>5 DEF Interrupted, provider
  <2>2. Books /\ Going
    BY <2>1, WalkFacts
  <2>3. Books'
    BY <2>1, <2>2 DEF Books, Runnable, Tasks
  <2> QED BY <1>0, <2>1, <2>2, <2>3, StopWalk DEF TypeOK, Going
<1>6. CASE InterruptedCleanup
  BY <1>0, <1>6, ElsewhereWalk DEF InterruptedCleanup, provider, TypeOK
<1>7. CASE ProviderReads
  BY <1>7, ProviderReadsWalk
<1>8. ASSUME NEW t \in TaskIds,
             Coroutine(t) \/ TimesOut(t) \/ Answered(t) \/ ProviderEnds(t)
      PROVE  WalkInv'
  BY <1>8, TaskWalk
<1>9. CASE UNCHANGED vars
  BY <1>0, <1>9, ElsewhereWalk DEF vars, TypeOK
<1> QED BY <1>1, <1>2, <1>3, <1>4, <1>5, <1>6, <1>7, <1>8, <1>9 DEF Next, Run

\* So it holds throughout.
LEMMA WalkInvariant == Spec => []WalkInv
BY InitWalk, NextWalk, PTL DEF Spec

--------------------------------------------------------------------------------

(* Every variable of the orchestrator and of the provider it sees keeps its type,
   whatever DAG is walked. *)
THEOREM TypeCorrect == Spec => []TypeOK
<1>1. WalkInv => TypeOK
  BY DEF WalkInv
<1> QED BY <1>1, WalkInvariant, PTL

(* run refuses a DAG exactly if it is malformed: a task listed twice, an edge or an
   input that leads nowhere, or a cycle in the declarative sense, which the search of
   validate_dag finds without fail and never reports wrongly (dag.py:176-217). *)
THEOREM ValidatesExactly == Spec => []RejectsExactlyMalformed
<1>1. WalkInv => RejectsExactlyMalformed
  <2> SUFFICES ASSUME WalkInv PROVE RejectsExactlyMalformed
    OBVIOUS
  <2>1. IsDag(dag)
    BY DEF WalkInv, TypeOK
  <2>2. Validated(dag) <=> WellFormed(dag)
    BY <2>1, ValidatedIsWellFormed
  <2>3. status # "new" => (status = "rejected" <=> ~Validated(dag))
    BY DEF WalkInv, Walk
  <2> QED BY <2>2, <2>3 DEF RejectsExactlyMalformed
<1> QED BY <1>1, WalkInvariant, PTL

(* No run_one begins before everything its task depends on is completed, the tasks
   whose output it resolves included (dag.py:287-335). *)
THEOREM DependenciesComeFirst == Spec => []DependenciesFirst
<1>1. WalkInv => DependenciesFirst
  <2> SUFFICES ASSUME WalkInv, NEW t \in TaskIds, handle[t] # "none"
               PROVE  Incoming(dag, t) \cup References(t) \subseteq completed
    BY DEF DependenciesFirst
  <2>1. status \notin {"new", "rejected"}
    BY DEF WalkInv, Walk, Idle
  <2>2. Validated(dag) /\ Books /\ LaunchedOnce
    BY <2>1, WalkFacts
  <2>3. Incoming(dag, t) \subseteq completed
    BY <2>2 DEF Books, Runnable, LaunchedOnce
  <2>4. References(t) \subseteq Incoming(dag, t)
    BY <2>2 DEF Validated, References
  <2> QED BY <2>3, <2>4
<1> QED BY <1>1, WalkInvariant, PTL

(* No task is launched twice, and when run returns it has the result of every task
   (dag.py:314-353). *)
THEOREM TasksRunOnce == Spec => []RunsEachTaskOnce
<1>1. WalkInv => RunsEachTaskOnce
  <2> SUFFICES ASSUME WalkInv PROVE RunsEachTaskOnce
    OBVIOUS
  <2>1. \A t \in TaskIds : launches[t] <= 1
    BY DEF WalkInv, Walk, Idle, LaunchedOnce
  <2>2. ASSUME status = "returned" PROVE completed = Tasks
    <3>1. /\ IsDag(dag) /\ Validated(dag) /\ KnownEdges(dag) /\ Books /\ Going
          /\ Tasks \subseteq TaskIds
      BY <2>2, WalkFacts, KnownTasks
    <3>2. completed = scheduled
      BY <2>2, <3>1 DEF Going
    <3>3. completed = Runnable(completed)
      BY <3>1, <3>2 DEF Books
    <3>4. Acyclic(dag)
      BY <3>1, ValidatedIsWellFormed DEF WellFormed
    <3> DEFINE rest == Tasks \ completed
    <3>5. SUFFICES ASSUME rest # {} PROVE FALSE
      BY <3>3 DEF Runnable
    <3>6. PICK t \in rest : \A e \in ToSet(dag.edges) : ~(e[2] = t /\ e[1] \in rest)
      BY <3>4, <3>5 DEF Acyclic, Tasks
    <3>7. ASSUME NEW u \in Incoming(dag, t) PROVE u \in completed
      <4>1. <<u, t>> \in ToSet(dag.edges)
        BY DEF Incoming
      <4>2. {<<u, t>>[1], <<u, t>>[2]} \subseteq Tasks
        BY <3>1, <4>1 DEF KnownEdges, Tasks
      <4>3. ~(<<u, t>>[2] = t /\ <<u, t>>[1] \in rest)
        BY <3>6, <4>1
      <4> QED BY <4>2, <4>3
    <3>8. t \in Runnable(completed)
      BY <3>7 DEF Runnable
    <3> QED BY <3>3, <3>8
  <2> QED BY <2>1, <2>2 DEF RunsEachTaskOnce
<1> QED BY <1>1, WalkInvariant, PTL

--------------------------------------------------------------------------------
(* How run stops *)

Unfinished == {"created", "waiting", "cancelling"}

RunState == {"new", "rejected", "running", "stopping", "unwinding",
             "returned", "raised", "cut_short"}

Shape ==
    /\ handle \in [TaskIds -> HandleState]
    /\ reply \in [TaskIds -> {"none", "ok", "failed"}]
    /\ cancelled \in [TaskIds -> Nat]
    /\ status \in RunState

\* Whatever goes on for the DAG is in run's hands.
InHand == \A t \in TaskIds : handle[t] \in Unfinished => t \in in_flight

\* Once run stops, no coroutine is left that could send or await anything.
NoneWaits == Stopped => \A t \in TaskIds : handle[t] \notin {"created", "waiting"}

NoneLeft == status \in {"raised", "cut_short"} =>
                \A t \in TaskIds : handle[t] \notin Unfinished

\* run sends its cancels in its last step and only there, invoke its own when it
\* times out.
Told(t) == (IF status = "raised" /\ t \in in_flight THEN 1 ELSE 0)
             + (IF handle[t] = "timeout" THEN 1 ELSE 0)

CancelsCounted == \A t \in TaskIds : cancelled[t] = Told(t)

NotBegun == status = "new" => \A t \in TaskIds : handle[t] = "none"

StopInv == NotBegun /\ Shape /\ InHand /\ NoneWaits /\ NoneLeft /\ CancelsCounted

--------------------------------------------------------------------------------

\* The first state.
LEMMA InitStopInv == Init => StopInv
BY DEF Init, StopInv, NotBegun, Shape, InHand, NoneWaits, NoneLeft, CancelsCounted, Told, Stopped,
       HandleState, RunState, Unfinished

\* The head of the loop takes every handle it creates into in_flight.
LEMMA LoopStopInv ==
    ASSUME StopInv, NEW ready, NEW flight,
           status \in {"new", "running"},
           \A t \in TaskIds : handle[t] \in Unfinished => t \in flight,
           \A t \in TaskIds : t \in ToSet(ready) => handle[t] = "none",
           Loop(ready, flight), UNCHANGED <<reply, cancelled>>
    PROVE  StopInv'
<1>1. status' \in {"returned", "running"}
  BY DEF Loop
<1>2. /\ in_flight' = flight \cup ToSet(ready)
      /\ handle' = [t \in TaskIds |-> IF t \in ToSet(ready) THEN "created" ELSE handle[t]]
  BY DEF Loop
<1>3. Shape'
  BY <1>1, <1>2 DEF StopInv, Shape, HandleState, RunState
<1>4. InHand'
  BY <1>2 DEF InHand, Unfinished
<1>5. NotBegun' /\ NoneWaits' /\ NoneLeft'
  BY <1>1 DEF NotBegun, NoneWaits, NoneLeft, Stopped
<1>6. CancelsCounted'
  <2>1. \A t \in TaskIds : handle'[t] = "timeout" <=> handle[t] = "timeout"
    BY <1>2
  <2> QED BY <1>1, <2>1 DEF StopInv, CancelsCounted, Told
<1> QED BY <1>3, <1>4, <1>5, <1>6 DEF StopInv

\* The finally clause leaves only handles that are done or being cancelled.
LEMMA StopStopInv ==
    ASSUME StopInv, status = "running",
           \A t \in TaskIds : handle[t] \in Unfinished => t \in in_flight',
           Stop(in_flight'), UNCHANGED <<reply, cancelled>>
    PROVE  StopInv'
<1>1. /\ status' = IF in_flight' = {} THEN "raised" ELSE "stopping"
      /\ handle' = [t \in TaskIds |->
                      IF t \in in_flight' /\ handle[t] \in {"created", "waiting"}
                      THEN "cancelling" ELSE handle[t]]
  BY DEF Stop
<1>2. Shape'
  BY <1>1 DEF StopInv, Shape, HandleState, RunState
<1>3. InHand'
  BY <1>1 DEF InHand, Unfinished
<1>4. NoneWaits'
  BY <1>1 DEF NoneWaits, Unfinished
<1>5. NoneLeft'
  BY <1>1, <1>3 DEF NoneLeft, InHand
<1>6. CancelsCounted'
  <2>1. \A t \in TaskIds : handle'[t] = "timeout" <=> handle[t] = "timeout"
    BY <1>1
  <2>2. status' = "raised" => in_flight' = {}
    BY <1>1
  <2> QED BY <2>1, <2>2 DEF StopInv, CancelsCounted, Told
<1>7. NotBegun'
  BY <1>1 DEF NotBegun
<1> QED BY <1>2, <1>3, <1>4, <1>5, <1>6, <1>7 DEF StopInv

\* A coroutine goes on within what run knows of it.
LEMMA HandleStopInv ==
    ASSUME StopInv, NEW t \in TaskIds, NEW h \in HandleState,
           handle' = [handle EXCEPT ![t] = h],
           \/ h = handle[t]
           \/ handle[t] = "created" /\ h \in {"failed", "waiting"}
           \/ handle[t] = "waiting" /\ h \in {"ok", "failed"}
           \/ handle[t] = "cancelling" /\ h = "cancelled",
           reply' \in [TaskIds -> {"none", "ok", "failed"}],
           UNCHANGED <<status, in_flight, cancelled>>
    PROVE  StopInv'
<1>1. Shape'
  BY DEF StopInv, Shape
<1>2. \A u \in TaskIds :
        /\ handle'[u] \in Unfinished => handle[u] \in Unfinished
        /\ handle'[u] \in {"created", "waiting"} => handle[u] \in {"created", "waiting"}
        /\ handle[u] = "none" => handle'[u] = "none"
  BY DEF StopInv, Shape, Unfinished
<1>3. NotBegun' /\ InHand' /\ NoneWaits' /\ NoneLeft' /\ CancelsCounted'
  BY <1>2 DEF StopInv, NotBegun, InHand, NoneWaits, NoneLeft, CancelsCounted, Told, Stopped
<1> QED BY <1>1, <1>3 DEF StopInv

\* The invariant is inductive: one case for each step of the orchestrator, of the
\* coroutines and of the provider.
LEMMA NextStopInv == WalkInv /\ StopInv /\ [Next]_vars => StopInv'
<1> SUFFICES ASSUME WalkInv, StopInv, [Next]_vars PROVE StopInv'
  OBVIOUS
<1> USE DEF provider, runState
<1>1. CASE Start
  <2>1. CASE Validated(dag)
    <3>1. PICK ready : Loop(ready, {})
      BY <1>1, <2>1, Zenon DEF Start
    <3>2. \A t \in TaskIds : handle[t] \notin Unfinished /\ handle[t] = "none"
      BY <1>1 DEF Start, StopInv, NotBegun, Unfinished
    <3> QED BY <1>1, <3>1, <3>2, LoopStopInv DEF Start
  <2>2. CASE ~Validated(dag)
    BY <1>1, <2>2 DEF Start, StopInv, NotBegun, Shape, InHand, NoneWaits, NoneLeft,
       CancelsCounted, Told, Stopped, RunState
  <2> QED BY <2>1, <2>2
<1>2. CASE Collect
  <2> DEFINE ok == {t \in Done : handle[t] = "ok"}
             left == in_flight \ Done
  <2>1. \A t \in TaskIds : handle[t] \in Unfinished => t \in left
    BY DEF StopInv, InHand, Unfinished, Done, HandleDone
  <2>2. CASE ok = Done
    <3> DEFINE ready == Released(ok).ready
    <3>1. Loop(ready, left)
      BY <1>2, <2>2, Zenon DEF Collect
    <3>2. status = "running" /\ UNCHANGED <<reply, cancelled>>
      BY <1>2 DEF Collect
    <3>3. \A t \in TaskIds : t \in ToSet(ready) => handle[t] = "none"
      BY <3>2, ReleasedAreNew
    <3> HIDE DEF left, ready
    <3> QED BY <2>1, <3>1, <3>2, <3>3, LoopStopInv
  <2>3. CASE ok # Done
    <3>1. Stop(left) /\ in_flight' = left
      BY <1>2, <2>3, Zenon DEF Collect
    <3> HIDE DEF left
    <3> QED BY <1>2, <2>1, <3>1, StopStopInv DEF Collect
  <2> QED BY <2>2, <2>3
<1>3. CASE Interrupted
  BY <1>3, StopStopInv DEF Interrupted, StopInv, InHand
<1>4. CASE CancelAbandoned
  <2>1. /\ status = "stopping" /\ status' = "raised"
        /\ \A t \in in_flight : HandleDone(t)
        /\ cancelled' = [t \in TaskIds |-> cancelled[t] + IF t \in in_flight THEN 1 ELSE 0]
        /\ UNCHANGED <<in_flight, handle, reply>>
    BY <1>4 DEF CancelAbandoned
  <2>2. CancelsCounted'
    BY <2>1 DEF StopInv, Shape, CancelsCounted, Told
  <2>3. Shape' /\ NotBegun' /\ InHand'
    BY <2>1 DEF StopInv, Shape, NotBegun, InHand, RunState
  <2>4. NoneWaits' /\ NoneLeft'
    BY <2>1 DEF StopInv, NoneWaits, NoneLeft, InHand, Stopped, Unfinished, HandleDone
  <2> QED BY <2>2, <2>3, <2>4 DEF StopInv
<1>5. CASE InterruptedCleanup \/ Unwind
  BY <1>5 DEF InterruptedCleanup, Unwind, StopInv, NotBegun, Shape, InHand, NoneWaits,
     NoneLeft, CancelsCounted, Told, Stopped, RunState, Unfinished, HandleDone
<1>6. ASSUME NEW t \in TaskIds, Coroutine(t) PROVE StopInv'
  BY <1>6, HandleStopInv DEF Coroutine, ResolutionFails, RunOne, HandleStops,
     HandleState, StopInv, Shape
<1>7. ASSUME NEW t \in TaskIds, Answered(t) PROVE StopInv'
  <2> DEFINE h == IF handle[t] = "waiting" THEN reply[t] ELSE handle[t]
  <2>1. handle' = [handle EXCEPT ![t] = h]
    BY <1>7 DEF Answered
  <2>2. /\ h \in HandleState
        /\ h = handle[t] \/ (handle[t] = "waiting" /\ h \in {"ok", "failed"})
        /\ reply' \in [TaskIds -> {"none", "ok", "failed"}]
    BY <1>7 DEF Answered, StopInv, Shape, HandleState
  <2>3. UNCHANGED <<status, in_flight, cancelled>>
    BY <1>7 DEF Answered
  <2> HIDE DEF h
  <2> QED BY <2>1, <2>2, <2>3, HandleStopInv
<1>8. ASSUME NEW t \in TaskIds, ProviderEnds(t) PROVE StopInv'
  BY <1>8 DEF ProviderEnds, StopInv, NotBegun, Shape, InHand, NoneWaits, NoneLeft,
     CancelsCounted, Told, Stopped
<1>9. CASE ProviderReads \/ UNCHANGED vars
  BY <1>9 DEF ProviderReads, vars, StopInv, NotBegun, Shape, InHand, NoneWaits, NoneLeft,
     CancelsCounted, Told, Stopped
<1>10. ASSUME NEW t \in TaskIds, TimesOut(t) PROVE StopInv'
  <2>1. /\ handle[t] = "waiting" /\ handle' = [handle EXCEPT ![t] = "timeout"]
        /\ cancelled' = [cancelled EXCEPT ![t] = @ + 1]
        /\ UNCHANGED <<status, in_flight, reply>>
    BY <1>10 DEF TimesOut
  <2>2. Shape'
    BY <2>1 DEF StopInv, Shape, HandleState
  <2>3. \A u \in TaskIds :
          handle'[u] = IF u = t THEN "timeout" ELSE handle[u]
    BY <2>1 DEF StopInv, Shape
  <2>4. NotBegun' /\ InHand' /\ NoneWaits' /\ NoneLeft'
    BY <2>1, <2>3 DEF StopInv, NotBegun, InHand, NoneWaits, NoneLeft, Stopped, Unfinished
  <2>5. CancelsCounted'
    BY <2>1, <2>3 DEF StopInv, Shape, CancelsCounted, Told
  <2> QED BY <2>2, <2>4, <2>5 DEF StopInv
<1> QED BY <1>1, <1>2, <1>3, <1>4, <1>5, <1>6, <1>7, <1>8, <1>9, <1>10 DEF Next, Run

\* So it holds throughout.
LEMMA StopInvariant == Spec => []StopInv
BY InitStopInv, WalkInvariant, NextStopInv, PTL DEF Spec

--------------------------------------------------------------------------------

(* When run raises, none of its invokes still waits, and unless its cleanup was cut
   short acmp/cancel was sent for each task whose answer run did not collect
   (dag.py:339-352), once more for each task whose deadline expired
   (buyer.py:131-133), and for no other. *)
THEOREM AbandonedTasksAreCancelled == Spec => []AbandonedAreCancelled
<1>1. StopInv => AbandonedAreCancelled
  BY DEF StopInv, NoneLeft, CancelsCounted, Told, CancelsAreSent, AbandonedAreCancelled,
     Unfinished
<1> QED BY <1>1, StopInvariant, PTL

(* Once run has seen a failure or was cancelled, no further task is invoked, not
   even one whose run_one was created and had not begun (dag.py:339-344). *)
THEOREM FailureStopsInvokes == Spec => NothingInvokedAfterFailure
<1> DEFINE A == Stopped => \A t \in TaskIds :
                  handle'[t] = "waiting" => handle[t] = "waiting"
<1>1. StopInv /\ StopInv' /\ [Next]_vars => [A]_vars
  <2> SUFFICES ASSUME StopInv, StopInv', [Next]_vars, Stopped, NEW t \in TaskIds,
                      handle'[t] = "waiting"
               PROVE  handle[t] = "waiting"
    OBVIOUS
  <2>1. status' \notin {"stopping", "unwinding", "raised", "cut_short"}
    BY DEF StopInv, NoneWaits, Stopped
  <2> QED BY <2>1 DEF Stopped, Next, Run, Start, Collect, Interrupted,
       CancelAbandoned, InterruptedCleanup, Unwind, ProviderReads, Coroutine,
       ResolutionFails, RunOne, HandleStops, TimesOut, Answered, ProviderEnds, runState, vars
<1>2. Spec => [][A]_vars
  BY <1>1, StopInvariant, PTL DEF Spec
<1> QED BY <1>2 DEF NothingInvokedAfterFailure
================================================================================
