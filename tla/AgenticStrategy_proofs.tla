------------------------ MODULE AgenticStrategy_proofs ------------------------
(***************************************************************************)
(* Machine-checked proofs about AgenticStrategy, for every dataset, budget *)
(* and target concurrency.                                                 *)
(*                                                                         *)
(* A callback is a chain of operators on the strategy's record, so the     *)
(* invariant is a predicate of a record s, and each operator has a lemma   *)
(* that says what it makes of it.  Between the end of a turn and what the  *)
(* strategy does about it, one conversation has no turn under way and one  *)
(* slot may be free; the predicates Working and Slots say so.              *)
(*                                                                         *)
(* The last section is about RunPlan, whose sums over phases need the same *)
(* lemmas: the phases of every accepted configuration can be run.          *)
(***************************************************************************)
EXTENDS AgenticStrategy, RunPlan, FiniteSetTheorems, SequenceTheorems,
        NaturalsInduction, WellFoundedInduction, TLAPS

\* The record of the strategy.
State ==
  [stopIssuing : BOOLEAN, active : [Logical -> Int], delayed : [Logical -> Int],
   inflight : SUBSET Nat, timers : SUBSET Nat, stopping : BOOLEAN,
   done : BOOLEAN, error : BOOLEAN, started : 0..Budget, left : SUBSET Conv,
   untracked : BOOLEAN, turns : [Logical -> Nat], failed : [Logical -> Nat],
   conv : Seq(Logical), ends : Seq(Nat), skipped : SUBSET Nat,
   issued : Nat, pending : Nat, wire : SUBSET Nat]

\* The queries whose answer the issuer still expects.
Owed(s) == s.wire \ s.skipped

\* The queries of the phase: an id is on the wire, ended once, or both after a
\* timeout; a turn in flight is on the wire and has its timer.
QueriesFit(s) ==
  /\ s \in State
  /\ Len(s.ends) = Len(s.conv)
  /\ s.wire \subseteq 1..Len(s.conv) /\ s.skipped \subseteq 1..Len(s.conv)
  /\ s.inflight \subseteq Owed(s) /\ s.timers = s.inflight

\* No query ends twice, and the in-flight count is exact.
Counted(s) ==
  /\ \A q \in 1..Len(s.conv) : s.ends[q] <= 1
  /\ \A q \in s.skipped : s.ends[q] = 1
  /\ \A q \in Owed(s) : s.ends[q] = 0
  /\ s.pending = Cardinality(Owed(s))

\* A turn of l is in flight.
Busy(s, l) == \E q \in s.inflight : s.conv[q] = l

\* Trajectory l ends no more turns than it has; the cursor of an active one
\* counts the turns that ended and the one in flight.
Cursor(s, l) ==
  /\ s.failed[l] <= s.turns[l] /\ s.turns[l] <= Turns[l[1]]
  /\ Busy(s, l) => s.turns[l] < Turns[l[1]]
  /\ s.active[l] # Absent =>
       s.active[l] = IF Busy(s, l) THEN s.turns[l] + 1 ELSE s.turns[l]
  /\ s.delayed[l] # Absent =>
       s.delayed[l] = s.active[l] /\ ~Busy(s, l) /\ s.active[l] < Turns[l[1]]

\* Turns in flight are of different conversations, and these are active until
\* the strategy is told to stop.
Cursors(s) ==
  /\ \A l \in Logical : Cursor(s, l)
  /\ \A q, r \in s.inflight : s.conv[q] = s.conv[r] => q = r
  /\ IF s.stopping THEN Active(s) = {}
     ELSE \A q \in s.inflight : s.active[s.conv[q]] # Absent

\* Every active conversation but those in X has a turn under way.
Working(s, X) ==
  ~s.error => \A l \in Active(s) \ X : Busy(s, l) \/ s.delayed[l] # Absent

\* v slots are free: of the target's while conversations are left, of those
\* that will not be refilled afterwards.
Slots(s, v) ==
  /\ Cardinality(Active(s)) + v <= InitialConversations
  /\ s.untracked => s.started = Budget /\ Cardinality(Active(s)) < InitialConversations
  /\ ~s.stopping /\ ~s.untracked => Cardinality(Active(s)) + v = InitialConversations

\* Trajectories that were not started: those of the blocks to come and those
\* the order has not yielded yet in this one.
Unstarted(s, l) ==
  \/ l[2] > s.started \div N + 1
  \/ l[2] = s.started \div N + 1 /\ l[1] \in Draws(s)

Fresh(s) ==
  /\ Cardinality(Draws(s)) + (s.started % N) = N
  /\ \A l \in Logical : Unstarted(s, l) =>
       s.active[l] = Absent /\ s.turns[l] = 0 /\ ~Busy(s, l)

\* What holds of the strategy while execute() runs; v and X as above.
Running(s, v, X) ==
  QueriesFit(s) /\ Counted(s) /\ Cursors(s) /\ Working(s, X) /\ Slots(s, v) /\ Fresh(s)

\* What is left of it when execute() has ended.
Ended(s) ==
  /\ QueriesFit(s) /\ s.inflight = {}
  /\ \A l \in Logical : s.failed[l] <= s.turns[l] /\ s.turns[l] <= Turns[l[1]]

\* The inductive invariant.
StrategyInv ==
  /\ pc \in {"seeding", "waiting", "draining", "next", "over"}
  /\ seeds \in Nat /\ {halted, cancel, aborted, clean} \subseteq BOOLEAN
  /\ pc = "seeding" => Running(st, seeds, {}) /\ st.started + seeds <= Budget
  /\ pc = "waiting" => Running(st, 0, {})
  /\ pc \notin {"seeding", "waiting"} => Ended(st)
  /\ pc \in {"draining", "over"} => Counted(st)

-----------------------------------------------------------------------------
(* Numbers and sets.                                                       *)

\* What the specification's own parameters are.
LEMMA Bounds ==
  /\ N \in Nat \ {0} /\ Budget \in Nat \ {0} /\ IsFiniteSet(Conv)
  /\ Turns \in [Conv -> Nat \ {0}]
  /\ InitialConversations \in Nat \ {0} /\ InitialConversations <= Budget
<1>1. N \in Nat \ {0}
  BY AgenticAssumption, FS_CardinalityType, FS_EmptySet DEF N
<1> DEFINE a == IF Target > 0 THEN Target ELSE N
<1>2. a \in Nat \ {0} /\ Budget \in Nat \ {0}
  BY <1>1, AgenticAssumption
<1>3. \E x \in {a, Budget} : \A y \in {a, Budget} : x <= y
  <2>1. CASE a <= Budget
    BY <1>2, <2>1
  <2>2. CASE Budget <= a
    BY <1>2, <2>2
  <2> QED
    BY <1>2, <2>1, <2>2
<1>4. InitialConversations \in {a, Budget} /\ \A y \in {a, Budget} : InitialConversations <= y
  BY <1>3 DEF InitialConversations, Min
<1> QED
  BY <1>1, <1>2, <1>4, AgenticAssumption

\* Quotient and remainder.
LEMMA DivMod ==
  ASSUME NEW a \in Nat, NEW n \in Nat \ {0}
  PROVE  /\ a \div n \in Nat /\ a % n \in 0..(n - 1)
         /\ a = n * (a \div n) + (a % n)
  OBVIOUS

\* They are the only ones.
LEMMA DivUnique ==
  ASSUME NEW n \in Nat \ {0}, NEW q \in Nat, NEW p \in Nat,
         NEW r \in 0..(n - 1), NEW t \in 0..(n - 1), n * q + r = n * p + t
  PROVE  q = p /\ r = t
<1>1. ASSUME NEW x \in Nat, NEW y \in Nat, x < y
      PROVE  n * x + n <= n * y
  <2>1. n * y = n * x + n * (y - x)
    BY <1>1
  <2>2. n * (y - x) >= n
    BY <1>1
  <2> QED
    BY <2>1, <2>2
<1>2. ~(q < p)
  <2> SUFFICES ASSUME q < p PROVE FALSE
    OBVIOUS
  <2>1. n * q + n <= n * p
    BY <1>1
  <2>2. n * q \in Nat /\ n * p \in Nat
    OBVIOUS
  <2> QED
    BY <2>1, <2>2
<1>3. ~(p < q)
  <2> SUFFICES ASSUME p < q PROVE FALSE
    OBVIOUS
  <2>1. n * p + n <= n * q
    BY <1>1
  <2>2. n * q \in Nat /\ n * p \in Nat
    OBVIOUS
  <2> QED
    BY <2>1, <2>2
<1>4. q = p
  BY <1>2, <1>3
<1>5. n * q \in Nat
  OBVIOUS
<1> QED
  BY <1>4, <1>5

\* One more draw stays in the block or begins the next one.
LEMMA NextDraw ==
  ASSUME NEW a \in Nat, NEW n \in Nat \ {0}
  PROVE  IF a % n = n - 1
         THEN (a + 1) \div n = a \div n + 1 /\ (a + 1) % n = 0
         ELSE (a + 1) \div n = a \div n /\ (a + 1) % n = (a % n) + 1
<1> DEFINE q == a \div n
<1> DEFINE r == a % n
<1> DEFINE p == (a + 1) \div n
<1> DEFINE t == (a + 1) % n
<1>1. q \in Nat /\ r \in 0..(n - 1) /\ a = n * q + r
  BY DivMod
<1>2. p \in Nat /\ t \in 0..(n - 1) /\ a + 1 = n * p + t
  <2>1. a + 1 \in Nat
    OBVIOUS
  <2> QED
    BY <2>1, DivMod
<1> HIDE DEF q, r, p, t
<1>3. n * q \in Nat /\ n * p \in Nat
  BY <1>1, <1>2
<1>4. CASE r = n - 1
  <2>1. n * (q + 1) = n * q + n
    BY <1>1
  <2>2. n * (q + 1) + 0 = n * p + t
    BY <1>1, <1>2, <1>3, <1>4, <2>1
  <2>3. q + 1 \in Nat /\ 0 \in 0..(n - 1)
    BY <1>1
  <2>4. q + 1 = p /\ 0 = t
    BY <2>2, <2>3, <1>2, DivUnique
  <2> QED
    BY <1>4, <2>4 DEF q, r, p, t
<1>5. CASE r # n - 1
  <2>1. r + 1 \in 0..(n - 1)
    BY <1>1, <1>5
  <2>2. n * q + (r + 1) = n * p + t
    BY <1>1, <1>2, <1>3
  <2>3. q = p /\ r + 1 = t
    BY <2>1, <2>2, <1>1, <1>2, DivUnique
  <2> QED
    BY <1>5, <2>3 DEF q, r, p, t
<1> QED
  BY <1>4, <1>5

\* A trajectory of the budget has a name.
LEMMA LogicalNamed ==
  ASSUME NEW src \in Conv, NEW k \in Nat, k < Budget
  PROVE  <<src, k \div N + 1>> \in Logical
<1> DEFINE q == k \div N
<1> DEFINE p == (Budget - 1) \div N
<1>0. N \in Nat \ {0} /\ Budget \in Nat \ {0}
  BY Bounds
<1>1. q \in Nat /\ k % N \in 0..(N - 1) /\ k = N * q + (k % N)
  BY <1>0, DivMod
<1>2. p \in Nat /\ (Budget - 1) % N \in 0..(N - 1) /\ Budget - 1 = N * p + ((Budget - 1) % N)
  <2>1. Budget - 1 \in Nat
    BY <1>0
  <2> QED
    BY <1>0, <2>1, DivMod
<1> HIDE DEF q, p
<1>3. ~(p < q)
  <2> SUFFICES ASSUME p < q PROVE FALSE
    OBVIOUS
  <2>1. N * q = N * p + N * (q - p)
    BY <1>0, <1>1, <1>2
  <2>2. N * (q - p) >= N
    BY <1>0, <1>1, <1>2
  <2>3. N * q \in Nat /\ N * p \in Nat
    BY <1>0, <1>1, <1>2
  <2> QED
    BY <1>0, <1>1, <1>2, <2>1, <2>2, <2>3
<1>4. q + 1 \in 1..(p + 1)
  BY <1>1, <1>2, <1>3
<1> QED
  BY <1>4 DEF q, p, Logical

\* There are finitely many trajectories, so active ones can be counted.
LEMMA LogicalFinite ==
  /\ IsFiniteSet(Logical)
  /\ \A S \in SUBSET Logical : IsFiniteSet(S) /\ Cardinality(S) \in Nat
<1>1. (Budget - 1) \div N \in Nat
  <2>1. Budget - 1 \in Nat /\ N \in Nat \ {0}
    BY Bounds
  <2> QED
    BY <2>1, DivMod
<1>2. IsFiniteSet(1..(((Budget - 1) \div N) + 1))
  BY <1>1, FS_Interval
<1>3. IsFiniteSet(Logical)
  BY <1>2, Bounds, FS_Product DEF Logical
<1> QED
  BY <1>3, FS_Subset, FS_CardinalityType

-----------------------------------------------------------------------------
(* Sums over finite sets.  The library chooses the recursive function; that *)
(* it exists and what it does is proved here, by the least counterexample,  *)
(* as no induction theorem of the library can be instantiated.             *)

\* The sum of the values f gives the elements of S.
Total(f, S) == MapThenSumSet(LAMBDA x : f[x], S)

\* The order of the numbers as a relation.
Less == {p \in Nat \X Nat : p[1] < p[2]}

\* Every non-empty set of numbers has a least element: the proofs by
\* induction below look at a least counterexample.
LEMMA LeastNat ==
  ASSUME NEW T, T \subseteq Nat, T # {}
  PROVE  \E x \in T : \A y \in T : ~(y < x)
<1>1. Less = OpToRel(<, Nat)
  BY Zenon DEF Less, OpToRel
<1>2. IsWellFoundedOn(Less, Nat)
  BY <1>1, NatLessThanWellFounded, Zenon
<1>3. \E x \in T : \A y \in T : ~(<<y, x>> \in Less)
  BY <1>2, WFMin, Zenon
<1>4. \A x, y \in T : y < x => <<y, x>> \in Less
  BY SMT DEF Less
<1> QED
  BY <1>3, <1>4, Zenon

\* The element with which the sum over s begins.
First(s) == CHOOSE x \in s : TRUE

\* g holds the sums over the sets in D, each from a smaller one.
Sums(f, D, g) ==
  g = [s \in D |-> IF s = {} THEN 0 ELSE f[First(s)] + g[s \ {First(s)}]]

\* The sum of the library is the value at S of such a function.
LEMMA TotalIs ==
  ASSUME NEW f, NEW S
  PROVE  Total(f, S) = (CHOOSE g : Sums(f, SUBSET S, g))[S]
  BY DEF Total, MapThenSumSet, MapThenFoldSet, Sums, First

\* An element of it.
LEMMA SumsAt ==
  ASSUME NEW f, NEW D, NEW g, Sums(f, D, g)
  PROVE  \A s \in D : g[s] = IF s = {} THEN 0 ELSE f[First(s)] + g[s \ {First(s)}]
  BY Zenon DEF Sums

\* A set that is not empty loses one element to First.
LEMMA FirstRemoved ==
  ASSUME NEW s, IsFiniteSet(s), s # {}
  PROVE  /\ First(s) \in s /\ IsFiniteSet(s \ {First(s)})
         /\ Cardinality(s) \in Nat /\ Cardinality(s \ {First(s)}) = Cardinality(s) - 1
         /\ Cardinality(s \ {First(s)}) \in Nat
<1>1. First(s) \in s
  BY DEF First
<1>2. IsFiniteSet(s \ {First(s)}) /\ Cardinality(s \ {First(s)}) = Cardinality(s) - 1
  BY <1>1, FS_RemoveElement
<1>3. Cardinality(s) \in Nat /\ Cardinality(s \ {First(s)}) \in Nat
  BY <1>2, FS_CardinalityType
<1> QED
  BY <1>1, <1>2, <1>3

\* The subsets of S with n elements at most.
Small(S, n) == {s \in SUBSET S : Cardinality(s) <= n}

\* The recursive function the sum chooses exists ...
LEMMA SumsExist ==
  ASSUME NEW f, NEW S, IsFiniteSet(S), NEW m \in Nat
  PROVE  \E g : Sums(f, Small(S, m), g)
<1> DEFINE T == {n \in Nat : ~ \E g : Sums(f, Small(S, n), g)}
<1>1. SUFFICES ASSUME T # {} PROVE FALSE
  OBVIOUS
<1>2. PICK n \in T : \A y \in T : ~(y < n)
  <2>1. T \subseteq Nat
    OBVIOUS
  <2> QED
    BY LeastNat, <1>1, <2>1, Zenon
<1>3. \A s \in SUBSET S : IsFiniteSet(s) /\ Cardinality(s) \in Nat /\ (Cardinality(s) = 0 <=> s = {})
  BY FS_Subset, FS_CardinalityType, FS_EmptySet
<1>4. n # 0
  <2> DEFINE g == [s \in Small(S, 0) |-> 0]
  <2>1. \A s \in Small(S, 0) : s = {}
    BY <1>3 DEF Small
  <2>2. g = [s \in Small(S, 0) |-> IF s = {} THEN 0 ELSE f[First(s)] + g[s \ {First(s)}]]
    BY <2>1
  <2> QED
    BY <2>2 DEF Sums
<1>5. n \in Nat /\ n - 1 \in Nat /\ n - 1 < n
  BY <1>2, <1>4
<1>6. PICK h : Sums(f, Small(S, n - 1), h)
  <2>1. n - 1 \notin T
    BY <1>2, <1>5
  <2> QED
    BY <1>5, <2>1
<1> DEFINE g == [s \in Small(S, n) |-> IF s = {} THEN 0 ELSE f[First(s)] + h[s \ {First(s)}]]
<1>7. \A s \in Small(S, n - 1) : s \in Small(S, n) /\ g[s] = h[s]
  <2> SUFFICES ASSUME NEW s \in Small(S, n - 1) PROVE s \in Small(S, n) /\ g[s] = h[s]
    OBVIOUS
  <2>1. s \in Small(S, n)
    BY <1>3, <1>5 DEF Small
  <2>2. h[s] = IF s = {} THEN 0 ELSE f[First(s)] + h[s \ {First(s)}]
    BY <1>6, SumsAt
  <2> QED
    BY <2>1, <2>2
<1>8. ASSUME NEW s \in Small(S, n), s # {}
      PROVE  s \ {First(s)} \in Small(S, n - 1)
  <2>1. s \in SUBSET S /\ IsFiniteSet(s) /\ Cardinality(s) <= n
    BY <1>3 DEF Small
  <2>2. Cardinality(s \ {First(s)}) <= n - 1
    BY <1>5, <1>8, <2>1, FirstRemoved
  <2> QED
    BY <2>1, <2>2 DEF Small
<1>9. \A s \in Small(S, n) : g[s] = IF s = {} THEN 0 ELSE f[First(s)] + g[s \ {First(s)}]
  BY <1>7, <1>8
<1>10. Sums(f, Small(S, n), g)
  <2>1. g = [s \in Small(S, n) |-> g[s]]
    OBVIOUS
  <2> HIDE DEF g
  <2>2. [s \in Small(S, n) |-> g[s]]
          = [s \in Small(S, n) |-> IF s = {} THEN 0 ELSE f[First(s)] + g[s \ {First(s)}]]
    BY <1>9
  <2> QED
    BY <2>1, <2>2 DEF Sums
<1> QED
  BY <1>2, <1>10

\* g and h hold the sums over the sets in D and in E, which is larger.
Nested(f, D, E, g, h) ==
  /\ D \subseteq E /\ Sums(f, D, g) /\ Sums(f, E, h)
  /\ \A s \in D : IsFiniteSet(s) /\ s \ {First(s)} \in D

\* ... and is the only one.
LEMMA SumsAgree ==
  ASSUME NEW f, NEW D, NEW E, NEW g, NEW h, Nested(f, D, E, g, h)
  PROVE  \A s \in D : g[s] = h[s]
<1>0. /\ D \subseteq E /\ Sums(f, D, g) /\ Sums(f, E, h)
      /\ \A s \in D : IsFiniteSet(s) /\ s \ {First(s)} \in D
  BY DEF Nested
<1> DEFINE T == {n \in Nat : \E s \in D : Cardinality(s) = n /\ g[s] # h[s]}
<1>1. SUFFICES ASSUME T # {} PROVE FALSE
  BY <1>0, FS_CardinalityType
<1>2. PICK n \in T : \A y \in T : ~(y < n)
  <2>1. T \subseteq Nat
    OBVIOUS
  <2> QED
    BY LeastNat, <1>1, <2>1, Zenon
<1>3. PICK s \in D : Cardinality(s) = n /\ g[s] # h[s]
  BY <1>2
<1> HIDE DEF T
<1>4. g[s] = IF s = {} THEN 0 ELSE f[First(s)] + g[s \ {First(s)}]
  BY <1>0, Zenon DEF Sums
<1>5. h[s] = IF s = {} THEN 0 ELSE f[First(s)] + h[s \ {First(s)}]
  <2>1. s \in E
    BY <1>0
  <2> QED
    BY <1>0, <2>1, Zenon DEF Sums
<1>6. s # {} /\ g[s \ {First(s)}] # h[s \ {First(s)}]
  BY <1>3, <1>4, <1>5
<1>7. IsFiniteSet(s) /\ s \ {First(s)} \in D
  BY <1>0
<1>8. Cardinality(s \ {First(s)}) \in Nat /\ Cardinality(s \ {First(s)}) < n /\ n \in Nat
  <2>1. n \in Nat
    BY DEF T
  <2>2. /\ Cardinality(s) \in Nat /\ Cardinality(s \ {First(s)}) \in Nat
        /\ Cardinality(s \ {First(s)}) = Cardinality(s) - 1
    BY <1>6, <1>7, FirstRemoved
  <2> QED
    BY <1>3, <2>1, <2>2
<1> QED
  BY <1>2, <1>3, <1>6, <1>7, <1>8 DEF T

\* What the sum does with the empty set and with the element it begins with.
LEMMA TotalStep ==
  ASSUME NEW f, NEW S, IsFiniteSet(S)
  PROVE  Total(f, S) = IF S = {} THEN 0 ELSE f[First(S)] + Total(f, S \ {First(S)})
<1> DEFINE G(R) == CHOOSE g : Sums(f, SUBSET R, g)
<1>1. ASSUME NEW R, IsFiniteSet(R) PROVE Sums(f, SUBSET R, G(R))
  <2>1. Cardinality(R) \in Nat
    BY <1>1, FS_CardinalityType
  <2>2. Small(R, Cardinality(R)) = SUBSET R
    BY <1>1, <2>1, FS_Subset, FS_CardinalityType DEF Small
  <2>3. \E g : Sums(f, Small(R, Cardinality(R)), g)
    BY <1>1, <2>1, SumsExist, Zenon
  <2>4. \E g : Sums(f, SUBSET R, g)
    BY <2>2, <2>3
  <2> QED
    BY <2>4, Zenon
<1>2. \A R : Total(f, R) = G(R)[R]
  BY TotalIs
<1> HIDE DEF G
<1> DEFINE R == S \ {First(S)}
           a == G(R)
           b == G(S)
           D == SUBSET R
           E == SUBSET S
<1>3. Sums(f, E, b) /\ S \in E
  BY <1>1
<1>4. S # {} => IsFiniteSet(R) /\ R \subseteq S
  BY FirstRemoved
<1>5. S # {} => Sums(f, D, a)
  BY <1>1, <1>4
<1>6. S # {} => D \subseteq E /\ R \in D /\ \A s \in D : IsFiniteSet(s) /\ s \ {First(s)} \in D
  BY <1>4, FS_Subset
<1>7. Total(f, S) = b[S] /\ Total(f, R) = a[R]
  BY <1>2
<1> HIDE DEF D, E, a, b
<1>8. b[S] = IF S = {} THEN 0 ELSE f[First(S)] + b[R]
  BY <1>3, Zenon DEF R, Sums
<1> HIDE DEF R
<1>9. S # {} => a[R] = b[R]
  <2> SUFFICES ASSUME S # {} PROVE a[R] = b[R]
    OBVIOUS
  <2>1. Nested(f, D, E, a, b)
    BY <1>3, <1>5, <1>6 DEF Nested
  <2>2. \A s \in D : a[s] = b[s]
    BY <2>1, SumsAgree
  <2> QED
    BY <1>6, <2>2
<1>10. Total(f, S) = IF S = {} THEN 0 ELSE f[First(S)] + Total(f, R)
  BY <1>7, <1>8, <1>9
<1> QED
  BY <1>10 DEF R

\* Among the subsets of a finite set that are in B one is minimal: what is true
\* of a set if it is true without one of its elements is true of every set.
LEMMA MinimalSubset ==
  ASSUME NEW S, IsFiniteSet(S), NEW B, B \subseteq SUBSET S, B # {}
  PROVE  \E R \in B : \A x \in R : R \ {x} \notin B
<1> DEFINE T == {n \in Nat : \E R \in B : Cardinality(R) = n}
<1>1. \A R \in SUBSET S : IsFiniteSet(R) /\ Cardinality(R) \in Nat
  BY FS_Subset, FS_CardinalityType
<1>2. T # {} /\ T \subseteq Nat
  BY <1>1
<1>3. PICK n \in T : \A y \in T : ~(y < n)
  BY <1>2, LeastNat, Zenon
<1>4. n \in Nat /\ \E R \in B : Cardinality(R) = n
  OBVIOUS
<1>5. PICK R \in B : Cardinality(R) = n
  BY <1>4
<1>6. ASSUME NEW x \in R PROVE R \ {x} \notin B
  <2>1. IsFiniteSet(R)
    BY <1>1
  <2>2. Cardinality(R \ {x}) = n - 1 /\ IsFiniteSet(R \ {x})
    BY <1>5, <2>1, FS_RemoveElement
  <2>3. n - 1 \in Nat
    BY <2>2, FS_CardinalityType
  <2>4. R \ {x} \in B => n - 1 \in T
    BY <2>2, <2>3
  <2> QED
    BY <1>3, <1>4, <2>3, <2>4
<1> QED
  BY <1>6

\* The sum of integers is one.
LEMMA TotalInt ==
  ASSUME NEW f, NEW S, IsFiniteSet(S), \A x \in S : f[x] \in Int
  PROVE  Total(f, S) \in Int
<1> DEFINE B == {R \in SUBSET S : Total(f, R) \notin Int}
<1>1. SUFFICES ASSUME B # {} PROVE FALSE
  OBVIOUS
<1>2. PICK R \in B : \A x \in R : R \ {x} \notin B
  <2>1. B \subseteq SUBSET S
    OBVIOUS
  <2> HIDE DEF B
  <2> QED
    BY <1>1, <2>1, MinimalSubset, Zenon
<1>3. R \subseteq S /\ IsFiniteSet(R)
  BY FS_Subset
<1>4. Total(f, R) = IF R = {} THEN 0 ELSE f[First(R)] + Total(f, R \ {First(R)})
  BY <1>3, TotalStep
<1>5. R # {} => First(R) \in R
  BY DEF First
<1>6. R # {} => Total(f, R \ {First(R)}) \in Int /\ f[First(R)] \in Int
  BY <1>2, <1>3, <1>5
<1>7. Total(f, R) \in Int
  BY <1>4, <1>6
<1> QED
  BY <1>7

\* It is that of the values: functions that agree on S have the same sum.
LEMMA TotalSame ==
  ASSUME NEW f, NEW g, NEW S, IsFiniteSet(S), \A x \in S : f[x] = g[x]
  PROVE  Total(f, S) = Total(g, S)
<1> DEFINE B == {R \in SUBSET S : Total(f, R) # Total(g, R)}
<1>1. SUFFICES ASSUME B # {} PROVE FALSE
  OBVIOUS
<1>2. PICK R \in B : \A x \in R : R \ {x} \notin B
  <2>1. B \subseteq SUBSET S
    OBVIOUS
  <2> HIDE DEF B
  <2> QED
    BY <1>1, <2>1, MinimalSubset, Zenon
<1>3. R \subseteq S /\ IsFiniteSet(R)
  BY FS_Subset
<1>4. /\ Total(f, R) = IF R = {} THEN 0 ELSE f[First(R)] + Total(f, R \ {First(R)})
      /\ Total(g, R) = IF R = {} THEN 0 ELSE g[First(R)] + Total(g, R \ {First(R)})
  BY <1>3, TotalStep
<1>5. R # {} => First(R) \in R
  BY DEF First
<1>6. R # {} => Total(f, R \ {First(R)}) = Total(g, R \ {First(R)}) /\ f[First(R)] = g[First(R)]
  BY <1>2, <1>3, <1>5
<1>7. Total(f, R) = Total(g, R)
  BY <1>4, <1>6
<1> QED
  BY <1>7

\* One element more.
LEMMA TotalInsert ==
  ASSUME NEW f, NEW S, IsFiniteSet(S), \A x \in S : f[x] \in Int,
         NEW A \in SUBSET S, NEW z \in S \ A
  PROVE  Total(f, A \cup {z}) = Total(f, A) + f[z]
<1> DEFINE B == {R \in SUBSET S : \E x \in S \ R : Total(f, R \cup {x}) # Total(f, R) + f[x]}
<1>1. SUFFICES ASSUME B # {} PROVE FALSE
  OBVIOUS
<1>2. PICK R \in B : \A x \in R : R \ {x} \notin B
  <2>1. B \subseteq SUBSET S
    OBVIOUS
  <2> HIDE DEF B
  <2> QED
    BY <1>1, <2>1, MinimalSubset, Zenon
<1>3. R \in SUBSET S
  OBVIOUS
<1>4. PICK x \in S \ R : Total(f, R \cup {x}) # Total(f, R) + f[x]
  OBVIOUS
<1>5. ASSUME NEW y \in R, NEW w \in S, w \notin R \ {y}
      PROVE  Total(f, (R \ {y}) \cup {w}) = Total(f, R \ {y}) + f[w]
  <2>1. R \ {y} \in SUBSET S /\ R \ {y} \notin B
    BY <1>2, <1>3
  <2> QED
    BY <1>5, <2>1
<1> HIDE DEF B
<1> DEFINE Q == R \cup {x}
           y == First(Q)
<1>6. IsFiniteSet(Q) /\ IsFiniteSet(R) /\ Q \subseteq S /\ Q # {}
  BY <1>3, FS_Subset
<1>7. y \in Q /\ Total(f, Q) = f[y] + Total(f, Q \ {y})
  <2>1. y \in Q
    BY <1>6 DEF First
  <2> QED
    BY <1>6, <2>1, TotalStep
<1> HIDE DEF y
<1>8. \A P \in SUBSET S : Total(f, P) \in Int
  BY TotalInt, FS_Subset
<1>9. CASE y = x
  <2>1. Q \ {y} = R
    BY <1>9
  <2>2. Total(f, R) \in Int /\ f[x] \in Int
    BY <1>3, <1>8
  <2>3. f[y] = f[x]
    BY <1>9
  <2>4. Total(f, Q) = f[x] + Total(f, R)
    BY <1>7, <2>1, <2>3
  <2>5. Total(f, Q) = Total(f, R) + f[x]
    BY <2>2, <2>4
  <2> QED
    BY <1>4, <2>5
<1>10. CASE y # x
  <2>1. y \in R /\ y \in S /\ x \notin R \ {y} /\ y \notin R \ {y}
    BY <1>3, <1>7, <1>10
  <2>2. Q \ {y} = (R \ {y}) \cup {x} /\ (R \ {y}) \cup {y} = R
    BY <1>10, <2>1
  <2>3. Total(f, Q \ {y}) = Total(f, R \ {y}) + f[x]
    BY <1>5, <2>1, <2>2
  <2>4. Total(f, R) = Total(f, R \ {y}) + f[y]
    BY <1>5, <2>1, <2>2
  <2>5. Total(f, R \ {y}) \in Int /\ f[x] \in Int /\ f[y] \in Int
    BY <1>3, <1>8, <2>1
  <2>6. Total(f, Q) = Total(f, R) + f[x]
    BY <1>7, <2>3, <2>4, <2>5
  <2> QED
    BY <1>4, <2>6
<1> QED
  BY <1>9, <1>10

\* One value changed.
LEMMA TotalChange ==
  ASSUME NEW f, NEW g, NEW S, IsFiniteSet(S), \A x \in S : f[x] \in Int /\ g[x] \in Int,
         NEW z \in S, \A x \in S : x # z => f[x] = g[x]
  PROVE  Total(g, S) = Total(f, S) + g[z] - f[z]
<1> DEFINE A == S \ {z}
<1>1. A \in SUBSET S /\ z \in S \ A /\ A \cup {z} = S /\ IsFiniteSet(A)
  BY FS_Subset
<1>2. \A x \in A : f[x] = g[x]
  OBVIOUS
<1> HIDE DEF A
<1>3. Total(f, S) = Total(f, A) + f[z] /\ Total(g, S) = Total(g, A) + g[z]
  BY <1>1, TotalInsert
<1>4. Total(f, A) = Total(g, A)
  BY <1>1, <1>2, TotalSame
<1>5. Total(f, A) \in Int /\ f[z] \in Int /\ g[z] \in Int
  BY <1>1, TotalInt
<1> QED
  BY <1>3, <1>4, <1>5

\* A sum of zeros.
LEMMA TotalZero ==
  ASSUME NEW f, NEW S, IsFiniteSet(S), \A x \in S : f[x] = 0
  PROVE  Total(f, S) = 0
<1> DEFINE B == {R \in SUBSET S : Total(f, R) # 0}
<1>1. SUFFICES ASSUME B # {} PROVE FALSE
  OBVIOUS
<1>2. PICK R \in B : \A x \in R : R \ {x} \notin B
  <2>1. B \subseteq SUBSET S
    OBVIOUS
  <2> HIDE DEF B
  <2> QED
    BY <1>1, <2>1, MinimalSubset, Zenon
<1>3. R \subseteq S /\ IsFiniteSet(R)
  BY FS_Subset
<1>4. Total(f, R) = IF R = {} THEN 0 ELSE f[First(R)] + Total(f, R \ {First(R)})
  BY <1>3, TotalStep
<1>5. R # {} => First(R) \in R
  BY DEF First
<1>6. R # {} => Total(f, R \ {First(R)}) = 0 /\ f[First(R)] = 0
  BY <1>2, <1>3, <1>5
<1> QED
  BY <1>4, <1>6

-----------------------------------------------------------------------------
(* What small changes of the record leave as it is.                        *)

\* Fields the trajectories are about; the others may change freely.
SameTrajectories(s, t) ==
  /\ t.active = s.active /\ t.delayed = s.delayed /\ t.turns = s.turns
  /\ t.failed = s.failed /\ t.stopping = s.stopping /\ t.error = s.error
  /\ t.started = s.started /\ t.left = s.left /\ t.untracked = s.untracked
  /\ t.inflight = s.inflight
  /\ \A q \in s.inflight : t.conv[q] = s.conv[q]

\* A change of other fields keeps what Running says of the trajectories.
LEMMA TrajectoriesKept ==
  ASSUME NEW s, NEW t, NEW v, NEW X, SameTrajectories(s, t),
         Cursors(s), Working(s, X), Slots(s, v), Fresh(s)
  PROVE  Cursors(t) /\ Working(t, X) /\ Slots(t, v) /\ Fresh(t)
<1> USE DEF SameTrajectories
<1>1. Active(t) = Active(s) /\ \A l \in Logical : Busy(t, l) <=> Busy(s, l)
  BY DEF Active, Busy
<1>2. Draws(t) = Draws(s) /\ \A l \in Logical : Unstarted(t, l) <=> Unstarted(s, l)
  BY DEF Draws, Unstarted
<1>3. Cursors(t)
  BY <1>1 DEF Cursors, Cursor
<1>4. Working(t, X)
  BY <1>1 DEF Working, Active
<1>5. Slots(t, v)
  BY <1>1 DEF Slots
<1>6. Fresh(t)
  BY <1>1, <1>2 DEF Fresh
<1> QED
  BY <1>3, <1>4, <1>5, <1>6

\* The queries' part does not depend on _all_done, nor on the cursors.
LEMMA QueriesKept ==
  ASSUME NEW s, NEW t, QueriesFit(s), Counted(s), t \in State,
         t.wire = s.wire, t.skipped = s.skipped, t.inflight = s.inflight,
         t.timers = s.timers, t.conv = s.conv, t.ends = s.ends, t.pending = s.pending
  PROVE  QueriesFit(t) /\ Counted(t)
  BY DEF QueriesFit, Counted, Owed

\* A turn in flight is of a trajectory.
LEMMA InflightNamed ==
  ASSUME NEW s, QueriesFit(s)
  PROVE  /\ Len(s.conv) \in Nat
         /\ \A q \in 1..Len(s.conv) : s.conv[q] \in Logical /\ s.ends[q] \in Nat
         /\ \A q \in s.inflight : q \in 1..Len(s.conv) /\ s.conv[q] \in Logical
<1>1. s.conv \in Seq(Logical) /\ s.ends \in Seq(Nat) /\ Len(s.ends) = Len(s.conv)
  BY DEF QueriesFit, State
<1>2. \A q \in s.inflight : q \in 1..Len(s.conv)
  BY DEF QueriesFit, Owed
<1> QED
  BY <1>1, <1>2

\* Setting _all_done changes nothing the invariant is about.
LEMMA DoneKeeps ==
  ASSUME NEW s, NEW v, NEW X, NEW b \in BOOLEAN, Running(s, v, X)
  PROVE  Running([s EXCEPT !.done = b], v, X)
<1> DEFINE t == [s EXCEPT !.done = b]
<1>1. s \in State
  BY DEF Running, QueriesFit
<1>2. t \in State
  BY <1>1 DEF State
<1>3. QueriesFit(t) /\ Counted(t)
  <2>1. /\ t.wire = s.wire /\ t.skipped = s.skipped /\ t.inflight = s.inflight
        /\ t.timers = s.timers /\ t.conv = s.conv /\ t.ends = s.ends /\ t.pending = s.pending
    BY <1>1 DEF State
  <2> QED
    BY <1>2, <2>1, QueriesKept DEF Running
<1>4. SameTrajectories(s, t)
  BY <1>1 DEF State, SameTrajectories
<1> HIDE DEF t
<1>5. Cursors(t) /\ Working(t, X) /\ Slots(t, v) /\ Fresh(t)
  BY <1>4, TrajectoriesKept DEF Running
<1>6. Running(t, v, X)
  BY <1>3, <1>5 DEF Running
<1> QED
  BY <1>6 DEF t

\* So does _signal_if_idle.
LEMMA SignalKeeps ==
  ASSUME NEW s, NEW v, NEW X, Running(s, v, X)
  PROVE  Running(SignalIfIdle(s), v, X)
<1> DEFINE b == s.done \/ s.inflight = {}
<1>1. b \in BOOLEAN
  OBVIOUS
<1>2. SignalIfIdle(s) = [s EXCEPT !.done = b]
  BY DEF SignalIfIdle
<1> HIDE DEF b
<1> QED
  BY <1>1, <1>2, DoneKeeps

\* A strategy that was told to stop has no active conversations, so nothing of
\* them has to be under way, and no slot is counted.
LEMMA StoppedKeeps ==
  ASSUME NEW s, NEW v \in Nat, NEW w \in Nat, NEW X, NEW Y,
         Running(s, v, X), s.stopping, w <= v \/ w <= 1
  PROVE  Running(s, w, Y)
<1>1. Active(s) = {}
  BY DEF Running, Cursors
<1>2. Cardinality(Active(s)) = 0
  BY <1>1, FS_EmptySet
<1>3. Slots(s, w)
  BY <1>2, Bounds DEF Running, Slots
<1>4. Working(s, Y)
  BY <1>1 DEF Working
<1> QED
  BY <1>3, <1>4 DEF Running

\* The stop itself.
LEMMA StopRuns ==
  ASSUME NEW s, NEW v \in Nat, NEW w \in Nat, NEW X, NEW Y,
         Running(s, v, X), w <= v \/ w <= 1
  PROVE  Running(RequestStop(s), w, Y)
<1>1. s \in State
  BY DEF Running, QueriesFit
<1>2. CASE s.stopping
  <2>1. Running(s, w, Y)
    BY <1>2, StoppedKeeps
  <2> QED
    BY <1>2, <2>1, SignalKeeps DEF RequestStop
<1>3. CASE ~s.stopping
  <2> DEFINE t == [s EXCEPT !.stopping = TRUE,
                            !.delayed  = [l \in Logical |-> Absent],
                            !.active   = [l \in Logical |-> Absent]]
  <2>1. t \in State
    <3>1. [l \in Logical |-> Absent] \in [Logical -> Int]
      BY DEF Absent
    <3> QED
      BY <1>1, <3>1 DEF State
  <2>2. /\ t.wire = s.wire /\ t.skipped = s.skipped /\ t.inflight = s.inflight
        /\ t.timers = s.timers /\ t.conv = s.conv /\ t.ends = s.ends /\ t.pending = s.pending
    BY <1>1 DEF State
  <2>3. /\ t.turns = s.turns /\ t.failed = s.failed /\ t.error = s.error
        /\ t.started = s.started /\ t.left = s.left /\ t.untracked = s.untracked
        /\ t.stopping = TRUE
        /\ \A l \in Logical : t.active[l] = Absent /\ t.delayed[l] = Absent
    BY <1>1 DEF State
  <2>4. RequestStop(s) = SignalIfIdle(t)
    BY <1>3 DEF RequestStop
  <2> HIDE DEF t
  <2>5. QueriesFit(t) /\ Counted(t)
    BY <2>1, <2>2, QueriesKept DEF Running
  <2>6. Active(t) = {}
    BY <2>3 DEF Active
  <2>7. \A l \in Logical : Busy(t, l) <=> Busy(s, l)
    BY <2>2 DEF Busy
  <2>8. Cursors(t)
    BY <2>2, <2>3, <2>6, <2>7 DEF Running, Cursors, Cursor
  <2>9. Working(t, Y)
    BY <2>6 DEF Working
  <2>10. Slots(t, w)
    <3>1. Cardinality(Active(t)) = 0
      BY <2>6, FS_EmptySet
    <3>2. Cardinality(Active(s)) \in Nat
      BY LogicalFinite DEF Active
    <3>3. w <= InitialConversations
      BY <3>2, Bounds DEF Running, Slots
    <3>4. t.untracked => t.started = Budget
      BY <2>3 DEF Running, Slots
    <3> QED
      BY <2>3, <3>1, <3>3, <3>4, Bounds DEF Slots
  <2>11. Fresh(t)
    BY <2>3, <2>7 DEF Running, Fresh, Draws, Unstarted
  <2>12. Running(t, w, Y)
    BY <2>5, <2>8, <2>9, <2>10, <2>11 DEF Running
  <2> QED
    BY <2>4, <2>12, SignalKeeps
<1> QED
  BY <1>2, <1>3

\* The handle of a delayed turn is dropped when the turn begins.
LEMMA UndelayRuns ==
  ASSUME NEW s, NEW v, NEW X, NEW l \in Logical, Running(s, v, X)
  PROVE  /\ Running([s EXCEPT !.delayed[l] = Absent], v, X \cup {l})
         /\ \A k : Busy([s EXCEPT !.delayed[l] = Absent], k) <=> Busy(s, k)
<1> DEFINE t == [s EXCEPT !.delayed[l] = Absent]
<1>1. s \in State
  BY DEF Running, QueriesFit
<1>2. t \in State
  <2>1. Absent \in Int
    BY DEF Absent
  <2>2. [s.delayed EXCEPT ![l] = Absent] \in [Logical -> Int]
    BY <1>1, <2>1 DEF State
  <2> QED
    BY <1>1, <2>2 DEF State
<1>3. /\ t.wire = s.wire /\ t.skipped = s.skipped /\ t.inflight = s.inflight
      /\ t.timers = s.timers /\ t.conv = s.conv /\ t.ends = s.ends /\ t.pending = s.pending
  BY <1>1 DEF State
<1>4. /\ t.turns = s.turns /\ t.failed = s.failed /\ t.error = s.error
      /\ t.started = s.started /\ t.left = s.left /\ t.untracked = s.untracked
      /\ t.stopping = s.stopping /\ t.active = s.active
      /\ \A k \in Logical : t.delayed[k] = IF k = l THEN Absent ELSE s.delayed[k]
  BY <1>1 DEF State
<1> HIDE DEF t
<1>5. QueriesFit(t) /\ Counted(t)
  BY <1>2, <1>3, QueriesKept DEF Running
<1>6. Active(t) = Active(s) /\ \A k : Busy(t, k) <=> Busy(s, k)
  BY <1>3, <1>4 DEF Active, Busy
<1>7. Cursors(t)
  BY <1>3, <1>4, <1>6 DEF Running, Cursors, Cursor
<1>8. Working(t, X \cup {l})
  BY <1>4, <1>6 DEF Running, Working, Active
<1>9. Slots(t, v)
  BY <1>4, <1>6 DEF Running, Slots
<1>10. Fresh(t)
  BY <1>4, <1>6 DEF Running, Fresh, Draws, Unstarted
<1>11. Running(t, v, X \cup {l})
  BY <1>5, <1>7, <1>8, <1>9, <1>10 DEF Running
<1> QED
  BY <1>6, <1>11 DEF t

-----------------------------------------------------------------------------
(* Queries are drawn and issued.                                           *)

\* n new queries of l: they come after the old ones, and nothing else changes.
LEMMA DrawnIs ==
  ASSUME NEW s, NEW l \in Logical, NEW n \in Nat, QueriesFit(s)
  PROVE  LET d == Drawn(s, l, n)
         IN  /\ d \in State
             /\ Len(d.conv) = Len(s.conv) + n /\ Len(d.ends) = Len(d.conv)
             /\ Len(s.conv) \in Nat
             /\ \A q \in 1..Len(s.conv) : d.conv[q] = s.conv[q] /\ d.ends[q] = s.ends[q]
             /\ \A q \in (Len(s.conv) + 1)..(Len(s.conv) + n) : d.conv[q] = l /\ d.ends[q] = 0
             /\ SameTrajectories(s, d)
             /\ d.wire = s.wire /\ d.skipped = s.skipped /\ d.timers = s.timers
             /\ d.issued = s.issued /\ d.pending = s.pending
<1> DEFINE cs == [i \in 1..n |-> l]
<1> DEFINE es == [i \in 1..n |-> 0]
<1> DEFINE d == [s EXCEPT !.conv = s.conv \o cs, !.ends = s.ends \o es]
<1>1. s \in State /\ s.conv \in Seq(Logical) /\ s.ends \in Seq(Nat)
  BY DEF QueriesFit, State
<1>2. cs \in Seq(Logical) /\ es \in Seq(Nat) /\ Len(cs) = n /\ Len(es) = n
  OBVIOUS
<1>3. Drawn(s, l, n) = d
  BY DEF Drawn
<1>4. /\ s.conv \o cs \in Seq(Logical) /\ Len(s.conv \o cs) = Len(s.conv) + n
      /\ s.ends \o es \in Seq(Nat) /\ Len(s.ends \o es) = Len(s.ends) + n
      /\ Len(s.conv) \in Nat
  BY <1>1, <1>2, ConcatProperties, LenProperties
<1>5. /\ \A q \in 1..Len(s.conv) : (s.conv \o cs)[q] = s.conv[q] /\ (s.ends \o es)[q] = s.ends[q]
      /\ \A q \in (Len(s.conv) + 1)..(Len(s.conv) + n) : (s.conv \o cs)[q] = l /\ (s.ends \o es)[q] = 0
  BY <1>1, <1>2, <1>4, ConcatProperties DEF QueriesFit
<1> HIDE DEF cs, es
<1>6. d \in State
  BY <1>1, <1>4 DEF State
<1>7. d.conv = s.conv \o cs /\ d.ends = s.ends \o es
  BY <1>1 DEF State
<1>8. /\ d.wire = s.wire /\ d.skipped = s.skipped /\ d.timers = s.timers
      /\ d.issued = s.issued /\ d.pending = s.pending
      /\ d.inflight = s.inflight
  BY <1>1 DEF State
<1>9. \A q \in s.inflight : q \in 1..Len(s.conv)
  BY DEF QueriesFit, Owed
<1>10. SameTrajectories(s, d)
  BY <1>1, <1>5, <1>7, <1>9 DEF State, SameTrajectories
<1> HIDE DEF d
<1> QED
  BY <1>3, <1>4, <1>5, <1>6, <1>7, <1>8, <1>10 DEF QueriesFit

\* A query that is drawn and not handed over belongs to nobody; the exception
\* ends execute().
LEMMA FailureRuns ==
  ASSUME NEW s, NEW v, NEW X, NEW Y, NEW l \in Logical, Running(s, v, X)
  PROVE  Running(Fails(Drawn(s, l, 1)), v, Y)
<1> DEFINE d == Drawn(s, l, 1)
<1> DEFINE t == Fails(d)
<1>0. QueriesFit(s) /\ Counted(s)
  BY DEF Running
<1>1. /\ d \in State
      /\ Len(d.conv) = Len(s.conv) + 1 /\ Len(d.ends) = Len(d.conv)
      /\ Len(s.conv) \in Nat
      /\ \A q \in 1..Len(s.conv) : d.conv[q] = s.conv[q] /\ d.ends[q] = s.ends[q]
      /\ \A q \in (Len(s.conv) + 1)..(Len(s.conv) + 1) : d.conv[q] = l /\ d.ends[q] = 0
      /\ SameTrajectories(s, d)
      /\ d.wire = s.wire /\ d.skipped = s.skipped /\ d.timers = s.timers
      /\ d.issued = s.issued /\ d.pending = s.pending
  BY <1>0, DrawnIs
<1> HIDE DEF d
<1>2. t \in State
  BY <1>1 DEF State, Fails
<1>3. /\ t.conv = d.conv /\ t.ends = d.ends /\ t.wire = d.wire /\ t.skipped = d.skipped
      /\ t.timers = d.timers /\ t.inflight = d.inflight /\ t.pending = d.pending
      /\ t.active = d.active /\ t.delayed = d.delayed /\ t.turns = d.turns
      /\ t.failed = d.failed /\ t.stopping = d.stopping /\ t.error = TRUE
      /\ t.started = d.started /\ t.left = d.left /\ t.untracked = d.untracked
  BY <1>1 DEF State, Fails
<1> HIDE DEF t
<1>4. QueriesFit(t)
  BY <1>0, <1>1, <1>2, <1>3 DEF QueriesFit, Owed, SameTrajectories
<1>5. Counted(t)
  <2>1. Owed(t) = Owed(s) /\ Owed(s) \subseteq 1..Len(s.conv)
    BY <1>0, <1>1, <1>3 DEF Owed, QueriesFit
  <2>2. \A q \in 1..Len(t.conv) : q \in 1..Len(s.conv) \/ t.ends[q] = 0
    BY <1>1, <1>3
  <2> QED
    BY SMTT(60), <1>0, <1>1, <1>3, <2>1, <2>2 DEF Counted, QueriesFit
<1>6. Cursors(d) /\ Slots(d, v) /\ Fresh(d)
  BY <1>1, TrajectoriesKept DEF Running
<1>7. /\ Active(t) = Active(d) /\ Draws(t) = Draws(d)
      /\ \A k \in Logical : (Busy(t, k) <=> Busy(d, k)) /\ (Unstarted(t, k) <=> Unstarted(d, k))
  BY <1>3 DEF Active, Busy, Draws, Unstarted
<1>8. Cursors(t)
  BY <1>3, <1>6, <1>7 DEF Cursors, Cursor
<1>9. Slots(t, v) /\ Working(t, Y) /\ Fresh(t)
  BY <1>3, <1>6, <1>7 DEF Slots, Working, Fresh
<1>10. Running(t, v, Y)
  BY <1>4, <1>5, <1>8, <1>9 DEF Running
<1> QED
  BY <1>10 DEF t, d

\* A query that is handed over makes its conversation busy.
LEMMA IssueRuns ==
  ASSUME NEW s, NEW v, NEW l \in Logical, NEW ok \in BOOLEAN, Running(s, v, {l}),
         s.active[l] # Absent, s.active[l] < Turns[l[1]], ~Busy(s, l), s.delayed[l] = Absent,
         ~s.stopping
  PROVE  Running(Issue(s, l, ok), v, {})
<1>0. QueriesFit(s) /\ Counted(s) /\ s \in State
  BY DEF Running, QueriesFit
<1> DEFINE q == Len(s.conv) + 1
<1> DEFINE d == Drawn(s, l, 1)
<1>1. /\ d \in State
      /\ Len(d.conv) = q /\ Len(d.ends) = q
      /\ Len(s.conv) \in Nat
      /\ \A r \in 1..Len(s.conv) : d.conv[r] = s.conv[r] /\ d.ends[r] = s.ends[r]
      /\ d.conv[q] = l /\ d.ends[q] = 0
      /\ SameTrajectories(s, d)
      /\ d.wire = s.wire /\ d.skipped = s.skipped /\ d.timers = s.timers
      /\ d.issued = s.issued /\ d.pending = s.pending
  BY <1>0, DrawnIs DEF SameTrajectories
<1>2. CASE ~ok
  BY <1>2, FailureRuns DEF Issue
<1>3. CASE ok
  <2> DEFINE t == [d EXCEPT !.active[l] = @ + 1,
                            !.inflight  = @ \cup {q},
                            !.timers    = @ \cup {q},
                            !.wire      = @ \cup {q},
                            !.pending   = @ + 1,
                            !.issued    = @ + 1]
  <2>1. Issue(s, l, ok) = t
    BY <1>3 DEF Issue
  <2> HIDE DEF d
  <2>2. q \in Nat /\ d.active[l] + 1 \in Int
    BY SMTT(60), <1>1 DEF State
  <2> HIDE DEF q
  <2>3. t \in State
    <3>1. [d.active EXCEPT ![l] = @ + 1] \in [Logical -> Int]
      BY <1>1, <2>2 DEF State
    <3>2. /\ d.inflight \cup {q} \in SUBSET Nat /\ d.timers \cup {q} \in SUBSET Nat
          /\ d.wire \cup {q} \in SUBSET Nat
          /\ d.pending + 1 \in Nat /\ d.issued + 1 \in Nat
      <4>1. /\ d.inflight \in SUBSET Nat /\ d.timers \in SUBSET Nat
            /\ d.wire \in SUBSET Nat /\ d.pending \in Nat /\ d.issued \in Nat
        BY <1>1 DEF State
      <4> QED
        BY <2>2, <4>1
    <3> QED
      BY ZenonT(60), <1>1, <3>1, <3>2 DEF State
  <2>4. /\ t.conv = d.conv /\ t.ends = d.ends /\ t.skipped = s.skipped
        /\ t.wire = s.wire \cup {q} /\ t.inflight = s.inflight \cup {q}
        /\ t.timers = s.timers \cup {q} /\ t.pending = s.pending + 1
        /\ t.delayed = s.delayed /\ t.turns = s.turns /\ t.failed = s.failed
        /\ t.stopping = s.stopping /\ t.error = s.error /\ t.started = s.started
        /\ t.left = s.left /\ t.untracked = s.untracked
        /\ \A k \in Logical : t.active[k] = IF k = l THEN s.active[l] + 1 ELSE s.active[k]
    BY <1>1 DEF State, SameTrajectories
  <2> HIDE DEF t
  <2>5. q \notin 1..Len(s.conv) /\ 1..q = 1..Len(s.conv) \cup {q} /\ q = Len(s.conv) + 1
    BY <1>1 DEF q
  <2>6. s.wire \subseteq 1..Len(s.conv) /\ s.skipped \subseteq 1..Len(s.conv)
        /\ s.inflight \subseteq 1..Len(s.conv)
    BY <1>0 DEF QueriesFit, Owed
  <2>7. Owed(t) = Owed(s) \cup {q} /\ q \notin Owed(s)
    BY <2>4, <2>5, <2>6 DEF Owed
  <2>8. QueriesFit(t)
    BY <1>0, <1>1, <2>3, <2>4, <2>5, <2>6, <2>7 DEF QueriesFit
  <2>9. Counted(t)
    <3>1. IsFiniteSet(Owed(s))
      <4>1. IsFiniteSet(1..Len(s.conv)) /\ Owed(s) \subseteq 1..Len(s.conv)
        BY <1>1, <2>6, FS_Interval, 1 \in Int, Len(s.conv) \in Int DEF Owed
      <4> QED
        BY <4>1, FS_Subset
    <3>2. Cardinality(Owed(t)) = Cardinality(Owed(s)) + 1
      BY <2>7, <3>1, FS_AddElement
    <3>3. \A r \in 1..Len(s.conv) : t.ends[r] = s.ends[r]
      BY <1>1, <2>4
    <3>4. t.ends[q] = 0 /\ Len(t.conv) = q
      BY <1>1, <2>4
    <3> QED
      BY <1>0, <2>4, <2>5, <2>6, <2>7, <3>2, <3>3, <3>4 DEF Counted, Owed
  <2>10. \A k \in Logical : Busy(t, k) <=> Busy(s, k) \/ k = l
    BY <1>1, <2>4, <2>6 DEF Busy
  <2>11. s.active[l] = s.turns[l] /\ s.turns[l] \in Nat /\ Turns[l[1]] \in Nat
    <3>1. l[1] \in Conv
      BY DEF Logical
    <3> QED
      BY <1>0, <3>1, Bounds DEF Running, Cursors, Cursor, State
  <2>12. Active(t) = Active(s) /\ l \in Active(s)
    BY <2>4, <2>11 DEF Active, Absent
  <2>13. Cursors(t)
    <3>1. \A k \in Logical : Cursor(t, k)
      BY <2>4, <2>10, <2>11 DEF Running, Cursors, Cursor
    <3>2. \A r, w \in t.inflight : t.conv[r] = t.conv[w] => r = w
      BY <1>1, <2>4, <2>6 DEF Running, Cursors, Busy
    <3>3. \A r \in t.inflight : t.active[t.conv[r]] # Absent
      <4>1. ASSUME NEW r \in t.inflight
            PROVE  t.conv[r] \in Active(s)
        <5>1. CASE r = q
          BY <1>1, <2>4, <2>12, <5>1
        <5>2. CASE r # q
          <6>1. r \in s.inflight /\ t.conv[r] = s.conv[r] /\ s.active[s.conv[r]] # Absent
            BY <1>1, <2>4, <2>6, <5>2 DEF Running, Cursors
          <6>2. s.conv[r] \in Logical
            BY <1>0, <2>6, <6>1 DEF State
          <6> QED
            BY <6>1, <6>2 DEF Active
        <5> QED
          BY <5>1, <5>2
      <4> QED
        BY <2>12, <4>1 DEF Active
    <3> QED
      BY <2>4, <3>1, <3>2, <3>3 DEF Cursors
  <2>14. Working(t, {})
    BY <2>4, <2>10, <2>12 DEF Running, Working, Active
  <2>15. Slots(t, v)
    BY <2>4, <2>12 DEF Running, Slots
  <2>16. Fresh(t)
    <3>1. Draws(t) = Draws(s) /\ \A k \in Logical : Unstarted(t, k) <=> Unstarted(s, k)
      BY <2>4 DEF Draws, Unstarted
    <3>2. \A k \in Logical : Unstarted(s, k) => k # l
      BY DEF Running, Fresh
    <3> QED
      BY <2>4, <2>10, <3>1, <3>2 DEF Running, Fresh
  <2>17. Running(t, v, {})
    BY <2>8, <2>9, <2>13, <2>14, <2>15, <2>16 DEF Running
  <2> QED
    BY <2>1, <2>17
<1> QED
  BY <1>2, <1>3

-----------------------------------------------------------------------------
(* Turns, conversations and slots.                                         *)

\* A conversation whose cursor is below its turns and that has none under way
\* gets its next turn, or the strategy is told to stop.
LEMMA TurnRuns ==
  ASSUME NEW s, NEW v \in Nat, NEW l \in Logical, NEW ok \in BOOLEAN, Running(s, v, {l}),
         s.active[l] # Absent, s.active[l] < Turns[l[1]], ~Busy(s, l)
  PROVE  Running(IssueTurnNow(s, l, s.active[l], ok), v, {})
<1> DEFINE t == [s EXCEPT !.delayed[l] = Absent]
<1>1. s \in State
  BY DEF Running, QueriesFit
<1>2. t.active = s.active /\ t.stopping = s.stopping /\ t.delayed[l] = Absent
  BY <1>1 DEF State
<1>3. Running(t, v, {l} \cup {l}) /\ ~Busy(t, l)
  BY UndelayRuns
<1>4. ~s.stopping
  BY DEF Running, Cursors, Active
<1>5. IssueTurnNow(s, l, s.active[l], ok) = IF halted THEN RequestStop(t) ELSE Issue(t, l, ok)
  BY <1>2, <1>4 DEF IssueTurnNow
<1> HIDE DEF t
<1>6. Running(t, v, {l})
  BY <1>3
<1>7. CASE halted
  BY <1>5, <1>6, <1>7, StopRuns
<1>8. CASE ~halted
  BY <1>2, <1>3, <1>4, <1>5, <1>6, <1>8, IssueRuns
<1> QED
  BY <1>7, <1>8

\* The turn may have to wait for its tool.
LEMMA BeginRuns ==
  ASSUME NEW s, NEW v \in Nat, NEW l \in Logical, NEW ok \in BOOLEAN, Running(s, v, {l}),
         s.active[l] # Absent, s.active[l] < Turns[l[1]], ~Busy(s, l)
  PROVE  Running(BeginTurn(s, l, ok), v, {})
<1>1. CASE <<l[1], s.active[l]>> \notin Delayed
  BY <1>1, TurnRuns DEF BeginTurn
<1>2. CASE <<l[1], s.active[l]>> \in Delayed
  <2> DEFINE t == [s EXCEPT !.delayed[l] = s.active[l]]
  <2>1. s \in State
    BY DEF Running, QueriesFit
  <2>2. t \in State
    <3>1. [s.delayed EXCEPT ![l] = s.active[l]] \in [Logical -> Int]
      BY <2>1 DEF State
    <3> QED
      BY <2>1, <3>1 DEF State
  <2>3. /\ t.wire = s.wire /\ t.skipped = s.skipped /\ t.inflight = s.inflight
        /\ t.timers = s.timers /\ t.conv = s.conv /\ t.ends = s.ends /\ t.pending = s.pending
    BY <2>1 DEF State
  <2>4. /\ t.turns = s.turns /\ t.failed = s.failed /\ t.error = s.error
        /\ t.started = s.started /\ t.left = s.left /\ t.untracked = s.untracked
        /\ t.stopping = s.stopping /\ t.active = s.active
        /\ \A k \in Logical : t.delayed[k] = IF k = l THEN s.active[l] ELSE s.delayed[k]
    BY <2>1 DEF State
  <2>5. BeginTurn(s, l, ok) = t
    BY <1>2 DEF BeginTurn
  <2> HIDE DEF t
  <2>6. QueriesFit(t) /\ Counted(t)
    BY <2>2, <2>3, QueriesKept DEF Running
  <2>7. Active(t) = Active(s) /\ \A k \in Logical : Busy(t, k) <=> Busy(s, k)
    BY <2>3, <2>4 DEF Active, Busy
  <2>8. Cursors(t)
    BY <2>3, <2>4, <2>7 DEF Running, Cursors, Cursor
  <2>9. Working(t, {})
    BY <2>4, <2>7 DEF Running, Working, Active
  <2>10. Slots(t, v)
    BY <2>4, <2>7 DEF Running, Slots
  <2>11. Fresh(t)
    BY <2>4, <2>7 DEF Running, Fresh, Draws, Unstarted
  <2>12. Running(t, v, {})
    BY <2>6, <2>8, <2>9, <2>10, <2>11 DEF Running
  <2> QED
    BY <2>5, <2>12
<1> QED
  BY <1>1, <1>2

\* The order yields another source: the trajectory it names is new, and so are
\* those it will name later.
LEMMA DrawRuns ==
  ASSUME NEW s, NEW v \in Nat, NEW src \in Draws(s), Running(s, v + 1, {}),
         ~s.stopping, s.started < Budget
  PROVE  LET l == <<src, s.started \div N + 1>>
             t == [s EXCEPT !.started = @ + 1, !.left = Draws(s) \ {src}, !.active[l] = 0]
         IN  /\ l \in Logical /\ Running(t, v, {l})
             /\ t.active[l] = 0 /\ ~Busy(t, l)
<1> DEFINE k == s.started \div N
<1> DEFINE l == <<src, k + 1>>
<1> DEFINE t == [s EXCEPT !.started = @ + 1, !.left = Draws(s) \ {src}, !.active[l] = 0]
<1>1. s \in State /\ s.started \in Nat /\ Budget \in Nat /\ N \in Nat \ {0}
  BY Bounds DEF Running, QueriesFit, State
<1>2. src \in Conv /\ Draws(s) \subseteq Conv
  BY <1>1 DEF Draws, State
<1>3. l \in Logical
  BY <1>1, <1>2, LogicalNamed
<1>4. k \in Nat
  BY <1>1, DivMod
<1> HIDE DEF k
<1>5. l[1] = src /\ l[2] = k + 1
  OBVIOUS
<1>6. Unstarted(s, l)
  BY <1>5 DEF Unstarted, k
<1> HIDE DEF l
<1>7. s.active[l] = Absent /\ s.turns[l] = 0 /\ ~Busy(s, l)
  BY <1>3, <1>6 DEF Running, Fresh
<1>8. s.delayed[l] = Absent
  BY <1>3, <1>7 DEF Running, Cursors, Cursor
<1>9. t \in State
  <2>1. [s.active EXCEPT ![l] = 0] \in [Logical -> Int]
    <3>1. s.active \in [Logical -> Int] /\ 0 \in Int
      BY <1>1 DEF State
    <3> QED
      BY <3>1
  <2>2. s.started + 1 \in 0..Budget /\ Draws(s) \ {src} \in SUBSET Conv
    BY <1>1, <1>2
  <2> QED
    BY <1>1, <2>1, <2>2 DEF State
<1>10. /\ t.wire = s.wire /\ t.skipped = s.skipped /\ t.inflight = s.inflight
       /\ t.timers = s.timers /\ t.conv = s.conv /\ t.ends = s.ends /\ t.pending = s.pending
  BY <1>1 DEF State
<1>11. /\ t.turns = s.turns /\ t.failed = s.failed /\ t.error = s.error
       /\ t.started = s.started + 1 /\ t.left = Draws(s) \ {src} /\ t.untracked = s.untracked
       /\ t.stopping = s.stopping /\ t.delayed = s.delayed
       /\ \A j \in Logical : t.active[j] = IF j = l THEN 0 ELSE s.active[j]
  BY <1>1 DEF State
<1> HIDE DEF t
<1>12. QueriesFit(t) /\ Counted(t)
  BY <1>9, <1>10, QueriesKept DEF Running
<1>13. \A j \in Logical : Busy(t, j) <=> Busy(s, j)
  BY <1>10 DEF Busy
<1>14. Active(t) = Active(s) \cup {l} /\ l \notin Active(s)
  BY <1>3, <1>7, <1>11 DEF Active, Absent
<1>15. Cardinality(Active(t)) = Cardinality(Active(s)) + 1 /\ Cardinality(Active(s)) \in Nat
  <2>1. IsFiniteSet(Active(s)) /\ Cardinality(Active(s)) \in Nat
    BY LogicalFinite DEF Active
  <2> QED
    BY <1>14, <2>1, FS_AddElement
<1>16. Turns[l[1]] \in Nat \ {0}
  BY <1>2, <1>5, Bounds
<1>17. Cursors(t)
  <2>1. \A j \in Logical : Cursor(t, j)
    BY <1>7, <1>8, <1>11, <1>13 DEF Running, Cursors, Cursor, Absent
  <2>2. \A q \in t.inflight : t.active[t.conv[q]] # Absent
    <3>1. \A q \in s.inflight : s.conv[q] \in Logical
      BY <1>1 DEF Running, QueriesFit, Owed, State
    <3> QED
      BY <1>10, <1>11, <3>1 DEF Running, Cursors, Absent
  <2> QED
    BY <1>10, <1>11, <2>1, <2>2 DEF Running, Cursors
<1>18. Working(t, {l})
  BY <1>11, <1>13, <1>14 DEF Running, Working, Active
<1>19. Slots(t, v)
  BY <1>1, <1>11, <1>15, Bounds DEF Running, Slots
<1>20. Fresh(t)
  <2>1. IsFiniteSet(Draws(s)) /\ Cardinality(Draws(s)) \in Nat
    BY <1>2, Bounds, FS_Subset, FS_CardinalityType
  <2>2. Cardinality(Draws(s) \ {src}) = Cardinality(Draws(s)) - 1
    BY <2>1, FS_RemoveElement
  <2>3. Cardinality(Draws(s)) + (s.started % N) = N /\ s.started % N \in Nat
    <3>1. s.started % N \in Nat
      BY <1>1, DivMod
    <3> QED
      BY <3>1 DEF Running, Fresh
  <2>4. CASE Draws(s) \ {src} = {}
    <3>1. Cardinality(Draws(s)) - 1 = 0
      BY <2>2, <2>4, FS_EmptySet
    <3>2. s.started % N = N - 1
      BY <1>1, <2>1, <2>3, <3>1
    <3>3. (s.started + 1) \div N = k + 1 /\ (s.started + 1) % N = 0
      BY <1>1, <3>2, NextDraw DEF k
    <3>4. Draws(t) = Conv
      BY <1>11, <2>4 DEF Draws
    <3>5. Cardinality(Draws(t)) + (t.started % N) = N
      BY <1>1, <1>11, <3>3, <3>4 DEF N
    <3>6. \A j \in Logical : Unstarted(t, j) => Unstarted(s, j) /\ j # l
      <4>1. \A j \in Logical : Unstarted(t, j) => j[2] >= k + 2
        <5>1. \A j \in Logical : j[2] \in Nat
          BY DEF Logical
        <5> QED
          BY <1>4, <1>11, <3>3, <5>1 DEF Unstarted
      <4>2. \A j \in Logical : j[2] >= k + 2 => j[2] > k + 1 /\ j # l
        <5>1. \A j \in Logical : j[2] \in Nat
          BY DEF Logical
        <5> QED
          BY <1>4, <1>5, <5>1
      <4> QED
        BY <4>1, <4>2 DEF Unstarted, k
    <3> QED
      BY <1>11, <1>13, <3>5, <3>6 DEF Running, Fresh
  <2>5. CASE Draws(s) \ {src} # {}
    <3>1. Cardinality(Draws(s)) - 1 # 0
      <4>1. IsFiniteSet(Draws(s) \ {src})
        BY <2>1, FS_Subset
      <4> QED
        BY <2>2, <2>5, <4>1, FS_EmptySet
    <3>2. s.started % N # N - 1
      BY <1>1, <2>1, <2>3, <3>1
    <3>3. (s.started + 1) \div N = k /\ (s.started + 1) % N = (s.started % N) + 1
      BY <1>1, <3>2, NextDraw DEF k
    <3>4. Draws(t) = Draws(s) \ {src}
      BY <1>11, <2>5 DEF Draws
    <3>5. Cardinality(Draws(t)) + (t.started % N) = N
      BY <1>1, <1>11, <2>1, <2>2, <2>3, <3>3, <3>4
    <3>6. \A j \in Logical : Unstarted(t, j) => Unstarted(s, j) /\ j # l
      BY <1>4, <1>5, <1>11, <3>3, <3>4 DEF Unstarted, k
    <3> QED
      BY <1>11, <1>13, <3>5, <3>6 DEF Running, Fresh
  <2> QED
    BY <2>4, <2>5
<1>21. Running(t, v, {l})
  BY <1>12, <1>17, <1>18, <1>19, <1>20 DEF Running
<1>22. t.active[l] = 0 /\ ~Busy(t, l)
  BY <1>3, <1>7, <1>11, <1>13
<1> QED
  BY <1>3, <1>21, <1>22 DEF t, l, k

\* A conversation starts, unless the strategy is stopping.
LEMMA StartRuns ==
  ASSUME NEW s, NEW v \in Nat, NEW src \in Draws(s), NEW ok \in BOOLEAN,
         Running(s, v + 1, {}), s.started < Budget
  PROVE  Running(StartConversation(s, src, ok), v, {})
<1>1. CASE s.stopping
  <2>1. Running(s, v, {})
    BY <1>1, StoppedKeeps, v + 1 \in Nat
  <2> QED
    BY <1>1, <2>1 DEF StartConversation
<1>2. CASE ~s.stopping
  <2> DEFINE l == <<src, s.started \div N + 1>>
  <2> DEFINE t == [s EXCEPT !.started = @ + 1, !.left = Draws(s) \ {src}, !.active[l] = 0]
  <2>1. StartConversation(s, src, ok) = BeginTurn(t, l, ok)
    BY <1>2 DEF StartConversation
  <2>2. l \in Logical /\ Running(t, v, {l}) /\ t.active[l] = 0 /\ ~Busy(t, l)
    BY <1>2, DrawRuns
  <2> HIDE DEF t
  <2>3. Turns[l[1]] > 0
    <3>1. l[1] \in Conv
      BY <2>2 DEF Logical
    <3> QED
      BY <3>1, Bounds
  <2> HIDE DEF l
  <2>4. t.active[l] # Absent /\ t.active[l] < Turns[l[1]]
    BY <2>2, <2>3 DEF Absent
  <2> QED
    BY <2>1, <2>2, <2>4, BeginRuns
<1> QED
  BY <1>1, <1>2

\* A free slot is filled while the budget lasts.
LEMMA FillRuns ==
  ASSUME NEW s, NEW src \in Draws(s), NEW ok \in BOOLEAN,
         Running(s, 1, {}), HasMore(s) \/ s.untracked
  PROVE  Running(FillSlot(s, src, ok), 0, {})
<1>1. CASE s.stopping
  <2>1. Running(s, 0, {})
    BY <1>1, StoppedKeeps
  <2> QED
    BY <1>1, <2>1, SignalKeeps DEF FillSlot
<1>2. CASE ~s.stopping /\ HasMore(s)
  <2>1. Running(s, 0 + 1, {})
    OBVIOUS
  <2>2. Running(StartConversation(s, src, ok), 0, {})
    BY <1>2, <2>1, StartRuns DEF HasMore
  <2> QED
    BY <1>2, <2>2 DEF FillSlot
<1>3. CASE ~s.stopping /\ ~HasMore(s)
  <2> DEFINE b == s.done \/ ~HasWork(s)
  <2>1. b \in BOOLEAN
    OBVIOUS
  <2>2. FillSlot(s, src, ok) = [s EXCEPT !.done = b]
    BY <1>3 DEF FillSlot
  <2> HIDE DEF b
  <2>3. Cardinality(Active(s)) \in Nat
    BY LogicalFinite DEF Active
  <2>4. Slots(s, 0)
    BY <1>3, <2>3, Bounds DEF Running, Slots
  <2>5. Running(s, 0, {})
    BY <2>4 DEF Running
  <2> QED
    BY <2>1, <2>2, <2>5, DoneKeeps
<1> QED
  BY <1>1, <1>2, <1>3

\* A conversation leaves its slot.
LEMMA VacateRuns ==
  ASSUME NEW s, NEW l \in Logical, Running(s, 0, {l}), ~Busy(s, l), s.delayed[l] = Absent,
         s.stopping \/ s.active[l] # Absent
  PROVE  LET t == [s EXCEPT !.active[l] = Absent]
         IN  /\ Running(t, 1, {}) /\ ~Busy(t, l) /\ t.active[l] = Absent
             /\ Draws(t) = Draws(s) /\ t.turns = s.turns
             /\ Unstarted(t, l) <=> Unstarted(s, l)
<1> DEFINE t == [s EXCEPT !.active[l] = Absent]
<1>1. s \in State
  BY DEF Running, QueriesFit
<1>2. t \in State
  <2>1. s.active \in [Logical -> Int] /\ Absent \in Int
    BY <1>1 DEF State, Absent
  <2>2. [s.active EXCEPT ![l] = Absent] \in [Logical -> Int]
    BY <2>1
  <2> QED
    BY <1>1, <2>2 DEF State
<1>3. /\ t.wire = s.wire /\ t.skipped = s.skipped /\ t.inflight = s.inflight
      /\ t.timers = s.timers /\ t.conv = s.conv /\ t.ends = s.ends /\ t.pending = s.pending
  BY <1>1 DEF State
<1>4. /\ t.turns = s.turns /\ t.failed = s.failed /\ t.error = s.error
      /\ t.started = s.started /\ t.left = s.left /\ t.untracked = s.untracked
      /\ t.stopping = s.stopping /\ t.delayed = s.delayed
      /\ \A k \in Logical : t.active[k] = IF k = l THEN Absent ELSE s.active[k]
  BY <1>1 DEF State
<1> HIDE DEF t
<1>5. QueriesFit(t) /\ Counted(t)
  BY <1>2, <1>3, QueriesKept DEF Running
<1>6. \A k \in Logical : Busy(t, k) <=> Busy(s, k)
  BY <1>3 DEF Busy
<1>7. Active(t) = Active(s) \ {l}
  BY <1>4 DEF Active
<1>8. Cursors(t)
  <2>1. \A k \in Logical : Cursor(t, k)
    BY <1>4, <1>6 DEF Running, Cursors, Cursor
  <2>2. \A q \in t.inflight : s.conv[q] \in Logical /\ s.conv[q] # l
    BY <1>3, InflightNamed DEF Running, Busy
  <2> QED
    BY <1>3, <1>4, <1>7, <2>1, <2>2 DEF Running, Cursors
<1>9. Working(t, {})
  BY <1>4, <1>6, <1>7 DEF Running, Working, Active
<1>10. Slots(t, 1)
  <2>1. IsFiniteSet(Active(s)) /\ Cardinality(Active(s)) \in Nat
    BY LogicalFinite DEF Active
  <2>2. CASE s.active[l] # Absent
    <3>1. Cardinality(Active(t)) = Cardinality(Active(s)) - 1
      <4>1. l \in Active(s)
        BY <2>2 DEF Active
      <4> QED
        BY <1>7, <2>1, <4>1, FS_RemoveElement
    <3> QED
      BY <1>4, <2>1, <3>1, Bounds DEF Running, Slots
  <2>3. CASE s.stopping
    <3>1. Active(t) = {}
      BY <1>7, <2>3 DEF Running, Cursors
    <3>2. Cardinality(Active(t)) = 0
      BY <3>1, FS_EmptySet
    <3> QED
      BY <1>4, <2>3, <3>2, Bounds DEF Running, Slots
  <2> QED
    BY <2>2, <2>3
<1>11. Fresh(t)
  BY <1>4, <1>6 DEF Running, Fresh, Draws, Unstarted
<1>12. Running(t, 1, {})
  BY <1>5, <1>8, <1>9, <1>10, <1>11 DEF Running
<1>13. Draws(t) = Draws(s) /\ (Unstarted(t, l) <=> Unstarted(s, l)) /\ ~Busy(t, l) /\ t.active[l] = Absent
  BY <1>4, <1>6 DEF Draws, Unstarted
<1> QED
  BY <1>4, <1>12, <1>13 DEF t

\* Tracking is stopped once no conversation is left to start.
LEMMA UntrackedRuns ==
  ASSUME NEW t, Running(t, 1, {}), ~HasMore(t)
  PROVE  Running([t EXCEPT !.untracked = TRUE], 1, {})
<1> DEFINE u == [t EXCEPT !.untracked = TRUE]
<1>1. t \in State
  BY DEF Running, QueriesFit
<1>2. u \in State
  BY <1>1 DEF State
<1>3. /\ u.wire = t.wire /\ u.skipped = t.skipped /\ u.inflight = t.inflight
      /\ u.timers = t.timers /\ u.conv = t.conv /\ u.ends = t.ends /\ u.pending = t.pending
      /\ u.turns = t.turns /\ u.failed = t.failed /\ u.error = t.error
      /\ u.started = t.started /\ u.left = t.left /\ u.untracked = TRUE
      /\ u.stopping = t.stopping /\ u.delayed = t.delayed /\ u.active = t.active
  BY <1>1 DEF State
<1> HIDE DEF u
<1>4. QueriesFit(u) /\ Counted(u)
  BY <1>2, <1>3, QueriesKept DEF Running
<1>5. Active(u) = Active(t) /\ \A k \in Logical : Busy(u, k) <=> Busy(t, k)
  BY <1>3 DEF Active, Busy
<1>6. Cursors(u)
  BY <1>3, <1>5 DEF Running, Cursors, Cursor
<1>7. Working(u, {})
  BY <1>3, <1>5 DEF Running, Working, Active
<1>8. Slots(u, 1)
  <2>1. t.started = Budget
    BY <1>1, Bounds DEF HasMore, State
  <2>2. Cardinality(Active(t)) \in Nat
    BY LogicalFinite DEF Active
  <2> QED
    BY <1>3, <1>5, <2>1, <2>2, Bounds DEF Running, Slots
<1>9. Fresh(u)
  BY <1>3, <1>5 DEF Running, Fresh, Draws, Unstarted
<1>10. Running(u, 1, {})
  BY <1>4, <1>6, <1>7, <1>8, <1>9 DEF Running
<1> QED
  BY <1>10 DEF u

\* What _finish_conversation does with a slot that is free.
LEMMA FinishRuns ==
  ASSUME NEW s, NEW l \in Logical, NEW src \in Draws(s), NEW ok \in BOOLEAN,
         Running([s EXCEPT !.active[l] = Absent], 1, {}),
         Draws([s EXCEPT !.active[l] = Absent]) = Draws(s)
  PROVE  Running(FinishConversation(s, l, src, ok), 0, {})
<1> DEFINE t == [s EXCEPT !.active[l] = Absent]
<1> DEFINE u == [t EXCEPT !.untracked = TRUE]
<1>1. FinishConversation(s, l, src, ok) =
        IF HasMore(t) THEN FillSlot(t, src, ok)
        ELSE IF s.stopIssuing THEN RequestStop(u) ELSE FillSlot(u, src, ok)
  BY DEF FinishConversation
<1>2. Running(t, 1, {}) /\ src \in Draws(t)
  OBVIOUS
<1> HIDE DEF t
<1>3. t \in State
  BY <1>2 DEF Running, QueriesFit
<1>4. CASE HasMore(t)
  BY <1>1, <1>2, <1>4, FillRuns
<1>5. CASE ~HasMore(t)
  <2>1. Running(u, 1, {})
    BY <1>2, <1>5, UntrackedRuns
  <2>2. u.untracked /\ src \in Draws(u)
    BY <1>2, <1>3 DEF State, Draws
  <2> HIDE DEF u
  <2>3. Running(RequestStop(u), 0, {})
    BY <2>1, StopRuns
  <2>4. Running(FillSlot(u, src, ok), 0, {})
    BY <2>1, <2>2, FillRuns
  <2> QED
    BY <1>1, <1>5, <2>3, <2>4
<1> QED
  BY <1>4, <1>5

\* _issue_next_turn, after a turn of l was answered.
LEMMA NextTurnRuns ==
  ASSUME NEW s, NEW l \in Logical, NEW src \in Draws(s), NEW ok \in BOOLEAN,
         Running(s, 0, {l}), ~Busy(s, l), s.delayed[l] = Absent, s.stopping \/ s.active[l] # Absent
  PROVE  Running(IssueNextTurn(s, l, src, ok), 0, {})
<1>1. CASE s.stopping \/ s.active[l] = Absent
  <2>1. Running(s, 0, {})
    BY <1>1, StoppedKeeps
  <2> QED
    BY <1>1, <2>1 DEF IssueNextTurn
<1>2. CASE ~s.stopping /\ s.active[l] # Absent /\ s.active[l] >= Turns[l[1]]
  <2> DEFINE t == [s EXCEPT !.active[l] = Absent]
  <2>1. Running(t, 1, {}) /\ Draws(t) = Draws(s)
    BY VacateRuns
  <2>2. Running(FinishConversation(s, l, src, ok), 0, {})
    BY <2>1, FinishRuns
  <2> QED
    BY <1>2, <2>2 DEF IssueNextTurn
<1>3. CASE ~s.stopping /\ s.active[l] # Absent /\ ~(s.active[l] >= Turns[l[1]])
  <2>1. s.active[l] \in Int /\ Turns[l[1]] \in Int
    <3>1. s \in State
      BY DEF Running, QueriesFit
    <3>2. l[1] \in Conv
      BY DEF Logical
    <3> QED
      BY <3>1, <3>2, Bounds DEF State
  <2>2. Running(BeginTurn(s, l, ok), 0, {})
    BY <1>3, <2>1, BeginRuns
  <2> QED
    BY <1>3, <2>2 DEF IssueNextTurn
<1> QED
  BY <1>1, <1>2, <1>3

-----------------------------------------------------------------------------
(* Turns that end, by an answer, a timeout or the failure of an earlier    *)
(* one.                                                                    *)

\* Turns that are counted as failed without having been issued.
LEMMA MarkRuns ==
  ASSUME NEW s, NEW v, NEW l \in Logical, NEW n \in Nat, Running(s, v, {}),
         s.active[l] = Absent, ~Busy(s, l), ~Unstarted(s, l), s.turns[l] + n <= Turns[l[1]]
  PROVE  LET t == MarkTurnFailed(s, l, n)
         IN  Running(t, v, {}) /\ t.active = s.active /\ Draws(t) = Draws(s)
<1> DEFINE t == MarkTurnFailed(s, l, n)
<1>1. s \in State
  BY DEF Running, QueriesFit
<1>2. s.turns[l] \in Nat /\ s.failed[l] \in Nat /\ s.turns \in [Logical -> Nat]
      /\ s.failed \in [Logical -> Nat]
  BY <1>1 DEF State
<1>3. t \in State
  <2>1. /\ [s.turns EXCEPT ![l] = @ + n] \in [Logical -> Nat]
        /\ [s.failed EXCEPT ![l] = @ + n] \in [Logical -> Nat]
    BY <1>2
  <2> QED
    BY <1>1, <2>1 DEF State, MarkTurnFailed
<1>4. /\ t.wire = s.wire /\ t.skipped = s.skipped /\ t.inflight = s.inflight
      /\ t.timers = s.timers /\ t.conv = s.conv /\ t.ends = s.ends /\ t.pending = s.pending
  BY <1>1 DEF State, MarkTurnFailed
<1>5. /\ t.active = s.active /\ t.error = s.error
      /\ t.started = s.started /\ t.left = s.left /\ t.untracked = s.untracked
      /\ t.stopping = s.stopping /\ t.delayed = s.delayed
      /\ \A k \in Logical : t.turns[k] = IF k = l THEN s.turns[l] + n ELSE s.turns[k]
      /\ \A k \in Logical : t.failed[k] = IF k = l THEN s.failed[l] + n ELSE s.failed[k]
  BY <1>1 DEF State, MarkTurnFailed
<1> HIDE DEF t
<1>6. QueriesFit(t) /\ Counted(t)
  BY <1>3, <1>4, QueriesKept DEF Running
<1>7. Active(t) = Active(s) /\ \A k \in Logical : Busy(t, k) <=> Busy(s, k)
  BY <1>4, <1>5 DEF Active, Busy
<1>8. Cursors(t)
  <2>1. ASSUME NEW k \in Logical PROVE Cursor(t, k)
    <3>1. CASE k = l
      <4>1. s.failed[l] <= s.turns[l] /\ s.delayed[l] = Absent
        BY DEF Running, Cursors, Cursor
      <4> QED
        BY <1>2, <1>5, <1>7, <3>1, <4>1 DEF Cursor
    <3>2. CASE k # l
      BY <1>5, <1>7, <3>2 DEF Running, Cursors, Cursor
    <3> QED
      BY <3>1, <3>2
  <2> QED
    BY <1>4, <1>5, <1>7, <2>1 DEF Running, Cursors
<1>9. Working(t, {})
  BY <1>5, <1>7 DEF Running, Working, Active
<1>10. Slots(t, v)
  BY <1>5, <1>7 DEF Running, Slots
<1>11. Fresh(t)
  <2>1. Draws(t) = Draws(s) /\ \A k \in Logical : Unstarted(t, k) => Unstarted(s, k) /\ k # l
    BY <1>5 DEF Draws, Unstarted
  <2> QED
    BY <1>5, <1>7, <2>1 DEF Running, Fresh
<1>12. Running(t, v, {}) /\ Draws(t) = Draws(s)
  BY <1>5, <1>6, <1>8, <1>9, <1>10, <1>11 DEF Running, Draws
<1> QED
  BY <1>5, <1>12 DEF t

\* What register_skipped makes of the record, n times.
LEMMA SkipIs ==
  ASSUME NEW s, NEW l \in Logical, NEW n \in Nat, QueriesFit(s)
  PROVE  LET k == Len(s.conv)
             t == RegisterSkipped(s, l, n)
         IN  /\ t \in State /\ k \in Nat
             /\ Len(t.conv) = k + n /\ Len(t.ends) = k + n
             /\ \A q \in 1..k : t.conv[q] = s.conv[q] /\ t.ends[q] = s.ends[q]
             /\ \A q \in (k + 1)..(k + n) : t.ends[q] = 1
             /\ t.wire = s.wire /\ t.skipped = s.skipped \cup (k + 1)..(k + n)
             /\ t.timers = s.timers /\ t.pending = s.pending
             /\ t.issued = s.issued + n /\ t.done = s.done /\ t.stopIssuing = s.stopIssuing
             /\ SameTrajectories(s, t)
<1> DEFINE d == Drawn(s, l, n)
<1> DEFINE k == Len(s.conv)
<1> DEFINE es == [q \in DOMAIN d.ends |-> IF q > k THEN 1 ELSE d.ends[q]]
<1> DEFINE t == RegisterSkipped(s, l, n)
<1>1. /\ d \in State
      /\ Len(d.conv) = k + n /\ Len(d.ends) = Len(d.conv) /\ k \in Nat
      /\ \A q \in 1..k : d.conv[q] = s.conv[q] /\ d.ends[q] = s.ends[q]
      /\ SameTrajectories(s, d)
      /\ d.wire = s.wire /\ d.skipped = s.skipped /\ d.timers = s.timers
      /\ d.issued = s.issued /\ d.pending = s.pending
  BY DrawnIs
<1>2. d.done = s.done /\ d.stopIssuing = s.stopIssuing
  BY DEF QueriesFit, State, Drawn
<1>3. t = [d EXCEPT !.ends = es, !.skipped = @ \cup (k + 1)..(k + n), !.issued = @ + n]
  BY DEF RegisterSkipped
<1> HIDE DEF d, k, t
<1>4. /\ es \in Seq(Nat) /\ Len(es) = k + n
      /\ \A q \in 1..k : es[q] = d.ends[q]
      /\ \A q \in (k + 1)..(k + n) : es[q] = 1
  <2>1. d.ends \in Seq(Nat) /\ DOMAIN d.ends = 1..(k + n)
    BY <1>1 DEF State
  <2>2. \A q \in 1..(k + n) : d.ends[q] \in Nat
    BY <1>1, <2>1
  <2>3. es = [q \in 1..(k + n) |-> IF q > k THEN 1 ELSE d.ends[q]]
    BY <2>1
  <2> HIDE DEF es
  <2>4. es \in [1..(k + n) -> Nat] /\ k + n \in Nat
    BY <1>1, <2>2, <2>3
  <2>5. es \in Seq(Nat) /\ Len(es) = k + n
    BY <2>4
  <2> QED
    BY <1>1, <2>3, <2>5
<1> HIDE DEF es
<1>5. d.skipped \cup (k + 1)..(k + n) \in SUBSET Nat /\ d.issued + n \in Nat
  <2>1. d.skipped \in SUBSET Nat /\ d.issued \in Nat
    BY <1>1 DEF State
  <2> QED
    BY <1>1, <2>1
<1>6. t \in State
  BY <1>1, <1>3, <1>4, <1>5 DEF State
<1>7. /\ t.conv = d.conv /\ t.ends = es /\ t.wire = s.wire
      /\ t.skipped = s.skipped \cup (k + 1)..(k + n)
      /\ t.timers = s.timers /\ t.pending = s.pending
      /\ t.issued = s.issued + n /\ t.done = s.done /\ t.stopIssuing = s.stopIssuing
      /\ SameTrajectories(d, t)
  BY <1>1, <1>2, <1>3 DEF State, SameTrajectories
<1>8. SameTrajectories(s, t)
  BY <1>1, <1>7 DEF SameTrajectories
<1>9. /\ Len(t.conv) = k + n /\ Len(t.ends) = k + n
      /\ \A q \in 1..k : t.conv[q] = s.conv[q] /\ t.ends[q] = s.ends[q]
      /\ \A q \in (k + 1)..(k + n) : t.ends[q] = 1
  BY <1>1, <1>4, <1>7
<1> QED
  BY <1>1, <1>6, <1>7, <1>8, <1>9 DEF t, k

\* Queries that are registered as skipped have ended and are owed by nobody.
LEMMA SkipRuns ==
  ASSUME NEW s, NEW v, NEW l \in Logical, NEW n \in Nat, Running(s, v, {})
  PROVE  LET t == RegisterSkipped(s, l, n)
         IN  Running(t, v, {}) /\ t.active = s.active /\ Draws(t) = Draws(s)
<1> DEFINE k == Len(s.conv)
<1> DEFINE t == RegisterSkipped(s, l, n)
<1>1. QueriesFit(s) /\ Counted(s)
  BY DEF Running
<1>2. /\ t \in State /\ k \in Nat
      /\ Len(t.conv) = k + n /\ Len(t.ends) = k + n
      /\ \A q \in 1..k : t.conv[q] = s.conv[q] /\ t.ends[q] = s.ends[q]
      /\ \A q \in (k + 1)..(k + n) : t.ends[q] = 1
      /\ t.wire = s.wire /\ t.skipped = s.skipped \cup (k + 1)..(k + n)
      /\ t.timers = s.timers /\ t.pending = s.pending
      /\ SameTrajectories(s, t)
  BY <1>1, SkipIs
<1> HIDE DEF t, k
<1>3. s.wire \subseteq 1..k /\ s.skipped \subseteq 1..k /\ s.inflight \subseteq 1..k
      /\ t.inflight = s.inflight
  BY <1>1, <1>2 DEF QueriesFit, Owed, k, SameTrajectories
<1>4. Owed(t) = Owed(s)
  BY <1>2, <1>3 DEF Owed
<1>5. QueriesFit(t)
  BY <1>1, <1>2, <1>3, <1>4 DEF QueriesFit
<1>6. Counted(t)
  <2>1. \A q \in 1..(k + n) : q \in 1..k \/ q \in (k + 1)..(k + n)
    BY <1>2
  <2>2. \A q \in Owed(s) : q \in 1..k
    BY <1>3 DEF Owed
  <2>3. /\ \A q \in 1..k : s.ends[q] <= 1
        /\ \A q \in s.skipped : s.ends[q] = 1
        /\ \A q \in Owed(s) : s.ends[q] = 0
        /\ s.pending = Cardinality(Owed(s))
    BY <1>1 DEF Counted, k
  <2>4. \A q \in 1..Len(t.conv) : t.ends[q] <= 1
    BY <1>2, <2>1, <2>3
  <2>5. \A q \in t.skipped : t.ends[q] = 1
    BY <1>2, <1>3, <2>3
  <2>6. \A q \in Owed(t) : t.ends[q] = 0
    BY <1>2, <1>4, <2>2, <2>3
  <2> QED
    BY <1>2, <1>4, <2>3, <2>4, <2>5, <2>6 DEF Counted
<1>7. Cursors(t) /\ Working(t, {}) /\ Slots(t, v) /\ Fresh(t)
  BY <1>2, TrajectoriesKept DEF Running
<1>8. Running(t, v, {})
  BY <1>5, <1>6, <1>7 DEF Running
<1>9. t.active = s.active /\ Draws(t) = Draws(s)
  BY <1>2 DEF SameTrajectories, Draws
<1> QED
  BY <1>8, <1>9 DEF t

\* A trajectory whose turn failed is left with all its turns ended, or, after
\* the stop check, with one more.
LEMMA AbandonRuns ==
  ASSUME NEW s, NEW l \in Logical, Running(s, 0, {l}), ~Busy(s, l), s.delayed[l] = Absent,
         s.stopping \/ s.active[l] # Absent, ~Unstarted(s, l)
  PROVE  LET u == AbortRemaining(s, l)
         IN  Running(u, 1, {}) /\ [u EXCEPT !.active[l] = Absent] = u /\ Draws(u) = Draws(s)
<1> DEFINE n == IF s.active[l] = Absent THEN 0 ELSE Turns[l[1]] - s.active[l]
<1> DEFINE t == [s EXCEPT !.delayed[l] = Absent, !.active[l] = Absent]
<1> DEFINE u == AbortRemaining(s, l)
<1>1. s \in State
  BY DEF Running, QueriesFit
<1>2. t = [s EXCEPT !.active[l] = Absent]
  <2>1. s.delayed = [s.delayed EXCEPT ![l] = Absent]
    BY <1>1 DEF State
  <2>2. [s EXCEPT !.delayed[l] = Absent] = s
    BY <1>1, <2>1 DEF State
  <2>3. t = [[s EXCEPT !.delayed[l] = Absent] EXCEPT !.active[l] = Absent]
    OBVIOUS
  <2> QED
    BY <2>2, <2>3
<1>3. u = IF n = 0 THEN t
          ELSE IF halted THEN MarkTurnFailed(t, l, 1)
          ELSE RegisterSkipped(MarkTurnFailed(t, l, n), l, n)
  BY DEF AbortRemaining
<1>4. /\ Running(t, 1, {}) /\ ~Busy(t, l) /\ t.active[l] = Absent
      /\ Draws(t) = Draws(s) /\ t.turns = s.turns /\ ~Unstarted(t, l)
  BY <1>2, VacateRuns
<1>5. n \in Nat /\ t.turns[l] + n <= Turns[l[1]]
  <2>1. l[1] \in Conv
    BY DEF Logical
  <2>2. Turns[l[1]] \in Nat /\ s.turns[l] \in Nat /\ s.turns[l] <= Turns[l[1]]
    BY <1>1, <2>1, Bounds DEF State, Running, Cursors, Cursor
  <2>3. s.active[l] # Absent => s.active[l] = s.turns[l]
    BY DEF Running, Cursors, Cursor
  <2> QED
    BY <1>4, <2>2, <2>3
<1> HIDE DEF t, n, u
<1>6. n = 0 \/ t.turns[l] + 1 <= Turns[l[1]]
  <2>1. t \in State /\ l[1] \in Conv
    BY <1>4 DEF Running, QueriesFit, Logical
  <2>2. t.turns[l] \in Nat /\ Turns[l[1]] \in Nat
    BY <2>1, Bounds DEF State
  <2> QED
    BY <1>5, <2>2
<1>7. Running(u, 1, {}) /\ u.active = t.active /\ Draws(u) = Draws(t)
  <2>1. CASE n = 0
    BY <1>3, <1>4, <2>1
  <2>2. CASE n # 0 /\ halted
    BY <1>3, <1>4, <1>6, <2>2, MarkRuns
  <2>3. CASE n # 0 /\ ~halted
    <3> DEFINE w == MarkTurnFailed(t, l, n)
    <3>1. Running(w, 1, {}) /\ w.active = t.active /\ Draws(w) = Draws(t)
      BY <1>4, <1>5, MarkRuns
    <3>2. u = RegisterSkipped(w, l, n)
      BY <1>3, <2>3
    <3> HIDE DEF w
    <3> QED
      BY <1>5, <3>1, <3>2, SkipRuns
  <2> QED
    BY <2>1, <2>2, <2>3
<1>8. [u EXCEPT !.active[l] = Absent] = u
  <2>1. u \in State
    BY <1>7 DEF Running, QueriesFit
  <2>2. u.active[l] = Absent /\ u.active \in [Logical -> Int]
    BY <1>4, <1>7, <2>1 DEF State
  <2>3. [u.active EXCEPT ![l] = Absent] = u.active
    BY <2>2
  <2> QED
    BY <2>1, <2>3 DEF State
<1> QED
  BY <1>4, <1>7, <1>8 DEF u

\* Then the slot is given away.
LEMMA AbortRuns ==
  ASSUME NEW s, NEW l \in Logical, NEW src \in Draws(s), NEW ok \in BOOLEAN,
         Running(s, 0, {l}), ~Busy(s, l), s.delayed[l] = Absent,
         s.stopping \/ s.active[l] # Absent, ~Unstarted(s, l)
  PROVE  Running(FinishConversation(AbortRemaining(s, l), l, src, ok), 0, {})
  BY AbandonRuns, FinishRuns

\* One COMPLETE more for query q.
LEMMA EndsCounted ==
  ASSUME NEW e \in Seq(Nat), NEW q \in 1..Len(e)
  PROVE  LET f == [e EXCEPT ![q] = @ + 1]
         IN  /\ f \in Seq(Nat) /\ Len(f) = Len(e) /\ f[q] = e[q] + 1
             /\ \A r \in 1..Len(e) : r # q => f[r] = e[r]
<1> DEFINE f == [e EXCEPT ![q] = @ + 1]
<1>1. e \in [1..Len(e) -> Nat] /\ Len(e) \in Nat
  OBVIOUS
<1>2. f \in [1..Len(e) -> Nat]
  BY <1>1
<1>3. f \in Seq(Nat) /\ Len(f) = Len(e)
  BY <1>1, <1>2
<1> QED
  BY <1>1, <1>3

\* What the end of turn q does to the trajectories.
OneTurnLess(s, t, q) ==
  LET l == s.conv[q]
  IN  /\ t.conv = s.conv /\ t.inflight = s.inflight \ {q}
      /\ t.active = s.active /\ t.delayed = s.delayed /\ t.stopping = s.stopping
      /\ t.error = s.error /\ t.started = s.started /\ t.left = s.left
      /\ t.untracked = s.untracked
      /\ t.turns = [s.turns EXCEPT ![l] = @ + 1]
      /\ t.failed = s.failed \/ t.failed = [s.failed EXCEPT ![l] = @ + 1]

\* The trajectory whose turn q ended has no turn under way, until the strategy
\* has decided how it goes on.
LEMMA TurnEnded ==
  ASSUME NEW s, NEW t, NEW q \in s.inflight, NEW l, l = s.conv[q],
         Running(s, 0, {}), QueriesFit(t), Counted(t), OneTurnLess(s, t, q)
  PROVE  /\ l \in Logical /\ Running(t, 0, {l}) /\ ~Busy(t, l) /\ t.delayed[l] = Absent
         /\ t.stopping \/ t.active[l] # Absent
         /\ ~Unstarted(t, l) /\ Draws(t) = Draws(s)
<1>0. /\ t.conv = s.conv /\ t.inflight = s.inflight \ {q}
      /\ t.active = s.active /\ t.delayed = s.delayed /\ t.stopping = s.stopping
      /\ t.error = s.error /\ t.started = s.started /\ t.left = s.left
      /\ t.untracked = s.untracked
      /\ t.turns = [s.turns EXCEPT ![l] = @ + 1]
      /\ t.failed = s.failed \/ t.failed = [s.failed EXCEPT ![l] = @ + 1]
  BY DEF OneTurnLess
<1> USE <1>0
<1>1. s \in State /\ QueriesFit(s)
  BY DEF Running, QueriesFit
<1>2. l \in Logical
  BY <1>1, InflightNamed
<1>3. Busy(s, l) /\ ~Busy(t, l)
  BY DEF Running, Cursors, Busy
<1>4. \A k \in Logical : k # l => (Busy(t, k) <=> Busy(s, k))
  BY DEF Busy
<1>5. s.delayed[l] = Absent
  BY <1>2, <1>3 DEF Running, Cursors, Cursor
<1>6. Active(t) = Active(s) /\ Draws(t) = Draws(s)
      /\ \A k \in Logical : Unstarted(t, k) <=> Unstarted(s, k)
  BY DEF Active, Draws, Unstarted
<1>7. Cursors(t)
  <2>1. ASSUME NEW k \in Logical PROVE Cursor(t, k)
    <3>1. CASE k = l
      <4>1. s.turns[l] \in Nat /\ s.failed[l] \in Nat /\ Turns[l[1]] \in Nat
        <5>1. l[1] \in Conv
          BY <1>2 DEF Logical
        <5> QED
          BY <1>1, <1>2, <5>1, Bounds DEF State
      <4>2. t.turns[l] = s.turns[l] + 1 /\ t.failed[l] \in {s.failed[l], s.failed[l] + 1}
        BY <1>1, <1>2 DEF State
      <4>3. /\ s.failed[l] <= s.turns[l] /\ s.turns[l] < Turns[l[1]]
            /\ s.active[l] # Absent => s.active[l] = s.turns[l] + 1
        BY <1>2, <1>3 DEF Running, Cursors, Cursor
      <4> QED
        BY <1>3, <1>5, <3>1, <4>1, <4>2, <4>3 DEF Cursor
    <3>2. CASE k # l
      <4>1. t.turns[k] = s.turns[k] /\ t.failed[k] = s.failed[k]
        BY <1>1, <1>2, <3>2 DEF State
      <4> QED
        BY <1>4, <3>2, <4>1 DEF Running, Cursors, Cursor
    <3> QED
      BY <3>1, <3>2
  <2> QED
    BY <1>6, <2>1 DEF Running, Cursors
<1>8. Working(t, {l})
  BY <1>4, <1>6 DEF Running, Working, Active
<1>9. Slots(t, 0)
  BY <1>6 DEF Running, Slots
<1>10. \A k \in Logical : Unstarted(s, k) => k # l
  BY <1>3 DEF Running, Fresh
<1>11. Fresh(t)
  <2>1. \A k \in Logical : k # l => t.turns[k] = s.turns[k]
    BY <1>1 DEF State
  <2> QED
    BY <1>4, <1>6, <1>10, <2>1 DEF Running, Fresh
<1>12. Running(t, 0, {l})
  BY <1>7, <1>8, <1>9, <1>11 DEF Running
<1>13. t.stopping \/ t.active[l] # Absent
  BY DEF Running, Cursors
<1> QED
  BY <1>2, <1>3, <1>5, <1>6, <1>10, <1>12, <1>13

\* Turn q has ended, and the strategy has not decided yet how its trajectory
\* goes on.
TurnOver(s, t, q) ==
  LET l == s.conv[q]
  IN  /\ OneTurnLess(s, t, q) /\ t.ends = [s.ends EXCEPT ![q] = @ + 1]
      /\ t.issued = s.issued /\ t.done = s.done /\ t.stopIssuing = s.stopIssuing
      /\ l \in Logical /\ Running(t, 0, {l}) /\ ~Busy(t, l) /\ t.delayed[l] = Absent
      /\ t.stopping \/ t.active[l] # Absent
      /\ ~Unstarted(t, l) /\ Draws(t) = Draws(s)

\* A query is not owed any more: it was answered, or its timeout came first.
LEMMA PaidOnce ==
  ASSUME NEW s, NEW t, NEW q \in Owed(s), QueriesFit(s), Counted(s), t \in State,
         t.conv = s.conv, t.ends = [s.ends EXCEPT ![q] = @ + 1],
         t.pending = IF s.pending <= 0 THEN s.pending ELSE s.pending - 1,
         \/ t.wire = s.wire \ {q} /\ t.skipped = s.skipped
         \/ t.wire = s.wire /\ t.skipped = s.skipped \cup {q},
         t.inflight = s.inflight \ {q}, t.timers = t.inflight
  PROVE  QueriesFit(t) /\ Counted(t)
<1>1. s \in State /\ Owed(s) \subseteq 1..Len(s.conv) /\ Len(s.conv) \in Nat
      /\ s.ends \in Seq(Nat) /\ Len(s.ends) = Len(s.conv)
  BY InflightNamed DEF QueriesFit, Owed, State
<1>2. IsFiniteSet(Owed(s))
  <2>1. IsFiniteSet(1..Len(s.conv))
    BY <1>1, FS_Interval, 1 \in Int, Len(s.conv) \in Int
  <2> QED
    BY <1>1, <2>1, FS_Subset
<1>3. Owed(t) = Owed(s) \ {q}
  BY DEF Owed
<1>4. Cardinality(Owed(t)) = Cardinality(Owed(s)) - 1 /\ Cardinality(Owed(s)) \in Nat
      /\ Cardinality(Owed(t)) \in Nat
  BY <1>2, <1>3, FS_RemoveElement, FS_CardinalityType, FS_Subset
<1>5. t.pending = Cardinality(Owed(t))
  BY <1>4 DEF Counted
<1>6. /\ Len(t.ends) = Len(s.ends) /\ t.ends[q] = s.ends[q] + 1
      /\ \A r \in 1..Len(s.ends) : r # q => t.ends[r] = s.ends[r]
  BY <1>1, EndsCounted
<1>7. s.ends[q] = 0
  BY DEF Counted
<1>8. QueriesFit(t)
  BY <1>1, <1>3, <1>6 DEF QueriesFit, Owed
<1>9. Counted(t)
  <2>1. \A r \in 1..Len(t.conv) : t.ends[r] <= 1
    BY <1>1, <1>6, <1>7 DEF Counted
  <2>2. \A r \in t.skipped : t.ends[r] = 1
    BY <1>1, <1>6, <1>7 DEF Counted, Owed, QueriesFit
  <2>3. \A r \in Owed(t) : t.ends[r] = 0
    BY <1>1, <1>3, <1>6 DEF Counted
  <2> QED
    BY <1>5, <2>1, <2>2, <2>3 DEF Counted
<1> QED
  BY <1>8, <1>9

\* A timeout ends its turn before the trajectory is given up.
LEMMA TimeoutIs ==
  ASSUME NEW s, NEW q \in s.timers, NEW src, NEW ok, Running(s, 0, {})
  PROVE  \E t : /\ TurnOver(s, t, q)
                /\ HandleTimeout(s, q, src, ok) =
                     FinishConversation(AbortRemaining(t, s.conv[q]), s.conv[q], src, ok)
<1> DEFINE l == s.conv[q]
<1> DEFINE t == [MarkInflightComplete(MarkTurnFailed(s, l, 1)) EXCEPT
                   !.inflight = @ \ {q}, !.timers = @ \ {q},
                   !.skipped  = @ \cup {q}, !.ends[q] = @ + 1]
<1>1. s \in State /\ QueriesFit(s) /\ Counted(s) /\ q \in s.inflight /\ s.timers = s.inflight
      /\ q \in Owed(s)
  BY DEF Running, QueriesFit
<1>2. l \in Logical /\ q \in 1..Len(s.conv) /\ Len(s.ends) = Len(s.conv) /\ s.ends \in Seq(Nat)
  BY <1>1, InflightNamed DEF QueriesFit, State
<1>3. HandleTimeout(s, q, src, ok) = FinishConversation(AbortRemaining(t, l), l, src, ok)
  BY <1>1 DEF HandleTimeout
<1> HIDE DEF l
<1>4. /\ [s.turns EXCEPT ![l] = @ + 1] \in [Logical -> Nat]
      /\ [s.failed EXCEPT ![l] = @ + 1] \in [Logical -> Nat]
  <2>1. s.turns \in [Logical -> Nat] /\ s.failed \in [Logical -> Nat]
    BY <1>1 DEF State
  <2> QED
    BY <1>2, <2>1
<1>5. [s.ends EXCEPT ![q] = @ + 1] \in Seq(Nat)
  BY <1>2, EndsCounted
<1>6. (IF s.pending <= 0 THEN s.pending ELSE s.pending - 1) \in Nat
  BY <1>1 DEF State
<1>7. s.skipped \cup {q} \in SUBSET Nat
  <2>1. s.skipped \in SUBSET Nat /\ q \in Nat
    BY <1>1 DEF State
  <2> QED
    BY <2>1
<1>8. t = [s EXCEPT !.turns = [s.turns EXCEPT ![l] = @ + 1],
                    !.failed = [s.failed EXCEPT ![l] = @ + 1],
                    !.pending = IF s.pending <= 0 THEN s.pending ELSE s.pending - 1,
                    !.inflight = s.inflight \ {q}, !.timers = s.timers \ {q},
                    !.skipped = s.skipped \cup {q},
                    !.ends = [s.ends EXCEPT ![q] = @ + 1]]
  BY <1>1 DEF State, MarkInflightComplete, MarkTurnFailed
<1> HIDE DEF t
<1>9. t \in State
  <2>1. s.inflight \ {q} \in SUBSET Nat /\ s.timers \ {q} \in SUBSET Nat
    BY <1>1 DEF State
  <2> QED
    BY ZenonT(60), <1>1, <1>4, <1>5, <1>6, <1>7, <1>8, <2>1 DEF State
<1>10. /\ t.turns = [s.turns EXCEPT ![l] = @ + 1]
       /\ t.failed = [s.failed EXCEPT ![l] = @ + 1]
       /\ t.pending = IF s.pending <= 0 THEN s.pending ELSE s.pending - 1
       /\ t.inflight = s.inflight \ {q} /\ t.timers = s.timers \ {q}
       /\ t.skipped = s.skipped \cup {q} /\ t.wire = s.wire
       /\ t.ends = [s.ends EXCEPT ![q] = @ + 1] /\ t.conv = s.conv
  BY <1>1, <1>8 DEF State
<1>11. /\ t.active = s.active /\ t.delayed = s.delayed /\ t.stopping = s.stopping
       /\ t.error = s.error /\ t.started = s.started /\ t.left = s.left
       /\ t.untracked = s.untracked
       /\ t.issued = s.issued /\ t.done = s.done /\ t.stopIssuing = s.stopIssuing
  BY <1>1, <1>8 DEF State
<1>12. QueriesFit(t) /\ Counted(t)
  BY <1>1, <1>9, <1>10, PaidOnce
<1>13. l = s.conv[q]
  BY DEF l
<1>14. OneTurnLess(s, t, q)
  BY <1>10, <1>11, <1>13 DEF OneTurnLess
<1>15. /\ Running(t, 0, {l}) /\ ~Busy(t, l) /\ t.delayed[l] = Absent
       /\ t.stopping \/ t.active[l] # Absent
       /\ ~Unstarted(t, l) /\ Draws(t) = Draws(s)
  BY <1>1, <1>12, <1>13, <1>14, TurnEnded
<1>16. TurnOver(s, t, q)
  BY <1>2, <1>10, <1>11, <1>13, <1>14, <1>15 DEF TurnOver
<1> QED
  BY <1>3, <1>13, <1>16

\* _handle_timeout.
LEMMA TimeoutRuns ==
  ASSUME NEW s, NEW q \in s.timers, NEW src \in Draws(s), NEW ok \in BOOLEAN, Running(s, 0, {})
  PROVE  Running(HandleTimeout(s, q, src, ok), 0, {})
<1> DEFINE l == s.conv[q]
<1>1. PICK t : /\ TurnOver(s, t, q)
               /\ HandleTimeout(s, q, src, ok) = FinishConversation(AbortRemaining(t, l), l, src, ok)
  BY TimeoutIs
<1>2. /\ l \in Logical /\ Running(t, 0, {l}) /\ ~Busy(t, l) /\ t.delayed[l] = Absent
      /\ t.stopping \/ t.active[l] # Absent
      /\ ~Unstarted(t, l) /\ Draws(t) = Draws(s)
  BY <1>1 DEF TurnOver
<1> HIDE DEF l
<1> QED
  BY <1>1, <1>2, AbortRuns

\* A late answer to a turn that has ended is dropped.
LEMMA DroppedAnswer ==
  ASSUME NEW s, NEW q \in s.wire, q \in s.skipped, QueriesFit(s), Counted(s)
  PROVE  LET t == [s EXCEPT !.wire = @ \ {q}]
         IN  /\ QueriesFit(t) /\ Counted(t) /\ SameTrajectories(s, t)
             /\ t.conv = s.conv /\ t.ends = s.ends
             /\ t.issued = s.issued /\ t.done = s.done
<1> DEFINE t == [s EXCEPT !.wire = @ \ {q}]
<1>1. s \in State
  BY DEF QueriesFit
<1>2. t \in State
  <2>1. s.wire \ {q} \in SUBSET Nat
    BY <1>1 DEF State
  <2> QED
    BY <1>1, <2>1 DEF State
<1>3. /\ t.wire = s.wire \ {q} /\ t.skipped = s.skipped /\ t.timers = s.timers
      /\ t.ends = s.ends /\ t.pending = s.pending /\ t.conv = s.conv
      /\ t.inflight = s.inflight /\ t.issued = s.issued /\ t.done = s.done
  BY <1>1 DEF State
<1>4. SameTrajectories(s, t)
  BY <1>1 DEF State, SameTrajectories
<1> HIDE DEF t
<1>5. Owed(t) = Owed(s)
  BY <1>3 DEF Owed
<1>6. QueriesFit(t) /\ Counted(t)
  BY <1>2, <1>3, <1>5 DEF QueriesFit, Counted
<1> QED
  BY <1>3, <1>4, <1>6 DEF t

\* An answer ends its turn and takes it from the in-flight count.
LEMMA CountedAnswer ==
  ASSUME NEW s, NEW q \in s.wire, q \notin s.skipped, QueriesFit(s), Counted(s)
  PROVE  LET e == [[s EXCEPT !.wire = @ \ {q}] EXCEPT !.ends[q] = @ + 1]
             t == MarkInflightComplete(e)
         IN  /\ t \in State
             /\ t.wire = s.wire \ {q} /\ t.skipped = s.skipped /\ t.timers = s.timers
             /\ t.inflight = s.inflight /\ t.conv = s.conv
             /\ t.ends = [s.ends EXCEPT ![q] = @ + 1]
             /\ t.pending = (IF s.pending <= 0 THEN s.pending ELSE s.pending - 1)
             /\ t.issued = s.issued /\ t.done = s.done /\ t.stopIssuing = s.stopIssuing
             /\ SameTrajectories(s, t)
<1> DEFINE e == [[s EXCEPT !.wire = @ \ {q}] EXCEPT !.ends[q] = @ + 1]
<1> DEFINE t == MarkInflightComplete(e)
<1>1. s \in State /\ q \in 1..Len(s.conv) /\ Len(s.ends) = Len(s.conv) /\ s.ends \in Seq(Nat)
  BY DEF QueriesFit, State
<1>2. [s.ends EXCEPT ![q] = @ + 1] \in Seq(Nat)
  BY <1>1, EndsCounted
<1>3. (IF s.pending <= 0 THEN s.pending ELSE s.pending - 1) \in Nat
  <2>1. s.pending \in Nat
    BY <1>1 DEF State
  <2> QED
    BY <2>1
<1>4. s.wire \ {q} \in SUBSET Nat
  BY <1>1 DEF State
<1>5. t = [s EXCEPT !.wire = s.wire \ {q}, !.ends = [s.ends EXCEPT ![q] = @ + 1],
                    !.pending = IF s.pending <= 0 THEN s.pending ELSE s.pending - 1]
  BY <1>1 DEF State, MarkInflightComplete
<1> HIDE DEF t
<1>6. t \in State
  BY <1>1, <1>2, <1>3, <1>4, <1>5 DEF State
<1>7. /\ t.wire = s.wire \ {q} /\ t.skipped = s.skipped /\ t.timers = s.timers
      /\ t.inflight = s.inflight /\ t.conv = s.conv
      /\ t.ends = [s.ends EXCEPT ![q] = @ + 1]
      /\ t.pending = (IF s.pending <= 0 THEN s.pending ELSE s.pending - 1)
      /\ t.issued = s.issued /\ t.done = s.done /\ t.stopIssuing = s.stopIssuing
  BY <1>1, <1>5 DEF State
<1>8. SameTrajectories(s, t)
  BY <1>1, <1>5 DEF State, SameTrajectories
<1> QED
  BY <1>6, <1>7, <1>8 DEF t

\* The answer to a turn in flight ends it, before the strategy decides how the
\* trajectory goes on.
LEMMA AnswerIs ==
  ASSUME NEW s, NEW q \in s.wire, q \in s.inflight, NEW err \in BOOLEAN, NEW src, NEW ok,
         Running(s, 0, {}), pc # "next"
  PROVE  \E t : /\ TurnOver(s, t, q)
                /\ HandleResponse(s, q, err, src, ok) =
                     IF err
                     THEN FinishConversation(AbortRemaining(t, s.conv[q]), s.conv[q], src, ok)
                     ELSE IF t.stopping THEN SignalIfIdle(t)
                     ELSE IssueNextTurn(t, s.conv[q], src, ok)
<1> DEFINE e == [[s EXCEPT !.wire = @ \ {q}] EXCEPT !.ends[q] = @ + 1]
<1> DEFINE d == MarkInflightComplete(e)
<1> DEFINE l == d.conv[q]
<1> DEFINE m == IF err THEN MarkTurnFailed(d, l, 1) ELSE MarkTurnComplete(d, l)
<1> DEFINE t == [m EXCEPT !.inflight = @ \ {q}, !.timers = @ \ {q}]
<1>1. QueriesFit(s) /\ Counted(s) /\ q \in Owed(s) /\ q \notin s.skipped /\ s.timers = s.inflight
  BY DEF Running, QueriesFit, Owed
<1>2. /\ d \in State
      /\ d.wire = s.wire \ {q} /\ d.skipped = s.skipped /\ d.timers = s.timers
      /\ d.inflight = s.inflight /\ d.conv = s.conv
      /\ d.ends = [s.ends EXCEPT ![q] = @ + 1]
      /\ d.pending = (IF s.pending <= 0 THEN s.pending ELSE s.pending - 1)
      /\ d.issued = s.issued /\ d.done = s.done /\ d.stopIssuing = s.stopIssuing
      /\ SameTrajectories(s, d)
  BY <1>1, CountedAnswer
<1>3. HandleResponse(s, q, err, src, ok) = OnSampleComplete(d, q, err, src, ok)
  BY <1>1 DEF HandleResponse
<1> HIDE DEF d
<1>4. OnSampleComplete(d, q, err, src, ok) =
        IF err THEN FinishConversation(AbortRemaining(t, l), l, src, ok)
        ELSE IF t.stopping THEN SignalIfIdle(t)
        ELSE IssueNextTurn(t, l, src, ok)
  BY <1>2 DEF OnSampleComplete
<1>5. l = s.conv[q] /\ l \in Logical
  BY <1>1, <1>2, InflightNamed
<1> HIDE DEF l
<1>6. /\ [d.turns EXCEPT ![l] = @ + 1] \in [Logical -> Nat]
      /\ [d.failed EXCEPT ![l] = @ + 1] \in [Logical -> Nat]
  <2>1. d.turns \in [Logical -> Nat] /\ d.failed \in [Logical -> Nat]
    BY <1>2 DEF State
  <2> QED
    BY <1>5, <2>1
<1>7. d.inflight \ {q} \in SUBSET Nat /\ d.timers \ {q} \in SUBSET Nat
  BY <1>2 DEF State
<1>8. m = [d EXCEPT !.turns = [d.turns EXCEPT ![l] = @ + 1],
                    !.failed = IF err THEN [d.failed EXCEPT ![l] = @ + 1] ELSE d.failed]
  BY <1>2 DEF State, MarkTurnFailed, MarkTurnComplete
<1> HIDE DEF m
<1>9. t \in State
  <2>1. (IF err THEN [d.failed EXCEPT ![l] = @ + 1] ELSE d.failed) \in [Logical -> Nat]
    BY <1>2, <1>6 DEF State
  <2>2. m \in State
    BY <1>2, <1>6, <1>8, <2>1 DEF State
  <2>3. m.inflight = d.inflight /\ m.timers = d.timers
    BY <1>2, <1>8 DEF State
  <2> QED
    BY <1>7, <2>2, <2>3 DEF State
<1>10. /\ t.turns = [d.turns EXCEPT ![l] = @ + 1]
       /\ t.failed = (IF err THEN [d.failed EXCEPT ![l] = @ + 1] ELSE d.failed)
       /\ t.inflight = d.inflight \ {q} /\ t.timers = d.timers \ {q}
       /\ t.skipped = d.skipped /\ t.wire = d.wire /\ t.ends = d.ends /\ t.conv = d.conv
       /\ t.pending = d.pending
  BY <1>2, <1>8 DEF State
<1>11. /\ t.active = d.active /\ t.delayed = d.delayed /\ t.stopping = d.stopping
       /\ t.error = d.error /\ t.started = d.started /\ t.left = d.left
       /\ t.untracked = d.untracked
       /\ t.issued = d.issued /\ t.done = d.done /\ t.stopIssuing = d.stopIssuing
  BY <1>2, <1>8 DEF State
<1> HIDE DEF t
<1>12. /\ t.conv = s.conv /\ t.ends = [s.ends EXCEPT ![q] = @ + 1]
       /\ t.pending = (IF s.pending <= 0 THEN s.pending ELSE s.pending - 1)
       /\ t.wire = s.wire \ {q} /\ t.skipped = s.skipped
       /\ t.inflight = s.inflight \ {q} /\ t.timers = t.inflight
  BY <1>1, <1>2, <1>10
<1>13. QueriesFit(t) /\ Counted(t)
  BY <1>1, <1>9, <1>12, PaidOnce
<1>14. OneTurnLess(s, t, q)
  BY <1>2, <1>5, <1>10, <1>11 DEF OneTurnLess, SameTrajectories
<1>15. /\ Running(t, 0, {l}) /\ ~Busy(t, l) /\ t.delayed[l] = Absent
       /\ t.stopping \/ t.active[l] # Absent
       /\ ~Unstarted(t, l) /\ Draws(t) = Draws(s)
  BY <1>5, <1>13, <1>14, TurnEnded
<1>16. TurnOver(s, t, q)
  BY <1>2, <1>5, <1>11, <1>12, <1>14, <1>15 DEF TurnOver
<1> QED
  BY <1>3, <1>4, <1>5, <1>16

\* _handle_response while execute() runs.
LEMMA AnswerRuns ==
  ASSUME NEW s, NEW q \in s.wire, NEW err \in BOOLEAN, NEW src \in Draws(s), NEW ok \in BOOLEAN,
         Running(s, 0, {}), pc # "next"
  PROVE  Running(HandleResponse(s, q, err, src, ok), 0, {})
<1> DEFINE r == [s EXCEPT !.wire = @ \ {q}]
<1> DEFINE e == [r EXCEPT !.ends[q] = @ + 1]
<1> DEFINE d == MarkInflightComplete(e)
<1>1. QueriesFit(s) /\ Counted(s)
  BY DEF Running
<1>2. HandleResponse(s, q, err, src, ok) =
        IF q \in s.skipped THEN r ELSE OnSampleComplete(d, q, err, src, ok)
  BY DEF HandleResponse
<1>3. CASE q \in s.skipped
  <2>1. QueriesFit(r) /\ Counted(r) /\ SameTrajectories(s, r)
    BY <1>1, <1>3, DroppedAnswer
  <2> HIDE DEF r
  <2>2. Running(r, 0, {})
    BY <2>1, TrajectoriesKept DEF Running
  <2> QED
    BY <1>2, <1>3, <2>2
<1>4. CASE q \notin s.skipped /\ q \notin s.inflight
  <2>1. /\ d \in State
        /\ d.wire = s.wire \ {q} /\ d.skipped = s.skipped /\ d.timers = s.timers
        /\ d.inflight = s.inflight /\ d.conv = s.conv
        /\ d.ends = [s.ends EXCEPT ![q] = @ + 1]
        /\ d.pending = (IF s.pending <= 0 THEN s.pending ELSE s.pending - 1)
        /\ SameTrajectories(s, d)
    BY <1>1, <1>4, CountedAnswer
  <2>2. HandleResponse(s, q, err, src, ok) = OnSampleComplete(d, q, err, src, ok)
    BY <1>2, <1>4
  <2> HIDE DEF d
  <2>3. q \in Owed(s) /\ s.timers = s.inflight
    BY <1>1, <1>4 DEF Owed, QueriesFit
  <2>4. QueriesFit(d) /\ Counted(d)
    BY <1>1, <1>4, <2>1, <2>3, PaidOnce
  <2>5. Running(d, 0, {})
    BY <2>1, <2>4, TrajectoriesKept DEF Running
  <2> QED
    BY <1>4, <2>1, <2>2, <2>5 DEF OnSampleComplete
<1>5. CASE q \in s.inflight
  <2> DEFINE l == s.conv[q]
  <2>0. PICK t :
          /\ TurnOver(s, t, q)
          /\ HandleResponse(s, q, err, src, ok) =
               IF err THEN FinishConversation(AbortRemaining(t, l), l, src, ok)
               ELSE IF t.stopping THEN SignalIfIdle(t)
               ELSE IssueNextTurn(t, l, src, ok)
    BY <1>5, AnswerIs
  <2>1. /\ l \in Logical /\ Running(t, 0, {l}) /\ ~Busy(t, l) /\ t.delayed[l] = Absent
        /\ t.stopping \/ t.active[l] # Absent
        /\ ~Unstarted(t, l) /\ Draws(t) = Draws(s)
    BY <2>0 DEF TurnOver
  <2> HIDE DEF l
  <2>2. CASE err
    BY <2>0, <2>1, <2>2, AbortRuns
  <2>3. CASE ~err /\ t.stopping
    <3>1. Running(t, 0, {})
      BY <2>1, <2>3, StoppedKeeps
    <3> QED
      BY <2>0, <2>3, <3>1, SignalKeeps
  <2>4. CASE ~err /\ ~t.stopping
    BY <2>0, <2>1, <2>4, NextTurnRuns
  <2> QED
    BY <2>2, <2>3, <2>4
<1> QED
  BY <1>3, <1>4, <1>5

\* _handle_response after execute(), with this phase's issuer or the next one.
LEMMA AnswerDrains ==
  ASSUME NEW s, NEW q \in s.wire, NEW err, NEW src, NEW ok, Ended(s), Counted(s) \/ pc = "next"
  PROVE  LET t == HandleResponse(s, q, err, src, ok)
         IN  Ended(t) /\ (pc # "next" => Counted(t))
<1> DEFINE r == [s EXCEPT !.wire = @ \ {q}]
<1> DEFINE e == [r EXCEPT !.ends[q] = @ + 1]
<1> DEFINE d == MarkInflightComplete(e)
<1>1. QueriesFit(s) /\ s.inflight = {} /\ s \in State
  BY DEF Ended, QueriesFit
<1>2. CASE pc = "next"
  <2>1. HandleResponse(s, q, err, src, ok) = e
    BY <1>2 DEF HandleResponse
  <2>2. q \in 1..Len(s.conv) /\ Len(s.ends) = Len(s.conv) /\ s.ends \in Seq(Nat)
    BY <1>1 DEF QueriesFit, State
  <2>3. [s.ends EXCEPT ![q] = @ + 1] \in Seq(Nat) /\ Len([s.ends EXCEPT ![q] = @ + 1]) = Len(s.ends)
    BY <2>2, EndsCounted
  <2>4. s.wire \ {q} \in SUBSET Nat
    BY <1>1 DEF State
  <2>5. e = [s EXCEPT !.wire = s.wire \ {q}, !.ends = [s.ends EXCEPT ![q] = @ + 1]]
    BY <1>1 DEF State
  <2> HIDE DEF e
  <2>6. e \in State
    BY <1>1, <2>3, <2>4, <2>5 DEF State
  <2>7. /\ e.wire = s.wire \ {q} /\ e.ends = [s.ends EXCEPT ![q] = @ + 1]
        /\ e.skipped = s.skipped /\ e.inflight = s.inflight /\ e.timers = s.timers
        /\ e.conv = s.conv /\ e.failed = s.failed /\ e.turns = s.turns
    BY <1>1, <2>5 DEF State
  <2>8. Ended(e)
    BY <1>1, <2>3, <2>6, <2>7 DEF Ended, QueriesFit, Owed
  <2> QED
    BY <1>2, <2>1, <2>8
<1>3. CASE pc # "next" /\ q \in s.skipped
  <2>1. HandleResponse(s, q, err, src, ok) = r
    BY <1>3 DEF HandleResponse
  <2>2. QueriesFit(r) /\ Counted(r) /\ SameTrajectories(s, r)
    BY <1>1, <1>3, DroppedAnswer
  <2> HIDE DEF r
  <2>3. Ended(r)
    BY <2>2 DEF Ended, SameTrajectories
  <2> QED
    BY <2>1, <2>2, <2>3
<1>4. CASE pc # "next" /\ q \notin s.skipped
  <2>1. /\ d \in State
        /\ d.wire = s.wire \ {q} /\ d.skipped = s.skipped /\ d.timers = s.timers
        /\ d.inflight = s.inflight /\ d.conv = s.conv
        /\ d.ends = [s.ends EXCEPT ![q] = @ + 1]
        /\ d.pending = (IF s.pending <= 0 THEN s.pending ELSE s.pending - 1)
        /\ SameTrajectories(s, d)
    BY <1>1, <1>4, CountedAnswer
  <2>2. HandleResponse(s, q, err, src, ok) = OnSampleComplete(d, q, err, src, ok)
    BY <1>4 DEF HandleResponse
  <2> HIDE DEF d
  <2>3. OnSampleComplete(d, q, err, src, ok) = d
    BY <1>1, <2>1 DEF OnSampleComplete
  <2>4. q \in Owed(s) /\ s.timers = s.inflight
    BY <1>1, <1>4 DEF Owed, QueriesFit
  <2>5. QueriesFit(d) /\ Counted(d)
    BY <1>1, <1>4, <2>1, <2>4, PaidOnce
  <2>6. Ended(d)
    BY <2>1, <2>5 DEF Ended, SameTrajectories
  <2> QED
    BY <2>2, <2>3, <2>5, <2>6
<1> QED
  BY <1>2, <1>3, <1>4


-----------------------------------------------------------------------------
(* The invariant.                                                          *)

\* A tool delay that has passed: the turn it held back is the next one.
LEMMA DelayRuns ==
  ASSUME NEW s, NEW l \in Waiting(s), NEW ok \in BOOLEAN, Running(s, 0, {})
  PROVE  Running(IssueTurnNow(s, l, s.delayed[l], ok), 0, {})
<1>1. l \in Logical /\ s.delayed[l] # Absent
  BY DEF Waiting
<1>2. Cursor(s, l) /\ s \in State
  BY <1>1 DEF Running, Cursors, QueriesFit
<1>3. s.delayed[l] = s.active[l] /\ ~Busy(s, l) /\ s.active[l] < Turns[l[1]]
  BY <1>1, <1>2 DEF Cursor
<1>4. Running(s, 0, {l})
  BY DEF Running, Working
<1> QED
  BY <1>1, <1>3, <1>4, TurnRuns

\* A call that starts a conversation counts one trajectory at most.
LEMMA StartCounts ==
  ASSUME NEW s \in State, NEW src, NEW ok
  PROVE  StartConversation(s, src, ok).started \in {s.started, s.started + 1}
<1> DEFINE l == <<src, s.started \div N + 1>>
<1> DEFINE t == [s EXCEPT !.started = @ + 1, !.left = Draws(s) \ {src}, !.active[l] = 0]
<1> DEFINE d == [t EXCEPT !.delayed[l] = Absent]
<1> DEFINE n == s.started + 1
<1>1. t.started = n /\ d.started = n
  BY DEF State
<1>2. RequestStop(d).started = n
  BY <1>1 DEF State, RequestStop, SignalIfIdle
<1>3. Issue(d, l, ok).started = n
  BY <1>1 DEF State, Issue, Fails, Drawn
<1>4. IssueTurnNow(t, l, t.active[l], ok).started = n
  BY <1>1, <1>2, <1>3 DEF IssueTurnNow
<1>5. [t EXCEPT !.delayed[l] = t.active[l]].started = n
  BY <1>1 DEF State
<1>6. BeginTurn(t, l, ok).started = n
  BY <1>4, <1>5 DEF BeginTurn
<1>7. StartConversation(s, src, ok) = IF s.stopping THEN s ELSE BeginTurn(t, l, ok)
  BY DEF StartConversation
<1> QED
  BY <1>6, <1>7

\* execute() leaves nothing of its own behind, and the count as it is.
LEMMA FinallyEnds ==
  ASSUME NEW s, NEW v, NEW X, Running(s, v, X)
  PROVE  Ended(Finally(s)) /\ Counted(Finally(s))
<1> DEFINE t == Finally(s)
<1>1. s \in State
  BY DEF Running, QueriesFit
<1>2. t \in State
  <2>1. [l \in Logical |-> Absent] \in [Logical -> Int] /\ {} \in SUBSET Nat
    BY DEF Absent
  <2> QED
    BY <1>1, <2>1 DEF State, Finally
<1>3. /\ t.wire = s.wire /\ t.skipped = s.skipped /\ t.conv = s.conv /\ t.ends = s.ends
      /\ t.pending = s.pending /\ t.inflight = {} /\ t.timers = {}
      /\ t.turns = s.turns /\ t.failed = s.failed
  BY <1>1 DEF State, Finally
<1> HIDE DEF t
<1>4. QueriesFit(t) /\ Counted(t)
  BY <1>2, <1>3 DEF Running, QueriesFit, Counted, Owed
<1>5. Ended(t)
  BY <1>3, <1>4 DEF Running, Cursors, Cursor, Ended
<1> QED
  BY <1>4, <1>5 DEF t

\* execute() starts with every slot free and every trajectory unstarted.
LEMMA InitialRuns ==
  ASSUME NEW b \in BOOLEAN
  PROVE  Running(InitialState(b), InitialConversations, {})
<1> DEFINE s == InitialState(b)
<1>0. N \in Nat \ {0} /\ Budget \in Nat \ {0} /\ InitialConversations \in Nat
  BY Bounds
<1>1. /\ s.active = [l \in Logical |-> Absent] /\ s.delayed = [l \in Logical |-> Absent]
      /\ s.inflight = {} /\ s.timers = {} /\ s.skipped = {} /\ s.wire = {} /\ s.left = {}
      /\ s.turns = [l \in Logical |-> 0] /\ s.failed = [l \in Logical |-> 0]
      /\ s.conv = << >> /\ s.ends = << >> /\ s.started = 0 /\ s.pending = 0
      /\ s.stopping = FALSE /\ s.untracked = FALSE /\ s.error = FALSE
  BY DEF InitialState
<1>2. s \in State
  <2>1. [l \in Logical |-> Absent] \in [Logical -> Int]
    BY DEF Absent
  <2>2. << >> \in Seq(Logical) /\ << >> \in Seq(Nat) /\ 0 \in 0..Budget
    BY <1>0
  <2> QED
    BY <2>1, <2>2 DEF State, InitialState
<1> HIDE DEF s
<1>3. Owed(s) = {} /\ Active(s) = {} /\ \A l : ~Busy(s, l)
  BY <1>1 DEF Owed, Active, Busy
<1>4. Cardinality(Owed(s)) = 0 /\ Cardinality(Active(s)) = 0
  BY <1>3, FS_EmptySet
<1>5. QueriesFit(s) /\ Counted(s)
  BY <1>1, <1>2, <1>3, <1>4 DEF QueriesFit, Counted
<1>6. Cursors(s)
  <2>1. \A l \in Logical : Turns[l[1]] \in Nat \ {0}
    <3>1. \A l \in Logical : l[1] \in Conv
      BY DEF Logical
    <3> QED
      BY <3>1, Bounds
  <2>2. \A l \in Logical : Cursor(s, l)
    BY <1>1, <1>3, <2>1 DEF Cursor
  <2> QED
    BY <1>1, <1>3, <2>2 DEF Cursors
<1>7. Working(s, {}) /\ Slots(s, InitialConversations)
  BY <1>0, <1>1, <1>3, <1>4 DEF Working, Slots
<1>8. Fresh(s)
  <2>1. Draws(s) = Conv /\ Cardinality(Conv) = N
    BY <1>1 DEF Draws, N
  <2>2. 0 % N = 0
    BY <1>0
  <2> QED
    BY <1>0, <1>1, <1>3, <2>1, <2>2 DEF Fresh
<1>9. Running(s, InitialConversations, {})
  BY <1>5, <1>6, <1>7, <1>8 DEF Running
<1> QED
  BY <1>9 DEF s

\* The invariant holds when execute() starts ...
LEMMA StrategyInvInit == Init => StrategyInv
<1> SUFFICES ASSUME Init PROVE StrategyInv
  OBVIOUS
<1>1. PICK b \in StopIssuing : st = InitialState(b)
  BY DEF Init
<1>2. b \in BOOLEAN
  BY AgenticAssumption
<1>3. Running(st, InitialConversations, {})
  BY <1>1, <1>2, InitialRuns
<1>4. st.started = 0
  BY <1>1 DEF InitialState
<1>5. pc = "seeding" /\ seeds = InitialConversations
  BY DEF Init
<1>6. {halted, cancel, aborted, clean} \subseteq BOOLEAN
  BY DEF Init
<1>7. seeds \in Nat /\ st.started + seeds <= Budget
  BY <1>4, <1>5, Bounds
<1>8. Running(st, seeds, {})
  BY <1>3, <1>5
<1> QED
  BY <1>5, <1>6, <1>7, <1>8 DEF StrategyInv

\* ... and every step keeps it.
LEMMA StrategyInvStep == StrategyInv /\ [Next]_vars => StrategyInv'
<1> SUFFICES ASSUME StrategyInv, [Next]_vars PROVE StrategyInv'
  OBVIOUS
<1>1. /\ pc \in {"seeding", "waiting", "draining", "next", "over"}
      /\ seeds \in Nat /\ {halted, cancel, aborted, clean} \subseteq BOOLEAN
  BY DEF StrategyInv
<1>2. Outcomes \subseteq BOOLEAN
  BY DEF Outcomes
<1>3. CASE UNCHANGED vars
  BY <1>3 DEF vars, StrategyInv
<1>4. CASE Seed
  <2>1. pc = "seeding" /\ seeds > 0 /\ pc' = pc /\ seeds' = seeds - 1
    BY <1>4 DEF Seed
  <2>2. PICK src \in Draws(st), ok \in Outcomes : st' = StartConversation(st, src, ok)
    BY <1>4 DEF Seed
  <2>3. Running(st, seeds, {}) /\ st.started + seeds <= Budget
    BY <2>1 DEF StrategyInv
  <2>4. st \in State /\ st.started \in Nat /\ Budget \in Nat
    <3>1. st \in State
      BY <2>3 DEF Running, QueriesFit
    <3> QED
      BY <3>1, Bounds DEF State
  <2>5. PICK v \in Nat : seeds = v + 1
    <3>1. seeds - 1 \in Nat /\ seeds = (seeds - 1) + 1
      BY <1>1, <2>1
    <3> QED
      BY <3>1
  <2>6. Running(StartConversation(st, src, ok), v, {})
    <3>1. Running(st, v + 1, {}) /\ st.started < Budget
      BY <2>3, <2>4, <2>5
    <3> QED
      BY <1>2, <2>2, <2>5, <3>1, StartRuns
  <2>7. st'.started \in {st.started, st.started + 1}
    BY <2>2, <2>4, StartCounts
  <2>8. seeds' = v
    BY <2>1, <2>5
  <2>9. Running(st', seeds', {})
    BY <2>2, <2>6, <2>8
  <2>10. st'.started + seeds' <= Budget
    BY <2>3, <2>4, <2>5, <2>7, <2>8
  <2>11. {halted, cancel, aborted, clean}' \subseteq BOOLEAN
    BY <1>1, <1>4 DEF Seed
  <2> QED
    BY <2>1, <2>5, <2>8, <2>9, <2>10, <2>11 DEF StrategyInv
<1>5. ASSUME NEW v, NEW ok \in BOOLEAN, Running(st, v, {}), Leave(ok), cancel' \in BOOLEAN
      PROVE  StrategyInv'
  <2>1. st' = Finally(st) /\ pc' \in {"draining", "over"} /\ seeds' = seeds
    BY <1>5 DEF Leave
  <2>2. Ended(st') /\ Counted(st')
    BY <1>5, <2>1, FinallyEnds
  <2>3. {halted, cancel, aborted, clean}' \subseteq BOOLEAN
    BY <1>1, <1>5 DEF Leave
  <2>4. Ended(st)' /\ Counted(st)'
    BY <2>2 DEF Ended, Counted, QueriesFit, Owed
  <2> QED
    BY <1>1, <2>1, <2>3, <2>4 DEF StrategyInv
<1>6. CASE Seeded
  <2>1. pc = "seeding" /\ Running(st, seeds, {})
    BY <1>6 DEF Seeded, StrategyInv
  <2>2. CASE Leave(~st.error) /\ UNCHANGED cancel
    <3>1. (~st.error) \in BOOLEAN
      OBVIOUS
    <3>2. cancel' \in BOOLEAN
      BY <1>1, <2>2
    <3> QED
      BY <1>5, <2>1, <2>2, <3>1, <3>2
  <2>3. CASE seeds = 0 /\ pc' = "waiting" /\ UNCHANGED <<st, seeds, halted, cancel, aborted, clean>>
    BY <1>1, <2>1, <2>3 DEF StrategyInv
  <2> QED
    BY <1>6, <2>2, <2>3 DEF Seeded
<1>7. CASE Wake
  <2>1. Running(st, 0, {}) /\ Leave(~st.error) /\ UNCHANGED cancel
    BY <1>7 DEF Wake, StrategyInv
  <2>2. (~st.error) \in BOOLEAN
    OBVIOUS
  <2>3. cancel' \in BOOLEAN
    BY <1>1, <2>1
  <2> QED
    BY <1>5, <2>1, <2>2, <2>3
<1>8. CASE Cancelled
  <2>1. /\ Running(st, 0, {}) /\ st' = Finally(st) /\ pc' = "draining" /\ seeds' = seeds
        /\ cancel' = FALSE /\ UNCHANGED <<halted, aborted, clean>>
    BY <1>8 DEF Cancelled, StrategyInv
  <2>2. Ended(st') /\ Counted(st')
    BY <2>1, FinallyEnds
  <2> QED
    BY <1>1, <2>1, <2>2 DEF StrategyInv
<1>9. CASE Answer
  <2>1. /\ pc \in {"waiting", "draining", "next"}
        /\ UNCHANGED <<pc, seeds, halted, cancel, aborted, clean>>
    BY <1>1, <1>9 DEF Answer, Loop
  <2>2. PICK q \in st.wire, src \in Draws(st), ok \in Outcomes, err \in BOOLEAN :
          st' = HandleResponse(st, q, err, src, ok)
    BY <1>9 DEF Answer
  <2>3. CASE pc = "waiting"
    <3>1. Running(st', 0, {})
      BY <1>2, <2>2, <2>3, AnswerRuns DEF StrategyInv
    <3> QED
      BY <1>1, <2>1, <2>3, <3>1 DEF StrategyInv
  <2>4. CASE pc \in {"draining", "next"}
    <3>1. Ended(st) /\ (Counted(st) \/ pc = "next")
      BY <2>4 DEF StrategyInv
    <3>2. Ended(st') /\ (pc # "next" => Counted(st'))
      BY <2>2, <3>1, AnswerDrains
    <3> QED
      BY <1>1, <2>1, <2>4, <3>2 DEF StrategyInv
  <2> QED
    BY <2>1, <2>3, <2>4
<1>10. CASE Timeout
  <2>1. pc = "waiting" /\ Running(st, 0, {}) /\ UNCHANGED <<pc, seeds, halted, cancel, aborted, clean>>
    BY <1>10 DEF Timeout, StrategyInv
  <2>2. PICK q \in st.timers, src \in Draws(st), ok \in Outcomes :
          st' = HandleTimeout(st, q, src, ok)
    BY <1>10 DEF Timeout
  <2>3. Running(st', 0, {})
    BY <1>2, <2>1, <2>2, TimeoutRuns
  <2> QED
    BY <1>1, <2>1, <2>3 DEF StrategyInv
<1>11. CASE DelayFires
  <2>1. pc = "waiting" /\ Running(st, 0, {}) /\ UNCHANGED <<pc, seeds, halted, cancel, aborted, clean>>
    BY <1>11 DEF DelayFires, StrategyInv
  <2>2. PICK l \in Waiting(st), ok \in Outcomes : st' = IssueTurnNow(st, l, st.delayed[l], ok)
    BY <1>11 DEF DelayFires
  <2>3. Running(st', 0, {})
    BY <1>2, <2>1, <2>2, DelayRuns
  <2> QED
    BY <1>1, <2>1, <2>3 DEF StrategyInv
<1>12. CASE Elapse
  BY <1>1, <1>12 DEF Elapse, StrategyInv
<1>13. CASE Cap
  BY <1>1, <1>13 DEF Cap, StrategyInv
<1>14. CASE Stop
  <2>1. cancel' \in BOOLEAN /\ halted' = TRUE /\ aborted' = TRUE /\ UNCHANGED <<st, pc, seeds, clean>>
    BY <1>14 DEF Stop
  <2> QED
    BY <1>1, <2>1 DEF StrategyInv
<1>15. CASE Drain
  <2>1. /\ pc = "draining" /\ Ended(st) /\ Counted(st) /\ st' = [st EXCEPT !.untracked = TRUE]
        /\ pc' \in {"over", "next"} /\ aborted' \in BOOLEAN
        /\ UNCHANGED <<seeds, halted, cancel, clean>>
    BY <1>1, <1>15 DEF Drain, StrategyInv
  <2> DEFINE t == [st EXCEPT !.untracked = TRUE]
  <2>2. st \in State
    BY <2>1 DEF Ended, QueriesFit
  <2>3. t \in State
    BY <2>2 DEF State
  <2>4. /\ t.wire = st.wire /\ t.skipped = st.skipped /\ t.inflight = st.inflight
        /\ t.timers = st.timers /\ t.conv = st.conv /\ t.ends = st.ends /\ t.pending = st.pending
        /\ t.turns = st.turns /\ t.failed = st.failed
    BY <2>2 DEF State
  <2>5. t = st'
    BY <2>1
  <2> HIDE DEF t
  <2>6. Ended(t) /\ Counted(t)
    BY <2>1, <2>3, <2>4, QueriesKept DEF Ended
  <2>7. Ended(st') /\ Counted(st')
    BY <2>5, <2>6
  <2> QED
    BY <1>1, <2>1, <2>7 DEF StrategyInv
<1>16. CASE Terminated
  BY <1>3, <1>16 DEF Terminated
<1> QED
  BY <1>3, <1>4, <1>6, <1>7, <1>8, <1>9, <1>10, <1>11, <1>12, <1>13, <1>14, <1>15, <1>16 DEF Next

\* The invariant says at least what the run checks.
LEMMA StrategyInvOrderly == StrategyInv => TrajectoriesAreOrderly
<1> SUFFICES ASSUME StrategyInv PROVE TrajectoriesAreOrderly
  OBVIOUS
<1>1. /\ pc \in {"seeding", "waiting", "draining", "next", "over"}
      /\ seeds \in Nat /\ {halted, cancel, aborted, clean} \subseteq BOOLEAN
  BY DEF StrategyInv
<1>2. QueriesFit(st) /\ (pc # "next" => Counted(st))
  BY <1>1 DEF StrategyInv, Running, Ended
<1>3. \A l \in Logical : st.failed[l] <= st.turns[l] /\ st.turns[l] <= Turns[l[1]]
  BY <1>1 DEF StrategyInv, Running, Ended, Cursors, Cursor
<1>4. /\ st \in State /\ Query = 1..Len(st.conv) /\ Len(st.ends) = Len(st.conv)
      /\ st.ends \in Seq(Nat) /\ DOMAIN st.ends = 1..Len(st.ends)
  BY <1>2 DEF QueriesFit, State, Query
<1>5. TypeOK
  <2>1. /\ st.active \in [Logical -> Int] /\ st.delayed \in [Logical -> Int]
        /\ st.started \in 0..Budget /\ st.left \subseteq Conv
        /\ st.turns \in [Logical -> Nat] /\ st.failed \in [Logical -> Nat]
        /\ st.conv \in Seq(Logical) /\ st.issued \in Nat /\ st.pending \in Nat
    BY <1>4 DEF State
  <2>2. \A f \in {"stopping", "done", "error", "untracked"} : st[f] \in BOOLEAN
    BY <1>4 DEF State
  <2>3. /\ st.inflight \subseteq Query /\ st.timers \subseteq Query
        /\ st.skipped \subseteq Query /\ st.wire \subseteq Query
    BY <1>2, <1>4 DEF QueriesFit, Owed
  <2>4. st.ends \in [Query -> Nat]
    BY <1>4
  <2> QED
    BY <1>1, <2>1, <2>2, <2>3, <2>4 DEF TypeOK
<1>6. PendingIsExact
  <2> SUFFICES ASSUME pc # "next"
               PROVE  st.pending = Cardinality({q \in st.wire : st.ends[q] = 0})
    BY DEF PendingIsExact
  <2>1. {q \in st.wire : st.ends[q] = 0} = Owed(st)
    BY <1>2 DEF Counted, Owed
  <2> QED
    BY <1>2, <2>1 DEF Counted
<1>7. TurnEndsOnce
  BY <1>2, <1>4 DEF TurnEndsOnce, Counted
<1>8. OneTurnAtATime
  <2> SUFFICES ASSUME pc = "waiting", ~st.error, NEW l \in Active(st)
               PROVE  Cardinality({q \in st.inflight : st.conv[q] = l})
                        + (IF l \in Waiting(st) THEN 1 ELSE 0) = 1
    BY DEF OneTurnAtATime
  <2> DEFINE S == {q \in st.inflight : st.conv[q] = l}
  <2>1. Running(st, 0, {}) /\ l \in Logical
    BY DEF StrategyInv, Active
  <2>2. Busy(st, l) \/ st.delayed[l] # Absent
    BY <2>1 DEF Running, Working
  <2>3. st.delayed[l] # Absent => ~Busy(st, l)
    BY <2>1 DEF Running, Cursors, Cursor
  <2>4. CASE Busy(st, l)
    <3>1. PICK q \in st.inflight : st.conv[q] = l
      BY <2>4 DEF Busy
    <3>2. S = {q}
      BY <2>1, <3>1 DEF Running, Cursors
    <3>3. Cardinality(S) = 1
      BY <3>2, FS_Singleton
    <3>4. l \notin Waiting(st)
      BY <2>3, <2>4 DEF Waiting
    <3> QED
      BY <3>3, <3>4
  <2>5. CASE ~Busy(st, l)
    <3>1. S = {}
      BY <2>5 DEF Busy
    <3>2. Cardinality(S) = 0
      BY <3>1, FS_EmptySet
    <3>3. l \in Waiting(st)
      BY <2>1, <2>2, <2>5 DEF Waiting
    <3> QED
      BY <3>2, <3>3
  <2> QED
    BY <2>4, <2>5
<1>9. SlotsFollowBudget
  <2>1. TurnsNeverOvercounted
    BY <1>3 DEF TurnsNeverOvercounted
  <2>2. pc = "waiting" => Slots(st, 0) /\ Cardinality(Active(st)) \in Nat
    BY LogicalFinite DEF StrategyInv, Running, Active
  <2>3. SlotsStayFull /\ TrackingStopsAtBudget
    BY <2>2 DEF Slots, SlotsStayFull, TrackingStopsAtBudget
  <2> QED
    BY <2>1, <2>3 DEF SlotsFollowBudget
<1> QED
  BY <1>5, <1>6, <1>7, <1>8, <1>9 DEF TrajectoriesAreOrderly, TurnsAreOrderly

-----------------------------------------------------------------------------
(* Runs nobody stops: the samples the started trajectories are made of.    *)

\* The turns that active conversations have still to issue.
Rem(s) == [l \in Logical |-> IF s.active[l] = Absent THEN 0 ELSE Turns[l[1]] - s.active[l]]

\* The samples the trajectories that were started are made of.
Promised(s) == (s.started \div N) * Total(Turns, Conv) + Total(Turns, Conv \ Draws(s))

\* Nobody has stopped the strategy, and nothing is missing: what was issued and
\* what is still to be issued are the samples of the trajectories that were
\* started, each query has ended or is in flight, and each of the trajectories
\* is active or complete.
Whole(s) ==
  /\ ~s.stopping
  /\ s.issued = Len(s.conv)
  /\ \A q \in 1..Len(s.conv) : s.ends[q] >= 1 \/ q \in s.inflight
  /\ s.issued + Total(Rem(s), Logical) = Promised(s)
  /\ \A l \in Logical : Unstarted(s, l) \/ s.active[l] # Absent \/ IsComplete(s, l)
  /\ Cardinality({l \in Logical : ~Unstarted(s, l)}) = s.started

\* What a callback makes of a strategy that is whole: an exception, or a whole
\* one that is not called done while there is work.
Outcome(s) == s.error \/ (Whole(s) /\ (s.done => ~HasWork(s)))

-----------------------------------------------------------------------------
\* The sums are numbers.
LEMMA SumsTyped ==
  ASSUME NEW s \in State
  PROVE  /\ Total(Rem(s), Logical) \in Int /\ \A l \in Logical : Rem(s)[l] \in Int
         /\ \A A \in SUBSET Conv : Total(Turns, A) \in Int
         /\ s.started \div N \in Nat /\ Promised(s) \in Int
<1>1. \A c \in Conv : Turns[c] \in Int
  BY Bounds
<1>2. \A A \in SUBSET Conv : Total(Turns, A) \in Int
  <2> TAKE A \in SUBSET Conv
  <2>1. IsFiniteSet(A) /\ \A c \in A : Turns[c] \in Int
    BY <1>1, Bounds, FS_Subset
  <2> QED
    BY <2>1, TotalInt
<1>3. \A l \in Logical : Rem(s)[l] \in Int
  <2> TAKE l \in Logical
  <2>1. l[1] \in Conv /\ s.active[l] \in Int
    BY DEF Logical, State
  <2> QED
    BY <1>1, <2>1 DEF Rem
<1>4. Total(Rem(s), Logical) \in Int
  BY <1>3, LogicalFinite, TotalInt
<1>5. s.started \div N \in Nat
  <2>1. s.started \in Nat /\ N \in Nat \ {0}
    BY Bounds DEF State
  <2> QED
    BY <2>1, DivMod
<1>6. Conv \in SUBSET Conv /\ Conv \ Draws(s) \in SUBSET Conv
  OBVIOUS
<1>7. Total(Turns, Conv) \in Int /\ Total(Turns, Conv \ Draws(s)) \in Int
  BY <1>2, <1>6
<1>8. Promised(s) \in Int
  BY <1>5, <1>7 DEF Promised
<1> QED
  BY <1>2, <1>3, <1>4, <1>5, <1>8

\* While no trajectory starts, the promise stays, and so do those that are
\* started.
LEMMA OrderKept ==
  ASSUME NEW s, NEW t, t.started = s.started, t.left = s.left
  PROVE  /\ Promised(t) = Promised(s) /\ Draws(t) = Draws(s)
         /\ \A l \in Logical : Unstarted(t, l) <=> Unstarted(s, l)
         /\ {l \in Logical : ~Unstarted(t, l)} = {l \in Logical : ~Unstarted(s, l)}
<1>1. Draws(t) = Draws(s)
  BY DEF Draws
<1>2. \A l \in Logical : Unstarted(t, l) <=> Unstarted(s, l)
  BY <1>1 DEF Unstarted
<1>3. Promised(t) = Promised(s)
  BY <1>1 DEF Promised
<1> QED
  BY <1>1, <1>2, <1>3

\* What being whole depends on.
SameAccount(s, t) ==
  /\ t.active = s.active /\ t.started = s.started /\ t.left = s.left
  /\ t.issued = s.issued /\ t.conv = s.conv /\ t.stopping = s.stopping
  /\ \A l \in Logical : IsComplete(s, l) => IsComplete(t, l)
  /\ \A q \in 1..Len(s.conv) :
       s.ends[q] >= 1 \/ q \in s.inflight => t.ends[q] >= 1 \/ q \in t.inflight

\* A change that touches none of it keeps the strategy whole.
LEMMA WholeKept ==
  ASSUME NEW s, NEW t, SameAccount(s, t), Whole(s)
  PROVE  Whole(t)
<1>1. /\ t.active = s.active /\ t.started = s.started /\ t.left = s.left
      /\ t.issued = s.issued /\ t.conv = s.conv /\ t.stopping = s.stopping
      /\ \A l \in Logical : IsComplete(s, l) => IsComplete(t, l)
      /\ \A q \in 1..Len(s.conv) :
           s.ends[q] >= 1 \/ q \in s.inflight => t.ends[q] >= 1 \/ q \in t.inflight
  BY DEF SameAccount
<1>2. Rem(t) = Rem(s)
  BY <1>1 DEF Rem
<1>3. /\ Promised(t) = Promised(s)
      /\ \A l \in Logical : Unstarted(t, l) <=> Unstarted(s, l)
      /\ {l \in Logical : ~Unstarted(t, l)} = {l \in Logical : ~Unstarted(s, l)}
  BY <1>1, OrderKept
<1> QED
  BY <1>1, <1>2, <1>3 DEF Whole

\* One active conversation has fewer turns to issue, by as many as were issued.
LEMMA Accounted ==
  ASSUME NEW s, NEW t, s \in State, t \in State, NEW l \in Logical, NEW n \in Int,
         \A k \in Logical : k # l => t.active[k] = s.active[k],
         Rem(t)[l] = Rem(s)[l] - n, t.issued = s.issued + n,
         t.started = s.started, t.left = s.left,
         s.issued + Total(Rem(s), Logical) = Promised(s)
  PROVE  t.issued + Total(Rem(t), Logical) = Promised(t)
<1>1. /\ Total(Rem(s), Logical) \in Int /\ \A k \in Logical : Rem(s)[k] \in Int
      /\ Total(Rem(t), Logical) \in Int /\ \A k \in Logical : Rem(t)[k] \in Int
  BY SumsTyped
<1>2. \A k \in Logical : k # l => Rem(s)[k] = Rem(t)[k]
  BY DEF Rem
<1>3. Total(Rem(t), Logical) = Total(Rem(s), Logical) + Rem(t)[l] - Rem(s)[l]
  BY <1>1, <1>2, LogicalFinite, TotalChange
<1>4. Promised(t) = Promised(s)
  BY OrderKept
<1>5. s.issued \in Int
  BY DEF State
<1> QED
  BY <1>1, <1>3, <1>4, <1>5

-----------------------------------------------------------------------------
\* A query is handed over, or handing it over raises.
LEMMA IssueWhole ==
  ASSUME NEW s, NEW l \in Logical, NEW ok \in BOOLEAN, QueriesFit(s), Whole(s), ~s.done,
         s.active[l] \in Nat
  PROVE  Outcome(Issue(s, l, ok))
<1> DEFINE q == Len(s.conv) + 1
<1> DEFINE d == Drawn(s, l, 1)
<1>0. s \in State
  BY DEF QueriesFit
<1>1. /\ d \in State
      /\ Len(d.conv) = q
      /\ Len(s.conv) \in Nat
      /\ \A r \in 1..Len(s.conv) : d.conv[r] = s.conv[r] /\ d.ends[r] = s.ends[r]
      /\ SameTrajectories(s, d)
      /\ d.issued = s.issued /\ d.wire = s.wire /\ d.timers = s.timers
      /\ d.pending = s.pending
  BY DrawnIs
<1>2. CASE ~ok
  <2>1. Issue(s, l, ok).error
    BY <1>1, <1>2 DEF Issue, Fails, State
  <2> QED
    BY <2>1 DEF Outcome
<1>3. CASE ok
  <2> DEFINE t == [d EXCEPT !.active[l] = @ + 1,
                            !.inflight  = @ \cup {q},
                            !.timers    = @ \cup {q},
                            !.wire      = @ \cup {q},
                            !.pending   = @ + 1,
                            !.issued    = @ + 1]
  <2>1. Issue(s, l, ok) = t
    BY <1>3 DEF Issue
  <2>2. d.done = s.done
    BY <1>0 DEF State, Drawn
  <2> HIDE DEF d
  <2>3. q \in Nat
    BY <1>1
  <2> HIDE DEF q
  <2>4. t \in State
    <3>1. [d.active EXCEPT ![l] = @ + 1] \in [Logical -> Int]
      <4>1. d.active \in [Logical -> Int]
        BY <1>1 DEF State
      <4> QED
        BY <4>1
    <3>2. /\ d.inflight \cup {q} \in SUBSET Nat /\ d.timers \cup {q} \in SUBSET Nat
          /\ d.wire \cup {q} \in SUBSET Nat
          /\ d.pending + 1 \in Nat /\ d.issued + 1 \in Nat
      <4>1. /\ d.inflight \in SUBSET Nat /\ d.timers \in SUBSET Nat
            /\ d.wire \in SUBSET Nat /\ d.pending \in Nat /\ d.issued \in Nat
        BY <1>1 DEF State
      <4> QED
        BY <2>3, <4>1
    <3> QED
      BY <1>1, <3>1, <3>2 DEF State
  <2>5. /\ t.conv = d.conv /\ t.ends = d.ends /\ t.turns = s.turns
        /\ t.inflight = s.inflight \cup {q}
        /\ t.stopping = s.stopping /\ t.started = s.started /\ t.left = s.left
        /\ t.issued = s.issued + 1 /\ t.done = s.done
        /\ \A k \in Logical : t.active[k] = IF k = l THEN s.active[l] + 1 ELSE s.active[k]
    BY <1>1, <2>2 DEF State, SameTrajectories
  <2> HIDE DEF t
  <2>6. Rem(t)[l] = Rem(s)[l] - 1
    <3>1. Turns[l[1]] \in Int
      <4>1. l[1] \in Conv
        BY DEF Logical
      <4> QED
        BY <4>1, Bounds
    <3>2. t.active[l] = s.active[l] + 1 /\ t.active[l] # Absent /\ s.active[l] # Absent
      BY <2>5 DEF Absent
    <3> QED
      BY <3>1, <3>2 DEF Rem
  <2>7. t.issued + Total(Rem(t), Logical) = Promised(t)
    BY <1>0, <2>4, <2>5, <2>6, Accounted DEF Whole
  <2>8. t.issued = Len(t.conv)
    BY <1>1, <2>5 DEF Whole, q
  <2>9. \A r \in 1..Len(t.conv) : t.ends[r] >= 1 \/ r \in t.inflight
    <3>1. \A r \in 1..q : r \in 1..Len(s.conv) \/ r = q
      BY <1>1 DEF q
    <3> QED
      BY <1>1, <2>5, <3>1 DEF Whole
  <2>10. /\ \A k \in Logical : Unstarted(t, k) <=> Unstarted(s, k)
         /\ {k \in Logical : ~Unstarted(t, k)} = {k \in Logical : ~Unstarted(s, k)}
    BY <2>5, OrderKept
  <2>11. \A k \in Logical : Unstarted(t, k) \/ t.active[k] # Absent \/ IsComplete(t, k)
    BY <2>5, <2>10 DEF Whole, IsComplete, Absent
  <2>12. Whole(t)
    BY <2>5, <2>7, <2>8, <2>9, <2>10, <2>11 DEF Whole
  <2> QED
    BY <2>1, <2>5, <2>12 DEF Outcome
<1> QED
  BY <1>2, <1>3

\* A turn that is due is issued.
LEMMA TurnWhole ==
  ASSUME NEW s, NEW v, NEW X, NEW l \in Logical, NEW ok \in BOOLEAN, Running(s, v, X), ~halted,
         Whole(s), ~s.done, s.active[l] # Absent, ~Busy(s, l)
  PROVE  Outcome(IssueTurnNow(s, l, s.active[l], ok))
<1> DEFINE t == [s EXCEPT !.delayed[l] = Absent]
<1>1. s \in State /\ s.active[l] \in Nat
  <2>1. s \in State /\ s.active[l] = s.turns[l]
    BY DEF Running, QueriesFit, Cursors, Cursor
  <2> QED
    BY <2>1 DEF State
<1>2. /\ t.active = s.active /\ t.stopping = s.stopping /\ t.done = s.done
      /\ t.started = s.started /\ t.left = s.left /\ t.issued = s.issued /\ t.conv = s.conv
      /\ t.ends = s.ends /\ t.inflight = s.inflight /\ t.turns = s.turns
  BY <1>1 DEF State
<1>3. QueriesFit(t)
  BY UndelayRuns DEF Running
<1>4. IssueTurnNow(s, l, s.active[l], ok) = Issue(t, l, ok)
  BY <1>2 DEF IssueTurnNow, Whole
<1> HIDE DEF t
<1>5. SameAccount(s, t)
  BY <1>2 DEF SameAccount, IsComplete
<1>6. Whole(t)
  BY <1>5, WholeKept
<1> QED
  BY <1>1, <1>2, <1>3, <1>4, <1>6, IssueWhole

\* It may have to wait.
LEMMA BeginWhole ==
  ASSUME NEW s, NEW v, NEW X, NEW l \in Logical, NEW ok \in BOOLEAN, Running(s, v, X), ~halted,
         Whole(s), ~s.done, s.active[l] # Absent, ~Busy(s, l)
  PROVE  Outcome(BeginTurn(s, l, ok))
<1>1. CASE <<l[1], s.active[l]>> \notin Delayed
  BY <1>1, TurnWhole DEF BeginTurn
<1>2. CASE <<l[1], s.active[l]>> \in Delayed
  <2> DEFINE t == [s EXCEPT !.delayed[l] = s.active[l]]
  <2>1. s \in State
    BY DEF Running, QueriesFit
  <2>2. /\ t.active = s.active /\ t.stopping = s.stopping /\ t.done = s.done
        /\ t.started = s.started /\ t.left = s.left /\ t.issued = s.issued /\ t.conv = s.conv
        /\ t.ends = s.ends /\ t.inflight = s.inflight /\ t.turns = s.turns
    BY <2>1 DEF State
  <2>3. BeginTurn(s, l, ok) = t
    BY <1>2 DEF BeginTurn
  <2> HIDE DEF t
  <2>4. SameAccount(s, t)
    BY <2>2 DEF SameAccount, IsComplete
  <2> QED
    BY <2>2, <2>3, <2>4, WholeKept DEF Outcome
<1> QED
  BY <1>1, <1>2

-----------------------------------------------------------------------------
\* The order yields a source: its trajectory is the only one that starts, and
\* the promise grows by its turns.
LEMMA OrderAdvances ==
  ASSUME NEW s \in State, NEW t, NEW src \in Draws(s), s.started < Budget,
         t.started = s.started + 1, t.left = Draws(s) \ {src},
         Cardinality(Draws(s)) + (s.started % N) = N
  PROVE  LET l == <<src, s.started \div N + 1>>
         IN  /\ \A j \in Logical : Unstarted(t, j) <=> Unstarted(s, j) /\ j # l
             /\ Promised(t) = Promised(s) + Turns[src]
<1> DEFINE k == s.started \div N
<1> DEFINE l == <<src, k + 1>>
<1> DEFINE T == Total(Turns, Conv)
<1>1. s.started \in Nat /\ Budget \in Nat /\ N \in Nat \ {0} /\ k \in Nat
  <2>1. s.started \in Nat /\ Budget \in Nat /\ N \in Nat \ {0}
    BY Bounds DEF State
  <2> QED
    BY <2>1, DivMod
<1>2. src \in Conv /\ Draws(s) \subseteq Conv
  BY DEF Draws, State
<1>3. IsFiniteSet(Draws(s)) /\ Cardinality(Draws(s)) \in Nat
  BY <1>2, Bounds, FS_Subset, FS_CardinalityType
<1>4. Cardinality(Draws(s) \ {src}) = Cardinality(Draws(s)) - 1 /\ IsFiniteSet(Draws(s) \ {src})
  BY <1>3, FS_RemoveElement
<1>5. s.started % N \in Nat
  <2>1. s.started % N \in 0..(N - 1)
    BY <1>1, DivMod
  <2> QED
    BY <1>1, <2>1
<1>6. Total(Turns, Conv \ (Draws(s) \ {src})) = Total(Turns, Conv \ Draws(s)) + Turns[src]
  <2> DEFINE A == Conv \ Draws(s)
  <2>1. A \in SUBSET Conv /\ src \in Conv \ A /\ Conv \ (Draws(s) \ {src}) = A \cup {src}
    BY <1>2
  <2>2. \A c \in Conv : Turns[c] \in Int
    BY Bounds
  <2>3. IsFiniteSet(Conv)
    BY Bounds
  <2> HIDE DEF A
  <2>4. Total(Turns, A \cup {src}) = Total(Turns, A) + Turns[src]
    BY <2>1, <2>2, <2>3, TotalInsert
  <2> QED
    BY <2>1, <2>4 DEF A
<1>7. T \in Int /\ Total(Turns, Conv \ Draws(s)) \in Int /\ Turns[src] \in Int
  <2>1. Conv \in SUBSET Conv /\ Conv \ Draws(s) \in SUBSET Conv
    OBVIOUS
  <2> QED
    BY <1>2, <2>1, SumsTyped, Bounds
<1>8. Promised(s) = k * T + Total(Turns, Conv \ Draws(s))
  BY DEF Promised
<1>9. \A j \in Logical : j[2] \in Nat /\ j[1] \in Conv /\ j = <<j[1], j[2]>>
  BY DEF Logical
<1> HIDE DEF k, T
<1>10. CASE Draws(s) \ {src} = {}
  <2>1. Cardinality(Draws(s)) - 1 = 0
    BY <1>4, <1>10, FS_EmptySet
  <2>2. s.started % N = N - 1
    BY <1>1, <1>3, <1>5, <2>1
  <2>3. t.started \div N = k + 1
    BY <1>1, <2>2, NextDraw DEF k
  <2>4. Draws(t) = Conv /\ Draws(s) = {src}
    BY <1>10 DEF Draws
  <2>5. \A j \in Logical : Unstarted(t, j) <=> j[2] >= k + 2
    BY <1>1, <1>9, <2>3, <2>4 DEF Unstarted
  <2>6. \A j \in Logical : Unstarted(s, j) <=> j[2] > k + 1 \/ (j[2] = k + 1 /\ j[1] = src)
    BY <2>4 DEF Unstarted, k
  <2>7. \A j \in Logical : j = l <=> j[2] = k + 1 /\ j[1] = src
    BY <1>9
  <2>8. \A j \in Logical : Unstarted(t, j) <=> Unstarted(s, j) /\ j # l
    BY <1>1, <1>9, <2>5, <2>6, <2>7
  <2>9. Total(Turns, Conv \ Draws(s)) + Turns[src] = T
    <3>1. Conv \ (Draws(s) \ {src}) = Conv
      BY <1>10
    <3> QED
      BY <1>6, <3>1 DEF T
  <2>10. Promised(t) = (k + 1) * T + 0
    <3>1. Total(Turns, Conv \ Draws(t)) = 0
      <4>1. Conv \ Draws(t) = {} /\ IsFiniteSet({})
        BY <2>4, FS_EmptySet
      <4>2. Total(Turns, {}) = 0
        BY <4>1, TotalZero
      <4> QED
        BY <4>1, <4>2
    <3> QED
      BY <2>3, <3>1 DEF Promised, T
  <2>11. (k + 1) * T = k * T + T /\ k * T \in Int
    BY <1>1, <1>7
  <2> QED
    BY <1>7, <1>8, <2>8, <2>9, <2>10, <2>11 DEF k
<1>11. CASE Draws(s) \ {src} # {}
  <2>1. Cardinality(Draws(s)) - 1 # 0
    BY <1>4, <1>11, FS_EmptySet
  <2>2. s.started % N # N - 1
    BY <1>1, <1>3, <1>5, <2>1
  <2>3. t.started \div N = k
    BY <1>1, <2>2, NextDraw DEF k
  <2>4. Draws(t) = Draws(s) \ {src}
    BY <1>11 DEF Draws
  <2>5. \A j \in Logical : j = l <=> j[2] = k + 1 /\ j[1] = src
    BY <1>9
  <2>6. \A j \in Logical : Unstarted(t, j) <=> j[2] > k + 1 \/ (j[2] = k + 1 /\ j[1] \in Draws(s) \ {src})
    BY <2>3, <2>4 DEF Unstarted
  <2>7. \A j \in Logical : Unstarted(s, j) <=> j[2] > k + 1 \/ (j[2] = k + 1 /\ j[1] \in Draws(s))
    BY DEF Unstarted, k
  <2>8. \A j \in Logical : Unstarted(t, j) <=> Unstarted(s, j) /\ j # l
    BY <1>1, <1>9, <2>5, <2>6, <2>7
  <2>9. Promised(t) = k * T + (Total(Turns, Conv \ Draws(s)) + Turns[src])
    BY <1>6, <2>3, <2>4 DEF Promised, T
  <2>10. k * T \in Int
    BY <1>1, <1>7
  <2> QED
    BY <1>7, <1>8, <2>8, <2>9, <2>10 DEF k
<1> QED
  BY <1>10, <1>11

\* The conversation that starts has all its turns to issue.
LEMMA DrawWhole ==
  ASSUME NEW s, NEW v, NEW X, NEW src \in Draws(s), Running(s, v, X), Whole(s), s.started < Budget
  PROVE  LET l == <<src, s.started \div N + 1>>
             t == [s EXCEPT !.started = @ + 1, !.left = Draws(s) \ {src}, !.active[l] = 0]
         IN  Whole(t) /\ t.done = s.done
<1> DEFINE l == <<src, s.started \div N + 1>>
<1> DEFINE t == [s EXCEPT !.started = @ + 1, !.left = Draws(s) \ {src}, !.active[l] = 0]
<1>1. s \in State /\ s.started \in Nat /\ Cardinality(Draws(s)) + (s.started % N) = N
  BY DEF Running, QueriesFit, State, Fresh
<1>2. src \in Conv /\ Draws(s) \subseteq Conv
  BY <1>1 DEF Draws, State
<1>3. l \in Logical
  BY <1>1, <1>2, LogicalNamed
<1>4. Unstarted(s, l) /\ l[1] = src
  BY DEF Unstarted
<1>5. s.active[l] = Absent
  BY <1>3, <1>4 DEF Running, Fresh
<1>6. t \in State
  <2>1. [s.active EXCEPT ![l] = 0] \in [Logical -> Int]
    <3>1. s.active \in [Logical -> Int] /\ 0 \in Int
      BY <1>1 DEF State
    <3> HIDE DEF l
    <3> QED
      BY <3>1
  <2>2. s.started + 1 \in 0..Budget /\ Draws(s) \ {src} \in SUBSET Conv
    BY <1>1, <1>2, Bounds
  <2> QED
    BY <1>1, <2>1, <2>2 DEF State
<1>7. /\ t.started = s.started + 1 /\ t.left = Draws(s) \ {src}
      /\ t.stopping = s.stopping /\ t.done = s.done /\ t.turns = s.turns
      /\ t.issued = s.issued /\ t.conv = s.conv /\ t.ends = s.ends /\ t.inflight = s.inflight
      /\ \A j \in Logical : t.active[j] = IF j = l THEN 0 ELSE s.active[j]
  BY <1>1 DEF State
<1> HIDE DEF t
<1>8. /\ \A j \in Logical : Unstarted(t, j) <=> Unstarted(s, j) /\ j # l
      /\ Promised(t) = Promised(s) + Turns[src]
  BY <1>1, <1>7, OrderAdvances
<1> HIDE DEF l
<1>9. t.issued + Total(Rem(t), Logical) = Promised(t)
  <2>1. /\ Total(Rem(s), Logical) \in Int /\ Total(Rem(t), Logical) \in Int
        /\ \A j \in Logical : Rem(s)[j] \in Int /\ Rem(t)[j] \in Int
    BY <1>1, <1>6, SumsTyped
  <2>2. \A j \in Logical : j # l => Rem(s)[j] = Rem(t)[j]
    BY <1>7 DEF Rem
  <2>3. Total(Rem(t), Logical) = Total(Rem(s), Logical) + Rem(t)[l] - Rem(s)[l]
    BY <1>3, <2>1, <2>2, LogicalFinite, TotalChange
  <2>4. Turns[src] \in Int /\ s.issued \in Int
    BY <1>1, <1>2, Bounds DEF State
  <2>5. Rem(s)[l] = 0
    BY <1>3, <1>5 DEF Rem
  <2>6. Rem(t)[l] = Turns[src]
    <3>1. t.active[l] = 0 /\ t.active[l] # Absent
      BY <1>3, <1>7 DEF Absent
    <3> QED
      BY <1>3, <1>4, <2>4, <3>1 DEF Rem
  <2> QED
    BY <1>7, <1>8, <2>1, <2>3, <2>4, <2>5, <2>6 DEF Whole
<1>10. \A j \in Logical : Unstarted(t, j) \/ t.active[j] # Absent \/ IsComplete(t, j)
  BY <1>7, <1>8 DEF Whole, IsComplete, Absent
<1>11. Cardinality({j \in Logical : ~Unstarted(t, j)}) = t.started
  <2> DEFINE A == {j \in Logical : ~Unstarted(s, j)}
  <2>1. {j \in Logical : ~Unstarted(t, j)} = A \cup {l} /\ l \notin A
    BY <1>3, <1>4, <1>8
  <2>2. IsFiniteSet(A)
    BY LogicalFinite
  <2>3. Cardinality(A \cup {l}) = Cardinality(A) + 1
    BY <2>1, <2>2, FS_AddElement
  <2> QED
    BY <1>7, <2>1, <2>3 DEF Whole
<1>12. Whole(t)
  BY <1>7, <1>9, <1>10, <1>11 DEF Whole
<1> QED
  BY <1>7, <1>12 DEF t, l

\* A conversation starts.
LEMMA StartWhole ==
  ASSUME NEW s, NEW v \in Nat, NEW src \in Draws(s), NEW ok \in BOOLEAN, Running(s, v + 1, {}),
         ~halted, Whole(s), ~s.done, s.started < Budget
  PROVE  Outcome(StartConversation(s, src, ok))
<1> DEFINE l == <<src, s.started \div N + 1>>
<1> DEFINE t == [s EXCEPT !.started = @ + 1, !.left = Draws(s) \ {src}, !.active[l] = 0]
<1>1. ~s.stopping
  BY DEF Whole
<1>2. StartConversation(s, src, ok) = BeginTurn(t, l, ok)
  BY <1>1 DEF StartConversation
<1>3. l \in Logical /\ Running(t, v, {l}) /\ t.active[l] = 0 /\ ~Busy(t, l)
  BY <1>1, DrawRuns
<1>4. Whole(t) /\ t.done = s.done
  BY DrawWhole
<1> HIDE DEF t, l
<1>5. t.active[l] # Absent
  BY <1>3 DEF Absent
<1> QED
  BY <1>2, <1>3, <1>4, <1>5, BeginWhole

\* A slot that is free is filled, or the strategy is done if nothing is left.
LEMMA FillWhole ==
  ASSUME NEW s, NEW src \in Draws(s), NEW ok \in BOOLEAN, Running(s, 1, {}),
         ~halted, Whole(s), ~s.done
  PROVE  Outcome(FillSlot(s, src, ok))
<1>1. ~s.stopping /\ s \in State
  BY DEF Whole, Running, QueriesFit
<1>2. CASE HasMore(s)
  <2>1. Running(s, 0 + 1, {})
    OBVIOUS
  <2>2. Outcome(StartConversation(s, src, ok))
    BY <1>2, <2>1, StartWhole DEF HasMore
  <2> QED
    BY <1>1, <1>2, <2>2 DEF FillSlot
<1>3. CASE ~HasMore(s)
  <2> DEFINE t == [s EXCEPT !.done = ~HasWork(s)]
  <2>1. FillSlot(s, src, ok) = t
    <3>1. (s.done \/ ~HasWork(s)) = ~HasWork(s)
      OBVIOUS
    <3>2. FillSlot(s, src, ok) = [s EXCEPT !.done = s.done \/ ~HasWork(s)]
      BY <1>1, <1>3 DEF FillSlot
    <3> QED
      BY <3>1, <3>2
  <2>2. /\ t.active = s.active /\ t.stopping = s.stopping /\ t.done = ~HasWork(s)
        /\ t.started = s.started /\ t.left = s.left /\ t.issued = s.issued /\ t.conv = s.conv
        /\ t.ends = s.ends /\ t.inflight = s.inflight /\ t.turns = s.turns
        /\ t.delayed = s.delayed
    BY <1>1 DEF State
  <2> HIDE DEF t
  <2>3. SameAccount(s, t)
    BY <2>2 DEF SameAccount, IsComplete
  <2>4. HasWork(t) <=> HasWork(s)
    BY <2>2 DEF HasWork, Active, Waiting, HasMore
  <2> QED
    BY <2>1, <2>2, <2>3, <2>4, WholeKept DEF Outcome
<1> QED
  BY <1>2, <1>3

\* _finish_conversation, for a conversation that is not active any more.
LEMMA FinishWhole ==
  ASSUME NEW s, NEW l \in Logical, NEW src \in Draws(s), NEW ok \in BOOLEAN,
         Running([s EXCEPT !.active[l] = Absent], 1, {}),
         Draws([s EXCEPT !.active[l] = Absent]) = Draws(s),
         ~halted, ~s.stopIssuing,
         Whole([s EXCEPT !.active[l] = Absent]), ~[s EXCEPT !.active[l] = Absent].done
  PROVE  Outcome(FinishConversation(s, l, src, ok))
<1> DEFINE t == [s EXCEPT !.active[l] = Absent]
<1> DEFINE u == [t EXCEPT !.untracked = TRUE]
<1>1. FinishConversation(s, l, src, ok) =
        IF HasMore(t) THEN FillSlot(t, src, ok) ELSE FillSlot(u, src, ok)
  BY DEF FinishConversation
<1>2. Running(t, 1, {}) /\ src \in Draws(t) /\ Whole(t) /\ ~t.done
  OBVIOUS
<1> HIDE DEF t
<1>3. CASE HasMore(t)
  BY <1>1, <1>2, <1>3, FillWhole
<1>4. CASE ~HasMore(t)
  <2>1. t \in State
    BY <1>2 DEF Running, QueriesFit
  <2>2. /\ u.active = t.active /\ u.stopping = t.stopping /\ u.done = t.done
        /\ u.started = t.started /\ u.left = t.left /\ u.issued = t.issued /\ u.conv = t.conv
        /\ u.ends = t.ends /\ u.inflight = t.inflight /\ u.turns = t.turns
    BY <2>1 DEF State
  <2>3. Running(u, 1, {})
    BY <1>2, <1>4, UntrackedRuns
  <2> HIDE DEF u
  <2>4. SameAccount(t, u)
    BY <2>2 DEF SameAccount, IsComplete
  <2>5. src \in Draws(u)
    BY <1>2, <2>2 DEF Draws
  <2>6. Whole(u)
    BY <1>2, <2>4, WholeKept
  <2> QED
    BY <1>1, <1>2, <1>4, <2>2, <2>3, <2>5, <2>6, FillWhole
<1> QED
  BY <1>3, <1>4

-----------------------------------------------------------------------------
\* A conversation ends: its turns that were not issued, n of them, are
\* registered as skipped, and count as issued and ended.
LEMMA EndWhole ==
  ASSUME NEW s \in State, NEW t \in State, NEW l \in Logical, NEW n \in Nat, Whole(s),
         s.active[l] # Absent, Turns[l[1]] - s.active[l] = n, t.active[l] = Absent,
         \A k \in Logical : k # l => t.active[k] = s.active[k],
         t.issued = s.issued + n, Len(t.conv) = Len(s.conv) + n,
         \A q \in 1..Len(s.conv) : t.ends[q] = s.ends[q],
         \A q \in (Len(s.conv) + 1)..(Len(s.conv) + n) : t.ends[q] = 1,
         t.inflight = s.inflight, t.started = s.started, t.left = s.left,
         t.stopping = s.stopping, IsComplete(t, l),
         \A k \in Logical : IsComplete(s, k) => IsComplete(t, k)
  PROVE  Whole(t)
<1>1. Len(s.conv) \in Nat /\ s.issued \in Nat
  BY DEF State
<1>2. Rem(t)[l] = Rem(s)[l] - n
  BY DEF Rem
<1>3. t.issued + Total(Rem(t), Logical) = Promised(t)
  BY <1>2, Accounted DEF Whole
<1>4. t.issued = Len(t.conv)
  BY DEF Whole
<1>5. \A q \in 1..Len(t.conv) : t.ends[q] >= 1 \/ q \in t.inflight
  <2>1. \A q \in 1..(Len(s.conv) + n) :
          q \in 1..Len(s.conv) \/ q \in (Len(s.conv) + 1)..(Len(s.conv) + n)
    BY <1>1
  <2>2. \A q \in 1..Len(s.conv) : s.ends[q] >= 1 \/ q \in s.inflight
    BY DEF Whole
  <2> QED
    BY <2>1, <2>2
<1>6. /\ \A k \in Logical : Unstarted(t, k) <=> Unstarted(s, k)
      /\ {k \in Logical : ~Unstarted(t, k)} = {k \in Logical : ~Unstarted(s, k)}
  BY OrderKept
<1>7. \A k \in Logical : Unstarted(t, k) \/ t.active[k] # Absent \/ IsComplete(t, k)
  BY <1>6 DEF Whole
<1> QED
  BY <1>3, <1>4, <1>5, <1>6, <1>7 DEF Whole

\* _issue_next_turn, after a turn of l was answered.
LEMMA NextTurnWhole ==
  ASSUME NEW s, NEW l \in Logical, NEW src \in Draws(s), NEW ok \in BOOLEAN,
         Running(s, 0, {l}), ~Busy(s, l), s.delayed[l] = Absent, s.active[l] # Absent,
         ~halted, ~s.stopIssuing, Whole(s), ~s.done
  PROVE  Outcome(IssueNextTurn(s, l, src, ok))
<1>1. ~s.stopping /\ s \in State
  BY DEF Whole, Running, QueriesFit
<1>2. /\ s.active[l] = s.turns[l] /\ s.turns[l] \in Nat /\ Turns[l[1]] \in Nat
      /\ s.turns[l] <= Turns[l[1]]
  <2>1. l[1] \in Conv
    BY DEF Logical
  <2> QED
    BY <1>1, <2>1, Bounds DEF State, Running, Cursors, Cursor
<1>3. CASE s.active[l] >= Turns[l[1]]
  <2> DEFINE t == [s EXCEPT !.active[l] = Absent]
  <2>1. Running(t, 1, {}) /\ Draws(t) = Draws(s)
    BY VacateRuns
  <2>2. t.done = s.done /\ t.issued = s.issued + 0 /\ t.conv = s.conv /\ t.ends = s.ends
        /\ t.inflight = s.inflight /\ t.started = s.started /\ t.left = s.left
        /\ t.stopping = s.stopping /\ t.turns = s.turns
        /\ t.active[l] = Absent /\ \A k \in Logical : k # l => t.active[k] = s.active[k]
    BY <1>1 DEF State
  <2>3. Whole(t)
    <3> HIDE DEF t
    <3>1. t \in State
      BY <2>1 DEF Running, QueriesFit
    <3>2. IsComplete(t, l) /\ \A k \in Logical : IsComplete(s, k) => IsComplete(t, k)
      BY <1>2, <1>3, <2>2 DEF IsComplete
    <3>3. Turns[l[1]] - s.active[l] = 0
      BY <1>2, <1>3
    <3>4. Len(s.conv) \in Nat
      BY <1>1 DEF State
    <3>5. Len(t.conv) = Len(s.conv) + 0 /\ \A q \in (Len(s.conv) + 1)..(Len(s.conv) + 0) : t.ends[q] = 1
      BY <2>2, <3>4
    <3> QED
      BY <1>1, <2>2, <3>1, <3>2, <3>3, <3>5, EndWhole
  <2>4. IssueNextTurn(s, l, src, ok) = FinishConversation(s, l, src, ok)
    BY <1>1, <1>3 DEF IssueNextTurn
  <2> QED
    BY <2>1, <2>2, <2>3, <2>4, FinishWhole
<1>4. CASE ~(s.active[l] >= Turns[l[1]])
  <2>1. IssueNextTurn(s, l, src, ok) = BeginTurn(s, l, ok)
    BY <1>1, <1>4 DEF IssueNextTurn
  <2> QED
    BY <2>1, BeginWhole
<1> QED
  BY <1>3, <1>4

\* The trajectory of a failed turn is given up.
LEMMA AbandonWhole ==
  ASSUME NEW s, NEW l \in Logical, Running(s, 0, {l}), ~Busy(s, l), s.delayed[l] = Absent,
         s.active[l] # Absent, ~Unstarted(s, l), ~halted, Whole(s), ~s.done, ~s.stopIssuing
  PROVE  LET u == AbortRemaining(s, l)
         IN  Whole(u) /\ ~u.done /\ ~u.stopIssuing
<1> DEFINE n == Turns[l[1]] - s.active[l]
<1> DEFINE t == [s EXCEPT !.delayed[l] = Absent, !.active[l] = Absent]
<1> DEFINE w == MarkTurnFailed(t, l, n)
<1> DEFINE u == AbortRemaining(s, l)
<1>1. QueriesFit(s) /\ s \in State
  BY DEF Running, QueriesFit
<1>2. /\ s.active[l] = s.turns[l] /\ s.turns[l] \in Nat /\ Turns[l[1]] \in Nat
      /\ s.turns[l] <= Turns[l[1]]
  <2>1. l[1] \in Conv
    BY DEF Logical
  <2> QED
    BY <1>1, <2>1, Bounds DEF State, Running, Cursors, Cursor
<1>3. n \in Nat /\ s.turns[l] + n = Turns[l[1]]
  BY <1>2
<1>4. u = IF n = 0 THEN t ELSE RegisterSkipped(w, l, n)
  BY DEF AbortRemaining
<1>5. /\ t.done = s.done /\ t.issued = s.issued /\ t.conv = s.conv /\ t.ends = s.ends
      /\ t.inflight = s.inflight /\ t.started = s.started /\ t.left = s.left
      /\ t.stopping = s.stopping /\ t.turns = s.turns /\ t.failed = s.failed
      /\ t.stopIssuing = s.stopIssuing
      /\ t.wire = s.wire /\ t.skipped = s.skipped /\ t.timers = s.timers
      /\ t.active[l] = Absent /\ \A k \in Logical : k # l => t.active[k] = s.active[k]
  BY <1>1 DEF State
<1>6. t \in State
  <2>1. /\ [s.delayed EXCEPT ![l] = Absent] \in [Logical -> Int]
        /\ [s.active EXCEPT ![l] = Absent] \in [Logical -> Int]
    BY <1>1 DEF State, Absent
  <2> QED
    BY <1>1, <2>1 DEF State
<1> HIDE DEF n, t, u
<1>7. CASE n = 0
  <2>1. IsComplete(t, l) /\ \A k \in Logical : IsComplete(s, k) => IsComplete(t, k)
    BY <1>2, <1>3, <1>5, <1>7 DEF IsComplete
  <2>2. Len(s.conv) \in Nat /\ s.issued \in Nat
    BY <1>1 DEF State
  <2>3. /\ Len(t.conv) = Len(s.conv) + 0 /\ t.issued = s.issued + 0
        /\ \A q \in (Len(s.conv) + 1)..(Len(s.conv) + 0) : t.ends[q] = 1
    BY <1>5, <2>2
  <2>4. Whole(t)
    BY <1>1, <1>5, <1>6, <1>7, <2>1, <2>3, EndWhole DEF n
  <2> QED
    BY <1>4, <1>5, <1>7, <2>4 DEF u
<1>8. CASE n # 0
  <2>1. /\ w.done = t.done /\ w.issued = t.issued /\ w.conv = t.conv /\ w.ends = t.ends
        /\ w.inflight = t.inflight /\ w.started = t.started /\ w.left = t.left
        /\ w.stopping = t.stopping /\ w.active = t.active /\ w.stopIssuing = t.stopIssuing
        /\ w.wire = t.wire /\ w.skipped = t.skipped /\ w.timers = t.timers
        /\ \A k \in Logical : w.turns[k] = IF k = l THEN t.turns[l] + n ELSE t.turns[k]
    BY <1>6 DEF State, MarkTurnFailed
  <2>2. w \in State
    <3>1. /\ [t.turns EXCEPT ![l] = @ + n] \in [Logical -> Nat]
          /\ [t.failed EXCEPT ![l] = @ + n] \in [Logical -> Nat]
      <4>1. t.turns \in [Logical -> Nat] /\ t.failed \in [Logical -> Nat]
        BY <1>6 DEF State
      <4> QED
        BY <1>3, <4>1
    <3> QED
      BY <1>6, <3>1 DEF State, MarkTurnFailed
  <2> HIDE DEF w
  <2>3. QueriesFit(w)
    BY <1>1, <1>5, <2>1, <2>2 DEF QueriesFit, Owed
  <2>4. u = RegisterSkipped(w, l, n)
    BY <1>4, <1>8
  <2>5. /\ u \in State
        /\ Len(u.conv) = Len(w.conv) + n
        /\ \A q \in 1..Len(w.conv) : u.ends[q] = w.ends[q]
        /\ \A q \in (Len(w.conv) + 1)..(Len(w.conv) + n) : u.ends[q] = 1
        /\ u.issued = w.issued + n /\ u.done = w.done /\ u.stopIssuing = w.stopIssuing
        /\ SameTrajectories(w, u)
    BY <1>3, <2>3, <2>4, SkipIs
  <2>6. /\ u.active = t.active /\ u.turns = w.turns /\ u.inflight = s.inflight
        /\ u.started = s.started /\ u.left = s.left /\ u.stopping = s.stopping
    BY <1>5, <2>1, <2>5 DEF SameTrajectories
  <2>7. IsComplete(u, l) /\ \A k \in Logical : IsComplete(s, k) => IsComplete(u, k)
    BY <1>2, <1>3, <1>5, <2>1, <2>6 DEF IsComplete
  <2>8. Whole(u)
    BY <1>1, <1>3, <1>5, <2>1, <2>5, <2>6, <2>7, EndWhole DEF n
  <2> QED
    BY <1>5, <2>1, <2>5, <2>8 DEF u
<1> QED
  BY <1>7, <1>8

\* Its slot is given away.
LEMMA AbortWhole ==
  ASSUME NEW s, NEW l \in Logical, NEW src \in Draws(s), NEW ok \in BOOLEAN,
         Running(s, 0, {l}), ~Busy(s, l), s.delayed[l] = Absent,
         s.active[l] # Absent, ~Unstarted(s, l), ~halted, ~s.stopIssuing, Whole(s), ~s.done
  PROVE  Outcome(FinishConversation(AbortRemaining(s, l), l, src, ok))
<1> DEFINE u == AbortRemaining(s, l)
<1>1. Running(u, 1, {}) /\ [u EXCEPT !.active[l] = Absent] = u /\ Draws(u) = Draws(s)
  BY AbandonRuns
<1>2. Whole(u) /\ ~u.done /\ ~u.stopIssuing
  BY AbandonWhole
<1> HIDE DEF u
<1>3. Outcome(FinishConversation(u, l, src, ok))
  BY <1>1, <1>2, FinishWhole
<1> QED
  BY <1>3 DEF u

\* A turn that has ended leaves the account as it was.
LEMMA OverWhole ==
  ASSUME NEW s, NEW t, NEW q \in s.inflight, QueriesFit(s), TurnOver(s, t, q), Whole(s), ~s.done
  PROVE  Whole(t) /\ ~t.done /\ t.active[s.conv[q]] # Absent
<1> DEFINE l == s.conv[q]
<1>1. /\ s.turns \in [Logical -> Nat] /\ s.ends \in Seq(Nat) /\ Len(s.ends) = Len(s.conv)
      /\ q \in 1..Len(s.conv) /\ l \in Logical
  BY InflightNamed DEF QueriesFit, State
<1>2. /\ t.conv = s.conv /\ t.inflight = s.inflight \ {q} /\ t.active = s.active
      /\ t.stopping = s.stopping /\ t.started = s.started /\ t.left = s.left
      /\ t.turns = [s.turns EXCEPT ![l] = @ + 1] /\ t.ends = [s.ends EXCEPT ![q] = @ + 1]
      /\ t.issued = s.issued /\ t.done = s.done
      /\ t.stopping \/ t.active[l] # Absent
  BY DEF TurnOver, OneTurnLess
<1> HIDE DEF l
<1>3. \A k \in Logical : IsComplete(s, k) => IsComplete(t, k)
  <2> SUFFICES ASSUME NEW k \in Logical, IsComplete(s, k) PROVE IsComplete(t, k)
    OBVIOUS
  <2>1. k[1] \in Conv
    BY DEF Logical
  <2>2. s.turns[k] \in Nat /\ Turns[k[1]] \in Nat
    BY <1>1, <2>1, Bounds
  <2>3. t.turns[k] = s.turns[k] \/ t.turns[k] = s.turns[k] + 1
    BY <1>1, <1>2
  <2> QED
    BY <2>2, <2>3 DEF IsComplete
<1>4. \A r \in 1..Len(s.conv) :
        s.ends[r] >= 1 \/ r \in s.inflight => t.ends[r] >= 1 \/ r \in t.inflight
  <2> SUFFICES ASSUME NEW r \in 1..Len(s.conv), s.ends[r] >= 1 \/ r \in s.inflight
               PROVE  t.ends[r] >= 1 \/ r \in t.inflight
    OBVIOUS
  <2>1. s.ends[r] \in Nat
    BY <1>1
  <2>2. t.ends[r] = IF r = q THEN s.ends[q] + 1 ELSE s.ends[r]
    BY <1>1, <1>2, EndsCounted
  <2> QED
    BY <1>2, <2>1, <2>2
<1>5. SameAccount(s, t)
  BY <1>2, <1>3, <1>4 DEF SameAccount
<1>6. Whole(t)
  BY <1>5, WholeKept
<1> QED
  BY <1>2, <1>6 DEF Whole, l

\* _handle_timeout.
LEMMA TimeoutWhole ==
  ASSUME NEW s, NEW q \in s.timers, NEW src \in Draws(s), NEW ok \in BOOLEAN, Running(s, 0, {}),
         ~halted, ~s.stopIssuing, Whole(s), ~s.done
  PROVE  Outcome(HandleTimeout(s, q, src, ok))
<1> DEFINE l == s.conv[q]
<1>1. QueriesFit(s) /\ q \in s.inflight
  BY DEF Running, QueriesFit
<1>2. PICK t : /\ TurnOver(s, t, q)
               /\ HandleTimeout(s, q, src, ok) = FinishConversation(AbortRemaining(t, l), l, src, ok)
  BY TimeoutIs
<1>3. Whole(t) /\ ~t.done /\ t.active[l] # Absent
  BY <1>1, <1>2, OverWhole
<1>4. /\ l \in Logical /\ Running(t, 0, {l}) /\ ~Busy(t, l) /\ t.delayed[l] = Absent
      /\ ~Unstarted(t, l) /\ Draws(t) = Draws(s) /\ t.stopIssuing = s.stopIssuing
  BY <1>2 DEF TurnOver
<1> HIDE DEF l
<1> QED
  BY <1>2, <1>3, <1>4, AbortWhole

\* _handle_response, of a turn in flight.
LEMMA TurnAnsweredWhole ==
  ASSUME NEW s, NEW q \in s.wire, q \in s.inflight, NEW err \in BOOLEAN,
         NEW src \in Draws(s), NEW ok \in BOOLEAN,
         Running(s, 0, {}), pc # "next", ~halted, ~s.stopIssuing, Whole(s), ~s.done
  PROVE  Outcome(HandleResponse(s, q, err, src, ok))
<1> DEFINE l == s.conv[q]
<1>1. QueriesFit(s)
  BY DEF Running
<1>2. PICK t :
        /\ TurnOver(s, t, q)
        /\ HandleResponse(s, q, err, src, ok) =
             IF err THEN FinishConversation(AbortRemaining(t, l), l, src, ok)
             ELSE IF t.stopping THEN SignalIfIdle(t)
             ELSE IssueNextTurn(t, l, src, ok)
  BY AnswerIs
<1>3. Whole(t) /\ ~t.done /\ t.active[l] # Absent
  BY <1>1, <1>2, OverWhole
<1>4. /\ l \in Logical /\ Running(t, 0, {l}) /\ ~Busy(t, l) /\ t.delayed[l] = Absent
      /\ ~Unstarted(t, l) /\ Draws(t) = Draws(s) /\ t.stopIssuing = s.stopIssuing
  BY <1>2 DEF TurnOver
<1>5. ~t.stopping
  BY <1>3 DEF Whole
<1> HIDE DEF l
<1>6. CASE err
  BY <1>2, <1>3, <1>4, <1>6, AbortWhole
<1>7. CASE ~err
  BY <1>2, <1>3, <1>4, <1>5, <1>7, NextTurnWhole
<1> QED
  BY <1>6, <1>7

\* A callback that ends no turn leaves what there is to do as it is.
LEMMA IdleWhole ==
  ASSUME NEW s, NEW t, SameTrajectories(s, t), t.issued = s.issued, t.done = s.done,
         t.conv = s.conv, \A q \in 1..Len(s.conv) : s.ends[q] >= 1 => t.ends[q] >= 1,
         Outcome(s)
  PROVE  Outcome(t)
<1>1. /\ t.active = s.active /\ t.delayed = s.delayed /\ t.turns = s.turns
      /\ t.stopping = s.stopping /\ t.error = s.error
      /\ t.started = s.started /\ t.left = s.left /\ t.inflight = s.inflight
  BY DEF SameTrajectories
<1>2. HasWork(t) <=> HasWork(s)
  BY <1>1 DEF HasWork, Active, Waiting, HasMore
<1>3. SameAccount(s, t)
  BY <1>1 DEF SameAccount, IsComplete
<1> QED
  BY <1>1, <1>2, <1>3, WholeKept DEF Outcome

\* _handle_response while execute() runs.
LEMMA AnswerWhole ==
  ASSUME NEW s, NEW q \in s.wire, NEW err \in BOOLEAN, NEW src \in Draws(s), NEW ok \in BOOLEAN,
         Running(s, 0, {}), pc # "next", ~halted, ~s.stopIssuing, Outcome(s), ~s.error
  PROVE  Outcome(HandleResponse(s, q, err, src, ok))
<1> DEFINE r == [s EXCEPT !.wire = @ \ {q}]
<1> DEFINE e == [r EXCEPT !.ends[q] = @ + 1]
<1> DEFINE d == MarkInflightComplete(e)
<1>1. QueriesFit(s) /\ Counted(s)
  BY DEF Running
<1>2. CASE q \in s.skipped
  <2>1. HandleResponse(s, q, err, src, ok) = r
    BY <1>2 DEF HandleResponse
  <2>2. SameTrajectories(s, r) /\ r.conv = s.conv /\ r.ends = s.ends
        /\ r.issued = s.issued /\ r.done = s.done
    BY <1>1, <1>2, DroppedAnswer
  <2> HIDE DEF r
  <2> QED
    BY <2>1, <2>2, IdleWhole
<1>3. CASE q \notin s.skipped /\ q \notin s.inflight
  <2>1. HandleResponse(s, q, err, src, ok) = OnSampleComplete(d, q, err, src, ok)
    BY <1>3 DEF HandleResponse
  <2>2. /\ d.inflight = s.inflight /\ d.conv = s.conv
        /\ d.ends = [s.ends EXCEPT ![q] = @ + 1]
        /\ d.issued = s.issued /\ d.done = s.done /\ SameTrajectories(s, d)
    BY <1>1, <1>3, CountedAnswer
  <2> HIDE DEF d
  <2>3. OnSampleComplete(d, q, err, src, ok) = d
    BY <1>3, <2>2 DEF OnSampleComplete
  <2>4. \A k \in 1..Len(s.conv) : s.ends[k] >= 1 => d.ends[k] >= 1
    <3>1. s.ends \in Seq(Nat) /\ Len(s.ends) = Len(s.conv) /\ q \in 1..Len(s.conv)
      BY <1>1 DEF QueriesFit, State
    <3>2. \A k \in 1..Len(s.conv) : d.ends[k] = IF k = q THEN s.ends[q] + 1 ELSE s.ends[k]
      BY <2>2, <3>1, EndsCounted
    <3>3. \A k \in 1..Len(s.conv) : s.ends[k] \in Nat
      BY <3>1
    <3> QED
      BY <3>2, <3>3
  <2> QED
    BY <2>1, <2>2, <2>3, <2>4, IdleWhole
<1>4. CASE q \in s.inflight
  <2>1. HasWork(s)
    BY <1>4 DEF HasWork
  <2>2. Whole(s) /\ ~s.done
    BY <2>1 DEF Outcome
  <2> QED
    BY <1>4, <2>2, TurnAnsweredWhole
<1> QED
  BY <1>2, <1>3, <1>4

\* A tool delay that has passed.
LEMMA DelayWhole ==
  ASSUME NEW s, NEW l \in Waiting(s), NEW ok \in BOOLEAN, Running(s, 0, {}),
         ~halted, Whole(s), ~s.done
  PROVE  Outcome(IssueTurnNow(s, l, s.delayed[l], ok))
<1>1. l \in Logical /\ s.delayed[l] # Absent
  BY DEF Waiting
<1>2. Cursor(s, l)
  BY <1>1 DEF Running, Cursors
<1>3. s.delayed[l] = s.active[l] /\ ~Busy(s, l)
  BY <1>1, <1>2 DEF Cursor
<1> QED
  BY <1>1, <1>3, TurnWhole

-----------------------------------------------------------------------------
\* The setting never changes, and an error is not forgotten.
Flags(s) == {"stopIssuing", "error"} \subseteq DOMAIN s

Kept(s, t) == Flags(t) /\ t.stopIssuing = s.stopIssuing /\ (s.error => t.error)

\* By what ends the strategy.
LEMMA StopKept ==
  ASSUME NEW s, Flags(s)
  PROVE  Kept(s, SignalIfIdle(s)) /\ Kept(s, RequestStop(s))
<1>1. \A t : Flags(t) => Kept(t, SignalIfIdle(t))
  BY DEF Flags, Kept, SignalIfIdle
<1> DEFINE t == IF s.stopping THEN s
                ELSE [s EXCEPT !.stopping = TRUE,
                               !.delayed  = [l \in Logical |-> Absent],
                               !.active   = [l \in Logical |-> Absent]]
<1>2. Kept(s, t)
  BY DEF Flags, Kept
<1>3. RequestStop(s) = SignalIfIdle(t)
  BY DEF RequestStop
<1> HIDE DEF t
<1> QED
  BY <1>1, <1>2, <1>3 DEF Kept

\* By what issues a turn.
LEMMA IssueKept ==
  ASSUME NEW s, NEW l, NEW ok, Flags(s)
  PROVE  Kept(s, Issue(s, l, ok))
<1> DEFINE d == Drawn(s, l, 1)
<1>1. Kept(s, d)
  BY DEF Flags, Kept, Drawn
<1>2. Issue(s, l, ok) =
        IF ok THEN [d EXCEPT !.active[l] = @ + 1,
                             !.inflight  = @ \cup {Len(s.conv) + 1},
                             !.timers    = @ \cup {Len(s.conv) + 1},
                             !.wire      = @ \cup {Len(s.conv) + 1},
                             !.pending   = @ + 1,
                             !.issued    = @ + 1]
        ELSE [d EXCEPT !.error = TRUE, !.done = TRUE]
  BY DEF Issue, Fails
<1> HIDE DEF d
<1> QED
  BY <1>1, <1>2 DEF Flags, Kept

\* By what issues it later, if it has to wait.
LEMMA BeginKept ==
  ASSUME NEW s, NEW l, NEW turn, NEW ok, Flags(s)
  PROVE  Kept(s, IssueTurnNow(s, l, turn, ok)) /\ Kept(s, BeginTurn(s, l, ok))
<1>1. \A n : Kept(s, IssueTurnNow(s, l, n, ok))
  <2> TAKE n
  <2> DEFINE t == [s EXCEPT !.delayed[l] = Absent]
  <2>1. Kept(s, t)
    BY DEF Flags, Kept
  <2>2. \/ IssueTurnNow(s, l, n, ok) = t
        \/ IssueTurnNow(s, l, n, ok) = RequestStop(t)
        \/ IssueTurnNow(s, l, n, ok) = Issue(t, l, ok)
    BY DEF IssueTurnNow
  <2> HIDE DEF t
  <2>3. Kept(t, RequestStop(t)) /\ Kept(t, Issue(t, l, ok))
    BY <2>1, StopKept, IssueKept DEF Kept
  <2> QED
    BY <2>1, <2>2, <2>3 DEF Kept
<1>2. Kept(s, [s EXCEPT !.delayed[l] = s.active[l]])
  BY DEF Flags, Kept
<1> QED
  BY <1>1, <1>2 DEF BeginTurn

\* By what fills a slot.
LEMMA FillKept ==
  ASSUME NEW s, NEW src, NEW ok, Flags(s)
  PROVE  Kept(s, StartConversation(s, src, ok)) /\ Kept(s, FillSlot(s, src, ok))
<1> DEFINE l == <<src, s.started \div N + 1>>
<1> DEFINE t == [s EXCEPT !.started = @ + 1, !.left = Draws(s) \ {src}, !.active[l] = 0]
<1>1. Kept(s, s) /\ Kept(s, t)
  BY DEF Flags, Kept
<1>2. StartConversation(s, src, ok) = IF s.stopping THEN s ELSE BeginTurn(t, l, ok)
  BY DEF StartConversation
<1> HIDE DEF t, l
<1>3. Kept(t, BeginTurn(t, l, ok))
  BY <1>1, BeginKept DEF Kept
<1>4. Kept(s, StartConversation(s, src, ok))
  BY <1>1, <1>2, <1>3 DEF Kept
<1>5. Kept(s, [s EXCEPT !.done = @ \/ ~HasWork(s)])
  BY DEF Flags, Kept
<1> QED
  BY <1>4, <1>5, StopKept DEF FillSlot

\* By what gives a slot away.
LEMMA FinishKept ==
  ASSUME NEW s, NEW l, NEW src, NEW ok, Flags(s)
  PROVE  Kept(s, FinishConversation(s, l, src, ok))
<1> DEFINE t == [s EXCEPT !.active[l] = Absent]
<1> DEFINE u == [t EXCEPT !.untracked = TRUE]
<1>1. Kept(s, t)
  BY DEF Flags, Kept
<1>2. FinishConversation(s, l, src, ok) =
        IF HasMore(t) THEN FillSlot(t, src, ok)
        ELSE IF s.stopIssuing THEN RequestStop(u) ELSE FillSlot(u, src, ok)
  BY DEF FinishConversation
<1> HIDE DEF t
<1>3. Kept(t, u)
  BY <1>1 DEF Flags, Kept
<1> HIDE DEF u
<1>4. Kept(t, FillSlot(t, src, ok)) /\ Kept(u, FillSlot(u, src, ok)) /\ Kept(u, RequestStop(u))
  BY <1>1, <1>3, FillKept, StopKept DEF Kept
<1> QED
  BY <1>1, <1>2, <1>3, <1>4 DEF Kept

\* By what follows an answer.
LEMMA NextTurnKept ==
  ASSUME NEW s, NEW l, NEW src, NEW ok, Flags(s)
  PROVE  Kept(s, IssueNextTurn(s, l, src, ok))
<1>1. Kept(s, s)
  BY DEF Kept
<1> QED
  BY <1>1, FinishKept, BeginKept DEF IssueNextTurn

\* By what gives a trajectory up.
LEMMA AbortKept ==
  ASSUME NEW s, NEW l, NEW src, NEW ok, Flags(s)
  PROVE  Kept(s, FinishConversation(AbortRemaining(s, l), l, src, ok))
<1> DEFINE n == IF s.active[l] = Absent THEN 0 ELSE Turns[l[1]] - s.active[l]
<1> DEFINE t == [s EXCEPT !.delayed[l] = Absent, !.active[l] = Absent]
<1> DEFINE u == AbortRemaining(s, l)
<1>1. Kept(s, t)
  BY DEF Flags, Kept
<1>2. u = IF n = 0 THEN t
          ELSE IF halted THEN MarkTurnFailed(t, l, 1)
          ELSE RegisterSkipped(MarkTurnFailed(t, l, n), l, n)
  BY DEF AbortRemaining
<1> HIDE DEF t, n, u
<1>3. \A k : Kept(t, MarkTurnFailed(t, l, k))
  BY <1>1 DEF Flags, Kept, MarkTurnFailed
<1>4. ASSUME NEW w, Kept(s, w) PROVE Kept(s, RegisterSkipped(w, l, n))
  <2>1. Kept(s, Drawn(w, l, n))
    BY <1>4 DEF Flags, Kept, Drawn
  <2> QED
    BY <2>1 DEF Flags, Kept, RegisterSkipped
<1>5. Kept(s, u)
  <2>1. \A k : Kept(s, MarkTurnFailed(t, l, k))
    BY <1>1, <1>3 DEF Kept
  <2> QED
    BY <1>1, <1>2, <1>4, <2>1
<1>6. Kept(u, FinishConversation(u, l, src, ok))
  BY <1>5, FinishKept DEF Kept
<1>7. Kept(s, FinishConversation(u, l, src, ok))
  BY <1>5, <1>6 DEF Kept
<1> QED
  BY <1>7 DEF u

\* By an answer, also one that comes after execute().
LEMMA AnswerKept ==
  ASSUME NEW s, NEW q, NEW err, NEW src, NEW ok, Flags(s)
  PROVE  Kept(s, HandleResponse(s, q, err, src, ok))
<1> DEFINE r == [s EXCEPT !.wire = @ \ {q}]
<1> DEFINE e == [r EXCEPT !.ends[q] = @ + 1]
<1> DEFINE d == MarkInflightComplete(e)
<1> DEFINE l == d.conv[q]
<1> DEFINE m == IF err THEN MarkTurnFailed(d, l, 1) ELSE MarkTurnComplete(d, l)
<1> DEFINE t == [m EXCEPT !.inflight = @ \ {q}, !.timers = @ \ {q}]
<1>1. Kept(s, r)
  BY DEF Flags, Kept
<1>2. HandleResponse(s, q, err, src, ok) =
        IF pc = "next" THEN e
        ELSE IF q \in s.skipped THEN r
        ELSE OnSampleComplete(d, q, err, src, ok)
  BY DEF HandleResponse
<1> HIDE DEF r
<1>3. Kept(s, e)
  BY <1>1 DEF Flags, Kept
<1> HIDE DEF e
<1>4. Kept(s, d)
  BY <1>3 DEF Flags, Kept, MarkInflightComplete
<1> HIDE DEF d
<1>5. OnSampleComplete(d, q, err, src, ok) =
        IF q \notin d.inflight THEN d
        ELSE IF err THEN FinishConversation(AbortRemaining(t, l), l, src, ok)
        ELSE IF t.stopping THEN SignalIfIdle(t)
        ELSE IssueNextTurn(t, l, src, ok)
  BY DEF OnSampleComplete
<1> HIDE DEF l
<1>6. Kept(s, m)
  BY <1>4 DEF Flags, Kept, MarkTurnFailed, MarkTurnComplete
<1> HIDE DEF m
<1>7. Kept(s, t)
  BY <1>6 DEF Flags, Kept
<1> HIDE DEF t
<1>8. /\ Kept(t, FinishConversation(AbortRemaining(t, l), l, src, ok))
      /\ Kept(t, SignalIfIdle(t)) /\ Kept(t, IssueNextTurn(t, l, src, ok))
  BY <1>7, AbortKept, StopKept, NextTurnKept DEF Kept
<1>9. Kept(s, OnSampleComplete(d, q, err, src, ok))
  BY <1>4, <1>5, <1>7, <1>8 DEF Kept
<1> QED
  BY <1>1, <1>2, <1>3, <1>9

\* By a timeout.
LEMMA TimeoutKept ==
  ASSUME NEW s, NEW q, NEW src, NEW ok, Flags(s)
  PROVE  Kept(s, HandleTimeout(s, q, src, ok))
<1> DEFINE l == s.conv[q]
<1> DEFINE m == MarkInflightComplete(MarkTurnFailed(s, l, 1))
<1> DEFINE t == [m EXCEPT !.inflight = @ \ {q}, !.timers = @ \ {q},
                          !.skipped  = @ \cup {q}, !.ends[q] = @ + 1]
<1>1. Kept(s, s) /\ Kept(s, m)
  BY DEF Flags, Kept, MarkInflightComplete, MarkTurnFailed
<1>2. HandleTimeout(s, q, src, ok) =
        IF q \notin s.inflight THEN s ELSE FinishConversation(AbortRemaining(t, l), l, src, ok)
  BY DEF HandleTimeout
<1> HIDE DEF l, m
<1>3. Kept(s, t)
  BY <1>1 DEF Flags, Kept
<1> HIDE DEF t
<1>4. Kept(t, FinishConversation(AbortRemaining(t, l), l, src, ok))
  BY <1>3, AbortKept DEF Kept
<1> QED
  BY <1>1, <1>2, <1>3, <1>4 DEF Kept

-----------------------------------------------------------------------------
\* Nothing is missing and nothing is left to do.
Full(s) ==
  /\ s.started = Budget
  /\ Cardinality({l \in Logical : IsComplete(s, l)}) = Budget
  /\ s.issued = (Budget \div N) * Total(Turns, Conv)
                  + (IF s.left = {} THEN 0 ELSE Total(Turns, Conv \ s.left))
  /\ Len(s.conv) = s.issued
  /\ \A q \in 1..Len(s.conv) : s.ends[q] >= 1

\* A strategy that is whole and has no work is full.
LEMMA WholeIsFull ==
  ASSUME NEW s, NEW v, Running(s, v, {}), Whole(s), ~HasWork(s)
  PROVE  Full(s)
<1>1. s \in State /\ Budget \in Nat /\ s.started \in 0..Budget
  BY Bounds DEF Running, QueriesFit, State
<1>2. s.inflight = {} /\ s.started = Budget /\ \A l \in Logical : s.active[l] = Absent
  BY <1>1 DEF Whole, HasWork, HasMore, Active
<1>3. {l \in Logical : ~Unstarted(s, l)} = {l \in Logical : IsComplete(s, l)}
  <2> SUFFICES ASSUME NEW l \in Logical PROVE ~Unstarted(s, l) <=> IsComplete(s, l)
    OBVIOUS
  <2>1. Turns[l[1]] \in Nat \ {0}
    <3>1. l[1] \in Conv
      BY DEF Logical
    <3> QED
      BY <3>1, Bounds
  <2>2. Unstarted(s, l) => s.turns[l] = 0
    BY DEF Running, Fresh
  <2>3. Unstarted(s, l) \/ IsComplete(s, l)
    BY <1>2 DEF Whole
  <2> QED
    BY <2>1, <2>2, <2>3 DEF IsComplete
<1>4. Total(Rem(s), Logical) = 0
  <2>1. \A l \in Logical : Rem(s)[l] = 0
    BY <1>2 DEF Rem
  <2> QED
    BY <2>1, LogicalFinite, TotalZero
<1>5. Total(Turns, Conv \ Draws(s)) = IF s.left = {} THEN 0 ELSE Total(Turns, Conv \ s.left)
  <2>1. CASE s.left = {}
    <3>1. Conv \ Draws(s) = {} /\ IsFiniteSet({})
      BY <2>1, FS_EmptySet DEF Draws
    <3>2. Total(Turns, {}) = 0
      BY <3>1, TotalZero
    <3> QED
      BY <2>1, <3>1, <3>2
  <2>2. CASE s.left # {}
    BY <2>2 DEF Draws
  <2> QED
    BY <2>1, <2>2
<1>6. s.issued = Promised(s)
  <2>1. s.issued \in Nat
    BY <1>1 DEF State
  <2> QED
    BY <1>4, <2>1 DEF Whole
<1>7. s.issued = (Budget \div N) * Total(Turns, Conv)
                   + (IF s.left = {} THEN 0 ELSE Total(Turns, Conv \ s.left))
  BY <1>2, <1>5, <1>6 DEF Promised
<1>8. \A q \in 1..Len(s.conv) : s.ends[q] >= 1
  BY <1>2 DEF Whole
<1>9. Len(s.conv) = s.issued
  BY DEF Whole
<1>10. Cardinality({l \in Logical : IsComplete(s, l)}) = Budget
  BY <1>2, <1>3 DEF Whole
<1> QED
  BY <1>2, <1>7, <1>8, <1>9, <1>10 DEF Full

\* It stays full while no turn is issued.
LEMMA FullKept ==
  ASSUME NEW s, NEW t, Full(s), t.started = s.started, t.left = s.left, t.turns = s.turns,
         t.issued = s.issued, t.conv = s.conv,
         \A q \in 1..Len(s.conv) : s.ends[q] >= 1 => t.ends[q] >= 1
  PROVE  Full(t)
<1>1. {l \in Logical : IsComplete(t, l)} = {l \in Logical : IsComplete(s, l)}
  BY DEF IsComplete
<1> QED
  BY <1>1 DEF Full

\* Answers that come after execute() end no turn.
LEMMA AnswerFull ==
  ASSUME NEW s, NEW q \in s.wire, NEW err, NEW src, NEW ok, Ended(s), Counted(s) \/ pc = "next",
         Full(s)
  PROVE  Full(HandleResponse(s, q, err, src, ok))
<1> DEFINE r == [s EXCEPT !.wire = @ \ {q}]
<1> DEFINE e == [r EXCEPT !.ends[q] = @ + 1]
<1> DEFINE d == MarkInflightComplete(e)
<1>1. /\ QueriesFit(s) /\ s.inflight = {} /\ s \in State /\ s.ends \in Seq(Nat)
      /\ q \in 1..Len(s.conv) /\ Len(s.ends) = Len(s.conv)
  BY DEF Ended, QueriesFit, State
<1>2. \A k \in 1..Len(s.conv) : s.ends[k] >= 1 => [s.ends EXCEPT ![q] = @ + 1][k] >= 1
  <2>1. \A k \in 1..Len(s.conv) :
          [s.ends EXCEPT ![q] = @ + 1][k] = IF k = q THEN s.ends[q] + 1 ELSE s.ends[k]
    BY <1>1, EndsCounted
  <2>2. \A k \in 1..Len(s.conv) : s.ends[k] \in Nat
    BY <1>1
  <2> QED
    BY <2>1, <2>2
<1>3. CASE pc = "next"
  <2>1. HandleResponse(s, q, err, src, ok) = e
    BY <1>3 DEF HandleResponse
  <2>2. /\ e.started = s.started /\ e.left = s.left /\ e.turns = s.turns
        /\ e.issued = s.issued /\ e.conv = s.conv /\ e.ends = [s.ends EXCEPT ![q] = @ + 1]
    BY <1>1 DEF State
  <2> HIDE DEF e
  <2> QED
    BY <1>2, <2>1, <2>2, FullKept
<1>4. CASE pc # "next" /\ q \in s.skipped
  <2>1. HandleResponse(s, q, err, src, ok) = r
    BY <1>4 DEF HandleResponse
  <2>2. /\ r.started = s.started /\ r.left = s.left /\ r.turns = s.turns
        /\ r.issued = s.issued /\ r.conv = s.conv /\ r.ends = s.ends
    BY <1>1 DEF State
  <2> HIDE DEF r
  <2> QED
    BY <2>1, <2>2, FullKept
<1>5. CASE pc # "next" /\ q \notin s.skipped
  <2>1. HandleResponse(s, q, err, src, ok) = OnSampleComplete(d, q, err, src, ok)
    BY <1>5 DEF HandleResponse
  <2>2. /\ d.inflight = s.inflight /\ d.conv = s.conv
        /\ d.ends = [s.ends EXCEPT ![q] = @ + 1]
        /\ d.issued = s.issued /\ SameTrajectories(s, d)
    BY <1>1, <1>5, CountedAnswer
  <2> HIDE DEF d
  <2>3. OnSampleComplete(d, q, err, src, ok) = d
    BY <1>1, <2>2 DEF OnSampleComplete
  <2> QED
    BY <1>2, <2>1, <2>2, <2>3, FullKept DEF SameTrajectories
<1> QED
  BY <1>3, <1>4, <1>5

-----------------------------------------------------------------------------
\* With StrategyInv, the inductive invariant of the runs nobody stops.
CleanInv ==
  /\ pc \in {"seeding", "waiting"} => ~clean
  /\ pc \in {"seeding", "waiting"} /\ ~halted /\ ~st.stopIssuing => Outcome(st)
  /\ clean /\ ~halted /\ ~st.stopIssuing /\ pc \in {"draining", "next"} => Full(st)

\* Nothing is promised before execute() starts.
LEMMA InitialWhole ==
  ASSUME NEW b \in BOOLEAN
  PROVE  Outcome(InitialState(b))
<1> DEFINE s == InitialState(b)
<1>1. /\ s.active = [l \in Logical |-> Absent] /\ s.inflight = {} /\ s.left = {}
      /\ s.conv = << >> /\ s.started = 0 /\ s.issued = 0
      /\ s.stopping = FALSE /\ s.done = FALSE
  BY DEF InitialState
<1> HIDE DEF s
<1>2. N \in Nat \ {0} /\ 0 \div N = 0
  BY Bounds
<1>3. Draws(s) = Conv
  BY <1>1 DEF Draws
<1>4. \A l \in Logical : Unstarted(s, l)
  <2> TAKE l \in Logical
  <2>1. l[1] \in Conv /\ l[2] \in Nat \ {0}
    BY DEF Logical
  <2> QED
    BY <1>1, <1>2, <1>3, <2>1 DEF Unstarted
<1>5. Total(Rem(s), Logical) = 0
  <2>1. \A l \in Logical : Rem(s)[l] = 0
    BY <1>1 DEF Rem
  <2> QED
    BY <2>1, LogicalFinite, TotalZero
<1>6. Promised(s) = 0
  <2>1. Total(Turns, Conv) \in Int
    <3>1. Conv \in SUBSET Conv /\ s \in State
      BY InitialRuns DEF Running, QueriesFit, s
    <3> QED
      BY <3>1, SumsTyped
  <2>2. Total(Turns, Conv \ Draws(s)) = 0
    <3>1. Conv \ Draws(s) = {} /\ IsFiniteSet({})
      BY <1>3, FS_EmptySet
    <3>2. Total(Turns, {}) = 0
      BY <3>1, TotalZero
    <3> QED
      BY <3>1, <3>2
  <2> QED
    BY <1>1, <1>2, <2>1, <2>2 DEF Promised
<1>7. Cardinality({l \in Logical : ~Unstarted(s, l)}) = 0
  <2>1. {l \in Logical : ~Unstarted(s, l)} = {}
    BY <1>4
  <2> QED
    BY <2>1, FS_EmptySet
<1>8. Len(s.conv) = 0
  BY <1>1
<1>9. Whole(s)
  BY <1>1, <1>4, <1>5, <1>6, <1>7, <1>8 DEF Whole
<1> QED
  BY <1>1, <1>9 DEF Outcome, s

\* It holds when execute() starts ...
LEMMA CleanInvInit == Init => CleanInv
<1> SUFFICES ASSUME Init PROVE CleanInv
  OBVIOUS
<1>1. PICK b \in StopIssuing : st = InitialState(b)
  BY DEF Init
<1>2. b \in BOOLEAN
  BY AgenticAssumption
<1>3. Outcome(st)
  BY <1>1, <1>2, InitialWhole
<1>4. pc = "seeding" /\ clean = FALSE
  BY DEF Init
<1> QED
  BY <1>3, <1>4 DEF CleanInv

\* A step of execute() and of what runs while it does keeps the invariant if it
\* keeps Outcome.
LEMMA CleanInvWaits ==
  ASSUME StrategyInv, CleanInv, pc \in {"seeding", "waiting"}, pc' \in {"seeding", "waiting"},
         UNCHANGED clean, halted' = halted, st'.stopIssuing = st.stopIssuing,
         ~halted /\ ~st.stopIssuing => Outcome(st')
  PROVE  CleanInv'
<1>1. ~clean
  BY DEF CleanInv
<1>2. ~clean'
  BY <1>1
<1>3. Outcome(st') <=> Outcome(st)'
  OBVIOUS
<1> QED
  BY <1>1, <1>2, <1>3 DEF CleanInv

\* After execute() the invariant is kept if Full is.
LEMMA CleanInvDrains ==
  ASSUME CleanInv, pc \in {"draining", "next", "over"}, pc' \in {"draining", "next", "over"},
         pc' = "draining" => pc = "draining",
         pc' # "over" => pc # "over",
         UNCHANGED <<clean, halted>>, st'.stopIssuing = st.stopIssuing,
         Full(st) /\ pc # "over" => Full(st')
  PROVE  CleanInv'
<1>1. Full(st') <=> Full(st)'
  OBVIOUS
<1> QED
  BY <1>1 DEF CleanInv

\* execute() returns.
LEMMA CleanInvLeaves ==
  ASSUME NEW v, StrategyInv, CleanInv, Running(st, v, {}), pc \in {"seeding", "waiting"},
         Leave(~st.error), Outcome(st) => st.error \/ ~HasWork(st)
  PROVE  CleanInv'
<1>1. /\ st' = Finally(st) /\ pc' \in {"draining", "over"} /\ clean' = ~st.error
      /\ halted' = halted
  BY DEF Leave
<1>2. st \in State
  BY DEF Running, QueriesFit
<1>3. /\ st'.stopIssuing = st.stopIssuing /\ st'.started = st.started /\ st'.left = st.left
      /\ st'.turns = st.turns /\ st'.issued = st.issued /\ st'.conv = st.conv
      /\ st'.ends = st.ends
  BY <1>1, <1>2 DEF Finally, State
<1>4. ASSUME clean', ~halted', ~st'.stopIssuing PROVE Full(st')
  <2>1. ~st.error /\ Outcome(st)
    BY <1>1, <1>3, <1>4 DEF CleanInv
  <2>2. Whole(st) /\ ~HasWork(st)
    BY <2>1 DEF Outcome
  <2>3. Full(st)
    BY <2>2, WholeIsFull
  <2> QED
    BY <1>3, <2>3, FullKept
<1>5. Full(st') <=> Full(st)'
  OBVIOUS
<1> QED
  BY <1>1, <1>4, <1>5 DEF CleanInv

\* ... and every step keeps it.
LEMMA CleanInvStep == StrategyInv /\ CleanInv /\ [Next]_vars => CleanInv'
<1> SUFFICES ASSUME StrategyInv, CleanInv, [Next]_vars PROVE CleanInv'
  OBVIOUS
<1>1. Outcomes \subseteq BOOLEAN
  BY DEF Outcomes
<1>2. st \in State
  BY DEF StrategyInv, Running, Ended, QueriesFit
<1>3. Flags(st)
  BY <1>2 DEF Flags, State
<1>4. CASE UNCHANGED vars
  BY <1>4 DEF vars, CleanInv
<1>5. CASE Seed
  <2>1. /\ pc = "seeding" /\ seeds > 0 /\ ~st.error
        /\ UNCHANGED <<pc, halted, cancel, aborted, clean>>
    BY <1>5 DEF Seed
  <2>2. PICK src \in Draws(st), ok \in Outcomes : st' = StartConversation(st, src, ok)
    BY <1>5 DEF Seed
  <2>3. Running(st, seeds, {}) /\ st.started + seeds <= Budget /\ seeds \in Nat
    BY <2>1 DEF StrategyInv
  <2>4. st.started < Budget /\ seeds - 1 \in Nat /\ Running(st, (seeds - 1) + 1, {})
    <3>1. st.started \in Nat /\ Budget \in Nat
      BY <1>2, Bounds DEF State
    <3>2. seeds - 1 \in Nat /\ seeds = (seeds - 1) + 1
      BY <2>1, <2>3
    <3> QED
      BY <2>1, <2>3, <3>1, <3>2
  <2>5. st'.stopIssuing = st.stopIssuing
    BY <1>3, <2>2, FillKept DEF Kept
  <2>6. ASSUME ~halted, ~st.stopIssuing PROVE Outcome(st')
    <3>1. Outcome(st) /\ HasMore(st)
      BY <2>1, <2>4, <2>6 DEF CleanInv, HasMore
    <3>2. Whole(st) /\ ~st.done
      BY <2>1, <3>1 DEF Outcome, Whole, HasWork
    <3> QED
      BY <1>1, <2>2, <2>4, <2>6, <3>2, StartWhole
  <2> QED
    BY <2>1, <2>5, <2>6, CleanInvWaits
<1>6. CASE Seeded
  <2>1. pc = "seeding" /\ Running(st, seeds, {})
    BY <1>6 DEF Seeded, StrategyInv
  <2>2. CASE (st.error \/ ~HasWork(st)) /\ Leave(~st.error)
    BY <2>1, <2>2, CleanInvLeaves
  <2>3. CASE pc' = "waiting" /\ UNCHANGED <<st, seeds, halted, cancel, aborted, clean>>
    BY <2>1, <2>3 DEF CleanInv
  <2> QED
    BY <1>6, <2>2, <2>3 DEF Seeded
<1>7. CASE Wake
  <2>1. pc = "waiting" /\ st.done /\ Running(st, 0, {}) /\ Leave(~st.error)
    BY <1>7 DEF Wake, StrategyInv
  <2>2. Outcome(st) => st.error \/ ~HasWork(st)
    BY <2>1 DEF Outcome
  <2> QED
    BY <2>1, <2>2, CleanInvLeaves
<1>8. CASE Cancelled
  <2>1. pc = "waiting" /\ pc' = "draining" /\ clean' = clean
    BY <1>8 DEF Cancelled
  <2> QED
    BY <2>1 DEF CleanInv
<1>9. CASE Answer
  <2>1. /\ pc \in {"waiting", "draining", "next"}
        /\ UNCHANGED <<pc, halted, clean>>
    BY <1>9 DEF Answer, Loop, StrategyInv
  <2>2. PICK q \in st.wire, src \in Draws(st), ok \in Outcomes, err \in BOOLEAN :
          st' = HandleResponse(st, q, err, src, ok)
    BY <1>9 DEF Answer
  <2>3. Kept(st, st')
    BY <1>3, <2>2, AnswerKept
  <2>4. st'.stopIssuing = st.stopIssuing /\ (st.error => st'.error)
    BY <2>3 DEF Kept
  <2>5. CASE pc = "waiting"
    <3>1. Running(st, 0, {})
      BY <2>5 DEF StrategyInv
    <3>2. ASSUME ~halted, ~st.stopIssuing PROVE Outcome(st')
      <4>1. CASE st.error
        BY <2>4, <4>1 DEF Outcome
      <4>2. CASE ~st.error
        <5>1. Outcome(st) /\ pc # "next" /\ ok \in BOOLEAN
          BY <1>1, <2>5, <3>2 DEF CleanInv
        <5>2. Outcome(HandleResponse(st, q, err, src, ok))
          BY <3>1, <3>2, <4>2, <5>1, AnswerWhole
        <5> QED
          BY <2>2, <5>2
      <4> QED
        BY <4>1, <4>2
    <3> QED
      BY <2>1, <2>4, <2>5, <3>2, CleanInvWaits
  <2>6. CASE pc \in {"draining", "next"}
    <3>1. Ended(st) /\ (Counted(st) \/ pc = "next")
      BY <2>6 DEF StrategyInv
    <3>2. Full(st) => Full(st')
      BY <2>2, <3>1, AnswerFull
    <3> QED
      BY <2>1, <2>4, <2>6, <3>2, CleanInvDrains
  <2> QED
    BY <2>1, <2>5, <2>6
<1>10. CASE Timeout
  <2>1. /\ pc = "waiting" /\ Running(st, 0, {})
        /\ UNCHANGED <<pc, halted, clean>>
    BY <1>10 DEF Timeout, StrategyInv
  <2>2. PICK q \in st.timers, src \in Draws(st), ok \in Outcomes :
          st' = HandleTimeout(st, q, src, ok)
    BY <1>10 DEF Timeout
  <2>3. Kept(st, st')
    BY <1>3, <2>2, TimeoutKept
  <2>4. st'.stopIssuing = st.stopIssuing /\ (st.error => st'.error)
    BY <2>3 DEF Kept
  <2>5. HasWork(st)
    BY <2>1 DEF Running, QueriesFit, HasWork
  <2>6. ASSUME ~halted, ~st.stopIssuing PROVE Outcome(st')
    <3>1. Outcome(st) /\ ok \in BOOLEAN
      BY <1>1, <2>1, <2>6 DEF CleanInv
    <3>2. CASE st.error
      BY <2>4, <3>2 DEF Outcome
    <3>3. CASE ~st.error
      <4>1. Whole(st) /\ ~st.done
        BY <2>5, <3>1, <3>3 DEF Outcome
      <4>2. Outcome(HandleTimeout(st, q, src, ok))
        BY <2>1, <2>6, <3>1, <4>1, TimeoutWhole
      <4> QED
        BY <2>2, <4>2
    <3> QED
      BY <3>2, <3>3
  <2> QED
    BY <2>1, <2>4, <2>6, CleanInvWaits
<1>11. CASE DelayFires
  <2>1. /\ pc = "waiting" /\ Running(st, 0, {})
        /\ UNCHANGED <<pc, halted, clean>>
    BY <1>11 DEF DelayFires, StrategyInv
  <2>2. PICK l \in Waiting(st), ok \in Outcomes : st' = IssueTurnNow(st, l, st.delayed[l], ok)
    BY <1>11 DEF DelayFires
  <2>3. Kept(st, st')
    BY <1>3, <2>2, BeginKept
  <2>4. st'.stopIssuing = st.stopIssuing /\ (st.error => st'.error)
    BY <2>3 DEF Kept
  <2>5. HasWork(st)
    BY <2>2 DEF HasWork
  <2>6. ASSUME ~halted, ~st.stopIssuing PROVE Outcome(st')
    <3>1. Outcome(st) /\ ok \in BOOLEAN
      BY <1>1, <2>1, <2>6 DEF CleanInv
    <3>2. CASE st.error
      BY <2>4, <3>2 DEF Outcome
    <3>3. CASE ~st.error
      <4>1. Whole(st) /\ ~st.done
        BY <2>5, <3>1, <3>3 DEF Outcome
      <4>2. Outcome(IssueTurnNow(st, l, st.delayed[l], ok))
        BY <2>1, <2>6, <3>1, <4>1, DelayWhole
      <4> QED
        BY <2>2, <4>2
    <3> QED
      BY <3>2, <3>3
  <2> QED
    BY <2>1, <2>4, <2>6, CleanInvWaits
<1>12. CASE Elapse
  <2>1. halted' = TRUE /\ UNCHANGED <<pc, clean>>
    BY <1>12 DEF Elapse
  <2> QED
    BY <2>1 DEF CleanInv
<1>13. CASE Cap
  <2>1. halted' = TRUE /\ UNCHANGED <<pc, clean>>
    BY <1>13 DEF Cap
  <2> QED
    BY <2>1 DEF CleanInv
<1>14. CASE Stop
  <2>1. halted' = TRUE /\ UNCHANGED <<pc, clean>>
    BY <1>14 DEF Stop
  <2> QED
    BY <2>1 DEF CleanInv
<1>15. CASE Drain
  <2>1. /\ pc = "draining" /\ pc' \in {"over", "next"} /\ st' = [st EXCEPT !.untracked = TRUE]
        /\ UNCHANGED <<halted, clean>>
    BY <1>15 DEF Drain
  <2>2. /\ st'.stopIssuing = st.stopIssuing /\ st'.started = st.started /\ st'.left = st.left
        /\ st'.turns = st.turns /\ st'.issued = st.issued /\ st'.conv = st.conv
        /\ st'.ends = st.ends
    BY <1>2, <2>1 DEF State
  <2>3. Full(st) => Full(st')
    BY <2>2, FullKept
  <2> QED
    BY <2>1, <2>2, <2>3, CleanInvDrains
<1>16. CASE Terminated
  BY <1>4, <1>16 DEF Terminated
<1> QED
  BY <1>4, <1>5, <1>6, <1>7, <1>8, <1>9, <1>10, <1>11, <1>12, <1>13, <1>14, <1>15, <1>16 DEF Next

\* The invariant says at least what the run checks.
LEMMA CleanInvComplete == StrategyInv /\ CleanInv => CleanRunIsComplete
<1> SUFFICES ASSUME StrategyInv, CleanInv,
                    clean, ~halted, ~st.stopIssuing, pc \in {"draining", "next"}
             PROVE  /\ st.started = Budget
                    /\ Cardinality({l \in Logical : IsComplete(st, l)}) = Budget
                    /\ st.issued = ExpectedSampleCount /\ Len(st.conv) = st.issued
                    /\ \A q \in Query : st.ends[q] >= 1
  BY DEF CleanRunIsComplete
<1>1. Full(st)
  BY DEF CleanInv
<1>2. st \in State
  BY DEF StrategyInv, Ended, QueriesFit
<1>3. Query = 1..Len(st.conv)
  BY <1>2 DEF State, Query
<1>4. ExpectedSampleCount = (Budget \div N) * Total(Turns, Conv)
                              + (IF st.left = {} THEN 0 ELSE Total(Turns, Conv \ st.left))
  BY DEF ExpectedSampleCount, Total
<1> QED
  BY <1>1, <1>3, <1>4 DEF Full

-----------------------------------------------------------------------------
(* What the callbacks keep.                                                *)

\* While execute() runs the strategy's books agree with one another: cursors,
\* turns in flight, delayed turns, slots and the order of the conversations.
\* Afterwards nothing is in flight and the issuer's count is exact until the
\* phase is over.
THEOREM StrategyKeepsItsBooks == Spec => []StrategyInv
<1>1. Init => StrategyInv
  BY StrategyInvInit
<1>2. StrategyInv /\ [Next]_vars => StrategyInv'
  BY StrategyInvStep
<1> QED
  BY <1>1, <1>2, PTL DEF Spec

\* For every dataset, budget and target concurrency, and whatever answers,
\* timeouts, delays, failures and stops come when: one turn of a conversation
\* is under way at a time, each turn ends once while the phase is current, the
\* in-flight count is exact, the slots stay full until the budget is used up
\* and no trajectory is run twice.
THEOREM TrajectoriesOrderly == Spec => []TrajectoriesAreOrderly
<1>1. StrategyInv => TrajectoriesAreOrderly
  BY StrategyInvOrderly
<1> QED
  BY <1>1, StrategyKeepsItsBooks, PTL

\* For every dataset, budget and target concurrency: a run that nobody stopped,
\* that was not set to stop at the first user who completes, and whose strategy
\* returned has started its whole budget of trajectories; every turn of each has
\* ended, with its answer, its timeout or the failure of an earlier turn; and as
\* many samples were issued as expected_agentic_sample_count promised.
THEOREM CleanRunsAreComplete == Spec => []CleanRunIsComplete
<1>1. Init => StrategyInv /\ CleanInv
  BY StrategyInvInit, CleanInvInit
<1>2. StrategyInv /\ CleanInv /\ [Next]_vars => (StrategyInv /\ CleanInv)'
  BY StrategyInvStep, CleanInvStep
<1>3. StrategyInv /\ CleanInv => CleanRunIsComplete
  BY CleanInvComplete
<1> QED
  BY <1>1, <1>2, <1>3, PTL DEF Spec

-----------------------------------------------------------------------------
(***************************************************************************)
(* The phases of a run that an accepted configuration plans.               *)
(***************************************************************************)

\* A configuration of any numbers.
AnyConfig ==
  [type : {"offline", "online", "submission", "eval"},
   benchmark_mode : {"unset", "offline", "online"},
   load : [type : Pattern, qps : Nat, concurrency : Nat],
   min_duration : Nat, max_duration : Nat, n_samples : Nat,
   warmup : BOOLEAN, n_requests : Nat,
   perf : [count : 0..2, agentic : BOOLEAN],
   acc : AccuracySet,
   ruleset : {"none", "pinned", "unseeded", "unknown"}]

\* One that the validators took and whose seeds are known.
Planned(c) ==
  /\ c \in AnyConfig /\ LoadPatternComplete(c) /\ MinDurationHasRate(c) /\ AgenticFits(c)
  /\ c.ruleset \in {"none", "pinned"}

\* The rounding up of a division.
LEMMA CeilDivFacts ==
  ASSUME NEW a \in Nat, NEW b \in Nat \ {0}
  PROVE  /\ CeilDiv(a, b) \in Nat /\ a <= CeilDiv(a, b) * b
         /\ a > 0 => CeilDiv(a, b) > 0
<1> DEFINE x == a + b - 1
           q == x \div b
           r == x % b
<1>1. x \in Nat
  OBVIOUS
<1>2. q \in Nat /\ r \in 0..(b - 1) /\ x = b * q + r
  BY <1>1, DivMod
<1>3. CeilDiv(a, b) = q
  BY DEF CeilDiv
<1> HIDE DEF q, r
<1>4. b * q \in Nat /\ b * q = q * b
  BY <1>2
<1>5. a <= q * b
  BY <1>2, <1>4
<1>6. a > 0 => q > 0
  <2> SUFFICES ASSUME a > 0, q = 0 PROVE FALSE
    BY <1>2
  <2>1. q * b = 0
    OBVIOUS
  <2> QED
    BY <1>5, <2>1
<1> QED
  BY <1>2, <1>3, <1>5, <1>6

\* A multiple of the size of a dataset is a number of whole passes.
LEMMA MultipleIsWhole ==
  ASSUME NEW k \in Nat, NEW b \in Nat \ {0}
  PROVE  (k * b) % b = 0 /\ (b * k) % b = 0 /\ k * b \in Nat /\ b * k \in Nat
<1>1. k * b \in Nat /\ b * k = k * b
  OBVIOUS
<1> DEFINE q == (k * b) \div b
           r == (k * b) % b
<1>2. q \in Nat /\ r \in 0..(b - 1) /\ k * b = b * q + r
  BY <1>1, DivMod
<1> HIDE DEF q, r
<1>3. b * k + 0 = b * q + r /\ 0 \in 0..(b - 1)
  BY <1>1, <1>2
<1>4. r = 0
  BY <1>2, <1>3, DivUnique
<1> QED
  BY <1>1, <1>4 DEF r

\* The fields of a planned configuration.
LEMMA PlannedFields ==
  ASSUME NEW c, Planned(c)
  PROVE  /\ c.load.qps \in Nat /\ c.load.concurrency \in Nat /\ c.load.type \in Pattern
         /\ c.min_duration \in Nat /\ c.max_duration \in Nat
         /\ c.n_samples \in Nat /\ c.n_requests \in Nat /\ c.warmup \in BOOLEAN
         /\ c.perf.agentic \in BOOLEAN /\ c.perf.count \in 0..2
         /\ c.acc \in AccuracySet /\ c.acc.repeats \in 0..2
<1>1. c \in AnyConfig
  BY DEF Planned
<1>2. /\ c.load \in [type : Pattern, qps : Nat, concurrency : Nat]
      /\ c.perf \in [count : 0..2, agentic : BOOLEAN] /\ c.acc \in AccuracySet
      /\ c.min_duration \in Nat /\ c.max_duration \in Nat
      /\ c.n_samples \in Nat /\ c.n_requests \in Nat /\ c.warmup \in BOOLEAN
  BY <1>1 DEF AnyConfig
<1>3. c.acc.repeats \in 0..2
  BY <1>2 DEF AccuracySet
<1> QED
  BY <1>2, <1>3

\* The number of samples is positive; if it comes of a duration, it is whole
\* passes and lasts long enough.
LEMMA EnoughToIssue ==
  ASSUME NEW c, Planned(c), NEW size \in Nat \ {0}
  PROVE  LET n == total_samples_to_issue(c, size)
         IN  /\ n \in Nat \ {0}
             /\ c.n_samples = 0 /\ c.min_duration > 0 =>
                  n >= c.load.qps * c.min_duration /\ n % size = 0
<1>1. /\ c.load.qps \in Nat /\ c.min_duration \in Nat /\ c.n_samples \in Nat
      /\ c.min_duration > 0 => c.load.type = "poisson" /\ c.load.qps > 0
  BY PlannedFields DEF Planned, MinDurationHasRate
<1>2. CASE c.n_samples > 0
  BY <1>1, <1>2 DEF total_samples_to_issue
<1>3. CASE c.n_samples = 0 /\ c.min_duration = 0
  BY <1>3 DEF total_samples_to_issue
<1>4. CASE c.n_samples = 0 /\ c.min_duration > 0
  <2> DEFINE w == c.load.qps * c.min_duration
             p == CeilDiv(w * 11, 10)
             k == CeilDiv(p, size)
  <2>1. total_samples_to_issue(c, size) = k * size
    BY <1>1, <1>4 DEF total_samples_to_issue
  <2>2. w \in Nat \ {0}
    <3>1. c.load.qps \in Nat \ {0} /\ c.min_duration \in Nat \ {0}
      BY <1>1, <1>4
    <3>2. \A a, b \in Nat \ {0} : a * b \in Nat \ {0}
      OBVIOUS
    <3> QED
      BY <3>1, <3>2
  <2> HIDE DEF w
  <2>3. p \in Nat \ {0} /\ w * 11 <= p * 10
    BY <2>2, CeilDivFacts
  <2> HIDE DEF p
  <2>4. p >= w
    BY <2>2, <2>3
  <2>5. k \in Nat \ {0} /\ p <= k * size
    <3>1. p \in Nat /\ p > 0
      BY <2>3
    <3>2. k \in Nat /\ p <= k * size /\ (p > 0 => k > 0)
      BY <3>1, CeilDivFacts, Zenon
    <3> HIDE DEF k
    <3> QED
      BY <3>1, <3>2
  <2> HIDE DEF k
  <2>6. k * size \in Nat /\ (k * size) % size = 0
    BY <2>5, MultipleIsWhole
  <2>7. k * size >= w /\ k * size > 0
    BY <2>2, <2>3, <2>4, <2>5, <2>6
  <2> DEFINE n == total_samples_to_issue(c, size)
  <2>8. n \in Nat /\ n % size = 0 /\ n >= w /\ n > 0
    BY <2>1, <2>6, <2>7, Zenon
  <2> HIDE DEF n
  <2>9. n \in Nat \ {0}
    BY <2>8
  <2> QED
    BY <2>8, <2>9, Zenon DEF w, n
<1> QED
  BY <1>1, <1>2, <1>3, <1>4

\* Short sequences one after the other.
LEMMA Appended ==
  ASSUME NEW x, NEW y, NEW z
  PROVE  /\ <<x>> \o <<y>> = <<x, y>> /\ <<x, y>> \o <<z>> = <<x, y, z>>
         /\ <<x>> \o <<>> = <<x>> /\ <<>> \o <<x>> = <<x>> /\ <<x, y>> \o <<>> = <<x, y>>
<1> DEFINE S == {x, y, z}
<1>1. <<x>> \in Seq(S) /\ <<y>> \in Seq(S) /\ <<z>> \in Seq(S) /\ <<x, y>> \in Seq(S)
      /\ <<x, y, z>> \in Seq(S)
  OBVIOUS
<1>2. /\ Len(<<x>> \o <<y>>) = 2 /\ (<<x>> \o <<y>>)[1] = x /\ (<<x>> \o <<y>>)[2] = y
      /\ <<x>> \o <<y>> \in Seq(S)
  BY <1>1
<1>3. <<x>> \o <<y>> = <<x, y>>
  <2> DEFINE t == <<x>> \o <<y>>
             u == <<x, y>>
  <2>1. /\ t \in Seq(S) /\ u \in Seq(S) /\ Len(t) = 2 /\ Len(u) = 2
        /\ t[1] = x /\ t[2] = y /\ u[1] = x /\ u[2] = y
    BY <1>1, <1>2
  <2> HIDE DEF t, u, S
  <2>2. Len(t) = Len(u) /\ \A i \in 1..Len(t) : t[i] = u[i]
    BY <2>1
  <2> QED
    BY <2>1, <2>2, SeqEqual, Zenon DEF t, u
<1>4. /\ Len(<<x, y>> \o <<z>>) = 3 /\ (<<x, y>> \o <<z>>)[1] = x
      /\ (<<x, y>> \o <<z>>)[2] = y /\ (<<x, y>> \o <<z>>)[3] = z
      /\ <<x, y>> \o <<z>> \in Seq(S)
  BY <1>1
<1>5. <<x, y>> \o <<z>> = <<x, y, z>>
  <2> DEFINE t == <<x, y>> \o <<z>>
             u == <<x, y, z>>
  <2>1. /\ t \in Seq(S) /\ u \in Seq(S) /\ Len(t) = 3 /\ Len(u) = 3
        /\ t[1] = x /\ t[2] = y /\ t[3] = z /\ u[1] = x /\ u[2] = y /\ u[3] = z
    BY <1>1, <1>4
  <2> HIDE DEF t, u, S
  <2>2. Len(t) = Len(u) /\ \A i \in 1..Len(t) : t[i] = u[i]
    BY <2>1
  <2> QED
    BY <2>1, <2>2, SeqEqual, Zenon DEF t, u
<1>6. <<x>> \o <<>> = <<x>> /\ <<>> \o <<x>> = <<x>> /\ <<x, y>> \o <<>> = <<x, y>>
  BY <1>1
<1> QED
  BY <1>3, <1>5, <1>6

\* The phases that are planned, of the run's and the accuracy set's sizes.
LEMMA PhaseShapes ==
  ASSUME NEW c, NEW mode, NEW p, NEW a
  PROVE  LET w == WarmupPhase(c, p)
             f == PerformancePhase(c, p)
             y == AccuracyPhase(c, mode, a)
             s == Phases(c, mode, p, a)
         IN  /\ ~HasPerf(mode) /\ ~HasAccuracyPhase(c) => s = <<>>
             /\ ~HasPerf(mode) /\ HasAccuracyPhase(c) => s = <<y>>
             /\ HasPerf(mode) /\ ~c.warmup /\ ~HasAccuracyPhase(c) => s = <<f>>
             /\ HasPerf(mode) /\ ~c.warmup /\ HasAccuracyPhase(c) => s = <<f, y>>
             /\ HasPerf(mode) /\ c.warmup /\ ~HasAccuracyPhase(c) => s = <<w, f>>
             /\ HasPerf(mode) /\ c.warmup /\ HasAccuracyPhase(c) => s = <<w, f, y>>
<1> DEFINE w == WarmupPhase(c, p)
           f == PerformancePhase(c, p)
           y == AccuracyPhase(c, mode, a)
<1>1. Phases(c, mode, p, a)
        = (IF HasPerf(mode) /\ c.warmup THEN <<w>> ELSE <<>>)
          \o (IF HasPerf(mode) THEN <<f>> ELSE <<>>)
          \o (IF HasAccuracyPhase(c) THEN <<y>> ELSE <<>>)
  BY Zenon DEF Phases
<1> HIDE DEF w, f, y
<1> DEFINE s == Phases(c, mode, p, a)
<1>2. ~HasPerf(mode) /\ ~HasAccuracyPhase(c) => s = <<>>
  <2> SUFFICES ASSUME ~HasPerf(mode) /\ ~HasAccuracyPhase(c) PROVE s = <<>>
    OBVIOUS
  <2>1. s = (<<>> \o <<>>) \o <<>>
    BY <1>1, Zenon
  <2> HIDE DEF s
  <2> QED
    BY <2>1, Appended
<1>3. ~HasPerf(mode) /\ HasAccuracyPhase(c) => s = <<y>>
  <2> SUFFICES ASSUME ~HasPerf(mode) /\ HasAccuracyPhase(c) PROVE s = <<y>>
    OBVIOUS
  <2>1. s = (<<>> \o <<>>) \o <<y>>
    BY <1>1, Zenon
  <2> HIDE DEF s
  <2> QED
    BY <2>1, Appended
<1>4. HasPerf(mode) /\ ~c.warmup /\ ~HasAccuracyPhase(c) => s = <<f>>
  <2> SUFFICES ASSUME HasPerf(mode) /\ ~c.warmup /\ ~HasAccuracyPhase(c) PROVE s = <<f>>
    OBVIOUS
  <2>1. s = (<<>> \o <<f>>) \o <<>>
    BY <1>1, Zenon
  <2> HIDE DEF s
  <2> QED
    BY <2>1, Appended
<1>5. HasPerf(mode) /\ ~c.warmup /\ HasAccuracyPhase(c) => s = <<f, y>>
  <2> SUFFICES ASSUME HasPerf(mode) /\ ~c.warmup /\ HasAccuracyPhase(c) PROVE s = <<f, y>>
    OBVIOUS
  <2>1. s = (<<>> \o <<f>>) \o <<y>>
    BY <1>1, Zenon
  <2> HIDE DEF s
  <2> QED
    BY <2>1, Appended
<1>6. HasPerf(mode) /\ c.warmup /\ ~HasAccuracyPhase(c) => s = <<w, f>>
  <2> SUFFICES ASSUME HasPerf(mode) /\ c.warmup /\ ~HasAccuracyPhase(c) PROVE s = <<w, f>>
    OBVIOUS
  <2>1. s = (<<w>> \o <<f>>) \o <<>>
    BY <1>1, Zenon
  <2> HIDE DEF s
  <2> QED
    BY <2>1, Appended
<1>7. HasPerf(mode) /\ c.warmup /\ HasAccuracyPhase(c) => s = <<w, f, y>>
  <2> SUFFICES ASSUME HasPerf(mode) /\ c.warmup /\ HasAccuracyPhase(c) PROVE s = <<w, f, y>>
    OBVIOUS
  <2>1. s = (<<w>> \o <<f>>) \o <<y>>
    BY <1>1, Zenon
  <2> HIDE DEF s
  <2> QED
    BY <2>1, Appended
<1> QED
  BY <1>2, <1>3, <1>4, <1>5, <1>6, <1>7, Zenon DEF w, f, y

\* A pinned run has no seed of its own.
LEMMA PinnedSeeds ==
  ASSUME NEW c, c.ruleset = "pinned"
  PROVE  Seeds(c).scheduler # "own" /\ Seeds(c).dataloader # "own" /\ Seeds(c).warmup # "own"
  BY DEF Seeds

\* A load pattern that is not agentic has a strategy.
LEMMA PatternHasStrategy ==
  ASSUME NEW c, Planned(c), NEW ph, ph.load = c.load, c.load.type # "agentic_inference"
  PROVE  StrategyExists(ph)
  BY PlannedFields DEF StrategyExists, Planned, LoadPatternComplete, Pattern

LEMMA WarmupRuns ==
  ASSUME NEW c, Planned(c), NEW size \in Nat \ {0}
  PROVE  Runnable(c, WarmupPhase(c, size)) /\ WarmupPhase(c, size).type = "warmup"
<1> DEFINE d == [c EXCEPT !.min_duration = 0, !.n_samples = c.n_requests]
           ph == WarmupPhase(c, size)
           n == total_samples_to_issue(d, size)
<1>1. /\ ph.type = "warmup" /\ ph.size = size /\ ph.load = c.load /\ ph.capped = FALSE
      /\ ph.seed = Seeds(c).warmup /\ ph.count = n
  BY DEF WarmupPhase
<1>2. d.min_duration = 0 /\ d.n_samples \in Nat
  BY PlannedFields DEF Planned, AnyConfig
<1> HIDE DEF d
<1>3. n \in Nat \ {0}
  BY <1>2 DEF total_samples_to_issue
<1> HIDE DEF n, ph
<1> QED
  BY <1>1, <1>3, PatternHasStrategy, PinnedSeeds DEF Runnable, OrderExists, ph

LEMMA PerformanceRuns ==
  ASSUME NEW c, Planned(c), NEW size \in Nat \ {0}, c.perf.count = 1
  PROVE  LET ph == PerformancePhase(c, size)
         IN  /\ Runnable(c, ph) /\ ph.type = "performance"
             /\ ph.count = total_samples_to_issue(c, size) /\ ph.count \in Nat
<1> DEFINE ph == PerformancePhase(c, size)
           n == total_samples_to_issue(c, size)
<1>1. /\ ph.type = "performance" /\ ph.size = size /\ ph.load = c.load
      /\ ph.seed = Seeds(c).dataloader /\ ph.count = n
      /\ c.perf.agentic => ph.strategy = "agentic"
  BY DEF PerformancePhase
<1>2. /\ n \in Nat \ {0}
      /\ c.n_samples = 0 /\ c.min_duration > 0 =>
           n >= c.load.qps * c.min_duration /\ n % size = 0
  BY EnoughToIssue, Zenon
<1> HIDE DEF n, ph
<1>3. StrategyExists(ph)
  <2>1. CASE c.perf.agentic
    BY <1>1, <2>1 DEF StrategyExists
  <2>2. CASE ~c.perf.agentic
    <3>1. c.load.type # "agentic_inference"
      BY <2>2 DEF Planned, AgenticFits
    <3> QED
      BY <1>1, <3>1, PatternHasStrategy
  <2> QED
    BY <2>1, <2>2
<1>4. c.n_samples = 0 /\ c.min_duration > 0 =>
        ph.count >= c.load.qps * c.min_duration /\ WholePasses(ph)
  BY <1>1, <1>2, Zenon DEF WholePasses
<1>5. OrderExists(ph) /\ ph.count > 0 /\ ph.count \in Nat
  BY <1>1, <1>2 DEF OrderExists
<1>6. c.ruleset = "pinned" => ph.seed # "own"
  BY <1>1, PinnedSeeds
<1>7. ph.type # "accuracy"
  BY <1>1
<1>8. Runnable(c, ph)
  BY <1>1, <1>3, <1>4, <1>5, <1>6, <1>7, Zenon DEF Runnable
<1> QED
  BY <1>1, <1>5, <1>8, Zenon DEF n, ph

LEMMA AccuracyRuns ==
  ASSUME NEW c, Planned(c), NEW size \in Nat \ {0}, NEW mode, HasAccuracyPhase(c)
  PROVE  LET ph == AccuracyPhase(c, mode, size)
         IN  /\ Runnable(c, ph) /\ ph.type = "accuracy"
             /\ ph.count = size * c.acc.repeats /\ ph.count \in Nat
<1> DEFINE ph == AccuracyPhase(c, mode, size)
           k == c.acc.repeats
<1>1. /\ ph.type = "accuracy" /\ ph.size = size /\ ph.capped = FALSE
      /\ ph.seed = Seeds(c).dataloader /\ ph.count = size * k
      /\ \/ ph.load.type = "max_throughput"
         \/ ph.load = c.load /\ c.load.type # "agentic_inference"
  <2> DEFINE l == IF ~HasPerf(mode) \/ c.load.type = "agentic_inference"
                  THEN [type |-> "max_throughput", qps |-> 0, concurrency |-> 0]
                  ELSE c.load
  <2>1. \/ l.type = "max_throughput"
        \/ l = c.load /\ c.load.type # "agentic_inference"
    OBVIOUS
  <2>2. ph = [type |-> "accuracy", size |-> size, capped |-> FALSE, load |-> l,
              strategy |-> "from_pattern", seed |-> Seeds(c).dataloader, count |-> size * k]
    BY Zenon DEF AccuracyPhase
  <2> HIDE DEF l, ph, k
  <2> QED
    BY <2>1, <2>2
<1>2. k \in Nat \ {0}
  BY PlannedFields DEF HasAccuracyPhase
<1> HIDE DEF k, ph
<1>3. size * k \in Nat /\ (size * k) % size = 0 /\ size * k > 0
  <2>1. \A x, y \in Nat \ {0} : x * y > 0
    OBVIOUS
  <2> QED
    BY <1>2, <2>1, MultipleIsWhole
<1>4. StrategyExists(ph) /\ ph.load.type # "agentic_inference"
  <2>1. CASE ph.load.type = "max_throughput"
    BY <2>1 DEF StrategyExists
  <2>2. CASE ph.load = c.load /\ c.load.type # "agentic_inference"
    BY <2>2, PatternHasStrategy
  <2> QED
    BY <1>1, <2>1, <2>2
<1>5. WholePasses(ph) /\ ph.count > 0 /\ ph.count \in Nat
  BY <1>1, <1>3, Zenon DEF WholePasses
<1>6. OrderExists(ph) /\ ph.type # "performance"
  BY <1>1 DEF OrderExists
<1>7. c.ruleset = "pinned" => ph.seed # "own"
  BY <1>1, PinnedSeeds
<1>8. Runnable(c, ph)
  BY <1>1, <1>4, <1>5, <1>6, <1>7, Zenon DEF Runnable
<1> QED
  BY <1>1, <1>5, <1>8, Zenon DEF ph, k

\* The counts of the phases that are not the warm-up add up to what the run
\* expects.
LEMMA SumIsTotal ==
  ASSUME NEW f, NEW S
  PROVE  SumFunctionOnSet(f, S) = Total(f, S)
  BY DEF SumFunctionOnSet, FoldFunctionOnSet, Total, MapThenSumSet

\* A sum over a set of one and of two.
LEMMA ShortSums ==
  ASSUME NEW f, NEW i, NEW j, f[i] \in Int, f[j] \in Int, i # j
  PROVE  /\ Total(f, {}) = 0 /\ Total(f, {i}) = f[i] /\ Total(f, {i, j}) = f[i] + f[j]
<1> DEFINE S == {i, j}
<1>1. IsFiniteSet(S) /\ \A x \in S : f[x] \in Int
  <2>1. IsFiniteSet({i}) /\ S = {i} \cup {j}
    BY FS_Singleton
  <2>2. IsFiniteSet(S)
    BY <2>1, FS_AddElement
  <2> QED
    BY <2>2
<1>2. Total(f, {}) = 0
  BY TotalStep, FS_EmptySet
<1>3. /\ {} \in SUBSET S /\ i \in S \ {} /\ {i} \in SUBSET S /\ j \in S \ {i}
      /\ {} \cup {i} = {i} /\ {i} \cup {j} = S
  OBVIOUS
<1> HIDE DEF S
<1>4. \A A \in SUBSET S : \A z \in S \ A : Total(f, A \cup {z}) = Total(f, A) + f[z]
  BY <1>1, TotalInsert
<1>5. /\ Total(f, {i}) = Total(f, {}) + f[i]
      /\ Total(f, S) = Total(f, {i}) + f[j]
  BY <1>3, <1>4, Zenon
<1>6. Total(f, {i}) = f[i] /\ Total(f, S) = f[i] + f[j]
  <2>1. Total(f, {i}) = 0 + f[i]
    BY <1>2, <1>5, Zenon
  <2>2. Total(f, {i}) = f[i]
    BY <2>1
  <2> QED
    BY <1>5, <2>2, Zenon
<1> QED
  BY <1>2, <1>6, Zenon DEF S

\* Phases that are not counted add nothing.
LEMMA NoneCounted ==
  ASSUME NEW s, \A k \in DOMAIN s : s[k].type = "warmup"
  PROVE  AddsUp(s, 0)
<1> DEFINE f == [k \in DOMAIN s |-> s[k].count]
           C == {k \in DOMAIN s : s[k].type # "warmup"}
<1>1. C = {}
  OBVIOUS
<1> HIDE DEF f, C
<1>2. Total(f, {}) = 0
  BY TotalStep, FS_EmptySet
<1>3. SumFunctionOnSet(f, C) = 0
  BY <1>1, <1>2, SumIsTotal
<1> QED
  BY <1>3, Zenon DEF AddsUp, f, C

LEMMA CountedAre ==
  ASSUME NEW s, NEW i \in DOMAIN s, s[i].count \in Int,
         NEW C, C = {k \in DOMAIN s : s[k].type # "warmup"}
  PROVE  /\ C = {i} => AddsUp(s, s[i].count)
         /\ \A j \in DOMAIN s : i # j /\ s[j].count \in Int /\ C = {i, j} =>
              AddsUp(s, s[i].count + s[j].count)
<1> DEFINE f == [k \in DOMAIN s |-> s[k].count]
<1>1. \A k \in DOMAIN s : f[k] = s[k].count
  OBVIOUS
<1>2. \A n : AddsUp(s, n) <=> Total(f, C) = n
  BY SumIsTotal, Zenon DEF AddsUp
<1> HIDE DEF f
<1>3. Total(f, {i}) = s[i].count
  <2>1. First({i}) = i /\ {i} \ {i} = {} /\ IsFiniteSet({i}) /\ {i} # {}
    BY FS_Singleton DEF First
  <2>2. Total(f, {i}) = f[i] + Total(f, {})
    <3>1. Total(f, {i}) = f[First({i})] + Total(f, {i} \ {First({i})})
      BY <2>1, TotalStep
    <3> QED
      BY <2>1, <3>1
  <2>3. Total(f, {}) = 0
    BY TotalStep, FS_EmptySet
  <2> QED
    BY <1>1, <2>2, <2>3
<1>4. ASSUME NEW j \in DOMAIN s, i # j, s[j].count \in Int
      PROVE  Total(f, {i, j}) = s[i].count + s[j].count
  <2>1. f[i] = s[i].count /\ f[j] = s[j].count
    BY <1>1
  <2>2. Total(f, {i, j}) = f[i] + f[j]
    BY <1>4, <2>1, ShortSums
  <2> QED
    BY <2>1, <2>2
<1> QED
  BY <1>2, <1>3, <1>4

\* Of the phases that are planned.
LEMMA PlanAddsUp ==
  ASSUME NEW w, NEW x, NEW y, w.type = "warmup", x.type # "warmup", y.type # "warmup",
         x.count \in Int, y.count \in Int
  PROVE  /\ AddsUp(<<>>, 0) /\ AddsUp(<<x>>, x.count)
         /\ AddsUp(<<x, y>>, x.count + y.count) /\ AddsUp(<<w, x>>, x.count)
         /\ AddsUp(<<w, x, y>>, x.count + y.count)
<1>1. AddsUp(<<>>, 0)
  BY NoneCounted
<1>2. AddsUp(<<x>>, x.count)
  <2> DEFINE s == <<x>>
             C == {k \in DOMAIN s : s[k].type # "warmup"}
  <2>1. 1 \in DOMAIN s /\ s[1] = x /\ C = {1}
    OBVIOUS
  <2> HIDE DEF s
  <2> QED
    BY <2>1, CountedAre DEF s
<1>3. AddsUp(<<x, y>>, x.count + y.count)
  <2> DEFINE s == <<x, y>>
             C == {k \in DOMAIN s : s[k].type # "warmup"}
  <2>1. 1 \in DOMAIN s /\ 2 \in DOMAIN s /\ s[1] = x /\ s[2] = y /\ C = {1, 2}
    OBVIOUS
  <2> HIDE DEF s
  <2> QED
    BY <2>1, CountedAre DEF s
<1>4. AddsUp(<<w, x>>, x.count)
  <2> DEFINE s == <<w, x>>
             C == {k \in DOMAIN s : s[k].type # "warmup"}
  <2>1. 2 \in DOMAIN s /\ s[2] = x /\ C = {2}
    OBVIOUS
  <2> HIDE DEF s
  <2> QED
    BY <2>1, CountedAre DEF s
<1>5. AddsUp(<<w, x, y>>, x.count + y.count)
  <2> DEFINE s == <<w, x, y>>
             C == {k \in DOMAIN s : s[k].type # "warmup"}
  <2>1. 2 \in DOMAIN s /\ 3 \in DOMAIN s /\ s[2] = x /\ s[3] = y /\ C = {2, 3}
    OBVIOUS
  <2> HIDE DEF s
  <2>2. s[2].count \in Int /\ s[3].count \in Int /\ 2 # 3
    BY <2>1
  <2>3. AddsUp(s, s[2].count + s[3].count)
    BY <2>1, <2>2, CountedAre
  <2> QED
    BY <2>1, <2>3, Zenon DEF s
<1> QED
  BY <1>1, <1>2, <1>3, <1>4, <1>5

\* The configuration that setup_benchmark plans with is still a valid one.
LEMMA ResolvedIsPlanned ==
  ASSUME NEW c \in Config, Accepts(c), NEW mode
  PROVE  /\ Planned(Resolved(c, mode)) /\ Resolved(c, mode).perf = c.perf
         /\ mode = "ACC" => Resolved(c, mode).load.concurrency \in {0, 1}
<1>1. c \in AnyConfig
  BY PlanAssumption DEF Config, AnyConfig
<1>2. Planned(c) /\ c.load \in [type : Pattern, qps : Nat, concurrency : Nat]
  BY <1>1 DEF Planned, Accepts, RulesetPinsSeeds, AnyConfig
<1>3. CASE ~(mode = "ACC" /\ c.load.concurrency > 0)
  <2>1. Resolved(c, mode) = c
    BY <1>3, Zenon DEF Resolved
  <2> QED
    BY <1>2, <1>3, <2>1
<1>4. CASE mode = "ACC" /\ c.load.concurrency > 0
  <2> DEFINE l == [c.load EXCEPT !.concurrency = 1]
             d == [c EXCEPT !.load = l]
  <2>1. Resolved(c, mode) = d
    BY <1>4 DEF Resolved
  <2>2. /\ l \in [type : Pattern, qps : Nat, concurrency : Nat]
        /\ l.type = c.load.type /\ l.qps = c.load.qps /\ l.concurrency = 1
    BY <1>2
  <2> HIDE DEF l
  <2>3. /\ d \in AnyConfig /\ d.load = l /\ d.perf = c.perf /\ d.acc = c.acc
        /\ d.min_duration = c.min_duration /\ d.n_samples = c.n_samples
        /\ d.ruleset = c.ruleset
    BY <1>1, <2>2 DEF AnyConfig
  <2> HIDE DEF d
  <2>4. /\ LoadPatternComplete(d) /\ MinDurationHasRate(d) /\ AgenticFits(d)
    BY <1>2, <2>2, <2>3 DEF Planned, LoadPatternComplete, MinDurationHasRate, AgenticFits
  <2>5. Planned(d)
    BY <1>2, <2>3, <2>4 DEF Planned
  <2> QED
    BY <2>1, <2>2, <2>3, <2>5
<1> QED
  BY <1>3, <1>4

\* A run that loads its datasets has the phases it counts on, all of them
\* runnable.
LEMMA PhasesRun ==
  ASSUME NEW c, Planned(c), NEW mode \in {"PERF", "ACC", "BOTH"},
         NEW p \in Nat \ {0}, NEW a \in Nat \ {0}, HasPerf(mode) => c.perf.count = 1
  PROVE  LET phases == Phases(c, mode, p, a)
         IN  /\ \A i \in DOMAIN phases : Runnable(c, phases[i])
             /\ AddsUp(phases, ExpectedTotal(c, mode, p, a))
             /\ HasPerf(mode) => \E i \in DOMAIN phases : phases[i].type = "performance"
             /\ \A i, j \in DOMAIN phases :
                  phases[i].type = "performance" /\ phases[j].type = "performance" => i = j
<1> DEFINE s == Phases(c, mode, p, a)
           w == WarmupPhase(c, p)
           x == PerformancePhase(c, p)
           y == AccuracyPhase(c, mode, a)
           n == total_samples_to_issue(c, p)
           m == a * c.acc.repeats
           t == ExpectedTotal(c, mode, p, a)
<1>1. Runnable(c, w) /\ w.type = "warmup"
  BY WarmupRuns
<1>2. HasPerf(mode) => /\ Runnable(c, x) /\ x.type = "performance"
                       /\ x.count = n /\ x.count \in Nat
  BY PerformanceRuns
<1>3. HasAccuracyPhase(c) => /\ Runnable(c, y) /\ y.type = "accuracy"
                             /\ y.count = m /\ y.count \in Nat
  BY AccuracyRuns
<1>4. x.type = "performance" /\ y.type = "accuracy"
  BY DEF PerformancePhase, AccuracyPhase
<1>5. t = (IF HasPerf(mode) THEN n ELSE 0) + (IF HasAccuracyPhase(c) THEN m ELSE 0)
  BY Zenon DEF ExpectedTotal
<1>6. c.warmup \in BOOLEAN
  BY PlannedFields
<1>7. /\ ~HasPerf(mode) /\ ~HasAccuracyPhase(c) => s = <<>>
      /\ ~HasPerf(mode) /\ HasAccuracyPhase(c) => s = <<y>>
      /\ HasPerf(mode) /\ ~c.warmup /\ ~HasAccuracyPhase(c) => s = <<x>>
      /\ HasPerf(mode) /\ ~c.warmup /\ HasAccuracyPhase(c) => s = <<x, y>>
      /\ HasPerf(mode) /\ c.warmup /\ ~HasAccuracyPhase(c) => s = <<w, x>>
      /\ HasPerf(mode) /\ c.warmup /\ HasAccuracyPhase(c) => s = <<w, x, y>>
  BY PhaseShapes, Zenon
<1> HIDE DEF s, w, x, y, n, m, t
<1> DEFINE Goal == /\ \A i \in DOMAIN s : Runnable(c, s[i])
                   /\ AddsUp(s, t)
                   /\ HasPerf(mode) => \E i \in DOMAIN s : s[i].type = "performance"
                   /\ \A i, j \in DOMAIN s :
                        s[i].type = "performance" /\ s[j].type = "performance" => i = j
<1> HIDE DEF Goal
<1>8. x.type # "warmup" /\ y.type # "warmup"
  BY <1>4
<1>9. \A k \in Nat : k \in Int
  OBVIOUS
<1>10. ASSUME ~HasPerf(mode), ~HasAccuracyPhase(c) PROVE Goal
  <2>1. s = <<>> /\ t = 0
    BY <1>5, <1>7, <1>10
  <2>2. AddsUp(<<>>, 0)
    BY NoneCounted
  <2> QED
    BY <1>10, <2>1, <2>2 DEF Goal
<1>11. ASSUME ~HasPerf(mode), HasAccuracyPhase(c) PROVE Goal
  <2>1. s = <<y>> /\ t = y.count
    BY <1>3, <1>5, <1>7, <1>11
  <2>2. AddsUp(<<y>>, y.count)
    BY <1>1, <1>3, <1>8, <1>9, <1>11, PlanAddsUp, Zenon
  <2> QED
    BY <1>3, <1>11, <2>1, <2>2 DEF Goal
<1>12. ASSUME HasPerf(mode), ~HasAccuracyPhase(c) PROVE Goal
  <2>1. t = x.count
    BY <1>2, <1>5, <1>12
  <2>2. AddsUp(<<x>>, x.count) /\ AddsUp(<<w, x>>, x.count)
    BY <1>1, <1>2, <1>8, <1>9, <1>12, PlanAddsUp, Zenon
  <2>3. CASE c.warmup
    <3>1. s = <<w, x>>
      BY <1>7, <1>12, <2>3
    <3> QED
      BY <1>1, <1>2, <1>12, <2>1, <2>2, <3>1 DEF Goal
  <2>4. CASE ~c.warmup
    <3>1. s = <<x>>
      BY <1>7, <1>12, <2>4
    <3> QED
      BY <1>1, <1>2, <1>12, <2>1, <2>2, <3>1 DEF Goal
  <2> QED
    BY <1>6, <2>3, <2>4
<1>13. ASSUME HasPerf(mode), HasAccuracyPhase(c) PROVE Goal
  <2>1. t = x.count + y.count
    BY <1>2, <1>3, <1>5, <1>13
  <2>2. AddsUp(<<x, y>>, x.count + y.count) /\ AddsUp(<<w, x, y>>, x.count + y.count)
    BY <1>1, <1>2, <1>3, <1>8, <1>9, <1>13, PlanAddsUp, Zenon
  <2>3. CASE c.warmup
    <3>1. s = <<w, x, y>>
      BY <1>7, <1>13, <2>3
    <3> QED
      BY <1>1, <1>2, <1>3, <1>13, <2>1, <2>2, <3>1 DEF Goal
  <2>4. CASE ~c.warmup
    <3>1. s = <<x, y>>
      BY <1>7, <1>13, <2>4
    <3> QED
      BY <1>1, <1>2, <1>3, <1>13, <2>1, <2>2, <3>1 DEF Goal
  <2> QED
    BY <1>6, <2>3, <2>4
<1>14. Goal
  BY <1>10, <1>11, <1>12, <1>13
<1> QED
  BY <1>14, Zenon DEF Goal, s, t

\* What is known of a planned run.
LEMMA PlanFacts ==
  ASSUME PlanInit
  PROVE  LET phases == Phases(plan.config, plan.mode, plan.perf, plan.acc)
         IN  /\ \A i \in DOMAIN phases : Runnable(plan.config, phases[i])
             /\ AddsUp(phases, ExpectedTotal(plan.config, plan.mode, plan.perf, plan.acc))
             /\ HasPerf(plan.mode) => \E i \in DOMAIN phases : phases[i].type = "performance"
             /\ \A i, j \in DOMAIN phases :
                  phases[i].type = "performance" /\ phases[j].type = "performance" => i = j
             /\ plan.mode = "ACC" => plan.config.load.concurrency \in {0, 1}
<1>1. PICK c \in Config, mode \in {"PERF", "ACC", "BOTH"}, p \in DatasetSize, a \in DatasetSize :
        /\ Accepts(c) /\ Loads(c, mode)
        /\ plan = [config |-> Resolved(c, mode), mode |-> mode, perf |-> p, acc |-> a]
  BY DEF PlanInit
<1> DEFINE d == Resolved(c, mode)
<1>2. Planned(d) /\ d.perf = c.perf /\ (mode = "ACC" => d.load.concurrency \in {0, 1})
  BY <1>1, ResolvedIsPlanned
<1>3. p \in Nat \ {0} /\ a \in Nat \ {0}
  BY PlanAssumption
<1>4. HasPerf(mode) => d.perf.count = 1
  BY <1>1, <1>2 DEF Loads, HasPerf
<1> HIDE DEF d
<1>5. plan.config = d /\ plan.mode = mode /\ plan.perf = p /\ plan.acc = a
  BY <1>1 DEF d
<1>6. LET phases == Phases(d, mode, p, a)
      IN  /\ \A i \in DOMAIN phases : Runnable(d, phases[i])
          /\ AddsUp(phases, ExpectedTotal(d, mode, p, a))
          /\ HasPerf(mode) => \E i \in DOMAIN phases : phases[i].type = "performance"
          /\ \A i, j \in DOMAIN phases :
               phases[i].type = "performance" /\ phases[j].type = "performance" => i = j
  BY <1>2, <1>3, <1>4, PhasesRun
<1> QED
  BY <1>2, <1>5, <1>6, Zenon

\* An accepted configuration whose datasets load can be run, whatever rates,
\* durations, counts and dataset sizes it has: each phase has a strategy (but for
\* the warm-up of an agentic run), an order and samples to issue, a count derived
\* from a duration is whole passes and lasts long enough, the phases add up to the
\* total that setup_benchmark announces, and pinned seeds are used throughout.
THEOREM PlansCanBeRun == PlanInit /\ [][UNCHANGED plan]_plan => []PlanIsRunnable
<1>1. PlanInit => PlanIsRunnable
  BY PlanFacts, Zenon DEF PlanIsRunnable
<1>2. PlanIsRunnable /\ [UNCHANGED plan]_plan => PlanIsRunnable'
  BY Zenon DEF PlanIsRunnable
<1> QED
  BY <1>1, <1>2, PTL

\* _build_phases makes one performance phase at most: what the theorem about the
\* aggregator's table assumes of a session (OneMeasured).
THEOREM OnePerformancePhase ==
  ASSUME PlanInit
  PROVE  LET phases == Phases(plan.config, plan.mode, plan.perf, plan.acc)
         IN  \A i, j \in DOMAIN phases :
               phases[i].type = "performance" /\ phases[j].type = "performance" => i = j
BY PlanFacts, Zenon

=============================================================================
