---------------------------- MODULE JudgingProofs ----------------------------
(***************************************************************************)
(* For any tasks, queries, effects, outputs and plans, any bounds on dead  *)
(* rows and lost connections: nothing stays in the sandbox but what a text *)
(* committed for itself, a reference query that is accepted by itself is   *)
(* accepted next to any other work until then, and a result is accepted    *)
(* exactly if it is the expected one.                                      *)
(* The argument follows the answer of the database from the statement      *)
(* (RunInv, FoundInv) over the result of the judge (ExactInv) to the two   *)
(* plans (PlanInv).                                                        *)
(***************************************************************************)
EXTENDS Judging, SumProofs, SequenceTheorems, TLAPS

Fields == {"stage", "query", "dml", "own", "result"}

ConnOK == DOMAIN conn = Runners /\ \A r \in Runners : DOMAIN conn[r] = Fields

(* What may come back for a reference query.                               *)
Answered(t, q, result) ==
    \/ ResultVerdict(t, q, result).correct
    \/ ~result.success /\ result.error = "timeout" /\ q \in Writes
    \/ result.error = "connection"

ReferenceRun(j) == judge[j].query = ExpectedQuery[judge[j].task]

(* The connection of a judge runs the query being judged, as its task      *)
(* wants it run.                                                           *)
RunInv(j) ==
    judge[j].stage = "executing" =>
        /\ conn[j].query = judge[j].query
        /\ conn[j].dml = IsDml(judge[j].task)
        /\ ReferenceRun(j) /\ conn[j].stage \in {"executed", "returned"} =>
              kept # <<>> \/ Answered(judge[j].task, judge[j].query, conn[j].result)

PlanInv(j) ==
    judge[j].stage = "comparing" => judge[j].plan = Plan(judge[j].query, judge[j].seenBloat)

Accepted(j) ==
    judge[j].stage = "judged" /\ ReferenceRun(j) =>
        \/ judge[j].outcome.correct
        \/ kept # <<>>
        \/ judge[j].disturbed
        \/ judge[j].outcome.error = "timeout" /\ judge[j].query \in Writes
        \/ judge[j].outcome.error = "plan_mismatch" /\ judge[j].moved

Stages == {"idle", "executing", "explaining", "comparing", "judged", "persisted"}

JudgeOK(j) ==
    /\ DOMAIN judge[j] = DOMAIN Resting
    /\ judge[j].stage \in Stages
    /\ judge[j].stage # "idle" => judge[j].task \in Tasks /\ judge[j].query \in Queries
    /\ judge[j].stage \in {"explaining", "comparing"} => judge[j].outcome.correct
    /\ judge[j].stage = "executing" <=> conn[j].stage # "closed"

(* A statement that succeeds returns what the query makes of some contents *)
(* of the table.                                                           *)
Results(q) == {Success(Output(q, rows)) : rows \in Contents}

FoundInv(j) ==
    /\ judge[j].stage = "executing"
    /\ conn[j].stage \in {"executed", "returned"} /\ conn[j].result.success
    => conn[j].result \in Results(judge[j].query)

(* The errors of a judge that found the result equal.                      *)
Taken == {"none", "plan_mismatch", "plan_unavailable"}

ExactInv(j) ==
    /\ judge[j].stage \in {"explaining", "comparing", "judged"} /\ judge[j].ran =>
          (SameResult(judge[j].rows, ExpectedResult[judge[j].task].rows, judge[j].query \in Ordered)
              <=> judge[j].outcome.error \in Taken)
    /\ judge[j].stage \in {"explaining", "comparing"} => judge[j].outcome.error \in Taken

JudgeInv(j) ==
    JudgeOK(j) /\ RunInv(j) /\ PlanInv(j) /\ Accepted(j) /\ FoundInv(j) /\ ExactInv(j)

IInv ==
    /\ ConnOK /\ SandboxTypeOK /\ OnlySelfCommittedStays
    /\ DOMAIN judge = Judges
    /\ \A j \in Judges : JudgeInv(j)

JudgesRun == Judges \subseteq Runners /\ Route \in Runners \ Judges

LEMMA WhoRuns == JudgesRun
BY JudgingAssumption DEF JudgesRun, Judges

-----------------------------------------------------------------------------
(* The rows.                                                               *)

LEMMA ContentsAre ==
    ASSUME NEW rows \in Contents
    PROVE  Len(rows) \in Nat /\ rows = [i \in 1..Len(rows) |-> rows[i]] /\ rows \in Rearranged(rows)
<1>1. rows \in Seq(Range(rows))
  BY ContentsAssumption
<1>2. Len(rows) \in Nat /\ rows = [i \in 1..Len(rows) |-> rows[i]]
  BY <1>1
<1> DEFINE n == Len(rows)
           id == [i \in 1..n |-> i]
<1>3. id \in Orders(n)
  BY DEF Orders, Bijection, Injection, IsInjective, Surjection
<1>4. rows = [i \in 1..n |-> rows[id[i]]]
  BY <1>2
<1> QED
  BY <1>2, <1>3, <1>4 DEF Rearranged

(* What is mixed again is mixed.                                           *)
LEMMA MixedAgain ==
    ASSUME NEW rows \in Contents, NEW mixed \in Rearranged(rows), NEW again \in Rearranged(mixed)
    PROVE  again \in Rearranged(rows)
<1> DEFINE n == Len(rows)
<1>1. PICK p \in Orders(n) : mixed = [i \in 1..n |-> rows[p[i]]]
  BY DEF Rearranged
<1>2. n \in Nat
  BY ContentsAre
<1>3. Len(mixed) = n
  BY <1>1, <1>2
<1>4. PICK q \in Orders(n) : again = [i \in 1..n |-> mixed[q[i]]]
  BY <1>3 DEF Rearranged
<1> HIDE DEF n
<1> DEFINE r == [i \in 1..n |-> p[q[i]]]
<1>5. p \in [1..n -> 1..n] /\ \A v, w \in 1..n : p[v] = p[w] => v = w
  BY DEF Orders, Bijection, Injection, IsInjective, Surjection
<1>6. q \in [1..n -> 1..n] /\ \A v, w \in 1..n : q[v] = q[w] => v = w
  BY DEF Orders, Bijection, Injection, IsInjective, Surjection
<1>7. r \in Orders(n)
  <2>1. \A w \in 1..n : \E v \in 1..n : r[v] = w
    <3> SUFFICES ASSUME NEW w \in 1..n PROVE \E v \in 1..n : r[v] = w
      OBVIOUS
    <3>1. PICK u \in 1..n : p[u] = w
      BY DEF Orders, Bijection, Surjection
    <3>2. PICK v \in 1..n : q[v] = u
      BY DEF Orders, Bijection, Surjection
    <3> QED
      BY <3>1, <3>2
  <2>2. r \in [1..n -> 1..n] /\ \A v, w \in 1..n : r[v] = r[w] => v = w
    BY <1>5, <1>6
  <2> QED
    BY <2>1, <2>2 DEF Orders, Bijection, Injection, IsInjective, Surjection
<1>8. again = [i \in 1..n |-> rows[r[i]]]
  BY <1>1, <1>4, <1>5, <1>6
<1> QED
  BY <1>7, <1>8 DEF Rearranged, n

Last == IF kept = <<>> THEN Seeded ELSE kept[Len(kept)]

LEMMA LastIs ==
    ASSUME SandboxTypeOK
    PROVE  Last \in Contents /\ (OnlySelfCommittedStays <=> table \in Rearranged(Last))
<1>1. kept \in Seq(Contents) /\ Seeded \in Contents
  BY ContentsAssumption DEF SandboxTypeOK
<1>2. kept # <<>> => kept[Len(kept)] \in Contents
  BY <1>1
<1> QED
  BY <1>1, <1>2 DEF Last, OnlySelfCommittedStays

LEMMA InitRows == Init => OnlySelfCommittedStays
BY ContentsAre, ContentsAssumption DEF Init, SandboxInit, OnlySelfCommittedStays

LEMMA RewriteRows ==
    ASSUME SandboxTypeOK, OnlySelfCommittedStays, Rewrite
    PROVE  OnlySelfCommittedStays' /\ table' \in Contents /\ kept' = kept
<1>1. table' \in Rearranged(table) /\ kept' = kept /\ Last' = Last
  BY DEF Rewrite, Last
<1>2. table' \in Rearranged(Last)
  BY <1>1, LastIs, MixedAgain
<1>3. table' \in Contents
  BY <1>1, ContentsAssumption DEF SandboxTypeOK
<1> QED
  BY <1>1, <1>2, <1>3 DEF Last, OnlySelfCommittedStays

(* A text that keeps its effect starts anew.                               *)
LEMMA EffectKept ==
    ASSUME SandboxTypeOK, NEW q \in Writes \cap (Commits \cup TakesRole), KeepEffect(q)
    PROVE  /\ OnlySelfCommittedStays' /\ table' \in Contents
           /\ kept' \in Seq(Contents) /\ kept' # <<>>
<1>1. kept \in Seq(Contents) /\ table \in Contents
  BY DEF SandboxTypeOK
<1>2. PICK rows \in Contents : rows = Effect(q, table)
  BY <1>1, ContentsAssumption
<1>3. table' = rows /\ kept' = Append(kept, rows)
  BY <1>2 DEF KeepEffect
<1>4. kept' \in Seq(Contents) /\ Len(kept') = Len(kept) + 1 /\ Len(kept) \in Nat
      /\ kept'[Len(kept')] = rows /\ kept' # <<>>
  BY <1>1, <1>3, AppendProperties, LenProperties
<1>5. rows \in Rearranged(rows)
  BY ContentsAre
<1> QED
  BY <1>3, <1>4, <1>5 DEF OnlySelfCommittedStays

-----------------------------------------------------------------------------
(* The comparison.                                                         *)

(* What the greedy matching leaves, row by row.                            *)
Leaves(left, a, e, n) ==
    left = [k \in 0..n |->
              IF k = 0 THEN 1..Len(e)
              ELSE {i \in left[k - 1] :
                       \/ ~RowsEqual(a[k], e[i])
                       \/ \E j \in left[k - 1] : j < i /\ RowsEqual(a[k], e[j])}]

LEMMA LeavesIs ==
    ASSUME NEW a, NEW e
    PROVE  Unmatched(a, e) = (CHOOSE left : Leaves(left, a, e, Len(a)))[Len(a)]
BY DEF Unmatched, Leaves

LEMMA LeavesExists ==
    ASSUME NEW a, NEW e, NEW n \in Nat
    PROVE  \E left : Leaves(left, a, e, n)
<1> DEFINE T == {m \in Nat : ~ \E left : Leaves(left, a, e, m)}
<1> SUFFICES ASSUME T # {} PROVE FALSE
  OBVIOUS
<1>1. PICK m \in T : \A y \in T : m <= y
  <2> HIDE DEF T
  <2>1. T \subseteq Nat
    BY DEF T
  <2> QED BY <2>1, LeastNat
<1>2. m \in Nat /\ ~ \E left : Leaves(left, a, e, m)
  OBVIOUS
<1>3. CASE m = 0
  <2> DEFINE f == [k \in 0..0 |-> 1..Len(e)]
  <2>1. Leaves(f, a, e, 0)
    BY DEF Leaves
  <2> QED BY <1>2, <1>3, <2>1
<1>4. CASE m # 0
  <2>1. m - 1 \in Nat /\ m - 1 < m
    BY <1>2, <1>4
  <2>2. m - 1 \notin T
    BY <1>1, <1>2, <2>1
  <2>3. PICK f : Leaves(f, a, e, m - 1)
    BY <2>1, <2>2
  <2> DEFINE last == {i \in f[m - 1] :
                         \/ ~RowsEqual(a[m], e[i])
                         \/ \E j \in f[m - 1] : j < i /\ RowsEqual(a[m], e[j])}
             g == [k \in 0..m |-> IF k = m THEN last ELSE f[k]]
  <2>4. \A k \in 0..(m - 1) : g[k] = f[k]
    BY <1>2
  <2>5. \A k \in 0..m : k # m => k \in 0..(m - 1) /\ (k # 0 => k - 1 \in 0..(m - 1))
    BY <1>2
  <2>6. \A k \in 0..(m - 1) :
          f[k] = IF k = 0 THEN 1..Len(e)
                 ELSE {i \in f[k - 1] :
                          \/ ~RowsEqual(a[k], e[i])
                          \/ \E j \in f[k - 1] : j < i /\ RowsEqual(a[k], e[j])}
    BY <2>3 DEF Leaves
  <2>7. g[m] = last /\ g[m - 1] = f[m - 1]
    BY <2>1, <2>4, <1>2
  <2>8. \A k \in 0..m :
          g[k] = IF k = 0 THEN 1..Len(e)
                 ELSE {i \in g[k - 1] :
                          \/ ~RowsEqual(a[k], e[i])
                          \/ \E j \in g[k - 1] : j < i /\ RowsEqual(a[k], e[j])}
    <3> SUFFICES ASSUME NEW k \in 0..m
                 PROVE  g[k] = IF k = 0 THEN 1..Len(e)
                               ELSE {i \in g[k - 1] :
                                        \/ ~RowsEqual(a[k], e[i])
                                        \/ \E j \in g[k - 1] : j < i /\ RowsEqual(a[k], e[j])}
      OBVIOUS
    <3>1. CASE k = m
      <4> HIDE DEF g
      <4> QED BY <1>4, <2>7, <3>1
    <3>2. CASE k # m
      <4>1. g[k] = f[k] /\ (k # 0 => g[k - 1] = f[k - 1])
        BY <2>4, <2>5, <3>2
      <4> HIDE DEF g
      <4> QED BY <2>5, <2>6, <3>2, <4>1
    <3> QED BY <3>1, <3>2
  <2>9. g = [k \in 0..m |-> g[k]]
    OBVIOUS
  <2> HIDE DEF g
  <2>10. Leaves(g, a, e, m)
    BY <2>8, <2>9 DEF Leaves
  <2> QED BY <1>2, <2>10
<1> QED BY <1>3, <1>4

(* One row takes one expected row away at most, and one it equals.         *)
LEMMA EachTakesOne ==
    ASSUME NEW a, NEW e, NEW n \in Nat, NEW left, Leaves(left, a, e, n),
           Len(e) \in Nat, NEW k \in 1..n
    PROVE  /\ left[k] \subseteq left[k - 1]
           /\ \A i \in left[k - 1] \ left[k] : RowsEqual(a[k], e[i])
           /\ \A i, j \in left[k - 1] \ left[k] : i = j
           /\ left[k - 1] \subseteq 1..Len(e) /\ left[0] = 1..Len(e)
<1>0. k - 1 \in 0..n /\ k \in 0..n /\ k # 0
  OBVIOUS
<1>1. /\ left[k] = {i \in left[k - 1] :
                      \/ ~RowsEqual(a[k], e[i])
                      \/ \E j \in left[k - 1] : j < i /\ RowsEqual(a[k], e[j])}
      /\ left[0] = 1..Len(e)
  BY <1>0 DEF Leaves
<1>2. left[k - 1] \subseteq 1..Len(e)
  <2> DEFINE T == {m \in 0..n : ~ (left[m] \subseteq 1..Len(e))}
  <2> SUFFICES ASSUME T # {} PROVE FALSE
    BY <1>0
  <2>1. PICK m \in T : \A y \in T : m <= y
    <3>1. T \subseteq Nat
      OBVIOUS
    <3> HIDE DEF T
    <3> QED BY <3>1, LeastNat
  <2>2. m \in 0..n /\ ~ (left[m] \subseteq 1..Len(e)) /\ m # 0
    BY <1>1
  <2>3. left[m] \subseteq left[m - 1]
    BY <2>2 DEF Leaves
  <2>4. m - 1 \in 0..n /\ m - 1 < m
    BY <2>2
  <2>5. m - 1 \notin T
    <3> HIDE DEF T
    <3> QED BY <2>1, <2>2, <2>4
  <2> QED BY <2>2, <2>3, <2>4, <2>5
<1>3. ASSUME NEW i \in left[k - 1] \ left[k]
      PROVE  RowsEqual(a[k], e[i]) /\ \A j \in left[k - 1] : j < i => ~RowsEqual(a[k], e[j])
  BY <1>1
<1>4. \A i, j \in left[k - 1] \ left[k] : i = j
  <2> SUFFICES ASSUME NEW i \in left[k - 1] \ left[k], NEW j \in left[k - 1] \ left[k]
               PROVE  i = j
    OBVIOUS
  <2>1. i \in Nat /\ j \in Nat /\ ~ (i < j) /\ ~ (j < i)
    BY <1>2, <1>3
  <2> QED BY <2>1
<1> QED BY <1>1, <1>2, <1>3, <1>4

(* Every expected row that is not left was taken by some row.              *)
LEMMA TakenBySome ==
    ASSUME NEW a, NEW e, NEW n \in Nat, NEW left, Leaves(left, a, e, n), Len(e) \in Nat,
           NEW i \in 1..Len(e), i \notin left[n]
    PROVE  \E k \in 1..n : i \in left[k - 1] \ left[k]
<1> DEFINE T == {m \in 0..n : i \notin left[m]}
<1>1. PICK m \in T : \A y \in T : m <= y
  <2>1. T \subseteq Nat /\ T # {}
    OBVIOUS
  <2> HIDE DEF T
  <2> QED BY <2>1, LeastNat
<1>2. m \in 0..n /\ i \notin left[m]
  OBVIOUS
<1>3. left[0] = 1..Len(e)
  BY DEF Leaves
<1>4. m # 0 /\ m \in 1..n /\ m - 1 \in 0..n /\ m - 1 < m
  BY <1>2, <1>3
<1>5. m - 1 \notin T
  <2> HIDE DEF T
  <2> QED BY <1>1, <1>2, <1>4
<1> QED BY <1>2, <1>4, <1>5

Corresponds(p, a, e) == \A i \in 1..Len(a) : RowsEqual(a[i], e[p[i]])

LEMMA GreedyIsSound ==
    ASSUME NEW a, NEW e, Len(a) \in Nat, Len(e) = Len(a), Unmatched(a, e) = {}
    PROVE  \E p \in Orders(Len(a)) : Corresponds(p, a, e)
<1>1. PICK n \in Nat : n = Len(a)
  OBVIOUS
<1>2. PICK left : left = (CHOOSE l : Leaves(l, a, e, n)) /\ Leaves(left, a, e, n)
  BY <1>1, LeavesExists
<1>3. left[n] = {} /\ Len(e) = n /\ Leaves(left, a, e, n)
  BY <1>1, <1>2, LeavesIs
<1> DEFINE q == [i \in 1..n |-> CHOOSE k \in 1..n : i \in left[k - 1] \ left[k]]
<1>4. \A i \in 1..n : q[i] \in 1..n /\ i \in left[q[i] - 1] \ left[q[i]]
  <2> SUFFICES ASSUME NEW i \in 1..n PROVE q[i] \in 1..n /\ i \in left[q[i] - 1] \ left[q[i]]
    OBVIOUS
  <2>1. \E k \in 1..n : i \in left[k - 1] \ left[k]
    <3>1. i \in 1..Len(e) /\ i \notin left[n] /\ Len(e) \in Nat
      BY <1>3
    <3> QED BY <1>3, <3>1, TakenBySome
  <2> QED BY <2>1
<1>5. q \in [1..n -> 1..n]
  BY <1>4
<1> HIDE DEF q
<1>6. \A i, j \in 1..n : q[i] = q[j] => i = j
  <2> SUFFICES ASSUME NEW i \in 1..n, NEW j \in 1..n, q[i] = q[j] PROVE i = j
    OBVIOUS
  <2>1. PICK k \in 1..n : k = q[i]
    BY <1>4
  <2>2. i \in left[k - 1] \ left[k] /\ j \in left[k - 1] \ left[k]
    BY <1>4, <2>1
  <2>3. Len(e) \in Nat
    BY <1>3
  <2>4. \A v, w \in left[k - 1] \ left[k] : v = w
    BY <1>1, <1>3, <2>1, <2>3, EachTakesOne
  <2> QED BY <2>2, <2>4
<1>7. q \in Bijection(1..n, 1..n)
  <2>1. q \in Injection(1..n, 1..n)
    BY <1>5, <1>6 DEF Injection, IsInjective
  <2>2. IsFiniteSet(1..n)
    BY FS_Interval
  <2>3. q \in Surjection(1..n, 1..n)
    BY <2>1, <2>2, FS_Injection
  <2> QED BY <2>1, <2>3 DEF Bijection
<1>8. \A k \in 1..n : \E i \in 1..n : q[i] = k
  BY <1>7 DEF Bijection, Surjection
<1> DEFINE p == [k \in 1..n |-> CHOOSE i \in 1..n : q[i] = k]
<1>9. \A k \in 1..n : p[k] \in 1..n /\ q[p[k]] = k
  BY <1>8
<1>10. p \in [1..n -> 1..n]
  BY <1>9
<1> HIDE DEF p
<1>11. p \in Orders(n)
  <2>1. \A i \in 1..n : p[q[i]] = i
    BY <1>4, <1>6, <1>9
  <2>2. \A k, l \in 1..n : p[k] = p[l] => k = l
    BY <1>9
  <2>3. \A i \in 1..n : \E k \in 1..n : p[k] = i
    BY <1>4, <2>1
  <2> QED BY <1>10, <2>2, <2>3 DEF Orders, Bijection, Injection, IsInjective, Surjection
<1>12. \A k \in 1..n : RowsEqual(a[k], e[p[k]])
  <2> SUFFICES ASSUME NEW k \in 1..n PROVE RowsEqual(a[k], e[p[k]])
    OBVIOUS
  <2>1. p[k] \in left[k - 1] \ left[k]
    BY <1>4, <1>9
  <2>2. Leaves(left, a, e, n) /\ Len(e) \in Nat
    BY <1>3
  <2>3. \A i \in left[k - 1] \ left[k] : RowsEqual(a[k], e[i])
    BY <2>2, EachTakesOne
  <2> QED BY <2>1, <2>3
<1> QED BY <1>1, <1>11, <1>12 DEF Corresponds

-----------------------------------------------------------------------------
(* Two rows that equal a third are interchangeable.                        *)
Interchangeable(a, e) ==
    \A r, s \in 1..Len(a) : \A i, j \in 1..Len(e) :
        RowsEqual(a[r], e[i]) /\ RowsEqual(a[s], e[i]) /\ RowsEqual(a[s], e[j])
            => RowsEqual(a[r], e[j])

(* The rows after the k-th that are still to come, one to one on what is   *)
(* left of the expected ones.                                              *)
Pairs(h, a, e, k, n, rest) ==
    /\ \A r \in (k + 1)..n : h[r] \in rest /\ RowsEqual(a[r], e[h[r]])
    /\ \A r, s \in (k + 1)..n : h[r] = h[s] => r = s
    /\ \A i \in rest : \E r \in (k + 1)..n : h[r] = i

LEMMA GreedyIsComplete ==
    ASSUME NEW a, NEW e, Len(a) \in Nat, Len(e) = Len(a), Interchangeable(a, e),
           NEW p \in Orders(Len(a)), Corresponds(p, a, e)
    PROVE  Unmatched(a, e) = {}
<1>1. PICK n \in Nat : n = Len(a)
  OBVIOUS
<1>2. PICK left : left = (CHOOSE l : Leaves(l, a, e, n)) /\ Leaves(left, a, e, n)
  BY <1>1, LeavesExists
<1>3. Unmatched(a, e) = left[n]
  BY <1>1, <1>2, LeavesIs
<1> DEFINE T == {k \in 0..n : ~ \E h : Pairs(h, a, e, k, n, left[k])}
<1>4. ASSUME T # {} PROVE FALSE
  <2>1. PICK k \in T : \A y \in T : k <= y
    <3>1. T \subseteq Nat
      OBVIOUS
    <3> HIDE DEF T
    <3> QED BY <1>4, <3>1, LeastNat
  <2>2. k \in 0..n /\ ~ \E h : Pairs(h, a, e, k, n, left[k])
    OBVIOUS
  <2>3. left[0] = 1..n
    BY <1>1, <1>2 DEF Leaves
  <2>4. Pairs(p, a, e, 0, n, left[0])
    <3>1. /\ \A i \in 1..n : p[i] \in 1..n
          /\ \A v, w \in 1..n : p[v] = p[w] => v = w
          /\ \A i \in 1..n : \E r \in 1..n : p[r] = i
      BY <1>1 DEF Orders, Bijection, Injection, IsInjective, Surjection
    <3>2. \A i \in 1..n : RowsEqual(a[i], e[p[i]])
      BY <1>1 DEF Corresponds
    <3>3. 0 + 1 = 1
      OBVIOUS
    <3> QED BY <2>3, <3>1, <3>2, <3>3 DEF Pairs
  <2>5. k # 0 /\ k \in 1..n /\ k - 1 \in 0..n /\ k - 1 < k
    BY <2>2, <2>4
  <2>6. k - 1 \notin T
    <3> HIDE DEF T
    <3> QED BY <2>1, <2>2, <2>5
  <2>7. PICK h : Pairs(h, a, e, k - 1, n, left[k - 1])
    BY <2>5, <2>6
  <2>8. /\ \A r \in k..n : h[r] \in left[k - 1] /\ RowsEqual(a[r], e[h[r]])
        /\ \A r, s \in k..n : h[r] = h[s] => r = s
        /\ \A i \in left[k - 1] : \E r \in k..n : h[r] = i
    BY <2>5, <2>7 DEF Pairs
  <2>9. left[k - 1] \subseteq 1..n
    BY <1>1, <1>2, <2>5, EachTakesOne
  <2>10. /\ left[k] = {i \in left[k - 1] :
                         \/ ~RowsEqual(a[k], e[i])
                         \/ \E j \in left[k - 1] : j < i /\ RowsEqual(a[k], e[j])}
    BY <1>2, <2>5 DEF Leaves
  <2> DEFINE M == {i \in left[k - 1] : RowsEqual(a[k], e[i])}
  <2>11. k \in k..n /\ h[k] \in M
    BY <2>5, <2>8
  <2>12. PICK m \in M : \A y \in M : m <= y
    <3>1. M \subseteq Nat /\ M # {}
      BY <2>9, <2>11
    <3> HIDE DEF M
    <3> QED BY <3>1, LeastNat
  <2>13. left[k] = left[k - 1] \ {m}
    BY <2>9, <2>10, <2>12
  <2>14. PICK s \in k..n : h[s] = m
    BY <2>8, <2>12
  <2> DEFINE g == [r \in (k + 1)..n |-> IF r = s THEN h[k] ELSE h[r]]
  <2>15. \A r \in (k + 1)..n : r \in k..n /\ r # k /\ r \in 1..n
    BY <2>5
  <2>16. \A r \in (k + 1)..n : g[r] \in left[k] /\ RowsEqual(a[r], e[g[r]])
    <3> SUFFICES ASSUME NEW r \in (k + 1)..n PROVE g[r] \in left[k] /\ RowsEqual(a[r], e[g[r]])
      OBVIOUS
    <3>1. CASE r # s
      BY <2>8, <2>13, <2>14, <2>15, <3>1
    <3>2. CASE r = s
      <4>1. h[k] # m /\ h[k] \in left[k - 1]
        BY <2>8, <2>11, <2>14, <2>15, <3>2
      <4>2. RowsEqual(a[s], e[m]) /\ RowsEqual(a[k], e[m]) /\ RowsEqual(a[k], e[h[k]])
        BY <2>8, <2>11, <2>12, <2>14
      <4>3. s \in 1..n /\ k \in 1..n /\ m \in 1..n /\ h[k] \in 1..n
        BY <2>5, <2>9, <2>12, <2>14, <4>1
      <4>4. RowsEqual(a[s], e[h[k]])
        BY <1>1, <4>2, <4>3 DEF Interchangeable
      <4> QED BY <2>13, <3>2, <4>1, <4>4
    <3> QED BY <3>1, <3>2
  <2>17. \A r, u \in (k + 1)..n : g[r] = g[u] => r = u
    BY <2>8, <2>11, <2>15
  <2>18. \A i \in left[k] : \E r \in (k + 1)..n : g[r] = i
    <3> SUFFICES ASSUME NEW i \in left[k] PROVE \E r \in (k + 1)..n : g[r] = i
      OBVIOUS
    <3>1. PICK r \in k..n : h[r] = i
      BY <2>8, <2>13
    <3>2. r # s
      BY <2>13, <2>14, <3>1
    <3>3. CASE r = k
      <4>1. s \in (k + 1)..n
        BY <2>5, <2>14, <3>2, <3>3
      <4> QED BY <3>1, <3>3, <4>1
    <3>4. CASE r # k
      <4>1. r \in (k + 1)..n
        BY <2>5, <3>4
      <4> QED BY <3>1, <3>2, <4>1
    <3> QED BY <3>3, <3>4
  <2> HIDE DEF g
  <2>19. Pairs(g, a, e, k, n, left[k])
    BY <2>16, <2>17, <2>18 DEF Pairs
  <2> QED BY <2>2, <2>19
<1>5. PICK h : Pairs(h, a, e, n, n, left[n])
  BY <1>4
<1>6. (n + 1)..n = {}
  BY <1>1
<1> QED BY <1>3, <1>5, <1>6 DEF Pairs

(* So they are where every column has one type: equal values read as the   *)
(* same number, and either a number is among them or all four are the same *)
(* value.                                                                  *)
LEMMA ValuesInterchange ==
    ASSUME NEW a, NEW b, NEW e, NEW f,
           a.typed => b.typed \/ b.number = NotANumber,
           b.typed => a.typed \/ a.number = NotANumber,
           e.typed => f.typed \/ f.number = NotANumber,
           f.typed => e.typed \/ e.number = NotANumber,
           ValuesEqual(a, e), ValuesEqual(b, e), ValuesEqual(b, f)
    PROVE  ValuesEqual(a, f)
<1>1. a.number = e.number /\ b.number = e.number /\ b.number = f.number
  BY DEF ValuesEqual
<1>2. CASE a.number = NotANumber
  BY <1>1, <1>2 DEF ValuesEqual
<1>3. CASE a.number # NotANumber /\ (a.typed \/ f.typed)
  BY <1>1, <1>3 DEF ValuesEqual
<1>4. CASE a.number # NotANumber /\ ~a.typed /\ ~f.typed
  <2>1. ~b.typed /\ ~e.typed
    BY <1>1, <1>4
  <2> QED BY <1>4, <2>1 DEF ValuesEqual
<1> QED BY <1>2, <1>3, <1>4

LEMMA ResultsInterchange ==
    ASSUME NEW a, NEW e, IsResult(a), IsResult(e)
    PROVE  Interchangeable(a, e)
<1> SUFFICES ASSUME NEW r \in 1..Len(a), NEW s \in 1..Len(a),
                    NEW i \in 1..Len(e), NEW j \in 1..Len(e),
                    RowsEqual(a[r], e[i]), RowsEqual(a[s], e[i]), RowsEqual(a[s], e[j])
             PROVE  RowsEqual(a[r], e[j])
  BY DEF Interchangeable
<1>1. /\ DOMAIN a[r] = DOMAIN e[i] /\ DOMAIN a[s] = DOMAIN e[i] /\ DOMAIN a[s] = DOMAIN e[j]
      /\ \A k \in DOMAIN a[r] : /\ ValuesEqual(a[r][k], e[i][k])
                                /\ ValuesEqual(a[s][k], e[i][k])
                                /\ ValuesEqual(a[s][k], e[j][k])
  BY DEF RowsEqual
<1>2. ASSUME NEW k \in DOMAIN a[r] PROVE ValuesEqual(a[r][k], e[j][k])
  <2>1. /\ k \in DOMAIN a[r] \cap DOMAIN a[s] /\ k \in DOMAIN a[s] \cap DOMAIN a[r]
        /\ k \in DOMAIN e[i] \cap DOMAIN e[j] /\ k \in DOMAIN e[j] \cap DOMAIN e[i]
    BY <1>1
  <2>2. /\ a[r][k].typed => a[s][k].typed \/ a[s][k].number = NotANumber
        /\ a[s][k].typed => a[r][k].typed \/ a[r][k].number = NotANumber
        /\ e[i][k].typed => e[j][k].typed \/ e[j][k].number = NotANumber
        /\ e[j][k].typed => e[i][k].typed \/ e[i][k].number = NotANumber
    BY <2>1 DEF IsResult
  <2>3. ValuesEqual(a[r][k], e[i][k]) /\ ValuesEqual(a[s][k], e[i][k]) /\ ValuesEqual(a[s][k], e[j][k])
    BY <1>1
  <2> QED BY <2>2, <2>3, ValuesInterchange
<1> QED BY <1>1, <1>2 DEF RowsEqual

(* compare finds two results equal exactly when they are.                  *)
LEMMA ComparesExactly ==
    ASSUME NEW a, NEW e, NEW ordered \in BOOLEAN, IsResult(a), IsResult(e)
    PROVE  Matches(a, e, ordered) <=> SameResult(a, e, ordered)
<1>1. Len(a) \in Nat /\ Len(e) \in Nat /\ Interchangeable(a, e)
  BY ResultsInterchange DEF IsResult
<1>2. CASE Len(a) # Len(e)
  BY <1>2 DEF Matches, SameResult
<1>3. CASE Len(a) = Len(e) /\ ordered
  <2>1. ASSUME Matches(a, e, ordered) PROVE SameResult(a, e, ordered)
    <3> DEFINE id == [i \in 1..Len(a) |-> i]
    <3>1. id \in Orders(Len(a))
      BY DEF Orders, Bijection, Injection, IsInjective, Surjection
    <3>2. \A i \in 1..Len(a) : id[i] = i /\ RowsEqual(a[i], e[id[i]])
      BY <1>3, <2>1 DEF Matches
    <3> QED BY <1>3, <3>1, <3>2 DEF SameResult
  <2>2. ASSUME SameResult(a, e, ordered) PROVE Matches(a, e, ordered)
    BY <1>3, <2>2 DEF Matches, SameResult
  <2> QED BY <2>1, <2>2
<1>4. CASE Len(a) = Len(e) /\ ~ordered
  <2>1. ASSUME Matches(a, e, ordered) PROVE SameResult(a, e, ordered)
    <3>1. PICK p \in Orders(Len(a)) : Corresponds(p, a, e)
      BY <1>1, <1>4, <2>1, GreedyIsSound DEF Matches
    <3> QED BY <1>4, <3>1 DEF SameResult, Corresponds
  <2>2. ASSUME SameResult(a, e, ordered) PROVE Matches(a, e, ordered)
    <3>1. PICK p \in Orders(Len(a)) : Corresponds(p, a, e)
      BY <1>4, <2>2 DEF SameResult, Corresponds
    <3> QED BY <1>1, <1>4, <3>1, GreedyIsComplete DEF Matches
  <2> QED BY <2>1, <2>2
<1> QED BY <1>2, <1>3, <1>4

LEMMA OutcomeIs ==
    ASSUME NEW v, NEW err
    PROVE  Outcome(v, err).error = err /\ (Outcome(v, err).correct <=> v = "correct")
BY DEF Outcome

(* So the verdict of evaluate on what a statement returned is exact.       *)
LEMMA VerdictIsExact ==
    ASSUME NEW t, NEW q, NEW result, result.success,
           IsResult(result.rows), IsResult(ExpectedResult[t].rows)
    PROVE  LET outcome == ResultVerdict(t, q, result) IN
           /\ SameResult(result.rows, ExpectedResult[t].rows, q \in Ordered)
                 <=> outcome.error \in Taken
           /\ outcome.correct => outcome.error \in Taken
<1> DEFINE e == ExpectedResult[t].rows
           outcome == ResultVerdict(t, q, result)
<1>1. Matches(result.rows, e, q \in Ordered) <=> SameResult(result.rows, e, q \in Ordered)
  <2>1. (q \in Ordered) \in BOOLEAN
    OBVIOUS
  <2> QED BY <2>1, ComparesExactly
<1>2. CASE e = <<>>
  <2>1. ASSUME result.rows = <<>> PROVE Matches(result.rows, e, q \in Ordered)
    <3>1. Len(result.rows) = 0 /\ Len(e) = 0
      BY <1>2, <2>1
    <3>2. SameResult(result.rows, e, q \in Ordered)
      <4> DEFINE id == [i \in 1..0 |-> i]
      <4>1. id \in Orders(0)
        BY DEF Orders, Bijection, Injection, IsInjective, Surjection
      <4> QED BY <3>1, <4>1 DEF SameResult
    <3> QED BY <1>1, <3>2
  <2>2. ASSUME Matches(result.rows, e, q \in Ordered) PROVE result.rows = <<>>
    <3>1. Len(result.rows) = 0 /\ result.rows \in Seq(Range(result.rows))
      BY <1>2, <2>2 DEF Matches, IsResult
    <3> QED BY <3>1
  <2>3. outcome = IF result.rows = <<>> THEN Outcome("correct", "none")
                  ELSE Outcome("incorrect", "row_mismatch")
    BY <1>2 DEF ResultVerdict
  <2>4. outcome.error \in Taken <=> result.rows = <<>>
    BY <2>3, OutcomeIs DEF Taken
  <2>5. outcome.correct => outcome.error \in Taken
    <3>1. CASE result.rows = <<>>
      BY <2>4, <3>1
    <3>2. CASE result.rows # <<>>
      <4>1. outcome = Outcome("incorrect", "row_mismatch")
        BY <2>3, <3>2
      <4> HIDE DEF outcome
      <4> QED BY <4>1, OutcomeIs
    <3> QED BY <3>1, <3>2
  <2> HIDE DEF outcome, e
  <2>6. SameResult(result.rows, e, q \in Ordered) <=> outcome.error \in Taken
    BY <1>1, <2>1, <2>2, <2>4
  <2> QED BY <2>5, <2>6 DEF outcome, e
<1>3. CASE e # <<>> /\ Matches(result.rows, e, q \in Ordered)
  <2>1. outcome = Outcome("correct", "none")
    BY <1>3 DEF ResultVerdict
  <2> QED BY <1>1, <1>3, <2>1 DEF Outcome, Taken
<1>4. CASE e # <<>> /\ ~ Matches(result.rows, e, q \in Ordered)
  <2>1. outcome \in {Outcome("incorrect", "empty_result"), Outcome("incorrect", "wrong_columns"),
                     Outcome("partial", "row_mismatch")}
    BY <1>4 DEF ResultVerdict
  <2>2. outcome.error \notin Taken /\ ~outcome.correct
    <3> HIDE DEF outcome
    <3> QED BY <2>1, OutcomeIs DEF Taken
  <2> QED BY <1>1, <1>4, <2>2
<1> QED BY <1>2, <1>3, <1>4

-----------------------------------------------------------------------------
(* A call of execute goes on: a statement, a timeout, the close or a loss  *)
(* of the connection.                                                      *)

Arrives(r, result) ==
    \/ result = Answer(r) /\ conn[r].query \notin Endless
    \/ /\ result = Failure("timeout")
       /\ conn[r].query \in Endless \cup Writes
    \/ result = Failure("connection")

SameRows == UNCHANGED <<table, kept>>

(* The contents change for a text that keeps its effect, or not at all.    *)
RowsMove ==
    \/ SameRows
    \/ /\ OnlySelfCommittedStays' /\ table' \in Contents
       /\ kept' \in Seq(Contents) /\ kept' # <<>>

Moved(r) ==
    /\ DOMAIN conn' = Runners /\ \A o \in Runners \ {r} : conn'[o] = conn[o]
    /\ DOMAIN conn'[r] = Fields
    /\ conn'[r].query = conn[r].query /\ conn'[r].dml = conn[r].dml
    /\ conn[r].stage \in {"running", "committed", "executed"}
    /\ \/ conn'[r].stage \in {"executed", "returned"} /\ SameRows
       \/ conn'[r].stage = "committed" /\ conn'[r].result = conn[r].result
    /\ conn[r].stage = "executed" => conn'[r].result = conn[r].result
    /\ conn'[r].stage # "committed" /\ conn[r].stage # "executed" => Arrives(r, conn'[r].result)
    /\ conn[r].stage = "executed" => conn'[r].stage = "returned"
    /\ bloat' \in 0..MaxBloat /\ sandboxFaults' \in 0..MaxSandboxFaults
    /\ RowsMove

LEMMA DeadRowsBounded == ASSUME bloat \in 0..MaxBloat, NEW r, LeaveDeadRows(r) PROVE bloat' \in 0..MaxBloat
<1>1. MaxBloat \in Nat
  BY SandboxAssumption
<1> QED
  BY <1>1 DEF LeaveDeadRows

LEMMA RunnerMoves ==
    ASSUME ConnOK, SandboxTypeOK, NEW r \in Runners, RunnerStep(r) \/ ConnectionLost(r)
    PROVE  Moved(r)
<1> USE DEF ConnOK, Fields, Stage, RowsMove, SameRows
<1>1. bloat \in 0..MaxBloat /\ sandboxFaults \in 0..MaxSandboxFaults
  BY DEF SandboxTypeOK
<1>2. CASE RunStatement(r)
  <2>1. /\ conn' = [conn EXCEPT ![r].stage = "executed", ![r].result = Answer(r),
                                ![r].own = IF Answer(r).success
                                              /\ ~Keeps(r)
                                           THEN Effect(conn[r].query, table) ELSE table]
        /\ conn[r].stage \in {"running", "committed"} /\ conn[r].query \notin Endless
        /\ UNCHANGED <<table, bloat, kept, sandboxFaults>>
    BY <1>2 DEF RunStatement
  <2>2. /\ DOMAIN conn' = Runners /\ \A o \in Runners \ {r} : conn'[o] = conn[o]
        /\ DOMAIN conn'[r] = Fields
        /\ conn'[r].query = conn[r].query /\ conn'[r].dml = conn[r].dml
        /\ conn'[r].stage = "executed" /\ conn'[r].result = Answer(r)
    BY <2>1
  <2> QED
    BY <1>1, <2>1, <2>2 DEF Moved, Arrives
<1>3. CASE StatementTimeout(r)
  <2>1. /\ conn' = [conn EXCEPT ![r].stage = "executed", ![r].result = Failure("timeout"),
                                ![r].own = table]
        /\ conn[r].stage \in {"running", "committed"} /\ conn[r].query \in Endless \cup Writes
        /\ UNCHANGED <<table, bloat, kept, sandboxFaults>>
    BY <1>3 DEF StatementTimeout, Writing
  <2>2. /\ DOMAIN conn' = Runners /\ \A o \in Runners \ {r} : conn'[o] = conn[o]
        /\ DOMAIN conn'[r] = Fields
        /\ conn'[r].query = conn[r].query /\ conn'[r].dml = conn[r].dml
        /\ conn'[r].stage = "executed" /\ conn'[r].result = Failure("timeout")
    BY <2>1
  <2> QED
    BY <1>1, <2>1, <2>2 DEF Moved, Arrives
<1>4. CASE Close(r)
  <2>1. /\ conn' = [conn EXCEPT ![r].stage = "returned", ![r].own = <<>>]
        /\ conn[r].stage = "executed" /\ LeaveDeadRows(r)
        /\ UNCHANGED <<table, kept, sandboxFaults>>
    BY <1>4 DEF Close
  <2>2. /\ DOMAIN conn' = Runners /\ \A o \in Runners \ {r} : conn'[o] = conn[o]
        /\ DOMAIN conn'[r] = Fields
        /\ conn'[r].query = conn[r].query /\ conn'[r].dml = conn[r].dml
        /\ conn'[r].stage = "returned" /\ conn'[r].result = conn[r].result
    BY <2>1
  <2> QED
    BY <1>1, <2>1, <2>2, DeadRowsBounded DEF Moved
<1>5. CASE ConnectionLost(r)
  <2>1. /\ conn' = [conn EXCEPT ![r].stage = "returned", ![r].own = <<>>,
                                ![r].result = IF conn[r].stage = "executed" THEN @
                                              ELSE Failure("connection")]
        /\ conn[r].stage \in {"running", "committed", "executed"} /\ LeaveDeadRows(r)
        /\ sandboxFaults < MaxSandboxFaults /\ sandboxFaults' = sandboxFaults + 1
        /\ UNCHANGED <<table, kept>>
    BY <1>5 DEF ConnectionLost
  <2>2. /\ DOMAIN conn' = Runners /\ \A o \in Runners \ {r} : conn'[o] = conn[o]
        /\ DOMAIN conn'[r] = Fields
        /\ conn'[r].query = conn[r].query /\ conn'[r].dml = conn[r].dml
        /\ conn'[r].stage = "returned"
        /\ conn[r].stage = "executed" => conn'[r].result = conn[r].result
        /\ conn[r].stage # "executed" => conn'[r].result = Failure("connection")
    BY <2>1
  <2>3. sandboxFaults' \in 0..MaxSandboxFaults
    <3>1. MaxSandboxFaults \in Nat
      BY SandboxAssumption
    <3> QED
      BY <1>1, <2>1, <3>1
  <2> QED
    BY <1>1, <2>1, <2>2, <2>3, DeadRowsBounded DEF Moved, Arrives
<1>6. CASE CommitByText(r)
  <2>1. /\ conn' = [conn EXCEPT ![r].stage = "committed"] /\ conn[r].stage = "running"
        /\ KeepEffect(conn[r].query) /\ UNCHANGED <<bloat, sandboxFaults>>
        /\ conn[r].query \in Writes \cap (Commits \cup TakesRole)
    BY <1>6 DEF CommitByText, Keeps, Writing
  <2>2. /\ DOMAIN conn' = Runners /\ \A o \in Runners \ {r} : conn'[o] = conn[o]
        /\ DOMAIN conn'[r] = Fields
        /\ conn'[r].query = conn[r].query /\ conn'[r].dml = conn[r].dml
        /\ conn'[r].stage = "committed" /\ conn'[r].result = conn[r].result
    BY <2>1
  <2> QED
    BY <1>1, <2>1, <2>2, EffectKept DEF Moved
<1> QED
  BY <1>2, <1>3, <1>4, <1>5, <1>6 DEF RunnerStep

(* What the database answers a reference query is accepted, or the reason  *)
(* is one that ReferenceIsAccepted excepts.                                *)
LEMMA ReferenceAnswers ==
    ASSUME OnlySelfCommittedStays, kept = <<>>, NEW r \in Runners, NEW t \in Tasks, NEW result,
           conn[r].query = ExpectedQuery[t], conn[r].dml = IsDml(t), Arrives(r, result)
    PROVE  Answered(t, ExpectedQuery[t], result)
<1> DEFINE q == ExpectedQuery[t]
<1>1. /\ q \notin Broken \cup Endless
      /\ q \in Writes => IsDml(t)
      /\ \A rows \in Rearranged(Seeded) : ResultVerdict(t, q, Success(Output(q, rows))).correct
  BY ReferenceAssumption
<1>2. table \in Rearranged(Seeded)
  BY DEF OnlySelfCommittedStays
<1>3. Answer(r) = Success(Output(q, table))
  BY <1>1 DEF Answer, Writing
<1>4. ResultVerdict(t, q, Success(Output(q, table))).correct
  BY <1>1, <1>2
<1>5. CASE result = Answer(r)
  BY <1>3, <1>4, <1>5 DEF Answered
<1>6. CASE result = Failure("timeout") /\ q \in Writes
  BY <1>6 DEF Answered, Failure
<1>7. CASE result = Failure("connection")
  BY <1>7 DEF Answered, Failure
<1> QED
  BY <1>1, <1>5, <1>6, <1>7 DEF Arrives

LEMMA SuccessIsFound ==
    ASSUME SandboxTypeOK, NEW r, NEW result, Arrives(r, result), result.success
    PROVE  result \in Results(conn[r].query)
<1>1. \A error : ~Failure(error).success
  BY DEF Failure
<1>2. result = Answer(r)
  BY <1>1 DEF Arrives
<1>3. result = Success(Output(conn[r].query, table))
  BY <1>1, <1>2 DEF Answer
<1> QED
  BY <1>3 DEF Results, SandboxTypeOK

-----------------------------------------------------------------------------
(* The steps.                                                              *)

LEMMA RowsStay == ASSUME OnlySelfCommittedStays, RowsMove PROVE OnlySelfCommittedStays'
BY DEF RowsMove, SameRows, OnlySelfCommittedStays

(* A step of the judge j, over its own connection.                         *)
LEMMA OneJudgeMoves ==
    ASSUME IInv, NEW j \in Judges,
           DOMAIN conn' = Runners, \A o \in Runners \ {j} : conn'[o] = conn[o],
           DOMAIN judge' = Judges, \A o \in Judges \ {j} : judge'[o] = judge[o],
           DOMAIN conn'[j] = Fields, SandboxTypeOK', RowsMove, JudgeInv(j)'
    PROVE  IInv'
<1>1. ASSUME NEW o \in Judges \ {j} PROVE JudgeInv(o)'
  <2>1. /\ judge'[o] = judge[o] /\ conn'[o] = conn[o] /\ JudgeInv(o)
        /\ kept # <<>> => kept' # <<>>
    BY WhoRuns DEF JudgesRun, IInv, RowsMove, SameRows
  <2> QED
    BY <2>1 DEF JudgeInv, JudgeOK, RunInv, PlanInv, Accepted, FoundInv, ExactInv, ReferenceRun
<1>2. ConnOK'
  BY DEF IInv, ConnOK
<1>3. OnlySelfCommittedStays'
  BY RowsStay DEF IInv
<1> QED
  BY <1>1, <1>2, <1>3 DEF IInv

(* Nothing happens to a judge or to its connection.                        *)
LEMMA JudgesWait ==
    ASSUME IInv, \A j \in Judges : judge'[j] = judge[j] /\ conn'[j] = conn[j], DOMAIN judge' = Judges,
           ConnOK', SandboxTypeOK', OnlySelfCommittedStays', kept # <<>> => kept' # <<>>
    PROVE  IInv'
<1>1. ASSUME NEW o \in Judges PROVE JudgeInv(o)'
  <2>1. judge'[o] = judge[o] /\ conn'[o] = conn[o] /\ JudgeInv(o)
    BY DEF IInv
  <2> QED
    BY <2>1 DEF JudgeInv, JudgeOK, RunInv, PlanInv, Accepted, FoundInv, ExactInv, ReferenceRun
<1> QED
  BY <1>1 DEF IInv

Errors == {"none", "sql", "timeout", "connection"}

ConnTyped(c) ==
    /\ c.stage \in {"closed", "running", "committed", "executed", "returned"}
    /\ c.stage # "closed" => c.query \in Queries
    /\ c.result.error \in Errors

LEMMA SandboxTyped ==
    SandboxTypeOK <=> /\ table \in Contents /\ kept \in Seq(Contents)
                      /\ bloat \in 0..MaxBloat /\ sandboxFaults \in 0..MaxSandboxFaults
                      /\ \A r \in Runners : ConnTyped(conn[r])
BY DEF SandboxTypeOK, ConnTyped, Errors

LEMMA ClosedTyped == ConnTyped(Closed) /\ DOMAIN Closed = Fields /\ Closed.stage = "closed"
BY DEF ConnTyped, Errors, Closed, Failure, Fields

LEMMA MovedTypes ==
    ASSUME IInv, NEW r \in Runners, Moved(r)
    PROVE  SandboxTypeOK' /\ ConnOK'
<1>1. ASSUME NEW result, Arrives(r, result) PROVE result.error \in Errors
  BY <1>1 DEF Arrives, Answer, Success, Failure, Errors
<1>2. ConnTyped(conn[r])
  BY DEF IInv, SandboxTypeOK, ConnTyped, Errors
<1>3. ConnTyped(conn'[r])
  BY <1>1, <1>2 DEF Moved, ConnTyped
<1>4. \A o \in Runners : ConnTyped(conn'[o])
  BY <1>3 DEF Moved, IInv, SandboxTypeOK, ConnTyped, Errors
<1>5. SandboxTypeOK'
  <2>1. table' \in Contents /\ kept' \in Seq(Contents)
    BY DEF Moved, RowsMove, SameRows, IInv, SandboxTypeOK
  <2> QED BY <1>4, <2>1 DEF Moved, SandboxTypeOK, ConnTyped, Errors
<1>6. ConnOK'
  BY DEF Moved, IInv, ConnOK
<1> QED
  BY <1>5, <1>6

LEMMA MovedKeeps == ASSUME IInv, NEW r \in Runners, Moved(r), UNCHANGED judge PROVE IInv'
<1>1. /\ SandboxTypeOK' /\ ConnOK' /\ RowsMove /\ OnlySelfCommittedStays /\ OnlySelfCommittedStays'
      /\ kept # <<>> => kept' # <<>>
  BY MovedTypes, RowsStay DEF Moved, IInv, RowsMove, SameRows
<1>2. CASE r \notin Judges
  <2>1. \A j \in Judges : conn'[j] = conn[j]
    BY <1>2, WhoRuns DEF JudgesRun, Moved
  <2> QED
    BY <1>1, <2>1, JudgesWait DEF IInv
<1>3. CASE r \in Judges
  <2>1. JudgeOK(r) /\ RunInv(r) /\ PlanInv(r) /\ Accepted(r) /\ FoundInv(r) /\ ExactInv(r)
    BY <1>3 DEF IInv, JudgeInv
  <2>2. JudgeOK(r)'
    BY <2>1 DEF JudgeOK, Moved
  <2>3. judge[r].stage = "executing" /\ judge[r].task \in Tasks
    BY <2>1 DEF JudgeOK, Moved
  <2>4. RunInv(r)'
    <3>1. /\ conn[r].query = judge[r].query /\ conn'[r].query = judge[r].query
          /\ conn[r].dml = IsDml(judge[r].task) /\ conn'[r].dml = IsDml(judge[r].task)
      BY <2>1, <2>3 DEF RunInv, Moved
    <3>2. ASSUME ReferenceRun(r), conn'[r].stage \in {"executed", "returned"}, kept' = <<>>
          PROVE  Answered(judge[r].task, judge[r].query, conn'[r].result)
      <4>1. CASE conn[r].stage = "executed"
        BY <1>1, <2>1, <2>3, <3>2, <4>1 DEF RunInv, Moved
      <4>2. CASE conn[r].stage # "executed"
        <5>1. /\ Arrives(r, conn'[r].result) /\ conn[r].query = ExpectedQuery[judge[r].task]
              /\ kept = <<>>
          BY <1>1, <3>1, <3>2, <4>2 DEF Moved, ReferenceRun
        <5> QED
          BY <1>1, <2>3, <3>1, <5>1, ReferenceAnswers
      <4> QED
        BY <4>1, <4>2 DEF Moved
    <3> QED
      BY <3>1, <3>2 DEF RunInv, ReferenceRun
  <2>5. PlanInv(r)' /\ Accepted(r)'
    BY <1>1, <2>1 DEF PlanInv, Accepted, ReferenceRun
  <2>6. FoundInv(r)'
    <3>1. judge[r].query = conn[r].query /\ judge' = judge
      BY <2>1, <2>3 DEF RunInv
    <3>2. CASE conn[r].stage = "executed"
      BY <2>1, <2>3, <3>1, <3>2 DEF FoundInv, Moved, Results
    <3>3. CASE conn[r].stage # "executed" /\ conn'[r].stage # "committed"
      <4>1. conn'[r].result.success => conn'[r].result \in Results(conn[r].query)
        BY <3>3, SuccessIsFound DEF Moved, IInv
      <4> QED
        BY <3>1, <4>1 DEF FoundInv, Results
    <3>4. CASE conn'[r].stage = "committed"
      BY <3>4 DEF FoundInv
    <3> QED
      BY <3>2, <3>3, <3>4 DEF Moved
  <2>7. ExactInv(r)'
    BY <2>3 DEF ExactInv
  <2> QED
    BY <1>1, <1>3, <2>2, <2>4, <2>5, <2>6, <2>7, OneJudgeMoves DEF JudgeInv, IInv, Moved
<1> QED
  BY <1>2, <1>3

(* The connection of r is opened or closed; the rest of the sandbox rests. *)
LEMMA OpenTypes ==
    ASSUME IInv, NEW r \in Runners, NEW q \in Queries, NEW dml, Execute(r, q, dml)
    PROVE  /\ SandboxTypeOK' /\ DOMAIN conn' = Runners
           /\ \A o \in Runners \ {r} : conn'[o] = conn[o]
           /\ DOMAIN conn'[r] = Fields
           /\ conn'[r].stage = "running" /\ conn'[r].query = q /\ conn'[r].dml = dml
           /\ SameRows
<1> DEFINE c == [Closed EXCEPT !.stage = "running", !.query = q, !.dml = dml]
<1> USE DEF SameRows
<1>1. conn' = [conn EXCEPT ![r] = c] /\ UNCHANGED <<table, bloat, kept, sandboxFaults>>
  BY DEF Execute
<1>2. /\ c.stage = "running" /\ c.query = q /\ c.dml = dml /\ DOMAIN c = Fields
      /\ c.result = Failure("none")
  BY DEF Closed, Fields
<1>3. ConnTyped(c)
  BY <1>2 DEF ConnTyped, Failure, Errors
<1> HIDE DEF c
<1>4. /\ DOMAIN conn' = Runners /\ conn'[r] = c
      /\ \A o \in Runners \ {r} : conn'[o] = conn[o]
  BY <1>1 DEF IInv, ConnOK
<1>5. bloat \in 0..MaxBloat /\ sandboxFaults \in 0..MaxSandboxFaults
      /\ \A o \in Runners : ConnTyped(conn[o])
  BY SandboxTyped DEF IInv
<1>6. \A o \in Runners : ConnTyped(conn'[o])
  BY <1>3, <1>4, <1>5
<1>7. SandboxTypeOK'
  BY <1>1, <1>5, <1>6 DEF IInv, SandboxTypeOK, ConnTyped, Errors
<1> QED
  BY <1>1, <1>2, <1>4, <1>7

LEMMA HandTypes ==
    ASSUME IInv, NEW r \in Runners, Hand(r), UNCHANGED <<table, bloat, kept, sandboxFaults>>
    PROVE  /\ SandboxTypeOK' /\ DOMAIN conn' = Runners
           /\ \A o \in Runners \ {r} : conn'[o] = conn[o]
           /\ DOMAIN conn'[r] = Fields /\ conn'[r].stage = "closed"
<1>1. /\ DOMAIN conn' = Runners /\ conn'[r] = Closed
      /\ \A o \in Runners \ {r} : conn'[o] = conn[o]
  BY DEF Hand, IInv, ConnOK
<1>2. bloat \in 0..MaxBloat /\ sandboxFaults \in 0..MaxSandboxFaults
      /\ \A o \in Runners : ConnTyped(conn[o])
  BY SandboxTyped DEF IInv
<1>3. \A o \in Runners : ConnTyped(conn'[o])
  BY <1>1, <1>2, ClosedTyped
<1>4. SandboxTypeOK'
  BY <1>2, <1>3 DEF IInv, SandboxTypeOK, ConnTyped, Errors
<1> QED
  BY <1>1, <1>4, ClosedTyped

LEMMA BeginKeeps ==
    ASSUME IInv, NEW j \in Judges, NEW t \in Tasks, NEW q \in Queries, Begin(j, t, q)
    PROVE  IInv'
<1>1. j \in Runners /\ JudgeOK(j) /\ judge[j].stage = "idle"
  BY WhoRuns DEF JudgesRun, IInv, JudgeInv, Begin
<1>2. CASE TextVerdict(t, q) # "none"
  <2>1. /\ judge' = [judge EXCEPT ![j] = [Resting EXCEPT !.stage = "judged", !.task = t, !.query = q,
                                             !.outcome = Outcome("incorrect", TextVerdict(t, q))]]
        /\ UNCHANGED sandboxVars
    BY <1>2 DEF Begin
  <2>2. /\ DOMAIN judge' = Judges /\ \A o \in Judges \ {j} : judge'[o] = judge[o]
        /\ DOMAIN judge'[j] = DOMAIN Resting /\ judge'[j].stage = "judged"
        /\ judge'[j].task = t /\ judge'[j].query = q /\ ~judge'[j].ran
    BY <2>1 DEF IInv, Resting
  <2>3. q # ExpectedQuery[t]
    BY <1>2, ReferenceAssumption
  <2>4. conn[j].stage = "closed" /\ conn' = conn
    BY <1>1, <2>1 DEF JudgeOK, sandboxVars
  <2>5. JudgeInv(j)'
    BY <2>2, <2>3, <2>4 DEF JudgeInv, JudgeOK, RunInv, PlanInv, Accepted, FoundInv, ExactInv, ReferenceRun, Stages
  <2>6. SandboxTypeOK' /\ RowsMove
    BY <2>1 DEF IInv, SandboxTypeOK, sandboxVars, RowsMove, SameRows
  <2> QED
    BY <1>1, <2>2, <2>4, <2>5, <2>6, OneJudgeMoves DEF IInv, ConnOK
<1>3. CASE TextVerdict(t, q) = "none"
  <2>1. /\ judge' = [judge EXCEPT ![j] = [Resting EXCEPT !.stage = "executing", !.task = t, !.query = q]]
        /\ Execute(j, q, IsDml(t))
    BY <1>3 DEF Begin
  <2>2. /\ DOMAIN judge' = Judges /\ \A o \in Judges \ {j} : judge'[o] = judge[o]
        /\ DOMAIN judge'[j] = DOMAIN Resting /\ judge'[j].stage = "executing"
        /\ judge'[j].task = t /\ judge'[j].query = q
    BY <2>1 DEF IInv, Resting
  <2>3. /\ SandboxTypeOK' /\ DOMAIN conn' = Runners
        /\ \A o \in Runners \ {j} : conn'[o] = conn[o]
        /\ DOMAIN conn'[j] = Fields
        /\ conn'[j].stage = "running" /\ conn'[j].query = q /\ conn'[j].dml = IsDml(t)
        /\ SameRows
    BY <1>1, <2>1, OpenTypes
  <2>4. JudgeInv(j)'
    BY <2>2, <2>3 DEF JudgeInv, JudgeOK, RunInv, PlanInv, Accepted, FoundInv, ExactInv, ReferenceRun, Stages
  <2> QED
    BY <2>2, <2>3, <2>4, OneJudgeMoves DEF RowsMove
<1> QED
  BY <1>2, <1>3

LEMMA ClassifyKeeps == ASSUME IInv, NEW j \in Judges, Classify(j) PROVE IInv'
<1> DEFINE t       == judge[j].task
           q       == judge[j].query
           result  == conn[j].result
           outcome == ResultVerdict(t, q, result)
<1>1. /\ judge[j].stage = "executing" /\ conn[j].stage = "returned"
      /\ Hand(j)
      /\ judge' = [judge EXCEPT
                     ![j].stage = IF outcome.correct /\ PlanChecked(t) THEN "explaining" ELSE "judged",
                     ![j].outcome = outcome,
                     ![j].ran = result.success,
                     ![j].rows = result.rows,
                     ![j].disturbed = result.error = "connection"]
      /\ UNCHANGED <<table, bloat, kept, sandboxFaults>>
  BY DEF Classify, Stage
<1>2. j \in Runners /\ JudgeOK(j) /\ RunInv(j) /\ FoundInv(j)
  BY WhoRuns DEF JudgesRun, IInv, JudgeInv
<1>3. /\ SandboxTypeOK' /\ DOMAIN conn' = Runners
      /\ \A o \in Runners \ {j} : conn'[o] = conn[o]
      /\ DOMAIN conn'[j] = Fields /\ conn'[j].stage = "closed"
  BY <1>1, <1>2, HandTypes
<1>4. ReferenceRun(j) => kept' # <<>> \/ Answered(t, q, result)
  BY <1>1, <1>2 DEF RunInv
<1> HIDE DEF t, q, result, outcome
<1>5. /\ DOMAIN judge' = Judges /\ \A o \in Judges \ {j} : judge'[o] = judge[o]
      /\ DOMAIN judge'[j] = DOMAIN Resting
      /\ judge'[j].stage = IF outcome.correct /\ PlanChecked(t) THEN "explaining" ELSE "judged"
      /\ judge'[j].task = judge[j].task /\ judge'[j].query = judge[j].query
      /\ judge'[j].outcome = outcome /\ judge'[j].disturbed = (result.error = "connection")
      /\ judge'[j].ran = result.success /\ judge'[j].rows = result.rows
  BY <1>1, <1>2 DEF IInv, JudgeOK, Resting
<1>6. JudgeOK(j)'
  BY <1>1, <1>2, <1>3, <1>5 DEF JudgeOK, Stages
<1>7. RunInv(j)' /\ PlanInv(j)'
  BY <1>5 DEF RunInv, PlanInv
<1>8. Accepted(j)'
  <2> SUFFICES ASSUME ReferenceRun(j)
               PROVE  \/ outcome.correct \/ result.error = "connection" \/ kept' # <<>>
                      \/ outcome.error = "timeout" /\ q \in Writes
    BY <1>5 DEF Accepted, ReferenceRun, q
  <2> QED
    BY <1>4 DEF Answered, ResultVerdict, Outcome, outcome
<1>9. FoundInv(j)'
  BY <1>5 DEF FoundInv
<1>10. ExactInv(j)'
  <2>1. CASE result.success
    <3>1. t \in Tasks /\ q \in Queries /\ result \in Results(q)
      BY <1>1, <1>2, <2>1 DEF JudgeOK, FoundInv, t, q, result
    <3>2. PICK rows \in Contents : result = Success(Output(q, rows))
      BY <3>1 DEF Results
    <3>3. result.rows = Output(q, rows).rows
      BY <3>2 DEF Success
    <3>4. IsResult(result.rows) /\ IsResult(ExpectedResult[t].rows)
      BY <3>1, <3>2, <3>3, ResultAssumption
    <3>5. /\ SameResult(result.rows, ExpectedResult[t].rows, q \in Ordered)
                <=> outcome.error \in Taken
          /\ outcome.correct => outcome.error \in Taken
      BY <2>1, <3>4, VerdictIsExact DEF outcome
    <3> QED
      BY <1>5, <3>5 DEF ExactInv, t, q
  <2>2. CASE ~result.success
    <3>1. ~outcome.correct
      BY <2>2, OutcomeIs DEF ResultVerdict, outcome
    <3> QED
      BY <1>5, <2>2, <3>1 DEF ExactInv
  <2> QED
    BY <2>1, <2>2
<1> QED
  BY <1>1, <1>3, <1>5, <1>6, <1>7, <1>8, <1>9, <1>10, OneJudgeMoves DEF JudgeInv, RowsMove, SameRows

(* A judge goes on without its connection.                                 *)
LEMMA JudgeAlone ==
    ASSUME IInv, NEW j \in Judges, RowsMove, UNCHANGED <<bloat, conn>>,
           sandboxFaults' \in 0..MaxSandboxFaults,
           DOMAIN judge' = Judges, \A o \in Judges \ {j} : judge'[o] = judge[o], JudgeInv(j)'
    PROVE  IInv'
<1>1. j \in Runners
  BY WhoRuns DEF JudgesRun
<1>2. SandboxTypeOK'
  <2>1. table' \in Contents /\ kept' \in Seq(Contents)
    BY DEF RowsMove, SameRows, IInv, SandboxTypeOK
  <2> QED BY <2>1 DEF IInv, SandboxTypeOK
<1> QED
  BY <1>1, <1>2, OneJudgeMoves DEF IInv, ConnOK

LEMMA FaultsBounded ==
    ASSUME IInv
    PROVE  /\ sandboxFaults \in 0..MaxSandboxFaults
           /\ sandboxFaults < MaxSandboxFaults => sandboxFaults + 1 \in 0..MaxSandboxFaults
<1>1. MaxSandboxFaults \in Nat
  BY SandboxAssumption
<1> QED
  BY <1>1 DEF IInv, SandboxTypeOK

LEMMA ExplainKeeps ==
    ASSUME IInv, NEW j \in Judges, ExplainSubmitted(j) \/ ExplainReference(j) \/ ExplainFails(j)
    PROVE  IInv'
<1> DEFINE reference == Plan(ExpectedQuery[judge[j].task], bloat)
<1>1. JudgeOK(j) /\ PlanInv(j) /\ ExactInv(j)
  BY DEF IInv, JudgeInv
<1>2. conn[j].stage = "closed" /\ judge[j].stage \in {"explaining", "comparing"}
  BY <1>1 DEF JudgeOK, ExplainSubmitted, ExplainReference, ExplainFails
<1>3. CASE ExplainSubmitted(j)
  <2>1. /\ judge' = [judge EXCEPT ![j].stage = "comparing",
                                  ![j].plan = Plan(judge[j].query, bloat),
                                  ![j].seenBloat = bloat]
        /\ UNCHANGED <<bloat, conn, sandboxFaults>> /\ RowsMove
    <3>1. CASE judge[j].query \in (Writes \cap TakesRole) \ (Broken \cup Endless)
      BY <1>3, <3>1, EffectKept DEF ExplainSubmitted, RowsMove, IInv
    <3>2. CASE judge[j].query \notin (Writes \cap TakesRole) \ (Broken \cup Endless)
      BY <1>3, <3>2 DEF ExplainSubmitted, RowsMove, SameRows
    <3> QED
      BY <3>1, <3>2
  <2>2. /\ DOMAIN judge' = Judges /\ \A o \in Judges \ {j} : judge'[o] = judge[o]
        /\ DOMAIN judge'[j] = DOMAIN Resting /\ judge'[j].stage = "comparing"
        /\ judge'[j].task = judge[j].task /\ judge'[j].query = judge[j].query
        /\ judge'[j].outcome = judge[j].outcome
        /\ judge'[j].ran = judge[j].ran /\ judge'[j].rows = judge[j].rows
        /\ judge'[j].plan = Plan(judge[j].query, bloat) /\ judge'[j].seenBloat = bloat
    BY <1>1, <2>1 DEF IInv, JudgeOK, Resting
  <2>3. JudgeInv(j)'
    BY <1>1, <1>2, <2>1, <2>2
       DEF JudgeInv, JudgeOK, RunInv, PlanInv, Accepted, FoundInv, ExactInv, Stages, sandboxVars
  <2> QED
    BY <2>1, <2>2, <2>3, JudgeAlone, FaultsBounded
<1>4. CASE ExplainReference(j)
  <2>1. /\ judge[j].stage = "comparing"
        /\ judge' = [judge EXCEPT
                       ![j].stage = "judged",
                       ![j].moved = judge[j].seenBloat # bloat,
                       ![j].outcome = IF judge[j].plan = reference THEN @
                                      ELSE Outcome("incorrect", "plan_mismatch")]
        /\ UNCHANGED sandboxVars
    BY <1>4 DEF ExplainReference
  <2>2. /\ DOMAIN judge' = Judges /\ \A o \in Judges \ {j} : judge'[o] = judge[o]
        /\ DOMAIN judge'[j] = DOMAIN Resting /\ judge'[j].stage = "judged"
        /\ judge'[j].task = judge[j].task /\ judge'[j].query = judge[j].query
        /\ judge'[j].moved = (judge[j].seenBloat # bloat)
        /\ judge'[j].ran = judge[j].ran /\ judge'[j].rows = judge[j].rows
        /\ judge'[j].outcome = IF judge[j].plan = reference THEN judge[j].outcome
                               ELSE Outcome("incorrect", "plan_mismatch")
    BY <1>1, <2>1 DEF IInv, JudgeOK, Resting
  <2>3. judge[j].outcome.correct /\ judge[j].plan = Plan(judge[j].query, judge[j].seenBloat)
    BY <1>1, <2>1 DEF JudgeOK, PlanInv
  <2>4. Accepted(j)'
    <3>1. CASE judge[j].plan = reference
      BY <2>2, <2>3, <3>1 DEF Accepted
    <3>2. CASE judge[j].plan # reference
      <4>1. judge'[j].outcome.error = "plan_mismatch"
        BY <2>2, <3>2 DEF Outcome
      <4>2. ReferenceRun(j) => judge[j].seenBloat # bloat
        BY <2>3, <3>2 DEF ReferenceRun
      <4> QED
        BY <2>2, <4>1, <4>2 DEF Accepted, ReferenceRun
    <3> QED
      BY <3>1, <3>2
  <2>5. JudgeOK(j)' /\ RunInv(j)' /\ PlanInv(j)' /\ FoundInv(j)'
    BY <1>1, <1>2, <2>1, <2>2 DEF JudgeOK, RunInv, PlanInv, FoundInv, Stages, sandboxVars
  <2>6. ExactInv(j)'
    <3>1. judge[j].outcome.error \in Taken
      BY <1>1, <1>2 DEF ExactInv
    <3>2. judge'[j].outcome.error \in Taken
      BY <2>2, <3>1, OutcomeIs DEF Taken
    <3> QED
      BY <1>1, <1>2, <2>2, <3>1, <3>2 DEF ExactInv
  <2> QED
    BY <2>1, <2>2, <2>4, <2>5, <2>6, JudgeAlone, FaultsBounded DEF sandboxVars, RowsMove, SameRows, JudgeInv
<1>5. CASE ExplainFails(j)
  <2>1. /\ judge' = [judge EXCEPT ![j].stage = "judged",
                                  ![j].outcome = Outcome("incorrect", "plan_unavailable"),
                                  ![j].disturbed = TRUE]
        /\ UNCHANGED <<table, bloat, conn, kept>>
        /\ sandboxFaults < MaxSandboxFaults /\ sandboxFaults' = sandboxFaults + 1
    BY <1>5 DEF ExplainFails
  <2>2. /\ DOMAIN judge' = Judges /\ \A o \in Judges \ {j} : judge'[o] = judge[o]
        /\ DOMAIN judge'[j] = DOMAIN Resting /\ judge'[j].stage = "judged"
        /\ judge'[j].task = judge[j].task /\ judge'[j].query = judge[j].query
        /\ judge'[j].disturbed = TRUE
        /\ judge'[j].ran = judge[j].ran /\ judge'[j].rows = judge[j].rows
        /\ judge'[j].outcome.error = "plan_unavailable"
    BY <1>1, <2>1, OutcomeIs DEF IInv, JudgeOK, Resting
  <2>3. ExactInv(j)'
    <3>1. judge[j].outcome.error \in Taken /\ judge'[j].outcome.error \in Taken
      BY <1>1, <1>2, <2>2 DEF ExactInv, Taken
    <3> QED
      BY <1>1, <1>2, <2>2, <3>1 DEF ExactInv
  <2>4. JudgeOK(j)' /\ RunInv(j)' /\ PlanInv(j)' /\ FoundInv(j)' /\ Accepted(j)'
    BY <1>1, <1>2, <2>1, <2>2 DEF JudgeOK, RunInv, PlanInv, Accepted, FoundInv, Stages
  <2> QED
    BY <2>1, <2>2, <2>3, <2>4, JudgeAlone, FaultsBounded DEF JudgeInv, RowsMove, SameRows
<1> QED
  BY <1>3, <1>4, <1>5

LEMMA ConcludeKeeps ==
    ASSUME IInv, NEW j \in Judges, Conclude(j) \/ (j = Evaluator /\ Persist)
    PROVE  IInv'
<1>1. JudgeOK(j) /\ conn[j].stage = "closed"
  BY DEF IInv, JudgeInv, JudgeOK, Conclude, Persist
<1>2. CASE Conclude(j)
  <2>1. judge' = [judge EXCEPT ![j] = Resting] /\ UNCHANGED sandboxVars
    BY <1>2 DEF Conclude
  <2>2. /\ DOMAIN judge' = Judges /\ \A o \in Judges \ {j} : judge'[o] = judge[o]
        /\ judge'[j] = Resting /\ Resting.stage = "idle"
    BY <2>1 DEF IInv, Resting
  <2>3. JudgeInv(j)'
    BY <1>1, <2>1, <2>2 DEF JudgeInv, JudgeOK, RunInv, PlanInv, Accepted, FoundInv, ExactInv, Stages, sandboxVars
  <2> QED
    BY <2>1, <2>2, <2>3, JudgeAlone, FaultsBounded DEF sandboxVars, RowsMove, SameRows
<1>3. CASE j = Evaluator /\ Persist
  <2>1. /\ judge' = [judge EXCEPT ![j].stage = "persisted", ![j].rows = <<>>]
        /\ judge[j].stage = "judged" /\ UNCHANGED sandboxVars
    BY <1>3 DEF Persist
  <2>2. /\ DOMAIN judge' = Judges /\ \A o \in Judges \ {j} : judge'[o] = judge[o]
        /\ DOMAIN judge'[j] = DOMAIN Resting /\ judge'[j].stage = "persisted"
        /\ judge'[j].task = judge[j].task /\ judge'[j].query = judge[j].query
    BY <1>1, <2>1 DEF IInv, JudgeOK, Resting
  <2>3. JudgeInv(j)'
    BY <1>1, <2>1, <2>2 DEF JudgeInv, JudgeOK, RunInv, PlanInv, Accepted, FoundInv, ExactInv, Stages, sandboxVars
  <2> QED
    BY <2>1, <2>2, <2>3, JudgeAlone, FaultsBounded DEF sandboxVars, RowsMove, SameRows
<1> QED
  BY <1>2, <1>3

(* The route's own connection, which no judge uses.                        *)
LEMMA RouteKeeps ==
    ASSUME IInv, (\E q \in RunQueries : PostRun(q)) \/ RunAnswered
    PROVE  IInv'
<1>1. Route \in Runners /\ Route \notin Judges /\ Judges \subseteq Runners
  BY WhoRuns DEF JudgesRun
<1>2. /\ SandboxTypeOK' /\ DOMAIN conn' = Runners
      /\ \A o \in Runners \ {Route} : conn'[o] = conn[o]
      /\ DOMAIN conn'[Route] = Fields /\ SameRows /\ judge' = judge
  <2>1. CASE \E q \in RunQueries : PostRun(q)
    BY <1>1, <2>1, OpenTypes, JudgingAssumption DEF PostRun
  <2>2. CASE RunAnswered
    BY <1>1, <2>2, HandTypes DEF RunAnswered, SameRows
  <2> QED
    BY <2>1, <2>2
<1>3. ConnOK' /\ OnlySelfCommittedStays' /\ kept' = kept
  BY <1>2 DEF IInv, ConnOK, OnlySelfCommittedStays, SameRows
<1> QED
  BY <1>1, <1>2, <1>3, JudgesWait DEF IInv

LEMMA DatabaseKeeps == ASSUME IInv, Database PROVE IInv'
<1>1. conn' = conn /\ judge' = judge /\ bloat' = 0 /\ sandboxFaults' = sandboxFaults
  BY DEF Database, Vacuum, Rewrite
<1>2. OnlySelfCommittedStays' /\ table' \in Contents /\ kept' = kept
  BY RewriteRows DEF Database, Vacuum, IInv, OnlySelfCommittedStays, SandboxTypeOK
<1>3. 0 \in 0..MaxBloat
  BY SandboxAssumption
<1>4. SandboxTypeOK' /\ ConnOK'
  BY <1>1, <1>2, <1>3 DEF IInv, SandboxTypeOK, ConnOK
<1> QED
  BY <1>1, <1>2, <1>4, JudgesWait DEF IInv

LEMMA InitOK == Init => IInv
<1> SUFFICES ASSUME Init PROVE IInv
  OBVIOUS
<1>1. /\ DOMAIN conn = Runners /\ \A r \in Runners : conn[r] = Closed
      /\ DOMAIN judge = Judges /\ \A j \in Judges : judge[j] = Resting
      /\ bloat = 0 /\ sandboxFaults = 0 /\ kept = <<>> /\ table = Seeded
  BY DEF Init, SandboxInit
<1>2. 0 \in 0..MaxBloat /\ 0 \in 0..MaxSandboxFaults
  BY SandboxAssumption
<1>3. ConnOK /\ SandboxTypeOK
  BY <1>1, <1>2, ClosedTyped, ContentsAssumption DEF ConnOK, SandboxTypeOK, ConnTyped, Errors
<1>4. ASSUME NEW j \in Judges PROVE JudgeInv(j)
  <2>1. judge[j] = Resting /\ Resting.stage = "idle" /\ conn[j].stage = "closed"
    BY <1>1, WhoRuns, ClosedTyped DEF JudgesRun, Resting
  <2> QED
    BY <2>1 DEF JudgeInv, JudgeOK, RunInv, PlanInv, Accepted, FoundInv, ExactInv, Stages
<1> QED
  BY <1>1, <1>3, <1>4, InitRows DEF IInv

LEMMA NextOK == ASSUME IInv, [Next]_vars PROVE IInv'
<1>1. CASE \E s \in Submissions : Begin(Evaluator, s[1], s[2])
  BY <1>1, BeginKeeps, JudgingAssumption DEF Judges
<1>2. CASE \E t \in Tasks : Begin(Sweep, t, ExpectedQuery[t])
  BY <1>2, BeginKeeps, ReferenceAssumption DEF Judges
<1>3. CASE (\E q \in RunQueries : PostRun(q)) \/ RunAnswered
  BY <1>3, RouteKeeps
<1>4. ASSUME NEW r \in Runners, RunnerStep(r) \/ ConnectionLost(r), UNCHANGED judge PROVE IInv'
  BY <1>4, RunnerMoves, MovedKeeps DEF IInv
<1>5. CASE \E j \in Judges : JudgeStep(j)
  BY <1>4, <1>5, WhoRuns, ClassifyKeeps, ExplainKeeps, ConcludeKeeps DEF JudgeStep, JudgesRun
<1>6. CASE RouteStep
  BY <1>3, <1>4, <1>6, WhoRuns DEF RouteStep, JudgesRun
<1>7. CASE Trouble
  BY <1>4, <1>7, ExplainKeeps DEF Trouble
<1>8. CASE Database
  BY <1>8, DatabaseKeeps
<1>9. CASE UNCHANGED vars
  <2>1. UNCHANGED <<table, bloat, conn, kept, sandboxFaults, judge>>
    BY <1>9 DEF vars, sandboxVars
  <2>2. ConnOK' /\ SandboxTypeOK' /\ OnlySelfCommittedStays'
    BY <2>1 DEF IInv, ConnOK, SandboxTypeOK, OnlySelfCommittedStays
  <2> QED
    BY <2>1, <2>2, JudgesWait DEF IInv
<1> QED
  BY <1>1, <1>2, <1>3, <1>5, <1>6, <1>7, <1>8, <1>9 DEF Next

LEMMA AlwaysOK == Spec => []IInv
BY InitOK, NextOK, PTL DEF Spec

(* Every variable keeps its type: a judge has a connection exactly while   *)
(* it executes, and plans are compared for correct results only.           *)
THEOREM TypesAreKept == Spec => []TypeOK
<1>1. IInv => TypeOK
  BY DEF IInv, JudgeInv, JudgeOK, Stages, Stage, TypeOK
<1> QED BY <1>1, AlwaysOK, PTL

(* Whatever is written, broken off, lost or refused, by whomever and at    *)
(* the same time as whatever else: nothing stays that no text committed    *)
(* for itself, neither before such a text nor after it.                    *)
THEOREM NothingStays == Spec => []OnlySelfCommittedStays
<1>1. IInv => OnlySelfCommittedStays
  BY DEF IInv
<1> QED BY <1>1, AlwaysOK, PTL

(* A reference query that agrees with its expected result by itself is     *)
(* accepted next to any other work, unless a text has committed changes    *)
(* for itself, a connection was lost, a lock outlasted the timeout or the  *)
(* dead rows moved between the two plans.                                  *)
THEOREM ReferencesAreAccepted == Spec => []ReferenceIsAccepted
<1>1. IInv => ReferenceIsAccepted
  BY DEF IInv, JudgeInv, Accepted, ReferenceRun, Judged, ReferenceIsAccepted
<1> QED BY <1>1, AlwaysOK, PTL

(* A statement that ran is taken for correct (up to its plan) exactly when *)
(* its rows correspond one to one to the expected ones, in their order if  *)
(* the query sorts: the greedy comparison neither invents nor misses a     *)
(* correspondence, whatever duplicates and numbers as text there are.      *)
THEOREM AcceptedAreTheSame == Spec => []AcceptedMeansSameResult
<1>1. IInv => AcceptedMeansSameResult
  BY DEF IInv, JudgeInv, ExactInv, Taken, Judged, AcceptedMeansSameResult
<1> QED BY <1>1, AlwaysOK, PTL
===============================================================================
