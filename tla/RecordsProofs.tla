---------------------------- MODULE RecordsProofs ----------------------------
(***************************************************************************)
(* The record of attempts, for any number of calls and any limit on        *)
(* retries, any students, tasks and concepts.  The writer: the attempts of *)
(* a pair stay densely numbered, and a call gives up only under a race.    *)
(* Rows are never deleted by Spec, so a refused insert means that the      *)
(* count has grown since; that is what SeenInv adds up.  The first reader: *)
(* the page of concepts agrees with itself, which needs nothing of the     *)
(* history but that only tasks of the table are switched on, and of the    *)
(* order in which a task is chosen that it is total.  The second: who      *)
(* turns the pages of a list misses nothing, because commits and rewards   *)
(* only move rows back, and a list that is again as it was never changed.  *)
(***************************************************************************)
EXTENDS Records, SumProofs

(* What a call may still do bounds its refused inserts; only a stored call *)
(* owns a row.                                                             *)
SeenInv ==
    \A w \in Writers :
        /\ stage[w] \in {"count", "insert"} => tries[w] < MaxRetries
        /\ stage[w] = "insert" => /\ before[w] + tries[w] <= seen[w]
                                  /\ seen[w] <= Cardinality(RowsOf(pair[w]))
        /\ stage[w] = "count" /\ tries[w] > 0 =>
              before[w] + tries[w] <= Cardinality(RowsOf(pair[w]))
        /\ stage[w] = "retries_exceeded" =>
              before[w] + MaxRetries <= Cardinality(RowsOf(pair[w]))

OwnersStored == \A r \in attempts : stage[r.by] = "stored"

IInv == TypeOK /\ IsFiniteSet(attempts) /\ DenseNumbers /\ SeenInv /\ OwnersStored

LEMMA RowsFinite ==
    ASSUME IsFiniteSet(attempts), NEW p
    PROVE  IsFiniteSet(RowsOf(p)) /\ Cardinality(RowsOf(p)) \in Nat
BY FS_Subset, FS_CardinalityType DEF RowsOf

LEMMA InitInv == Init => IInv
<1> SUFFICES ASSUME Init PROVE IInv
  OBVIOUS
<1>1. TypeOK
  BY NumbersAssumption DEF Init, TypeOK, Stages
<1>2. \A p \in Pairs : RowsOf(p) = {} /\ Numbers(p) = {}
  BY DEF Init, RowsOf, Numbers
<1>3. DenseNumbers
  <2>1. Cardinality({}) = 0 /\ 1..0 = {}
    BY FS_EmptySet
  <2> QED BY <1>2, <2>1 DEF DenseNumbers
<1>4. SeenInv
  BY NumbersAssumption DEF Init, SeenInv
<1> QED BY <1>1, <1>3, <1>4, FS_EmptySet DEF IInv, OwnersStored, Init

(* The one step that changes the table: the free number is the next one.   *)
LEMMA InsertRow ==
    ASSUME IInv, NEW w \in Writers, Insert(w)
    PROVE  /\ attempts' \subseteq Row /\ IsFiniteSet(attempts')
           /\ DenseNumbers'
           /\ \A r \in attempts' \ attempts : r.by = w
           /\ \A p \in Pairs : Cardinality(RowsOf(p)) <= Cardinality(RowsOf(p)')
<1>p. PICK p \in Pairs : p = pair[w]
  BY DEF IInv, TypeOK
<1>n. PICK n \in Nat : n = Cardinality(RowsOf(p))
  BY RowsFinite DEF IInv
<1>1. seen[w] \in Nat /\ seen[w] <= n
  BY <1>p, <1>n DEF IInv, TypeOK, SeenInv, Insert
<1>2. seen[w] = n
  BY <1>p, <1>n, <1>1 DEF Insert, IInv, DenseNumbers
<1> DEFINE row == [pair |-> p, number |-> n + 1, by |-> w]
<1>3. attempts' = attempts \cup {row}
  BY <1>p, <1>2 DEF Insert
<1>4. row \in Row
  BY DEF Row
<1>5. RowsOf(p)' = RowsOf(p) \cup {row} /\ row \notin RowsOf(p)
  <2>1. row.number \notin Numbers(p)
    BY <1>p, <1>2 DEF Insert
  <2> QED BY <1>3, <2>1 DEF RowsOf, Numbers
<1>6. \A q \in Pairs : q # p => RowsOf(q)' = RowsOf(q)
  BY <1>3 DEF RowsOf
<1>7. Cardinality(RowsOf(p)') = n + 1
  BY <1>n, <1>5, RowsFinite, FS_AddElement DEF IInv
<1>8. DenseNumbers'
  <2> SUFFICES ASSUME NEW q \in Pairs
               PROVE  /\ Numbers(q)' = 1..Cardinality(RowsOf(q)')
                      /\ \A r, s \in RowsOf(q)' : r.number = s.number => r = s
    BY DEF DenseNumbers
  <2>1. CASE q # p
    BY <2>1, <1>6 DEF IInv, DenseNumbers, Numbers
  <2>2. CASE q = p
    <3>1. Numbers(p)' = Numbers(p) \cup {n + 1}
      BY <1>5 DEF Numbers
    <3>2. Numbers(p)' = 1..(n + 1)
      BY <3>1, <1>n DEF IInv, DenseNumbers
    <3>3. \A r \in RowsOf(p) : r.number # row.number
      BY <1>n DEF IInv, DenseNumbers, Numbers
    <3>4. \A r, s \in RowsOf(p)' : r.number = s.number => r = s
      BY <1>5, <3>3 DEF IInv, DenseNumbers
    <3> QED BY <2>2, <3>2, <3>4, <1>7
  <2> QED BY <2>1, <2>2
<1>9. \A q \in Pairs : Cardinality(RowsOf(q)) <= Cardinality(RowsOf(q)')
  BY <1>n, <1>6, <1>7, RowsFinite DEF IInv
<1>10. attempts' \subseteq Row /\ IsFiniteSet(attempts')
  BY <1>3, <1>4, FS_AddElement DEF IInv, TypeOK
<1>11. \A r \in attempts' \ attempts : r.by = w
  BY <1>3
<1> QED BY <1>8, <1>9, <1>10, <1>11

LEMMA NextInv == IInv /\ [Next]_vars => IInv'
<1> SUFFICES ASSUME IInv, [Next]_vars PROVE IInv'
  OBVIOUS
<1> USE NumbersAssumption
<1>c. \A p \in Pairs : Cardinality(RowsOf(p)) \in Nat
  BY RowsFinite DEF IInv
<1>1. ASSUME UNCHANGED vars PROVE IInv'
  BY <1>1 DEF IInv, TypeOK, DenseNumbers, SeenInv, OwnersStored, RowsOf, Numbers, vars
<1>2. ASSUME NEW w \in Writers, Insert(w) PROVE IInv'
  <2>1. TypeOK'
    BY <1>2, InsertRow DEF Insert, IInv, TypeOK, Stages, Ended
  <2>2. SeenInv'
    <3> SUFFICES ASSUME NEW v \in Writers
                 PROVE  /\ stage'[v] \in {"count", "insert"} => tries[v] < MaxRetries
                        /\ stage'[v] = "insert" =>
                              /\ before[v] + tries[v] <= seen[v]
                              /\ seen[v] <= Cardinality(RowsOf(pair[v])')
                        /\ stage'[v] = "count" /\ tries[v] > 0 =>
                              before[v] + tries[v] <= Cardinality(RowsOf(pair[v])')
                        /\ stage'[v] = "retries_exceeded" =>
                              before[v] + MaxRetries <= Cardinality(RowsOf(pair[v])')
      BY <1>2 DEF SeenInv, Insert, RowsOf
    <3>1. /\ Cardinality(RowsOf(pair[v])) \in Nat
          /\ Cardinality(RowsOf(pair[v])) <= Cardinality(RowsOf(pair[v])')
      BY <1>2, <1>c, InsertRow DEF IInv, TypeOK, Insert, RowsOf
    <3>2. Cardinality(RowsOf(pair[v])') \in Nat
      BY <1>2, InsertRow, FS_Subset, FS_CardinalityType DEF RowsOf
    <3>3. stage'[v] = IF v = w THEN "stored" ELSE stage[v]
      BY <1>2 DEF Insert, IInv, TypeOK
    <3> QED BY <3>1, <3>2, <3>3 DEF IInv, TypeOK, SeenInv
  <2>3. OwnersStored'
    BY <1>2, InsertRow DEF Insert, IInv, TypeOK, OwnersStored, Row
  <2> QED BY <1>2, <2>1, <2>2, <2>3, InsertRow DEF IInv
<1>3. ASSUME NEW w \in Writers, Count(w) \/ Conflict(w) \/ OtherError(w) PROVE IInv'
  <2>1. attempts' = attempts /\ pair' = pair
    BY <1>3 DEF Count, Conflict, OtherError
  <2>2. /\ \A p : RowsOf(p)' = RowsOf(p)
        /\ IsFiniteSet(attempts') /\ DenseNumbers'
    BY <2>1 DEF IInv, DenseNumbers, RowsOf, Numbers
  <2>3. stage[w] \in {"count", "insert"}
    BY <1>3 DEF Count, Conflict, OtherError
  <2>4. OwnersStored'
    BY <1>3, <2>1, <2>3 DEF Count, Conflict, OtherError, IInv, TypeOK, OwnersStored, Row
  <2>5. CASE Count(w)
    <3>1. CountAttempts(w) = Cardinality(RowsOf(pair[w])) /\ CountAttempts(w) \in Nat
      BY <1>c DEF CountAttempts, IInv, TypeOK
    <3>2. TypeOK'
      BY <2>5, <3>1 DEF Count, IInv, TypeOK, Stages
    <3>3. SeenInv'
      BY <2>5, <2>2, <3>1, <1>c DEF Count, IInv, TypeOK, SeenInv
    <3> QED BY <3>2, <3>3, <2>2, <2>4 DEF IInv
  <2>6. CASE Conflict(w)
    <3>1. seen[w] + 1 \in 1..Cardinality(RowsOf(pair[w]))
      BY <2>6 DEF Conflict, IInv, TypeOK, DenseNumbers
    <3>2. tries[w] < MaxRetries /\ tries[w] \in Nat /\ before[w] + tries[w] <= seen[w]
      BY <2>6 DEF Conflict, IInv, TypeOK, SeenInv
    <3>3. TypeOK'
      BY <2>6, <3>2 DEF Conflict, IInv, TypeOK, Stages, Ended
    <3>4. SeenInv'
      BY <2>6, <2>2, <3>1, <3>2, <1>c DEF Conflict, IInv, TypeOK, SeenInv
    <3> QED BY <3>3, <3>4, <2>2, <2>4 DEF IInv
  <2>7. CASE OtherError(w)
    <3>1. TypeOK'
      BY <2>7 DEF OtherError, IInv, TypeOK, Stages, Ended
    <3>2. SeenInv'
      BY <2>7, <2>2, <1>c DEF OtherError, IInv, TypeOK, SeenInv
    <3> QED BY <3>1, <3>2, <2>2, <2>4 DEF IInv
  <2> QED BY <1>3, <2>5, <2>6, <2>7
<1> QED BY <1>1, <1>2, <1>3 DEF Next, PersistAttempt

LEMMA RaceInv == IInv => FailureNeedsRace
<1> SUFFICES ASSUME IInv, NEW w \in Writers, stage[w] = "retries_exceeded"
             PROVE  Cardinality({r \in RowsOf(pair[w]) : r.by # w}) >= before[w] + MaxRetries
  BY DEF FailureNeedsRace
<1>1. {r \in RowsOf(pair[w]) : r.by # w} = RowsOf(pair[w])
  BY DEF IInv, OwnersStored, RowsOf
<1>2. before[w] + MaxRetries <= Cardinality(RowsOf(pair[w]))
  BY DEF IInv, SeenInv
<1> QED BY <1>1, <1>2, NumbersAssumption, RowsFinite DEF IInv, TypeOK

(* The numbers of a pair's attempts are 1, 2, 3, ... whatever the          *)
(* interleaving of the calls: the count is not protected by a lock, only   *)
(* the insert by the unique constraint.                                    *)
THEOREM NumbersStayDense == Spec => []DenseNumbers
<1>1. IInv => DenseNumbers
  BY DEF IInv
<1> QED BY InitInv, NextInv, <1>1, PTL DEF Spec

(* A call that raises RuntimeError lost MaxRetries races; with fewer than  *)
(* MaxRetries other calls none does.                                       *)
THEOREM GivesUpOnlyInARace == Spec => []FailureNeedsRace
<1> QED BY InitInv, NextInv, RaceInv, PTL DEF Spec

(* The stages, counts and rows of all calls stay of their kinds; a row has *)
(* a number from 1 whoever wrote it and whenever.                          *)
THEOREM TypesAreKept == Spec => []TypeOK
<1>1. IInv => TypeOK
  BY DEF IInv
<1> QED BY InitInv, NextInv, <1>1, PTL DEF Spec

-----------------------------------------------------------------------------
(* The page of concepts.                                                   *)

(* ORDER BY difficulty, id leaves one task at the head.                    *)
LEMMA OneIsEasiest ==
    ASSUME NEW T, T \subseteq Exercises, T # {}
    PROVE  \E e \in T : {f \in T : \A g \in T : Easier(f, g)} = {e}
<1>1. \A e \in T : Grade[e] \in Nat /\ e \in Nat
  BY PageAssumption
<1>2. PICK g \in {Grade[e] : e \in T} : \A h \in {Grade[e] : e \in T} : g <= h
  <2>1. {Grade[e] : e \in T} \subseteq Nat /\ {Grade[e] : e \in T} # {}
    BY <1>1
  <2> QED BY <2>1, LeastNat
<1>3. g \in Nat /\ \A f \in T : g <= Grade[f]
  BY <1>1, <1>2
<1>4. PICK e \in {f \in T : Grade[f] = g} : \A f \in {f \in T : Grade[f] = g} : e <= f
  <2>1. {f \in T : Grade[f] = g} \subseteq Nat /\ {f \in T : Grade[f] = g} # {}
    BY <1>1, <1>2
  <2> QED BY <2>1, LeastNat
<1>5. \A f \in T : Easier(e, f)
  BY <1>1, <1>3, <1>4 DEF Easier
<1>6. \A f \in T : Easier(f, e) => f = e
  BY <1>1, <1>3, <1>4 DEF Easier
<1> QED BY <1>4, <1>5, <1>6

PageInv == open \subseteq Exercises

LEMMA PageInvAgrees == PageInv => PageAgrees
<1> SUFFICES ASSUME PageInv, NEW u \in Students, NEW c \in Subjects
             PROVE  LET entry == TaskForConcept(u, c)
                    IN  /\ Cardinality(entry.tasks) = IF PrimaryTaskCount(c) > 0 THEN 1 ELSE 0
                        /\ \A e \in entry.tasks :
                              TaskDetail(u, e) = [found |-> TRUE, solved |-> entry.repeat]
                        /\ <<u, c>> \in skilled =>
                              /\ SolvedTaskCount(u, c) <= PrimaryTaskCount(c)
                              /\ entry.repeat <=> SolvedTaskCount(u, c) = PrimaryTaskCount(c)
  BY DEF PageAgrees
<1>o. PICK O : O = Offered(c)
  OBVIOUS
<1>s. PICK S : S = SolvedBy(u)
  OBVIOUS
<1>n. PICK N : N = IF O \ S = {} THEN O ELSE O \ S
  OBVIOUS
<1>t. PICK T : T = {e \in N : \A f \in N : Easier(e, f)}
  OBVIOUS
<1>1. TaskForConcept(u, c) = [repeat |-> O \ S = {}, tasks |-> T]
  BY <1>o, <1>s, <1>n, <1>t DEF TaskForConcept
<1>2. O \subseteq Exercises /\ O \subseteq open /\ IsFiniteSet(O)
  <2>1. O \subseteq Exercises /\ O \subseteq open
    BY <1>o DEF Offered, PageInv
  <2> QED BY <2>1, PageAssumption, FS_Subset
<1>3. Cardinality(O) \in Nat /\ (Cardinality(O) = 0 <=> O = {})
  BY <1>2, FS_CardinalityType, FS_EmptySet
<1>4. N \subseteq O /\ T \subseteq N /\ (N = {} <=> O = {})
  BY <1>n, <1>t
<1>5. Cardinality(T) = IF O # {} THEN 1 ELSE 0
  <2>1. CASE O = {}
    BY <1>4, <2>1, FS_EmptySet
  <2>2. CASE O # {}
    <3>1. \E e \in N : T = {e}
      BY <1>2, <1>4, <1>t, <2>2, OneIsEasiest
    <3> QED BY <2>2, <3>1, FS_Singleton
  <2> QED BY <2>1, <2>2
<1>6. \A e \in T : TaskDetail(u, e) = [found |-> TRUE, solved |-> O \ S = {}]
  <2> TAKE e \in T
  <2>1. (e \in open) = TRUE
    BY <1>2, <1>4
  <2>2. (e \in SolvedBy(u)) = (O \ S = {})
    BY <1>s, <1>4, <1>n
  <2> QED BY <2>1, <2>2 DEF TaskDetail
<1>7. SolvedTaskCount(u, c) = Cardinality(O \cap S)
  <2>1. {e \in SolvedBy(u) \cap open : PrimaryOf[e] = c} = O \cap S
    BY <1>o, <1>s DEF Offered
  <2> QED BY <2>1 DEF SolvedTaskCount
<1>8. /\ Cardinality(O \cap S) <= Cardinality(O)
      /\ O \ S = {} <=> Cardinality(O \cap S) = Cardinality(O)
  <2>1. /\ Cardinality(O \cap S) <= Cardinality(O)
        /\ Cardinality(O) = Cardinality(O \cap S) => O = O \cap S
    BY <1>2, FS_Subset
  <2>2. O \ S = {} => O \cap S = O
    OBVIOUS
  <2> QED BY <2>1, <2>2
<1>9. PrimaryTaskCount(c) = Cardinality(O)
  BY <1>o DEF PrimaryTaskCount
<1>e. PICK entry : entry = TaskForConcept(u, c)
  OBVIOUS
<1>10. entry.tasks = T /\ entry.repeat = (O \ S = {})
  BY <1>1, <1>e
<1>11. Cardinality(entry.tasks) = IF PrimaryTaskCount(c) > 0 THEN 1 ELSE 0
  BY <1>3, <1>5, <1>9, <1>10
<1>12. \A e \in entry.tasks : TaskDetail(u, e) = [found |-> TRUE, solved |-> entry.repeat]
  BY <1>6, <1>10
<1>13. SolvedTaskCount(u, c) <= PrimaryTaskCount(c)
  BY <1>7, <1>8, <1>9
<1>14. entry.repeat <=> SolvedTaskCount(u, c) = PrimaryTaskCount(c)
  BY <1>7, <1>8, <1>9, <1>10
<1> QED BY <1>e, <1>11, <1>12, <1>13, <1>14

LEMMA PageInvKept == PageInv /\ [PageNext]_pageVars => PageInv'
BY DEF PageInv, PageNext, pageVars, Submit, Learn, Upsert

(* Whatever students solve, informs are lost and imports switch off: the   *)
(* four queries of the page agree.  A concept leads to exactly one task if *)
(* it is shown with any; that task opens, and says solved if and only if   *)
(* the concept is offered for repetition, which is when the two counts     *)
(* beside it are equal.                                                    *)
THEOREM PagesAgree == PageSpec => []PageAgrees
<1>1. PageInit => PageInv
  BY DEF PageInit, PageInv
<1> QED BY <1>1, PageInvKept, PageInvAgrees, PTL DEF PageSpec

-----------------------------------------------------------------------------
(* The lists that come in pages.  RowsIn is RowsFor of given tables and a   *)
(* given moment, so that two moments can be compared.                      *)

Lists == {"attempts", "global", "weekly"}

ListRow == [id : Nat, key : Nat]

Made == [who : Members \cup Staff, xp : Gains, at : Nat]

Written(m, p, u, times) ==
    SumFunctionOnSet([i \in 1..Len(m) |-> m[i].xp],
                     {i \in 1..Len(m) : m[i].who = u /\ p[i] \in times})

Board(m, p, who, times) == {[id |-> v, key |-> Written(m, p, v, times)] : v \in who}

Winners(m, p, times) == {v \in Members : Written(m, p, v, times) > 0}

Window(t) == (t - Week)..t \ {0}

RowsIn(m, p, t, list, u) ==
    CASE list = "attempts" ->
            {[id |-> i, key |-> m[i].at] : i \in {j \in 1..Len(m) : m[j].who = u}}
      [] list = "global" -> Board(m, p, Members, 1..t)
      [] list = "weekly" -> Board(m, p, Winners(m, p, Window(t)), Window(t))

(* What the rows of every list are: finitely many, each with an id of its  *)
(* own.                                                                    *)
RowsOK(rows) ==
    /\ rows \subseteq ListRow /\ IsFiniteSet(rows)
    /\ \A a, b \in rows : a.id = b.id => a = b

(* The place of a row in its list, from 1.                                 *)
Pos(list, rows, r) == Cardinality({q \in rows : Before(list, q, r)}) + 1

LEMMA UpTo ==
    ASSUME NEW m \in Nat
    PROVE  IsFiniteSet(1..m) /\ Cardinality(1..m) = m
BY FS_Interval

LEMMA PosBounds ==
    ASSUME NEW list \in Lists, NEW rows, RowsOK(rows), NEW r \in rows
    PROVE  Pos(list, rows, r) \in 1..Cardinality(rows)
<1>1. {q \in rows : Before(list, q, r)} \in SUBSET (rows \ {r})
  <2>1. r.key \in Nat /\ r.id \in Nat
    BY DEF RowsOK, ListRow
  <2> QED BY <2>1 DEF Before
<1>2. /\ IsFiniteSet(rows \ {r}) /\ Cardinality(rows \ {r}) = Cardinality(rows) - 1
      /\ Cardinality(rows) \in Nat
  BY FS_RemoveElement, FS_CardinalityType DEF RowsOK
<1>3. /\ Cardinality({q \in rows : Before(list, q, r)}) \in Nat
      /\ Cardinality({q \in rows : Before(list, q, r)}) <= Cardinality(rows) - 1
  BY <1>1, <1>2, FS_Subset, FS_CardinalityType
<1> QED BY <1>2, <1>3 DEF Pos

(* A row moves back when others come, never forward.                       *)
LEMMA PosGrows ==
    ASSUME NEW list, NEW rows, NEW more, rows \subseteq more, RowsOK(more), NEW r
    PROVE  Pos(list, rows, r) <= Pos(list, more, r)
<1>1. PICK T : T = {q \in rows : Before(list, q, r)}
  OBVIOUS
<1>2. PICK U : U = {q \in more : Before(list, q, r)}
  OBVIOUS
<1>3. IsFiniteSet(U) /\ T \in SUBSET U
  BY <1>1, <1>2, FS_Subset DEF RowsOK
<1>4. Cardinality(T) <= Cardinality(U) /\ Cardinality(T) \in Nat /\ Cardinality(U) \in Nat
  BY <1>3, FS_Subset, FS_CardinalityType
<1> QED BY <1>1, <1>2, <1>4 DEF Pos

(* The order of a list leaves no freedom: each place is that of one row.   *)
LEMMA OrderIsByPos ==
    ASSUME NEW list \in Lists, NEW rows, RowsOK(rows), NEW s \in Orders(list, rows),
           NEW n \in Nat, n = Cardinality(rows)
    PROVE  /\ \A k \in 1..n : s[k] \in rows /\ Pos(list, rows, s[k]) = k
           /\ \A r \in rows : \E k \in 1..n : s[k] = r
<1>1. s \in [1..n -> rows] /\ DOMAIN s = 1..n
  BY DEF Orders
<1>2. \A i, j \in 1..n : i < j => s[i] # s[j] /\ ~Before(list, s[j], s[i])
  BY <1>1 DEF Orders
<1>3. \A i, j \in 1..n : s[i] = s[j] => i = j
  <2> SUFFICES ASSUME NEW i \in 1..n, NEW j \in 1..n, i # j PROVE s[i] # s[j]
    OBVIOUS
  <2>1. i < j \/ j < i
    OBVIOUS
  <2> QED BY <1>2, <2>1
<1>4. s \in Injection(1..n, rows)
  BY <1>1, <1>3 DEF Injection, IsInjective
<1>5. s \in Surjection(1..n, rows)
  <2>1. IsFiniteSet(1..n) /\ Cardinality(1..n) = n
    BY UpTo
  <2> QED BY <1>4, <2>1, FS_Injection DEF RowsOK
<1>6. \A r \in rows : \E k \in 1..n : s[k] = r
  BY <1>5 DEF Surjection
<1>7. ASSUME NEW i \in 1..n, NEW j \in 1..n, i < j PROVE Before(list, s[i], s[j])
  <2>1. s[i] \in rows /\ s[j] \in rows /\ s[i] # s[j] /\ ~Before(list, s[j], s[i])
    BY <1>1, <1>2, <1>7
  <2>2. s[i].id # s[j].id /\ s[i] \in ListRow /\ s[j] \in ListRow
    BY <2>1 DEF RowsOK
  <2>3. PICK a \in Nat, b \in Nat, k \in Nat, l \in Nat :
           s[i].id = a /\ s[j].id = b /\ s[i].key = k /\ s[j].key = l
    BY <2>2 DEF ListRow
  <2> QED BY <2>1, <2>2, <2>3 DEF Before
<1>8. ASSUME NEW k \in 1..n PROVE Pos(list, rows, s[k]) = k
  <2> DEFINE T == {q \in rows : Before(list, q, s[k])}
             h == [j \in 1..(k - 1) |-> s[j]]
  <2>1. \A j \in 1..(k - 1) : j \in 1..n /\ j < k
    OBVIOUS
  <2>2. \A j \in 1..(k - 1) : h[j] = s[j] /\ h[j] \in T
    BY <1>1, <1>7, <2>1
  <2>3. ASSUME NEW q \in T PROVE \E j \in 1..(k - 1) : h[j] = q
    <3>1. PICK j \in 1..n : s[j] = q
      BY <1>6
    <3>2. j # k
      <4>1. q.key \in Nat /\ q.id \in Nat
        BY DEF RowsOK, ListRow
      <4>2. ~Before(list, q, q)
        BY <4>1 DEF Before
      <4> QED BY <3>1, <4>2
    <3>3. ~(k < j)
      BY <1>2, <3>1
    <3>4. j \in 1..(k - 1)
      BY <3>2, <3>3
    <3> QED BY <3>1, <3>4
  <2>4. \A i, j \in 1..(k - 1) : h[i] = h[j] => i = j
    BY <1>3, <2>1
  <2>5. h \in Bijection(1..(k - 1), T)
    <3>1. h \in [1..(k - 1) -> T]
      BY <2>2
    <3>2. DOMAIN h = 1..(k - 1)
      OBVIOUS
    <3> HIDE DEF h, T
    <3>3. h \in Injection(1..(k - 1), T)
      BY <2>4, <3>1, <3>2 DEF Injection, IsInjective
    <3>4. h \in Surjection(1..(k - 1), T)
      BY <2>3, <3>1 DEF Surjection
    <3> QED BY <3>3, <3>4 DEF Bijection
  <2>6. IsFiniteSet(1..(k - 1)) /\ Cardinality(1..(k - 1)) = k - 1
    <3> HIDE DEF h, T
    <3>1. k - 1 \in Nat
      OBVIOUS
    <3> QED BY <3>1, UpTo
  <2>7. Cardinality(T) = k - 1
    <3> HIDE DEF h, T
    <3> QED BY <2>5, <2>6, FS_Bijection DEF ExistsBijection
  <2> QED BY <2>7 DEF Pos
<1> QED BY <1>1, <1>6, <1>8

-----------------------------------------------------------------------------
(* What commits and rewards do to a list at one moment: it grows.          *)

Tables(m, p) == m \in Seq(Made) /\ p \in Seq(Nat) /\ Len(p) = Len(m)

(* Attempts are added, rewards are written, nothing is taken back.         *)
Later(m, p, more, paidMore) ==
    /\ Tables(m, p) /\ Tables(more, paidMore) /\ Len(m) <= Len(more)
    /\ \A i \in 1..Len(m) : more[i] = m[i] /\ (p[i] # 0 => paidMore[i] = p[i])

(* Every row is still there, with as much to its key or more.              *)
Grown(a, b) == \A r \in a : \E q \in b : q.id = r.id /\ q.key >= r.key

Counted(m, p, u, times) == {i \in 1..Len(m) : m[i].who = u /\ p[i] \in times}

Xps(m) == [i \in 1..Len(m) |-> m[i].xp]

LEMMA XpsAre ==
    ASSUME NEW m, NEW p, Tables(m, p)
    PROVE  /\ IsFiniteSet(1..Len(m)) /\ Len(m) \in Nat
           /\ \A i \in 1..Len(m) : /\ Xps(m)[i] = m[i].xp /\ m[i].xp \in Nat
                                   /\ m[i] \in Made /\ m[i].at \in Nat
<1>1. Len(m) \in Nat /\ \A i \in 1..Len(m) : m[i] \in Made
  BY DEF Tables
<1>2. \A i \in 1..Len(m) : m[i].xp \in Nat /\ m[i].at \in Nat
  BY <1>1, ListsAssumption DEF Made
<1> QED BY <1>1, <1>2, UpTo DEF Xps

LEMMA WrittenIs ==
    ASSUME NEW m, NEW p, Tables(m, p), NEW u, NEW times
    PROVE  /\ Written(m, p, u, times) = SumFunctionOnSet(Xps(m), Counted(m, p, u, times))
           /\ Written(m, p, u, times) \in Nat
<1>1. Written(m, p, u, times) = SumFunctionOnSet(Xps(m), Counted(m, p, u, times))
  BY DEF Written, Xps, Counted
<1>2. Counted(m, p, u, times) \in SUBSET (1..Len(m))
  BY DEF Counted
<1>3. IsFiniteSet(Counted(m, p, u, times))
  BY <1>2, XpsAre, FS_Subset
<1>4. \A i \in Counted(m, p, u, times) : Xps(m)[i] \in Nat
  BY <1>2, XpsAre
<1> QED BY <1>1, <1>3, <1>4, SumType

LEMMA WrittenGrows ==
    ASSUME NEW m, NEW p, NEW more, NEW paidMore, Later(m, p, more, paidMore),
           NEW u, NEW times, 0 \notin times
    PROVE  Written(m, p, u, times) <= Written(more, paidMore, u, times)
<1>a. PICK a : a = Counted(m, p, u, times)
  OBVIOUS
<1>b. PICK b : b = Counted(more, paidMore, u, times)
  OBVIOUS
<1>f. PICK f : f = Xps(m)
  OBVIOUS
<1>g. PICK g : g = Xps(more)
  OBVIOUS
<1>1. Tables(m, p) /\ Tables(more, paidMore)
  BY DEF Later
<1>2. \A i \in 1..Len(m) : i \in 1..Len(more) /\ more[i] = m[i]
  BY <1>1, XpsAre DEF Later
<1>3. a \subseteq b /\ a \subseteq 1..Len(m) /\ b \subseteq 1..Len(more)
  <2>1. ASSUME NEW i \in a PROVE i \in b
    <3>1. i \in 1..Len(m) /\ m[i].who = u /\ p[i] \in times
      BY <1>a DEF Counted
    <3>2. paidMore[i] = p[i]
      BY <3>1 DEF Later
    <3> QED BY <1>2, <1>b, <3>1, <3>2 DEF Counted
  <2> QED BY <1>a, <1>b, <2>1 DEF Counted
<1>4. \A i \in a : f[i] \in Nat /\ g[i] = f[i]
  BY <1>1, <1>2, <1>3, <1>f, <1>g, XpsAre
<1>5. \A i \in b : g[i] \in Nat
  BY <1>1, <1>3, <1>g, XpsAre
<1>6. IsFiniteSet(a) /\ IsFiniteSet(b \ a) /\ a \cup (b \ a) = b /\ a \cap (b \ a) = {}
  <2>1. IsFiniteSet(b)
    BY <1>1, <1>3, XpsAre, FS_Subset
  <2> QED BY <1>3, <2>1, FS_Subset
<1>7. SumFunctionOnSet(g, b) = SumFunctionOnSet(g, a) + SumFunctionOnSet(g, b \ a)
  <2>1. SumFunctionOnSet(g, a \cup (b \ a)) = SumFunctionOnSet(g, a) + SumFunctionOnSet(g, b \ a)
    BY <1>3, <1>5, <1>6, SumUnion
  <2> QED BY <1>6, <2>1
<1>8. SumFunctionOnSet(g, a) = SumFunctionOnSet(f, a)
  BY <1>4, <1>6, SumSame
<1>9. SumFunctionOnSet(g, b \ a) \in Nat /\ SumFunctionOnSet(f, a) \in Nat
  BY <1>4, <1>5, <1>6, SumType
<1>10. /\ Written(m, p, u, times) = SumFunctionOnSet(f, a)
       /\ Written(more, paidMore, u, times) = SumFunctionOnSet(g, b)
  BY <1>1, <1>a, <1>b, <1>f, <1>g, WrittenIs
<1> QED BY <1>7, <1>8, <1>9, <1>10

LEMMA RowsAreOK ==
    ASSUME NEW m, NEW p, Tables(m, p), NEW t, NEW list \in Lists, NEW u
    PROVE  RowsOK(RowsIn(m, p, t, list, u))
<1>1. CASE list = "attempts"
  <2> DEFINE own == {j \in 1..Len(m) : m[j].who = u}
             h == [i \in own |-> [id |-> i, key |-> m[i].at]]
             rows == {[id |-> i, key |-> m[i].at] : i \in own}
  <2>1. RowsIn(m, p, t, list, u) = rows
    BY <1>1 DEF RowsIn
  <2>2. IsFiniteSet(own)
    BY XpsAre, FS_Subset
  <2>3. h \in Surjection(own, rows)
    BY DEF Surjection
  <2>4. IsFiniteSet(rows)
    <3> HIDE DEF own, h, rows
    <3> QED BY <2>2, <2>3, FS_Surjection
  <2>5. rows \subseteq ListRow
    BY XpsAre DEF ListRow
  <2>6. \A a, b \in rows : a.id = b.id => a = b
    OBVIOUS
  <2> QED BY <2>1, <2>4, <2>5, <2>6 DEF RowsOK
<1>2. ASSUME NEW who \in SUBSET Members, NEW times
      PROVE  RowsOK(Board(m, p, who, times))
  <2> DEFINE h == [v \in who |-> [id |-> v, key |-> Written(m, p, v, times)]]
             rows == {[id |-> v, key |-> Written(m, p, v, times)] : v \in who}
  <2>1. IsFiniteSet(who)
    BY ListsAssumption, FS_Subset
  <2>2. h \in Surjection(who, rows)
    BY DEF Surjection
  <2>3. IsFiniteSet(rows)
    <3> HIDE DEF h, rows
    <3> QED BY <2>1, <2>2, FS_Surjection
  <2>4. \A v \in who : v \in Nat /\ Written(m, p, v, times) \in Nat
    BY ListsAssumption, WrittenIs
  <2>5. rows \subseteq ListRow
    BY <2>4 DEF ListRow
  <2>6. \A a, b \in rows : a.id = b.id => a = b
    OBVIOUS
  <2> QED BY <2>3, <2>5, <2>6 DEF RowsOK, Board
<1>3. CASE list = "global"
  BY <1>2, <1>3 DEF RowsIn
<1>4. CASE list = "weekly"
  <2>1. Winners(m, p, Window(t)) \in SUBSET Members
    BY DEF Winners
  <2> QED BY <1>2, <1>4, <2>1 DEF RowsIn
<1> QED BY <1>1, <1>3, <1>4 DEF Lists

LEMMA ListGrows ==
    ASSUME NEW m, NEW p, NEW more, NEW paidMore, Later(m, p, more, paidMore),
           NEW t, NEW list \in Lists, NEW u
    PROVE  Grown(RowsIn(m, p, t, list, u), RowsIn(more, paidMore, t, list, u))
<1>1. CASE list = "attempts"
  <2> SUFFICES ASSUME NEW i \in 1..Len(m), m[i].who = u
               PROVE  /\ i \in 1..Len(more) /\ more[i].who = u
                      /\ more[i].at = m[i].at /\ m[i].at \in Nat
    BY <1>1 DEF RowsIn, Grown
  <2>1. Tables(m, p) /\ Tables(more, paidMore)
    BY DEF Later
  <2> QED BY <2>1, XpsAre DEF Later
<1>2. ASSUME NEW v, NEW times, 0 \notin times
      PROVE  /\ Written(m, p, v, times) \in Nat /\ Written(more, paidMore, v, times) \in Nat
             /\ Written(m, p, v, times) <= Written(more, paidMore, v, times)
  BY <1>2, WrittenIs, WrittenGrows DEF Later
<1>3. ASSUME NEW who, NEW whoMore, who \subseteq whoMore, NEW times, 0 \notin times
      PROVE  Grown(Board(m, p, who, times), Board(more, paidMore, whoMore, times))
  <2> SUFFICES ASSUME NEW r \in Board(m, p, who, times)
               PROVE  \E q \in Board(more, paidMore, whoMore, times) :
                         q.id = r.id /\ q.key >= r.key
    BY DEF Grown
  <2>1. PICK v \in who : r = [id |-> v, key |-> Written(m, p, v, times)]
    BY DEF Board
  <2>2. PICK q : q = [id |-> v, key |-> Written(more, paidMore, v, times)]
    OBVIOUS
  <2>3. q \in Board(more, paidMore, whoMore, times)
    BY <1>3, <2>2 DEF Board
  <2>4. q.id = r.id /\ q.key >= r.key
    BY <1>2, <1>3, <2>1, <2>2
  <2> QED BY <2>3, <2>4
<1>4. CASE list = "global"
  <2>1. 0 \notin 1..t
    OBVIOUS
  <2> QED BY <1>3, <1>4, <2>1 DEF RowsIn
<1>5. CASE list = "weekly"
  <2>1. 0 \notin Window(t)
    BY DEF Window
  <2>2. Winners(m, p, Window(t)) \subseteq Winners(more, paidMore, Window(t))
    BY <1>2, <2>1 DEF Winners
  <2> QED BY <1>3, <1>5, <2>1, <2>2 DEF RowsIn
<1> QED BY <1>1, <1>4, <1>5 DEF Lists

(* A history moreover keeps its rows as they were.                         *)
LEMMA HistoryKeepsRows ==
    ASSUME NEW m, NEW p, NEW more, NEW paidMore, Later(m, p, more, paidMore),
           NEW t, NEW s, NEW u
    PROVE  RowsIn(m, p, t, "attempts", u) \subseteq RowsIn(more, paidMore, s, "attempts", u)
<1>1. Tables(m, p) /\ Tables(more, paidMore)
  BY DEF Later
<1>2. \A i \in 1..Len(m) : i \in 1..Len(more) /\ more[i] = m[i]
  BY <1>1, XpsAre DEF Later
<1> QED BY <1>2 DEF RowsIn

(* What has grown and is again as it was had not changed in between.       *)
LEMMA GrownAndBack ==
    ASSUME NEW a, NEW b, RowsOK(a), RowsOK(b), Grown(a, b), Grown(b, a)
    PROVE  a = b
<1>0. \A r \in a \cup b : r.key \in Nat
  BY DEF RowsOK, ListRow
<1>1. ASSUME NEW r \in a PROVE r \in b
  <2>1. PICK q \in b : q.id = r.id /\ q.key >= r.key
    BY DEF Grown
  <2>2. PICK s \in a : s.id = q.id /\ s.key >= q.key
    BY DEF Grown
  <2>3. s = r /\ q.key = r.key
    BY <1>0, <2>1, <2>2 DEF RowsOK
  <2>4. q \in ListRow /\ r \in ListRow
    BY DEF RowsOK
  <2> QED BY <2>1, <2>3, <2>4 DEF ListRow
<1>2. ASSUME NEW r \in b PROVE r \in a
  <2>1. PICK q \in a : q.id = r.id /\ q.key >= r.key
    BY DEF Grown
  <2>2. PICK s \in b : s.id = q.id /\ s.key >= q.key
    BY DEF Grown
  <2>3. s = r /\ q.key = r.key
    BY <1>0, <2>1, <2>2 DEF RowsOK
  <2>4. q \in ListRow /\ r \in ListRow
    BY DEF RowsOK
  <2> QED BY <2>1, <2>3, <2>4 DEF ListRow
<1> QED BY <1>1, <1>2

LEMMA GrownTwice ==
    ASSUME NEW a, NEW b, NEW c, RowsOK(a), RowsOK(b), RowsOK(c), Grown(a, b), Grown(b, c)
    PROVE  Grown(a, c)
<1> SUFFICES ASSUME NEW r \in a PROVE \E q \in c : q.id = r.id /\ q.key >= r.key
  BY DEF Grown
<1>1. PICK q \in b : q.id = r.id /\ q.key >= r.key
  BY DEF Grown
<1>2. PICK s \in c : s.id = q.id /\ s.key >= q.key
  BY DEF Grown
<1>3. r.key \in Nat /\ q.key \in Nat /\ s.key \in Nat
  BY DEF RowsOK, ListRow
<1> QED BY <1>1, <1>2, <1>3

-----------------------------------------------------------------------------
(* One page.                                                               *)

Entry == [rank : Nat, id : Nat]

Page(order, offset, count) ==
    [k \in 1..count |-> [rank |-> offset + k, id |-> order[offset + k].id]]

LEMMA MinOfTwo ==
    ASSUME NEW a \in Int, NEW b \in Int
    PROVE  Min({a, b}) = IF a <= b THEN a ELSE b
BY DEF Min

LEMMA MaxOfTwo ==
    ASSUME NEW a \in Int, NEW b \in Int
    PROVE  Max({a, b}) = IF a >= b THEN a ELSE b
BY DEF Max

(* What the routes do to a request within their limits: nothing.           *)
LEMMA PageAsAsked ==
    ASSUME NEW size \in PageSizes, NEW offset \in Nat
    PROVE  ClampPage(size, offset) = [limit |-> size, offset |-> offset]
<1>1. size \in Nat /\ LimitMax \in Nat /\ 1 <= size /\ size <= LimitMax
  BY ListsAssumption
<1>2. Min({size, LimitMax}) = size
  BY <1>1, MinOfTwo
<1>3. Max({1, size}) = size /\ Max({0, offset}) = offset
  BY <1>1, MaxOfTwo
<1> QED BY <1>2, <1>3 DEF ClampPage

(* A page shows the rows whose places are on it, each with its place.      *)
Fits(offset, size, n) ==
    IF offset + size <= n THEN size ELSE IF offset <= n THEN n - offset ELSE 0

LEMMA FitsIs ==
    ASSUME NEW offset \in Nat, NEW size \in Nat, NEW n \in Nat
    PROVE  /\ Fits(offset, size, n) \in Nat /\ Fits(offset, size, n) <= size
           /\ Fits(offset, size, n) = 0 \/ offset + Fits(offset, size, n) <= n
           /\ Fits(offset, size, n) = size \/ n <= offset + Fits(offset, size, n)
<1>1. CASE offset + size <= n
  BY <1>1 DEF Fits
<1>2. CASE ~(offset + size <= n) /\ offset <= n
  <2>1. Fits(offset, size, n) = n - offset /\ n - offset \in Nat
    BY <1>2 DEF Fits
  <2> QED BY <1>2, <2>1
<1>3. CASE ~(offset <= n)
  <2>1. Fits(offset, size, n) = 0
    BY <1>3 DEF Fits
  <2> QED BY <1>3, <2>1
<1> QED BY <1>1, <1>2, <1>3

PageOf(rows, order, offset, size) ==
    Page(order, offset, Fits(offset, size, Cardinality(rows)))

LEMMA PageShows ==
    ASSUME NEW list \in Lists, NEW rows, RowsOK(rows), NEW order \in Orders(list, rows),
           NEW offset \in Nat, NEW size \in Nat, NEW page, page = PageOf(rows, order, offset, size)
    PROVE  /\ page \in Seq(Entry) /\ Len(page) = Fits(offset, size, Cardinality(rows))
           /\ \A k \in 1..Len(page) :
                 page[k].rank = offset + k /\ \E r \in rows : r.id = page[k].id
           /\ \A r \in rows :
                 offset < Pos(list, rows, r) /\ Pos(list, rows, r) <= offset + size =>
                    /\ Pos(list, rows, r) - offset \in 1..Len(page)
                    /\ page[Pos(list, rows, r) - offset].id = r.id
<1>n. PICK n \in Nat : n = Cardinality(rows)
  BY FS_CardinalityType DEF RowsOK
<1>c. PICK count \in Nat : count = Fits(offset, size, n)
  BY FitsIs
<1>p. page = Page(order, offset, count)
  BY <1>n, <1>c DEF PageOf
<1>1. count \in Nat /\ (count = 0 \/ offset + count <= n)
      /\ (count = size \/ n <= offset + count)
  BY <1>c, FitsIs
<1>2. \A k \in 1..count : offset + k \in 1..n
  BY <1>1
<1>3. /\ \A k \in 1..n : order[k] \in rows /\ Pos(list, rows, order[k]) = k
      /\ \A r \in rows : \E k \in 1..n : order[k] = r
  BY <1>n, OrderIsByPos
<1>4. ASSUME NEW k \in 1..count
      PROVE  /\ page[k].rank = offset + k /\ page[k].id = order[offset + k].id
             /\ page[k] \in Entry /\ order[offset + k] \in rows
  <2>1. page[k] = [rank |-> offset + k, id |-> order[offset + k].id]
    BY <1>p DEF Page
  <2>2. order[offset + k] \in rows
    BY <1>2, <1>3
  <2>3. order[offset + k].id \in Nat /\ offset + k \in Nat
    BY <1>2, <2>2 DEF RowsOK, ListRow
  <2> QED BY <2>1, <2>2, <2>3 DEF Entry
<1>5. page \in Seq(Entry) /\ Len(page) = count
  <2>1. \A k \in 1..count : page[k] \in Entry
    BY <1>4
  <2>2. page = [k \in 1..count |-> page[k]]
    BY <1>p DEF Page
  <2>3. page \in [1..count -> Entry]
    BY <2>1, <2>2
  <2> QED BY <1>1, <2>3
<1>6. ASSUME NEW k \in 1..count
      PROVE  page[k].rank = offset + k /\ \E r \in rows : r.id = page[k].id
  <2>1. PICK r \in rows : r = order[offset + k]
    BY <1>4
  <2>2. page[k].rank = offset + k /\ page[k].id = r.id
    BY <1>4, <2>1
  <2> QED BY <2>2
<1>7. ASSUME NEW r \in rows,
             offset < Pos(list, rows, r), Pos(list, rows, r) <= offset + size
      PROVE  /\ Pos(list, rows, r) - offset \in 1..count
             /\ page[Pos(list, rows, r) - offset].id = r.id
  <2>1. PICK k \in 1..n : order[k] = r /\ Pos(list, rows, r) = k
    BY <1>3
  <2>2. k - offset \in 1..count /\ offset + (k - offset) = k
    BY <1>1, <1>7, <2>1
  <2>3. page[k - offset].id = order[offset + (k - offset)].id
    BY <1>4, <2>2
  <2> QED BY <2>1, <2>2, <2>3
<1> QED BY <1>n, <1>c, <1>5, <1>6, <1>7

LEMMA PagesJoin ==
    ASSUME NEW s \in Seq(Entry), NEW t \in Seq(Entry), NEW q, q = s \o t
    PROVE  /\ q \in Seq(Entry) /\ Len(q) = Len(s) + Len(t)
           /\ Len(s) \in Nat /\ Len(t) \in Nat
           /\ \A k \in 1..Len(s) : q[k] = s[k]
           /\ \A k \in 1..Len(t) : q[Len(s) + k] = t[k]
OBVIOUS

-----------------------------------------------------------------------------
(* The invariant of the lists.                                             *)

Walks == [step : {"count", "rows", "turn", "done"}, who : Members \cup Staff, list : Lists,
          size : PageSizes, offset : Nat, total : Nat, seen : Seq(Entry), torn : BOOLEAN,
          began : SUBSET ListRow, since : Nat]

ListsTypes ==
    /\ now \in Nat \ {0}
    /\ Tables(made, paid)
    /\ walk = NoWalk \/ walk \in Walks

(* The rows of the list that is walked.                                    *)
Walked == RowsIn(made, paid, now, walk.list, walk.who)

(* The places the client has passed.                                       *)
Passed(w) == IF w.step = "turn" THEN w.offset + w.size ELSE w.offset

Shown(w) == {w.seen[k].id : k \in 1..Len(w.seen)}

(* The rows of a history that were there at the beginning stay there, and  *)
(* those whose places the client has passed he has been shown: later rows  *)
(* move them on, never back.                                               *)
NothingSkipped(w, rows) ==
    w.list = "attempts" =>
        /\ w.began \subseteq rows
        /\ ~w.torn =>
              \A r \in w.began :
                 w.step = "done" \/ Pos(w.list, rows, r) <= Passed(w) => r.id \in Shown(w)

(* While the clock stands a list only grows; if it is as it was at the     *)
(* beginning it never changed, and what was shown is what stands there.    *)
InPlace(w, rows, t) ==
    /\ w.since <= t
    /\ w.since = t => Grown(w.began, rows)
    /\ w.since = t /\ rows = w.began =>
          /\ w.step # "count" => w.total = Cardinality(rows)
          /\ Len(w.seen) = IF w.step = "done" THEN Cardinality(rows) ELSE Passed(w)
          /\ Passed(w) <= Cardinality(rows)
          /\ \A k \in 1..Len(w.seen) :
                w.seen[k].rank = k /\ \E r \in rows : r.id = w.seen[k].id
          /\ \A r \in rows : Pos(w.list, rows, r) <= Len(w.seen) =>
                w.seen[Pos(w.list, rows, r)].id = r.id

ListsInv ==
    /\ ListsTypes
    /\ walk # NoWalk => NothingSkipped(walk, Walked) /\ InPlace(walk, Walked, now)

LEMMA RowsForIs ==
    ASSUME NEW list \in Lists, NEW u
    PROVE  RowsFor(list, u) = RowsIn(made, paid, now, list, u)
BY DEF Lists, RowsFor, RowsIn, History, GlobalBoard, WeeklyBoard, XpWritten, Board, Winners,
       Window, Written

LEMMA WalkedIsOK == ASSUME ListsTypes, walk \in Walks PROVE RowsOK(Walked)
BY RowsAreOK DEF ListsTypes, Walks, Walked

LEMMA ListsInitInv == ListsInit => ListsInv
<1> SUFFICES ASSUME ListsInit PROVE ListsInv
  OBVIOUS
<1>1. made \in Seq(Made) /\ paid \in Seq(Nat) /\ Len(made) = 0 /\ Len(paid) = 0
  BY DEF ListsInit
<1> QED BY <1>1 DEF ListsInit, ListsInv, ListsTypes, Tables

LEMMA IsAWalk ==
    ASSUME ListsTypes, walk.step \in {"count", "rows", "turn", "done"}
    PROVE  walk \in Walks /\ walk # NoWalk
BY DEF ListsTypes, NoWalk

LEMMA WalkFields ==
    ASSUME NEW w \in Walks
    PROVE  /\ w.offset \in Nat /\ w.size \in Nat /\ w.total \in Nat /\ w.since \in Nat
           /\ w.list \in Lists /\ w.seen \in Seq(Entry) /\ Len(w.seen) \in Nat
           /\ w.size \in PageSizes /\ w.began \subseteq ListRow /\ Passed(w) \in Nat
<1>1. /\ w.offset \in Nat /\ w.size \in PageSizes /\ w.total \in Nat /\ w.since \in Nat
      /\ w.list \in Lists /\ w.seen \in Seq(Entry) /\ w.began \subseteq ListRow
  BY DEF Walks
<1>2. w.size \in Nat
  <2>1. PageSizes \subseteq Nat
    BY ListsAssumption
  <2> QED BY <1>1, <2>1
<1>3. Len(w.seen) \in Nat
  BY <1>1
<1> QED BY <1>1, <1>2, <1>3 DEF Passed

(* A commit, a reward or the clock: the tables grow under the walk.        *)
LEMMA WorldMoves ==
    ASSUME ListsInv,
           \/ \E u \in Members \cup Staff, xp \in Gains, at \in 1..MaxNow : Record(u, xp, at)
           \/ \E i \in 1..Len(made) : Reward(i)
           \/ Tick
    PROVE  /\ ListsTypes' /\ walk' = walk
           /\ Later(made, paid, made', paid') /\ now \in Nat /\ now' \in Nat /\ now <= now'
<1>1. /\ made \in Seq(Made) /\ paid \in Seq(Nat) /\ Len(paid) = Len(made)
      /\ Len(made) \in Nat /\ now \in Nat \ {0}
  BY DEF ListsInv, ListsTypes, Tables
<1>2. CASE \E u \in Members \cup Staff, xp \in Gains, at \in 1..MaxNow : Record(u, xp, at)
  <2>1. PICK u \in Members \cup Staff, xp \in Gains, at \in 1..MaxNow : Record(u, xp, at)
    BY <1>2
  <2>2. PICK row : row = [who |-> u, xp |-> xp, at |-> at]
    OBVIOUS
  <2>3. row \in Made
    BY <2>2 DEF Made
  <2>4. made' = Append(made, row) /\ paid' = Append(paid, 0) /\ UNCHANGED <<now, walk>>
    BY <2>1, <2>2 DEF Record
  <2>5. /\ made' \in Seq(Made) /\ Len(made') = Len(made) + 1
        /\ \A i \in 1..Len(made) : made'[i] = made[i]
    BY <1>1, <2>3, <2>4
  <2>6. /\ paid' \in Seq(Nat) /\ Len(paid') = Len(paid) + 1
        /\ \A i \in 1..Len(made) : paid'[i] = paid[i]
    BY <1>1, <2>4
  <2> QED BY <1>1, <2>4, <2>5, <2>6 DEF ListsInv, ListsTypes, Tables, Later
<1>3. CASE \E i \in 1..Len(made) : Reward(i)
  <2>1. PICK i \in 1..Len(made) : Reward(i)
    BY <1>3
  <2>2. paid[i] = 0 /\ paid' = [paid EXCEPT ![i] = now] /\ UNCHANGED <<now, made, walk>>
    BY <2>1 DEF Reward
  <2>3. /\ paid' \in Seq(Nat) /\ Len(paid') = Len(paid)
        /\ \A j \in 1..Len(made) : paid[j] # 0 => paid'[j] = paid[j]
    BY <1>1, <2>2
  <2> QED BY <1>1, <2>2, <2>3 DEF ListsInv, ListsTypes, Tables, Later
<1>4. CASE Tick
  <2>1. now' = now + 1 /\ UNCHANGED <<made, paid, walk>>
    BY <1>4 DEF Tick
  <2> QED BY <1>1, <2>1 DEF ListsInv, ListsTypes, Tables, Later
<1> QED BY <1>2, <1>3, <1>4

LEMMA WorldKeepsInv ==
    ASSUME ListsInv, ListsTypes', walk' = walk,
           Later(made, paid, made', paid'), now \in Nat, now' \in Nat, now <= now'
    PROVE  ListsInv'
<1> SUFFICES ASSUME walk # NoWalk
             PROVE  NothingSkipped(walk, Walked') /\ InPlace(walk, Walked', now')
  BY DEF ListsInv
<1>r. PICK rows : rows = Walked
  OBVIOUS
<1>m. PICK more : more = Walked'
  OBVIOUS
<1>1. walk \in Walks /\ walk.list \in Lists /\ walk.since \in Nat
  BY DEF ListsInv, ListsTypes, Walks
<1>2. NothingSkipped(walk, rows) /\ InPlace(walk, rows, now)
  BY <1>r DEF ListsInv
<1>3. more = RowsIn(made', paid', now', walk.list, walk.who)
  BY <1>m DEF Walked
<1>4. rows = RowsIn(made, paid, now, walk.list, walk.who)
  BY <1>r DEF Walked
<1>5. RowsOK(rows) /\ RowsOK(more)
  BY <1>1, <1>3, <1>4, RowsAreOK DEF Later
<1>6. NothingSkipped(walk, more)
  <2> SUFFICES ASSUME walk.list = "attempts" PROVE NothingSkipped(walk, more)
    BY DEF NothingSkipped
  <2>1. rows \subseteq more
    BY <1>3, <1>4, HistoryKeepsRows
  <2>2. \A r : Pos(walk.list, rows, r) <= Pos(walk.list, more, r)
    BY <1>5, <2>1, PosGrows
  <2>3. walk.began \subseteq rows
    BY <1>2 DEF NothingSkipped
  <2>4. \A r \in walk.began : /\ Pos(walk.list, rows, r) \in Nat
                              /\ Pos(walk.list, more, r) \in Nat
    BY <1>1, <1>5, <2>1, <2>3, PosBounds
  <2>5. Passed(walk) \in Nat
    BY <1>1, WalkFields
  <2>6. ASSUME ~walk.torn, NEW r \in walk.began,
               walk.step = "done" \/ Pos(walk.list, more, r) <= Passed(walk)
        PROVE  r.id \in Shown(walk)
    <3>1. walk.step = "done" \/ Pos(walk.list, rows, r) <= Passed(walk)
      BY <2>2, <2>4, <2>5, <2>6
    <3> QED BY <1>2, <2>6, <3>1 DEF NothingSkipped
  <2> QED BY <2>1, <2>3, <2>6 DEF NothingSkipped
<1>7. InPlace(walk, more, now')
  <2>1. walk.since <= now
    BY <1>2 DEF InPlace
  <2>2. ASSUME walk.since = now' PROVE now' = now
    BY <1>1, <2>1, <2>2
  <2>3. walk.since <= now'
    BY <1>1, <2>1
  <2>4. ASSUME walk.since = now'
        PROVE  Grown(walk.began, rows) /\ Grown(rows, more)
    <3>1. Grown(walk.began, rows)
      BY <1>2, <2>2, <2>4 DEF InPlace
    <3>2. Grown(rows, more)
      BY <1>1, <1>3, <1>4, <2>2, <2>4, ListGrows
    <3> QED BY <3>1, <3>2
  <2>5. ASSUME walk.since = now' PROVE Grown(walk.began, more)
    <3>1. ASSUME NEW r \in walk.began PROVE \E q \in more : q.id = r.id /\ q.key >= r.key
      <4>1. PICK q \in rows : q.id = r.id /\ q.key >= r.key
        BY <2>4, <2>5 DEF Grown
      <4>2. PICK s \in more : s.id = q.id /\ s.key >= q.key
        BY <2>4, <2>5 DEF Grown
      <4>3. r.key \in Nat /\ q.key \in Nat /\ s.key \in Nat
        BY <1>1, <1>5 DEF RowsOK, ListRow, Walks
      <4> QED BY <4>1, <4>2, <4>3
    <3> QED BY <3>1 DEF Grown
  <2>6. ASSUME walk.since = now', more = walk.began PROVE rows = more
    BY <1>5, <2>4, <2>6, GrownAndBack
  <2>7. CASE walk.since = now' /\ more = walk.began
    BY <1>2, <2>2, <2>6, <2>7
  <2>8. CASE ~(walk.since = now' /\ more = walk.began)
    BY <2>3, <2>5, <2>8 DEF InPlace
  <2> QED BY <2>7, <2>8
<1> QED BY <1>6, <1>7, <1>m

LEMMA StartWalkKeeps ==
    ASSUME ListsInv, NEW u \in Members \cup Staff, NEW list \in Lists, NEW size \in PageSizes,
           StartWalk(u, list, size)
    PROVE  ListsInv'
<1>t. now \in Nat /\ Tables(made, paid) /\ UNCHANGED <<now, made, paid>>
  BY DEF ListsInv, ListsTypes, StartWalk
<1>r. PICK rows : rows = RowsFor(list, u)
  OBVIOUS
<1>w. PICK w : w = walk'
  OBVIOUS
<1>1. w = [step |-> "count", who |-> u, list |-> list, size |-> size, offset |-> 0,
           total |-> 0, seen |-> <<>>, torn |-> FALSE, began |-> rows, since |-> now]
  BY <1>r, <1>w DEF StartWalk
<1>2. rows = RowsIn(made, paid, now, list, u)
  BY <1>r, RowsForIs
<1>3. RowsOK(rows)
  BY <1>t, <1>2, RowsAreOK
<1>4. <<>> \in Seq(Entry) /\ Len(<<>>) = 0
  OBVIOUS
<1>5. w \in Walks
  BY <1>t, <1>1, <1>3, <1>4 DEF Walks, RowsOK
<1>6. /\ w.step = "count" /\ w.list = list /\ w.who = u /\ w.began = rows /\ w.since = now
      /\ w.seen = <<>> /\ w.offset = 0 /\ Passed(w) = 0
  BY <1>1 DEF Passed
<1>7. Walked' = rows
  BY <1>t, <1>w, <1>2, <1>6 DEF Walked
<1>8. \A r \in rows : Pos(list, rows, r) \in Nat /\ Pos(list, rows, r) >= 1
  BY <1>3, PosBounds
<1>9. NothingSkipped(w, rows)
  BY <1>6, <1>8 DEF NothingSkipped
<1>10. Grown(rows, rows)
  <2>1. \A r \in rows : r.key \in Nat
    BY <1>3 DEF RowsOK, ListRow
  <2> QED BY <2>1 DEF Grown
<1>11. InPlace(w, rows, now)
  <2>1. Cardinality(rows) \in Nat
    BY <1>3, FS_CardinalityType DEF RowsOK
  <2> QED BY <1>t, <1>4, <1>6, <1>8, <1>10, <2>1 DEF InPlace
<1>12. ListsTypes'
  BY <1>t, <1>w, <1>5 DEF ListsInv, ListsTypes
<1> QED BY <1>t, <1>w, <1>7, <1>9, <1>11, <1>12 DEF ListsInv

(* A step of the client: the tables and what he walks stay as they are.    *)
LEMMA ClientStep ==
    ASSUME ListsInv, UNCHANGED <<now, made, paid>>, walk # NoWalk,
           walk' \in Walks, walk'.list = walk.list, walk'.who = walk.who,
           NothingSkipped(walk', Walked), InPlace(walk', Walked, now)
    PROVE  ListsInv'
<1>1. Walked' = Walked
  BY DEF Walked
<1>2. ListsTypes'
  BY DEF ListsInv, ListsTypes
<1> QED BY <1>1, <1>2 DEF ListsInv

LEMMA TurnPageKeeps == ASSUME ListsInv, TurnPage PROVE ListsInv'
<1>r. PICK rows : rows = Walked
  OBVIOUS
<1>w. PICK w : w = walk
  OBVIOUS
<1>v. PICK v : v = walk'
  OBVIOUS
<1>1. w \in Walks /\ w # NoWalk /\ w.step = "turn"
  BY <1>w, IsAWalk DEF ListsInv, TurnPage
<1>2. NothingSkipped(w, rows) /\ InPlace(w, rows, now)
  BY <1>1, <1>w, <1>r DEF ListsInv
<1>3. v = [w EXCEPT !.step = "count", !.offset = w.offset + w.size]
  BY <1>v, <1>w DEF TurnPage
<1>4. /\ v \in Walks /\ v.step = "count" /\ v.offset = w.offset + w.size
      /\ v.list = w.list /\ v.who = w.who /\ v.seen = w.seen /\ v.began = w.began
      /\ v.since = w.since /\ v.torn = w.torn
  <2>1. w.offset + w.size \in Nat
    BY <1>1, WalkFields
  <2> QED BY <1>1, <1>3, <2>1 DEF Walks
<1>5. Passed(v) = Passed(w) /\ Shown(v) = Shown(w)
  BY <1>1, <1>4 DEF Passed, Shown
<1>6. NothingSkipped(v, rows)
  BY <1>1, <1>2, <1>4, <1>5 DEF NothingSkipped
<1>7. InPlace(v, rows, now)
  BY <1>1, <1>2, <1>4, <1>5 DEF InPlace
<1> QED BY <1>1, <1>4, <1>6, <1>7, <1>r, <1>w, <1>v, ClientStep DEF TurnPage

LEMMA CountRowsKeeps == ASSUME ListsInv, CountRows PROVE ListsInv'
<1>r. PICK rows : rows = Walked
  OBVIOUS
<1>w. PICK w : w = walk
  OBVIOUS
<1>v. PICK v : v = walk'
  OBVIOUS
<1>1. w \in Walks /\ w # NoWalk /\ w.step = "count"
  BY <1>w, IsAWalk DEF ListsInv, CountRows
<1>2. NothingSkipped(w, rows) /\ InPlace(w, rows, now)
  BY <1>1, <1>w, <1>r DEF ListsInv
<1>n. PICK n \in Nat : n = Cardinality(rows)
  BY <1>1, <1>r, <1>w, WalkedIsOK, FS_CardinalityType DEF ListsInv, RowsOK
<1>3. RowsFor(w.list, w.who) = rows
  BY <1>1, <1>w, <1>r, WalkFields, RowsForIs DEF Walked
<1>4. v = [w EXCEPT !.step = "rows", !.total = n]
  BY <1>v, <1>w, <1>n, <1>3 DEF CountRows
<1>5. /\ v \in Walks /\ v.step = "rows" /\ v.total = n /\ v.offset = w.offset /\ v.size = w.size
      /\ v.list = w.list /\ v.who = w.who /\ v.seen = w.seen /\ v.began = w.began
      /\ v.since = w.since /\ v.torn = w.torn
  BY <1>1, <1>4 DEF Walks
<1>6. Passed(v) = Passed(w) /\ Shown(v) = Shown(w)
  BY <1>1, <1>5 DEF Passed, Shown
<1>7. NothingSkipped(v, rows)
  BY <1>1, <1>2, <1>5, <1>6 DEF NothingSkipped
<1>8. InPlace(v, rows, now)
  BY <1>1, <1>2, <1>5, <1>6, <1>n DEF InPlace
<1> QED BY <1>1, <1>5, <1>7, <1>8, <1>r, <1>w, <1>v, ClientStep DEF CountRows

(* The page joins what was shown.  Rows whose places are on it are shown,  *)
(* and behind the last page there are none.                                *)
LEMMA FetchRowsKeeps == ASSUME ListsInv, FetchRows PROVE ListsInv'
<1>r. PICK rows : rows = Walked
  OBVIOUS
<1>w. PICK w : w = walk
  OBVIOUS
<1>v. PICK v : v = walk'
  OBVIOUS
<1>1. w \in Walks /\ w # NoWalk /\ w.step = "rows"
  BY <1>w, IsAWalk DEF ListsInv, FetchRows
<1>2. NothingSkipped(w, rows) /\ InPlace(w, rows, now)
  BY <1>1, <1>w, <1>r DEF ListsInv
<1>ok. RowsOK(rows)
  BY <1>1, <1>r, <1>w, WalkedIsOK DEF ListsInv
<1>n. PICK n \in Nat : n = Cardinality(rows)
  BY <1>ok, FS_CardinalityType DEF RowsOK
<1>o. PICK offset \in Nat : offset = w.offset
  BY <1>1, WalkFields
<1>z. PICK size \in Nat : size = w.size
  BY <1>1, WalkFields
<1>c. PICK count \in Nat : /\ count = Fits(offset, size, n)
                          /\ (offset + count <= n \/ count = 0) /\ count <= size
                          /\ (count = size \/ n <= offset + count)
  BY FitsIs
<1>3. RowsFor(w.list, w.who) = rows
  BY <1>1, <1>w, <1>r, WalkFields, RowsForIs DEF Walked
<1>4. ClampPage(w.size, w.offset) = [limit |-> size, offset |-> offset]
  BY <1>1, <1>o, <1>z, WalkFields, PageAsAsked
<1>5. Max({0, Min({offset + size, n}) - offset}) = count
  <2>1. PICK last \in Int : last = Min({offset + size, n})
                           /\ last = (IF offset + size <= n THEN offset + size ELSE n)
    BY MinOfTwo
  <2>2. Max({0, last - offset}) = IF 0 >= last - offset THEN 0 ELSE last - offset
    BY MaxOfTwo
  <2>3. count = IF 0 >= last - offset THEN 0 ELSE last - offset
    BY <1>c, <2>1 DEF Fits
  <2> QED BY <2>1, <2>2, <2>3
<1>6. PICK order \in Orders(w.list, rows) :
         v = [w EXCEPT !.step = IF w.offset + w.size < w.total THEN "turn" ELSE "done",
                       !.torn = w.torn \/ n # w.total,
                       !.seen = w.seen \o PageOf(rows, order, offset, size)]
  <2>1. PICK page : page = ClampPage(w.size, w.offset)
    OBVIOUS
  <2>2. page.limit = size /\ page.offset = offset
    BY <1>4, <2>1
  <2>3. \E order \in Orders(w.list, rows) :
           v = [w EXCEPT
                 !.step = IF w.offset + w.size < w.total THEN "turn" ELSE "done",
                 !.torn = w.torn \/ n # w.total,
                 !.seen = w.seen \o PageRows(order, page, n)]
    BY <1>3, <1>w, <1>v, <1>n, <2>1 DEF FetchRows
  <2>4. \A order : PageRows(order, page, n) = PageOf(rows, order, offset, size)
    BY <1>5, <1>c, <1>n, <2>2 DEF PageRows, PageOf, Page
  <2> QED BY <2>3, <2>4
<1>p. PICK page : page = PageOf(rows, order, offset, size)
  OBVIOUS
<1>q. PICK all : all = w.seen \o page
  OBVIOUS
<1>e. PICK torn \in BOOLEAN : torn = (w.torn \/ n # w.total)
  OBVIOUS
<1>7. /\ page \in Seq(Entry) /\ Len(page) = count
      /\ \A k \in 1..count : page[k].rank = offset + k /\ \E r \in rows : r.id = page[k].id
      /\ \A r \in rows :
            offset < Pos(w.list, rows, r) /\ Pos(w.list, rows, r) <= offset + size =>
               /\ Pos(w.list, rows, r) - offset \in 1..count
               /\ page[Pos(w.list, rows, r) - offset].id = r.id
  <2>1. PICK list \in Lists : list = w.list
    BY <1>1, WalkFields
  <2>2. order \in Orders(list, rows)
    BY <2>1
  <2>3. page \in Seq(Entry) /\ Len(page) = Fits(offset, size, Cardinality(rows))
    BY <1>ok, <1>p, <2>2, PageShows
  <2>4. \A k \in 1..Len(page) :
            page[k].rank = offset + k /\ \E r \in rows : r.id = page[k].id
    BY <1>ok, <1>p, <2>2, PageShows
  <2>5. \A r \in rows :
            offset < Pos(list, rows, r) /\ Pos(list, rows, r) <= offset + size =>
               /\ Pos(list, rows, r) - offset \in 1..Len(page)
               /\ page[Pos(list, rows, r) - offset].id = r.id
    BY <1>ok, <1>p, <2>2, PageShows
  <2> QED BY <1>n, <1>c, <2>1, <2>3, <2>4, <2>5
<1>s. PICK m \in Nat : m = Len(w.seen)
  BY <1>1, WalkFields
<1>8. /\ all \in Seq(Entry) /\ Len(all) = m + count
      /\ \A k \in 1..m : all[k] = w.seen[k]
      /\ \A k \in 1..count : all[m + k] = page[k]
  <2>1. PICK old \in Seq(Entry) : old = w.seen
    BY <1>1, WalkFields
  <2>2. page \in Seq(Entry) /\ Len(page) = count
    BY <1>7
  <2>3. all = old \o page /\ m = Len(old)
    BY <1>q, <1>s, <2>1
  <2>4. all \in Seq(Entry) /\ Len(all) = Len(old) + Len(page)
    BY <2>1, <2>2, <2>3, PagesJoin
  <2>5. \A k \in 1..Len(old) : all[k] = old[k]
    BY <2>1, <2>2, <2>3, PagesJoin
  <2>6. \A k \in 1..Len(page) : all[Len(old) + k] = page[k]
    BY <2>1, <2>2, <2>3, PagesJoin
  <2> QED BY <2>1, <2>2, <2>3, <2>4, <2>5, <2>6
<1>9. v = [w EXCEPT !.step = IF offset + size < w.total THEN "turn" ELSE "done",
                    !.torn = torn, !.seen = all]
  BY <1>6, <1>o, <1>z, <1>p, <1>q, <1>e
<1>10. /\ v \in Walks /\ v.step = (IF offset + size < w.total THEN "turn" ELSE "done")
       /\ v.torn = torn /\ v.seen = all /\ v.offset = offset /\ v.size = size
       /\ v.list = w.list /\ v.who = w.who /\ v.began = w.began /\ v.since = w.since
       /\ v.total = w.total
  BY <1>1, <1>8, <1>9, <1>o, <1>z DEF Walks
<1>t. PICK total \in Nat : total = w.total
  BY <1>1, WalkFields
<1>11. \A r \in rows : Pos(w.list, rows, r) \in 1..n
  BY <1>1, <1>ok, <1>n, WalkFields, PosBounds
<1>12. Passed(w) = offset
  BY <1>1, <1>o DEF Passed
<1>13. NothingSkipped(v, rows)
  <2> SUFFICES ASSUME w.list = "attempts" PROVE NothingSkipped(v, rows)
    BY <1>10 DEF NothingSkipped
  <2>1. w.began \subseteq rows
    BY <1>2 DEF NothingSkipped
  <2>2. ASSUME ~torn, NEW r \in w.began, v.step = "done" \/ Pos(w.list, rows, r) <= Passed(v)
        PROVE  r.id \in Shown(v)
    <3>1. PICK k \in 1..n : k = Pos(w.list, rows, r)
      BY <1>11, <2>1
    <3>2. n = total /\ ~w.torn
      BY <1>e, <1>t, <2>2
    <3>3. k <= offset + size
      <4>1. CASE v.step = "done"
        BY <1>10, <1>t, <3>2, <4>1
      <4>2. CASE v.step # "done"
        BY <1>10, <2>2, <3>1, <4>2 DEF Passed
      <4> QED BY <4>1, <4>2
    <3>4. CASE k <= offset
      <4>1. r.id \in Shown(w)
        BY <1>2, <1>12, <3>1, <3>2, <3>4 DEF NothingSkipped
      <4>2. PICK j \in 1..m : w.seen[j].id = r.id
        BY <1>s, <4>1 DEF Shown
      <4>3. j \in 1..Len(v.seen) /\ v.seen[j].id = r.id
        BY <1>8, <1>10, <4>2
      <4> QED BY <4>3 DEF Shown
    <3>5. CASE offset < k
      <4>1. k - offset \in 1..count /\ page[k - offset].id = r.id
        BY <1>7, <2>1, <3>1, <3>3, <3>5
      <4>2. PICK j \in 1..count : j = k - offset
        BY <4>1
      <4>3. m + j \in 1..Len(v.seen) /\ v.seen[m + j].id = r.id
        BY <1>8, <1>10, <4>1, <4>2
      <4> QED BY <4>3 DEF Shown
    <3> QED BY <3>4, <3>5
  <2> QED BY <1>10, <2>1, <2>2 DEF NothingSkipped
<1>14. InPlace(v, rows, now)
  <2>1. v.since <= now /\ (v.since = now => Grown(v.began, rows))
    BY <1>2, <1>10 DEF InPlace
  <2> SUFFICES ASSUME v.since = now, rows = v.began
               PROVE  /\ v.total = n
                      /\ Len(all) = IF v.step = "done" THEN n ELSE Passed(v)
                      /\ Passed(v) <= n
                      /\ \A k \in 1..Len(all) :
                            all[k].rank = k /\ \E r \in rows : r.id = all[k].id
                      /\ \A r \in rows : Pos(w.list, rows, r) <= Len(all) =>
                            all[Pos(w.list, rows, r)].id = r.id
    BY <1>n, <1>10, <2>1 DEF InPlace
  <2>2. /\ w.total = n /\ m = offset /\ offset <= n
        /\ \A k \in 1..m : w.seen[k].rank = k /\ \E r \in rows : r.id = w.seen[k].id
        /\ \A r \in rows : Pos(w.list, rows, r) <= m => w.seen[Pos(w.list, rows, r)].id = r.id
    BY <1>1, <1>2, <1>10, <1>12, <1>n, <1>s DEF InPlace
  <2>3. Len(all) = offset + count /\ offset + count <= n
    BY <1>8, <1>c, <2>2
  <2>4. Len(all) = (IF v.step = "done" THEN n ELSE Passed(v)) /\ Passed(v) <= n
    <3>1. CASE offset + size < n
      <4>1. v.step = "turn" /\ Passed(v) = offset + size
        BY <1>10, <2>2, <3>1 DEF Passed
      <4> QED BY <1>c, <2>3, <3>1, <4>1
    <3>2. CASE ~(offset + size < n)
      <4>1. v.step = "done" /\ Passed(v) = offset
        BY <1>10, <2>2, <3>2 DEF Passed
      <4> QED BY <1>c, <2>2, <2>3, <3>2, <4>1
    <3> QED BY <3>1, <3>2
  <2>5. ASSUME NEW k \in 1..Len(all)
        PROVE  all[k].rank = k /\ \E r \in rows : r.id = all[k].id
    <3>1. CASE k <= offset
      <4>1. k \in 1..m /\ all[k] = w.seen[k]
        BY <1>8, <2>2, <3>1
      <4> QED BY <2>2, <4>1
    <3>2. CASE offset < k
      <4>1. PICK j \in 1..count : j = k - offset /\ m + j = k
        BY <2>2, <2>3, <3>2
      <4>2. all[k] = page[j] /\ offset + j = k
        BY <1>8, <4>1
      <4>3. page[j].rank = offset + j /\ \E r \in rows : r.id = page[j].id
        BY <1>7
      <4> QED BY <4>2, <4>3
    <3> QED BY <3>1, <3>2
  <2>6. ASSUME NEW r \in rows, Pos(w.list, rows, r) <= Len(all)
        PROVE  all[Pos(w.list, rows, r)].id = r.id
    <3>1. PICK k \in 1..n : k = Pos(w.list, rows, r)
      BY <1>11
    <3>2. CASE k <= offset
      <4>1. k \in 1..m /\ all[k] = w.seen[k]
        BY <1>8, <2>2, <3>2
      <4> QED BY <2>2, <3>1, <4>1
    <3>3. CASE offset < k
      <4>1. k <= offset + size
        BY <1>c, <2>3, <2>6, <3>1
      <4>2. PICK j \in 1..count : j = k - offset /\ m + j = k /\ page[j].id = r.id
        BY <1>7, <2>2, <3>1, <3>3, <4>1
      <4> QED BY <1>8, <3>1, <4>2
    <3> QED BY <3>2, <3>3
  <2> QED BY <1>10, <2>2, <2>4, <2>5, <2>6
<1> QED BY <1>1, <1>10, <1>13, <1>14, <1>r, <1>w, <1>v, ClientStep DEF FetchRows

LEMMA ListsNextInv == ListsInv /\ [ListsNext]_listsVars => ListsInv'
<1> SUFFICES ASSUME ListsInv, [ListsNext]_listsVars PROVE ListsInv'
  OBVIOUS
<1>1. CASE \/ \E u \in Members \cup Staff, xp \in Gains, at \in 1..MaxNow : Record(u, xp, at)
           \/ \E i \in 1..Len(made) : Reward(i)
           \/ Tick
  BY <1>1, WorldMoves, WorldKeepsInv
<1>2. CASE \E u \in Members \cup Staff, list \in {"attempts", "global", "weekly"},
              size \in PageSizes : StartWalk(u, list, size)
  BY <1>2, StartWalkKeeps DEF Lists
<1>3. CASE CountRows \/ FetchRows \/ TurnPage
  BY <1>3, CountRowsKeeps, FetchRowsKeeps, TurnPageKeeps
<1>4. CASE UNCHANGED listsVars
  <2>1. UNCHANGED <<now, made, paid, walk>> /\ Walked' = Walked
    BY <1>4 DEF listsVars, Walked
  <2> QED BY <2>1 DEF ListsInv, ListsTypes
<1> QED BY <1>1, <1>2, <1>3, <1>4 DEF ListsNext

LEMMA ListsInvMissesNothing == ListsInv => WalkMissesNothing
<1> SUFFICES ASSUME ListsInv, walk.step = "done" PROVE WalkMissesNothing
  BY DEF WalkMissesNothing
<1>r. PICK rows : rows = Walked
  OBVIOUS
<1>1. walk \in Walks /\ walk # NoWalk /\ walk.step = "done"
  BY IsAWalk DEF ListsInv
<1>2. NothingSkipped(walk, rows) /\ InPlace(walk, rows, now)
  BY <1>1, <1>r DEF ListsInv
<1>3. RowsFor(walk.list, walk.who) = rows
  BY <1>1, <1>r, WalkFields, RowsForIs DEF Walked
<1>ok. RowsOK(rows)
  BY <1>1, <1>r, WalkedIsOK DEF ListsInv
<1>i. PICK ids : ids = {walk.seen[k].id : k \in DOMAIN walk.seen}
  OBVIOUS
<1>o. PICK old : old = {row.id : row \in walk.began}
  OBVIOUS
<1>m. PICK m \in Nat : m = Len(walk.seen) /\ DOMAIN walk.seen = 1..m
  BY <1>1, WalkFields
<1>4. ids = Shown(walk)
  BY <1>i, <1>m DEF Shown
<1>5. ASSUME walk.list = "attempts", ~walk.torn PROVE old \subseteq ids
  BY <1>1, <1>2, <1>4, <1>5, <1>o DEF NothingSkipped
<1>6. ASSUME walk.since = now, rows = walk.began
      PROVE  /\ ids = old /\ m = Cardinality(old)
             /\ \A k \in 1..m : walk.seen[k].rank = k
  <2>1. /\ m = Cardinality(rows)
        /\ \A k \in 1..m : walk.seen[k].rank = k /\ \E r \in rows : r.id = walk.seen[k].id
        /\ \A r \in rows : Pos(walk.list, rows, r) <= m => walk.seen[Pos(walk.list, rows, r)].id = r.id
    BY <1>1, <1>2, <1>6, <1>m DEF InPlace
  <2>2. ASSUME NEW r \in rows PROVE \E k \in 1..m : walk.seen[k].id = r.id
    <3>1. PICK k \in 1..m : k = Pos(walk.list, rows, r)
      BY <1>1, <1>ok, <2>1, WalkFields, PosBounds
    <3> QED BY <2>1, <3>1
  <2>3. ids = old
    <3>1. \A x : x \in ids <=> \E k \in 1..m : x = walk.seen[k].id
      BY <1>i, <1>m
    <3>2. \A x : x \in old <=> \E r \in rows : x = r.id
      BY <1>o, <1>6
    <3>3. \A k \in 1..m : \E r \in rows : r.id = walk.seen[k].id
      BY <2>1
    <3>4. \A x : x \in ids <=> x \in old
      BY <2>2, <3>1, <3>2, <3>3
    <3> QED BY <1>i, <1>o, <3>4
  <2>4. Cardinality(old) = Cardinality(rows)
    <3> DEFINE h == [r \in rows |-> r.id]
    <3>1. \A r \in rows : h[r] = r.id /\ h[r] \in old
      BY <1>o, <1>6
    <3>2. h \in [rows -> old] /\ DOMAIN h = rows
      BY <3>1
    <3>3. \A a, b \in rows : h[a] = h[b] => a = b
      BY <1>ok, <3>1 DEF RowsOK
    <3>4. \A x \in old : \E r \in rows : h[r] = x
      BY <1>o, <1>6, <3>1
    <3> HIDE DEF h
    <3>5. h \in Injection(rows, old)
      BY <3>2, <3>3 DEF Injection, IsInjective
    <3>6. h \in Surjection(rows, old)
      BY <3>2, <3>4 DEF Surjection
    <3>7. h \in Bijection(rows, old)
      BY <3>5, <3>6 DEF Bijection
    <3> QED BY <1>ok, <3>7, FS_Bijection DEF ExistsBijection, RowsOK
  <2> QED BY <2>1, <2>3, <2>4
<1>7. walk.since = now /\ RowsFor(walk.list, walk.who) = walk.began =>
         /\ ids = old /\ Len(walk.seen) = Cardinality(old)
         /\ \A k \in DOMAIN walk.seen : walk.seen[k].rank = k
  BY <1>3, <1>6, <1>m
<1> QED BY <1>5, <1>7, <1>i, <1>o DEF WalkMissesNothing

(* Whoever turns the pages of his history, however many attempts are       *)
(* committed meanwhile, misses none that was there when he began, unless   *)
(* one came between the two queries of a response; and a list that did not *)
(* change he sees whole, every row once and at its rank.  For any number   *)
(* of users, attempts and pages, and any width of the weekly window.       *)
THEOREM PagesMissNothing == ListsSpec => []WalkMissesNothing
BY ListsInitInv, ListsNextInv, ListsInvMissesNothing, PTL DEF ListsSpec

(* The run's specification, one scene at a time, is the writer's and both  *)
(* readers' at once: what is shown of them holds of it.                    *)
THEOREM ScenesAreApart == RecordsSpec => Spec /\ PageSpec /\ ListsSpec
<1>1. RecordsInit => Init /\ PageInit /\ ListsInit
  BY DEF RecordsInit
<1>2. [RecordsNext]_recordsVars => [Next]_vars /\ [PageNext]_pageVars /\ [ListsNext]_listsVars
  <2>1. CASE RecordsNext
    BY <2>1 DEF RecordsNext, vars, pageVars, listsVars
  <2>2. CASE UNCHANGED recordsVars
    BY <2>2 DEF recordsVars, vars, pageVars, listsVars
  <2> QED BY <2>1, <2>2
<1> QED BY <1>1, <1>2, PTL DEF RecordsSpec, Spec, PageSpec, ListsSpec
=============================================================================
