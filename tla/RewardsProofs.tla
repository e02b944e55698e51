---------------------------- MODULE RewardsProofs ----------------------------
(***************************************************************************)
(* For any users, tasks, rewards, bounds and number of redeliveries.       *)
(* IInv: an attempt is paid at most once, and a solved task pays no more;  *)
(* the argument rests on the numbers of a user's attempts at a task        *)
(* growing with the ids, so that an attempt made later can never take an   *)
(* earlier one's place.  BooksInv: the accounts are what the log adds up   *)
(* to.  StreakInv: as long as nothing is delivered again, informs are      *)
(* taken in the order of the days, and the streaks are those of the days.  *)
(***************************************************************************)
EXTENDS Rewards, SumProofs

Ids == 1..Len(attempts)

(* The attempts of the same user at the same task, made before i.          *)
Earlier(i) == {j \in 1..(i - 1) : Same(i, j)}

NumbersCount == \A i \in Ids : attempts[i].number = Cardinality(Earlier(i)) + 1

(* No attempt is paid twice, whatever is delivered twice.                  *)
AttemptPaidOnce ==
    \A k, l \in 1..Len(xpLog) :
        xpLog[k].attempt # NoAttempt /\ xpLog[k].attempt = xpLog[l].attempt => k = l

LogInv == \A k \in 1..Len(xpLog) : xpLog[k].attempt \in {NoAttempt} \cup Ids

TablesOK ==
    /\ today \in 1..MaxDay
    /\ attempts \in Seq(Attempt)
    /\ informs \in Seq(Ids)
    /\ xpLog \in Seq([user : Users, attempt : Nat, delta : Int, reason : Badges \cup {"attempt"}])

IInv == TablesOK /\ NumbersCount /\ LogInv /\ AttemptPaidOnce /\ SolvedTaskPaysNoMore

(* SetToSeq lists the members of a finite set and nothing else.            *)
LEMMA SetToSeqRange ==
    ASSUME NEW S, IsFiniteSet(S)
    PROVE  SetToSeq(S) \in Seq(S)
<1>1. Cardinality(S) \in Nat /\ ExistsBijection(1..Cardinality(S), S)
  BY FS_CardinalityType
<1>2. \E f \in [1..Cardinality(S) -> S] : IsInjective(f)
  BY <1>1 DEF ExistsBijection, Bijection, Injection, IsInjective
<1>3. SetToSeq(S) \in [1..Cardinality(S) -> S]
  BY <1>2 DEF SetToSeq
<1> QED BY <1>1, <1>3

LEMMA BadgesFinite == IsFiniteSet(Badges)
<1>1. IsFiniteSet({"first_correct", "join_master", "null_ninja", "streak_7", "explorer"})
  <2>1. IsFiniteSet({"first_correct"})
    BY FS_Singleton
  <2>2. IsFiniteSet({"first_correct"} \cup {"join_master"})
    BY <2>1, FS_AddElement
  <2>3. IsFiniteSet({"first_correct"} \cup {"join_master"} \cup {"null_ninja"})
    BY <2>2, FS_AddElement
  <2>4. IsFiniteSet({"first_correct"} \cup {"join_master"} \cup {"null_ninja"} \cup {"streak_7"})
    BY <2>3, FS_AddElement
  <2>5. IsFiniteSet({"first_correct"} \cup {"join_master"} \cup {"null_ninja"} \cup {"streak_7"}
                    \cup {"explorer"})
    BY <2>4, FS_AddElement
  <2>6. {"first_correct", "join_master", "null_ninja", "streak_7", "explorer"} =
        {"first_correct"} \cup {"join_master"} \cup {"null_ninja"} \cup {"streak_7"} \cup {"explorer"}
    OBVIOUS
  <2> QED BY <2>5, <2>6
<1> QED BY <1>1 DEF Badges

(* The badge rows of a transaction belong to no attempt.                   *)
LEMMA BadgeRowsType ==
    ASSUME TablesOK, NEW i \in Ids, NEW known
    PROVE  BadgeRows(i, known) \in Seq([user : Users, attempt : {NoAttempt}, delta : Nat,
                                 reason : Badges])
<1> DEFINE Row(b) == [user |-> attempts[i].user, attempt |-> NoAttempt,
                      delta |-> BadgeXp[b], reason |-> b]
           S == {Row(b) : b \in Paying(i, known)}
           T == [user : Users, attempt : {NoAttempt}, delta : Nat, reason : Badges]
<1>1. Paying(i, known) \subseteq Badges
  BY DEF Paying, NewBadges, EarnedNow
<1>2. IsFiniteSet(Paying(i, known))
  BY <1>1, BadgesFinite, FS_Subset
<1>3. IsFiniteSet(S)
  <2> DEFINE f == [b \in Paying(i, known) |-> Row(b)]
  <2> HIDE DEF Row
  <2>1. f \in Surjection(Paying(i, known), S)
    BY DEF Surjection
  <2> QED BY <1>2, <2>1, FS_Surjection
<1>4. attempts[i].user \in Users
  <2>1. attempts[i] \in Attempt
    BY DEF TablesOK, Ids
  <2> QED BY <2>1 DEF Attempt
<1>5. S \subseteq T
  BY <1>1, <1>4, RewardsAssumption
<1>6. BadgeRows(i, known) = SetToSeq(S)
  BY DEF BadgeRows
<1>7. BadgeRows(i, known) \in Seq(S)
  <2> HIDE DEF S
  <2> QED BY <1>3, <1>6, SetToSeqRange
<1> HIDE DEF S, T
<1>8. BadgeRows(i, known) \in Seq(T)
  BY <1>5, <1>7
<1> QED BY <1>8 DEF T

LEMMA ComputeXpType ==
    ASSUME NEW d \in 1..5, NEW v \in Verdicts, NEW n \in Nat
    PROVE  ComputeXp(d, v, n) \in Nat
<1> DEFINE factor == CASE v = "correct" -> 2
                       [] v = "partial" -> 1
                       [] v = "incorrect" -> 0
           bonus == CASE n = 1 -> 4 [] n = 2 -> 3 [] OTHER -> 2
<1>1. factor \in {0, 1, 2}
  BY DEF Verdicts
<1>2. bonus \in {2, 3, 4}
  OBVIOUS
<1>3. ComputeXp(d, v, n) = (10 * d * factor * bonus + 2) \div 4
  BY DEF ComputeXp
<1> HIDE DEF factor, bonus
<1>4. 10 * d * factor * bonus \in Nat
  BY <1>1, <1>2
<1> QED BY <1>3, <1>4

LEMMA DeltaType ==
    ASSUME TablesOK, NEW i \in Ids
    PROVE  Delta(i) \in Nat
<1>1. attempts[i] \in Attempt
  BY DEF TablesOK, Ids
<1>2. Difficulty[attempts[i].task] \in 1..5
  BY <1>1, RewardsAssumption DEF Attempt
<1> QED BY <1>1, <1>2, ComputeXpType DEF Delta, Attempt

NumbersGrow ==
    \A i, j \in Ids : Same(i, j) /\ i < j => attempts[i].number < attempts[j].number

LEMMA Growing == TablesOK /\ NumbersCount => NumbersGrow
<1> SUFFICES ASSUME TablesOK, NumbersCount, NEW i \in Ids, NEW j \in Ids, Same(i, j), i < j
             PROVE  attempts[i].number < attempts[j].number
  BY DEF NumbersGrow
<1>0. Len(attempts) \in Nat /\ Ids \subseteq Nat
  BY DEF TablesOK, Ids
<1>1. Earlier(i) \cup {i} \subseteq Earlier(j) /\ i \notin Earlier(i)
  <2>1. \A k : Same(i, k) <=> Same(j, k)
    BY DEF Same
  <2>2. i \in Nat /\ j \in Nat /\ i >= 1
    BY <1>0 DEF Ids
  <2>3. i \in 1..(j - 1) /\ 1..(i - 1) \subseteq 1..(j - 1)
    BY <2>2
  <2>4. i \notin 1..(i - 1)
    BY <2>2
  <2>5. Same(j, i)
    BY DEF Same
  <2> QED BY <2>1, <2>3, <2>4, <2>5 DEF Earlier
<1>2. IsFiniteSet(Earlier(i)) /\ IsFiniteSet(Earlier(j))
  <2> SUFFICES ASSUME NEW k \in Nat PROVE IsFiniteSet(Earlier(k))
    BY <1>0
  <2>1. IsFiniteSet(1..(k - 1))
    BY FS_Interval
  <2>2. Earlier(k) \subseteq 1..(k - 1)
    BY DEF Earlier
  <2> QED BY <2>1, <2>2, FS_Subset
<1>3. Cardinality(Earlier(i) \cup {i}) = Cardinality(Earlier(i)) + 1
  BY <1>1, <1>2, FS_AddElement
<1>4. Cardinality(Earlier(i)) + 1 <= Cardinality(Earlier(j))
  BY <1>1, <1>2, <1>3, FS_Subset
<1>5. Cardinality(Earlier(i)) \in Nat /\ Cardinality(Earlier(j)) \in Nat
  BY <1>2, FS_CardinalityType
<1> QED BY <1>4, <1>5 DEF NumbersCount

LEMMA InitInv == Init => IInv
<1> SUFFICES ASSUME Init PROVE IInv
  OBVIOUS
<1>1. Ids = {} /\ 1..Len(xpLog) = {}
  BY DEF Init, Ids
<1>2. TablesOK
  BY RewardsAssumption DEF Init, TablesOK
<1> QED BY <1>1, <1>2 DEF IInv, NumbersCount, LogInv, AttemptPaidOnce, SolvedTaskPaysNoMore, Ids

(* Nothing but the mailbox and the calendar changes.                       *)
LEMMA QuietStep ==
    ASSUME IInv, UNCHANGED <<attempts, xpLog>>, today' \in 1..MaxDay, informs' \in Seq(Ids)
    PROVE  IInv'
<1>1. \A i, j : Same(i, j)' <=> Same(i, j)
  BY DEF Same
<1>2. Ids' = Ids /\ \A i : Earlier(i)' = Earlier(i)
  BY DEF Ids, Earlier, Same
<1>3. TablesOK'
  BY <1>2 DEF IInv, TablesOK
<1>4. NumbersCount'
  BY <1>2 DEF IInv, NumbersCount
<1> QED BY <1>1, <1>2, <1>3, <1>4 DEF IInv, LogInv, AttemptPaidOnce, SolvedTaskPaysNoMore

LEMMA EvaluateStep ==
    ASSUME IInv, NEW u \in Users, NEW t \in Tasks, NEW v \in Verdicts, Evaluate(u, t, v)
    PROVE  IInv'
<1>1. PICK n \in Nat : n = Len(attempts)
  BY DEF IInv, TablesOK
<1> DEFINE before == {j \in Of(u) : attempts[j].task = t}
           new == [user |-> u, task |-> t, verdict |-> v, day |-> today,
                   number |-> Cardinality(before) + 1, xp |-> 0]
<1>t. attempts \in Seq(Attempt) /\ informs \in Seq(Ids)
  BY DEF IInv, TablesOK
<1>2. attempts' = Append(attempts, new) /\ informs' = Append(informs, Len(attempts'))
  BY DEF Evaluate
<1>3. Cardinality(before) \in Nat
  <2>1. IsFiniteSet(1..n) /\ before \subseteq 1..n
    BY <1>1, FS_Interval DEF Of
  <2> QED BY <2>1, FS_Subset, FS_CardinalityType
<1>4. new \in Attempt
  BY <1>3 DEF Attempt, IInv, TablesOK
<1>5. Len(attempts') = n + 1 /\ Ids' = Ids \cup {n + 1} /\ Ids = 1..n
  BY <1>1, <1>t, <1>2, <1>4 DEF Ids
<1>6. attempts'[n + 1] = new /\ \A i \in Ids : attempts'[i] = attempts[i]
  BY <1>1, <1>t, <1>2, <1>4 DEF Ids
<1>7. TablesOK'
  <2>1. attempts' \in Seq(Attempt)
    BY <1>t, <1>2, <1>4
  <2>2. informs' \in Seq(Ids')
    <3>1. informs \in Seq(Ids')
      <4>1. Ids \subseteq Ids'
        BY <1>5
      <4> HIDE DEF Ids
      <4> QED BY <4>1, <1>t
    <3>2. Len(attempts') \in Ids'
      BY <1>5
    <3> HIDE DEF Ids
    <3> QED BY <1>2, <3>1, <3>2
  <2> QED BY <2>1, <2>2 DEF IInv, TablesOK, Evaluate
<1>8. NumbersCount'
  <2>1. \A i \in Ids : Earlier(i)' = Earlier(i)
    BY <1>1, <1>5, <1>6 DEF Earlier, Same
  <2>2. Earlier(n + 1)' = before
    BY <1>1, <1>5, <1>6 DEF Earlier, Same, Of
  <2>3. \A i \in Ids : attempts'[i].number = Cardinality(Earlier(i)') + 1
    BY <1>6, <2>1 DEF IInv, NumbersCount
  <2>4. attempts'[n + 1].number = Cardinality(Earlier(n + 1)') + 1
    <3>1. attempts'[n + 1].number = Cardinality(before) + 1
      BY <1>6
    <3> HIDE DEF before
    <3> QED BY <2>2, <3>1
  <2> QED BY <1>5, <2>3, <2>4 DEF NumbersCount
<1>9. xpLog' = xpLog
  BY DEF Evaluate
<1>10. LogInv' /\ AttemptPaidOnce'
  BY <1>5, <1>9 DEF IInv, LogInv, AttemptPaidOnce
<1>11. SolvedTaskPaysNoMore'
  <2> SUFFICES ASSUME NEW k \in 1..Len(xpLog), NEW j \in Ids', NEW i, i = xpLog[k].attempt,
                      i # NoAttempt, Same(i, j)', attempts'[j].verdict = "correct"
               PROVE  attempts'[i].number <= attempts'[j].number
    BY <1>9 DEF SolvedTaskPaysNoMore, Ids, Same
  <2>1. i \in Ids
    BY DEF IInv, LogInv
  <2>2. CASE j \in Ids
    <3>1. Same(i, j)
      BY <1>6, <2>1, <2>2 DEF Same
    <3> QED BY <1>6, <2>1, <2>2, <3>1 DEF IInv, SolvedTaskPaysNoMore, Ids
  <2>3. CASE j = n + 1
    <3>1. i \in Ids' /\ i < j
      BY <1>1, <1>5, <2>1, <2>3
    <3>2. NumbersGrow'
      BY <1>7, <1>8, Growing, PTL
    <3>3. attempts'[i].number < attempts'[j].number
      BY <3>1, <3>2 DEF NumbersGrow
    <3>4. attempts'[i] \in Attempt /\ attempts'[j] \in Attempt
      BY <1>7, <3>1 DEF TablesOK, Ids
    <3> QED BY <3>3, <3>4 DEF Attempt
  <2> QED BY <1>5, <2>2, <2>3
<1> QED BY <1>7, <1>8, <1>10, <1>11 DEF IInv

Logged == [user : Users, attempt : Nat, delta : Int, reason : Badges \cup {"attempt"}]

(* log continues xpLog by rows of badges and at most one of attempt i,     *)
(* which has none yet and whose task is not solved earlier.                *)
Continues(log, i) ==
    /\ log \in Seq(Logged)
    /\ Len(log) \in Nat /\ Len(xpLog) <= Len(log)
    /\ \A k \in 1..Len(xpLog) : log[k] = xpLog[k]
    /\ \A k \in 1..Len(log) : k > Len(xpLog) =>
          \/ log[k].attempt = NoAttempt
          \/ /\ k = Len(xpLog) + 1 /\ log[k].attempt = i
             /\ ~ AlreadySolved(i)
             /\ \A m \in 1..Len(xpLog) : xpLog[m].attempt # i

(* What one transaction appends to the log.                                *)
LEMMA AppendedRows ==
    ASSUME TablesOK, NEW i \in Ids, NEW known
    PROVE  Continues(xpLog \o AttemptRow(i) \o BadgeRows(i, known), i)
<1> DEFINE T == Logged
           log == xpLog \o AttemptRow(i) \o BadgeRows(i, known)
           B == [user : Users, attempt : {NoAttempt}, delta : Nat, reason : Badges]
<1>1. PICK own : own = AttemptRow(i)
  OBVIOUS
<1>2. PICK rows : rows = BadgeRows(i, known)
  OBVIOUS
<1>3. B \subseteq T
  BY DEF NoAttempt, Logged
<1>4. rows \in Seq(B)
  BY <1>2, BadgeRowsType
<1>5. \/ own = <<>>
      \/ /\ own \in Seq(T) /\ Len(own) = 1 /\ own[1].attempt = i
         /\ ~ AlreadySolved(i)
         /\ \A m \in 1..Len(xpLog) : xpLog[m].attempt # i
  <2>1. CASE Delta(i) > 0 /\ \A m \in 1..Len(xpLog) : xpLog[m].attempt # i
    <3> DEFINE row == [user |-> attempts[i].user, attempt |-> i, delta |-> Delta(i),
                       reason |-> "attempt"]
    <3>1. own = <<row>>
      BY <1>1, <2>1 DEF AttemptRow
    <3>2. row \in T
      <4>1. attempts[i] \in Attempt
        BY DEF TablesOK, Ids
      <4>2. attempts[i].user \in Users /\ i \in Nat /\ Delta(i) \in Int
        BY <4>1, DeltaType DEF Attempt, Ids, TablesOK
      <4> QED BY <4>2 DEF Logged
    <3>3. ~ AlreadySolved(i)
      BY <2>1 DEF Delta
    <3>4. row.attempt = i
      OBVIOUS
    <3> HIDE DEF row, T
    <3> QED BY <2>1, <3>1, <3>2, <3>3, <3>4
  <2>2. CASE ~ (Delta(i) > 0 /\ \A m \in 1..Len(xpLog) : xpLog[m].attempt # i)
    BY <1>1, <2>2 DEF AttemptRow
  <2> QED BY <2>1, <2>2
<1>6. xpLog \in Seq(T)
  BY DEF TablesOK, Logged
<1>7. log = (xpLog \o own) \o rows
  BY <1>1, <1>2
<1>8. \A r \in B : r.attempt = NoAttempt
  OBVIOUS
<1> HIDE DEF T, B, log
<1>9. own \in Seq(T) /\ rows \in Seq(T) /\ Len(own) \in {0, 1}
  <2>1. rows \in Seq(T)
    BY <1>3, <1>4
  <2>2. <<>> \in Seq(T) /\ Len(<<>>) = 0
    OBVIOUS
  <2>3. own \in Seq(T)
    BY <1>5, <2>2
  <2>4. Len(own) \in {0, 1}
    BY <1>5, <2>2
  <2> QED BY <2>1, <2>3, <2>4
<1>10. log \in Seq(T) /\ Len(log) = Len(xpLog) + Len(own) + Len(rows)
  BY <1>6, <1>7, <1>9
<1>11. \A k \in 1..Len(log) :
          log[k] = IF k <= Len(xpLog) THEN xpLog[k]
                   ELSE IF k <= Len(xpLog) + Len(own) THEN own[k - Len(xpLog)]
                   ELSE rows[k - Len(xpLog) - Len(own)]
  BY <1>6, <1>7, <1>9, <1>10
<1>12. Len(xpLog) \in Nat /\ Len(own) \in Nat /\ Len(rows) \in Nat
  BY <1>6, <1>9
<1>l. Len(log) \in Nat /\ Len(xpLog) <= Len(log)
  BY <1>10, <1>12
<1>13. ASSUME NEW k \in 1..Len(log), k > Len(xpLog)
       PROVE  \/ log[k].attempt = NoAttempt
              \/ /\ k = Len(xpLog) + 1 /\ log[k].attempt = i
                 /\ ~ AlreadySolved(i)
                 /\ \A m \in 1..Len(xpLog) : xpLog[m].attempt # i
  <2>1. CASE k <= Len(xpLog) + Len(own)
    <3>1. Len(own) = 1 /\ k = Len(xpLog) + 1 /\ k - Len(xpLog) = 1
      <4>1. Len(own) = 0 \/ Len(own) = 1
        BY <1>9
      <4>2. k \in Nat
        BY <1>l
      <4>3. Len(own) # 0
        BY <1>12, <1>13, <2>1, <4>2
      <4>4. Len(own) = 1
        BY <4>1, <4>3
      <4>5. k <= Len(xpLog) + 1
        BY <2>1, <4>4
      <4> QED BY <1>12, <1>13, <4>2, <4>4, <4>5
    <3>2. own # <<>>
      <4>1. Len(<<>>) = 0
        OBVIOUS
      <4> QED BY <3>1, <4>1
    <3>3. own[1].attempt = i /\ ~ AlreadySolved(i)
          /\ \A m \in 1..Len(xpLog) : xpLog[m].attempt # i
      BY <1>5, <3>2
    <3>4. log[k] = own[k - Len(xpLog)]
      BY <1>l, <1>11, <1>12, <1>13, <2>1
    <3> QED BY <3>1, <3>3, <3>4
  <2>2. CASE ~ (k <= Len(xpLog) + Len(own))
    <3>1. k - Len(xpLog) - Len(own) \in 1..Len(rows)
      BY <1>l, <1>10, <1>12, <1>13, <2>2
    <3>2. rows[k - Len(xpLog) - Len(own)] \in B
      BY <1>4, <3>1
    <3>3. log[k] = rows[k - Len(xpLog) - Len(own)]
      BY <1>l, <1>11, <1>12, <1>13, <2>2
    <3> QED BY <1>8, <3>2, <3>3
  <2> QED BY <2>1, <2>2
<1>15. \A k \in 1..Len(xpLog) : log[k] = xpLog[k]
  BY <1>11, <1>12, <1>l
<1>16. Continues(log, i)
  BY <1>10, <1>13, <1>l, <1>15 DEF T, Continues
<1> QED BY <1>16 DEF log

LEMMA PersistStep ==
    ASSUME IInv, NEW known, PersistGamification(known)
    PROVE  IInv'
<1>1. PICK i : i = Head(informs)
  OBVIOUS
<1>2. i \in Ids /\ Tail(informs) \in Seq(Ids)
  <2> HIDE DEF Ids
  <2> QED BY <1>1 DEF IInv, TablesOK, PersistGamification
<1>3. PICK log : log = xpLog \o AttemptRow(i) \o BadgeRows(i, known)
  OBVIOUS
<1>4. xpLog' = log /\ informs' = Tail(informs) /\ today' = today
  BY <1>1, <1>3 DEF PersistGamification
<1>5. PICK x : attempts' = [attempts EXCEPT ![i].xp = x] /\ x \in Nat
  <2>1. attempts' = [attempts EXCEPT ![i].xp =
                       IF AttemptRow(i) = <<>> THEN attempts[i].xp ELSE Delta(i)]
    BY <1>1 DEF PersistGamification
  <2>2. attempts[i] \in Attempt
    BY <1>2 DEF IInv, TablesOK, Ids
  <2>3. (IF AttemptRow(i) = <<>> THEN attempts[i].xp ELSE Delta(i)) \in Nat
    BY <1>2, <2>2, DeltaType DEF IInv, Attempt
  <2> QED BY <2>1, <2>3
<1>6. /\ attempts' \in Seq(Attempt) /\ Len(attempts') = Len(attempts)
      /\ \A j \in Ids : /\ attempts'[j].user = attempts[j].user
                        /\ attempts'[j].task = attempts[j].task
                        /\ attempts'[j].number = attempts[j].number
                        /\ attempts'[j].verdict = attempts[j].verdict
  <2>1. attempts \in Seq(Attempt) /\ Len(attempts) \in Nat
    BY DEF IInv, TablesOK
  <2>2. attempts[i] \in Attempt
    BY <1>2, <2>1 DEF Ids
  <2>3. [attempts[i] EXCEPT !.xp = x] \in Attempt
    BY <1>5, <2>2 DEF Attempt
  <2>4. Len(attempts') = Len(attempts) /\ attempts' \in Seq(Attempt)
    BY <1>2, <1>5, <2>1, <2>3 DEF Ids
  <2>5. \A j \in Ids : attempts'[j] = IF j = i THEN [attempts[i] EXCEPT !.xp = x] ELSE attempts[j]
    BY <1>2, <1>5, <2>1 DEF Ids
  <2>6. \A j \in Ids : attempts[j] \in Attempt
    BY <2>1 DEF Ids
  <2> QED BY <2>2, <2>4, <2>5, <2>6 DEF Attempt
<1>7. Ids' = Ids
  BY <1>6 DEF Ids
<1>8. \A j, k \in Ids : Same(j, k)' <=> Same(j, k)
  BY <1>6 DEF Same
<1>9. NumbersCount'
  <2>1. \A j \in Ids : Earlier(j)' = Earlier(j)
    <3> SUFFICES ASSUME NEW j \in Ids PROVE Earlier(j)' = Earlier(j)
      OBVIOUS
    <3>1. 1..(j - 1) \subseteq Ids
      BY DEF Ids, IInv, TablesOK
    <3> QED BY <1>8, <3>1 DEF Earlier
  <2> QED BY <1>6, <1>7, <2>1 DEF IInv, NumbersCount
<1>10. Continues(log, i)
  <2>1. TablesOK
    BY DEF IInv
  <2> QED BY <2>1, <1>2, <1>3, AppendedRows
<1>11. TablesOK'
  BY <1>2, <1>4, <1>6, <1>7, <1>10 DEF IInv, TablesOK, Continues, Logged
<1>12. Len(xpLog) \in Nat
  BY DEF IInv, TablesOK
<1>13. LogInv'
  BY <1>2, <1>4, <1>7, <1>10, <1>12 DEF IInv, LogInv, Continues
<1>14. AttemptPaidOnce'
  <2> SUFFICES ASSUME NEW k \in 1..Len(log), NEW l \in 1..Len(log),
                      log[k].attempt # NoAttempt, log[k].attempt = log[l].attempt
               PROVE  k = l
    BY <1>4 DEF AttemptPaidOnce
  <2>1. CASE k <= Len(xpLog) /\ l <= Len(xpLog)
    BY <1>10, <1>12, <2>1 DEF IInv, AttemptPaidOnce, Continues
  <2>2. CASE k > Len(xpLog) /\ l > Len(xpLog)
    BY <1>10, <1>12, <2>2 DEF Continues
  <2>3. CASE k <= Len(xpLog) /\ l > Len(xpLog)
    BY <1>10, <1>12, <2>3 DEF Continues
  <2>4. CASE k > Len(xpLog) /\ l <= Len(xpLog)
    BY <1>10, <1>12, <2>4 DEF Continues
  <2> QED BY <1>10, <1>12, <2>1, <2>2, <2>3, <2>4 DEF Continues
<1>15. SolvedTaskPaysNoMore'
  <2> SUFFICES ASSUME NEW k \in 1..Len(log), NEW j \in Ids, NEW a, a = log[k].attempt,
                      a # NoAttempt, Same(a, j)', attempts'[j].verdict = "correct"
               PROVE  attempts'[a].number <= attempts'[j].number
    BY <1>4, <1>7 DEF SolvedTaskPaysNoMore, Ids, Same
  <2>1. a \in Ids
    BY <1>4, <1>7, <1>13 DEF LogInv
  <2>2. Same(a, j) /\ attempts[j].verdict = "correct"
    BY <1>6, <1>8, <2>1
  <2>3. attempts[a].number <= attempts[j].number
    <3>1. CASE k <= Len(xpLog)
      <4>1. k \in 1..Len(xpLog) /\ xpLog[k].attempt = a
        BY <1>10, <1>12, <3>1 DEF Continues
      <4>2. j \in 1..Len(attempts) /\ attempts[j].verdict = "correct" /\ Same(a, j)
        BY <2>2 DEF Ids
      <4> QED BY <4>1, <4>2 DEF IInv, SolvedTaskPaysNoMore
    <3>2. CASE k > Len(xpLog)
      <4>1. a = i /\ ~ AlreadySolved(i)
        BY <1>10, <3>2 DEF Continues
      <4>2. ~ (attempts[j].number < attempts[a].number)
        BY <2>2, <4>1 DEF AlreadySolved, Ids
      <4>3. attempts[j] \in Attempt /\ attempts[a] \in Attempt
        BY <2>1 DEF IInv, TablesOK, Ids
      <4> QED BY <4>2, <4>3 DEF Attempt
    <3> QED BY <1>10, <1>12, <3>1, <3>2 DEF Continues
  <2> QED BY <1>6, <2>1, <2>3
<1> QED BY <1>9, <1>11, <1>13, <1>14, <1>15 DEF IInv

LEMMA NextInv == IInv /\ [Next]_vars => IInv'
<1> SUFFICES ASSUME IInv, [Next]_vars PROVE IInv'
  OBVIOUS
<1>1. ASSUME UNCHANGED vars PROVE IInv'
  BY <1>1, QuietStep DEF vars, IInv, TablesOK
<1>2. ASSUME NEW u \in Users, NEW t \in Tasks, NEW v \in Verdicts, Evaluate(u, t, v) PROVE IInv'
  BY <1>2, EvaluateStep
<1>4. ASSUME NEW known, PersistGamification(known) PROVE IInv'
  BY <1>4, PersistStep
<1>5. ASSUME PersistFails PROVE IInv'
  <2>1. Tail(informs) \in Seq(Ids)
    <3> HIDE DEF Ids
    <3> QED BY <1>5 DEF PersistFails, IInv, TablesOK
  <2> QED BY <1>5, <2>1, QuietStep DEF PersistFails, IInv, TablesOK
<1>6. ASSUME NEW i \in 1..Len(attempts), Redeliver(i) PROVE IInv'
  <2>1. Append(informs, i) \in Seq(Ids)
    <3>1. i \in Ids
      BY DEF Ids
    <3> HIDE DEF Ids
    <3> QED BY <3>1 DEF IInv, TablesOK
  <2> QED BY <1>6, <2>1, QuietStep DEF Redeliver, IInv, TablesOK
<1>7. ASSUME Midnight PROVE IInv'
  BY <1>7, RewardsAssumption, QuietStep DEF Midnight, IInv, TablesOK
<1> QED BY <1>1, <1>2, <1>4, <1>5, <1>6, <1>7 DEF Next, GamificationAgent

(* However often informs are delivered and transactions fail, an attempt   *)
(* is paid at most once and no attempt is paid after the one that solved   *)
(* its task.                                                               *)
THEOREM SolvedTaskIsPaidOnce == Spec => [](SolvedTaskPaysNoMore /\ AttemptPaidOnce)
<1>1. IInv => SolvedTaskPaysNoMore /\ AttemptPaidOnce
  BY DEF IInv
<1> QED BY InitInv, NextInv, <1>1, PTL DEF Spec

-----------------------------------------------------------------------------
(* The balance.  What a log holds for a user, and what it holds after rows *)
(* of one user were appended.                                              *)

IndicesOf(log, v) == {k \in 1..Len(log) : log[k].user = v}
Total(log, v) == SumFunctionOnSet(Deltas(log), IndicesOf(log, v))

LEMMA DeltasOf ==
    ASSUME NEW log \in Seq(LogRow)
    PROVE  \A k \in 1..Len(log) : Deltas(log)[k] = log[k].delta /\ Deltas(log)[k] \in Nat
<1>1. \A k \in 1..Len(log) : log[k] \in LogRow
  OBVIOUS
<1> QED BY <1>1 DEF Deltas, LogRow

LEMMA LogFinite ==
    ASSUME NEW log \in Seq(LogRow), NEW A \in SUBSET (1..Len(log))
    PROVE  IsFiniteSet(A) /\ SumFunctionOnSet(Deltas(log), A) \in Nat
<1>1. IsFiniteSet(1..Len(log))
  BY FS_Interval
<1>2. IsFiniteSet(A)
  BY <1>1, FS_Subset
<1>3. \A k \in A : Deltas(log)[k] \in Nat
  BY DeltasOf
<1> QED BY <1>2, <1>3, SumType

LEMMA TotalOfRows ==
    ASSUME NEW log \in Seq(LogRow), NEW rows \in Seq(LogRow), NEW u,
           \A k \in 1..Len(rows) : rows[k].user = u, NEW v
    PROVE  Total(log \o rows, v) = Total(log, v) + (IF v = u THEN SumDeltas(rows) ELSE 0)
<1>n. PICK n \in Nat : n = Len(log)
  OBVIOUS
<1>m. PICK m \in Nat : m = Len(rows)
  OBVIOUS
<1>1. PICK all : all = log \o rows
  OBVIOUS
<1>2. /\ all \in Seq(LogRow) /\ Len(all) = n + m
      /\ \A k \in 1..n : all[k] = log[k]
      /\ \A k \in 1..m : all[n + k] = rows[k]
  BY <1>n, <1>m, <1>1
<1>3. PICK old : old = IndicesOf(log, v)
  OBVIOUS
<1>4. old \subseteq 1..n /\ old \subseteq 1..Len(all)
  BY <1>2, <1>3, <1>n DEF IndicesOf
<1>5. SumFunctionOnSet(Deltas(all), old) = Total(log, v)
  <2> DEFINE h == [k \in old |-> k]
  <2>1. h \in Bijection(old, old)
    BY DEF Bijection, Injection, Surjection, IsInjective
  <2>2. \A k \in old : Deltas(log)[k] \in Nat /\ Deltas(all)[h[k]] = Deltas(log)[k]
    <3>1. \A k \in old : Deltas(log)[k] = log[k].delta /\ Deltas(log)[k] \in Nat
      BY <1>4, <1>n, DeltasOf
    <3>2. \A k \in old : Deltas(all)[k] = all[k].delta
      BY <1>2, <1>4, DeltasOf
    <3> QED BY <1>2, <1>4, <3>1, <3>2
  <2>3. IsFiniteSet(old)
    BY <1>2, <1>4, LogFinite
  <2> HIDE DEF h
  <2> QED BY <1>3, <2>1, <2>2, <2>3, SumMove DEF Total
<1>6. CASE v # u
  <2>1. IndicesOf(all, v) = old
    <3>1. \A k \in 1..(n + m) : k \in 1..n \/ (k - n \in 1..m /\ k = n + (k - n))
      OBVIOUS
    <3>2. \A k \in 1..m : all[n + k].user # v
      BY <1>2, <1>m, <1>6
    <3>3. \A k \in 1..(n + m) : all[k].user = v => k \in 1..n
      BY <3>1, <3>2
    <3>4. \A k : k \in IndicesOf(all, v) <=> k \in 1..(n + m) /\ all[k].user = v
      BY <1>2 DEF IndicesOf
    <3>5. \A k : k \in old <=> k \in 1..n /\ log[k].user = v
      BY <1>3, <1>n DEF IndicesOf
    <3>6. 1..n \subseteq 1..(n + m)
      OBVIOUS
    <3>7. \A k : k \in IndicesOf(all, v) <=> k \in old
      BY <1>2, <3>3, <3>4, <3>5, <3>6
    <3> QED BY <1>3, <3>7 DEF IndicesOf
  <2>2. Total(log, v) \in Nat
    BY <1>3, <1>4, <1>n, LogFinite DEF Total
  <2> QED BY <1>1, <1>5, <1>6, <2>1, <2>2 DEF Total
<1>7. CASE v = u
  <2> DEFINE new == (n + 1)..(n + m)
             h == [k \in 1..m |-> n + k]
  <2>1. IndicesOf(all, v) = old \cup new /\ old \cap new = {} /\ new \subseteq 1..Len(all)
    <3>1. \A k \in 1..(n + m) : k \in 1..n \/ (k \in new /\ k - n \in 1..m /\ k = n + (k - n))
      OBVIOUS
    <3>2. \A k \in new : k \in 1..(n + m) /\ k \notin 1..n
      OBVIOUS
    <3>3. \A k \in new : all[k].user = v
      <4> SUFFICES ASSUME NEW k \in new PROVE all[k].user = v
        OBVIOUS
      <4>1. k - n \in 1..m /\ n + (k - n) = k
        OBVIOUS
      <4>2. all[n + (k - n)] = rows[k - n] /\ rows[k - n].user = u
        BY <1>2, <1>m, <4>1
      <4> QED BY <1>7, <4>1, <4>2
    <3>4. \A k \in 1..n : k \in IndicesOf(all, v) <=> k \in old
      BY <1>2, <1>3, <1>n DEF IndicesOf
    <3> QED BY <1>2, <1>4, <3>1, <3>2, <3>3, <3>4 DEF IndicesOf
  <2>2. h \in Bijection(1..m, new)
    <3>1. \A k \in 1..m : h[k] \in new
      OBVIOUS
    <3>2. \A k, l \in 1..m : h[k] = h[l] => k = l
      OBVIOUS
    <3>3. \A j \in new : j - n \in 1..m /\ h[j - n] = j
      OBVIOUS
    <3> QED BY <3>1, <3>2, <3>3 DEF Bijection, Injection, Surjection, IsInjective
  <2>3. \A k \in 1..m : Deltas(rows)[k] \in Nat /\ Deltas(all)[h[k]] = Deltas(rows)[k]
    <3>1. \A k \in 1..m : h[k] = n + k /\ h[k] \in 1..Len(all)
      BY <1>2
    <3>2. \A k \in 1..m : Deltas(rows)[k] = rows[k].delta /\ Deltas(rows)[k] \in Nat
      BY <1>m, DeltasOf
    <3>3. \A k \in 1..m : Deltas(all)[h[k]] = all[n + k].delta
      BY <1>2, <3>1, DeltasOf
    <3>4. \A k \in 1..m : all[n + k].delta = rows[k].delta
      BY <1>2
    <3> HIDE DEF h
    <3> QED BY <3>2, <3>3, <3>4
  <2>4. IsFiniteSet(1..m)
    BY FS_Interval
  <2> HIDE DEF h, new
  <2>5. SumFunctionOnSet(Deltas(all), new) = SumDeltas(rows)
    BY <1>m, <2>2, <2>3, <2>4, SumMove DEF SumDeltas
  <2>6. SumFunctionOnSet(Deltas(all), old \cup new) =
        SumFunctionOnSet(Deltas(all), old) + SumFunctionOnSet(Deltas(all), new)
    <3>1. IsFiniteSet(old) /\ IsFiniteSet(new)
      BY <1>2, <1>4, <2>1, LogFinite
    <3>2. \A k \in old \cup new : Deltas(all)[k] \in Nat
      BY <1>2, <1>4, <2>1, DeltasOf
    <3> QED BY <2>1, <3>1, <3>2, SumUnion
  <2> QED BY <1>1, <1>5, <1>7, <2>1, <2>5, <2>6 DEF Total
<1> QED BY <1>6, <1>7

LEMMA SumOfOne ==
    ASSUME NEW row \in LogRow
    PROVE  SumDeltas(<<>>) = 0 /\ SumDeltas(<<row>>) = row.delta
<1>1. Len(<<>>) = 0 /\ 1..0 = {}
  OBVIOUS
<1>2. SumDeltas(<<>>) = 0
  BY <1>1, SumEmpty DEF SumDeltas
<1> DEFINE f == Deltas(<<row>>)
<1>3. f[1] = row.delta /\ row.delta \in Nat /\ 1..Len(<<row>>) = {} \cup {1}
  BY DEF Deltas, LogRow
<1> HIDE DEF f
<1>4. SumFunctionOnSet(f, {} \cup {1}) = SumFunctionOnSet(f, {}) + f[1]
  BY <1>3, FS_EmptySet, SumAdd
<1>5. SumFunctionOnSet(f, {} \cup {1}) = row.delta
  BY <1>3, <1>4, SumEmpty
<1> QED BY <1>2, <1>3, <1>5 DEF SumDeltas, f

-----------------------------------------------------------------------------
(* What a transaction appends: the attempt's own row, if it has none, and  *)
(* one row for every new badge that pays.                                  *)

LEMMA SetToSeqBijection ==
    ASSUME NEW S, IsFiniteSet(S)
    PROVE  SetToSeq(S) \in Bijection(1..Cardinality(S), S)
<1>n. PICK n : n = Cardinality(S)
  OBVIOUS
<1>1. n \in Nat /\ ExistsBijection(1..n, S)
  BY <1>n, FS_CardinalityType
<1>2. \E f \in [1..n -> S] : IsInjective(f)
  BY <1>1 DEF ExistsBijection, Bijection, Injection, IsInjective
<1>3. PICK f : f = SetToSeq(S) /\ f \in [1..n -> S] /\ IsInjective(f)
  BY <1>2, <1>n DEF SetToSeq
<1>4. f \in Injection(1..n, S)
  BY <1>3 DEF Injection, IsInjective
<1>5. Cardinality(1..n) = Cardinality(S)
  <2>1. Cardinality(1..n) = IF 1 > n THEN 0 ELSE n - 1 + 1
    BY <1>1, FS_Interval
  <2> QED BY <1>1, <1>n, <2>1
<1>6. f \in Surjection(1..n, S)
  BY <1>4, <1>5, FS_Injection
<1> QED BY <1>3, <1>4, <1>6, <1>n DEF Bijection

(* Every reason of R is the reason of exactly one of the rows.             *)
OneRowEach(rows, R) ==
    \A b \in R : \E k \in 1..Len(rows) : \A l \in 1..Len(rows) : rows[l].reason = b <=> l = k

LEMMA BadgeRowsAre ==
    ASSUME TablesOK, NEW i \in Ids, NEW known, NEW rows, rows = BadgeRows(i, known)
    PROVE  /\ rows \in Seq(LogRow)
           /\ \A k \in 1..Len(rows) : /\ rows[k].user = attempts[i].user
                                      /\ rows[k].attempt = NoAttempt
                                      /\ rows[k].reason \in Paying(i, known)
           /\ OneRowEach(rows, Paying(i, known))
<1> DEFINE Row(b) == [user |-> attempts[i].user, attempt |-> NoAttempt,
                      delta |-> BadgeXp[b], reason |-> b]
           S == {Row(b) : b \in Paying(i, known)}
<1>1. Paying(i, known) \subseteq {b \in Badges : BadgeXp[b] > 0}
  BY DEF Paying, NewBadges, EarnedNow
<1>2. attempts[i].user \in Users
  <2>1. attempts[i] \in Attempt
    BY DEF TablesOK, Ids
  <2> QED BY <2>1 DEF Attempt
<1>3. IsFiniteSet(S)
  <2> DEFINE f == [b \in Paying(i, known) |-> Row(b)]
  <2>1. IsFiniteSet(Paying(i, known))
    BY <1>1, BadgesFinite, FS_Subset
  <2> HIDE DEF Row
  <2>2. f \in Surjection(Paying(i, known), S)
    BY DEF Surjection
  <2> QED BY <2>1, <2>2, FS_Surjection
<1>4. S \subseteq LogRow
  <2> SUFFICES ASSUME NEW b \in Paying(i, known) PROVE Row(b) \in LogRow
    OBVIOUS
  <2>1. b \in Badges /\ BadgeXp[b] \in Nat \ {0}
    BY <1>1, RewardsAssumption
  <2> QED BY <1>2, <2>1 DEF LogRow, NoAttempt
<1>5. rows = SetToSeq(S)
  BY DEF BadgeRows
<1>n. PICK n \in Nat : n = Cardinality(S)
  <2> HIDE DEF S
  <2> QED BY <1>3, FS_CardinalityType
<1>6. rows \in Bijection(1..n, S)
  <2> HIDE DEF S
  <2> QED BY <1>3, <1>5, <1>n, SetToSeqBijection
<1>7. /\ rows \in Seq(S) /\ Len(rows) = n
      /\ \A k \in 1..n : rows[k] \in S
      /\ \A r \in S : \E k \in 1..n : rows[k] = r
      /\ \A k, l \in 1..n : rows[k] = rows[l] => k = l
  <2> HIDE DEF S
  <2>1. rows \in [1..n -> S]
    BY <1>6 DEF Bijection, Injection
  <2>2. rows \in Seq(S) /\ Len(rows) = n
    BY <2>1
  <2> QED BY <1>6, <2>1, <2>2 DEF Bijection, Injection, Surjection, IsInjective
<1>8. \A k \in 1..n : /\ rows[k].user = attempts[i].user
                      /\ rows[k].attempt = NoAttempt
                      /\ rows[k].reason \in Paying(i, known)
                      /\ rows[k] = Row(rows[k].reason)
  BY <1>7
<1>9. ASSUME NEW b \in Paying(i, known)
      PROVE  \E k \in 1..n : \A l \in 1..n : rows[l].reason = b <=> l = k
  <2>1. PICK k \in 1..n : rows[k] = Row(b)
    BY <1>7
  <2>2. rows[k].reason = b
    BY <2>1
  <2>3. ASSUME NEW l \in 1..n, rows[l].reason = b PROVE l = k
    <3>1. rows[l] = Row(b)
      BY <1>8, <2>3
    <3> HIDE DEF Row
    <3> QED BY <1>7, <2>1, <3>1
  <2> QED BY <2>2, <2>3
<1>10. rows \in Seq(LogRow)
  <2> HIDE DEF S
  <2> QED BY <1>4, <1>7
<1>11. OneRowEach(rows, Paying(i, known))
  BY <1>7, <1>9 DEF OneRowEach
<1> QED BY <1>7, <1>8, <1>10, <1>11

LEMMA OwnRowIs ==
    ASSUME TablesOK, NEW i \in Ids, NEW own, own = AttemptRow(i)
    PROVE  /\ own \in Seq(LogRow)
           /\ \A k \in 1..Len(own) : own[k].user = attempts[i].user /\ own[k].reason = "attempt"
           /\ SumDeltas(own) = XpGained(i) /\ XpGained(i) \in Nat
           /\ \/ own = <<>> /\ Len(own) = 0
              \/ /\ own # <<>> /\ Len(own) = 1
                 /\ own[1].attempt = i /\ own[1].delta = Delta(i)
                 /\ \A k \in 1..Len(xpLog) : xpLog[k].attempt # i
<1> DEFINE row == [user |-> attempts[i].user, attempt |-> i, delta |-> Delta(i),
                   reason |-> "attempt"]
<1>1. attempts[i].user \in Users
  <2>1. attempts[i] \in Attempt
    BY DEF TablesOK, Ids
  <2> QED BY <2>1 DEF Attempt
<1>2. Delta(i) \in Nat
  BY DeltaType
<1>3. CASE Delta(i) > 0 /\ \A k \in 1..Len(xpLog) : xpLog[k].attempt # i
  <2>1. own = <<row>>
    BY <1>3 DEF AttemptRow
  <2>2. row \in LogRow /\ row.user = attempts[i].user /\ row.reason = "attempt"
        /\ row.attempt = i /\ row.delta = Delta(i)
    <3>1. i \in Nat /\ Delta(i) \in Nat \ {0}
      BY <1>2, <1>3 DEF Ids
    <3> QED BY <1>1, <3>1 DEF LogRow
  <2> HIDE DEF row
  <2>3. own # <<>> /\ Len(own) = 1 /\ own[1] = row /\ own \in Seq(LogRow)
    BY <2>1, <2>2
  <2>4. XpGained(i) = Delta(i)
    BY <2>3 DEF XpGained
  <2>5. SumDeltas(own) = Delta(i)
    BY <2>1, <2>2, SumOfOne
  <2>6. \A k \in 1..Len(own) : k = 1
    BY <2>3
  <2> QED BY <1>2, <1>3, <2>2, <2>3, <2>4, <2>5, <2>6
<1>4. CASE ~ (Delta(i) > 0 /\ \A k \in 1..Len(xpLog) : xpLog[k].attempt # i)
  <2>1. own = <<>>
    BY <1>4 DEF AttemptRow
  <2>2. Len(own) = 0 /\ own \in Seq(LogRow) /\ 1..Len(own) = {}
    BY <2>1
  <2>3. SumDeltas(own) = 0
    <3>1. SumFunctionOnSet(Deltas(own), {}) = 0
      BY SumEmpty
    <3> QED BY <2>2, <3>1 DEF SumDeltas
  <2>4. XpGained(i) = 0
    BY <2>1 DEF XpGained
  <2> QED BY <2>1, <2>2, <2>3, <2>4
<1> QED BY <1>3, <1>4

-----------------------------------------------------------------------------
(* Runs of days.                                                           *)

LEMMA MaxOf ==
    ASSUME NEW m \in Nat, NEW T \in SUBSET (0..m), T # {}
    PROVE  Max(T) \in T /\ \A x \in T : x <= Max(T)
<1> DEFINE D == {m - x : x \in T}
<1>1. D \subseteq Nat /\ D # {}
  <2>1. \A x \in T : m - x \in Nat
    OBVIOUS
  <2>2. PICK x \in T : TRUE
    OBVIOUS
  <2>3. m - x \in D
    OBVIOUS
  <2> QED BY <2>1, <2>3
<1>2. PICK y \in D : \A z \in D : y <= z
  <2> HIDE DEF D
  <2> QED BY <1>1, LeastNat
<1>3. PICK x \in T : y = m - x
  OBVIOUS
<1>4. \A z \in T : x >= z
  <2> SUFFICES ASSUME NEW z \in T PROVE x >= z
    OBVIOUS
  <2>1. m - x <= m - z
    BY <1>2, <1>3
  <2> QED BY <2>1
<1>5. Max(T) \in T /\ \A z \in T : Max(T) >= z
  BY <1>4 DEF Max
<1> QED BY <1>5

(* RunEnding is the length of the longest gapless run that ends there.     *)
LEMMA RunEndingIs ==
    ASSUME NEW active, NEW d \in Nat
    PROVE  /\ RunEnding(active, d) \in 0..d
           /\ (d - RunEnding(active, d) + 1)..d \subseteq active
           /\ \A n \in 0..d : (d - n + 1)..d \subseteq active => n <= RunEnding(active, d)
<1> DEFINE T == {n \in 0..d : (d - n + 1)..d \subseteq active}
<1>1. T \in SUBSET (0..d) /\ T # {}
  <2>1. (d - 0 + 1)..d = {}
    OBVIOUS
  <2>2. 0 \in T
    BY <2>1
  <2> QED BY <2>2
<1>2. RunEnding(active, d) = Max(T)
  BY DEF RunEnding
<1>3. Max(T) \in T /\ \A x \in T : x <= Max(T)
  <2> HIDE DEF T
  <2> QED BY <1>1, MaxOf
<1> QED BY <1>2, <1>3

LEMMA LongestRunIs ==
    ASSUME NEW m \in Nat, NEW active \in SUBSET (1..m), active # {}
    PROVE  /\ \E d \in active : LongestRun(active) = RunEnding(active, d)
           /\ \A d \in active : RunEnding(active, d) <= LongestRun(active)
           /\ LongestRun(active) \in Nat
<1> DEFINE T == {RunEnding(active, d) : d \in active}
<1>1. T \in SUBSET (0..m) /\ T # {}
  <2> SUFFICES ASSUME NEW d \in active PROVE RunEnding(active, d) \in 0..m
    OBVIOUS
  <2>1. d \in 1..m
    OBVIOUS
  <2>2. RunEnding(active, d) \in 0..d
    BY <2>1, RunEndingIs
  <2> QED BY <2>1, <2>2
<1>2. LongestRun(active) = Max(T)
  BY DEF LongestRun
<1>3. Max(T) \in T /\ \A x \in T : x <= Max(T)
  <2> HIDE DEF T
  <2> QED BY <1>1, MaxOf
<1>4. Max(T) \in Nat
  <2> HIDE DEF T
  <2>1. Max(T) \in 0..m
    BY <1>1, <1>3
  <2> QED BY <2>1
<1> QED BY <1>2, <1>3, <1>4

LEMMA MaxOfTwo ==
    ASSUME NEW a \in Nat, NEW b \in Nat
    PROVE  Max({a, b}) = IF a >= b THEN a ELSE b
<1>1. {a, b} \in SUBSET (0..(a + b)) /\ {a, b} # {} /\ a + b \in Nat
  OBVIOUS
<1>2. Max({a, b}) \in {a, b} /\ \A x \in {a, b} : x <= Max({a, b})
  BY <1>1, MaxOf
<1> QED BY <1>2

-----------------------------------------------------------------------------
(* The second invariant: accounts, badges and the log beside each other.   *)

AccountsOK ==
    /\ redelivered \in 0..MaxRedeliveries
    /\ users \in [Users -> Account]
    /\ days \in [Users -> [1..MaxDay -> Nat]]
    /\ badges \in [Users -> SUBSET Badges]
    /\ xpLog \in Seq(LogRow)

BalanceInv ==
    /\ \A u \in Users : users[u].xp = Total(xpLog, u)
                        /\ users[u].level = (users[u].xp + 100) \div 100
    /\ \A j \in Ids :
          LET rows == {k \in 1..Len(xpLog) : xpLog[k].attempt = j}
          IN  IF rows = {} THEN attempts[j].xp = 0
              ELSE \E k \in rows : rows = {k} /\ xpLog[k].delta = attempts[j].xp

RowsFor(log, u, b) == {k \in 1..Len(log) : log[k].user = u /\ log[k].reason = b}

(* A badge has its row exactly if it is held and pays.                     *)
PaidInv ==
    \A u \in Users, b \in Badges :
        IF b \in badges[u] /\ BadgeXp[b] > 0
        THEN \E k : RowsFor(xpLog, u, b) = {k}
        ELSE RowsFor(xpLog, u, b) = {}

BooksInv == AccountsOK /\ BalanceInv /\ PaidInv

LEMMA BooksSay == IInv /\ BooksInv => TypeOK /\ BalanceIsHonest
<1> SUFFICES ASSUME IInv, BooksInv PROVE TypeOK /\ BalanceIsHonest
  OBVIOUS
<1>1. TypeOK
  BY DEF IInv, BooksInv, TablesOK, AccountsOK, TypeOK, Ids
<1>2. BalanceIsLogged
  <2>1. \A u \in Users : SumFunctionOnSet(Deltas(xpLog), RowsOf(u)) = Total(xpLog, u)
    BY DEF Total, IndicesOf, RowsOf
  <2> QED BY <2>1 DEF BooksInv, BalanceInv, BalanceIsLogged, Ids
<1>3. BadgePaidOnce
  <2> SUFFICES ASSUME NEW u \in Users, NEW paid,
                      paid = {k \in RowsOf(u) : xpLog[k].reason \in Badges}
               PROVE  /\ {xpLog[k].reason : k \in paid} = {b \in badges[u] : BadgeXp[b] > 0}
                      /\ \A k, l \in paid : xpLog[k].reason = xpLog[l].reason => k = l
    BY DEF BadgePaidOnce
  <2>1. \A k \in paid : k \in RowsFor(xpLog, u, xpLog[k].reason) /\ xpLog[k].reason \in Badges
    BY DEF RowsOf, RowsFor
  <2>2. \A b \in Badges : \A k \in RowsFor(xpLog, u, b) : k \in paid /\ xpLog[k].reason = b
    BY DEF RowsOf, RowsFor
  <2>3. badges[u] \subseteq Badges
    BY <1>1 DEF TypeOK
  <2>4. \A b \in Badges : (b \in badges[u] /\ BadgeXp[b] > 0) <=> RowsFor(xpLog, u, b) # {}
    BY DEF BooksInv, PaidInv
  <2>5. \A b \in Badges : \A k, l \in RowsFor(xpLog, u, b) : k = l
    BY DEF BooksInv, PaidInv
  <2>6. {xpLog[k].reason : k \in paid} = {b \in badges[u] : BadgeXp[b] > 0}
    BY <2>1, <2>2, <2>3, <2>4
  <2>7. \A k, l \in paid : xpLog[k].reason = xpLog[l].reason => k = l
    BY <2>1, <2>5
  <2> QED BY <2>6, <2>7
<1> QED BY <1>1, <1>2, <1>3 DEF BalanceIsHonest

LEMMA BooksInit == Init => BooksInv
<1> SUFFICES ASSUME Init PROVE BooksInv
  OBVIOUS
<1>1. AccountsOK
  BY RewardsAssumption DEF Init, AccountsOK, Account
<1>2. Len(xpLog) = 0 /\ 1..Len(xpLog) = {} /\ Ids = {}
  BY DEF Init, Ids
<1>3. \A u : Total(xpLog, u) = 0
  <2>1. \A u : IndicesOf(xpLog, u) = {}
    BY <1>2 DEF IndicesOf
  <2> QED BY <2>1, SumEmpty DEF Total
<1>4. BalanceInv
  BY <1>2, <1>3 DEF Init, BalanceInv
<1>5. PaidInv
  BY <1>2 DEF Init, PaidInv, RowsFor
<1> QED BY <1>1, <1>4, <1>5 DEF BooksInv

(* What every transaction does, under one roof.                            *)
LEMMA Transaction ==
    ASSUME IInv, BooksInv, NEW known, PersistGamification(known),
           NEW i, i = Head(informs), NEW u, u = attempts[i].user,
           NEW own, own = AttemptRow(i), NEW rows, rows = BadgeRows(i, known)
    PROVE  /\ i \in Ids /\ u \in Users /\ DayOf(i) \in 1..MaxDay
           /\ ActiveDays(i) \in SUBSET (1..MaxDay) /\ DayOf(i) \in ActiveDays(i)
           /\ days' = [days EXCEPT ![u] = DaysAfter(i)]
           /\ DaysAfter(i) = [days[u] EXCEPT ![DayOf(i)] = days[u][DayOf(i)] + 1]
           /\ badges' = [badges EXCEPT ![u] = badges[u] \cup NewBadges(i, known)]
           /\ xpLog' = (xpLog \o own) \o rows
           /\ \A v \in Users \ {u} : users'[v] = users[v]
           /\ DOMAIN users' = Users
           /\ users'[u] = [xp |-> users[u].xp + (XpGained(i) + SumDeltas(rows)),
                           level |-> LevelForXp(users[u].xp + (XpGained(i) + SumDeltas(rows))),
                           current |-> CurrentStreak(i),
                           longest |-> Max({users[u].longest, LongestRun(ActiveDays(i))}),
                           last |-> DayOf(i)]
           /\ redelivered' = redelivered /\ today' = today /\ informs' = Tail(informs)
<1>1. i \in Ids
  <2> HIDE DEF Ids
  <2> QED BY DEF IInv, TablesOK, PersistGamification
<1>2. u \in Users /\ DayOf(i) \in 1..MaxDay
  <2>1. attempts[i] \in Attempt
    BY <1>1 DEF IInv, TablesOK, Ids
  <2> QED BY <2>1 DEF Attempt, DayOf
<1>3. days[u] \in [1..MaxDay -> Nat] /\ users \in [Users -> Account]
  BY <1>2 DEF BooksInv, AccountsOK
<1>4. DaysAfter(i) = [days[u] EXCEPT ![DayOf(i)] = days[u][DayOf(i)] + 1]
  BY DEF DaysAfter
<1>5. ActiveDays(i) \in SUBSET (1..MaxDay) /\ DayOf(i) \in ActiveDays(i)
  <2>1. days[u][DayOf(i)] \in Nat /\ DaysAfter(i)[DayOf(i)] = days[u][DayOf(i)] + 1
    BY <1>2, <1>3, <1>4
  <2> QED BY <1>2, <2>1 DEF ActiveDays
<1>6. xpLog' = (xpLog \o own) \o rows
  BY DEF PersistGamification
<1>7. /\ days' = [days EXCEPT ![u] = DaysAfter(i)]
      /\ badges' = [badges EXCEPT ![u] = badges[u] \cup NewBadges(i, known)]
      /\ redelivered' = redelivered /\ today' = today /\ informs' = Tail(informs)
  BY DEF PersistGamification
<1>8. users' = [users EXCEPT ![u] =
                  [xp      |-> users[u].xp + (XpGained(i) + SumDeltas(rows)),
                   level   |-> LevelForXp(users[u].xp + (XpGained(i) + SumDeltas(rows))),
                   current |-> CurrentStreak(i),
                   longest |-> Max({users[u].longest, LongestRun(ActiveDays(i))}),
                   last    |-> DayOf(i)]]
  BY DEF PersistGamification
<1> QED BY <1>1, <1>2, <1>3, <1>4, <1>5, <1>6, <1>7, <1>8

LEMMA AccountsStep ==
    ASSUME IInv, BooksInv, NEW known, PersistGamification(known)
    PROVE  AccountsOK'
<1>i. PICK i : i = Head(informs)
  OBVIOUS
<1>u. PICK u : u = attempts[i].user
  OBVIOUS
<1>o. PICK own : own = AttemptRow(i)
  OBVIOUS
<1>r. PICK rows : rows = BadgeRows(i, known)
  OBVIOUS
<1>1. /\ i \in Ids /\ u \in Users /\ DayOf(i) \in 1..MaxDay
      /\ ActiveDays(i) \in SUBSET (1..MaxDay) /\ DayOf(i) \in ActiveDays(i)
      /\ days' = [days EXCEPT ![u] = DaysAfter(i)]
      /\ DaysAfter(i) = [days[u] EXCEPT ![DayOf(i)] = days[u][DayOf(i)] + 1]
      /\ badges' = [badges EXCEPT ![u] = badges[u] \cup NewBadges(i, known)]
      /\ xpLog' = (xpLog \o own) \o rows
      /\ redelivered' = redelivered
  <2>1. /\ i \in Ids /\ u \in Users /\ DayOf(i) \in 1..MaxDay
        /\ ActiveDays(i) \in SUBSET (1..MaxDay) /\ DayOf(i) \in ActiveDays(i)
    BY <1>i, <1>u, <1>o, <1>r, Transaction
  <2>2. /\ days' = [days EXCEPT ![u] = DaysAfter(i)]
        /\ DaysAfter(i) = [days[u] EXCEPT ![DayOf(i)] = days[u][DayOf(i)] + 1]
        /\ badges' = [badges EXCEPT ![u] = badges[u] \cup NewBadges(i, known)]
    BY <1>i, <1>u, <1>o, <1>r, Transaction
  <2>3. xpLog' = (xpLog \o own) \o rows /\ redelivered' = redelivered
    BY <1>i, <1>o, <1>r DEF PersistGamification
  <2> QED BY <2>1, <2>2, <2>3
<1>2. /\ \A v \in Users \ {u} : users'[v] = users[v]
      /\ users'[u] = [xp |-> users[u].xp + (XpGained(i) + SumDeltas(rows)),
                      level |-> LevelForXp(users[u].xp + (XpGained(i) + SumDeltas(rows))),
                      current |-> CurrentStreak(i),
                      longest |-> Max({users[u].longest, LongestRun(ActiveDays(i))}),
                      last |-> DayOf(i)]
  BY <1>i, <1>u, <1>o, <1>r, Transaction
<1>t. TablesOK
  BY DEF IInv
<1>3. own \in Seq(LogRow) /\ rows \in Seq(LogRow) /\ XpGained(i) \in Nat
  <2>1. own \in Seq(LogRow) /\ XpGained(i) \in Nat
    BY <1>t, <1>1, <1>o, OwnRowIs
  <2>2. rows \in Seq(LogRow)
    BY <1>t, <1>1, <1>r, BadgeRowsAre
  <2> QED BY <2>1, <2>2
<1>4. SumDeltas(rows) \in Nat
  <2>1. 1..Len(rows) \in SUBSET (1..Len(rows))
    OBVIOUS
  <2> QED BY <1>3, <2>1, LogFinite DEF SumDeltas
<1>5. xpLog' \in Seq(LogRow)
  <2>1. xpLog \in Seq(LogRow)
    BY DEF BooksInv, AccountsOK
  <2> QED BY <1>1, <1>3, <2>1
<1>6. days' \in [Users -> [1..MaxDay -> Nat]]
  <2>1. days \in [Users -> [1..MaxDay -> Nat]]
    BY DEF BooksInv, AccountsOK
  <2>2. DaysAfter(i) \in [1..MaxDay -> Nat]
    <3>1. days[u] \in [1..MaxDay -> Nat]
      BY <1>1, <2>1
    <3>2. days[u][DayOf(i)] + 1 \in Nat
      <4>1. DayOf(i) \in 1..MaxDay
        BY <1>1
      <4>2. days[u][DayOf(i)] \in Nat
        BY <3>1, <4>1
      <4> QED BY <4>2
    <3> QED BY <1>1, <3>1, <3>2
  <2> QED BY <1>1, <2>1, <2>2
<1>7. badges' \in [Users -> SUBSET Badges]
  <2>1. NewBadges(i, known) \subseteq Badges
    BY DEF NewBadges, EarnedNow
  <2> QED BY <1>1, <2>1 DEF BooksInv, AccountsOK
<1>8. users' \in [Users -> Account]
  <2>1. users \in [Users -> Account] /\ users[u] \in Account
    BY <1>1 DEF BooksInv, AccountsOK
  <2>2. users[u].xp \in Nat /\ users[u].longest \in Nat
    BY <2>1 DEF Account
  <2>3. CurrentStreak(i) \in Nat
    <3>1. RunEnding(ActiveDays(i), DayOf(i)) \in 0..DayOf(i)
      BY <1>1, RunEndingIs
    <3> QED BY <1>1, <3>1 DEF CurrentStreak
  <2>4. Max({users[u].longest, LongestRun(ActiveDays(i))}) \in Nat
    <3>1. LongestRun(ActiveDays(i)) \in Nat
      BY <1>1, RewardsAssumption, LongestRunIs
    <3> QED BY <2>2, <3>1, MaxOfTwo
  <2>5. LevelForXp(users[u].xp + (XpGained(i) + SumDeltas(rows))) \in Nat \ {0}
    <3>1. PICK x \in Nat : x = users[u].xp + (XpGained(i) + SumDeltas(rows))
      BY <1>3, <1>4, <2>2
    <3>2. 1 + x \div 100 \in Nat \ {0}
      OBVIOUS
    <3> QED BY <3>1, <3>2 DEF LevelForXp
  <2>6. DayOf(i) \in 0..MaxDay
    BY <1>1
  <2>7. users'[u] \in Account
    BY <1>2, <1>3, <1>4, <2>2, <2>3, <2>4, <2>5, <2>6 DEF Account
  <2>8. users' = [users EXCEPT ![u] = users'[u]]
    BY <1>i, <1>u, <1>1, <2>1 DEF PersistGamification
  <2> QED BY <1>1, <2>1, <2>7, <2>8
<1> QED BY <1>1, <1>5, <1>6, <1>7, <1>8 DEF AccountsOK, BooksInv

(* An index of the longer log is one of the shorter, or one of the rows.   *)
LEMMA Indices ==
    ASSUME NEW s \in Seq(LogRow), NEW t \in Seq(LogRow), NEW all, all = s \o t,
           NEW n \in Nat, n = Len(s), NEW m \in Nat, m = Len(t)
    PROVE  /\ all \in Seq(LogRow) /\ Len(all) = n + m
           /\ \A k \in 1..n : k \in 1..Len(all) /\ all[k] = s[k]
           /\ \A k \in 1..m : n + k \in 1..Len(all) /\ all[n + k] = t[k]
           /\ \A k \in 1..Len(all) : k \in 1..n \/ \E l \in 1..m : k = n + l
<1>1. all \in Seq(LogRow) /\ Len(all) = n + m
  OBVIOUS
<1>2. \A k \in 1..n : k \in 1..Len(all) /\ all[k] = s[k]
  BY <1>1
<1>3. \A k \in 1..m : n + k \in 1..Len(all) /\ all[n + k] = t[k]
  BY <1>1
<1>4. ASSUME NEW k \in 1..Len(all), k \notin 1..n PROVE \E l \in 1..m : k = n + l
  <2>1. k - n \in 1..m /\ k = n + (k - n)
    BY <1>1, <1>4
  <2> QED BY <2>1
<1> QED BY <1>1, <1>2, <1>3, <1>4

LEMMA BalanceStep ==
    ASSUME IInv, BooksInv, NEW known, PersistGamification(known)
    PROVE  BalanceInv'
<1>i. PICK i : i = Head(informs)
  OBVIOUS
<1>u. PICK u : u = attempts[i].user
  OBVIOUS
<1>o. PICK own : own = AttemptRow(i)
  OBVIOUS
<1>r. PICK rows : rows = BadgeRows(i, known)
  OBVIOUS
<1>m. PICK mid : mid = xpLog \o own
  OBVIOUS
<1>t. TablesOK
  BY DEF IInv
<1>1. i \in Ids /\ u \in Users /\ xpLog' = mid \o rows
  <2>1. i \in Ids /\ u \in Users
    BY <1>i, <1>u, <1>o, <1>r, Transaction
  <2> QED BY <1>i, <1>o, <1>r, <1>m, <2>1 DEF PersistGamification
<1>2. /\ \A v \in Users \ {u} : users'[v] = users[v]
      /\ users'[u].xp = users[u].xp + (XpGained(i) + SumDeltas(rows))
      /\ users'[u].level = LevelForXp(users[u].xp + (XpGained(i) + SumDeltas(rows)))
  <2>1. /\ \A v \in Users \ {u} : users'[v] = users[v]
        /\ users'[u] = [xp |-> users[u].xp + (XpGained(i) + SumDeltas(rows)),
                        level |-> LevelForXp(users[u].xp + (XpGained(i) + SumDeltas(rows))),
                        current |-> CurrentStreak(i),
                        longest |-> Max({users[u].longest, LongestRun(ActiveDays(i))}),
                        last |-> DayOf(i)]
    BY <1>i, <1>u, <1>o, <1>r, Transaction
  <2> QED BY <2>1
<1>3. /\ own \in Seq(LogRow)
      /\ \A k \in 1..Len(own) : own[k].user = u /\ own[k].reason = "attempt"
      /\ SumDeltas(own) = XpGained(i) /\ XpGained(i) \in Nat
      /\ \/ own = <<>> /\ Len(own) = 0
         \/ /\ own # <<>> /\ Len(own) = 1
            /\ own[1].attempt = i /\ own[1].delta = Delta(i)
            /\ \A k \in 1..Len(xpLog) : xpLog[k].attempt # i
  BY <1>t, <1>1, <1>o, <1>u, OwnRowIs
<1>4. /\ rows \in Seq(LogRow)
      /\ \A k \in 1..Len(rows) : rows[k].user = u /\ rows[k].attempt = NoAttempt
  BY <1>t, <1>1, <1>r, <1>u, BadgeRowsAre
<1>5. SumDeltas(rows) \in Nat
  <2>1. 1..Len(rows) \in SUBSET (1..Len(rows))
    OBVIOUS
  <2> QED BY <1>4, <2>1, LogFinite DEF SumDeltas
<1>6. xpLog \in Seq(LogRow) /\ mid \in Seq(LogRow)
  <2>1. xpLog \in Seq(LogRow)
    BY DEF BooksInv, AccountsOK
  <2> QED BY <1>3, <1>m, <2>1
<1>7. ASSUME NEW v \in Users
      PROVE  Total(xpLog', v) = Total(xpLog, v) +
                                (IF v = u THEN XpGained(i) + SumDeltas(rows) ELSE 0)
  <2>1. Total(mid, v) = Total(xpLog, v) + (IF v = u THEN SumDeltas(own) ELSE 0)
    <3>1. \A k \in 1..Len(own) : own[k].user = u
      BY <1>3
    <3>2. own \in Seq(LogRow)
      BY <1>3
    <3>3. Total(xpLog \o own, v) = Total(xpLog, v) + (IF v = u THEN SumDeltas(own) ELSE 0)
      BY <1>6, <3>1, <3>2, TotalOfRows
    <3> QED BY <1>m, <3>3
  <2>2. Total(mid \o rows, v) = Total(mid, v) + (IF v = u THEN SumDeltas(rows) ELSE 0)
    BY <1>4, <1>6, TotalOfRows
  <2>3. Total(xpLog, v) \in Nat
    <3>1. IndicesOf(xpLog, v) \in SUBSET (1..Len(xpLog))
      BY DEF IndicesOf
    <3> QED BY <1>6, <3>1, LogFinite DEF Total
  <2>4. CASE v = u
    BY <1>1, <1>3, <1>5, <2>1, <2>2, <2>3, <2>4
  <2>5. CASE v # u
    BY <1>1, <2>1, <2>2, <2>3, <2>5
  <2> QED BY <2>4, <2>5
<1>8. ASSUME NEW v \in Users
      PROVE  users'[v].xp = Total(xpLog', v) /\ users'[v].level = (users'[v].xp + 100) \div 100
  <2>1. users[v].xp = Total(xpLog, v) /\ users[v].level = (users[v].xp + 100) \div 100
    BY DEF BooksInv, BalanceInv
  <2>2. users[v].xp \in Nat
    <3>1. users[v] \in Account
      BY DEF BooksInv, AccountsOK
    <3> QED BY <3>1 DEF Account
  <2>3. CASE v # u
    BY <1>2, <1>7, <2>1, <2>2, <2>3
  <2>4. CASE v = u
    <3>1. users'[v].xp = Total(xpLog', v)
      BY <1>2, <1>7, <2>1, <2>4
    <3>2. PICK x \in Nat : x = users[u].xp + (XpGained(i) + SumDeltas(rows))
      BY <1>3, <1>5, <2>2, <2>4
    <3>3. users'[v].level = 1 + x \div 100 /\ users'[v].xp = x
      BY <1>2, <2>4, <3>2 DEF LevelForXp
    <3>4. 1 + x \div 100 = (x + 100) \div 100
      OBVIOUS
    <3> QED BY <3>1, <3>3, <3>4
  <2> QED BY <2>3, <2>4
<1>9. PICK n \in Nat : n = Len(xpLog)
  BY <1>6
<1>10. Len(own) \in Nat /\ Len(rows) \in Nat /\ Len(mid) \in Nat
  BY <1>3, <1>4, <1>6
<1>11. /\ Len(mid) = n + Len(own)
       /\ \A k \in 1..n : k \in 1..Len(mid) /\ mid[k] = xpLog[k]
       /\ \A k \in 1..Len(own) : n + k \in 1..Len(mid) /\ mid[n + k] = own[k]
       /\ \A k \in 1..Len(mid) : k \in 1..n \/ \E l \in 1..Len(own) : k = n + l
  BY <1>3, <1>6, <1>m, <1>9, <1>10, Indices
<1>12. /\ \A k \in 1..Len(mid) : k \in 1..Len(xpLog') /\ xpLog'[k] = mid[k]
       /\ \A k \in 1..Len(xpLog') :
             k \in 1..Len(mid) \/ (xpLog'[k].attempt = NoAttempt /\ xpLog'[k].reason # "attempt")
  <2>1. PICK all : all = mid \o rows
    OBVIOUS
  <2>p. PICK p \in Nat : p = Len(mid)
    BY <1>10
  <2>q. PICK q \in Nat : q = Len(rows)
    BY <1>10
  <2>2. /\ \A k \in 1..p : k \in 1..Len(all) /\ all[k] = mid[k]
        /\ \A k \in 1..q : all[p + k] = rows[k]
        /\ \A k \in 1..Len(all) : k \in 1..p \/ \E l \in 1..q : k = p + l
    <3>1. rows \in Seq(LogRow) /\ mid \in Seq(LogRow)
      BY <1>4, <1>6
    <3>2. \A k \in 1..p : k \in 1..Len(all) /\ all[k] = mid[k]
      BY <2>1, <2>p, <2>q, <3>1, Indices
    <3>3. \A k \in 1..q : p + k \in 1..Len(all) /\ all[p + k] = rows[k]
      BY <2>1, <2>p, <2>q, <3>1, Indices
    <3>4. ASSUME NEW k \in 1..Len(all), k \notin 1..p PROVE \E l \in 1..q : k = p + l
      <4>1. Len(all) = p + q
        BY <2>1, <2>p, <2>q, <3>1
      <4>2. k - p \in 1..q /\ k = p + (k - p)
        BY <3>4, <4>1
      <4> QED BY <4>2
    <3> QED BY <3>2, <3>3, <3>4
  <2>3. \A k \in 1..Len(rows) : rows[k].reason # "attempt"
    <3>1. \A k \in 1..Len(rows) : rows[k].reason \in Paying(i, known)
      BY <1>t, <1>1, <1>r, BadgeRowsAre
    <3> QED BY <3>1 DEF Paying, NewBadges, EarnedNow, Badges
  <2>4. \A l \in 1..q : all[p + l].attempt = NoAttempt /\ all[p + l].reason # "attempt"
    BY <1>4, <2>q, <2>2, <2>3
  <2>5. \A k \in 1..Len(all) :
            k \in 1..p \/ (all[k].attempt = NoAttempt /\ all[k].reason # "attempt")
    BY <2>2, <2>4
  <2>6. xpLog' = all
    BY <1>1, <2>1
  <2> QED BY <2>2, <2>5, <2>6, <2>p
<1>13. /\ Ids' = Ids
       /\ \A j \in Ids : attempts'[j].xp = IF j = i /\ own # <<>> THEN Delta(i)
                                           ELSE attempts[j].xp
  <2>1. attempts' = [attempts EXCEPT ![i].xp = IF own = <<>> THEN attempts[i].xp ELSE Delta(i)]
    BY <1>i, <1>o DEF PersistGamification
  <2>2. attempts \in Seq(Attempt) /\ attempts[i] \in Attempt
    BY <1>t, <1>1 DEF TablesOK, Ids
  <2>3. Ids' = Ids
    BY <2>1, <2>2, <1>1 DEF Ids
  <2>4. \A j \in Ids : attempts'[j] = IF j = i
                         THEN [attempts[i] EXCEPT !.xp = IF own = <<>> THEN attempts[i].xp
                                                         ELSE Delta(i)]
                         ELSE attempts[j]
    BY <2>1, <2>2, <1>1 DEF Ids
  <2>5. [attempts[i] EXCEPT !.xp = IF own = <<>> THEN attempts[i].xp ELSE Delta(i)].xp =
        IF own = <<>> THEN attempts[i].xp ELSE Delta(i)
    BY <2>2 DEF Attempt
  <2> QED BY <2>3, <2>4, <2>5
<1>14. ASSUME NEW j \in Ids
       PROVE  LET now == {k \in 1..Len(xpLog') : xpLog'[k].attempt = j}
              IN  IF now = {} THEN attempts'[j].xp = 0
                  ELSE \E k \in now : now = {k} /\ xpLog'[k].delta = attempts'[j].xp
  <2> DEFINE was == {k \in 1..Len(xpLog) : xpLog[k].attempt = j}
             now == {k \in 1..Len(xpLog') : xpLog'[k].attempt = j}
  <2>1. j # NoAttempt
    BY DEF Ids, NoAttempt
  <2>2. IF was = {} THEN attempts[j].xp = 0
        ELSE \E k \in was : was = {k} /\ xpLog[k].delta = attempts[j].xp
    BY DEF BooksInv, BalanceInv
  <2>3. now = {k \in 1..Len(mid) : mid[k].attempt = j}
    BY <1>12, <2>1
  <2>4. CASE j # i \/ own = <<>>
    <3>1. \A k \in 1..Len(own) : own[k].attempt # j
      BY <1>3, <2>4
    <3>2. now = was
      <4>1. \A k \in 1..Len(mid) : mid[k].attempt = j => k \in 1..n
        BY <1>11, <3>1
      <4>2. \A k \in 1..n : k \in 1..Len(mid) /\ mid[k] = xpLog[k]
        BY <1>11
      <4>3. \A k : k \in {l \in 1..Len(mid) : mid[l].attempt = j} <=> k \in was
        BY <1>9, <4>1, <4>2
      <4> HIDE DEF now, was
      <4> QED BY <2>3, <4>3
    <3>3. \A k \in was : xpLog'[k] = xpLog[k]
      BY <1>9, <1>11, <1>12
    <3>4. attempts'[j].xp = attempts[j].xp
      BY <1>13, <2>4
    <3> QED BY <2>2, <3>2, <3>3, <3>4
  <2>5. CASE j = i /\ own # <<>>
    <3>1. Len(own) = 1 /\ own[1].attempt = j /\ own[1].delta = Delta(i) /\ was = {}
      BY <1>3, <2>5
    <3>2. now = {n + 1}
      <4>1. n + 1 \in 1..Len(mid) /\ mid[n + 1].attempt = j
        BY <1>11, <3>1
      <4>2. \A k \in 1..n : mid[k].attempt # j
        BY <1>9, <1>11, <3>1
      <4>3. \A k \in 1..Len(mid) : k \in 1..n \/ k = n + 1
        BY <1>11, <3>1
      <4> QED BY <2>3, <4>1, <4>2, <4>3
    <3>3. xpLog'[n + 1].delta = Delta(i)
      BY <1>11, <1>12, <3>1
    <3>4. attempts'[j].xp = Delta(i)
      BY <1>13, <2>5
    <3> QED BY <3>2, <3>3, <3>4
  <2> QED BY <2>4, <2>5
<1> QED BY <1>8, <1>13, <1>14 DEF BalanceInv

LEMMA PaidStep ==
    ASSUME IInv, BooksInv, NEW known, PersistGamification(known)
    PROVE  PaidInv'
<1>i. PICK i : i = Head(informs)
  OBVIOUS
<1>u. PICK u : u = attempts[i].user
  OBVIOUS
<1>o. PICK own : own = AttemptRow(i)
  OBVIOUS
<1>r. PICK rows : rows = BadgeRows(i, known)
  OBVIOUS
<1>m. PICK mid : mid = xpLog \o own
  OBVIOUS
<1>t. TablesOK
  BY DEF IInv
<1>1. i \in Ids /\ u \in Users
  BY <1>i, <1>u, <1>o, <1>r, Transaction
<1>2. badges' = [badges EXCEPT ![u] = badges[u] \cup NewBadges(i, known)]
  BY <1>i, <1>u DEF PersistGamification
<1>3. own \in Seq(LogRow) /\ \A k \in 1..Len(own) : own[k].reason = "attempt"
  BY <1>t, <1>1, <1>o, OwnRowIs
<1>4. /\ rows \in Seq(LogRow)
      /\ \A k \in 1..Len(rows) : rows[k].user = u /\ rows[k].reason \in Paying(i, known)
      /\ OneRowEach(rows, Paying(i, known))
  <2>1. /\ rows \in Seq(LogRow)
        /\ \A k \in 1..Len(rows) : rows[k].user = attempts[i].user
                                   /\ rows[k].reason \in Paying(i, known)
    BY <1>t, <1>1, <1>r, BadgeRowsAre
  <2>2. OneRowEach(rows, Paying(i, known))
    BY <1>t, <1>1, <1>r, BadgeRowsAre
  <2> QED BY <1>u, <2>1, <2>2
<1>5. xpLog \in Seq(LogRow) /\ mid \in Seq(LogRow)
  <2>1. xpLog \in Seq(LogRow)
    BY DEF BooksInv, AccountsOK
  <2> QED BY <1>3, <1>m, <2>1
<1>6. xpLog' = mid \o rows
  BY <1>i, <1>o, <1>r, <1>m DEF PersistGamification
<1>n. PICK n \in Nat : n = Len(xpLog)
  BY <1>5
<1>w. PICK w \in Nat : w = Len(own)
  BY <1>3
<1>p. PICK p \in Nat : p = Len(mid)
  BY <1>5
<1>q. PICK q \in Nat : q = Len(rows)
  BY <1>4
<1>7. ASSUME NEW v, NEW b \in Badges PROVE RowsFor(mid, v, b) = RowsFor(xpLog, v, b)
  <2>1. /\ \A k \in 1..n : k \in 1..p /\ mid[k] = xpLog[k]
        /\ \A k \in 1..w : mid[n + k] = own[k]
        /\ \A k \in 1..p : k \in 1..n \/ \E l \in 1..w : k = n + l
    <3>1. own \in Seq(LogRow) /\ xpLog \in Seq(LogRow)
      BY <1>3, <1>5
    <3>2. p = n + w
      BY <1>m, <1>n, <1>w, <1>p, <3>1
    <3>3. \A k \in 1..n : k \in 1..p /\ mid[k] = xpLog[k]
      BY <1>m, <1>n, <1>w, <3>1, <3>2
    <3>4. \A k \in 1..w : mid[n + k] = own[k]
      BY <1>m, <1>n, <1>w, <3>1, <3>2
    <3>5. ASSUME NEW k \in 1..p, k \notin 1..n PROVE \E l \in 1..w : k = n + l
      <4>1. k - n \in 1..w /\ k = n + (k - n)
        BY <3>2, <3>5
      <4> QED BY <4>1
    <3> QED BY <3>3, <3>4, <3>5
  <2>2. b # "attempt"
    BY DEF Badges
  <2>3. \A k \in 1..p : mid[k].reason = b => k \in 1..n
    BY <1>3, <1>w, <2>1, <2>2
  <2> QED BY <1>n, <1>p, <2>1, <2>3 DEF RowsFor
<1>8. PICK all : all = mid \o rows
  OBVIOUS
<1>9. /\ \A k \in 1..p : k \in 1..Len(all) /\ all[k] = mid[k]
      /\ \A k \in 1..q : p + k \in 1..Len(all) /\ all[p + k] = rows[k]
  <2>1. rows \in Seq(LogRow)
    BY <1>4
  <2>2. \A k \in 1..p : k \in 1..Len(all) /\ all[k] = mid[k]
    BY <1>5, <1>8, <1>p, <1>q, <2>1, Indices
  <2>3. \A k \in 1..q : p + k \in 1..Len(all) /\ all[p + k] = rows[k]
    BY <1>5, <1>8, <1>p, <1>q, <2>1, Indices
  <2> QED BY <2>2, <2>3
<1>10. \A k \in 1..Len(all) : k \in 1..p \/ \E l \in 1..q : k = p + l
  <2> SUFFICES ASSUME NEW k \in 1..Len(all), k \notin 1..p PROVE \E l \in 1..q : k = p + l
    OBVIOUS
  <2>1. Len(all) = p + q
    BY <1>4, <1>5, <1>8, <1>p, <1>q
  <2>2. k - p \in 1..q /\ k = p + (k - p)
    BY <2>1
  <2> QED BY <2>2
<1>11. ASSUME NEW v \in Users, NEW b \in Badges
       PROVE  IF b \in badges'[v] /\ BadgeXp[b] > 0
              THEN \E k : RowsFor(all, v, b) = {k}
              ELSE RowsFor(all, v, b) = {}
  <2>1. IF b \in badges[v] /\ BadgeXp[b] > 0
        THEN \E k : RowsFor(mid, v, b) = {k}
        ELSE RowsFor(mid, v, b) = {}
    BY <1>7 DEF BooksInv, PaidInv
  <2>2. CASE v # u \/ b \notin Paying(i, known)
    <3>1. \A l \in 1..q : ~ (all[p + l].user = v /\ all[p + l].reason = b)
      <4> SUFFICES ASSUME NEW l \in 1..q, all[p + l].user = v, all[p + l].reason = b
                   PROVE  FALSE
        OBVIOUS
      <4>1. all[p + l] = rows[l]
        BY <1>9
      <4>2. rows[l].user = u /\ rows[l].reason \in Paying(i, known)
        BY <1>4, <1>q
      <4>3. v = u
        BY <4>1, <4>2
      <4>4. b \in Paying(i, known)
        BY <4>1, <4>2
      <4> QED BY <2>2, <4>3, <4>4
    <3>2. RowsFor(all, v, b) = RowsFor(mid, v, b)
      <4>1. ASSUME NEW j \in RowsFor(mid, v, b) PROVE j \in RowsFor(all, v, b)
        BY <1>9, <1>p, <4>1 DEF RowsFor
      <4>2. ASSUME NEW j \in RowsFor(all, v, b) PROVE j \in RowsFor(mid, v, b)
        <5>1. j \in 1..Len(all) /\ all[j].user = v /\ all[j].reason = b
          BY DEF RowsFor
        <5>2. j \in 1..p
          BY <1>10, <3>1, <5>1
        <5> QED BY <1>9, <1>p, <5>1, <5>2 DEF RowsFor
      <4> QED BY <4>1, <4>2
    <3>3. b \in badges'[v] /\ BadgeXp[b] > 0 <=> b \in badges[v] /\ BadgeXp[b] > 0
      <4>1. badges \in [Users -> SUBSET Badges]
        BY DEF BooksInv, AccountsOK
      <4>2. v = u /\ b \in NewBadges(i, known) => ~ (BadgeXp[b] > 0)
        BY <2>2 DEF Paying
      <4>3. badges'[v] = IF v = u THEN badges[u] \cup NewBadges(i, known) ELSE badges[v]
        BY <1>1, <1>2, <4>1
      <4> QED BY <4>2, <4>3
    <3> QED BY <2>1, <3>2, <3>3
  <2>3. CASE v = u /\ b \in Paying(i, known)
    <3>1. b \notin badges[u] /\ BadgeXp[b] > 0 /\ b \in NewBadges(i, known)
      BY <1>u, <2>3 DEF Paying, NewBadges
    <3>2. RowsFor(mid, v, b) = {}
      BY <2>1, <2>3, <3>1
    <3>3. PICK k \in 1..q : \A l \in 1..q : rows[l].reason = b <=> l = k
      BY <1>4, <1>q, <2>3 DEF OneRowEach
    <3>4. p + k \in RowsFor(all, v, b)
      BY <1>4, <1>9, <1>q, <2>3, <3>3 DEF RowsFor
    <3>5. ASSUME NEW j \in RowsFor(all, v, b) PROVE j = p + k
      <4>1. j \in 1..Len(all) /\ all[j].user = v /\ all[j].reason = b
        BY DEF RowsFor
      <4>2. j \notin 1..p
        BY <1>9, <1>p, <3>2, <4>1 DEF RowsFor
      <4>3. PICK l \in 1..q : j = p + l
        BY <1>10, <4>1, <4>2
      <4>4. rows[l].reason = b
        BY <1>9, <4>1, <4>3
      <4> QED BY <3>3, <4>3, <4>4
    <3>6. RowsFor(all, v, b) = {p + k}
      BY <3>4, <3>5
    <3>7. b \in badges'[v]
      <4>1. badges \in [Users -> SUBSET Badges]
        BY DEF BooksInv, AccountsOK
      <4> QED BY <1>1, <1>2, <2>3, <3>1, <4>1
    <3> QED BY <3>1, <3>6, <3>7
  <2> QED BY <2>2, <2>3
<1>12. xpLog' = all
  BY <1>6, <1>8
<1> QED BY <1>11, <1>12 DEF PaidInv

(* A new attempt has earned nothing yet.                                   *)
LEMMA BooksEvaluate ==
    ASSUME IInv, BooksInv, NEW u \in Users, NEW t \in Tasks, NEW v \in Verdicts,
           Evaluate(u, t, v)
    PROVE  BooksInv'
<1>1. UNCHANGED <<redelivered, users, days, badges, xpLog>>
  BY DEF Evaluate
<1>n. PICK n \in Nat : n = Len(attempts)
  BY DEF IInv, TablesOK
<1>2. /\ Ids = 1..n /\ Ids' = 1..(n + 1)
      /\ \A j \in Ids : attempts'[j] = attempts[j]
      /\ attempts'[n + 1].xp = 0
  <2> DEFINE row == [user |-> u, task |-> t, verdict |-> v, day |-> today,
                     number |-> Cardinality({j \in Of(u) : attempts[j].task = t}) + 1, xp |-> 0]
  <2>0. attempts' = Append(attempts, row) /\ row.xp = 0
    BY DEF Evaluate
  <2>1. PICK new : attempts' = Append(attempts, new) /\ new.xp = 0
    <3> HIDE DEF row
    <3> QED BY <2>0
  <2> HIDE DEF row
  <2>2. attempts \in Seq(Attempt)
    BY DEF IInv, TablesOK
  <2> QED BY <1>n, <2>1, <2>2 DEF Ids
<1>3. \A k \in 1..Len(xpLog) : xpLog[k].attempt # n + 1
  <2>1. \A k \in 1..Len(xpLog) : xpLog[k].attempt \in {NoAttempt} \cup 1..n
    BY <1>2 DEF IInv, LogInv
  <2> QED BY <2>1 DEF NoAttempt
<1>4. BalanceInv'
  <2>1. \A w \in Users : users'[w].xp = Total(xpLog', w)
                         /\ users'[w].level = (users'[w].xp + 100) \div 100
    BY <1>1 DEF BooksInv, BalanceInv, Total, IndicesOf
  <2>2. ASSUME NEW j \in Ids'
        PROVE  LET rows == {k \in 1..Len(xpLog') : xpLog'[k].attempt = j}
               IN  IF rows = {} THEN attempts'[j].xp = 0
                   ELSE \E k \in rows : rows = {k} /\ xpLog'[k].delta = attempts'[j].xp
    <3>1. CASE j \in Ids
      BY <1>1, <1>2, <3>1 DEF BooksInv, BalanceInv
    <3>2. CASE j = n + 1
      <4>1. {k \in 1..Len(xpLog') : xpLog'[k].attempt = j} = {}
        BY <1>1, <1>3, <3>2
      <4> QED BY <1>2, <3>2, <4>1
    <3> QED BY <1>2, <3>1, <3>2
  <2> QED BY <2>1, <2>2 DEF BalanceInv, Total, IndicesOf
<1>5. AccountsOK' /\ PaidInv'
  BY <1>1 DEF BooksInv, AccountsOK, PaidInv, RowsFor
<1> QED BY <1>4, <1>5 DEF BooksInv

LEMMA BooksQuiet ==
    ASSUME BooksInv, UNCHANGED <<attempts, users, days, badges, xpLog>>,
           redelivered' \in 0..MaxRedeliveries
    PROVE  BooksInv'
<1>1. AccountsOK'
  BY DEF BooksInv, AccountsOK
<1>2. PaidInv'
  BY DEF BooksInv, PaidInv, RowsFor
<1>3. BalanceInv'
  <2>1. Ids' = Ids /\ \A u : Total(xpLog', u) = Total(xpLog, u)
    BY DEF Ids
  <2>2. \A u \in Users : users'[u].xp = Total(xpLog', u)
                         /\ users'[u].level = (users'[u].xp + 100) \div 100
    BY <2>1 DEF BooksInv, BalanceInv
  <2>3. ASSUME NEW j \in Ids
        PROVE  LET rows == {k \in 1..Len(xpLog') : xpLog'[k].attempt = j}
               IN  IF rows = {} THEN attempts'[j].xp = 0
                   ELSE \E k \in rows : rows = {k} /\ xpLog'[k].delta = attempts'[j].xp
    BY DEF BooksInv, BalanceInv
  <2> QED BY <2>1, <2>2, <2>3 DEF BalanceInv
<1> QED BY <1>1, <1>2, <1>3 DEF BooksInv

LEMMA BooksNext == IInv /\ BooksInv /\ [Next]_vars => BooksInv'
<1> SUFFICES ASSUME IInv, BooksInv, [Next]_vars PROVE BooksInv'
  OBVIOUS
<1>r. redelivered \in 0..MaxRedeliveries /\ MaxRedeliveries \in Nat
  BY RewardsAssumption DEF BooksInv, AccountsOK
<1>1. CASE UNCHANGED vars
  BY <1>1, <1>r, BooksQuiet DEF vars
<1>2. ASSUME NEW u \in Users, NEW t \in Tasks, NEW v \in Verdicts, Evaluate(u, t, v)
      PROVE  BooksInv'
  BY <1>2, BooksEvaluate
<1>3. ASSUME NEW known, PersistGamification(known) PROVE BooksInv'
  BY <1>3, AccountsStep, BalanceStep, PaidStep DEF BooksInv
<1>4. CASE PersistFails
  BY <1>4, <1>r, BooksQuiet DEF PersistFails
<1>5. ASSUME NEW i, Redeliver(i) PROVE BooksInv'
  BY <1>5, <1>r, BooksQuiet DEF Redeliver
<1>6. CASE Midnight
  BY <1>6, <1>r, BooksQuiet DEF Midnight
<1> QED BY <1>1, <1>2, <1>3, <1>4, <1>5, <1>6 DEF Next, GamificationAgent

LEMMA BooksHold == Spec => [](IInv /\ BooksInv)
<1>1. Init => IInv /\ BooksInv
  BY InitInv, BooksInit
<1>2. IInv /\ BooksInv /\ [Next]_vars => (IInv /\ BooksInv)'
  BY NextInv, BooksNext
<1> QED BY <1>1, <1>2, PTL DEF Spec

(* Whatever transactions fail and whatever is delivered twice, users.xp    *)
(* and the level are what xp_log adds up to, xp_awarded is what the log    *)
(* holds for the attempt, and a badge has been paid exactly once if it is  *)
(* held and worth XP.                                                      *)
THEOREM BalancesAreHonest == Spec => []BalanceIsHonest
<1> QED BY BooksHold, BooksSay, PTL

(* The accounts, days, badges and log rows stay of their kinds: no level   *)
(* below 1, no row without XP.                                             *)
THEOREM TypesAreKept == Spec => []TypeOK
<1> QED BY BooksHold, BooksSay, PTL

-----------------------------------------------------------------------------
(* The third invariant: days and streaks, as long as nothing was delivered *)
(* again.  Informs are then taken in the order of the attempts, and the    *)
(* days of attempts ascend with the ids, so the day of the next inform is  *)
(* never before the last active one.                                       *)

CalendarInv ==
    /\ \A i \in Ids : attempts[i].day <= today
    /\ \A i, j \in Ids : i < j => attempts[i].day <= attempts[j].day

Active(u) == {d \in 1..MaxDay : days[u][d] > 0}

MadeOn(u, d) == {i \in Ids : attempts[i].user = u /\ attempts[i].day = d}

MailInv ==
    /\ \A k, l \in 1..Len(informs) : k < l => informs[k] < informs[l]
    /\ \A u \in Users : users[u].last <= today
    /\ \A u \in Users, k \in 1..Len(informs) :
          attempts[informs[k]].user = u => users[u].last <= attempts[informs[k]].day
    /\ \A u \in Users, d \in 1..MaxDay :
          days[u][d] <= Cardinality(MadeOn(u, d) \ ToSet(informs))

(* What the columns of one account say of its active days.                 *)
RunOK(active, account, held) ==
    /\ active = {} => account.current = 0 /\ account.longest = 0
    /\ active # {} => /\ account.last \in active
                      /\ \A d \in active : d <= account.last
                      /\ account.current = RunEnding(active, account.last)
    /\ \A d \in active : RunEnding(active, d) <= account.longest
    /\ "streak_7" \in held <=> account.longest >= StreakGoal

RunInv == \A u \in Users : RunOK(Active(u), users[u], badges[u])

StreakInv == CalendarInv /\ (redelivered = 0 => MailInv /\ RunInv)

(* The run that ends at an active day begins after a day off.              *)
LEMMA RunBegins ==
    ASSUME NEW m \in Nat, NEW active \in SUBSET (1..m), NEW d \in active,
           NEW n, n = RunEnding(active, d)
    PROVE  /\ d - n + 1 \in 1..d
           /\ (d - n + 1)..d \subseteq active
           /\ (d - n + 1) - 1 \notin active
<1>1. d \in Nat /\ d >= 1 /\ \A x \in active : x >= 1
  OBVIOUS
<1>2. /\ n \in 0..d
      /\ (d - n + 1)..d \subseteq active
      /\ \A k \in 0..d : (d - k + 1)..d \subseteq active => k <= n
  BY <1>1, RunEndingIs
<1>3. n >= 1
  <2>1. 1 \in 0..d /\ (d - 1 + 1)..d = {d}
    BY <1>1
  <2> QED BY <1>2, <2>1
<1>4. (d - n + 1) - 1 \notin active
  <2> SUFFICES ASSUME (d - n + 1) - 1 \in active PROVE FALSE
    OBVIOUS
  <2>1. d - n \in active /\ d - n >= 1
    BY <1>1, <1>2
  <2>2. n + 1 \in 0..d
    BY <1>1, <1>2, <2>1
  <2>3. (d - (n + 1) + 1)..d \subseteq active
    <3> SUFFICES ASSUME NEW x \in (d - (n + 1) + 1)..d PROVE x \in active
      OBVIOUS
    <3>1. x = d - n \/ x \in (d - n + 1)..d
      BY <1>1, <1>2
    <3> QED BY <1>2, <2>1, <3>1
  <2>4. n + 1 <= n
    BY <1>2, <2>2, <2>3
  <2> QED BY <1>2, <2>4
<1> QED BY <1>1, <1>2, <1>3, <1>4

(* A later day does not touch the runs that end before it.                 *)
LEMMA RunsBefore ==
    ASSUME NEW active, NEW e \in Nat, NEW d \in Nat, d < e
    PROVE  RunEnding(active \cup {e}, d) = RunEnding(active, d)
<1>1. \A n \in 0..d : (d - n + 1)..d \subseteq active \cup {e} <=> (d - n + 1)..d \subseteq active
  <2> SUFFICES ASSUME NEW n \in 0..d PROVE e \notin (d - n + 1)..d
    OBVIOUS
  <2> QED OBVIOUS
<1>2. {n \in 0..d : (d - n + 1)..d \subseteq active \cup {e}} =
      {n \in 0..d : (d - n + 1)..d \subseteq active}
  BY <1>1
<1> QED BY <1>2 DEF RunEnding

(* The account after a transaction for day e, with the day and perhaps the *)
(* badge added.                                                            *)
LEMMA RunGoesOn ==
    ASSUME NEW m \in Nat, NEW active \in SUBSET (1..m), NEW e \in 1..m,
           NEW account \in Account, NEW held, RunOK(active, account, held),
           account.last <= e,
           NEW now, now = active \cup {e},
           NEW new, new.last = e, new.current = RunEnding(now, e),
           new.longest = Max({account.longest, LongestRun(now)}),
           NEW after,
           "streak_7" \in after <=> "streak_7" \in held \/ RunEnding(now, e) >= StreakGoal
    PROVE  RunOK(now, new, after)
<1>1. now \in SUBSET (1..m) /\ e \in now /\ \A d \in now : d <= e
  <2>1. \A d \in active : d <= account.last /\ account.last \in 1..m
    BY DEF RunOK
  <2>2. \A d \in active : d \in Nat /\ account.last \in Nat /\ e \in Nat
    BY <2>1
  <2> QED BY <2>1, <2>2
<1>2. account.longest \in Nat /\ StreakGoal \in Nat
  BY RewardsAssumption DEF Account
<1>3. /\ \E d \in now : LongestRun(now) = RunEnding(now, d)
      /\ \A d \in now : RunEnding(now, d) <= LongestRun(now)
      /\ LongestRun(now) \in Nat
  BY <1>1, LongestRunIs
<1>4. new.longest = IF account.longest >= LongestRun(now) THEN account.longest
                    ELSE LongestRun(now)
  <2>1. PICK a \in Nat : a = account.longest
    BY <1>2
  <2>2. PICK b \in Nat : b = LongestRun(now)
    BY <1>3
  <2>3. Max({a, b}) = IF a >= b THEN a ELSE b
    BY ONLY <2>1, <2>2, MaxOfTwo
  <2> QED BY <2>1, <2>2, <2>3
<1>5. \A d \in now : RunEnding(now, d) \in Nat
  <2> SUFFICES ASSUME NEW d \in now PROVE RunEnding(now, d) \in Nat
    OBVIOUS
  <2>1. d \in Nat
    BY <1>1
  <2>2. RunEnding(now, d) \in 0..d
    BY <2>1, RunEndingIs
  <2> QED BY <2>1, <2>2
<1>6. \A d \in now : RunEnding(now, d) <= new.longest
  <2> SUFFICES ASSUME NEW d \in now PROVE RunEnding(now, d) <= new.longest
    OBVIOUS
  <2>1. RunEnding(now, d) <= LongestRun(now) /\ RunEnding(now, d) \in Nat
    BY <1>3, <1>5
  <2>2. LongestRun(now) <= new.longest /\ new.longest \in Nat
    BY <1>2, <1>3, <1>4
  <2> QED BY <1>3, <2>1, <2>2
<1>7. ASSUME NEW d \in now, d # e PROVE RunEnding(now, d) <= account.longest
  <2>1. d \in active /\ d \in Nat /\ e \in Nat /\ d < e
    BY <1>1, <1>7
  <2>2. RunEnding(now, d) = RunEnding(active, d)
    BY <2>1, RunsBefore
  <2> QED BY <2>1, <2>2 DEF RunOK
<1>8. "streak_7" \in after <=> new.longest >= StreakGoal
  <2>1. "streak_7" \in held <=> account.longest >= StreakGoal
    BY DEF RunOK
  <2>2. PICK d \in now : LongestRun(now) = RunEnding(now, d)
    BY <1>3
  <2>3. RunEnding(now, e) <= LongestRun(now) /\ RunEnding(now, e) \in Nat
    BY <1>1, <1>3, <1>5
  <2>4. LongestRun(now) = RunEnding(now, e) \/ LongestRun(now) <= account.longest
    BY <1>7, <2>2
  <2> QED BY <1>2, <1>3, <1>4, <2>1, <2>3, <2>4
<1> QED BY <1>1, <1>6, <1>8 DEF RunOK

LEMMA StreaksSay == IInv /\ BooksInv /\ StreakInv => StreaksAreTrue
<1> SUFFICES ASSUME IInv, BooksInv, StreakInv, redelivered = 0
             PROVE  /\ \A u \in Users : TrueStreak(u)
                    /\ \A u \in Users : "streak_7" \in badges[u] <=> users[u].longest >= StreakGoal
                    /\ \A u \in Users, d \in 1..MaxDay :
                          LET made == {i \in Of(u) : attempts[i].day = d}
                          IN  days[u][d] <= Cardinality(made \ ToSet(informs))
  BY DEF StreaksAreTrue, StreakIsTrue, StreakBadgeForLongest, DaysCountAttempts
<1>1. MailInv /\ RunInv
  BY DEF StreakInv
<1>2. ASSUME NEW u \in Users PROVE TrueStreak(u)
  <2>1. RunOK(Active(u), users[u], badges[u])
    BY <1>1 DEF RunInv
  <2>2. Active(u) \in SUBSET (1..MaxDay) /\ MaxDay \in Nat
    BY RewardsAssumption DEF Active
  <2>3. CASE Active(u) = {}
    BY <2>1, <2>3 DEF TrueStreak, RunOK, Active
  <2>4. CASE Active(u) # {}
    <3>a. PICK A : A = Active(u)
      OBVIOUS
    <3>l. PICK l \in A : l = users[u].last
      BY <2>1, <2>4, <3>a DEF RunOK
    <3>c. PICK c : c = users[u].current /\ c = RunEnding(A, l)
      BY <2>1, <2>4, <3>a, <3>l DEF RunOK
    <3>1. l - c + 1 \in 1..l /\ (l - c + 1)..l \subseteq A /\ (l - c + 1) - 1 \notin A
      BY <2>2, <3>a, <3>c, RunBegins
    <3>2. l = Max(A)
      <4>1. \A d \in A : d <= l
        BY <2>1, <2>4, <3>a, <3>l DEF RunOK
      <4>2. A \in SUBSET (0..MaxDay)
        BY <2>2, <3>a
      <4>3. Max(A) \in A /\ \A d \in A : d <= Max(A)
        BY <2>2, <4>2, MaxOf
      <4>m. PICK mx : mx = Max(A)
        OBVIOUS
      <4>4. mx \in A /\ l <= mx /\ mx <= l
        BY <4>1, <4>3, <4>m
      <4>5. l \in 0..MaxDay /\ mx \in 0..MaxDay
        BY <4>2, <4>4
      <4> QED BY <2>2, <4>4, <4>5, <4>m
    <3>3. users[u].longest >= users[u].current
      <4>1. c <= users[u].longest
        BY <2>1, <3>a, <3>c DEF RunOK
      <4>2. users[u].longest \in Nat /\ users[u].current \in Nat
        <5>1. users[u] \in Account
          BY DEF BooksInv, AccountsOK
        <5> QED BY <5>1 DEF Account
      <4> QED BY <3>c, <4>1, <4>2
    <3>4. A = {d \in 1..MaxDay : days[u][d] > 0}
      BY <3>a DEF Active
    <3> QED BY <2>4, <3>a, <3>l, <3>c, <3>1, <3>2, <3>3, <3>4 DEF TrueStreak
  <2> QED BY <2>3, <2>4
<1>3. \A u \in Users : "streak_7" \in badges[u] <=> users[u].longest >= StreakGoal
  BY <1>1 DEF RunInv, RunOK
<1>4. ASSUME NEW u \in Users, NEW d \in 1..MaxDay
      PROVE  days[u][d] <= Cardinality({i \in Of(u) : attempts[i].day = d} \ ToSet(informs))
  <2>1. {i \in Of(u) : attempts[i].day = d} = MadeOn(u, d)
    BY DEF Of, MadeOn, Ids
  <2> QED BY <1>1, <2>1 DEF MailInv
<1> QED BY <1>2, <1>3, <1>4

LEMMA StreakInit == Init => StreakInv
<1> SUFFICES ASSUME Init PROVE StreakInv
  OBVIOUS
<1>1. Ids = {} /\ Len(informs) = 0 /\ 1..Len(informs) = {}
  BY DEF Init, Ids
<1>2. CalendarInv
  BY <1>1 DEF CalendarInv
<1>3. \A u \in Users : /\ users[u].last = 0 /\ users[u].current = 0 /\ users[u].longest = 0
                       /\ badges[u] = {}
                       /\ \A d \in 1..MaxDay : days[u][d] = 0
  BY DEF Init
<1>4. MailInv
  <2>1. \A u \in Users, d \in 1..MaxDay : Cardinality(MadeOn(u, d) \ ToSet(informs)) = 0
    BY <1>1, FS_EmptySet DEF MadeOn
  <2>2. today = 1
    BY DEF Init
  <2> QED BY <1>1, <1>3, <2>1, <2>2 DEF MailInv
<1>5. RunInv
  <2>1. \A u \in Users : Active(u) = {}
    BY <1>3 DEF Active
  <2> QED BY <1>3, <2>1, RewardsAssumption DEF RunInv, RunOK
<1> QED BY <1>2, <1>4, <1>5 DEF StreakInv

LEMMA MadeFinite ==
    ASSUME TablesOK, NEW u, NEW d, NEW S
    PROVE  IsFiniteSet(MadeOn(u, d)) /\ IsFiniteSet(MadeOn(u, d) \ S)
           /\ Cardinality(MadeOn(u, d) \ S) \in Nat
<1>1. IsFiniteSet(Ids)
  <2>1. Len(attempts) \in Nat
    BY DEF TablesOK
  <2> QED BY <2>1, FS_Interval DEF Ids
<1>2. IsFiniteSet(MadeOn(u, d))
  BY <1>1, FS_Subset DEF MadeOn
<1>3. IsFiniteSet(MadeOn(u, d) \ S)
  BY <1>2, FS_Subset
<1> QED BY <1>2, <1>3, FS_CardinalityType

LEMMA ToSetIs ==
    ASSUME NEW S, NEW s \in Seq(S)
    PROVE  ToSet(s) = {s[k] : k \in 1..Len(s)}
BY DEF ToSet

(* The rest of the mailbox, once its head is taken.                        *)
LEMMA RestOfMail ==
    ASSUME TablesOK, informs # <<>>, informs' = Tail(informs)
    PROVE  /\ Head(informs) \in Ids
           /\ \A k \in 1..Len(informs') : k + 1 \in 1..Len(informs) /\ informs'[k] = informs[k + 1]
           /\ 1 \in 1..Len(informs) /\ informs[1] = Head(informs)
           /\ ToSet(informs') \subseteq ToSet(informs)
           /\ Head(informs) \in ToSet(informs)
           /\ ToSet(informs) = ToSet(informs') \cup {Head(informs)}
<1> HIDE DEF Ids
<1>q. PICK q : q = informs'
  OBVIOUS
<1>1. informs \in Seq(Ids)
  BY DEF TablesOK
<1>n. PICK n \in Nat : n = Len(informs)
  BY <1>1
<1>2. /\ q \in Seq(Ids) /\ n >= 1 /\ Len(q) = n - 1
      /\ \A k \in 1..Len(q) : q[k] = informs[k + 1]
      /\ Head(informs) = informs[1] /\ informs[1] \in Ids
  BY <1>1, <1>q, <1>n
<1>3. \A k \in 1..Len(q) : k + 1 \in 1..n
  BY <1>2
<1>4. ToSet(q) = {q[k] : k \in 1..Len(q)} /\ ToSet(informs) = {informs[k] : k \in 1..n}
  BY <1>1, <1>2, <1>n, ToSetIs
<1>5. \A k \in 1..n : k = 1 \/ (k - 1 \in 1..Len(q) /\ q[k - 1] = informs[k])
  <2> SUFFICES ASSUME NEW k \in 1..n, k # 1 PROVE k - 1 \in 1..Len(q) /\ q[k - 1] = informs[k]
    OBVIOUS
  <2>1. k - 1 \in 1..Len(q) /\ (k - 1) + 1 = k
    BY <1>2
  <2> QED BY <1>2, <2>1
<1>6. ToSet(informs) = ToSet(q) \cup {informs[1]}
  <2>1. ToSet(q) \subseteq ToSet(informs)
    BY <1>2, <1>3, <1>4
  <2>2. informs[1] \in ToSet(informs)
    BY <1>2, <1>4
  <2>3. ToSet(informs) \subseteq ToSet(q) \cup {informs[1]}
    BY <1>4, <1>5
  <2> QED BY <2>1, <2>2, <2>3
<1>7. 1 \in 1..n
  BY <1>2
<1> QED BY <1>2, <1>3, <1>6, <1>7, <1>q, <1>n

(* Only the calendar and the mailbox matter to CalendarInv: an attempt     *)
(* keeps its user and its day.                                             *)
SameAttempts == /\ Len(attempts') = Len(attempts)
                /\ \A j \in Ids : /\ attempts'[j].user = attempts[j].user
                                  /\ attempts'[j].day = attempts[j].day

LEMMA CalendarStays ==
    ASSUME TablesOK, CalendarInv, SameAttempts, today' \in Nat, today <= today'
    PROVE  CalendarInv'
<1>1. Ids' = Ids
  BY DEF SameAttempts, Ids
<1>2. \A j \in Ids : attempts[j].day \in Nat /\ today \in Nat
  <2> SUFFICES ASSUME NEW j \in Ids PROVE attempts[j].day \in Nat /\ today \in Nat
    OBVIOUS
  <2>1. attempts[j] \in Attempt
    BY DEF TablesOK, Ids
  <2> QED BY <2>1 DEF TablesOK, Attempt
<1>3. \A j \in Ids : attempts'[j].day <= today'
  BY <1>2 DEF CalendarInv, SameAttempts
<1> QED BY <1>1, <1>3 DEF CalendarInv, SameAttempts

LEMMA MadeStays ==
    ASSUME SameAttempts, NEW u, NEW d
    PROVE  MadeOn(u, d)' = MadeOn(u, d)
<1>1. Ids' = Ids
  BY DEF SameAttempts, Ids
<1> QED BY <1>1 DEF MadeOn, SameAttempts

(* Taking the head of the mailbox, whatever comes of it.                   *)
LEMMA MailMoves ==
    ASSUME TablesOK, MailInv, SameAttempts, today' = today,
           informs # <<>>, informs' = Tail(informs)
    PROVE  /\ \A k, l \in 1..Len(informs') : k < l => informs'[k] < informs'[l]
           /\ \A k \in 1..Len(informs') : Head(informs) < informs'[k]
           /\ Head(informs) \notin ToSet(informs')
           /\ \A u \in Users, d \in 1..MaxDay :
                 Cardinality(MadeOn(u, d) \ ToSet(informs))
                    <= Cardinality(MadeOn(u, d)' \ ToSet(informs'))
<1>q. PICK q : q = informs'
  OBVIOUS
<1>h. PICK h : h = Head(informs)
  OBVIOUS
<1>1. /\ h \in Ids
      /\ \A k \in 1..Len(q) : k + 1 \in 1..Len(informs) /\ q[k] = informs[k + 1]
      /\ 1 \in 1..Len(informs) /\ informs[1] = h
      /\ ToSet(q) \subseteq ToSet(informs)
  BY <1>q, <1>h, RestOfMail
<1>2. q \in Seq(Ids)
  <2> HIDE DEF Ids
  <2> QED BY <1>q DEF TablesOK
<1>3. \A k \in 1..Len(q) : q[k] \in Ids
  BY <1>2
<1>4. \A k, l \in 1..Len(q) : k < l => q[k] < q[l]
  <2> SUFFICES ASSUME NEW k \in 1..Len(q), NEW l \in 1..Len(q), k < l PROVE q[k] < q[l]
    OBVIOUS
  <2>1. k + 1 < l + 1 /\ k + 1 \in 1..Len(informs) /\ l + 1 \in 1..Len(informs)
    BY <1>1
  <2>2. informs[k + 1] < informs[l + 1]
    BY <2>1 DEF MailInv
  <2> QED BY <1>1, <2>2
<1>5. \A k \in 1..Len(q) : h < q[k]
  <2> SUFFICES ASSUME NEW k \in 1..Len(q) PROVE h < q[k]
    OBVIOUS
  <2>1. 1 < k + 1 /\ k + 1 \in 1..Len(informs)
    BY <1>1
  <2>2. informs[1] < informs[k + 1]
    BY <1>1, <2>1 DEF MailInv
  <2> QED BY <1>1, <2>2
<1>6. h \notin ToSet(q)
  <2> SUFFICES ASSUME h \in ToSet(q) PROVE FALSE
    OBVIOUS
  <2>1. PICK k \in 1..Len(q) : h = q[k]
    BY <1>2 DEF ToSet
  <2>2. h < h /\ h \in Nat
    BY <1>1, <1>5, <2>1 DEF Ids
  <2> QED BY <2>2
<1>7. ASSUME NEW u \in Users, NEW d \in 1..MaxDay
      PROVE  Cardinality(MadeOn(u, d) \ ToSet(informs))
                <= Cardinality(MadeOn(u, d)' \ ToSet(q))
  <2>1. MadeOn(u, d) \ ToSet(informs) \subseteq MadeOn(u, d) \ ToSet(q)
    BY <1>1
  <2>2. IsFiniteSet(MadeOn(u, d) \ ToSet(q))
    BY MadeFinite
  <2>3. Cardinality(MadeOn(u, d) \ ToSet(informs)) <= Cardinality(MadeOn(u, d) \ ToSet(q))
    BY <2>1, <2>2, FS_Subset
  <2> QED BY <2>3, MadeStays
<1> QED BY <1>4, <1>5, <1>6, <1>7, <1>q, <1>h

(* streak_7 is held after the transaction if it was, or if the streak that *)
(* it leaves is long enough.                                               *)
LEMMA StreakBadge ==
    ASSUME NEW i, NEW known, NEW u, u = attempts[i].user
    PROVE  "streak_7" \in badges[u] \cup NewBadges(i, known)
              <=> "streak_7" \in badges[u] \/ CurrentStreak(i) >= StreakGoal
<1>1. "streak_7" \in EarnedNow(u, CurrentStreak(i), known) <=> ReachesGoal(CurrentStreak(i))
  <2>1. "streak_7" \in Badges
    BY DEF Badges
  <2>2. /\ "streak_7" # "first_correct" /\ "streak_7" # "join_master"
        /\ "streak_7" # "null_ninja" /\ "streak_7" # "explorer"
    OBVIOUS
  <2> QED BY <2>1, <2>2 DEF EarnedNow
<1> QED BY <1>1 DEF NewBadges, ReachesGoal

LEMMA StreakPersist ==
    ASSUME IInv, BooksInv, StreakInv, NEW known, PersistGamification(known)
    PROVE  StreakInv'
<1>t. TablesOK /\ MaxDay \in Nat
  BY RewardsAssumption DEF IInv
<1>i. PICK i : i = Head(informs)
  OBVIOUS
<1>u. PICK u : u = attempts[i].user
  OBVIOUS
<1>o. PICK own : own = AttemptRow(i)
  OBVIOUS
<1>r. PICK rows : rows = BadgeRows(i, known)
  OBVIOUS
<1>e. PICK e : e = DayOf(i)
  OBVIOUS
<1>1. /\ i \in Ids /\ u \in Users /\ e \in 1..MaxDay
      /\ days' = [days EXCEPT ![u] = DaysAfter(i)]
      /\ DaysAfter(i) = [days[u] EXCEPT ![e] = days[u][e] + 1]
      /\ badges' = [badges EXCEPT ![u] = badges[u] \cup NewBadges(i, known)]
  BY <1>i, <1>u, <1>o, <1>r, <1>e, Transaction
<1>2. /\ \A v \in Users \ {u} : users'[v] = users[v]
      /\ users'[u] = [xp |-> users[u].xp + (XpGained(i) + SumDeltas(rows)),
                      level |-> LevelForXp(users[u].xp + (XpGained(i) + SumDeltas(rows))),
                      current |-> CurrentStreak(i),
                      longest |-> Max({users[u].longest, LongestRun(ActiveDays(i))}),
                      last |-> e]
  BY <1>i, <1>u, <1>o, <1>r, <1>e, Transaction
<1>3. redelivered' = redelivered /\ today' = today /\ informs # <<>> /\ informs' = Tail(informs)
  BY DEF PersistGamification
<1>4. SameAttempts
  <2>1. PICK x : attempts' = [attempts EXCEPT ![i].xp = x]
    BY <1>i DEF PersistGamification
  <2>2. attempts \in Seq(Attempt) /\ attempts[i] \in Attempt
    BY <1>t, <1>1 DEF TablesOK, Ids
  <2>3. \A j \in Ids : attempts'[j] = IF j = i THEN [attempts[i] EXCEPT !.xp = x] ELSE attempts[j]
    BY <1>1, <2>1, <2>2 DEF Ids
  <2>4. Len(attempts') = Len(attempts)
    BY <2>1, <2>2
  <2> QED BY <2>2, <2>3, <2>4 DEF SameAttempts, Attempt
<1>5. CalendarInv'
  BY <1>t, <1>3, <1>4, CalendarStays DEF StreakInv, TablesOK
<1> SUFFICES ASSUME redelivered = 0 PROVE MailInv' /\ RunInv'
  BY <1>3, <1>5 DEF StreakInv
<1>6. MailInv /\ RunInv
  BY DEF StreakInv
<1>7. /\ \A k, l \in 1..Len(informs') : k < l => informs'[k] < informs'[l]
      /\ \A k \in 1..Len(informs') : i < informs'[k]
      /\ i \notin ToSet(informs')
      /\ \A w \in Users, d \in 1..MaxDay :
            Cardinality(MadeOn(w, d) \ ToSet(informs))
               <= Cardinality(MadeOn(w, d)' \ ToSet(informs'))
  BY <1>t, <1>i, <1>3, <1>4, <1>6, MailMoves
<1>8. /\ \A k \in 1..Len(informs') : k + 1 \in 1..Len(informs) /\ informs'[k] = informs[k + 1]
      /\ 1 \in 1..Len(informs) /\ informs[1] = i
      /\ i \in ToSet(informs)
      /\ ToSet(informs) = ToSet(informs') \cup {i}
  BY <1>t, <1>i, <1>3, RestOfMail
<1>9. \A k \in 1..Len(informs') : informs'[k] \in Ids
  <2> HIDE DEF Ids
  <2>1. informs' \in Seq(Ids)
    BY <1>t, <1>3 DEF TablesOK
  <2> QED BY <2>1
<1>10. e = attempts[i].day /\ users'[u].last = e
  BY <1>e, <1>2 DEF DayOf
<1>11. /\ days \in [Users -> [1..MaxDay -> Nat]]
       /\ users \in [Users -> Account] /\ badges \in [Users -> SUBSET Badges]
  BY DEF BooksInv, AccountsOK
<1>12. \A w \in Users : users'[w].last <= today'
  <2>1. users'[u].last <= today
    BY <1>1, <1>10 DEF StreakInv, CalendarInv
  <2> QED BY <1>2, <1>3, <1>6, <2>1 DEF MailInv
<1>13. ASSUME NEW w \in Users, NEW k \in 1..Len(informs'), attempts'[informs'[k]].user = w
       PROVE  users'[w].last <= attempts'[informs'[k]].day
  <2>j. PICK j \in Ids : j = informs'[k] /\ i < j
    BY <1>7, <1>9
  <2>1. attempts'[j].user = attempts[j].user /\ attempts'[j].day = attempts[j].day
    BY <1>4 DEF SameAttempts
  <2>2. CASE w = u
    <3>1. attempts[i].day <= attempts[j].day
      BY <1>1, <2>j DEF StreakInv, CalendarInv
    <3> QED BY <1>10, <2>j, <2>1, <2>2, <3>1
  <2>3. CASE w # u
    <3>1. k + 1 \in 1..Len(informs) /\ informs[k + 1] = j
      BY <1>8, <2>j
    <3>2. attempts[informs[k + 1]].user = w
      BY <1>13, <2>j, <2>1, <3>1
    <3>3. users[w].last <= attempts[informs[k + 1]].day
      BY <1>6, <3>1, <3>2 DEF MailInv
    <3> QED BY <1>2, <2>j, <2>1, <2>3, <3>1, <3>3
  <2> QED BY <2>2, <2>3
<1>14. ASSUME NEW w \in Users, NEW d \in 1..MaxDay
       PROVE  days'[w][d] <= Cardinality(MadeOn(w, d)' \ ToSet(informs'))
  <2>d. days[w][d] \in Nat /\ days[w][d] <= Cardinality(MadeOn(w, d) \ ToSet(informs))
    BY <1>6, <1>11 DEF MailInv
  <2>c. /\ Cardinality(MadeOn(w, d) \ ToSet(informs)) \in Nat
        /\ IsFiniteSet(MadeOn(w, d) \ ToSet(informs))
        /\ IsFiniteSet(MadeOn(w, d) \ ToSet(informs'))
        /\ Cardinality(MadeOn(w, d) \ ToSet(informs')) \in Nat
    BY <1>t, MadeFinite
  <2>m. MadeOn(w, d)' = MadeOn(w, d)
    BY <1>4, MadeStays
  <2>1. CASE w = u /\ d = e
    <3>1. days'[w][d] = days[w][d] + 1
      BY <1>1, <1>11, <2>1
    <3>2. i \in MadeOn(w, d)
      BY <1>1, <1>u, <1>10, <2>1 DEF MadeOn
    <3>3. MadeOn(w, d) \ ToSet(informs') = (MadeOn(w, d) \ ToSet(informs)) \cup {i}
          /\ i \notin MadeOn(w, d) \ ToSet(informs)
      BY <1>7, <1>8, <3>2
    <3>4. Cardinality(MadeOn(w, d) \ ToSet(informs')) =
          Cardinality(MadeOn(w, d) \ ToSet(informs)) + 1
      BY <2>c, <3>3, FS_AddElement
    <3> QED BY <2>d, <2>c, <2>m, <3>1, <3>4
  <2>2. CASE ~ (w = u /\ d = e)
    <3>1. days'[w][d] = days[w][d]
      BY <1>1, <1>11, <2>2
    <3>2. Cardinality(MadeOn(w, d) \ ToSet(informs)) <= Cardinality(MadeOn(w, d) \ ToSet(informs'))
      BY <1>7, <2>m
    <3> QED BY <2>d, <2>c, <2>m, <3>1, <3>2
  <2> QED BY <2>1, <2>2
<1>15. MailInv'
  BY <1>7, <1>12, <1>13, <1>14 DEF MailInv
<1>16. RunOK(Active(u)', users'[u], badges'[u])
  <2>1. Active(u)' = Active(u) \cup {e} /\ ActiveDays(i) = Active(u) \cup {e}
    <3>1. days'[u] = [days[u] EXCEPT ![e] = days[u][e] + 1]
          /\ days[u] \in [1..MaxDay -> Nat]
      BY <1>1, <1>11
    <3>f. PICK f \in [1..MaxDay -> Nat] : f = days[u]
      BY <3>1
    <3>g. PICK g : g = [f EXCEPT ![e] = f[e] + 1]
      OBVIOUS
    <3>4. f[e] + 1 > 0
      BY <1>1
    <3>5. \A d \in 1..MaxDay : g[d] = IF d = e THEN f[e] + 1 ELSE f[d]
      BY <1>1, <3>g
    <3>6. \A d \in 1..MaxDay : g[d] > 0 <=> f[d] > 0 \/ d = e
      BY <3>4, <3>5
    <3>7. DaysAfter(i) = g /\ days'[u] = g
      BY <1>1, <3>1, <3>f, <3>g
    <3>2. \A d \in 1..MaxDay : DaysAfter(i)[d] > 0 <=> days[u][d] > 0 \/ d = e
      BY <3>6, <3>7, <3>f
    <3>3. \A d \in 1..MaxDay : days'[u][d] > 0 <=> days[u][d] > 0 \/ d = e
      BY <3>6, <3>7, <3>f
    <3> QED BY <1>1, <3>2, <3>3 DEF Active, ActiveDays
  <2>n. PICK now : now = Active(u) \cup {e}
    OBVIOUS
  <2>w. PICK new : new = users'[u]
    OBVIOUS
  <2>a. PICK after : after = badges[u] \cup NewBadges(i, known)
    OBVIOUS
  <2>2. badges'[u] = after
    BY <1>1, <1>11, <2>a
  <2>3. CurrentStreak(i) = RunEnding(now, e)
    BY <1>e, <2>1, <2>n DEF CurrentStreak
  <2>4. new.last = e /\ new.current = RunEnding(now, e)
        /\ new.longest = Max({users[u].longest, LongestRun(now)})
    BY <1>2, <2>1, <2>3, <2>n, <2>w
  <2>5. "streak_7" \in after <=> "streak_7" \in badges[u] \/ RunEnding(now, e) >= StreakGoal
    BY <1>u, <2>3, <2>a, StreakBadge
  <2>6. Active(u) \in SUBSET (1..MaxDay)
    BY DEF Active
  <2>7. users[u] \in Account /\ RunOK(Active(u), users[u], badges[u])
    BY <1>1, <1>6, <1>11 DEF RunInv
  <2>8. users[u].last <= e
    BY <1>1, <1>6, <1>8, <1>10, <1>u DEF MailInv
  <2>b. PICK active \in SUBSET (1..MaxDay) : active = Active(u)
    BY <2>6
  <2>o. PICK account \in Account : account = users[u]
    BY <2>7
  <2>h. PICK held : held = badges[u]
    OBVIOUS
  <2>k. PICK day \in 1..MaxDay : day = e
    BY <1>1
  <2>9. RunOK(now, new, after)
    <3>1. RunOK(active, account, held) /\ account.last <= day /\ now = active \cup {day}
      BY <2>7, <2>8, <2>b, <2>o, <2>h, <2>k, <2>n
    <3>2. /\ new.last = day /\ new.current = RunEnding(now, day)
          /\ new.longest = Max({account.longest, LongestRun(now)})
      BY <2>4, <2>o, <2>k
    <3>3. "streak_7" \in after <=> "streak_7" \in held \/ RunEnding(now, day) >= StreakGoal
      BY <2>5, <2>h, <2>k
    <3> QED BY <1>t, <3>1, <3>2, <3>3, RunGoesOn
  <2> QED BY <2>1, <2>2, <2>9, <2>n, <2>w
<1>17. ASSUME NEW w \in Users \ {u} PROVE RunOK(Active(w)', users'[w], badges'[w])
  <2>1. Active(w)' = Active(w) /\ badges'[w] = badges[w]
    BY <1>1, <1>11 DEF Active
  <2> QED BY <1>2, <1>6, <2>1 DEF RunInv
<1>18. RunInv'
  BY <1>16, <1>17 DEF RunInv
<1> QED BY <1>15, <1>18

LEMMA StreakFails ==
    ASSUME IInv, BooksInv, StreakInv, PersistFails
    PROVE  StreakInv'
<1>t. TablesOK
  BY DEF IInv
<1>1. /\ informs # <<>> /\ informs' = Tail(informs) /\ redelivered' = redelivered
      /\ UNCHANGED <<today, attempts, users, days, badges>>
  BY DEF PersistFails
<1>2. SameAttempts
  BY <1>1 DEF SameAttempts
<1>3. CalendarInv'
  BY <1>t, <1>1, <1>2, CalendarStays DEF StreakInv, TablesOK
<1> SUFFICES ASSUME redelivered = 0 PROVE MailInv' /\ RunInv'
  BY <1>1, <1>3 DEF StreakInv
<1>4. MailInv /\ RunInv
  BY DEF StreakInv
<1>5. /\ \A k, l \in 1..Len(informs') : k < l => informs'[k] < informs'[l]
      /\ \A u \in Users, d \in 1..MaxDay :
            Cardinality(MadeOn(u, d) \ ToSet(informs))
               <= Cardinality(MadeOn(u, d)' \ ToSet(informs'))
  BY <1>t, <1>1, <1>2, <1>4, MailMoves
<1>6. \A k \in 1..Len(informs') : k + 1 \in 1..Len(informs) /\ informs'[k] = informs[k + 1]
  BY <1>t, <1>1, RestOfMail
<1>7. \A u \in Users, k \in 1..Len(informs') :
         attempts'[informs'[k]].user = u => users'[u].last <= attempts'[informs'[k]].day
  BY <1>1, <1>4, <1>6 DEF MailInv
<1>8. ASSUME NEW u \in Users, NEW d \in 1..MaxDay
      PROVE  days'[u][d] <= Cardinality(MadeOn(u, d)' \ ToSet(informs'))
  <2>1. days[u][d] \in Nat /\ days[u][d] <= Cardinality(MadeOn(u, d) \ ToSet(informs))
    BY <1>4 DEF MailInv, BooksInv, AccountsOK
  <2>2. MadeOn(u, d)' = MadeOn(u, d)
    BY <1>2, MadeStays
  <2>3. /\ Cardinality(MadeOn(u, d) \ ToSet(informs)) \in Nat
        /\ Cardinality(MadeOn(u, d) \ ToSet(informs')) \in Nat
    BY <1>t, MadeFinite
  <2>4. Cardinality(MadeOn(u, d) \ ToSet(informs)) <= Cardinality(MadeOn(u, d) \ ToSet(informs'))
    BY <1>5, <2>2
  <2> QED BY <1>1, <2>1, <2>2, <2>3, <2>4
<1>9. MailInv'
  BY <1>1, <1>4, <1>5, <1>7, <1>8 DEF MailInv
<1>10. RunInv'
  BY <1>1, <1>4 DEF RunInv, Active
<1> QED BY <1>9, <1>10

(* A new attempt is of today, and its inform comes after all others.       *)
LEMMA StreakEvaluate ==
    ASSUME IInv, BooksInv, StreakInv,
           NEW u \in Users, NEW t \in Tasks, NEW v \in Verdicts, Evaluate(u, t, v)
    PROVE  StreakInv'
<1>t. TablesOK
  BY DEF IInv
<1>1. PICK n \in Nat : n = Len(attempts)
  BY <1>t DEF TablesOK
<1>2. /\ Ids = 1..n /\ Ids' = 1..(n + 1)
      /\ \A j \in Ids : attempts'[j] = attempts[j]
      /\ attempts'[n + 1].user = u /\ attempts'[n + 1].day = today
      /\ informs' = Append(informs, n + 1)
      /\ UNCHANGED <<today, redelivered, users, days, badges>>
  <2> DEFINE row == [user |-> u, task |-> t, verdict |-> v, day |-> today,
                     number |-> Cardinality({j \in Of(u) : attempts[j].task = t}) + 1, xp |-> 0]
  <2>1. attempts' = Append(attempts, row) /\ informs' = Append(informs, Len(attempts'))
    BY DEF Evaluate
  <2>2. row.user = u /\ row.day = today
    OBVIOUS
  <2> HIDE DEF row
  <2>3. attempts \in Seq(Attempt)
    BY <1>t DEF TablesOK
  <2>4. Len(attempts') = n + 1 /\ attempts'[n + 1] = row
        /\ \A j \in 1..n : attempts'[j] = attempts[j]
    BY <1>1, <2>1, <2>3
  <2>5. UNCHANGED <<today, redelivered, users, days, badges>>
    BY DEF Evaluate
  <2> QED BY <1>1, <2>1, <2>2, <2>4, <2>5 DEF Ids
<1>3. today \in Nat
  BY <1>t DEF TablesOK
<1>4. CalendarInv'
  <2>1. \A j \in 1..n : attempts[j].day <= today
    BY <1>2 DEF StreakInv, CalendarInv
  <2>2. \A j \in 1..(n + 1) : j \in 1..n \/ j = n + 1
    OBVIOUS
  <2>3. \A j \in 1..(n + 1) : attempts'[j].day <= today
    BY <1>2, <1>3, <2>1, <2>2
  <2>4. \A i, j \in 1..(n + 1) : i < j => attempts'[i].day <= attempts'[j].day
    <3> SUFFICES ASSUME NEW i \in 1..(n + 1), NEW j \in 1..(n + 1), i < j
                 PROVE  attempts'[i].day <= attempts'[j].day
      OBVIOUS
    <3>1. i \in 1..n
      OBVIOUS
    <3>2. CASE j \in 1..n
      BY <1>2, <3>1, <3>2 DEF StreakInv, CalendarInv
    <3>3. CASE j = n + 1
      BY <1>2, <2>1, <3>1, <3>3
    <3> QED BY <2>2, <3>2, <3>3
  <2> QED BY <1>2, <2>3, <2>4 DEF CalendarInv
<1> SUFFICES ASSUME redelivered = 0 PROVE MailInv' /\ RunInv'
  BY <1>2, <1>4 DEF StreakInv
<1>5. MailInv /\ RunInv
  BY DEF StreakInv
<1>m. PICK m \in Nat : m = Len(informs)
  BY <1>t DEF TablesOK
<1>6. /\ Len(informs') = m + 1 /\ informs'[m + 1] = n + 1
      /\ \A k \in 1..m : informs'[k] = informs[k] /\ informs[k] \in 1..n
  <2> HIDE DEF Ids
  <2>1. informs \in Seq(1..n)
    BY <1>t, <1>2 DEF TablesOK
  <2> QED BY <1>2, <1>m, <2>1
<1>7. \A k \in 1..(m + 1) : k \in 1..m \/ k = m + 1
  OBVIOUS
<1>8. \A k, l \in 1..(m + 1) : k < l => informs'[k] < informs'[l]
  <2> SUFFICES ASSUME NEW k \in 1..(m + 1), NEW l \in 1..(m + 1), k < l
               PROVE  informs'[k] < informs'[l]
    OBVIOUS
  <2>1. k \in 1..m
    OBVIOUS
  <2>2. CASE l \in 1..m
    BY <1>5, <1>6, <1>m, <2>1, <2>2 DEF MailInv
  <2>3. CASE l = m + 1
    <3>1. informs[k] < n + 1
      BY <1>6, <2>1
    <3> QED BY <1>6, <2>1, <2>3, <3>1
  <2> QED BY <1>7, <2>2, <2>3
<1>9. ASSUME NEW w \in Users, NEW k \in 1..(m + 1), attempts'[informs'[k]].user = w
      PROVE  users'[w].last <= attempts'[informs'[k]].day
  <2>1. CASE k \in 1..m
    <3>1. attempts'[informs'[k]] = attempts[informs[k]]
      BY <1>2, <1>6, <2>1
    <3> QED BY <1>2, <1>5, <1>9, <1>m, <2>1, <3>1 DEF MailInv
  <2>2. CASE k = m + 1
    BY <1>2, <1>5, <1>6, <2>2 DEF MailInv
  <2> QED BY <1>7, <2>1, <2>2
<1>10. ToSet(informs') = ToSet(informs) \cup {n + 1}
  <2>1. ToSet(informs') = {informs'[k] : k \in 1..(m + 1)} /\ ToSet(informs) = {informs[k] : k \in 1..m}
    <3>1. DOMAIN informs' = 1..(m + 1) /\ DOMAIN informs = 1..m
      <4> HIDE DEF Ids
      <4>1. informs \in Seq(Ids) /\ informs' \in Seq(Ids')
        <5>1. TablesOK'
          BY EvaluateStep DEF IInv
        <5> QED BY <1>t, <5>1 DEF TablesOK
      <4> QED BY <1>6, <1>m, <4>1
    <3> QED BY <3>1 DEF ToSet
  <2> QED BY <1>6, <1>7, <2>1
<1>11. ASSUME NEW w \in Users, NEW d \in 1..MaxDay
       PROVE  days'[w][d] <= Cardinality(MadeOn(w, d)' \ ToSet(informs'))
  <2>1. MadeOn(w, d)' \ ToSet(informs') = MadeOn(w, d) \ ToSet(informs)
    <3>1. \A j \in 1..n : j \in MadeOn(w, d)' <=> j \in MadeOn(w, d)
      BY <1>2 DEF MadeOn
    <3>2. MadeOn(w, d)' \subseteq 1..(n + 1) /\ MadeOn(w, d) \subseteq 1..n
      BY <1>2 DEF MadeOn
    <3>3. n + 1 \notin 1..n
      OBVIOUS
    <3>4. \A j \in 1..(n + 1) : j \in 1..n \/ j = n + 1
      OBVIOUS
    <3> QED BY <1>10, <3>1, <3>2, <3>3, <3>4
  <2> QED BY <1>2, <1>5, <2>1 DEF MailInv
<1>12. MailInv'
  BY <1>2, <1>5, <1>6, <1>8, <1>9, <1>11 DEF MailInv
<1>13. RunInv'
  BY <1>2, <1>5 DEF RunInv, Active
<1> QED BY <1>12, <1>13

(* The days do not change but today, which may grow.                       *)
LEMMA StreakQuiet ==
    ASSUME IInv, BooksInv, StreakInv, UNCHANGED <<attempts, users, days, badges>>,
           today' \in Nat, today <= today',
           redelivered' # 0 \/ UNCHANGED <<redelivered, informs>>
    PROVE  StreakInv'
<1>t. TablesOK
  BY DEF IInv
<1>1. SameAttempts
  BY DEF SameAttempts
<1>2. CalendarInv'
  BY <1>t, <1>1, CalendarStays DEF StreakInv
<1> SUFFICES ASSUME redelivered' = 0 PROVE MailInv' /\ RunInv'
  BY <1>2 DEF StreakInv
<1>3. MailInv /\ RunInv /\ informs' = informs
  BY DEF StreakInv
<1>4. RunInv'
  BY <1>3 DEF RunInv, Active
<1>5. \A u, d : MadeOn(u, d)' = MadeOn(u, d)
  BY <1>1, MadeStays
<1>6. \A u \in Users : users'[u].last <= today'
  <2> SUFFICES ASSUME NEW u \in Users PROVE users[u].last <= today'
    OBVIOUS
  <2>1. users[u].last <= today
    BY <1>3 DEF MailInv
  <2>2. users[u] \in Account
    BY DEF BooksInv, AccountsOK
  <2>3. users[u].last \in 0..MaxDay /\ MaxDay \in Nat /\ today \in Nat
    BY <1>t, <2>2, RewardsAssumption DEF Account, TablesOK
  <2> QED BY <2>1, <2>3
<1>7. MailInv'
  BY <1>3, <1>5, <1>6 DEF MailInv
<1> QED BY <1>4, <1>7

LEMMA StreakNext == IInv /\ BooksInv /\ StreakInv /\ [Next]_vars => StreakInv'
<1> SUFFICES ASSUME IInv, BooksInv, StreakInv, [Next]_vars PROVE StreakInv'
  OBVIOUS
<1>n. today \in Nat /\ redelivered \in Nat
  BY RewardsAssumption DEF IInv, TablesOK, BooksInv, AccountsOK
<1>1. CASE UNCHANGED vars
  BY <1>n, <1>1, StreakQuiet DEF vars
<1>2. ASSUME NEW u \in Users, NEW t \in Tasks, NEW v \in Verdicts, Evaluate(u, t, v)
      PROVE  StreakInv'
  BY <1>2, StreakEvaluate
<1>3. ASSUME NEW known, PersistGamification(known) PROVE StreakInv'
  BY <1>3, StreakPersist
<1>4. CASE PersistFails
  BY <1>4, StreakFails
<1>5. ASSUME NEW i, Redeliver(i) PROVE StreakInv'
  BY <1>n, <1>5, StreakQuiet DEF Redeliver
<1>6. CASE Midnight
  BY <1>n, <1>6, StreakQuiet DEF Midnight
<1> QED BY <1>1, <1>2, <1>3, <1>4, <1>5, <1>6 DEF Next, GamificationAgent

(* As long as no inform comes twice: the streak shown is the run of active *)
(* days that ends at the last one, the streak_7 badge is held exactly by   *)
(* those whose longest run reached the goal, and no attempt is counted     *)
(* twice or for another day; transactions may fail, and informs be taken   *)
(* after midnight.                                                         *)
THEOREM StreaksAreKept == Spec => []StreaksAreTrue
<1>1. Init => StreakInv
  BY StreakInit
<1>2. IInv /\ BooksInv /\ StreakInv /\ [Next]_vars => StreakInv'
  BY StreakNext
<1>3. IInv /\ BooksInv /\ StreakInv => StreaksAreTrue
  BY StreaksSay
<1> QED BY <1>1, <1>2, <1>3, BooksHold, PTL DEF Spec
=============================================================================
