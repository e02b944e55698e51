------------------------------- MODULE Rewards -------------------------------
(***************************************************************************)
(* The GamificationAgent.  It takes attempt-result informs one by one and  *)
(* turns each, in one transaction (persist_gamification), into XP, an      *)
(* active day, streaks, badges and a level.  Informs follow the order of   *)
(* the attempts; a transaction may fail, which loses the inform, and an    *)
(* inform may be delivered again.                                          *)
(***************************************************************************)
EXTENDS Integers, SequencesExt

CONSTANTS
    Users, Tasks,
    Difficulty,       \* Difficulty[t]: tasks.difficulty
    ModuleOf,         \* ModuleOf[t]: the number of the task's module
    Evaluable,        \* modules, 0 excepted, that have an active task
    JoinConcepts,     \* the concepts of join_master
    Practised,        \* bound on the concepts that are ever mastered
    BadgeXp,          \* BadgeXp[b]: badges.xp_reward
    StreakGoal,       \* days of streak_7
    MaxAttempts,      \* bound on attempts
    MaxDay,           \* bound on the calendar
    MaxRedeliveries,  \* bound on informs delivered again
    MayFail           \* TRUE if a transaction may fail

Badges   == {"first_correct", "join_master", "null_ninja", "streak_7", "explorer"}
Verdicts == {"correct", "partial", "incorrect"}
Concepts == JoinConcepts \cup {"null_handling"}

ASSUME RewardsAssumption ==
    /\ Difficulty \in [Tasks -> 1..5]
    /\ ModuleOf \in [Tasks -> Nat]
    /\ Evaluable \subseteq Nat \ {0}
    /\ Practised \subseteq Concepts
    /\ BadgeXp \in [Badges -> Nat]
    /\ StreakGoal \in Nat \ {0}
    /\ MaxAttempts \in Nat
    /\ MaxDay \in Nat \ {0}
    /\ MaxRedeliveries \in Nat
    /\ MayFail \in BOOLEAN

VARIABLES
    today,        \* the calendar day in Zagreb, from 1
    attempts,     \* the attempts table; the index is the id
    informs,      \* the agent's mailbox: ids of attempts, oldest first
    redelivered,  \* how many informs were delivered again
    users,        \* users[u]: the gamification columns of the users row
    days,         \* days[u][d]: streaks.attempts_count, 0 if there is no row
    badges,       \* badges[u]: the codes in user_badges
    xpLog         \* the table xp_log, oldest first

vars == <<today, attempts, informs, redelivered, users, days, badges, xpLog>>

Deltas(rows) == [k \in 1..Len(rows) |-> rows[k].delta]

SumDeltas(rows) == SumFunctionOnSet(Deltas(rows), 1..Len(rows))

NoAttempt == 0  \* attempt_id NULL: XP of a badge

Attempt == [user : Users, task : Tasks, number : Nat \ {0}, verdict : Verdicts,
            day : 1..MaxDay, xp : Nat]
Account == [xp : Nat, level : Nat \ {0}, current : Nat, longest : Nat, last : 0..MaxDay]
LogRow  == [user : Users, attempt : Nat, delta : Nat \ {0}, reason : Badges \cup {"attempt"}]

Init ==
    /\ today = 1
    /\ attempts = <<>>
    /\ informs = <<>>
    /\ redelivered = 0
    /\ users = [u \in Users |-> [xp |-> 0, level |-> 1, current |-> 0, longest |-> 0, last |-> 0]]
    /\ days = [u \in Users |-> [d \in 1..MaxDay |-> 0]]
    /\ badges = [u \in Users |-> {}]
    /\ xpLog = <<>>

-----------------------------------------------------------------------------
(* The arithmetic of gamification_logic.                                   *)

(* base * factor * bonus, rounded half up; factor and bonus are doubled    *)
(* here, as 1/2 and 3/2 occur among them.                                  *)
ComputeXp(difficulty, verdict, number) ==
    LET factor == CASE verdict = "correct" -> 2
                    [] verdict = "partial" -> 1
                    [] verdict = "incorrect" -> 0
        bonus  == CASE number = 1 -> 4 [] number = 2 -> 3 [] OTHER -> 2
    IN  (10 * difficulty * factor * bonus + 2) \div 4

(* Mutant: levels start at 0.                                              *)
LevelFromZero(xp) == xp \div 100

LevelForXp(xp) == 1 + xp \div 100

(* Mutant: the gaps are not looked for.                                    *)
DaysSoFar(active, d) == Cardinality({e \in active : e <= d})

(* The active days that end, without a gap, at day d.                      *)
RunEnding(active, d) == Max({n \in 0..d : (d - n + 1)..d \subseteq active})

LongestRun(active) == Max({RunEnding(active, d) : d \in active})

-----------------------------------------------------------------------------
(* What the transaction reads and writes for attempt i.                    *)

Of(u) == {j \in 1..Len(attempts) : attempts[j].user = u}

Same(i, j) == /\ attempts[i].user = attempts[j].user
              /\ attempts[i].task = attempts[j].task

(* Mutant: only the attempt just before it is looked at.                   *)
JustSolved(i) ==
    \E j \in 1..Len(attempts) : /\ Same(i, j)
                                /\ attempts[j].verdict = "correct"
                                /\ attempts[j].number = attempts[i].number - 1

(* prior_correct_solve_exists.                                             *)
AlreadySolved(i) ==
    \E j \in 1..Len(attempts) : /\ Same(i, j)
                                /\ attempts[j].verdict = "correct"
                                /\ attempts[j].number < attempts[i].number

Delta(i) ==
    IF AlreadySolved(i)
    THEN 0
    ELSE ComputeXp(Difficulty[attempts[i].task], attempts[i].verdict, attempts[i].number)

(* Step 4: the insert that does nothing if the attempt is in the log.      *)
AttemptRow(i) ==
    IF Delta(i) > 0 /\ \A k \in 1..Len(xpLog) : xpLog[k].attempt # i
    THEN <<[user |-> attempts[i].user, attempt |-> i, delta |-> Delta(i), reason |-> "attempt"]>>
    ELSE <<>>

(* Mutant: the XP is added whether or not the row was inserted.            *)
XpRegardless(i) == Delta(i)

XpGained(i) == IF AttemptRow(i) = <<>> THEN 0 ELSE Delta(i)

DayOf(i) == attempts[i].day

(* Step 3: the upsert.                                                     *)
DaysAfter(i) == [days[attempts[i].user] EXCEPT ![DayOf(i)] = @ + 1]
ActiveDays(i) == {d \in 1..MaxDay : DaysAfter(i)[d] > 0}

CurrentStreak(i) == RunEnding(ActiveDays(i), DayOf(i))

ReachesGoal(streak) == streak >= StreakGoal

(* eval_badges; known are the concepts at or above the threshold.          *)
EarnedNow(u, streak, known) ==
    {b \in Badges :
        CASE b = "first_correct" -> \E j \in Of(u) : attempts[j].verdict = "correct"
          [] b = "join_master" -> JoinConcepts \subseteq known
          [] b = "null_ninja" -> "null_handling" \in known
          [] b = "streak_7" -> ReachesGoal(streak)
          [] b = "explorer" -> /\ Evaluable # {}
                               /\ Evaluable \subseteq {ModuleOf[attempts[j].task] : j \in Of(u)}}

NewBadges(i, known) ==
    EarnedNow(attempts[i].user, CurrentStreak(i), known) \ badges[attempts[i].user]

Paying(i, known) == {b \in NewBadges(i, known) : BadgeXp[b] > 0}

BadgeRows(i, known) ==
    LET Row(b) == [user |-> attempts[i].user, attempt |-> NoAttempt,
                   delta |-> BadgeXp[b], reason |-> b]
    IN  SetToSeq({Row(b) : b \in Paying(i, known)})

-----------------------------------------------------------------------------
(* The Evaluator commits an attempt and sends its inform; the number is    *)
(* that of persist_attempt.                                                *)
Evaluate(u, t, v) ==
    LET before == {j \in Of(u) : attempts[j].task = t}
    IN  /\ Len(attempts) < MaxAttempts
        /\ attempts' = Append(attempts, [user |-> u, task |-> t, verdict |-> v, day |-> today,
                                         number |-> Cardinality(before) + 1, xp |-> 0])
        /\ informs' = Append(informs, Len(attempts'))
        /\ UNCHANGED <<today, redelivered, users, days, badges, xpLog>>

(* persist_gamification, steps 1 to 9, for the oldest inform; known is     *)
(* what load_mastery_snapshot reads, which rises and falls.                *)
PersistGamification(known) ==
    /\ informs # <<>>
    /\ LET i     == Head(informs)
           u     == attempts[i].user
           added == XpGained(i) + SumDeltas(BadgeRows(i, known))
       IN  /\ days' = [days EXCEPT ![u] = DaysAfter(i)]
           /\ attempts' = [attempts EXCEPT ![i].xp = IF AttemptRow(i) = <<>> THEN @ ELSE Delta(i)]
           /\ xpLog' = xpLog \o AttemptRow(i) \o BadgeRows(i, known)
           /\ badges' = [badges EXCEPT ![u] = @ \cup NewBadges(i, known)]
           /\ users' = [users EXCEPT ![u] =
                  [xp      |-> @.xp + added,
                   level   |-> LevelForXp(@.xp + added),
                   current |-> CurrentStreak(i),
                   longest |-> Max({@.longest, LongestRun(ActiveDays(i))}),
                   last    |-> DayOf(i)]]
    /\ informs' = Tail(informs)
    /\ UNCHANGED <<today, redelivered>>

(* An exception: the transaction is rolled back and the inform is gone.    *)
PersistFails ==
    /\ MayFail
    /\ informs # <<>>
    /\ informs' = Tail(informs)
    /\ UNCHANGED <<today, attempts, redelivered, users, days, badges, xpLog>>

(* An inform that was taken before arrives once more.                      *)
Redeliver(i) ==
    /\ redelivered < MaxRedeliveries
    /\ i \notin ToSet(informs)
    /\ redelivered' = redelivered + 1
    /\ informs' = Append(informs, i)
    /\ UNCHANGED <<today, attempts, users, days, badges, xpLog>>

(* Only the Evaluator looks at the clock: after the last attempt it does   *)
(* not matter any more.                                                    *)
Midnight ==
    /\ today < MaxDay
    /\ Len(attempts) < MaxAttempts
    /\ today' = today + 1
    /\ UNCHANGED <<attempts, informs, redelivered, users, days, badges, xpLog>>

GamificationAgent ==
    (\E known \in SUBSET Practised : PersistGamification(known)) \/ PersistFails

Next ==
    \/ \E u \in Users, t \in Tasks, v \in Verdicts : Evaluate(u, t, v)
    \/ GamificationAgent
    \/ \E i \in 1..Len(attempts) : Redeliver(i)
    \/ Midnight

Spec == Init /\ [][Next]_vars

-----------------------------------------------------------------------------
(* Every table is well typed; the level never falls below 1.               *)
TypeOK ==
    /\ today \in 1..MaxDay
    /\ attempts \in Seq(Attempt)
    /\ informs \in Seq(1..Len(attempts))
    /\ redelivered \in 0..MaxRedeliveries
    /\ users \in [Users -> Account]
    /\ days \in [Users -> [1..MaxDay -> Nat]]
    /\ badges \in [Users -> SUBSET Badges]
    /\ xpLog \in Seq(LogRow)

RowsOf(u) == {k \in 1..Len(xpLog) : xpLog[k].user = u}

(* users.xp and users.level, kept by increments, are what xp_log adds up   *)
(* to, whatever fails and whatever is delivered twice; and xp_awarded is   *)
(* what the log holds for the attempt.                                     *)
BalanceIsLogged ==
    /\ \A u \in Users :
          LET total == SumFunctionOnSet(Deltas(xpLog), RowsOf(u))
          IN  /\ users[u].xp = total
              /\ users[u].level = (total + 100) \div 100
    /\ \A i \in 1..Len(attempts) :
          LET rows == {k \in 1..Len(xpLog) : xpLog[k].attempt = i}
          IN  IF rows = {} THEN attempts[i].xp = 0
              ELSE \E k \in rows : rows = {k} /\ xpLog[k].delta = attempts[i].xp

(* No attempt earns XP once an earlier one has solved the task, not even   *)
(* if the reward of that earlier one was lost.                             *)
SolvedTaskPaysNoMore ==
    \A j \in 1..Len(attempts) : attempts[j].verdict = "correct" =>
        \A k \in 1..Len(xpLog) :
            LET i == xpLog[k].attempt
            IN  i # NoAttempt /\ Same(i, j) => attempts[i].number <= attempts[j].number

(* A badge is paid once, even if its condition is lost and met again, and  *)
(* every paying badge a user holds was paid.                               *)
BadgePaidOnce ==
    \A u \in Users :
        LET paid == {k \in RowsOf(u) : xpLog[k].reason \in Badges}
        IN  /\ {xpLog[k].reason : k \in paid} = {b \in badges[u] : BadgeXp[b] > 0}
            /\ \A k, l \in paid : xpLog[k].reason = xpLog[l].reason => k = l

TrueStreak(u) ==
    LET active == {d \in 1..MaxDay : days[u][d] > 0}
        last   == users[u].last
        first  == last - users[u].current + 1
    IN  /\ active = {} => users[u].current = 0
        /\ active # {} => /\ last = Max(active)
                          /\ first \in 1..last
                          /\ first..last \subseteq active
                          /\ first - 1 \notin active
                          /\ users[u].longest >= users[u].current

(* As long as no inform comes twice, the streak ends at the latest active  *)
(* day and reaches back exactly to the last gap, and the longest one is at *)
(* least as long; lost and late informs included.                          *)
StreakIsTrue == redelivered = 0 => \A u \in Users : TrueStreak(u)

(* As long as no inform comes twice, whoever once had a streak of the      *)
(* goal's length holds the badge, and nobody else.                         *)
StreakBadgeForLongest ==
    redelivered = 0 =>
        \A u \in Users : "streak_7" \in badges[u] <=> users[u].longest >= StreakGoal

(* As long as no inform comes twice, each attempt counts at most once for  *)
(* the day it was made on, also if it is processed after midnight.         *)
DaysCountAttempts ==
    redelivered = 0 =>
        \A u \in Users, d \in 1..MaxDay :
            LET made == {i \in Of(u) : attempts[i].day = d}
            IN  days[u][d] <= Cardinality(made \ ToSet(informs))

(* What a student was paid is honest: the balance is what the log says, and *)
(* the log holds every badge once.                                         *)
BalanceIsHonest == BalanceIsLogged /\ BadgePaidOnce

(* Days, streaks and their badge are true, as long as no inform comes twice*)
(* (the inform of an earlier day, delivered again, sets the streak back).  *)
StreaksAreTrue == StreakIsTrue /\ StreakBadgeForLongest /\ DaysCountAttempts
=============================================================================
