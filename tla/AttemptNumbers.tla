---------------------------- MODULE AttemptNumbers ----------------------------
(***************************************************************************)
(* persist_attempt, several calls at a time.  A call counts the attempts   *)
(* of its user and task, inserts a row with the next number, and, if the   *)
(* unique constraint on (user, task, number) refuses the row, rolls back   *)
(* and counts again, at most MaxRetries times in all.                      *)
(***************************************************************************)
EXTENDS Naturals, FiniteSets

CONSTANTS
    Writers,           \* calls of persist_attempt
    Pairs,             \* pairs of a user and a task
    MaxRetries         \* _MAX_RETRIES

ASSUME NumbersAssumption ==
    /\ IsFiniteSet(Writers)
    /\ MaxRetries \in Nat \ {0}

VARIABLES
    attempts,  \* the attempts table
    pair,      \* pair[w]: whose attempt, at which task
    stage,     \* stage[w]: where the call stands, or how it ended
    tries,     \* tries[w]: inserts refused so far
    seen,      \* seen[w]: the last count
    before     \* before[w]: history, the first count

vars == <<attempts, pair, stage, tries, seen, before>>

Row    == [pair : Pairs, number : Nat \ {0}, by : Writers]
Ended  == {"stored", "retries_exceeded", "integrity_error"}
Stages == {"count", "insert"} \cup Ended

Init ==
    /\ attempts = {}
    /\ pair \in [Writers -> Pairs]
    /\ stage = [w \in Writers |-> "count"]
    /\ tries = [w \in Writers |-> 0]
    /\ seen = [w \in Writers |-> 0]
    /\ before = [w \in Writers |-> 0]

RowsOf(p) == {r \in attempts : r.pair = p}

Numbers(p) == {r.number : r \in RowsOf(p)}

(* Mutant: the rows of everybody are counted.                              *)
CountAll(w) == Cardinality(attempts)

(* _count_attempts.                                                        *)
CountAttempts(w) == Cardinality(RowsOf(pair[w]))

Count(w) ==
    /\ stage[w] = "count"
    /\ seen' = [seen EXCEPT ![w] = CountAttempts(w)]
    /\ before' = IF tries[w] = 0 THEN [before EXCEPT ![w] = CountAttempts(w)] ELSE before
    /\ stage' = [stage EXCEPT ![w] = "insert"]
    /\ UNCHANGED <<attempts, pair, tries>>

(* Mutant: the count itself is taken for the next number.                  *)
InsertCount(w) ==
    /\ stage[w] = "insert"
    /\ seen[w] \notin Numbers(pair[w])
    /\ attempts' = attempts \cup {[pair |-> pair[w], number |-> seen[w], by |-> w]}
    /\ stage' = [stage EXCEPT ![w] = "stored"]
    /\ UNCHANGED <<pair, tries, seen, before>>

(* The commit goes through if the number is free.                          *)
Insert(w) ==
    /\ stage[w] = "insert"
    /\ seen[w] + 1 \notin Numbers(pair[w])
    /\ attempts' = attempts \cup {[pair |-> pair[w], number |-> seen[w] + 1, by |-> w]}
    /\ stage' = [stage EXCEPT ![w] = "stored"]
    /\ UNCHANGED <<pair, tries, seen, before>>

(* Mutant: the retry inserts the number of the first count again.          *)
RetryWithoutCount(w) ==
    /\ stage[w] = "insert"
    /\ seen[w] + 1 \in Numbers(pair[w])
    /\ tries' = [tries EXCEPT ![w] = @ + 1]
    /\ stage' = [stage EXCEPT ![w] = IF tries'[w] < MaxRetries
                                     THEN "insert" ELSE "retries_exceeded"]
    /\ UNCHANGED <<attempts, pair, seen, before>>

(* The unique constraint refuses the row.                                  *)
Conflict(w) ==
    /\ stage[w] = "insert"
    /\ seen[w] + 1 \in Numbers(pair[w])
    /\ tries' = [tries EXCEPT ![w] = @ + 1]
    /\ stage' = [stage EXCEPT ![w] = IF tries'[w] < MaxRetries
                                     THEN "count" ELSE "retries_exceeded"]
    /\ UNCHANGED <<attempts, pair, seen, before>>

(* Any other integrity error is raised at once.                            *)
OtherError(w) ==
    /\ stage[w] = "insert"
    /\ stage' = [stage EXCEPT ![w] = "integrity_error"]
    /\ UNCHANGED <<attempts, pair, tries, seen, before>>

PersistAttempt(w) == Count(w) \/ Insert(w) \/ Conflict(w) \/ OtherError(w)

Next == \E w \in Writers : PersistAttempt(w)

Spec == Init /\ [][Next]_vars

-----------------------------------------------------------------------------
(* Rows and calls are well typed; no call is refused more than MaxRetries  *)
(* times.                                                                  *)
TypeOK ==
    /\ attempts \subseteq Row
    /\ pair \in [Writers -> Pairs]
    /\ stage \in [Writers -> Stages]
    /\ tries \in [Writers -> 0..MaxRetries]
    /\ seen \in [Writers -> Nat]
    /\ before \in [Writers -> Nat]

(* The attempts at a task are numbered 1, 2, 3, ... without a gap and      *)
(* without a repetition, although nobody holds a lock between the count    *)
(* and the insert.  XP, the hint gate and "solved earlier" read numbers.   *)
DenseNumbers ==
    \A p \in Pairs : /\ Numbers(p) = 1..Cardinality(RowsOf(p))
                     /\ \A r, s \in RowsOf(p) : r.number = s.number => r = s

(* persist_attempt gives up only under a race: as many other calls stored  *)
(* an attempt of the same pair, while it ran, as it has tries.             *)
FailureNeedsRace ==
    \A w \in Writers :
        stage[w] = "retries_exceeded" =>
            Cardinality({r \in RowsOf(pair[w]) : r.by # w}) >= before[w] + MaxRetries
=============================================================================
