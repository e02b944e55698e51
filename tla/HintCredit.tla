------------------------------ MODULE HintCredit ------------------------------
(***************************************************************************)
(* The limit on hints: a token bucket that is stored nowhere.  hint_credit *)
(* rebuilds it, at every read, from the requests of the last               *)
(* HINT_MAX * HINT_REFILL_HOURS.  Time is in ticks and Refill ticks make   *)
(* one token, so levels are whole numbers of ticks.                        *)
(***************************************************************************)
EXTENDS Naturals, Folds, FiniteSets

CONSTANTS
    HintMax,  \* HINT_MAX, the capacity in tokens
    Refill    \* HINT_REFILL_HOURS, in ticks

ASSUME CreditAssumption ==
    /\ HintMax \in Nat \ {0}
    /\ Refill \in Nat \ {0}

Full == HintMax * Refill

Least(x, y) == IF x < y THEN x ELSE y

(* x - y, or 0 where that would be negative. *)
Less(x, y) == IF x > y THEN x - y ELSE 0

(* Mutant: the bucket does not refill between requests.                    *)
SpendOnly(bucket, t) == [level |-> Less(bucket.level, Refill), at |-> t]

(* One request at time t: the bucket refills since the last one, then a    *)
(* token is taken.                                                         *)
Spend(bucket, t) ==
    [level |-> Less(Least(Full, bucket.level + (t - bucket.at)), Refill), at |-> t]

(* The query: the requests inside the window, *)
Window(rows, now) == {r \in rows : r.at + Full > now}

(* of which the loop of hint_credit takes the newest last. *)
Newest(rows) == CHOOSE r \in rows : \A s \in rows : s.at <= r.at

Replayed(rows) ==
    MapThenFoldSet(LAMBDA r, bucket : Spend(bucket, r.at), [level |-> Full, at |-> 0],
                   LAMBDA r : r, Newest, rows)

Level(rows, now) ==
    LET bucket == Replayed(Window(rows, now))
    IN  Least(Full, bucket.level + Less(now, bucket.at))

Remaining(rows, now) == Level(rows, now) \div Refill

(* next_refill_at, {} for a full bucket.                                   *)
NextRefill(rows, now) ==
    LET remaining == Remaining(rows, now)
    IN  IF remaining >= HintMax THEN {}
        ELSE {now + (Refill * (remaining + 1) - Level(rows, now))}
---------------------------------------------------------------------------
(* What the bucket is meant to be: it starts full, gains one tick a tick   *)
(* and loses Refill with every request ever made.                          *)
TrueLevel(rows, now) ==
    LET level[t \in 0..now] ==
          Less(IF t = 0 THEN Full ELSE Least(Full, level[t - 1] + 1),
               Refill * Cardinality({r \in rows : r.at = t}))
    IN  level[now]
=============================================================================
