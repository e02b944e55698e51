------------------------------ MODULE PagedLists ------------------------------
(* The lists that come in pages, GET /attempts and GET /leaderboard, and a  *)
(* client that turns their pages while attempts are committed, the          *)
(* GamificationAgent writes their XP or loses it, and the window of the     *)
(* weekly board moves.  Nothing is purged meanwhile.                        *)
EXTENDS Integers, FiniteSetsExt, Functions, Sequences

CONSTANTS Members, Staff,    \* ids of users with role student, and of the others
          Gains,             \* XP an attempt may bring
          PageSizes,         \* PAGE_SIZE of the client's lists
          LimitMax,          \* _LIMIT_MAX
          Week,              \* width of the weekly window
          MaxNow, MaxMade    \* bounds

(* The pages ask for no more than the routes give.                         *)
ASSUME ListsAssumption ==
    /\ Members \cup Staff \subseteq Nat /\ IsFiniteSet(Members)
    /\ Gains \subseteq Nat
    /\ LimitMax \in Nat /\ PageSizes \subseteq 1..LimitMax
    /\ Week \in Nat

VARIABLES now,     \* the clock, in units of the window
          made,    \* the attempts table; the index is the id
          paid,    \* paid[i]: when the row in xp_log was written, 0: not yet
          walk     \* the client

listsVars == <<now, made, paid, walk>>

NoWalk == [step |-> "none"]

ListsInit == now = 1 /\ made = <<>> /\ paid = <<>> /\ walk = NoWalk

(* created_at is when the transaction began, so that of two attempts the    *)
(* later id may bear the earlier time.                                      *)
Record(u, xp, at) ==
    /\ Len(made) < MaxMade
    /\ at \in {now - 1, now} \ {0}
    /\ made' = Append(made, [who |-> u, xp |-> xp, at |-> at])
    /\ paid' = Append(paid, 0)
    /\ UNCHANGED <<now, walk>>

Reward(i) ==
    /\ paid[i] = 0 /\ made[i].xp > 0
    /\ paid' = [paid EXCEPT ![i] = now]
    /\ UNCHANGED <<now, made, walk>>

Tick ==
    /\ now < MaxNow /\ now' = now + 1
    /\ UNCHANGED <<made, paid, walk>>

-----------------------------------------------------------------------------
(* A row of a list is an id and what it is ordered by.                     *)

XpWritten(u, times) ==
    SumFunctionOnSet([i \in 1..Len(made) |-> made[i].xp],
                     {i \in 1..Len(made) : made[i].who = u /\ paid[i] \in times})

History(u) == {[id |-> i, key |-> made[i].at] : i \in {j \in 1..Len(made) : made[j].who = u}}

GlobalBoard == {[id |-> u, key |-> XpWritten(u, 1..now)] : u \in Members}

(* Who has no row in the window is not on the board.                       *)
WeeklyBoard ==
    LET score(u) == XpWritten(u, (now - Week)..now \ {0})
    IN  {[id |-> u, key |-> score(u)] : u \in {v \in Members : score(v) > 0}}

RowsFor(list, u) ==
    CASE list = "attempts" -> History(u) [] list = "global" -> GlobalBoard
      [] list = "weekly" -> WeeklyBoard

(* A slip: ties are left to the database.                                  *)
BeforeByKey(list, a, b) == a.key > b.key

Before(list, a, b) ==
    \/ a.key > b.key
    \/ a.key = b.key /\ (IF list = "attempts" THEN a.id > b.id ELSE a.id < b.id)

(* The orders an ORDER BY allows.                                          *)
Orders(list, rows) ==
    {s \in [1..Cardinality(rows) -> rows] :
        \A i, j \in DOMAIN s : i < j => s[i] # s[j] /\ ~Before(list, s[j], s[i])}

ClampPage(limit, offset) ==
    [limit |-> Max({1, Min({limit, LimitMax})}), offset |-> Max({0, offset})]

(* The rows of an order that LIMIT and OFFSET leave, each with its rank.    *)
PageRows(order, page, count) ==
    LET last == Min({page.offset + page.limit, count})
    IN  [k \in 1..Max({0, last - page.offset}) |->
            [rank |-> page.offset + k, id |-> order[page.offset + k].id]]

-----------------------------------------------------------------------------
StartWalk(u, list, size) ==
    /\ walk = NoWalk
    /\ list # "attempts" => u = Min(Members)  \* the boards do not depend on who asks
    /\ walk' = [step |-> "count", who |-> u, list |-> list, size |-> size, offset |-> 0,
                total |-> 0, seen |-> <<>>, torn |-> FALSE, began |-> RowsFor(list, u),
                since |-> now]
    /\ UNCHANGED <<now, made, paid>>

(* A response takes two queries, each of which sees its own moment.        *)
CountRows ==
    /\ walk.step = "count"
    /\ walk' = [walk EXCEPT !.step = "rows", !.total = Cardinality(RowsFor(walk.list, walk.who))]
    /\ UNCHANGED <<now, made, paid>>

FetchRows ==
    /\ walk.step = "rows"
    /\ LET rows == RowsFor(walk.list, walk.who)
           page == ClampPage(walk.size, walk.offset)
       IN  \E order \in Orders(walk.list, rows) :
              walk' = [walk EXCEPT
                 !.step = IF walk.offset + walk.size < walk.total THEN "turn" ELSE "done",
                 !.torn = @ \/ Cardinality(rows) # walk.total,
                 !.seen = @ \o PageRows(order, page, Cardinality(rows))]
    /\ UNCHANGED <<now, made, paid>>

(* The client's button: it goes on by its own page size.                   *)
TurnPage ==
    /\ walk.step = "turn"
    /\ walk' = [walk EXCEPT !.step = "count", !.offset = @ + walk.size]
    /\ UNCHANGED <<now, made, paid>>

ListsNext ==
    \/ \E u \in Members \cup Staff, xp \in Gains, at \in 1..MaxNow : Record(u, xp, at)
    \/ \E i \in 1..Len(made) : Reward(i)
    \/ Tick
    \/ \E u \in Members \cup Staff, list \in {"attempts", "global", "weekly"}, size \in PageSizes :
          StartWalk(u, list, size)
    \/ CountRows \/ FetchRows \/ TurnPage

ListsSpec == ListsInit /\ [][ListsNext]_listsVars

(* Who turns all pages of his history misses no attempt that was there when *)
(* he began, though new ones push the rest from page to page, unless one    *)
(* came between the two queries of a response.  And on a list that did not  *)
(* change meanwhile every row stands once, at the rank shown for it, ties   *)
(* included.                                                                *)
WalkMissesNothing ==
    walk.step = "done" =>
        LET ids == {walk.seen[k].id : k \in DOMAIN walk.seen}
            old == {row.id : row \in walk.began}
        IN  /\ walk.list = "attempts" /\ ~walk.torn => old \subseteq ids
            /\ walk.since = now /\ RowsFor(walk.list, walk.who) = walk.began =>
                  /\ ids = old /\ Len(walk.seen) = Cardinality(old)
                  /\ \A k \in DOMAIN walk.seen : walk.seen[k].rank = k
=============================================================================
