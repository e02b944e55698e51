------------------------------ MODULE MCJudging ------------------------------
(* Three rows, two of them equal; a select task with a sorted reference, a *)
(* DML task and a task whose plan is checked, whose reference query sits   *)
(* at the edge of the planner's choice.  One text empties the table and    *)
(* commits, one does so under a role of its own choice.                    *)
EXTENDS Judging, TLC

Num(n) == [typed |-> TRUE, number |-> n, text |-> "number"]
Txt(n) == [typed |-> FALSE, number |-> n, text |-> "7.0"]

Ids(rows)    == [cols |-> <<"id">>, rows |-> [i \in 1..Len(rows) |-> [id |-> Num(rows[i])]]]
IdTexts(rows) == [cols |-> <<"id">>, rows |-> [i \in 1..Len(rows) |-> [id |-> Txt(rows[i])]]]

MCQueries == {"blank", "explain", "broken", "endless", "ids", "sorted", "descending", "texts",
              "other duplicates", "renamed", "nothing", "insert", "delete and commit", "delete as writer",
              "by index", "edge"}

MCSeeded == <<7, 8, 7>>

MCEffect(q, t) ==
    CASE q = "insert" -> Append(t, 9)
      [] q \in {"delete and commit", "delete as writer"} -> <<>>
      [] OTHER -> t

MCContents == Rearranged(MCSeeded) \cup {<<>>}

MCOutput(q, t) ==
    CASE q = "sorted"           -> Ids(SortSeq(t, <))
      [] q = "descending"       -> Ids(<<8, 7, 7>>)
      [] q = "texts"            -> IdTexts(t)
      [] q = "other duplicates" -> Ids(<<7, 8, 8>>)
      [] q = "delete as writer" -> Ids(MCSeeded)  \* its first statement selects
      [] q = "renamed"          -> [cols |-> <<"x">>, rows |-> [i \in 1..Len(t) |-> [x |-> Num(t[i])]]]
      [] q = "nothing"          -> [cols |-> <<"id">>, rows |-> <<>>]
      [] q = "insert"           -> Ids(<<9>>)
      [] q = "explain"          -> [cols |-> <<"plan">>, rows |-> <<[plan |-> Txt(NotANumber)]>>]
      [] OTHER                  -> Ids(t)

MCPlan(q, b) == CASE q = "by index" -> "index"
                  [] q = "edge"     -> IF b = 0 THEN "seq" ELSE "index"
                  [] OTHER          -> "seq"

MCTasks == {"select", "add", "plan"}
MCConcept == [select |-> "order_by", add |-> "insert", plan |-> "index_usage"]
MCExpectedQuery == [select |-> "sorted", add |-> "insert", plan |-> "edge"]
MCExpectedResult == [select |-> Ids(<<7, 7, 8>>), add |-> Ids(<<9>>),
                     plan |-> Ids(<<7, 8, 7>>)]
MCSubmissions ==
    {"select"} \X (MCQueries \ {"insert", "delete and commit", "delete as writer", "by index",
                                "edge"})
        \cup {"add"} \X {"insert", "delete and commit", "ids", "endless"}
        \cup {"plan"} \X {"by index", "explain", "edge", "delete as writer"}
===============================================================================
