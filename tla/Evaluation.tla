------------------------------ MODULE Evaluation ------------------------------
(***************************************************************************)
(* evaluation.py over SandboxRunner.compare and explain: the order in      *)
(* which an attempt is classified, how two results are compared, and the   *)
(* plan of the submitted query against that of the reference query.        *)
(***************************************************************************)
EXTENDS Sandbox

CONSTANTS
    Tasks,
    Concept,         \* Concept[t]: the primary concept of the task
    ExpectedQuery,   \* ExpectedQuery[t]
    ExpectedResult,  \* ExpectedResult[t]: [cols, rows] as the import stored it
    Blank,           \* submissions sqlparse finds nothing in
    Explains,        \* submissions that are an EXPLAIN themselves
    Ordered          \* queries whose text contains ORDER BY

PlanCheckedConcepts == {"explain_plan", "index_usage"}
DmlConcepts         == {"insert", "update", "delete"}

PlanChecked(t) == Concept[t] \in PlanCheckedConcepts
IsDml(t)       == Concept[t] \in DmlConcepts

-----------------------------------------------------------------------------
(* Values.  A value is a number (int or float) or a text, which the text   *)
(* of a number may be: Decimals come as text.  number is what _as_decimal  *)
(* makes of it.                                                            *)

NotANumber == -1

ValuesEqual(a, b) ==
    IF (a.typed \/ b.typed) /\ a.number # NotANumber /\ b.number # NotANumber
    THEN a.number = b.number
    ELSE a = b

RowsEqual(a, b) == DOMAIN a = DOMAIN b /\ \A k \in DOMAIN a : ValuesEqual(a[k], b[k])

(* The greedy matching: each actual row takes away the first expected row  *)
(* that it equals; left[k] are the positions left after k rows.            *)
Unmatched(actual, expected) ==
    LET left[k \in 0..Len(actual)] ==
          IF k = 0 THEN 1..Len(expected)
          ELSE {i \in left[k - 1] :
                   \/ ~RowsEqual(actual[k], expected[i])
                   \/ \E j \in left[k - 1] : j < i /\ RowsEqual(actual[k], expected[j])}
    IN  left[Len(actual)]

(* Mutant: the rows are compared as sets.                                  *)
MatchesAsSets(actual, expected, ordered) ==
    /\ Len(actual) = Len(expected)
    /\ IF ordered
       THEN \A i \in 1..Len(actual) : RowsEqual(actual[i], expected[i])
       ELSE \A i \in 1..Len(actual) : \E j \in 1..Len(expected) : RowsEqual(actual[i], expected[j])

(* compare: in order if the submitted query asks for one.                  *)
Matches(actual, expected, ordered) ==
    /\ Len(actual) = Len(expected)
    /\ IF ordered
       THEN \A i \in 1..Len(actual) : RowsEqual(actual[i], expected[i])
       ELSE Unmatched(actual, expected) = {}

-----------------------------------------------------------------------------
(* evaluate, up to the plan.                                               *)

Outcome(verdict, error) == [correct |-> verdict = "correct", verdict |-> verdict, error |-> error]

(* Steps 1 and 2: decided from the text alone.                             *)
TextVerdict(t, q) ==
    IF q \in Blank THEN "syntax_error"
    ELSE IF PlanChecked(t) /\ q \in Explains THEN "explain_submitted"
    ELSE "none"

(* Steps 3 to 6, of the result of execute.                                 *)
ResultVerdict(t, q, result) ==
    LET expected == ExpectedResult[t].rows IN
    IF ~result.success
    THEN Outcome("incorrect", IF result.error = "timeout" THEN "timeout" ELSE "execution_error")
    ELSE IF expected = <<>>
    THEN IF result.rows = <<>> THEN Outcome("correct", "none")
         ELSE Outcome("incorrect", "row_mismatch")
    ELSE IF Matches(result.rows, expected, q \in Ordered) THEN Outcome("correct", "none")
    ELSE IF result.rows = <<>> THEN Outcome("incorrect", "empty_result")
    ELSE IF {result.cols[i] : i \in 1..Len(result.cols)} # DOMAIN expected[1]
    THEN Outcome("incorrect", "wrong_columns")
    ELSE Outcome("partial", "row_mismatch")
===============================================================================
