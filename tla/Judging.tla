------------------------------- MODULE Judging -------------------------------
(***************************************************************************)
(* Who uses the sandbox at the same time: the Evaluator, one attempt after *)
(* the other; the integrity sweep, which evaluates every reference query;  *)
(* and POST /run, read-only.                                               *)
(***************************************************************************)
EXTENDS Evaluation

CONSTANTS
    Evaluator, Sweep, Route,  \* the three runners
    Submissions,  \* pairs of a task and a query students submit
    RunQueries    \* queries they try out

ASSUME JudgingAssumption ==
    /\ Runners = {Evaluator, Sweep, Route} /\ Route \notin {Evaluator, Sweep}
    /\ Submissions \subseteq Tasks \X Queries
    /\ RunQueries \subseteq Queries

(* What expected_result stands for: it was taken from the reference query  *)
(* run by itself on the seeded rows, and whatever order the heap has them  *)
(* in, evaluate finds the two equal.  A task of which this does not hold   *)
(* is what the sweep looks for and regenerate_expected_result repairs.     *)
ASSUME ReferenceAssumption ==
    \A t \in Tasks :
        LET q == ExpectedQuery[t] IN
        /\ q \in Queries \ (Broken \cup Endless \cup Commits \cup TakesRole)
        /\ q \in Writes => IsDml(t)
        /\ TextVerdict(t, q) = "none"
        /\ \A rows \in Rearranged(Seeded) : ResultVerdict(t, q, Success(Output(q, rows))).correct

(* What fetchall and the import return: rows in a sequence, and the values *)
(* of a column of one SQL type, so that either none of them is a Python    *)
(* number or every one that reads as a number is.                          *)
IsResult(rows) ==
    /\ rows \in Seq(Range(rows))
    /\ \A i, j \in 1..Len(rows) : \A k \in DOMAIN rows[i] \cap DOMAIN rows[j] :
          rows[i][k].typed => rows[j][k].typed \/ rows[j][k].number = NotANumber

ASSUME ResultAssumption ==
    /\ \A t \in Tasks : IsResult(ExpectedResult[t].rows)
    /\ \A q \in Queries, rows \in Contents : IsResult(Output(q, rows).rows)

VARIABLE judge  \* judge[j]: the call of evaluate in progress

vars == <<sandboxVars, judge>>

Judges == {Evaluator, Sweep}

Resting == [stage |-> "idle", task |-> "", query |-> "", outcome |-> Outcome("", "none"),
            plan |-> "none", seenBloat |-> 0, rows |-> <<>>, ran |-> FALSE, moved |-> FALSE,
            disturbed |-> FALSE]

Init ==
    /\ SandboxInit
    /\ judge = [j \in Judges |-> Resting]

-----------------------------------------------------------------------------
(* A submission reaches the judge; steps 1 and 2 need no database.         *)
Begin(j, t, q) ==
    /\ judge[j].stage = "idle"
    /\ LET verdict == TextVerdict(t, q) IN
       IF verdict # "none"
       THEN /\ judge' = [judge EXCEPT ![j] = [Resting EXCEPT
                            !.stage = "judged", !.task = t, !.query = q,
                            !.outcome = Outcome("incorrect", verdict)]]
            /\ UNCHANGED sandboxVars
       ELSE /\ judge' = [judge EXCEPT ![j] = [Resting EXCEPT
                            !.stage = "executing", !.task = t, !.query = q]]
            /\ Execute(j, q, IsDml(t))

(* execute has returned.                                                   *)
Classify(j) ==
    LET t       == judge[j].task
        result  == conn[j].result
        outcome == ResultVerdict(t, judge[j].query, result)
    IN
    /\ judge[j].stage = "executing"
    /\ Stage(j) = "returned"
    /\ Hand(j)
    /\ judge' = [judge EXCEPT
                   ![j].stage = IF outcome.correct /\ PlanChecked(t) THEN "explaining" ELSE "judged",
                   ![j].outcome = outcome,
                   ![j].ran = result.success,
                   ![j].rows = result.rows,
                   ![j].disturbed = result.error = "connection"]
    /\ UNCHANGED <<table, bloat, kept, sandboxFaults>>

(* The two calls of explain, each over a connection of its own; DML is     *)
(* refused there.  EXPLAIN only heads the text: a text of several          *)
(* statements that sets the role writes once more.                         *)
ExplainSubmitted(j) ==
    LET q == judge[j].query IN
    /\ judge[j].stage = "explaining"
    /\ IF q \in (Writes \cap TakesRole) \ (Broken \cup Endless)
       THEN ~Locked(j) /\ KeepEffect(q)
       ELSE UNCHANGED <<table, kept>>
    /\ judge' = [judge EXCEPT ![j].stage = "comparing",
                              ![j].plan = Plan(judge[j].query, bloat),
                              ![j].seenBloat = bloat]
    /\ UNCHANGED <<bloat, conn, sandboxFaults>>

ExplainReference(j) ==
    LET reference == Plan(ExpectedQuery[judge[j].task], bloat) IN
    /\ judge[j].stage = "comparing"
    /\ judge' = [judge EXCEPT
                   ![j].stage = "judged",
                   ![j].moved = judge[j].seenBloat # bloat,
                   ![j].outcome = IF judge[j].plan = reference THEN @
                                  ELSE Outcome("incorrect", "plan_mismatch")]
    /\ UNCHANGED sandboxVars

ExplainFails(j) ==
    /\ judge[j].stage \in {"explaining", "comparing"}
    /\ sandboxFaults < MaxSandboxFaults
    /\ sandboxFaults' = sandboxFaults + 1
    /\ judge' = [judge EXCEPT ![j].stage = "judged",
                              ![j].outcome = Outcome("incorrect", "plan_unavailable"),
                              ![j].disturbed = TRUE]
    /\ UNCHANGED <<table, bloat, conn, kept>>

(* The Evaluator persists what is not plan_unavailable; the sweep reports. *)
Persist ==
    /\ judge[Evaluator].stage = "judged"
    /\ judge[Evaluator].outcome.error # "plan_unavailable"
    /\ judge' = [judge EXCEPT ![Evaluator].stage = "persisted", ![Evaluator].rows = <<>>]
    /\ UNCHANGED sandboxVars

Conclude(j) ==
    /\ \/ judge[j].stage = "persisted"
       \/ judge[j].stage = "judged" /\ (j = Sweep \/ judge[j].outcome.error = "plan_unavailable")
    /\ judge' = [judge EXCEPT ![j] = Resting]
    /\ UNCHANGED sandboxVars

(* POST /run: any query, never as DML; the answer goes to the page.        *)
PostRun(q) ==
    /\ Execute(Route, q, FALSE)
    /\ UNCHANGED judge

RunAnswered ==
    /\ Stage(Route) = "returned"
    /\ Hand(Route)
    /\ UNCHANGED <<table, bloat, kept, sandboxFaults, judge>>

JudgeStep(j) ==
    \/ Classify(j) \/ ExplainSubmitted(j) \/ ExplainReference(j) \/ Conclude(j)
    \/ j = Evaluator /\ Persist
    \/ RunnerStep(j) /\ UNCHANGED judge

RouteStep == RunAnswered \/ (RunnerStep(Route) /\ UNCHANGED judge)

Trouble ==
    \/ \E r \in Runners : ConnectionLost(r) /\ UNCHANGED judge
    \/ \E j \in Judges : ExplainFails(j)

Database == (Vacuum \/ Rewrite) /\ UNCHANGED judge

Next ==
    \/ \E s \in Submissions : Begin(Evaluator, s[1], s[2])
    \/ \E t \in Tasks : Begin(Sweep, t, ExpectedQuery[t])
    \/ \E q \in RunQueries : PostRun(q)
    \/ \E j \in Judges : JudgeStep(j)
    \/ RouteStep \/ Trouble \/ Database

Spec == Init /\ [][Next]_vars

-----------------------------------------------------------------------------
TypeOK ==
    /\ SandboxTypeOK
    /\ \A j \in Judges :
         /\ judge[j].stage \in {"idle", "executing", "explaining", "comparing", "judged",
                               "persisted"}
         /\ judge[j].stage # "idle" => judge[j].task \in Tasks /\ judge[j].query \in Queries
         /\ judge[j].stage \in {"explaining", "comparing"} => judge[j].outcome.correct
         /\ judge[j].stage = "executing" <=> Stage(j) # "closed"

Judged(j) == judge[j].stage = "judged"

(* What submissions write for their verdict is gone afterwards, on every   *)
(* path and whenever connections and statements break off: up to their     *)
(* order the committed rows are the seeded ones, or what the last text     *)
(* left that committed for itself, which no rollback of execute undoes.    *)
OnlySelfCommittedStays ==
    table \in Rearranged(IF kept = <<>> THEN Seeded ELSE kept[Len(kept)])

(* The greedy comparison takes the rows for equal exactly when some        *)
(* one-to-one correspondence of equal rows exists, and for a query with    *)
(* ORDER BY when the sequences agree: neither duplicates nor numbers that  *)
(* come as text mislead it.                                                *)
SameResult(actual, expected, ordered) ==
    /\ Len(actual) = Len(expected)
    /\ \E p \in Orders(Len(actual)) :
          /\ ordered => \A i \in 1..Len(actual) : p[i] = i
          /\ \A i \in 1..Len(actual) : RowsEqual(actual[i], expected[p[i]])

AcceptedMeansSameResult ==
    \A j \in Judges :
        LET v == judge[j] IN
        Judged(j) /\ v.ran =>
            (SameResult(v.rows, ExpectedResult[v.task].rows, v.query \in Ordered)
                <=> v.outcome.error \in {"none", "plan_mismatch", "plan_unavailable"})

(* The claim of the sweep: the reference query of a task is judged         *)
(* correct, at any time and next to any other work, unless a text has      *)
(* committed changes for itself, a connection was lost, somebody else's    *)
(* lock outlasted the statement timeout, or the dead rows changed between  *)
(* the two plans.                                                          *)
ReferenceIsAccepted ==
    \A j \in Judges :
        LET v == judge[j] IN
        Judged(j) /\ v.query = ExpectedQuery[v.task] =>
            \/ v.outcome.correct
            \/ kept # <<>>
            \/ v.disturbed
            \/ v.outcome.error = "timeout" /\ v.query \in Writes
            \/ v.outcome.error = "plan_mismatch" /\ v.moved

(* Errata 69, evaluator_agent.py "SMETNJA SUSTAVA NE POSTAJE POKUŠAJ": an  *)
(* attempt is never judged by a failure of the system.  VIOLATED: only     *)
(* plan_unavailable is kept out.                                           *)
DisturbanceIsNoAttempt ==
    judge[Evaluator].stage = "persisted" => ~judge[Evaluator].disturbed
===============================================================================
