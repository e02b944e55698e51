----------------------------- MODULE Generation -----------------------------
(* The scripts that ask the model for tasks (generate_tasks, its batch over *)
(* the distribution matrix, identify_phantom_failures, regenerate_phantoms, *)
(* manual_tasks_2b2).  A cell of the matrix is a concept at a difficulty;   *)
(* a job works off so many tasks of each cell, in the order of the cells.   *)
EXTENDS Integers, FiniteSetsExt, Functions

CONSTANTS Cells,      \* 1..n, the matrix in the order of the batch
          ConceptOf,  \* [Cells -> concepts], a concept's cells in one piece
          Count,      \* [Cells -> Nat], tasks the matrix asks for
          ByHand,     \* cells of the concepts the batch skips
          Retries,    \* attempts at one task
          Budget,     \* of a batch, in tasks paid for
          RegenBudget,
          Parts,      \* 1..n, the names batch_report_M*.json in their order
          MaxJobs, MaxAstray   \* bounds: jobs started, answers for another cell

ASSUME CellsAssumption ==
    /\ IsFiniteSet(Cells) /\ Cells = 1..Cardinality(Cells)
    /\ Count \in [Cells -> Nat]
    /\ ByHand \subseteq Cells
    /\ IsFiniteSet(Parts) /\ Parts = 1..Cardinality(Parts)
    /\ \A a, b \in Cells : ConceptOf[a] = ConceptOf[b] => (a \in ByHand <=> b \in ByHand)
    /\ \A a, b, c \in Cells :
          a < b /\ b < c /\ ConceptOf[a] = ConceptOf[c] => ConceptOf[b] = ConceptOf[a]

VARIABLES job,      \* what runs: one of Jobs, or "idle"
          left,     \* [Cells -> Nat], tasks the job has still to produce
          tries,    \* attempts at the present task
          meta,     \* the last answer that was a task at all, and for which cell
          cost,     \* what the job believes to have spent
          failures, \* of the concept in work
          drafted,  \* [concepts -> Nat \cup {NotReported}], the batch's report so far
          report,   \* likewise, batch_report.json; Blank: none, or one of nothing
          parts,    \* [Parts -> the same], the reports put aside, by file name
          files,    \* [Cells -> [validated : Nat, failed : Nat]]
          phantoms, \* [Cells -> Nat], phantoms_to_regenerate.json
          listed,   \* phantoms was written, and no file or report since
          jobs,     \* jobs started
          taken,    \* [concepts -> Nat], how often a job took up a concept,
                    \* a regeneration from a fresh list not counted
          astray    \* files that are for another cell than was asked for

generationVars == <<job, left, tries, meta, cost, failures, drafted, report, parts, files,
                    phantoms, listed, jobs, taken, astray>>

Jobs == {"batch", "single", "regenerate", "manual"}
Themes == {ConceptOf[c] : c \in Cells}
CellsOf(k) == {c \in Cells : ConceptOf[c] = k}
Nothing == [c \in Cells |-> 0]
NotReported == -1
Blank == [k \in Themes |-> NotReported]
NoMeta == [verdict |-> "none", cell |-> 0]

GenerationInit ==
    /\ job = "idle" /\ left = Nothing
    /\ tries = 0 /\ meta = NoMeta /\ cost = 0 /\ failures = 0
    /\ drafted = Blank /\ report = Blank /\ parts = [n \in Parts |-> Blank]
    /\ files = [c \in Cells |-> [validated |-> 0, failed |-> 0]]
    /\ phantoms = Nothing /\ listed = FALSE
    /\ jobs = 0 /\ taken = [k \in Themes |-> 0] /\ astray = 0

Start(kind, work) ==
    /\ job = "idle" /\ jobs < MaxJobs
    /\ job' = kind /\ left' = work /\ jobs' = jobs + 1
    /\ cost' = 0 /\ failures' = 0 /\ drafted' = Blank
    /\ UNCHANGED <<tries, meta, report, parts, files, phantoms, listed, astray>>

(* _iter_matrix_plan: the concepts written by hand are skipped.            *)
StartBatch == /\ Start("batch", [c \in Cells |-> IF c \in ByHand THEN 0 ELSE Count[c]])
              /\ taken' = [k \in Themes |-> IF CellsOf(k) \subseteq ByHand
                                              THEN taken[k] ELSE taken[k] + 1]

StartSingle(c) == /\ Start("single", [Nothing EXCEPT ![c] = 1])
                  /\ taken' = [taken EXCEPT ![ConceptOf[c]] = @ + 1]

(* The script takes the list as it is, also one it has worked off before.  *)
StartRegeneration ==
    /\ Start("regenerate", phantoms)
    /\ taken' = [k \in Themes |-> IF ~listed /\ \E c \in CellsOf(k) : phantoms[c] > 0
                                  THEN taken[k] + 1 ELSE taken[k]]

StartManual == /\ Start("manual", [c \in Cells |-> IF c \in ByHand THEN Count[c] ELSE 0])
               /\ UNCHANGED taken

Pending == {c \in Cells : left[c] > 0}
Current == Min(Pending)
Between == tries = 0 /\ meta = NoMeta
CapReached == \/ job = "batch" /\ cost >= Budget
              \/ job = "regenerate" /\ cost >= RegenBudget

(* One round of generate_one: no task in the answer (an API error, text that*)
(* is no task), a task the validator refuses, a task that passes.  The task *)
(* names its concept and difficulty itself, and nobody compares them with   *)
(* what was asked.                                                          *)
Attempt(answer) ==
    /\ job \in {"batch", "single", "regenerate"} /\ Pending # {}
    /\ Between => ~CapReached
    /\ tries < Retries /\ meta.verdict # "passed"
    /\ tries' = tries + 1
    /\ meta' = IF answer = NoMeta THEN meta ELSE answer
    /\ UNCHANGED <<job, left, cost, failures, drafted, report, parts, files, phantoms, listed,
                   jobs, taken, astray>>

(* TaskValidator.validate: syntax, concept and result, in this order; a     *)
(* detector or a comparison that crashes counts as refused.                 *)
Verdict(proposal) ==
    IF proposal.parses /\ ~proposal.destructive /\ proposal.showsConcept
       /\ proposal.runs /\ proposal.resultAsClaimed THEN "passed" ELSE "failed"

Verdicts == {Verdict(proposal) :
    proposal \in [parses : BOOLEAN, destructive : BOOLEAN, showsConcept : BOOLEAN,
                  runs : BOOLEAN, resultAsClaimed : BOOLEAN]}

Generate ==
    \/ Attempt(NoMeta)
    \/ /\ Pending # {}
       /\ \E verdict \in Verdicts, c \in Cells :
             /\ c = Current \/ astray < MaxAstray
             /\ Attempt([verdict |-> verdict, cell |-> c])

(* save_meta writes what there is, under the cell the task names; a task    *)
(* without an answer leaves no file.                                        *)
SaveMeta ==
    IF meta = NoMeta THEN UNCHANGED <<files, listed, astray>>
    ELSE /\ files' = IF meta.verdict = "passed" THEN [files EXCEPT ![meta.cell].validated = @ + 1]
                     ELSE [files EXCEPT ![meta.cell].failed = @ + 1]
         /\ astray' = IF meta.cell = Current THEN astray ELSE astray + 1
         /\ listed' = FALSE

(* The concept's failures enter the draft with its last task.              *)
Reported(c, work, failed) ==
    IF job = "batch" /\ \A d \in CellsOf(ConceptOf[c]) : work[d] = 0
    THEN drafted' = [drafted EXCEPT ![ConceptOf[c]] = failed] /\ failures' = 0
    ELSE failures' = failed /\ UNCHANGED drafted

FinishTask ==
    /\ job \in {"batch", "single", "regenerate"} /\ Pending # {}
    /\ meta.verdict = "passed" \/ tries = Retries
    /\ left' = [left EXCEPT ![Current] = @ - 1]
    /\ SaveMeta
    /\ cost' = IF meta = NoMeta THEN cost ELSE cost + 1
    /\ Reported(Current, left', IF meta.verdict = "passed" THEN failures ELSE failures + 1)
    /\ tries' = 0 /\ meta' = NoMeta
    /\ UNCHANGED <<job, report, parts, phantoms, jobs, taken>>

(* The hand-written query is run; if it fails, it is left out.             *)
ManualTask(works) ==
    /\ job = "manual" /\ Pending # {}
    /\ left' = [left EXCEPT ![Current] = @ - 1]
    /\ files' = IF works THEN [files EXCEPT ![Current].validated = @ + 1] ELSE files
    /\ listed' = IF works THEN FALSE ELSE listed
    /\ UNCHANGED <<job, tries, meta, cost, failures, drafted, report, parts, phantoms, jobs,
                   taken, astray>>

Stop == /\ job # "idle"
        /\ job' = "idle" /\ left' = Nothing /\ tries' = 0 /\ meta' = NoMeta
        /\ cost' = 0 /\ failures' = 0 /\ drafted' = Blank
        /\ UNCHANGED <<parts, files, phantoms, jobs, taken, astray>>

(* A report that says something new makes the list of phantoms an old one.  *)
Write(r) == report' = r /\ listed' = IF r = report THEN listed ELSE FALSE

(* Done, or over budget: the concept then in work is not reported.  A batch *)
(* overwrites batch_report.json, whatever an earlier one had reported.      *)
EndJob == /\ Between /\ (Pending = {} \/ CapReached)
          /\ Stop
          /\ Write(IF job = "batch" THEN drafted ELSE report)

(* An exception (no configuration of the concept) or Ctrl-C: the files      *)
(* written stay, the report is only written at the end.                     *)
JobDies == Stop /\ UNCHANGED <<report, listed>>

(* The operator renames the report of a batch before he starts the next.    *)
RenameReport(n) ==
    /\ job = "idle" /\ report # Blank
    /\ parts' = [parts EXCEPT ![n] = report]
    /\ Write(Blank)
    /\ UNCHANGED <<job, left, tries, meta, cost, failures, drafted, files, phantoms, jobs, taken,
                   astray>>

(* aggregate: the renamed reports in the order of their names, of a concept *)
(* in several of them what the last says; batch_report.json is overwritten. *)
Telling(k) == {n \in Parts : parts[n][k] # NotReported}
Aggregated == [k \in Themes |-> IF Telling(k) = {} THEN NotReported ELSE parts[Max(Telling(k))][k]]

AggregateReports ==
    /\ job = "idle"
    /\ Write(Aggregated)
    /\ UNCHANGED <<job, left, tries, meta, cost, failures, drafted, parts, files, phantoms, jobs,
                   taken, astray>>

(* identify_phantom_failures: reported failures without a file make a      *)
(* concept suspect; its cells are then short of what the matrix asks for.  *)
SavedFailed(k) == SumFunctionOnSet([c \in Cells |-> files[c].failed], CellsOf(k))
OnDisk(c) == files[c].validated + files[c].failed
Shortfall(c) == IF OnDisk(c) < Count[c] THEN Count[c] - OnDisk(c) ELSE 0

(* A plausible slip: every saved file explains a reported failure.         *)
SavedAtAll(k) == SumFunctionOnSet([c \in Cells |-> OnDisk(c)], CellsOf(k))
ConceptsByAllFiles == {k \in Themes : report[k] # NotReported /\ report[k] > SavedAtAll(k)}

PhantomConcepts == {k \in Themes : report[k] # NotReported /\ report[k] > SavedFailed(k)}

IdentifyPhantoms ==
    /\ job = "idle"
    /\ phantoms' = [c \in Cells |-> IF ConceptOf[c] \in PhantomConcepts THEN Shortfall(c) ELSE 0]
    /\ listed' = TRUE
    /\ UNCHANGED <<job, left, tries, meta, cost, failures, drafted, report, parts, files, jobs,
                   taken, astray>>

GenerationNext ==
    \/ StartBatch \/ StartRegeneration \/ StartManual
    \/ \E c \in Cells : StartSingle(c)
    \/ Generate \/ FinishTask
    \/ \E works \in BOOLEAN : ManualTask(works)
    \/ EndJob \/ JobDies \/ IdentifyPhantoms
    \/ AggregateReports \/ \E n \in Parts : RenameReport(n)

GenerationSpec == GenerationInit /\ [][GenerationNext]_generationVars

(* No task is forgotten: where one batch, and nothing else, has taken up a  *)
(* concept and reported it, the list names exactly the tasks the matrix     *)
(* still misses, though the report only counts failures per concept and     *)
(* says nothing of difficulties.  A second batch, or a list worked off      *)
(* twice, leaves failed files that cover up for tasks that have none; and a *)
(* task that names another cell leaves its own one short for good.          *)
PhantomsAreFound ==
    listed /\ astray = 0 => \A c \in Cells :
        report[ConceptOf[c]] # NotReported /\ taken[ConceptOf[c]] = 1 =>
            phantoms[c] = Shortfall(c)
=============================================================================
