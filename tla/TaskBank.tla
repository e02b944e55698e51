------------------------------ MODULE TaskBank ------------------------------
(* A task on its way from the generated file over review and dataset into  *)
(* the table tasks: the validation tool, salvage_needs_fix,                *)
(* export_tagged_dataset, manual_tasks_m6, import_dataset,                 *)
(* regenerate_expected_result and the sandbox they run the queries in.     *)
(* One operator, one script at a time.  A task's query never changes; what *)
(* changes is the result it is expected to have.                           *)
EXTENDS Naturals, FiniteSets

CONSTANTS Generated,      \* tasks with a file under validated/ or failed/
          Handmade,       \* TASKS of manual_tasks_m6
          Deactivate,     \* DEACTIVATE of manual_tasks_m6
          DirectApprove, DescriptionFix, Skip,   \* lists of salvage_needs_fix
          Passed,         \* the generated ones under validated/
          Editions,       \* contents the sandbox is seeded with
          FirstEdition,   \* the one they were validated in
          Answer,         \* [Generated \cup Handmade -> [Editions -> rows]]
          EmptyResult,    \* no rows
          Claimed,        \* what the model claimed, wrongly, of a failed task
          PlanGates,      \* editions in which all plan gates of Handmade pass
          MaxReseeds      \* bound

Tasks == Generated \cup Handmade

ASSUME BankAssumption ==
    /\ Generated \cap Handmade = {} /\ Deactivate \subseteq Generated
    /\ Passed \subseteq Generated /\ FirstEdition \in Editions /\ PlanGates \subseteq Editions
    /\ \A t \in Tasks, e \in Editions : Answer[t][e] # Claimed

VARIABLES sandbox,     \* edition in the sandbox
          taskFiles,   \* [Generated -> file]
          reviews,     \* [Generated -> Decisions], manual_review.sqlite
          exists,      \* there is a final_dataset.json
          dataset,     \* the task_ids in it -> entry
          catalogue,   \* modules and concepts are seeded
          bank,        \* the source_ids in table tasks -> row
          repair,      \* the run of regenerate_expected_result
          reseeds,
          unsynced,    \* ghost: rows regenerated without the dataset
          rewritten    \* ghost: the dataset was written since the last import

bankVars == <<sandbox, taskFiles, reviews, exists, dataset, catalogue, bank, repair, reseeds,
              unsynced, rewritten>>

NoEntries == [t \in {} |-> {}]
Unreviewed == "unreviewed"
AtRest == [on |-> FALSE, sync |-> FALSE, todo |-> {}, updates |-> NoEntries]

BankInit ==
    /\ sandbox = FirstEdition
    /\ taskFiles = [t \in Generated |-> [typo |-> t \in DescriptionFix,
          expected |-> IF t \in Passed THEN Answer[t][FirstEdition] ELSE Claimed]]
    /\ reviews = [t \in Generated |-> Unreviewed]
    /\ exists = FALSE /\ dataset = NoEntries /\ catalogue = FALSE /\ bank = NoEntries
    /\ repair = AtRest /\ reseeds = 0 /\ unsynced = {} /\ rewritten = FALSE

Idle == ~repair.on

(* The page enters every task it does not know as pending.                 *)
BootstrapPendingReviews ==
    /\ Idle /\ \E t \in Generated : reviews[t] = Unreviewed
    /\ reviews' = [t \in Generated |-> IF reviews[t] = Unreviewed THEN "pending" ELSE reviews[t]]
    /\ UNCHANGED <<sandbox, taskFiles, exists, dataset, catalogue, bank, repair, reseeds, unsynced, rewritten>>

(* Any task may be decided on, one that failed validation too.             *)
Decide(t, decision) ==
    /\ Idle /\ reviews[t] # Unreviewed /\ reviews[t] # decision
    /\ reviews' = [reviews EXCEPT ![t] = decision]
    /\ UNCHANGED <<sandbox, taskFiles, exists, dataset, catalogue, bank, repair, reseeds, unsynced, rewritten>>

Rerun(t) == t \notin DirectApprove \cup DescriptionFix \cup Skip

(* What the salvage makes of one task's file; it approves an empty result  *)
(* as well as any other.                                                   *)
Salvaged(t) ==
    CASE t \in DirectApprove -> taskFiles[t]
      [] t \in DescriptionFix -> [taskFiles[t] EXCEPT !.typo = FALSE]
      [] OTHER -> [taskFiles[t] EXCEPT !.expected = Answer[t][sandbox]]

Salvage(t) ==
    /\ Idle /\ reviews[t] = "needs_fix"
    /\ t \in DirectApprove \/ (t \in DescriptionFix /\ taskFiles[t].typo) \/ Rerun(t)
    /\ taskFiles' = [taskFiles EXCEPT ![t] = Salvaged(t)]
    /\ reviews' = [reviews EXCEPT ![t] = "approved"]
    /\ UNCHANGED <<sandbox, exists, dataset, catalogue, bank, repair, reseeds, unsynced, rewritten>>

(* The dataset is written anew from the reviews and the files: nothing of   *)
(* the old one is kept, and is_active is not among the fields.              *)
ExportTaggedDataset ==
    /\ Idle
    /\ dataset' = [t \in {g \in Generated : reviews[g] = "approved"} |->
                     [expected |-> taskFiles[t].expected, active |-> "missing"]]
    /\ exists' = TRUE /\ rewritten' = TRUE
    /\ UNCHANGED <<sandbox, taskFiles, reviews, catalogue, bank, repair, reseeds, unsynced>>

(* All gates of all tasks first; then the deactivations and the new tasks.  *)
Marked(t) ==
    IF t \in Deactivate THEN [dataset[t] EXCEPT !.active = "false"]
    ELSE IF dataset[t].active = "missing" THEN [dataset[t] EXCEPT !.active = "true"]
    ELSE dataset[t]

ManualTasksM6 ==
    /\ Idle /\ exists
    /\ sandbox \in PlanGates /\ \A t \in Handmade : Answer[t][sandbox] # EmptyResult
    /\ dataset' = [t \in DOMAIN dataset \cup Handmade |->
          IF t \in DOMAIN dataset THEN Marked(t)
          ELSE [expected |-> Answer[t][sandbox], active |-> "true"]]
    /\ rewritten' = TRUE
    /\ UNCHANGED <<sandbox, taskFiles, reviews, exists, catalogue, bank, repair, reseeds, unsynced>>

SeedCatalogue ==
    /\ Idle /\ ~catalogue /\ catalogue' = TRUE
    /\ UNCHANGED <<sandbox, taskFiles, reviews, exists, dataset, bank, repair, reseeds, unsynced, rewritten>>

(* _parse_is_active: a missing field means active.                         *)
ParseIsActive(entry) == entry.active # "false"

Upserted(t) == [expected |-> dataset[t].expected, active |-> ParseIsActive(dataset[t])]

(* Without modules and concepts every task is an error and nothing is      *)
(* written; otherwise all is upserted in one commit.  Rows the dataset no  *)
(* longer has stay as they are.                                            *)
ImportDataset ==
    /\ Idle /\ exists /\ catalogue
    /\ bank' = [t \in DOMAIN bank \cup DOMAIN dataset |->
                  IF t \in DOMAIN dataset THEN Upserted(t) ELSE bank[t]]
    /\ unsynced' = {} /\ rewritten' = FALSE
    /\ UNCHANGED <<sandbox, taskFiles, reviews, exists, dataset, catalogue, repair, reseeds>>

Regenerate(ts, sync) ==
    /\ Idle /\ ts \subseteq DOMAIN bank
    /\ repair' = [AtRest EXCEPT !.on = TRUE, !.sync = sync, !.todo = ts]
    /\ UNCHANGED <<sandbox, taskFiles, reviews, exists, dataset, catalogue, bank, reseeds, unsynced, rewritten>>

Guarded(t) == Answer[t][sandbox] # EmptyResult

With(updates, t) ==
    [s \in DOMAIN updates \cup {t} |-> IF s = t THEN Answer[t][sandbox] ELSE updates[s]]

(* A slip: a refused task enters the updates too.                          *)
UpdatesUnguarded(t) == With(repair.updates, t)

Updates(t) == IF Guarded(t) THEN With(repair.updates, t) ELSE repair.updates

(* Each task is committed by itself; a refused one is left alone.          *)
RegenerateTask(t) ==
    /\ repair.on /\ t \in repair.todo
    /\ bank' = IF Guarded(t) THEN [bank EXCEPT ![t].expected = Answer[t][sandbox]] ELSE bank
    /\ unsynced' = IF Guarded(t) THEN unsynced \cup {t} ELSE unsynced
    /\ repair' = [repair EXCEPT !.todo = @ \ {t}, !.updates = Updates(t)]
    /\ UNCHANGED <<sandbox, taskFiles, reviews, exists, dataset, catalogue, reseeds, rewritten>>

(* The dataset follows at the very end, if asked for.                      *)
SyncDataset ==
    /\ repair.on /\ repair.todo = {}
    /\ IF repair.sync
       THEN /\ dataset' = [t \in DOMAIN dataset |->
                  IF t \in DOMAIN repair.updates
                  THEN [dataset[t] EXCEPT !.expected = repair.updates[t]] ELSE dataset[t]]
            /\ unsynced' = unsynced \ DOMAIN repair.updates
       ELSE UNCHANGED <<dataset, unsynced>>
    /\ repair' = AtRest
    /\ UNCHANGED <<sandbox, taskFiles, reviews, exists, catalogue, bank, reseeds, rewritten>>

RegenerateDies ==
    /\ repair.on /\ repair' = AtRest
    /\ UNCHANGED <<sandbox, taskFiles, reviews, exists, dataset, catalogue, bank, reseeds, unsynced, rewritten>>

(* seed_sandbox is deterministic; a new edition is a change of the script. *)
SeedSandbox(edition) ==
    /\ Idle /\ reseeds < MaxReseeds /\ edition # sandbox
    /\ sandbox' = edition /\ reseeds' = reseeds + 1
    /\ UNCHANGED <<taskFiles, reviews, exists, dataset, catalogue, bank, repair, unsynced, rewritten>>

BankNext ==
    \/ BootstrapPendingReviews
    \/ \E t \in Generated, decision \in {"approved", "rejected", "needs_fix"} : Decide(t, decision)
    \/ \E t \in Generated : Salvage(t)
    \/ ExportTaggedDataset \/ ManualTasksM6 \/ SeedCatalogue \/ ImportDataset
    \/ \E ts \in SUBSET Tasks \ {{}}, sync \in BOOLEAN : Regenerate(ts, sync)
    \/ \E t \in Tasks : RegenerateTask(t)
    \/ SyncDataset \/ RegenerateDies
    \/ \E edition \in Editions : SeedSandbox(edition)

BankSpec == BankInit /\ [][BankNext]_bankVars

(* Importing is safe to repeat: while no repair was left out of the dataset *)
(* (not asked for, or cut off before the end) and the dataset was not       *)
(* rewritten since, every row is what an import would make of it, so that   *)
(* no import undoes a repair or a deactivation.                             *)
ImportUndoesNothing ==
    (Idle /\ ~rewritten) =>
        \A t \in (DOMAIN bank \cap DOMAIN dataset) \ unsynced : bank[t] = Upserted(t)
=============================================================================
