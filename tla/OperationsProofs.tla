-------------------------- MODULE OperationsProofs --------------------------
(* For any tasks, reviews, editions of the sandbox, names, users, attempts   *)
(* and scripts: an import takes back neither a repair nor a deactivation     *)
(* that has reached the dataset; the scripts that delete users take all of   *)
(* a user or nothing; and a finished export knows everybody it mentions.     *)
(* For any distribution matrix, budgets and retries: the list of phantoms    *)
(* names the tasks that are missing.                                         *)
EXTENDS Operations, SequenceTheorems, SumProofs

-----------------------------------------------------------------------------
(* The task bank.                                                            *)

Entry(e) == e = [expected |-> e.expected, active |-> e.active]

(* Dataset and table are functions of entries with two fields each.         *)
ShapesInv ==
    /\ dataset = [t \in DOMAIN dataset |-> dataset[t]]
    /\ bank = [t \in DOMAIN bank |-> bank[t]]
    /\ \A t \in DOMAIN dataset : Entry(dataset[t])
    /\ \A t \in DOMAIN bank : Entry(bank[t])
    /\ repair = [on |-> repair.on, sync |-> repair.sync, todo |-> repair.todo,
                 updates |-> repair.updates]

(* What a running repair has noted is what the table holds.                 *)
RepairInv ==
    repair.on =>
        /\ repair.todo \subseteq DOMAIN bank
        /\ \A t \in DOMAIN repair.updates :
              t \in DOMAIN bank /\ bank[t].expected = repair.updates[t]
              /\ repair.updates[t] = Answer[t][sandbox]

(* Since the last import table and dataset agree but for the repairs that   *)
(* the dataset has not been told of, also while a repair is running.        *)
LedgerInv ==
    ~rewritten => \A t \in DOMAIN bank \cap DOMAIN dataset :
        /\ bank[t].active = ParseIsActive(dataset[t])
        /\ t \notin unsynced => bank[t].expected = dataset[t].expected

BankInv == ShapesInv /\ RepairInv /\ LedgerInv

-----------------------------------------------------------------------------
LEMMA InitInv == BankInit => BankInv
  BY DEF BankInit, BankInv, ShapesInv, RepairInv, LedgerInv, NoEntries, AtRest

(* Steps that touch neither dataset nor table nor a running repair.         *)
LEMMA Elsewhere ==
    ASSUME BankInv, UNCHANGED <<dataset, bank, repair, unsynced, rewritten>>,
           repair.on => UNCHANGED sandbox
    PROVE  BankInv'
  BY DEF BankInv, ShapesInv, RepairInv, LedgerInv, ParseIsActive, Entry

(* A dataset written anew is only required to have the shape of one.        *)
LEMMA Rewriting ==
    ASSUME BankInv, Idle, UNCHANGED <<bank, repair>>, rewritten' = TRUE,
           dataset' = [t \in DOMAIN dataset' |-> dataset'[t]],
           \A t \in DOMAIN dataset' : Entry(dataset'[t])
    PROVE  BankInv'
  BY DEF BankInv, ShapesInv, RepairInv, LedgerInv, Idle, Entry

LEMMA ExportKeeps == ASSUME BankInv, ExportTaggedDataset PROVE BankInv'
<1>1. /\ Idle /\ UNCHANGED <<bank, repair>> /\ rewritten' = TRUE
      /\ dataset' = [t \in {g \in Generated : reviews[g] = "approved"} |->
                       [expected |-> taskFiles[t].expected, active |-> "missing"]]
  BY DEF ExportTaggedDataset
<1>2. /\ dataset' = [t \in DOMAIN dataset' |-> dataset'[t]]
      /\ \A t \in DOMAIN dataset' : Entry(dataset'[t])
  BY <1>1 DEF Entry
<1> QED BY <1>1, <1>2, Rewriting

LEMMA ManualKeeps == ASSUME BankInv, ManualTasksM6 PROVE BankInv'
<1>1. /\ Idle /\ UNCHANGED <<bank, repair>> /\ rewritten' = TRUE
      /\ dataset' = [t \in DOMAIN dataset \cup Handmade |->
            IF t \in DOMAIN dataset THEN Marked(t)
            ELSE [expected |-> Answer[t][sandbox], active |-> "true"]]
  BY DEF ManualTasksM6
<1>2. \A t \in DOMAIN dataset : Entry(Marked(t))
  <2> SUFFICES ASSUME NEW t \in DOMAIN dataset PROVE Entry(Marked(t))
    OBVIOUS
  <2>1. dataset[t] = [expected |-> dataset[t].expected, active |-> dataset[t].active]
    BY DEF BankInv, ShapesInv, Entry
  <2>2. \A a : [dataset[t] EXCEPT !.active = a] = [expected |-> dataset[t].expected, active |-> a]
    BY <2>1
  <2> QED BY <2>1, <2>2 DEF Marked, Entry
<1>3. /\ dataset' = [t \in DOMAIN dataset' |-> dataset'[t]]
      /\ \A t \in DOMAIN dataset' : Entry(dataset'[t])
  BY <1>1, <1>2 DEF Entry
<1> QED BY <1>1, <1>3, Rewriting

(* After an import every row of the dataset is as it says.                  *)
LEMMA ImportKeeps == ASSUME BankInv, ImportDataset PROVE BankInv'
<1>1. /\ Idle /\ UNCHANGED <<dataset, repair>> /\ rewritten' = FALSE /\ unsynced' = {}
      /\ bank' = [t \in DOMAIN bank \cup DOMAIN dataset |->
                    IF t \in DOMAIN dataset THEN Upserted(t) ELSE bank[t]]
  BY DEF ImportDataset
<1>2. ShapesInv'
  BY <1>1 DEF BankInv, ShapesInv, Upserted, Entry
<1>3. RepairInv' /\ LedgerInv'
  BY <1>1 DEF BankInv, RepairInv, LedgerInv, Idle, Upserted, ParseIsActive
<1> QED BY <1>2, <1>3 DEF BankInv

LEMMA RegenerateKeeps ==
    ASSUME BankInv, NEW ts \in SUBSET Tasks, NEW sync \in BOOLEAN, Regenerate(ts, sync)
    PROVE  BankInv'
<1>1. /\ UNCHANGED <<dataset, bank, unsynced, rewritten>> /\ ts \subseteq DOMAIN bank
      /\ repair' = [on |-> TRUE, sync |-> sync, todo |-> ts, updates |-> NoEntries]
  BY DEF Regenerate, AtRest
<1>2. ShapesInv'
  BY <1>1 DEF BankInv, ShapesInv, Entry
<1>3. RepairInv'
  BY <1>1 DEF RepairInv, NoEntries
<1>4. LedgerInv'
  BY <1>1 DEF BankInv, LedgerInv, ParseIsActive
<1> QED BY <1>2, <1>3, <1>4 DEF BankInv

(* The row and the note of it change together, and the row counts as not    *)
(* told to the dataset.                                                     *)
LEMMA RegenerateTaskKeeps == ASSUME BankInv, NEW t \in Tasks, RegenerateTask(t) PROVE BankInv'
<1>1. /\ repair.on /\ t \in repair.todo /\ t \in DOMAIN bank
      /\ UNCHANGED <<sandbox, dataset, rewritten>>
      /\ repair' = [repair EXCEPT !.todo = @ \ {t}, !.updates = Updates(t)]
  BY DEF RegenerateTask, BankInv, RepairInv
<1>2. repair' = [on |-> TRUE, sync |-> repair.sync, todo |-> repair.todo \ {t},
                 updates |-> Updates(t)]
  <2>1. repair' = [on |-> repair.on, sync |-> repair.sync, todo |-> repair.todo \ {t},
                   updates |-> Updates(t)]
    BY <1>1 DEF BankInv, ShapesInv
  <2>2. repair.on = TRUE
    BY <1>1 DEF RegenerateTask
  <2> QED BY <2>1, <2>2
<1>3. CASE Guarded(t)
  <2>1. /\ bank' = [bank EXCEPT ![t].expected = Answer[t][sandbox]]
        /\ unsynced' = unsynced \cup {t} /\ Updates(t) = With(repair.updates, t)
    BY <1>3 DEF RegenerateTask, Updates
  <2>2. /\ DOMAIN bank' = DOMAIN bank
        /\ bank' = [s \in DOMAIN bank' |-> bank'[s]]
        /\ \A s \in DOMAIN bank : s # t => bank'[s] = bank[s]
        /\ bank'[t] = [expected |-> Answer[t][sandbox], active |-> bank[t].active]
    <3>1. /\ bank = [s \in DOMAIN bank |-> bank[s]]
          /\ bank[t] = [expected |-> bank[t].expected, active |-> bank[t].active]
      BY <1>1 DEF BankInv, ShapesInv, Entry
    <3>2. [bank[t] EXCEPT !.expected = Answer[t][sandbox]]
            = [expected |-> Answer[t][sandbox], active |-> bank[t].active]
      BY <3>1
    <3>3. bank' = [bank EXCEPT ![t] = [bank[t] EXCEPT !.expected = Answer[t][sandbox]]]
      BY <2>1
    <3>4. bank' = [bank EXCEPT ![t] = [expected |-> Answer[t][sandbox], active |-> bank[t].active]]
      BY <3>2, <3>3, Zenon
    <3>5. bank' = [s \in DOMAIN bank |->
            IF s = t THEN [expected |-> Answer[t][sandbox], active |-> bank[t].active] ELSE bank[s]]
      BY <3>4
    <3> QED BY <1>1, <3>5
  <2>3. ShapesInv'
    <3>1. \A s \in DOMAIN bank' :
             bank'[s] = [expected |-> bank'[s].expected, active |-> bank'[s].active]
      BY <2>2 DEF BankInv, ShapesInv, Entry
    <3>2. repair' = [on |-> repair'.on, sync |-> repair'.sync, todo |-> repair'.todo,
                     updates |-> repair'.updates]
      BY <1>2
    <3> QED BY <1>1, <2>2, <3>1, <3>2 DEF BankInv, ShapesInv, Entry
  <2>4. /\ bank'[t].expected = Answer[t][sandbox] /\ bank'[t].active = bank[t].active
        /\ repair'.on = TRUE /\ repair'.todo = repair.todo \ {t}
        /\ repair'.updates = With(repair.updates, t)
        /\ DOMAIN repair'.updates = DOMAIN repair.updates \cup {t}
        /\ repair'.updates[t] = Answer[t][sandbox]
        /\ \A s \in DOMAIN repair.updates : s # t => repair'.updates[s] = repair.updates[s]
    BY <1>2, <2>1, <2>2 DEF With
  <2>5. RepairInv'
    <3>1. repair'.todo \subseteq DOMAIN bank'
      BY <1>1, <2>2, <2>4 DEF BankInv, RepairInv
    <3>2. ASSUME NEW s \in DOMAIN repair'.updates
          PROVE  /\ s \in DOMAIN bank' /\ bank'[s].expected = repair'.updates[s]
                 /\ repair'.updates[s] = Answer[s][sandbox']
      <4>1. CASE s = t
        BY <1>1, <2>2, <2>4, <4>1
      <4>2. CASE s # t
        BY <1>1, <2>2, <2>4, <4>2 DEF BankInv, RepairInv
      <4> QED BY <4>1, <4>2
    <3> QED BY <3>1, <3>2 DEF RepairInv
  <2>6. LedgerInv'
    <3> SUFFICES ASSUME ~rewritten', NEW s \in DOMAIN bank' \cap DOMAIN dataset'
                 PROVE  /\ bank'[s].active = ParseIsActive(dataset'[s])
                        /\ s \notin unsynced' => bank'[s].expected = dataset'[s].expected
      BY DEF LedgerInv, ParseIsActive
    <3>1. /\ bank[s].active = ParseIsActive(dataset[s])
          /\ s \notin unsynced => bank[s].expected = dataset[s].expected
      BY <1>1, <2>2 DEF BankInv, LedgerInv
    <3>2. bank'[s].active = bank[s].active /\ (s # t => bank'[s] = bank[s])
      BY <1>1, <2>2, <2>4
    <3> QED BY <1>1, <2>1, <3>1, <3>2
  <2> QED BY <2>3, <2>5, <2>6 DEF BankInv
<1>4. CASE ~Guarded(t)
  <2>1. bank' = bank /\ unsynced' = unsynced /\ Updates(t) = repair.updates
    BY <1>4 DEF RegenerateTask, Updates
  <2>2. ShapesInv'
    BY <1>1, <1>2, <2>1 DEF BankInv, ShapesInv, Entry
  <2>3. RepairInv' /\ LedgerInv'
    BY <1>1, <1>2, <2>1 DEF BankInv, RepairInv, LedgerInv, ParseIsActive
  <2> QED BY <2>2, <2>3 DEF BankInv
<1> QED BY <1>3, <1>4

(* The dataset is told what the table holds.                                *)
LEMMA SyncKeeps == ASSUME BankInv, SyncDataset PROVE BankInv'
<1>1. /\ repair.on /\ repair' = AtRest
      /\ UNCHANGED <<sandbox, bank, rewritten>>
  BY DEF SyncDataset
<1>2. RepairInv'
  BY <1>1 DEF RepairInv, AtRest
<1>3. CASE repair.sync
  <2>1. /\ dataset' = [t \in DOMAIN dataset |->
              IF t \in DOMAIN repair.updates
              THEN [dataset[t] EXCEPT !.expected = repair.updates[t]] ELSE dataset[t]]
        /\ unsynced' = unsynced \ DOMAIN repair.updates
    BY <1>3 DEF SyncDataset
  <2>2. \A t \in DOMAIN dataset : \A e : [dataset[t] EXCEPT !.expected = e]
                                     = [expected |-> e, active |-> dataset[t].active]
    <3> SUFFICES ASSUME NEW t \in DOMAIN dataset, NEW e
                 PROVE  [dataset[t] EXCEPT !.expected = e]
                          = [expected |-> e, active |-> dataset[t].active]
      OBVIOUS
    <3>1. dataset[t] = [expected |-> dataset[t].expected, active |-> dataset[t].active]
      BY DEF BankInv, ShapesInv, Entry
    <3> QED BY <3>1
  <2>3. /\ DOMAIN dataset' = DOMAIN dataset
        /\ \A t \in DOMAIN dataset : dataset'[t] =
              IF t \in DOMAIN repair.updates
              THEN [expected |-> repair.updates[t], active |-> dataset[t].active] ELSE dataset[t]
    BY <2>1, <2>2
  <2>4. ShapesInv'
    BY <1>1, <2>1, <2>3 DEF BankInv, ShapesInv, Entry, AtRest
  <2>5. LedgerInv'
    BY <1>1, <2>1, <2>3 DEF BankInv, RepairInv, LedgerInv, ParseIsActive
  <2> QED BY <1>2, <2>4, <2>5 DEF BankInv
<1>4. CASE ~repair.sync
  <2>1. UNCHANGED <<dataset, unsynced>>
    BY <1>4 DEF SyncDataset
  <2>2. ShapesInv'
    BY <1>1, <2>1 DEF BankInv, ShapesInv, Entry, AtRest
  <2>3. LedgerInv'
    BY <1>1, <2>1 DEF BankInv, LedgerInv, ParseIsActive
  <2> QED BY <1>2, <2>2, <2>3 DEF BankInv
<1> QED BY <1>3, <1>4

LEMMA RegenerateDiesKeeps == ASSUME BankInv, RegenerateDies PROVE BankInv'
  BY DEF BankInv, ShapesInv, RepairInv, LedgerInv, RegenerateDies, AtRest, ParseIsActive, Entry

LEMMA NextInv == ASSUME BankInv, [BankNext]_bankVars PROVE BankInv'
<1>1. CASE UNCHANGED bankVars
  BY <1>1, Elsewhere DEF bankVars
<1>2. CASE BootstrapPendingReviews
  BY <1>2, Elsewhere DEF BootstrapPendingReviews
<1>3. CASE \E t \in Generated, decision \in {"approved", "rejected", "needs_fix"} : Decide(t, decision)
  BY <1>3, Elsewhere DEF Decide
<1>4. CASE \E t \in Generated : Salvage(t)
  BY <1>4, Elsewhere DEF Salvage
<1>5. CASE SeedCatalogue
  BY <1>5, Elsewhere DEF SeedCatalogue
<1>6. CASE \E edition \in Editions : SeedSandbox(edition)
  BY <1>6, Elsewhere DEF SeedSandbox, Idle
<1>7. CASE \E ts \in SUBSET Tasks \ {{}}, sync \in BOOLEAN : Regenerate(ts, sync)
  BY <1>7, RegenerateKeeps
<1>8. CASE \E t \in Tasks : RegenerateTask(t)
  BY <1>8, RegenerateTaskKeeps
<1> QED BY <1>1, <1>2, <1>3, <1>4, <1>5, <1>6, <1>7, <1>8, ExportKeeps, ManualKeeps, ImportKeeps,
           SyncKeeps, RegenerateDiesKeeps DEF BankNext

-----------------------------------------------------------------------------
(* Importing is safe to repeat (import_dataset, regenerate_expected_result  *)
(* --sync-dataset): what it would write is what the table holds, for every  *)
(* row whose repair has reached a dataset not rewritten since.              *)
THEOREM ImportsUndoNothing == BankSpec => []ImportUndoesNothing
<1>1. BankInv => ImportUndoesNothing
  <2> SUFFICES ASSUME BankInv, ~rewritten,
                      NEW t \in (DOMAIN bank \cap DOMAIN dataset) \ unsynced
               PROVE  bank[t] = Upserted(t)
    BY DEF ImportUndoesNothing
  <2>1. bank[t] = [expected |-> bank[t].expected, active |-> bank[t].active]
    BY DEF BankInv, ShapesInv, Entry
  <2>2. bank[t].expected = dataset[t].expected /\ bank[t].active = ParseIsActive(dataset[t])
    BY DEF BankInv, LedgerInv
  <2> QED BY <2>1, <2>2 DEF Upserted
<1>2. BankSpec => []BankInv
  BY InitInv, NextInv, PTL DEF BankSpec
<1> QED BY <1>1, <1>2, PTL

-----------------------------------------------------------------------------
(* The accounts.                                                             *)

Tables == {"points", "awards", "attempts", "users", "rest"}
Step == [table : Tables, of : SUBSET Nat]

(* Who may be deleted, and whose work may be cleared, by all names ever.     *)
Deletable == {i \in DOMAIN everUsers : everUsers[i] \in (Sentinel \cup AlsoUser) \ {AdminName}}
Clearable == {i \in DOMAIN everUsers : everUsers[i] = AdminName}

(* Attempts are taken from the admin, or from users who go after them.       *)
Planned(steps) ==
    /\ steps \in Seq(Step)
    /\ \A i \in 1..Len(steps) :
          /\ steps[i].table = "users" => steps[i].of \subseteq Deletable
          /\ steps[i].table = "attempts" =>
                \/ steps[i].of \subseteq Clearable
                \/ \E j \in 1..Len(steps) : /\ i < j
                                            /\ steps[j].table = "users"
                                            /\ steps[i].of \subseteq steps[j].of

Later(steps, u) == \E j \in 1..Len(steps) : steps[j].table = "users" /\ u \in steps[j].of

UsersOK ==
    /\ lastUser \in Nat /\ DOMAIN everUsers = 1..lastUser
    /\ DOMAIN users \subseteq DOMAIN everUsers
    /\ \A i \in DOMAIN users : users[i].name = everUsers[i]
    /\ \A i \in DOMAIN everUsers \ DOMAIN users : everUsers[i] \in Sentinel \cup AlsoUser

AttemptsOK ==
    /\ lastAttempt \in Nat /\ DOMAIN everAttempts = 1..lastAttempt
    /\ DOMAIN attempts \subseteq DOMAIN everAttempts
    /\ \A a \in DOMAIN attempts : attempts[a] = everAttempts[a] /\ attempts[a] \in DOMAIN users
    /\ \A a \in DOMAIN everAttempts : everAttempts[a] \in DOMAIN everUsers
    /\ \A a \in DOMAIN everAttempts \ DOMAIN attempts :
          everAttempts[a] \notin DOMAIN users \/ everUsers[everAttempts[a]] = AdminName

RowsOK ==
    /\ points \subseteq DOMAIN attempts /\ awards \subseteq DOMAIN attempts
    /\ rest \subseteq DOMAIN users

(* What the script has deleted so far hangs together, whatever the others    *)
(* have committed meanwhile.                                                 *)
ScriptOK ==
    /\ Planned(script.steps)
    /\ DOMAIN script = {"name", "steps", "gone"}
    /\ DOMAIN script.gone = Tables
    /\ script.gone.users \subseteq Deletable
    /\ \A a \in DOMAIN attempts : attempts[a] \in script.gone.users => a \in script.gone.attempts
    /\ \A a \in script.gone.attempts :
          a \notin points \ script.gone.points /\ a \notin awards \ script.gone.awards
    /\ script.gone.attempts \subseteq DOMAIN attempts
    /\ \A a \in script.gone.attempts :
          attempts[a] \in script.gone.users \cup Clearable \/ Later(script.steps, attempts[a])

AccountsOK == UsersOK /\ AttemptsOK /\ RowsOK /\ ScriptOK

-----------------------------------------------------------------------------
(* Plans.                                                                    *)

LEMMA PlannedConcat ==
    ASSUME NEW s, NEW t, Planned(s), Planned(t)
    PROVE  Planned(s \o t)
<1>1. s \in Seq(Step) /\ t \in Seq(Step)
  BY DEF Planned
<1>2. /\ s \o t \in Seq(Step) /\ Len(s \o t) = Len(s) + Len(t)
      /\ Len(s) \in Nat /\ Len(t) \in Nat
      /\ \A i \in 1..Len(s) : (s \o t)[i] = s[i]
      /\ \A i \in 1..Len(t) : (s \o t)[Len(s) + i] = t[i]
  BY <1>1, ConcatProperties, LenProperties
<1>3. ASSUME NEW i \in 1..Len(s \o t)
      PROVE  \/ i \in 1..Len(s)
             \/ \E k \in 1..Len(t) : i = Len(s) + k
  <2>1. CASE i <= Len(s)
    BY <1>2, <2>1
  <2>2. CASE i > Len(s)
    <3>1. i - Len(s) \in 1..Len(t) /\ i = Len(s) + (i - Len(s))
      BY <1>2, <2>2
    <3> QED BY <3>1
  <2> QED BY <1>2, <2>1, <2>2
<1>4. ASSUME NEW i \in 1..Len(s)
      PROVE  /\ s[i].table = "users" => s[i].of \subseteq Deletable
             /\ s[i].table = "attempts" =>
                  \/ s[i].of \subseteq Clearable
                  \/ \E j \in 1..Len(s \o t) : /\ i < j
                                               /\ (s \o t)[j].table = "users"
                                               /\ s[i].of \subseteq (s \o t)[j].of
  <2>1. \A j \in 1..Len(s) : j \in 1..Len(s \o t)
    BY <1>2
  <2> QED BY <1>2, <2>1 DEF Planned
<1>5. ASSUME NEW k \in 1..Len(t)
      PROVE  /\ t[k].table = "users" => t[k].of \subseteq Deletable
             /\ t[k].table = "attempts" =>
                  \/ t[k].of \subseteq Clearable
                  \/ \E j \in 1..Len(s \o t) : /\ Len(s) + k < j
                                               /\ (s \o t)[j].table = "users"
                                               /\ t[k].of \subseteq (s \o t)[j].of
  <2>1. \A j \in 1..Len(t) : Len(s) + j \in 1..Len(s \o t) /\ (k < j => Len(s) + k < Len(s) + j)
    BY <1>2
  <2>2. CASE \E j \in 1..Len(t) : k < j /\ t[j].table = "users" /\ t[k].of \subseteq t[j].of
    <3>1. PICK j \in 1..Len(t) : k < j /\ t[j].table = "users" /\ t[k].of \subseteq t[j].of
      BY <2>2
    <3>2. (s \o t)[Len(s) + j] = t[j]
      BY <1>2
    <3>3. t[k].table = "users" => t[k].of \subseteq Deletable
      BY DEF Planned
    <3>4. Len(s) + j \in 1..Len(s \o t) /\ Len(s) + k < Len(s) + j
      BY <2>1, <3>1
    <3> DEFINE later == Len(s) + j
    <3> HIDE DEF later
    <3>5. later \in 1..Len(s \o t) /\ Len(s) + k < later /\ (s \o t)[later] = t[j]
      BY <3>2, <3>4 DEF later
    <3>6. (s \o t)[later].table = "users" /\ t[k].of \subseteq (s \o t)[later].of
      BY <3>1, <3>5
    <3>7. \E i \in 1..Len(s \o t) : /\ Len(s) + k < i
                                    /\ (s \o t)[i].table = "users"
                                    /\ t[k].of \subseteq (s \o t)[i].of
      <4> USE <3>5
      <4> WITNESS later \in 1..Len(s \o t)
      <4> QED BY <3>6
    <3> QED BY <3>3, <3>7
  <2>3. CASE ~ \E j \in 1..Len(t) : k < j /\ t[j].table = "users" /\ t[k].of \subseteq t[j].of
    BY <2>3 DEF Planned
  <2> QED BY <2>2, <2>3
<1>6. ASSUME NEW i \in 1..Len(s \o t)
      PROVE  /\ (s \o t)[i].table = "users" => (s \o t)[i].of \subseteq Deletable
             /\ (s \o t)[i].table = "attempts" =>
                  \/ (s \o t)[i].of \subseteq Clearable
                  \/ \E j \in 1..Len(s \o t) : /\ i < j
                                               /\ (s \o t)[j].table = "users"
                                               /\ (s \o t)[i].of \subseteq (s \o t)[j].of
  <2>1. CASE i \in 1..Len(s)
    <3>1. (s \o t)[i] = s[i]
      BY <1>2, <2>1
    <3> QED BY <2>1, <3>1, <1>4
  <2>2. ASSUME NEW k \in 1..Len(t), i = Len(s) + k
        PROVE  /\ (s \o t)[i].table = "users" => (s \o t)[i].of \subseteq Deletable
               /\ (s \o t)[i].table = "attempts" =>
                    \/ (s \o t)[i].of \subseteq Clearable
                    \/ \E j \in 1..Len(s \o t) : /\ i < j
                                                 /\ (s \o t)[j].table = "users"
                                                 /\ (s \o t)[i].of \subseteq (s \o t)[j].of
    <3>1. (s \o t)[i] = t[k]
      BY <1>2, <2>2
    <3> QED BY <2>2, <3>1, <1>5
  <2> QED BY <1>3, <2>1, <2>2
<1> QED BY <1>2, <1>6 DEF Planned

LEMMA PlannedNone == Planned(<<>>)
BY DEF Planned

LEMMA PlannedDelete ==
    ASSUME NEW ids, ids \subseteq Deletable, Deletable \subseteq Nat
    PROVE  Planned(DeleteUsers(ids))
<1>1. CASE ids = {}
  BY <1>1, PlannedNone DEF DeleteUsers
<1>2. CASE ids # {}
  <2> DEFINE s == <<Delete("points", ids), Delete("awards", ids), Delete("attempts", ids),
                    Delete("users", ids)>>
  <2>1. \A table \in Tables : Delete(table, ids) \in Step
    BY DEF Delete, Step
  <2>2. s \in Seq(Step) /\ Len(s) = 4
    BY <2>1 DEF Tables
  <2>3. /\ s[1].table = "points" /\ s[2].table = "awards" /\ s[3].table = "attempts"
        /\ s[4].table = "users" /\ s[3].of = ids /\ s[4].of = ids
    BY DEF Delete
  <2> HIDE DEF s
  <2>4. \A i \in 1..4 : i = 1 \/ i = 2 \/ i = 3 \/ i = 4
    OBVIOUS
  <2>5. ASSUME NEW i \in 1..Len(s)
        PROVE  /\ s[i].table = "users" => s[i].of \subseteq Deletable
               /\ s[i].table = "attempts" =>
                    \/ s[i].of \subseteq Clearable
                    \/ \E j \in 1..Len(s) : /\ i < j
                                            /\ s[j].table = "users"
                                            /\ s[i].of \subseteq s[j].of
    <3>1. 4 \in 1..Len(s) /\ 3 < 4
      BY <2>2
    <3>2. CASE i = 3
      BY <2>3, <3>1, <3>2
    <3>3. CASE i # 3
      BY <2>2, <2>3, <2>4, <3>3
    <3> QED BY <3>2, <3>3
  <2>6. Planned(s)
    BY <2>2, <2>5 DEF Planned
  <2> QED BY <1>2, <2>6 DEF DeleteUsers, s
<1> QED BY <1>1, <1>2

LEMMA PlannedClear ==
    ASSUME NEW ids, ids \subseteq Clearable, Clearable \subseteq Nat
    PROVE  Planned(ClearUserActivity(ids))
<1>1. CASE ids = {}
  BY <1>1, PlannedNone DEF ClearUserActivity
<1>2. CASE ids # {}
  <2> DEFINE s == <<Delete("points", ids), Delete("awards", ids), Delete("attempts", ids),
                    Delete("rest", ids)>>
  <2>1. \A table \in Tables : Delete(table, ids) \in Step
    BY DEF Delete, Step
  <2>2. s \in Seq(Step) /\ Len(s) = 4
    BY <2>1 DEF Tables
  <2>3. /\ s[1].table = "points" /\ s[2].table = "awards" /\ s[3].table = "attempts"
        /\ s[4].table = "rest" /\ s[3].of = ids /\ s[4].of = ids
    BY DEF Delete
  <2> HIDE DEF s
  <2>4. \A i \in 1..4 : i = 1 \/ i = 2 \/ i = 3 \/ i = 4
    OBVIOUS
  <2>5. ASSUME NEW i \in 1..Len(s)
        PROVE  /\ s[i].table = "users" => s[i].of \subseteq Deletable
               /\ s[i].table = "attempts" =>
                    \/ s[i].of \subseteq Clearable
                    \/ \E j \in 1..Len(s) : /\ i < j
                                            /\ s[j].table = "users"
                                            /\ s[i].of \subseteq s[j].of
    BY <2>2, <2>3, <2>4
  <2>6. Planned(s)
    BY <2>2, <2>5 DEF Planned
  <2> QED BY <1>2, <2>6 DEF ClearUserActivity, s
<1> QED BY <1>1, <1>2

LEMMA PlannedTail ==
    ASSUME NEW s, Planned(s), s # <<>>
    PROVE  /\ Head(s) \in Step
           /\ Head(s).table = "users" => Head(s).of \subseteq Deletable
           /\ \A u : Head(s).table = "attempts" /\ u \in Head(s).of =>
                        u \in Clearable \/ Later(Tail(s), u)
           /\ \A u : Later(s, u) =>
                        Later(Tail(s), u) \/ (Head(s).table = "users" /\ u \in Head(s).of)
           /\ Planned(Tail(s))
<1>1. s \in Seq(Step)
  BY DEF Planned
<1>2. /\ Head(s) \in Step /\ Head(s) = s[1]
      /\ Tail(s) \in Seq(Step) /\ Len(Tail(s)) = Len(s) - 1
      /\ Len(s) \in Nat /\ Len(s) > 0
      /\ \A i \in 1..Len(Tail(s)) : Tail(s)[i] = s[i + 1]
  BY <1>1, HeadTailProperties, LenProperties, EmptySeq
<1>3. \A j \in 1..Len(s) : j > 1 => j - 1 \in 1..Len(Tail(s)) /\ Tail(s)[j - 1] = s[j]
  BY <1>2
<1>4. \A i \in 1..Len(Tail(s)) : i + 1 \in 1..Len(s)
  BY <1>2
<1>5. 1 \in 1..Len(s)
  BY <1>2
<1>6. Head(s).table = "users" => Head(s).of \subseteq Deletable
  BY <1>2, <1>5 DEF Planned
<1>7. ASSUME NEW u, Head(s).table = "attempts", u \in Head(s).of
      PROVE  u \in Clearable \/ Later(Tail(s), u)
  <2>1. CASE s[1].of \subseteq Clearable
    BY <1>2, <1>7, <2>1
  <2>2. ASSUME NEW j \in 1..Len(s), 1 < j, s[j].table = "users", s[1].of \subseteq s[j].of
        PROVE  Later(Tail(s), u)
    BY <1>2, <1>3, <1>7, <2>2 DEF Later
  <2> QED BY <1>2, <1>5, <1>7, <2>1, <2>2 DEF Planned
<1>8. ASSUME NEW u, Later(s, u)
      PROVE  Later(Tail(s), u) \/ (Head(s).table = "users" /\ u \in Head(s).of)
  <2>1. PICK j \in 1..Len(s) : s[j].table = "users" /\ u \in s[j].of
    BY <1>8 DEF Later
  <2>2. CASE j = 1
    BY <1>2, <2>1, <2>2
  <2>3. CASE j > 1
    BY <1>3, <2>1, <2>3 DEF Later
  <2> QED BY <1>2, <2>2, <2>3
<1>9. Planned(Tail(s))
  <2>1. ASSUME NEW i \in 1..Len(Tail(s))
        PROVE  /\ Tail(s)[i].table = "users" => Tail(s)[i].of \subseteq Deletable
               /\ Tail(s)[i].table = "attempts" =>
                    \/ Tail(s)[i].of \subseteq Clearable
                    \/ \E j \in 1..Len(Tail(s)) : /\ i < j
                                                  /\ Tail(s)[j].table = "users"
                                                  /\ Tail(s)[i].of \subseteq Tail(s)[j].of
    <3>1. Tail(s)[i] = s[i + 1] /\ i + 1 \in 1..Len(s)
      BY <1>2, <1>4
    <3>2. ASSUME NEW j \in 1..Len(s), i + 1 < j, s[j].table = "users",
                 s[i + 1].of \subseteq s[j].of
          PROVE  \E k \in 1..Len(Tail(s)) : /\ i < k
                                            /\ Tail(s)[k].table = "users"
                                            /\ Tail(s)[i].of \subseteq Tail(s)[k].of
      <4>1. j - 1 \in 1..Len(Tail(s)) /\ Tail(s)[j - 1] = s[j] /\ i < j - 1
        BY <1>3, <3>2
      <4> QED BY <3>1, <3>2, <4>1
    <3> QED BY <3>1, <3>2 DEF Planned
  <2> QED BY <1>2, <2>1 DEF Planned
<1> QED BY <1>2, <1>6, <1>7, <1>8, <1>9

LEMMA PlansGrow ==
    ASSUME NEW s, Planned(s), Deletable \subseteq Deletable', Clearable \subseteq Clearable', s = s'
    PROVE  Planned(s)'
BY DEF Planned

-----------------------------------------------------------------------------
LEMMA InsertKeeps ==
    ASSUME AccountsOK, NEW name, NEW role, Insert(name, role),
           UNCHANGED <<attempts, lastAttempt, points, awards, rest, script, everAttempts>>
    PROVE  AccountsOK'
<1>1. /\ lastUser' = lastUser + 1 /\ lastUser \in Nat
      /\ DOMAIN everUsers = 1..lastUser /\ DOMAIN users \subseteq DOMAIN everUsers
      /\ DOMAIN users' = DOMAIN users \cup {lastUser'}
      /\ DOMAIN everUsers' = DOMAIN everUsers \cup {lastUser'}
      /\ \A i \in DOMAIN everUsers : everUsers'[i] = everUsers[i]
      /\ \A i \in DOMAIN users : users'[i] = users[i]
      /\ users'[lastUser'].name = name /\ everUsers'[lastUser'] = name
  BY DEF Insert, AccountsOK, UsersOK
<1>2. UsersOK'
  BY <1>1 DEF AccountsOK, UsersOK
<1>3. AttemptsOK'
  BY <1>1 DEF AccountsOK, AttemptsOK
<1>4. RowsOK'
  BY <1>1 DEF AccountsOK, RowsOK
<1>5. Deletable \subseteq Deletable' /\ Clearable \subseteq Clearable'
  BY <1>1 DEF Deletable, Clearable
<1>6. ScriptOK'
  <2>1. Planned(script.steps)'
    BY <1>5, PlansGrow DEF AccountsOK, ScriptOK
  <2> QED BY <1>5, <2>1 DEF AccountsOK, ScriptOK, Later
<1> QED BY <1>2, <1>3, <1>4, <1>6 DEF AccountsOK

LEMMA PersistKeeps == ASSUME AccountsOK, NEW id, PersistAttempt(id) PROVE AccountsOK'
<1>1. CASE id \notin DOMAIN users
  BY <1>1 DEF PersistAttempt, AccountsOK, UsersOK, AttemptsOK, RowsOK, ScriptOK, Deletable,
              Clearable, Planned, Later
<1>2. CASE id \in DOMAIN users
  <2>1. /\ lastAttempt' = lastAttempt + 1 /\ lastAttempt \in Nat
        /\ DOMAIN everAttempts = 1..lastAttempt /\ DOMAIN attempts \subseteq DOMAIN everAttempts
        /\ DOMAIN attempts' = DOMAIN attempts \cup {lastAttempt'}
        /\ DOMAIN everAttempts' = DOMAIN everAttempts \cup {lastAttempt'}
        /\ \A a \in DOMAIN attempts : attempts'[a] = attempts[a]
        /\ \A a \in DOMAIN everAttempts : everAttempts'[a] = everAttempts[a]
        /\ attempts'[lastAttempt'] = id /\ everAttempts'[lastAttempt'] = id
        /\ id \notin script.gone.users
        /\ UNCHANGED <<users, lastUser, points, awards, rest, script, everUsers>>
    BY <1>2 DEF PersistAttempt, AccountsOK, AttemptsOK
  <2>2. UsersOK'
    BY <2>1 DEF AccountsOK, UsersOK
  <2>3. AttemptsOK'
    BY <1>2, <2>1 DEF AccountsOK, UsersOK, AttemptsOK
  <2>4. RowsOK'
    BY <2>1 DEF AccountsOK, RowsOK
  <2>5. Deletable' = Deletable /\ Clearable' = Clearable
    BY <2>1 DEF Deletable, Clearable
  <2>6. lastAttempt' \notin DOMAIN attempts
    BY <2>1
  <2>7. ScriptOK'
    <3>1. Planned(script.steps)'
      BY <2>1, <2>5, PlansGrow DEF AccountsOK, ScriptOK
    <3> QED BY <2>1, <2>5, <2>6, <3>1 DEF AccountsOK, ScriptOK, Later
  <2> QED BY <2>2, <2>3, <2>4, <2>7 DEF AccountsOK
<1> QED BY <1>1, <1>2

LEMMA FollowKeeps == ASSUME AccountsOK, NEW a, NEW table, Follow(a, table) PROVE AccountsOK'
<1>1. UNCHANGED <<users, lastUser, attempts, lastAttempt, script, everUsers, everAttempts>>
  BY DEF Follow
<1>2. UsersOK' /\ AttemptsOK'
  BY <1>1 DEF AccountsOK, UsersOK, AttemptsOK
<1>3. /\ points' \subseteq points \cup {a} /\ awards' \subseteq awards \cup {a}
      /\ a \notin DOMAIN attempts => UNCHANGED <<points, awards, rest>>
      /\ a \in DOMAIN attempts => rest' = rest \cup {attempts[a]}
      /\ a \notin script.gone.attempts
  BY DEF Follow
<1>4. RowsOK'
  BY <1>1, <1>3 DEF AccountsOK, AttemptsOK, RowsOK
<1>5. ScriptOK'
  <2>1. Deletable' = Deletable /\ Clearable' = Clearable
    BY <1>1 DEF Deletable, Clearable
  <2>2. Planned(script.steps)'
    BY <1>1, <2>1, PlansGrow DEF AccountsOK, ScriptOK
  <2> QED BY <1>1, <1>3, <2>1, <2>2 DEF AccountsOK, ScriptOK, Later
<1> QED BY <1>2, <1>4, <1>5 DEF AccountsOK

LEMMA RestUnchanged ==
    ASSUME AccountsOK,
           UNCHANGED <<users, lastUser, attempts, lastAttempt, points, awards, rest, script,
                       everUsers, everAttempts>>
    PROVE  AccountsOK'
<1>1. UsersOK' /\ AttemptsOK' /\ RowsOK'
  BY DEF AccountsOK, UsersOK, AttemptsOK, RowsOK
<1>2. Deletable' = Deletable /\ Clearable' = Clearable
  BY DEF Deletable, Clearable
<1>3. Planned(script.steps)'
  BY <1>2, PlansGrow DEF AccountsOK, ScriptOK
<1>4. ScriptOK'
  BY <1>2, <1>3 DEF AccountsOK, ScriptOK, Later
<1> QED BY <1>1, <1>4 DEF AccountsOK

(* A script that begins, or none: nothing is deleted yet.                    *)
LEMMA NothingGone ==
    ASSUME AccountsOK, NEW name, NEW steps, Planned(steps),
           script' = [name |-> name, steps |-> steps, gone |-> NoRows],
           UNCHANGED <<users, lastUser, attempts, lastAttempt, points, awards, rest,
                       everUsers, everAttempts>>
    PROVE  AccountsOK'
<1>1. UsersOK' /\ AttemptsOK' /\ RowsOK'
  BY DEF AccountsOK, UsersOK, AttemptsOK, RowsOK
<1>2. Deletable' = Deletable /\ Clearable' = Clearable
  BY DEF Deletable, Clearable
<1>3. /\ DOMAIN script' = {"name", "steps", "gone"} /\ script'.steps = steps
      /\ DOMAIN script'.gone = Tables
      /\ script'.gone.users = {} /\ script'.gone.attempts = {}
  BY DEF NoRows, Tables
<1>4. Planned(script.steps)'
  BY <1>2, <1>3 DEF Planned
<1>5. ScriptOK'
  BY <1>3, <1>4 DEF ScriptOK
<1> QED BY <1>1, <1>5 DEF AccountsOK

LEMMA ChosenUsers ==
    ASSUME AccountsOK
    PROVE  /\ DemoUsers \subseteq Deletable
           /\ \A named \in SUBSET AlsoUser : DevUsers(named) \subseteq Deletable
           /\ ActiveAdmin \subseteq Clearable
           /\ Deletable \subseteq Nat /\ Clearable \subseteq Nat
BY AccountsAssumption
   DEF AccountsOK, UsersOK, DemoUsers, DevUsers, Admin, ActiveAdmin, Deletable, Clearable

LEMMA BeginKeeps ==
    ASSUME AccountsOK, NEW name, NEW steps, Planned(steps), Begin(name, steps)
    PROVE  AccountsOK'
BY NothingGone DEF Begin

LEMMA ScriptsBeginKeep ==
    ASSUME AccountsOK,
           PurgeDemoUsers \/ SeedDemoUser \/ \E named \in SUBSET AlsoUser : PrepareEvalBaseline(named)
    PROVE  AccountsOK'
<1>1. Planned(DeleteUsers(DemoUsers))
  BY ChosenUsers, PlannedDelete
<1>2. ASSUME NEW named \in SUBSET AlsoUser
      PROVE  Planned(DeleteUsers(DevUsers(named)) \o ClearUserActivity(ActiveAdmin))
  BY ChosenUsers, PlannedDelete, PlannedClear, PlannedConcat
<1> QED BY <1>1, <1>2, BeginKeeps DEF PurgeDemoUsers, SeedDemoUser, PrepareEvalBaseline

LEMMA DeletesKeep == ASSUME AccountsOK, ScriptDeletes PROVE AccountsOK'
<1> DEFINE step == Head(script.steps)
<1>1. /\ script.steps # <<>> /\ ~Refused(step)
      /\ script' = [script EXCEPT !.steps = Tail(@), !.gone = Gone(step)]
      /\ UNCHANGED <<users, lastUser, attempts, lastAttempt, points, awards, rest,
                     everUsers, everAttempts>>
  BY DEF ScriptDeletes, DeleteRows
<1>2. UsersOK' /\ AttemptsOK' /\ RowsOK'
  BY <1>1 DEF AccountsOK, UsersOK, AttemptsOK, RowsOK
<1>3. /\ step \in Step
      /\ step.table = "users" => step.of \subseteq Deletable
      /\ \A u : step.table = "attempts" /\ u \in step.of =>
                   u \in Clearable \/ Later(Tail(script.steps), u)
      /\ \A u : Later(script.steps, u) =>
                   Later(Tail(script.steps), u) \/ (step.table = "users" /\ u \in step.of)
      /\ Planned(Tail(script.steps))
  BY <1>1, PlannedTail DEF AccountsOK, ScriptOK
<1>4. Deletable' = Deletable /\ Clearable' = Clearable
  BY <1>1 DEF Deletable, Clearable
<1>5. /\ DOMAIN script' = {"name", "steps", "gone"}
      /\ script'.steps = Tail(script.steps) /\ script'.gone = Gone(step)
  BY <1>1 DEF AccountsOK, ScriptOK
<1>6. Planned(script.steps)'
  <2> DEFINE tail == Tail(script.steps)
  <2>1. Planned(tail) /\ script'.steps = tail
    BY <1>3, <1>5
  <2> HIDE DEF tail
  <2> QED BY <1>4, <2>1 DEF Planned
<1> HIDE DEF step
<1>7. /\ DOMAIN Gone(step) = Tables
      /\ \A t \in Tables : Gone(step)[t] = IF t = step.table THEN script.gone[t] \cup Found(step)
                                           ELSE script.gone[t]
  BY <1>3 DEF Gone, AccountsOK, ScriptOK, Step
<1>8. /\ script'.gone.users = IF step.table = "users" THEN script.gone.users \cup Found(step)
                              ELSE script.gone.users
      /\ script'.gone.attempts = IF step.table = "attempts" THEN script.gone.attempts \cup Found(step)
                                 ELSE script.gone.attempts
      /\ script.gone.points \subseteq script'.gone.points
      /\ script.gone.awards \subseteq script'.gone.awards
      /\ step.table # "points" => script'.gone.points = script.gone.points
      /\ step.table # "awards" => script'.gone.awards = script.gone.awards
  BY <1>5, <1>7 DEF Tables
<1>9. CASE step.table = "users"
  <2>1. Found(step) = step.of \cap DOMAIN users
    BY <1>9 DEF Found
  <2>2. \A a \in DOMAIN attempts : attempts[a] \in step.of => a \in script.gone.attempts
    BY <1>1, <1>9 DEF Refused, OwnedBy
  <2>3. \A a \in DOMAIN attempts : attempts[a] \in DOMAIN users
    BY DEF AccountsOK, AttemptsOK
  <2> QED BY <1>1, <1>2, <1>3, <1>4, <1>5, <1>6, <1>7, <1>8, <1>9, <2>1, <2>2, <2>3
          DEF AccountsOK, ScriptOK
<1>10. CASE step.table = "attempts"
  <2>1. Found(step) = {a \in DOMAIN attempts : attempts[a] \in step.of}
    BY <1>10 DEF Found, OwnedBy
  <2>2. \A a \in Found(step) : /\ a \notin points \ script.gone.points
                               /\ a \notin awards \ script.gone.awards
    BY <1>1, <1>10 DEF Refused
  <2> QED BY <1>1, <1>2, <1>3, <1>4, <1>5, <1>6, <1>7, <1>8, <1>10, <2>1, <2>2
          DEF AccountsOK, ScriptOK
<1>11. CASE step.table \notin {"users", "attempts"}
  BY <1>1, <1>2, <1>3, <1>4, <1>5, <1>6, <1>7, <1>8, <1>11 DEF AccountsOK, ScriptOK
<1> QED BY <1>9, <1>10, <1>11

LEMMA CommitsKeep == ASSUME AccountsOK, ScriptCommits PROVE AccountsOK'
<1> DEFINE gone == script.gone
<1>1. /\ script.steps = <<>> /\ script' = NoScript
      /\ points' = points \ gone.points /\ awards' = awards \ gone.awards
      /\ DOMAIN attempts' = DOMAIN attempts \ gone.attempts
      /\ \A a \in DOMAIN attempts' : attempts'[a] = attempts[a]
      /\ DOMAIN users' = DOMAIN users \ gone.users
      /\ \A i \in DOMAIN users' : users'[i] = users[i]
      /\ rest' = rest \ (gone.users \cup gone.rest)
      /\ UNCHANGED <<lastUser, lastAttempt, everUsers, everAttempts>>
  BY DEF ScriptCommits, Erase, Keep
<1>2. \A u : ~Later(script.steps, u)
  BY <1>1 DEF Later
<1> HIDE DEF gone
<1>3. /\ gone.users \subseteq Deletable
      /\ \A a \in DOMAIN attempts : attempts[a] \in gone.users => a \in gone.attempts
      /\ \A a \in gone.attempts : /\ a \notin points \ gone.points /\ a \notin awards \ gone.awards
                                  /\ a \in DOMAIN attempts
                                  /\ attempts[a] \in gone.users \cup Clearable
  BY <1>2 DEF AccountsOK, ScriptOK, gone
<1>4. UsersOK'
  BY <1>1, <1>3 DEF AccountsOK, UsersOK, Deletable
<1>5. AttemptsOK'
  BY <1>1, <1>3 DEF AccountsOK, AttemptsOK, Clearable
<1>6. RowsOK'
  BY <1>1, <1>3 DEF AccountsOK, RowsOK
<1>7. ScriptOK'
  <2>1. /\ DOMAIN script' = {"name", "steps", "gone"} /\ script'.steps = <<>>
        /\ DOMAIN script'.gone = Tables /\ script'.gone.users = {} /\ script'.gone.attempts = {}
    BY <1>1 DEF NoScript, NoRows, Tables
  <2>2. Planned(script.steps)'
    BY <2>1 DEF Planned
  <2> QED BY <2>1, <2>2 DEF ScriptOK
<1> QED BY <1>4, <1>5, <1>6, <1>7 DEF AccountsOK

LEMMA FailsKeep == ASSUME AccountsOK, ScriptFails PROVE AccountsOK'
BY NothingGone, PlannedNone DEF ScriptFails, NoScript

-----------------------------------------------------------------------------
LEMMA AccountsInitOK == AccountsInit => AccountsOK
<1> SUFFICES ASSUME AccountsInit PROVE AccountsOK
  OBVIOUS
<1>1. UsersOK /\ AttemptsOK /\ RowsOK
  BY DEF AccountsInit, None, UsersOK, AttemptsOK, RowsOK
<1>2. /\ DOMAIN script = {"name", "steps", "gone"} /\ script.steps = <<>>
      /\ DOMAIN script.gone = Tables /\ script.gone.users = {} /\ script.gone.attempts = {}
  BY DEF AccountsInit, NoScript, NoRows, Tables
<1>3. ScriptOK
  BY <1>2, PlannedNone DEF AccountsInit, None, ScriptOK
<1> QED BY <1>1, <1>3 DEF AccountsOK

LEMMA AccountsNextOK == ASSUME AccountsOK, [AccountsNext]_accountsVars PROVE AccountsOK'
<1>1. CASE SeedAdmin \/ \E name \in Names : Register(name)
  BY <1>1, InsertKeeps DEF SeedAdmin, Register
<1>2. CASE \E id \in DOMAIN everUsers : PostAttempt(id) \/ PersistAttempt(id)
  BY <1>2, PersistKeeps, RestUnchanged DEF PostAttempt
<1>3. CASE \E inform \in informs : Follow(inform[1], inform[2])
  BY <1>3, FollowKeeps
<1>4. CASE PurgeDemoUsers \/ SeedDemoUser \/ \E named \in SUBSET AlsoUser : PrepareEvalBaseline(named)
  BY <1>4, ScriptsBeginKeep
<1>5. CASE ScriptDeletes \/ ScriptCommits \/ ScriptFails
  BY <1>5, DeletesKeep, CommitsKeep, FailsKeep
<1>6. CASE ExportBegins \/ ExportTable \/ ExportParticipants \/ ExportIdentities \/ ExportEnds
  BY <1>6, RestUnchanged
     DEF ExportBegins, ExportTable, ExportParticipants, ExportIdentities, ExportEnds, Leave
<1>7. CASE UNCHANGED accountsVars
  BY <1>7, RestUnchanged DEF accountsVars
<1> QED BY <1>1, <1>2, <1>3, <1>4, <1>5, <1>6, <1>7 DEF AccountsNext

(* Whatever the agents of a user write while a script deletes him, and       *)
(* wherever the script breaks off: all of a user is there or nothing, and    *)
(* nobody is deleted by mistake.                                             *)
THEOREM PurgesAreAlwaysWhole == AccountsSpec => []PurgesAreWhole
<1>1. AccountsOK => PurgesAreWhole
  BY DEF AccountsOK, UsersOK, AttemptsOK, RowsOK, PurgesAreWhole
<1> QED BY <1>1, AccountsInitOK, AccountsNextOK, PTL DEF AccountsSpec

-----------------------------------------------------------------------------
(* The export: no script deletes beside it, so who is in its map or in its   *)
(* files is still a user, and the two files that look people up find         *)
(* everybody; who registers later is in none of the files.                   *)

ExportOK ==
    /\ DOMAIN export = {"step", "map", "rows", "participants"}
    /\ export.step \in DOMAIN After \cup {"none", "participants", "identities", "done"}
    /\ export.step = "none" => export = NoExport
    /\ export # NoExport => /\ script = NoScript
                            /\ export.map \subseteq DOMAIN users
                            /\ export.rows \subseteq DOMAIN users
    /\ export.step \in {"identities", "done"} => /\ export.rows \subseteq export.map
                                                 /\ export.participants = export.map

LEMMA ExportInitOK == AccountsInit => ExportOK
BY DEF AccountsInit, NoExport, ExportOK

(* Nobody goes, no script begins and the export does nothing.                *)
LEMMA ExportWaits ==
    ASSUME ExportOK, export' = export, DOMAIN users \subseteq DOMAIN users',
           script' = script \/ export = NoExport
    PROVE  ExportOK'
BY DEF ExportOK, NoExport

LEMMA OwnersAreUsers ==
    ASSUME AccountsOK, NEW table \in DOMAIN After PROVE Owners(table) \subseteq DOMAIN users
<1>1. table \in {"attempts", "points", "awards", "rest"}
  BY DEF After
<1> QED
  BY <1>1 DEF AccountsOK, AttemptsOK, RowsOK, Owners

LEMMA ExportNextOK ==
    ASSUME AccountsOK, ExportOK, [AccountsNext]_accountsVars PROVE ExportOK'
<1>1. CASE SeedAdmin \/ \E name \in Names : Register(name)
  BY <1>1, ExportWaits DEF SeedAdmin, Register, Insert
<1>2. CASE \E id \in DOMAIN everUsers : PostAttempt(id) \/ PersistAttempt(id)
  BY <1>2, ExportWaits DEF PostAttempt, PersistAttempt
<1>3. CASE \E inform \in informs : Follow(inform[1], inform[2])
  BY <1>3, ExportWaits DEF Follow
<1>4. CASE PurgeDemoUsers \/ SeedDemoUser \/ \E named \in SUBSET AlsoUser : PrepareEvalBaseline(named)
  BY <1>4, ExportWaits
     DEF PurgeDemoUsers, SeedDemoUser, PrepareEvalBaseline, Begin, Alone
<1>5. CASE ScriptDeletes \/ ScriptCommits \/ ScriptFails
  <2>1. script # NoScript
    BY <1>5 DEF ScriptDeletes, ScriptCommits, ScriptFails, NoScript
  <2>2. export = NoExport /\ export' = export
    BY <1>5, <2>1 DEF ScriptDeletes, ScriptCommits, ScriptFails, ExportOK
  <2> QED
    BY <2>2 DEF ExportOK, NoExport
<1>6. CASE ExportBegins
  BY <1>6 DEF ExportBegins, Leave, Alone, NoExport, After, ExportOK
<1>7. CASE ExportTable
  <2>1. /\ export.step \in DOMAIN After
        /\ export' = [export EXCEPT !.rows = @ \cup Owners(export.step), !.step = After[export.step]]
        /\ UNCHANGED <<users, script>>
    BY <1>7 DEF ExportTable, Leave
  <2>2. Owners(export.step) \subseteq DOMAIN users
    BY <2>1, OwnersAreUsers
  <2>3. /\ export'.step \in DOMAIN After \cup {"participants"} /\ export'.map = export.map
        /\ export'.rows = export.rows \cup Owners(export.step)
        /\ DOMAIN export' = {"step", "map", "rows", "participants"}
    BY <2>1 DEF ExportOK, After
  <2>4. export # NoExport /\ export'.step \notin {"none", "identities", "done"}
    BY <2>1, <2>3 DEF NoExport, After
  <2> QED
    BY <2>1, <2>2, <2>3, <2>4 DEF ExportOK
<1>8. CASE ExportParticipants
  BY <1>8 DEF ExportParticipants, EveryoneHasPseudonym, Leave, NoExport, ExportOK
<1>9. CASE ExportIdentities
  BY <1>9 DEF ExportIdentities, Leave, NoExport, ExportOK
<1>10. CASE ExportEnds
  BY <1>10 DEF ExportEnds, Leave, NoExport, ExportOK
<1>11. CASE UNCHANGED accountsVars
  BY <1>11, ExportWaits DEF accountsVars
<1> QED
  BY <1>1, <1>2, <1>3, <1>4, <1>5, <1>6, <1>7, <1>8, <1>9, <1>10, <1>11 DEF AccountsNext

(* Whoever registers, submits or is written for while an export runs query   *)
(* by query: no row of a finished one says UNKNOWN, and its participants are *)
(* exactly those who have a pseudonym.                                       *)
THEOREM ExportsNameEveryone == AccountsSpec => []ExportNamesEveryone
<1>1. AccountsInit => AccountsOK /\ ExportOK
  BY AccountsInitOK, ExportInitOK
<1>2. AccountsOK /\ ExportOK /\ [AccountsNext]_accountsVars => (AccountsOK /\ ExportOK)'
  BY AccountsNextOK, ExportNextOK
<1>3. ExportOK => ExportNamesEveryone
  BY DEF ExportOK, ExportNamesEveryone
<1> QED
  BY <1>1, <1>2, <1>3, PTL DEF AccountsSpec

-----------------------------------------------------------------------------
(* The making of tasks.  For a concept that one batch, and nothing else,   *)
(* has taken up, the failures it reports are those on file and those that  *)
(* left no file; later a failed task that is made up for moves from the    *)
(* second kind to the first or to the validated ones.  So the failures on  *)
(* file reach the reported ones only when nothing is missing.              *)

Generates(k) == \A c \in CellsOf(k) : c \notin ByHand

(* What the reports say of a concept, the one in force and those put aside. *)
Said(k) == {report[k]} \cup {parts[n][k] : n \in Parts}
Told(k) == \E v \in Said(k) : v # NotReported

(* Failures on file of a cell, and the tasks it is short of.               *)
Loss(c) == files[c].failed + Shortfall(c)
Losses(k) == SumFunctionOnSet([c \in Cells |-> Loss(c)], CellsOf(k))

(* The same, but for the tasks the job has still to produce: the failures  *)
(* of the job.                                                             *)
Failed(c) == Loss(c) - left[c]
Failures(k) == SumFunctionOnSet([c \in Cells |-> Failed(c)], CellsOf(k))

GenTypes ==
    /\ left \in [Cells -> Nat] /\ phantoms \in [Cells -> Nat]
    /\ files \in [Cells -> [validated : Nat, failed : Nat]]
    /\ report \in [Themes -> Nat \cup {NotReported}]
    /\ parts \in [Parts -> [Themes -> Nat \cup {NotReported}]]
    /\ drafted \in [Themes -> Nat \cup {NotReported}]
    /\ taken \in [Themes -> Nat]
    /\ failures \in Nat /\ astray \in Nat /\ listed \in BOOLEAN
    /\ \/ meta = NoMeta
       \/ meta.cell \in Cells /\ meta.verdict \in {"passed", "failed"}

(* Who is worked on was taken up, and only a batch reports.                *)
TakenInv ==
    /\ \A c \in Cells : left[c] > 0 /\ Generates(ConceptOf[c]) => taken[ConceptOf[c]] >= 1
    /\ job = "batch" => /\ \A c \in Cells : left[c] > 0 => Generates(ConceptOf[c])
                        /\ \A k \in Themes : Generates(k) => taken[k] >= 1
    /\ \A k \in Themes : drafted[k] # NotReported => job = "batch" /\ Generates(k)
    /\ \A k \in Themes : Told(k) => Generates(k) /\ taken[k] >= 1

(* The list is made of concepts that were reported once, and as long as it *)
(* is fresh of such as are reported still.                                 *)
ListInv ==
    \A c \in Cells : phantoms[c] > 0 =>
        /\ Generates(ConceptOf[c]) /\ taken[ConceptOf[c]] >= 1
        /\ listed => report[ConceptOf[c]] # NotReported

(* A concept that nobody has taken up has no files.                        *)
FreshInv ==
    astray = 0 =>
        \A c \in Cells : Generates(ConceptOf[c]) /\ taken[ConceptOf[c]] = 0 =>
            OnDisk(c) = 0 /\ files[c].failed = 0

InHand(k) == Pending # {} /\ ConceptOf[Current] = k

BatchOK(k) ==
    /\ \A c \in CellsOf(k) : left[c] <= Shortfall(c)
    /\ drafted[k] # NotReported => /\ \A c \in CellsOf(k) : left[c] = 0
                                   /\ drafted[k] = Failures(k)
    /\ drafted[k] = NotReported => Failures(k) = IF InHand(k) THEN failures ELSE 0

BatchInv ==
    job = "batch" /\ astray = 0 =>
        \A k \in Themes : Generates(k) /\ taken[k] = 1 => BatchOK(k)

ReportOK(k, v) == /\ job # "batch"
                  /\ \A c \in CellsOf(k) : left[c] <= Shortfall(c)
                  /\ Losses(k) <= v

ReportInv ==
    astray = 0 => \A k \in Themes : \A v \in Said(k) :
        v # NotReported /\ taken[k] = 1 => ReportOK(k, v)

GenInv == GenTypes /\ TakenInv /\ ListInv /\ FreshInv /\ BatchInv /\ ReportInv /\ PhantomsAreFound

-----------------------------------------------------------------------------
LEMMA CellsAre ==
    /\ IsFiniteSet(Cells) /\ Cells \subseteq Nat
    /\ \A c \in Cells : ConceptOf[c] \in Themes /\ c \in CellsOf(ConceptOf[c])
    /\ \A k \in Themes : /\ CellsOf(k) \subseteq Cells /\ IsFiniteSet(CellsOf(k)) /\ CellsOf(k) # {}
                         /\ \A c \in CellsOf(k) : ConceptOf[c] = k
    /\ \A k \in Themes : CellsOf(k) \subseteq ByHand <=> ~Generates(k)
<1>1. IsFiniteSet(Cells)
  BY CellsAssumption
<1>2. Cells \subseteq Nat
  <2>1. Cardinality(Cells) \in Nat
    BY <1>1, FS_CardinalityType
  <2> QED BY <2>1, CellsAssumption
<1>3. \A c \in Cells : ConceptOf[c] \in Themes /\ c \in CellsOf(ConceptOf[c])
  BY DEF Themes, CellsOf
<1>4. \A k \in Themes : CellsOf(k) \subseteq Cells /\ CellsOf(k) # {}
                        /\ \A c \in CellsOf(k) : ConceptOf[c] = k
  BY DEF Themes, CellsOf
<1>5. \A k \in Themes : IsFiniteSet(CellsOf(k))
  BY <1>1, <1>4, FS_Subset
<1>6. \A k \in Themes : CellsOf(k) \subseteq ByHand <=> ~Generates(k)
  <2> SUFFICES ASSUME NEW k \in Themes PROVE CellsOf(k) \subseteq ByHand <=> ~Generates(k)
    OBVIOUS
  <2>1. ASSUME NEW c \in CellsOf(k), NEW d \in CellsOf(k) PROVE c \in ByHand <=> d \in ByHand
    BY <1>4, <2>1, CellsAssumption
  <2>2. PICK c \in CellsOf(k) : TRUE
    BY <1>4
  <2> QED BY <2>1, <2>2 DEF Generates
<1> QED BY <1>1, <1>2, <1>3, <1>4, <1>5, <1>6

(* Of a set of cells with members, Min is the least.                       *)
LEMMA LeastCell ==
    ASSUME NEW T, T \subseteq Cells, T # {}
    PROVE  Min(T) \in T /\ \A c \in T : Min(T) <= c
<1>1. \E x \in T : \A y \in T : x <= y
  BY CellsAre, LeastNat
<1> QED BY <1>1 DEF Min

LEMMA LastPart == ASSUME NEW T, T \subseteq Parts, T # {} PROVE Max(T) \in T
<1> DEFINE n == Cardinality(Parts)
           D == {n - x : x \in T}
<1>1. n \in Nat /\ T \subseteq 1..n
  BY CellsAssumption, FS_CardinalityType
<1>2. D \subseteq Nat /\ D # {}
  <2>1. \A x \in T : n - x \in Nat
    BY <1>1
  <2> QED BY <2>1
<1>3. PICK d \in D : \A e \in D : d <= e
  BY <1>2, LeastNat
<1>4. PICK x \in T : d = n - x
  OBVIOUS
<1>5. \A y \in T : x >= y
  <2> SUFFICES ASSUME NEW y \in T PROVE x >= y
    OBVIOUS
  <2>1. n - x <= n - y
    BY <1>3, <1>4
  <2> QED BY <1>1, <2>1
<1> QED BY <1>5 DEF Max

LEMMA CurrentIs ==
    ASSUME Pending # {}
    PROVE  Current \in Cells /\ left[Current] > 0 /\ \A c \in Pending : Current <= c
<1>1. Pending \subseteq Cells
  BY DEF Pending
<1>2. Current \in Pending /\ \A c \in Pending : Current <= c
  BY <1>1, LeastCell DEF Current
<1> QED BY <1>2 DEF Pending

LEMMA LossTypes ==
    ASSUME GenTypes, NEW c \in Cells
    PROVE  /\ files[c].validated \in Nat /\ files[c].failed \in Nat /\ OnDisk(c) \in Nat
           /\ Count[c] \in Nat /\ Shortfall(c) \in Nat /\ Loss(c) \in Nat /\ left[c] \in Nat
           /\ left[c] <= Shortfall(c) => Failed(c) \in Nat
<1>1. files[c].validated \in Nat /\ files[c].failed \in Nat /\ left[c] \in Nat /\ Count[c] \in Nat
  <2>1. files[c] \in [validated : Nat, failed : Nat]
    BY DEF GenTypes
  <2> QED BY <2>1, CellsAssumption DEF GenTypes
<1>2. OnDisk(c) \in Nat
  BY <1>1 DEF OnDisk
<1>3. Shortfall(c) \in Nat
  BY <1>1, <1>2 DEF Shortfall
<1>4. Loss(c) \in Nat /\ Loss(c) >= Shortfall(c)
  BY <1>1, <1>3 DEF Loss
<1> QED BY <1>1, <1>2, <1>3, <1>4 DEF Failed

LEMMA GenInit == GenerationInit => GenInv
<1> SUFFICES ASSUME GenerationInit PROVE GenInv
  OBVIOUS
<1>0. 0 \in Nat /\ NotReported \notin Nat
  BY DEF NotReported
<1>1. /\ left = [c \in Cells |-> 0] /\ phantoms = [c \in Cells |-> 0] /\ job = "idle"
      /\ files = [c \in Cells |-> [validated |-> 0, failed |-> 0]]
      /\ drafted = [k \in Themes |-> NotReported] /\ report = [k \in Themes |-> NotReported]
      /\ parts = [n \in Parts |-> [k \in Themes |-> NotReported]]
      /\ taken = [k \in Themes |-> 0] /\ meta = NoMeta /\ failures = 0 /\ astray = 0
      /\ listed = FALSE
  BY DEF GenerationInit, Nothing, Blank
<1>2. GenTypes
  BY <1>1 DEF GenTypes
<1>3. \A c \in Cells : ConceptOf[c] \in Themes
  BY CellsAre
<1>s. \A k \in Themes : \A v \in Said(k) : v = NotReported
  BY <1>1 DEF Said
<1>4. TakenInv
  BY <1>1, <1>3, <1>s DEF TakenInv, Told
<1>8. ListInv
  BY <1>1 DEF ListInv
<1>5. FreshInv
  BY <1>1 DEF FreshInv, OnDisk
<1>6. BatchInv /\ ReportInv
  BY <1>1, <1>s DEF BatchInv, ReportInv
<1>7. PhantomsAreFound
  BY <1>1 DEF PhantomsAreFound
<1> QED BY <1>2, <1>4, <1>5, <1>6, <1>7, <1>8 DEF GenInv

LEMMA SaidIs ==
    ASSUME GenTypes, NEW k \in Themes
    PROVE  Said(k) \subseteq Nat \cup {NotReported} /\ report[k] \in Said(k)
BY DEF GenTypes, Said

(* The list that identify_phantom_failures writes is complete.             *)
LEMMA ListIsComplete ==
    ASSUME GenTypes, ReportInv, astray = 0, NEW k \in Themes,
           report[k] # NotReported, taken[k] = 1, k \notin PhantomConcepts, NEW c \in CellsOf(k)
    PROVE  Shortfall(c) = 0
<1>1. /\ c \in Cells /\ CellsOf(k) \subseteq Cells /\ IsFiniteSet(CellsOf(k))
  BY CellsAre
<1>f. PICK f : f = [d \in Cells |-> files[d].failed]
  OBVIOUS
<1>g. PICK g : g = [d \in Cells |-> Loss(d)]
  OBVIOUS
<1>2. \A d \in CellsOf(k) : f[d] \in Nat /\ g[d] \in Nat /\ g[d] = f[d] + Shortfall(d)
                            /\ Shortfall(d) \in Nat
  BY <1>1, <1>f, <1>g, LossTypes DEF Loss
<1>3. report[k] <= SumFunctionOnSet(f, CellsOf(k)) /\ SumFunctionOnSet(g, CellsOf(k)) <= report[k]
  <2>1. SavedFailed(k) = SumFunctionOnSet(f, CellsOf(k))
    BY <1>f DEF SavedFailed
  <2>2. Losses(k) = SumFunctionOnSet(g, CellsOf(k))
    BY <1>g DEF Losses
  <2>3. Losses(k) <= report[k]
    BY SaidIs DEF ReportInv, ReportOK
  <2>4. ~(report[k] > SavedFailed(k))
    BY DEF PhantomConcepts
  <2>5. report[k] \in Nat /\ SavedFailed(k) \in Nat
    BY <1>1, <1>2, <2>1, SumType DEF GenTypes
  <2> QED BY <2>1, <2>2, <2>3, <2>4, <2>5
<1>h. PICK h : h = [d \in Cells |-> Shortfall(d)]
  OBVIOUS
<1>4. SumFunctionOnSet(g, CellsOf(k)) = SumFunctionOnSet(f, CellsOf(k)) + SumFunctionOnSet(h, CellsOf(k))
  <2>1. \A d \in CellsOf(k) : f[d] \in Nat /\ h[d] \in Nat /\ g[d] = f[d] + h[d]
    BY <1>1, <1>2, <1>h
  <2> QED BY <1>1, <2>1, SumOfSums
<1>5. /\ SumFunctionOnSet(f, CellsOf(k)) \in Nat /\ SumFunctionOnSet(h, CellsOf(k)) \in Nat
      /\ \A d \in CellsOf(k) : h[d] \in Nat
  BY <1>1, <1>2, <1>h, SumType
<1>6. h[c] <= SumFunctionOnSet(h, CellsOf(k))
  BY <1>1, <1>5, SumBounds
<1>7. report[k] \in Nat /\ SumFunctionOnSet(g, CellsOf(k)) \in Nat
  BY <1>1, <1>2, SumType DEF GenTypes
<1>8. SumFunctionOnSet(h, CellsOf(k)) = 0
  BY <1>3, <1>4, <1>5, <1>7
<1> QED BY <1>1, <1>2, <1>5, <1>6, <1>8, <1>h

(* One task of cell c is finished, with a file or without.                 *)
Done(c, kind) ==
    /\ c \in Cells /\ left[c] > 0 /\ left' = [left EXCEPT ![c] = left[c] - 1]
    /\ \/ kind = "none" /\ files' = files
       \/ kind = "validated" /\ files' = [files EXCEPT ![c].validated = files[c].validated + 1]
       \/ kind = "failed" /\ files' = [files EXCEPT ![c].failed = files[c].failed + 1]

LEMMA DoneElsewhere ==
    ASSUME GenTypes, NEW c, NEW kind, Done(c, kind), NEW d \in Cells, d # c
    PROVE  files'[d] = files[d] /\ left'[d] = left[d]
           /\ OnDisk(d)' = OnDisk(d) /\ Shortfall(d)' = Shortfall(d)
           /\ Loss(d)' = Loss(d) /\ Failed(d)' = Failed(d)
<1>1. files'[d] = files[d] /\ left'[d] = left[d]
  BY DEF Done, GenTypes
<1>2. OnDisk(d)' = OnDisk(d)
  BY <1>1 DEF OnDisk
<1>3. Shortfall(d)' = Shortfall(d)
  BY <1>2 DEF Shortfall
<1>4. Loss(d)' = Loss(d)
  BY <1>1, <1>3 DEF Loss
<1> QED BY <1>1, <1>2, <1>3, <1>4 DEF Failed

LEMMA DoneHere ==
    ASSUME GenTypes, NEW c, NEW kind, Done(c, kind), left[c] <= Shortfall(c)
    PROVE  /\ left'[c] <= Shortfall(c)'
           /\ Loss(c)' \in Nat /\ Loss(c)' <= Loss(c)
           /\ Failed(c)' \in Nat /\ Failed(c)' = Failed(c) + IF kind = "validated" THEN 0 ELSE 1
<1>c. c \in Cells
  BY DEF Done
<1>v. PICK v \in Nat : v = files[c].validated
  BY <1>c, LossTypes
<1>f. PICK f \in Nat : f = files[c].failed
  BY <1>c, LossTypes
<1>l. PICK l \in Nat : l = left[c] /\ l > 0
  BY <1>c, LossTypes DEF Done
<1>n. PICK n \in Nat : n = Count[c]
  BY <1>c, LossTypes
<1>1. Shortfall(c) = n - (v + f) /\ l <= n - (v + f)
  <2>1. Shortfall(c) = IF v + f < n THEN n - (v + f) ELSE 0
    BY <1>v, <1>f, <1>n DEF Shortfall, OnDisk
  <2> QED BY <1>l, <2>1
<1>2. left'[c] = l - 1
  BY <1>c, <1>l DEF Done, GenTypes
<1>3. PICK w \in Nat, g \in Nat :
         /\ files'[c].validated = w /\ files'[c].failed = g
         /\ \/ kind = "none" /\ w = v /\ g = f
            \/ kind = "validated" /\ w = v + 1 /\ g = f
            \/ kind = "failed" /\ w = v /\ g = f + 1
  <2>0. files \in [Cells -> [validated : Nat, failed : Nat]]
    BY DEF GenTypes
  <2>1. CASE kind = "none"
    BY <1>v, <1>f, <2>1 DEF Done
  <2>2. CASE kind = "validated"
    <3>1. files' = [files EXCEPT ![c].validated = v + 1]
      BY <1>v, <2>2 DEF Done
    <3>2. files'[c].validated = v + 1 /\ files'[c].failed = f
      BY <1>c, <1>f, <2>0, <3>1
    <3> QED BY <2>2, <3>2
  <2>3. CASE kind = "failed"
    <3>1. files' = [files EXCEPT ![c].failed = f + 1]
      BY <1>f, <2>3 DEF Done
    <3>2. files'[c].validated = v /\ files'[c].failed = f + 1
      BY <1>c, <1>v, <2>0, <3>1
    <3> QED BY <2>3, <3>2
  <2> QED BY <2>1, <2>2, <2>3 DEF Done
<1>4. Shortfall(c)' = IF w + g < n THEN n - (w + g) ELSE 0
  BY <1>3, <1>n DEF Shortfall, OnDisk
<1>5. Shortfall(c)' = n - (w + g) /\ l - 1 <= n - (w + g)
  BY <1>1, <1>3, <1>4, <1>l
<1>6. Loss(c) = f + (n - (v + f)) /\ Loss(c)' = g + (n - (w + g))
  BY <1>1, <1>3, <1>5, <1>f DEF Loss
<1>7. Failed(c) = f + (n - (v + f)) - l /\ Failed(c)' = g + (n - (w + g)) - (l - 1)
  BY <1>2, <1>6, <1>l DEF Failed
<1>8. left'[c] <= Shortfall(c)'
  BY <1>2, <1>5
<1>9. Loss(c)' \in Nat /\ Loss(c)' <= Loss(c)
  BY <1>3, <1>5, <1>6, <1>l
<1>10. Failed(c)' \in Nat /\ Failed(c)' = Failed(c) + IF kind = "validated" THEN 0 ELSE 1
  <2>1. Failed(c)' \in Nat
    BY <1>3, <1>5, <1>7, <1>l
  <2>2. \/ kind = "validated" /\ g + (n - (w + g)) - (l - 1) = f + (n - (v + f)) - l
        \/ kind # "validated" /\ g + (n - (w + g)) - (l - 1) = f + (n - (v + f)) - l + 1
    <3>1. CASE kind = "none"
      <4>1. w = v /\ g = f
        BY <1>3, <3>1
      <4> QED BY <3>1, <4>1
    <3>2. CASE kind = "validated"
      <4>1. w = v + 1 /\ g = f
        BY <1>3, <3>2
      <4> QED BY <3>2, <4>1
    <3>3. CASE kind = "failed"
      <4>1. w = v /\ g = f + 1
        BY <1>3, <3>3
      <4> QED BY <3>3, <4>1
    <3> QED BY <1>3, <3>1, <3>2, <3>3
  <2>3. CASE kind = "validated"
    <3>1. Failed(c)' = Failed(c) /\ Failed(c) \in Int
      BY <1>7, <2>2, <2>3
    <3> QED BY <2>1, <2>3, <3>1
  <2>4. CASE kind # "validated"
    BY <1>7, <2>1, <2>2, <2>4
  <2> QED BY <2>3, <2>4
<1> QED BY <1>8, <1>9, <1>10

(* The same for a concept as a whole.                                      *)
LEMMA DoneConcept ==
    ASSUME GenTypes, NEW c, NEW kind, Done(c, kind),
           NEW k \in Themes, \A d \in CellsOf(k) : left[d] <= Shortfall(d)
    PROVE  /\ \A d \in CellsOf(k) : left'[d] <= Shortfall(d)'
           /\ Losses(k)' \in Nat /\ Losses(k) \in Nat /\ Losses(k)' <= Losses(k)
           /\ Failures(k) \in Nat
           /\ ConceptOf[c] = k => Failures(k)' = Failures(k) + IF kind = "validated" THEN 0 ELSE 1
           /\ ConceptOf[c] # k => Failures(k)' = Failures(k)
<1>c. c \in Cells /\ (ConceptOf[c] = k <=> c \in CellsOf(k))
  BY DEF Done, CellsOf
<1>S. PICK S : S = CellsOf(k)
  OBVIOUS
<1>1. IsFiniteSet(S) /\ S \subseteq Cells
  BY <1>S, CellsAre
<1>f. PICK f : f = [d \in Cells |-> Loss(d)]
  OBVIOUS
<1>g. PICK g : g = [d \in Cells |-> Loss(d)']
  OBVIOUS
<1>p. PICK p : p = [d \in Cells |-> Failed(d)]
  OBVIOUS
<1>q. PICK q : q = [d \in Cells |-> Failed(d)']
  OBVIOUS
<1>2. /\ Losses(k) = SumFunctionOnSet(f, S) /\ Losses(k)' = SumFunctionOnSet(g, S)
      /\ Failures(k) = SumFunctionOnSet(p, S) /\ Failures(k)' = SumFunctionOnSet(q, S)
  BY <1>S, <1>f, <1>g, <1>p, <1>q DEF Losses, Failures, CellsOf
<1>3. \A d \in S : f[d] \in Nat /\ p[d] \in Nat
  BY <1>S, <1>1, <1>f, <1>p, LossTypes
<1>4. \A d \in S \ {c} : g[d] = f[d] /\ q[d] = p[d]
  BY <1>1, <1>f, <1>g, <1>p, <1>q, DoneElsewhere
<1>5. \A d \in S \ {c} : left'[d] <= Shortfall(d)'
  BY <1>S, <1>1, DoneElsewhere
<1>6. CASE c \in S
  <2>1. /\ left'[c] <= Shortfall(c)' /\ g[c] \in Nat /\ g[c] <= f[c]
        /\ q[c] \in Nat /\ q[c] = p[c] + IF kind = "validated" THEN 0 ELSE 1
    BY <1>c, <1>S, <1>6, <1>f, <1>g, <1>p, <1>q, DoneHere
  <2>2. /\ SumFunctionOnSet(f, S) \in Nat /\ SumFunctionOnSet(g, S) \in Nat
        /\ SumFunctionOnSet(g, S) + f[c] = SumFunctionOnSet(f, S) + g[c]
    BY <1>1, <1>3, <1>4, <1>6, <2>1, SumChange
  <2>3. /\ SumFunctionOnSet(p, S) \in Nat /\ SumFunctionOnSet(q, S) \in Nat
        /\ SumFunctionOnSet(q, S) + p[c] = SumFunctionOnSet(p, S) + q[c]
    BY <1>1, <1>3, <1>4, <1>6, <2>1, SumChange
  <2>4. f[c] \in Nat /\ p[c] \in Nat
    BY <1>3, <1>6
  <2>5. SumFunctionOnSet(g, S) <= SumFunctionOnSet(f, S)
    BY <2>1, <2>2, <2>4
  <2>6. SumFunctionOnSet(q, S) = SumFunctionOnSet(p, S) + IF kind = "validated" THEN 0 ELSE 1
    BY <2>1, <2>3, <2>4
  <2> QED BY <1>c, <1>S, <1>2, <1>5, <1>6, <2>1, <2>2, <2>3, <2>5, <2>6
<1>7. CASE c \notin S
  <2>1. SumFunctionOnSet(g, S) = SumFunctionOnSet(f, S) /\ SumFunctionOnSet(q, S) = SumFunctionOnSet(p, S)
    BY <1>1, <1>3, <1>4, <1>7, SumSame
  <2>2. SumFunctionOnSet(f, S) \in Nat /\ SumFunctionOnSet(p, S) \in Nat
    BY <1>1, <1>3, SumType
  <2> QED BY <1>c, <1>S, <1>2, <1>5, <1>7, <2>1, <2>2
<1> QED BY <1>6, <1>7

(* A concept's cells are worked off in one piece.                          *)
LEMMA InOnePiece ==
    ASSUME GenTypes, Pending # {}, NEW c, c = Current, left' = [left EXCEPT ![c] = left[c] - 1],
           NEW d \in CellsOf(ConceptOf[c]), left'[d] # 0, NEW k
    PROVE  InHand(k)' <=> k = ConceptOf[c]
<1>1. c \in Cells /\ left[c] > 0 /\ \A e \in Pending : c <= e
  BY CurrentIs
<1>2. \A e \in Cells : left'[e] = IF e = c THEN left[c] - 1 ELSE left[e]
  BY <1>1 DEF GenTypes
<1>3. \A e \in Cells : left[e] \in Nat /\ left'[e] \in Nat
  <2> SUFFICES ASSUME NEW e \in Cells PROVE left[e] \in Nat /\ left'[e] \in Nat
    OBVIOUS
  <2>1. left[e] \in Nat /\ left[c] \in Nat
    BY <1>1 DEF GenTypes
  <2> QED BY <1>1, <1>2, <2>1
<1>T. PICK T : T = Pending'
  OBVIOUS
<1>4. T = {e \in Cells : left'[e] > 0}
  BY <1>T DEF Pending
<1>5. d \in Cells /\ ConceptOf[d] = ConceptOf[c]
  BY <1>1, CellsAre DEF CellsOf
<1>6. d \in T /\ T \subseteq Cells
  BY <1>3, <1>4, <1>5
<1>m. PICK m : m = Min(T)
  OBVIOUS
<1>7. m \in T /\ \A e \in T : m <= e
  BY <1>6, <1>m, LeastCell
<1>8. m \in Cells /\ c <= m /\ m <= d
  <2>1. \A e \in T : e \in Pending
    BY <1>1, <1>2, <1>3, <1>4 DEF Pending
  <2> QED BY <1>1, <1>6, <1>7, <2>1
<1>9. ConceptOf[m] = ConceptOf[c]
  <2>1. c \in Nat /\ m \in Nat /\ d \in Nat
    BY <1>1, <1>5, <1>8, CellsAre
  <2>2. CASE m = c \/ m = d
    BY <1>5, <2>2
  <2>3. CASE c < m /\ m < d
    BY <1>1, <1>5, <1>8, <2>3, CellsAssumption
  <2> QED BY <1>8, <2>1, <2>2, <2>3
<1>10. InHand(k)' <=> k = ConceptOf[m]
  <2>1. Pending' # {} /\ Current' = m
    BY <1>6, <1>T, <1>m DEF Current
  <2> QED BY <2>1 DEF InHand
<1> QED BY <1>9, <1>10

LEMMA FinishDoes ==
    ASSUME GenTypes, FinishTask, NEW c, c = Current,
           NEW kind, kind = IF meta = NoMeta THEN "none"
                            ELSE IF meta.verdict = "passed" THEN "validated" ELSE "failed"
    PROVE  /\ Pending # {} /\ c \in Cells /\ left[c] > 0
           /\ left' = [left EXCEPT ![c] = left[c] - 1]
           /\ astray' \in Nat /\ (astray' = 0 => astray = 0 /\ Done(c, kind))
           /\ listed' \in BOOLEAN /\ (listed' => listed /\ files' = files)
           /\ files' \in [Cells -> [validated : Nat, failed : Nat]]
           /\ Reported(c, left', failures + IF kind = "validated" THEN 0 ELSE 1)
           /\ UNCHANGED <<job, report, parts, phantoms, taken>> /\ meta' = NoMeta
<1>1. Pending # {} /\ c \in Cells /\ left[c] > 0
  BY CurrentIs DEF FinishTask
<1>2. left' = [left EXCEPT ![c] = left[c] - 1]
  BY DEF FinishTask
<1>3. Reported(c, left', failures + IF kind = "validated" THEN 0 ELSE 1)
  <2>1. (IF meta.verdict = "passed" THEN failures ELSE failures + 1) =
        failures + IF kind = "validated" THEN 0 ELSE 1
    <3>1. CASE meta = NoMeta
      <4>1. meta.verdict = "none" /\ kind = "none"
        BY <3>1 DEF NoMeta
      <4> QED BY <4>1
    <3>2. CASE meta # NoMeta /\ meta.verdict = "passed"
      BY <3>2 DEF GenTypes
    <3>3. CASE meta # NoMeta /\ meta.verdict # "passed"
      BY <3>3
    <3> QED BY <3>1, <3>2, <3>3
  <2>2. Reported(c, left', IF meta.verdict = "passed" THEN failures ELSE failures + 1)
    BY DEF FinishTask
  <2> QED BY <2>1, <2>2
<1>4. UNCHANGED <<job, report, parts, phantoms, taken>> /\ meta' = NoMeta
  BY DEF FinishTask
<1>5. SaveMeta
  BY DEF FinishTask
<1>6. files \in [Cells -> [validated : Nat, failed : Nat]] /\ astray \in Nat /\ listed \in BOOLEAN
  BY DEF GenTypes
<1>7. /\ astray' \in Nat /\ (astray' = 0 => astray = 0 /\ Done(c, kind))
      /\ listed' \in BOOLEAN /\ (listed' => listed /\ files' = files)
      /\ files' \in [Cells -> [validated : Nat, failed : Nat]]
  <2>1. CASE meta = NoMeta
    <3>1. files' = files /\ listed' = listed /\ astray' = astray
      BY <1>5, <2>1 DEF SaveMeta
    <3> QED BY <1>1, <1>2, <1>6, <2>1, <3>1 DEF Done
  <2>2. CASE meta # NoMeta
    <3>1. meta.cell \in Cells /\ meta.verdict \in {"passed", "failed"}
      BY <2>2 DEF GenTypes
    <3>2. /\ listed' = FALSE
          /\ astray' = IF meta.cell = c THEN astray ELSE astray + 1
          /\ files' = IF kind = "validated"
                      THEN [files EXCEPT ![meta.cell].validated = files[meta.cell].validated + 1]
                      ELSE [files EXCEPT ![meta.cell].failed = files[meta.cell].failed + 1]
      BY <1>5, <2>2 DEF SaveMeta
    <3>3. files' \in [Cells -> [validated : Nat, failed : Nat]]
      <4>1. files[meta.cell] \in [validated : Nat, failed : Nat]
        BY <1>6, <3>1
      <4>2. /\ [files[meta.cell] EXCEPT !.validated = @ + 1] \in [validated : Nat, failed : Nat]
            /\ [files[meta.cell] EXCEPT !.failed = @ + 1] \in [validated : Nat, failed : Nat]
        BY <4>1
      <4>3. \/ files' = [files EXCEPT ![meta.cell] = [files[meta.cell] EXCEPT !.validated = @ + 1]]
            \/ files' = [files EXCEPT ![meta.cell] = [files[meta.cell] EXCEPT !.failed = @ + 1]]
        BY <1>6, <3>1, <3>2
      <4> QED BY <1>6, <3>1, <4>2, <4>3
    <3>4. astray' = 0 => astray = 0 /\ meta.cell = c
      BY <1>6, <3>2
    <3>5. kind \in {"validated", "failed"}
      BY <2>2
    <3>6. meta.cell = c => Done(c, kind)
      BY <1>1, <1>2, <3>2, <3>5 DEF Done
    <3>7. astray' \in Nat
      BY <1>6, <3>2
    <3>8. astray' = 0 => astray = 0 /\ Done(c, kind)
      BY <3>4, <3>6
    <3>9. listed' = FALSE
      BY <3>2
    <3> QED BY <3>3, <3>7, <3>8, <3>9
  <2> QED BY <2>1, <2>2
<1> QED BY <1>1, <1>2, <1>3, <1>4, <1>7

LEMMA FinishKeeps == ASSUME GenInv, FinishTask PROVE GenInv'
<1>c. PICK c : c = Current
  OBVIOUS
<1>k. PICK kind : kind = IF meta = NoMeta THEN "none"
                         ELSE IF meta.verdict = "passed" THEN "validated" ELSE "failed"
  OBVIOUS
<1>t. GenTypes
  BY DEF GenInv
<1>n. PICK n : n = failures + IF kind = "validated" THEN 0 ELSE 1
  OBVIOUS
<1>1. /\ Pending # {} /\ c \in Cells /\ left[c] > 0
      /\ left' = [left EXCEPT ![c] = left[c] - 1]
      /\ astray' \in Nat /\ (astray' = 0 => astray = 0 /\ Done(c, kind))
      /\ listed' \in BOOLEAN /\ (listed' => listed /\ files' = files)
      /\ files' \in [Cells -> [validated : Nat, failed : Nat]]
      /\ Reported(c, left', n)
      /\ UNCHANGED <<job, report, parts, phantoms, taken>> /\ meta' = NoMeta
  BY <1>t, <1>c, <1>k, <1>n, FinishDoes
<1>2. /\ left \in [Cells -> Nat] /\ left' \in [Cells -> Nat]
      /\ left'[c] < left[c] /\ \A d \in Cells \ {c} : left'[d] = left[d]
  <2>1. left \in [Cells -> Nat] /\ left[c] \in Nat /\ left[c] - 1 \in Nat
    BY <1>t, <1>1 DEF GenTypes
  <2> QED BY <1>1, <2>1
<1>3. n \in Nat
  BY <1>t, <1>n DEF GenTypes
<1>o. PICK own \in Themes : own = ConceptOf[c]
  BY <1>1, CellsAre
<1>4. \/ /\ job = "batch" /\ \A d \in CellsOf(own) : left'[d] = 0
         /\ drafted' = [drafted EXCEPT ![own] = n] /\ failures' = 0
      \/ /\ ~(job = "batch" /\ \A d \in CellsOf(own) : left'[d] = 0)
         /\ drafted' = drafted /\ failures' = n
  BY <1>1, <1>o DEF Reported
<1>5. GenTypes'
  <2>1. failures' \in Nat
    BY <1>3, <1>4
  <2>2. drafted' \in [Themes -> Nat \cup {NotReported}]
    BY <1>t, <1>3, <1>4, <1>o DEF GenTypes
  <2> QED BY <1>t, <1>1, <1>2, <2>1, <2>2 DEF GenTypes
<1>6. TakenInv'
  <2>1. \A d \in Cells : left'[d] > 0 => left[d] > 0
    BY <1>1, <1>2
  <2>2. \A k \in Themes : drafted'[k] # NotReported => job = "batch" /\ Generates(k)
    <3> SUFFICES ASSUME NEW k \in Themes, drafted'[k] # NotReported
                 PROVE  job = "batch" /\ Generates(k)
      OBVIOUS
    <3>1. CASE drafted[k] # NotReported
      BY <3>1 DEF GenInv, TakenInv
    <3>2. CASE drafted[k] = NotReported
      <4>1. job = "batch" /\ k = own
        BY <1>t, <1>4, <3>2 DEF GenTypes
      <4> QED BY <1>1, <1>o, <4>1 DEF GenInv, TakenInv
    <3> QED BY <3>1, <3>2
  <2> QED BY <1>1, <2>1, <2>2 DEF GenInv, TakenInv, Generates, CellsOf, Told, Said
<1>11. ListInv'
  BY <1>1 DEF GenInv, ListInv, Generates, CellsOf
<1>7. FreshInv'
  <2> SUFFICES ASSUME astray' = 0, NEW d \in Cells, Generates(ConceptOf[d]), taken[ConceptOf[d]] = 0
               PROVE  OnDisk(d)' = 0 /\ files'[d].failed = 0
    BY <1>1 DEF FreshInv, Generates, CellsOf
  <2>1. d # c
    BY <1>1 DEF GenInv, TakenInv
  <2>2. Done(c, kind) /\ astray = 0
    BY <1>1
  <2>3. files'[d] = files[d] /\ OnDisk(d)' = OnDisk(d)
    BY <1>t, <2>1, <2>2, DoneElsewhere
  <2> QED BY <2>2, <2>3 DEF GenInv, FreshInv
<1>8. ReportInv'
  <2> SUFFICES ASSUME astray' = 0, NEW k \in Themes, NEW v \in Said(k), v # NotReported, taken[k] = 1
               PROVE  ReportOK(k, v)'
    BY <1>1 DEF ReportInv, Said
  <2>1. Done(c, kind) /\ ReportOK(k, v)
    BY <1>1 DEF GenInv, ReportInv
  <2>2. /\ \A d \in CellsOf(k) : left'[d] <= Shortfall(d)'
        /\ Losses(k)' \in Nat /\ Losses(k) \in Nat /\ Losses(k)' <= Losses(k)
    BY <1>t, <2>1, DoneConcept DEF ReportOK
  <2>3. v \in Nat /\ Losses(k) <= v
    BY <1>t, <2>1, SaidIs DEF ReportOK
  <2>4. Losses(k)' <= v
    BY <1>1, <2>2, <2>3
  <2> QED BY <1>1, <2>1, <2>2, <2>4 DEF ReportOK, CellsOf
<1>9. PhantomsAreFound'
  <2> SUFFICES ASSUME listed', astray' = 0, NEW d \in Cells,
                      report[ConceptOf[d]] # NotReported, taken[ConceptOf[d]] = 1
               PROVE  phantoms[d] = Shortfall(d)'
    BY <1>1 DEF PhantomsAreFound
  <2>1. listed /\ astray = 0 /\ files' = files
    BY <1>1
  <2>2. Shortfall(d)' = Shortfall(d)
    BY <2>1 DEF Shortfall, OnDisk
  <2> QED BY <2>1, <2>2 DEF GenInv, PhantomsAreFound
<1>10. BatchInv'
  <2> SUFFICES ASSUME job = "batch", astray' = 0, NEW k \in Themes, Generates(k), taken[k] = 1
               PROVE  BatchOK(k)'
    BY <1>1 DEF BatchInv, Generates, CellsOf
  <2>1. Done(c, kind) /\ BatchOK(k)
    BY <1>1 DEF GenInv, BatchInv
  <2>2. /\ \A d \in CellsOf(k) : left'[d] <= Shortfall(d)'
        /\ Failures(k) \in Nat
        /\ own = k => Failures(k)' = Failures(k) + IF kind = "validated" THEN 0 ELSE 1
        /\ own # k => Failures(k)' = Failures(k)
    BY <1>t, <1>o, <2>1, DoneConcept DEF BatchOK
  <2>3. NotReported \notin Nat
    BY DEF NotReported
  <2>4. CASE k = own
    <3>1. c \in CellsOf(k)
      BY <1>1, <1>o, <2>4, CellsAre
    <3>2. drafted[k] = NotReported /\ InHand(k)
      <4>1. left[c] # 0
        BY <1>1
      <4> QED BY <1>c, <1>1, <1>o, <2>1, <2>4, <3>1, <4>1 DEF BatchOK, InHand
    <3>3. Failures(k)' = n
      BY <1>n, <2>1, <2>2, <2>4, <3>2 DEF BatchOK
    <3>4. CASE \A d \in CellsOf(own) : left'[d] = 0
      <4>1. drafted'[k] = n
        BY <1>t, <1>4, <2>4, <3>4 DEF GenTypes
      <4>2. \A d \in CellsOf(k) : left'[d] = 0
        BY <2>4, <3>4
      <4> QED BY <1>3, <2>2, <2>3, <3>3, <4>1, <4>2 DEF BatchOK, CellsOf
    <3>5. CASE ~ \A d \in CellsOf(own) : left'[d] = 0
      <4>1. drafted'[k] = NotReported /\ failures' = n
        BY <1>4, <3>2, <3>5
      <4>2. PICK d \in CellsOf(own) : left'[d] # 0
        BY <3>5
      <4>3. InHand(k)'
        BY <1>t, <1>c, <1>1, <1>o, <2>4, <4>2, InOnePiece
      <4> QED BY <2>2, <3>3, <4>1, <4>3 DEF BatchOK, CellsOf
    <3> QED BY <3>4, <3>5
  <2>5. CASE k # own
    <3>1. drafted'[k] = drafted[k]
      BY <1>t, <1>4, <2>5 DEF GenTypes
    <3>2. \A d \in CellsOf(k) : left'[d] = left[d]
      <4>1. \A d \in CellsOf(k) : d \in Cells /\ d # c
        BY <1>o, <2>5, CellsAre
      <4> QED BY <1>2, <4>1
    <3>3. Failures(k)' = Failures(k)
      BY <2>2, <2>5
    <3>4. drafted[k] = NotReported => Failures(k) = 0
      BY <1>c, <1>o, <2>1, <2>5 DEF BatchOK, InHand
    <3>5. InHand(k)' => failures' = 0
      <4>1. CASE \A d \in CellsOf(own) : left'[d] = 0
        BY <1>4, <4>1
      <4>2. CASE ~ \A d \in CellsOf(own) : left'[d] = 0
        <5>1. PICK d \in CellsOf(own) : left'[d] # 0
          BY <4>2
        <5>2. ~InHand(k)'
          BY <1>t, <1>c, <1>1, <1>o, <2>5, <5>1, InOnePiece
        <5> QED BY <5>2
      <4> QED BY <4>1, <4>2
    <3>6. drafted'[k] # NotReported => /\ \A d \in CellsOf(k) : left'[d] = 0
                                       /\ drafted'[k] = Failures(k)'
      BY <2>1, <3>1, <3>2, <3>3 DEF BatchOK
    <3>7. drafted'[k] = NotReported => Failures(k)' = IF InHand(k)' THEN failures' ELSE 0
      BY <3>1, <3>3, <3>4, <3>5
    <3> QED BY <2>2, <3>6, <3>7 DEF BatchOK, CellsOf
  <2> QED BY <2>4, <2>5
<1> QED BY <1>5, <1>6, <1>7, <1>8, <1>9, <1>10, <1>11 DEF GenInv

LEMMA ManualTaskKeeps == ASSUME GenInv, NEW works \in BOOLEAN, ManualTask(works) PROVE GenInv'
<1>c. PICK c : c = Current
  OBVIOUS
<1>k. PICK kind : kind = IF works THEN "validated" ELSE "none"
  OBVIOUS
<1>t. GenTypes
  BY DEF GenInv
<1>1. c \in Cells /\ left[c] > 0 /\ job = "manual"
  BY <1>c, CurrentIs DEF ManualTask
<1>2. /\ left' = [left EXCEPT ![c] = left[c] - 1]
      /\ files' = IF works THEN [files EXCEPT ![c].validated = files[c].validated + 1] ELSE files
      /\ listed' = IF works THEN FALSE ELSE listed
      /\ UNCHANGED <<job, meta, failures, drafted, report, parts, phantoms, taken, astray>>
  BY <1>c DEF ManualTask
<1>3. Done(c, kind)
  BY <1>k, <1>1, <1>2 DEF Done
<1>4. /\ left \in [Cells -> Nat] /\ left' \in [Cells -> Nat]
      /\ left'[c] < left[c] /\ \A d \in Cells \ {c} : left'[d] = left[d]
  <2>1. left \in [Cells -> Nat] /\ left[c] \in Nat /\ left[c] - 1 \in Nat
    BY <1>t, <1>1 DEF GenTypes
  <2> QED BY <1>1, <1>2, <2>1
<1>5. GenTypes'
  <2>1. files' \in [Cells -> [validated : Nat, failed : Nat]]
    <3>0. files \in [Cells -> [validated : Nat, failed : Nat]]
      BY <1>t DEF GenTypes
    <3>1. files[c] \in [validated : Nat, failed : Nat]
      BY <1>1, <3>0
    <3>2. [files[c] EXCEPT !.validated = @ + 1] \in [validated : Nat, failed : Nat]
      BY <3>1
    <3>3. files' = files \/ files' = [files EXCEPT ![c] = [files[c] EXCEPT !.validated = @ + 1]]
      BY <1>1, <1>2, <3>0
    <3> QED BY <1>1, <3>0, <3>2, <3>3
  <2> QED BY <1>t, <1>2, <1>4, <2>1 DEF GenTypes
<1>6. TakenInv'
  <2>1. \A d \in Cells : left'[d] > 0 => left[d] > 0
    BY <1>1, <1>4
  <2> QED BY <1>2, <2>1 DEF GenInv, TakenInv, Generates, CellsOf, Told, Said
<1>11. ListInv'
  BY <1>2 DEF GenInv, ListInv, Generates, CellsOf
<1>7. FreshInv'
  <2> SUFFICES ASSUME astray = 0, NEW d \in Cells, Generates(ConceptOf[d]), taken[ConceptOf[d]] = 0
               PROVE  OnDisk(d)' = 0 /\ files'[d].failed = 0
    BY <1>2 DEF FreshInv, Generates, CellsOf
  <2>1. d # c
    BY <1>1 DEF GenInv, TakenInv
  <2>2. files'[d] = files[d] /\ OnDisk(d)' = OnDisk(d)
    BY <1>t, <1>3, <2>1, DoneElsewhere
  <2> QED BY <2>2 DEF GenInv, FreshInv
<1>8. ReportInv'
  <2> SUFFICES ASSUME astray = 0, NEW k \in Themes, NEW v \in Said(k), v # NotReported, taken[k] = 1
               PROVE  ReportOK(k, v)'
    BY <1>2 DEF ReportInv, Said
  <2>1. ReportOK(k, v)
    BY DEF GenInv, ReportInv
  <2>2. /\ \A d \in CellsOf(k) : left'[d] <= Shortfall(d)'
        /\ Losses(k)' \in Nat /\ Losses(k) \in Nat /\ Losses(k)' <= Losses(k)
    BY <1>t, <1>3, <2>1, DoneConcept DEF ReportOK
  <2>3. v \in Nat /\ Losses(k) <= v
    BY <1>t, <2>1, SaidIs DEF ReportOK
  <2>4. Losses(k)' <= v
    BY <1>2, <2>2, <2>3
  <2> QED BY <1>2, <2>1, <2>2, <2>4 DEF ReportOK, CellsOf
<1>9. PhantomsAreFound'
  <2> SUFFICES ASSUME listed', astray = 0, NEW d \in Cells,
                      report[ConceptOf[d]] # NotReported, taken[ConceptOf[d]] = 1
               PROVE  phantoms[d] = Shortfall(d)'
    BY <1>2 DEF PhantomsAreFound
  <2>1. listed /\ files' = files
    BY <1>2
  <2>2. Shortfall(d)' = Shortfall(d)
    BY <2>1 DEF Shortfall, OnDisk
  <2> QED BY <2>1, <2>2 DEF GenInv, PhantomsAreFound
<1>10. BatchInv'
  BY <1>1, <1>2 DEF BatchInv
<1> QED BY <1>5, <1>6, <1>7, <1>8, <1>9, <1>10, <1>11 DEF GenInv

(* What a job starts with: no cell of a concept that was not taken up, and *)
(* of a reported one no more than is missing, unless it counts as taken up *)
(* again.                                                                  *)
LEMMA StartKeeps ==
    ASSUME GenInv, NEW kind, NEW work \in [Cells -> Nat], Start(kind, work),
           taken' \in [Themes -> Nat], \A k \in Themes : taken[k] <= taken'[k],
           \A c \in Cells : work[c] > 0 /\ Generates(ConceptOf[c]) => taken'[ConceptOf[c]] >= 1,
           astray # 0 \/ \A k \in Themes : Told(k) /\ taken'[k] = 1 =>
               kind # "batch" /\ \A c \in CellsOf(k) : work[c] <= Shortfall(c),
           kind = "batch" =>
               /\ \A c \in Cells : work[c] = IF c \in ByHand THEN 0 ELSE Count[c]
               /\ \A k \in Themes : Generates(k) => taken'[k] = taken[k] + 1
    PROVE  GenInv'
<1>t. GenTypes
  BY DEF GenInv
<1>1. /\ job' = kind /\ left' = work /\ failures' = 0 /\ drafted' = [k \in Themes |-> NotReported]
      /\ UNCHANGED <<meta, report, parts, files, phantoms, listed, astray>>
  BY DEF Start, Blank
<1>2. /\ \A c : OnDisk(c)' = OnDisk(c)
      /\ \A c : Shortfall(c)' = Shortfall(c)
      /\ \A c : Loss(c)' = Loss(c)
  BY <1>1 DEF OnDisk, Shortfall, Loss
<1>3. \A k \in Themes : taken[k] \in Nat /\ taken'[k] \in Nat
  BY <1>t DEF GenTypes
<1>4. \A c \in Cells : ConceptOf[c] \in Themes
  BY CellsAre
<1>5. GenTypes'
  BY <1>t, <1>1 DEF GenTypes
<1>6. TakenInv'
  <2>1. \A k \in Themes : Told(k) => Generates(k) /\ taken'[k] >= 1
    <3> SUFFICES ASSUME NEW k \in Themes, Told(k) PROVE Generates(k) /\ taken'[k] >= 1
      OBVIOUS
    <3>1. Generates(k) /\ taken[k] >= 1
      BY DEF GenInv, TakenInv
    <3> QED BY <1>3, <3>1
  <2>2. ASSUME kind = "batch" PROVE /\ \A c \in Cells : work[c] > 0 => Generates(ConceptOf[c])
                                    /\ \A k \in Themes : Generates(k) => taken'[k] >= 1
    <3>1. ASSUME NEW c \in Cells, work[c] > 0 PROVE Generates(ConceptOf[c])
      <4>1. c \notin ByHand
        BY <2>2, <3>1
      <4>2. c \in CellsOf(ConceptOf[c]) /\ ConceptOf[c] \in Themes
        BY CellsAre
      <4> QED BY <4>1, <4>2, CellsAre
    <3>2. \A k \in Themes : Generates(k) => taken'[k] >= 1
      BY <1>3, <2>2
    <3> QED BY <3>1, <3>2
  <2>4. \A k \in Themes : drafted'[k] = NotReported
    BY <1>1
  <2> QED BY <1>1, <2>1, <2>2, <2>4 DEF TakenInv, Generates, CellsOf, Told, Said
<1>12. ListInv'
  <2> SUFFICES ASSUME NEW c \in Cells, phantoms[c] > 0
               PROVE  /\ Generates(ConceptOf[c]) /\ taken'[ConceptOf[c]] >= 1
                      /\ listed => report[ConceptOf[c]] # NotReported
    BY <1>1 DEF ListInv, Generates, CellsOf
  <2>1. /\ Generates(ConceptOf[c]) /\ taken[ConceptOf[c]] >= 1
        /\ listed => report[ConceptOf[c]] # NotReported
    BY DEF GenInv, ListInv
  <2> QED BY <1>3, <1>4, <2>1
<1>7. FreshInv'
  <2> SUFFICES ASSUME astray = 0, NEW c \in Cells, Generates(ConceptOf[c]), taken'[ConceptOf[c]] = 0
               PROVE  OnDisk(c)' = 0 /\ files[c].failed = 0
    BY <1>1 DEF FreshInv, Generates, CellsOf
  <2>1. taken[ConceptOf[c]] = 0
    <3>1. taken[ConceptOf[c]] <= taken'[ConceptOf[c]] /\ taken[ConceptOf[c]] \in Nat
      BY <1>3, <1>4
    <3> QED BY <3>1
  <2> QED BY <1>2, <2>1 DEF GenInv, FreshInv
<1>8. ASSUME NEW k \in Themes, Told(k), taken'[k] = 1 PROVE taken[k] = 1
  <2>1. taken[k] >= 1 /\ taken[k] <= taken'[k] /\ taken[k] \in Nat
    BY <1>3, <1>8 DEF GenInv, TakenInv
  <2> QED BY <1>8, <2>1
<1>9. ReportInv'
  <2> SUFFICES ASSUME astray = 0, NEW k \in Themes, NEW v \in Said(k), v # NotReported, taken'[k] = 1
               PROVE  ReportOK(k, v)'
    BY <1>1 DEF ReportInv, Said
  <2>0. Told(k)
    BY DEF Told
  <2>1. ReportOK(k, v)
    BY <1>8, <2>0 DEF GenInv, ReportInv
  <2>2. Losses(k)' = Losses(k)
    BY <1>2 DEF Losses, CellsOf
  <2>3. job' # "batch" /\ \A c \in CellsOf(k) : left'[c] <= Shortfall(c)'
    BY <1>1, <1>2, <2>0
  <2> QED BY <1>1, <2>1, <2>2, <2>3 DEF ReportOK, CellsOf
<1>10. PhantomsAreFound'
  <2> SUFFICES ASSUME listed, astray = 0, NEW c \in Cells,
                      report[ConceptOf[c]] # NotReported, taken'[ConceptOf[c]] = 1
               PROVE  phantoms[c] = Shortfall(c)'
    BY <1>1 DEF PhantomsAreFound
  <2>1. Told(ConceptOf[c])
    BY <1>t, <1>4, SaidIs DEF Told
  <2> QED BY <1>2, <1>4, <1>8, <2>1 DEF GenInv, PhantomsAreFound
<1>11. BatchInv'
  <2> SUFFICES ASSUME kind = "batch", astray = 0, NEW k \in Themes, Generates(k), taken'[k] = 1
               PROVE  BatchOK(k)'
    BY <1>1 DEF BatchInv, Generates, CellsOf
  <2>1. taken[k] = 0
    BY <1>3
  <2>2. \A c \in CellsOf(k) : c \in Cells /\ OnDisk(c) = 0 /\ files[c].failed = 0 /\ c \notin ByHand
    BY <2>1, CellsAre DEF GenInv, FreshInv, Generates
  <2>3. \A c \in CellsOf(k) : left'[c] = Shortfall(c) /\ Loss(c) = Shortfall(c) /\ Shortfall(c) \in Nat
    <3> SUFFICES ASSUME NEW c \in CellsOf(k)
                 PROVE  left'[c] = Shortfall(c) /\ Loss(c) = Shortfall(c) /\ Shortfall(c) \in Nat
      OBVIOUS
    <3>1. left'[c] = Count[c] /\ Count[c] \in Nat /\ Shortfall(c) \in Nat
      BY <1>t, <1>1, <2>2, LossTypes
    <3>2. Shortfall(c) = Count[c]
      BY <2>2, <3>1 DEF Shortfall
    <3> QED BY <2>2, <3>1, <3>2 DEF Loss
  <2>4. Failures(k)' = 0
    <3>f. PICK f : f = [c \in Cells |-> Failed(c)']
      OBVIOUS
    <3>1. Failures(k)' = SumFunctionOnSet(f, CellsOf(k))
      BY <3>f DEF Failures, CellsOf
    <3>2. \A c \in CellsOf(k) : f[c] = 0
      BY <1>2, <2>2, <2>3, <3>f DEF Failed
    <3> QED BY <3>1, <3>2, CellsAre, SumOfZeros
  <2>5. drafted'[k] = NotReported /\ failures' = 0
    BY <1>1
  <2>6. \A c \in CellsOf(k) : left'[c] <= Shortfall(c)'
    BY <1>2, <2>3
  <2> QED BY <2>4, <2>5, <2>6 DEF BatchOK, CellsOf
<1> QED BY <1>5, <1>6, <1>7, <1>9, <1>10, <1>11, <1>12 DEF GenInv

LEMMA StartsKeep ==
    ASSUME GenInv, StartBatch \/ StartRegeneration \/ StartManual \/ \E c \in Cells : StartSingle(c)
    PROVE  GenInv'
<1>t. /\ left \in [Cells -> Nat] /\ phantoms \in [Cells -> Nat] /\ Count \in [Cells -> Nat]
      /\ taken \in [Themes -> Nat]
  BY CellsAssumption DEF GenInv, GenTypes
<1>k. \A k \in Themes : taken[k] \in Nat
  BY <1>t
<1>c. \A c \in Cells : ConceptOf[c] \in Themes /\ c \in CellsOf(ConceptOf[c])
  BY CellsAre
<1>d. \A k \in Themes : \A c \in CellsOf(k) : c \in Cells /\ ConceptOf[c] = k
  BY CellsAre
<1>r. \A k \in Themes : Told(k) => Generates(k) /\ taken[k] >= 1
  BY DEF GenInv, TakenInv
<1>s. \A c \in Cells : Shortfall(c) \in Nat
  BY LossTypes DEF GenInv
<1>1. CASE StartBatch
  <2>w. PICK work : work = [c \in Cells |-> IF c \in ByHand THEN 0 ELSE Count[c]]
    OBVIOUS
  <2>1. work \in [Cells -> Nat] /\ Start("batch", work)
    BY <1>t, <1>1, <2>w DEF StartBatch
  <2>2. taken' = [k \in Themes |-> IF CellsOf(k) \subseteq ByHand THEN taken[k] ELSE taken[k] + 1]
    BY <1>1 DEF StartBatch
  <2>3. taken' \in [Themes -> Nat] /\ \A k \in Themes : taken[k] <= taken'[k]
    BY <1>k, <2>2
  <2>4. \A k \in Themes : Generates(k) => taken'[k] = taken[k] + 1 /\ taken'[k] >= 1
    BY <1>k, <2>2, CellsAre
  <2>5. \A k \in Themes : Told(k) => taken'[k] # 1
    BY <1>k, <1>r, <2>4
  <2>6. \A c \in Cells : work[c] > 0 /\ Generates(ConceptOf[c]) => taken'[ConceptOf[c]] >= 1
    BY <1>c, <2>4
  <2>7. \A c \in Cells : work[c] = IF c \in ByHand THEN 0 ELSE Count[c]
    BY <2>w
  <2> QED BY <2>1, <2>3, <2>4, <2>5, <2>6, <2>7, StartKeeps
<1>2. CASE StartManual
  <2>w. PICK work : work = [c \in Cells |-> IF c \in ByHand THEN Count[c] ELSE 0]
    OBVIOUS
  <2>1. work \in [Cells -> Nat] /\ Start("manual", work) /\ taken' = taken
    BY <1>t, <1>2, <2>w DEF StartManual
  <2>2. \A c \in Cells : Generates(ConceptOf[c]) => work[c] = 0
    BY <1>c, <2>w DEF Generates
  <2>3. \A k \in Themes : Told(k) => \A c \in CellsOf(k) : work[c] <= Shortfall(c)
    <3> SUFFICES ASSUME NEW k \in Themes, Told(k), NEW c \in CellsOf(k)
                 PROVE  work[c] <= Shortfall(c)
      OBVIOUS
    <3>1. c \in Cells /\ work[c] = 0 /\ Shortfall(c) \in Nat
      BY <1>r, <1>d, <1>s, <2>2
    <3> QED BY <3>1
  <2>4. \A k \in Themes : taken[k] <= taken'[k]
    BY <1>k, <2>1
  <2>5. \A c \in Cells : work[c] > 0 /\ Generates(ConceptOf[c]) => taken'[ConceptOf[c]] >= 1
    BY <2>2
  <2>6. "manual" # "batch"
    OBVIOUS
  <2> QED BY <1>t, <2>1, <2>3, <2>4, <2>5, <2>6, StartKeeps
<1>3. ASSUME NEW c \in Cells, StartSingle(c) PROVE GenInv'
  <2>w. PICK work : work = [[d \in Cells |-> 0] EXCEPT ![c] = 1]
    OBVIOUS
  <2>1. work \in [Cells -> Nat] /\ Start("single", work) /\ \A d \in Cells : d # c => work[d] = 0
    BY <1>3, <2>w DEF StartSingle, Nothing
  <2>2. /\ taken' \in [Themes -> Nat] /\ taken'[ConceptOf[c]] = taken[ConceptOf[c]] + 1
        /\ \A k \in Themes : k # ConceptOf[c] => taken'[k] = taken[k]
    <3>1. taken' = [taken EXCEPT ![ConceptOf[c]] = taken[ConceptOf[c]] + 1]
      BY <1>3 DEF StartSingle
    <3> QED BY <1>t, <1>k, <1>c, <3>1
  <2>3. \A k \in Themes : taken[k] <= taken'[k]
    BY <1>k, <2>2
  <2>4. \A d \in Cells : work[d] > 0 /\ Generates(ConceptOf[d]) => taken'[ConceptOf[d]] >= 1
    <3> SUFFICES ASSUME NEW d \in Cells, work[d] > 0 PROVE taken'[ConceptOf[d]] >= 1
      OBVIOUS
    <3>1. d = c
      BY <2>1
    <3> QED BY <1>k, <1>c, <2>2, <3>1
  <2>5. \A k \in Themes : Told(k) /\ taken'[k] = 1 =>
                              \A d \in CellsOf(k) : work[d] <= Shortfall(d)
    <3> SUFFICES ASSUME NEW k \in Themes, Told(k), taken'[k] = 1, NEW d \in CellsOf(k)
                 PROVE  work[d] <= Shortfall(d)
      OBVIOUS
    <3>1. k # ConceptOf[c]
      BY <1>k, <1>r, <2>2
    <3>2. d \in Cells /\ d # c
      BY <1>d, <3>1
    <3> QED BY <1>s, <2>1, <3>2
  <2>6. "single" # "batch"
    OBVIOUS
  <2> QED BY <2>1, <2>2, <2>3, <2>4, <2>5, <2>6, StartKeeps
<1>4. CASE StartRegeneration
  <2>1. Start("regenerate", phantoms)
        /\ taken' = [k \in Themes |-> IF ~listed /\ \E c \in CellsOf(k) : phantoms[c] > 0
                                      THEN taken[k] + 1 ELSE taken[k]]
    BY <1>4 DEF StartRegeneration
  <2>2. taken' \in [Themes -> Nat] /\ \A k \in Themes : taken[k] <= taken'[k]
    BY <1>k, <2>1
  <2>3. \A c \in Cells : phantoms[c] > 0 => taken'[ConceptOf[c]] >= 1
    <3> SUFFICES ASSUME NEW c \in Cells, phantoms[c] > 0 PROVE taken'[ConceptOf[c]] >= 1
      OBVIOUS
    <3>1. taken[ConceptOf[c]] >= 1
      BY DEF GenInv, ListInv
    <3>2. taken[ConceptOf[c]] >= 1 /\ taken[ConceptOf[c]] <= taken'[ConceptOf[c]]
          /\ taken[ConceptOf[c]] \in Nat /\ taken'[ConceptOf[c]] \in Nat
      BY <1>k, <1>c, <2>2, <3>1
    <3> QED BY <3>2
  <2>4. astray # 0 \/ \A k \in Themes : Told(k) /\ taken'[k] = 1 =>
                              \A c \in CellsOf(k) : phantoms[c] <= Shortfall(c)
    <3> SUFFICES ASSUME astray = 0, NEW k \in Themes, Told(k), taken'[k] = 1,
                        NEW c \in CellsOf(k)
                 PROVE  phantoms[c] <= Shortfall(c)
      OBVIOUS
    <3>1. c \in Cells /\ ConceptOf[c] = k /\ Shortfall(c) \in Nat /\ phantoms[c] \in Nat
      BY <1>t, <1>d, <1>s
    <3>2. taken[k] = 1
      BY <1>k, <1>r, <2>1
    <3>3. CASE listed
      <4>1. CASE phantoms[c] = 0
        BY <3>1, <4>1
      <4>2. CASE phantoms[c] > 0
        <5>1. report[k] # NotReported
          BY <3>1, <3>3, <4>2 DEF GenInv, ListInv
        <5> QED BY <3>1, <3>2, <3>3, <5>1 DEF GenInv, PhantomsAreFound
      <4> QED BY <3>1, <4>1, <4>2
    <3>4. CASE ~listed
      <4>1. phantoms[c] = 0
        BY <1>k, <2>1, <3>1, <3>2, <3>4
      <4> QED BY <3>1, <4>1
    <3> QED BY <3>3, <3>4
  <2>5. "regenerate" # "batch"
    OBVIOUS
  <2> QED BY <1>t, <2>1, <2>2, <2>3, <2>4, <2>5, StartKeeps
<1> QED BY <1>1, <1>2, <1>3, <1>4

(* A job ends, with a report or without.                                   *)
LEMMA StopKeeps ==
    ASSUME GenInv, Stop, report' \in [Themes -> Nat \cup {NotReported}],
           \A k \in Themes : report'[k] = report[k] \/ report'[k] = drafted[k],
           listed' \in BOOLEAN, listed' => listed /\ report' = report
    PROVE  GenInv'
<1>t. GenTypes
  BY DEF GenInv
<1>0. 0 \in Nat
  OBVIOUS
<1>1. /\ job' = "idle" /\ left' = [c \in Cells |-> 0] /\ meta' = NoMeta /\ failures' = 0
      /\ drafted' = [k \in Themes |-> NotReported]
      /\ UNCHANGED <<parts, files, phantoms, taken, astray>>
  BY DEF Stop, Nothing, Blank
<1>2. /\ \A c : OnDisk(c)' = OnDisk(c)
      /\ \A c : Shortfall(c)' = Shortfall(c)
      /\ \A c : Loss(c)' = Loss(c)
  BY <1>1 DEF OnDisk, Shortfall, Loss
<1>3. GenTypes'
  <2>1. left' \in [Cells -> Nat] /\ drafted' \in [Themes -> Nat \cup {NotReported}]
    BY <1>1
  <2> QED BY <1>t, <1>1, <2>1 DEF GenTypes
<1>s. \A k \in Themes : \A v \in Said(k)' : v \in Said(k) \/ v = drafted[k]
  BY <1>1 DEF Said
<1>4. TakenInv'
  <2>1. \A k \in Themes : Told(k)' => Generates(k) /\ taken[k] >= 1
    <3> SUFFICES ASSUME NEW k \in Themes, NEW v \in Said(k)', v # NotReported
                 PROVE  Generates(k) /\ taken[k] >= 1
      BY DEF Told
    <3>1. CASE v \in Said(k)
      BY <3>1 DEF GenInv, TakenInv, Told
    <3>2. CASE v = drafted[k]
      BY <3>2 DEF GenInv, TakenInv
    <3> QED BY <1>s, <3>1, <3>2
  <2>3. \A c \in Cells : ~(left'[c] > 0)
    BY <1>1
  <2>4. \A k \in Themes : drafted'[k] = NotReported
    BY <1>1
  <2> QED BY <1>1, <2>1, <2>3, <2>4 DEF TakenInv, Generates, CellsOf
<1>9. ListInv'
  BY <1>1 DEF GenInv, ListInv, Generates, CellsOf
<1>5. FreshInv'
  BY <1>1, <1>2 DEF GenInv, FreshInv, Generates, CellsOf
<1>6. ReportInv'
  <2> SUFFICES ASSUME astray = 0, NEW k \in Themes, NEW v \in Said(k)', v # NotReported, taken[k] = 1
               PROVE  ReportOK(k, v)'
    BY <1>1 DEF ReportInv
  <2>1. \A c \in CellsOf(k) : c \in Cells /\ Loss(c) \in Nat /\ Shortfall(c) \in Nat
    BY <1>t, LossTypes, CellsAre
  <2>2. Losses(k)' = Losses(k)
    BY <1>2 DEF Losses, CellsOf
  <2>3. \A c \in CellsOf(k) : left'[c] <= Shortfall(c)'
    BY <1>1, <1>2, <2>1
  <2>4. Losses(k) <= v
    <3>1. CASE v \in Said(k)
      BY <3>1 DEF GenInv, ReportInv, ReportOK
    <3>2. CASE v = drafted[k]
      <4>1. BatchOK(k)
        BY <3>2 DEF GenInv, TakenInv, BatchInv
      <4>2. drafted[k] = Failures(k) /\ \A c \in CellsOf(k) : left[c] = 0
        BY <3>2, <4>1 DEF BatchOK
      <4>f. PICK f : f = [c \in Cells |-> Loss(c)]
        OBVIOUS
      <4>g. PICK g : g = [c \in Cells |-> Failed(c)]
        OBVIOUS
      <4>3. \A c \in CellsOf(k) : f[c] \in Nat /\ g[c] = f[c]
        BY <2>1, <4>2, <4>f, <4>g DEF Failed
      <4>4. IsFiniteSet(CellsOf(k))
        BY CellsAre
      <4>5. Failures(k) = Losses(k)
        BY <4>3, <4>4, <4>f, <4>g, SumSame DEF Failures, Losses
      <4>6. Losses(k) \in Nat
        BY <4>3, <4>4, <4>f, SumType DEF Losses
      <4> QED BY <3>2, <4>2, <4>5, <4>6
    <3> QED BY <1>s, <3>1, <3>2
  <2> QED BY <1>1, <2>2, <2>3, <2>4 DEF ReportOK, CellsOf
<1>7. PhantomsAreFound'
  <2> SUFFICES ASSUME listed', astray = 0, NEW c \in Cells,
                      report'[ConceptOf[c]] # NotReported, taken[ConceptOf[c]] = 1
               PROVE  phantoms[c] = Shortfall(c)'
    BY <1>1 DEF PhantomsAreFound
  <2>1. listed /\ report' = report
    OBVIOUS
  <2> QED BY <1>2, <2>1 DEF GenInv, PhantomsAreFound
<1>8. BatchInv'
  BY <1>1 DEF BatchInv
<1> QED BY <1>3, <1>4, <1>5, <1>6, <1>7, <1>8, <1>9 DEF GenInv

LEMMA EndsKeep == ASSUME GenInv, EndJob \/ JobDies PROVE GenInv'
<1>t. report \in [Themes -> Nat \cup {NotReported}] /\ drafted \in [Themes -> Nat \cup {NotReported}]
      /\ listed \in BOOLEAN
  BY DEF GenInv, GenTypes
<1>1. CASE EndJob
  <2>1. /\ Stop /\ (report' = drafted \/ report' = report)
        /\ listed' = IF report' = report THEN listed ELSE FALSE
    BY <1>1 DEF EndJob, Write
  <2>2. report' \in [Themes -> Nat \cup {NotReported}]
    BY <1>t, <2>1
  <2>3. \A k \in Themes : report'[k] = report[k] \/ report'[k] = drafted[k]
    BY <2>1
  <2>4. listed' \in BOOLEAN /\ (listed' => listed /\ report' = report)
    BY <1>t, <2>1
  <2> QED BY <2>1, <2>2, <2>3, <2>4, StopKeeps
<1>2. CASE JobDies
  BY <1>t, <1>2, StopKeeps DEF JobDies
<1> QED BY <1>1, <1>2

LEMMA IdentifyKeeps == ASSUME GenInv, IdentifyPhantoms PROVE GenInv'
<1>t. GenTypes
  BY DEF GenInv
<1>1. /\ phantoms' = [c \in Cells |-> IF ConceptOf[c] \in PhantomConcepts THEN Shortfall(c) ELSE 0]
      /\ listed' = TRUE /\ job = "idle"
      /\ UNCHANGED <<job, left, meta, failures, drafted, report, parts, files, taken, astray>>
  BY DEF IdentifyPhantoms
<1>2. \A c : OnDisk(c)' = OnDisk(c) /\ Shortfall(c)' = Shortfall(c) /\ Loss(c)' = Loss(c)
  BY <1>1 DEF OnDisk, Shortfall, Loss
<1>3. GenTypes'
  <2>1. phantoms' \in [Cells -> Nat]
    BY <1>t, <1>1, LossTypes
  <2> QED BY <1>t, <1>1, <2>1 DEF GenTypes
<1>4. TakenInv'
  BY <1>1 DEF GenInv, TakenInv, Generates, CellsOf, Told, Said
<1>9. ListInv'
  <2> SUFFICES ASSUME NEW c \in Cells, phantoms'[c] > 0
               PROVE  /\ Generates(ConceptOf[c]) /\ taken[ConceptOf[c]] >= 1
                      /\ report[ConceptOf[c]] # NotReported
    BY <1>1 DEF ListInv, Generates, CellsOf
  <2>1. ConceptOf[c] \in Themes /\ report[ConceptOf[c]] # NotReported
    BY <1>1 DEF PhantomConcepts
  <2>2. Told(ConceptOf[c])
    BY <1>t, <2>1, SaidIs DEF Told
  <2> QED BY <2>1, <2>2 DEF GenInv, TakenInv
<1>5. FreshInv'
  BY <1>1, <1>2 DEF GenInv, FreshInv, Generates, CellsOf
<1>6. ReportInv'
  <2> SUFFICES ASSUME astray = 0, NEW k \in Themes, NEW v \in Said(k), v # NotReported, taken[k] = 1
               PROVE  ReportOK(k, v)'
    BY <1>1 DEF ReportInv, Said
  <2>1. ReportOK(k, v)
    BY DEF GenInv, ReportInv
  <2>2. Losses(k)' = Losses(k)
    BY <1>2 DEF Losses, CellsOf
  <2> QED BY <1>1, <1>2, <2>1, <2>2 DEF ReportOK, CellsOf
<1>7. BatchInv'
  BY <1>1 DEF BatchInv
<1>8. PhantomsAreFound'
  <2> SUFFICES ASSUME astray = 0, NEW c \in Cells, NEW k, k = ConceptOf[c],
                      report[k] # NotReported, taken[k] = 1
               PROVE  phantoms'[c] = Shortfall(c)'
    BY <1>1 DEF PhantomsAreFound
  <2>1. k \in Themes /\ c \in CellsOf(k)
    BY CellsAre
  <2>2. CASE k \in PhantomConcepts
    BY <1>1, <1>2, <2>2
  <2>3. CASE k \notin PhantomConcepts
    <3>1. Shortfall(c) = 0
      BY <1>t, <2>1, <2>3, ListIsComplete DEF GenInv
    <3> QED BY <1>1, <1>2, <2>3, <3>1
  <2> QED BY <2>2, <2>3
<1> QED BY <1>3, <1>4, <1>5, <1>6, <1>7, <1>8, <1>9 DEF GenInv

(* Reports are put aside or brought together: nothing new is said of any   *)
(* concept.                                                                *)
LEMMA ReportsKeep == ASSUME GenInv, AggregateReports \/ \E n \in Parts : RenameReport(n) PROVE GenInv'
<1>t. GenTypes
  BY DEF GenInv
<1>r. report \in [Themes -> Nat \cup {NotReported}]
      /\ parts \in [Parts -> [Themes -> Nat \cup {NotReported}]] /\ listed \in BOOLEAN
  BY <1>t DEF GenTypes
<1>1. /\ UNCHANGED <<job, left, meta, failures, drafted, files, phantoms, taken, astray>>
      /\ listed' = IF report' = report THEN listed ELSE FALSE
      /\ job = "idle"
  BY DEF AggregateReports, RenameReport, Write
<1>2. \A c : OnDisk(c)' = OnDisk(c) /\ Shortfall(c)' = Shortfall(c) /\ Loss(c)' = Loss(c)
  BY <1>1 DEF OnDisk, Shortfall, Loss
<1>3. /\ report' \in [Themes -> Nat \cup {NotReported}]
      /\ parts' \in [Parts -> [Themes -> Nat \cup {NotReported}]]
      /\ \A k \in Themes : Said(k)' \subseteq Said(k) \cup {NotReported}
  <2>1. CASE AggregateReports
    <3>1. report' = Aggregated /\ parts' = parts
      BY <2>1 DEF AggregateReports, Write
    <3>2. ASSUME NEW k \in Themes
          PROVE  Aggregated[k] = NotReported \/ \E n \in Parts : Aggregated[k] = parts[n][k]
      <4>1. CASE Telling(k) = {}
        BY <4>1 DEF Aggregated
      <4>2. CASE Telling(k) # {}
        <5>1. Max(Telling(k)) \in Parts
          BY <4>2, LastPart DEF Telling
        <5> QED BY <4>2, <5>1 DEF Aggregated
      <4> QED BY <4>1, <4>2
    <3>3. \A k \in Themes : Aggregated[k] \in Nat \cup {NotReported}
      BY <1>r, <3>2
    <3>4. Aggregated \in [Themes -> Nat \cup {NotReported}]
      BY <3>3 DEF Aggregated
    <3> HIDE DEF Aggregated
    <3>5. \A k \in Themes : Said(k)' \subseteq Said(k) \cup {NotReported}
      BY <3>1, <3>2 DEF Said
    <3> QED BY <1>r, <3>1, <3>4, <3>5
  <2>2. ASSUME NEW n \in Parts, RenameReport(n)
        PROVE  /\ report' \in [Themes -> Nat \cup {NotReported}]
               /\ parts' \in [Parts -> [Themes -> Nat \cup {NotReported}]]
               /\ \A k \in Themes : Said(k)' \subseteq Said(k) \cup {NotReported}
    <3>1. report' = [k \in Themes |-> NotReported] /\ parts' = [parts EXCEPT ![n] = report]
      BY <2>2 DEF RenameReport, Write, Blank
    <3>2. \A m \in Parts : parts'[m] = parts[m] \/ parts'[m] = report
      BY <1>r, <3>1
    <3>3. \A k \in Themes : Said(k)' \subseteq Said(k) \cup {NotReported}
      BY <3>1, <3>2 DEF Said
    <3> QED BY <1>r, <3>1, <3>3
  <2> QED BY <2>1, <2>2
<1>4. GenTypes'
  BY <1>t, <1>r, <1>1, <1>3 DEF GenTypes
<1>5. TakenInv'
  <2>1. \A k \in Themes : Told(k)' => Told(k)
    BY <1>3 DEF Told
  <2> QED BY <1>1, <2>1 DEF GenInv, TakenInv, Generates, CellsOf
<1>6. ListInv' /\ PhantomsAreFound'
  BY <1>1, <1>2 DEF GenInv, ListInv, PhantomsAreFound, Generates, CellsOf
<1>7. FreshInv' /\ BatchInv'
  BY <1>1, <1>2 DEF GenInv, FreshInv, BatchInv, Generates, CellsOf
<1>8. ReportInv'
  <2> SUFFICES ASSUME astray = 0, NEW k \in Themes, NEW v \in Said(k)', v # NotReported, taken[k] = 1
               PROVE  ReportOK(k, v)'
    BY <1>1 DEF ReportInv
  <2>1. ReportOK(k, v)
    BY <1>3 DEF GenInv, ReportInv
  <2>2. Losses(k)' = Losses(k)
    BY <1>2 DEF Losses, CellsOf
  <2> QED BY <1>1, <1>2, <2>1, <2>2 DEF ReportOK, CellsOf
<1> QED BY <1>4, <1>5, <1>6, <1>7, <1>8 DEF GenInv

(* A step that changes neither the work nor the files.                     *)
LEMMA GenQuiet ==
    ASSUME GenInv, meta' = meta \/ (meta'.cell \in Cells /\ meta'.verdict \in {"passed", "failed"}),
           UNCHANGED <<job, left, failures, drafted, report, parts, files, phantoms, listed, taken,
                       astray>>
    PROVE  GenInv'
<1>2. /\ \A c : OnDisk(c)' = OnDisk(c)
      /\ \A c : Shortfall(c)' = Shortfall(c)
      /\ \A c : Loss(c)' = Loss(c)
  BY DEF OnDisk, Shortfall, Loss
<1>3. GenTypes'
  BY DEF GenInv, GenTypes
<1>s. \A k : Said(k)' = Said(k)
  BY DEF Said
<1>4. TakenInv' /\ ListInv' /\ FreshInv'
  BY <1>2, <1>s DEF GenInv, TakenInv, ListInv, FreshInv, Generates, CellsOf, Told
<1>5. \A k : Losses(k)' = Losses(k) /\ Failures(k)' = Failures(k)
  <2>1. \A c : Failed(c)' = Failed(c)
    BY <1>2 DEF Failed
  <2> QED BY <1>2, <2>1 DEF Losses, Failures, CellsOf
<1>6. \A k : InHand(k)' <=> InHand(k)
  BY DEF InHand, Pending, Current
<1>7. \A k : BatchOK(k)' <=> BatchOK(k)
  BY <1>2, <1>5, <1>6 DEF BatchOK, CellsOf
<1>8. \A k, v : ReportOK(k, v)' <=> ReportOK(k, v)
  BY <1>2, <1>5 DEF ReportOK, CellsOf
<1>9. BatchInv'
  BY <1>7 DEF GenInv, BatchInv, Generates, CellsOf
<1>10. ReportInv'
  BY <1>8, <1>s DEF GenInv, ReportInv
<1>11. PhantomsAreFound'
  BY <1>2 DEF GenInv, PhantomsAreFound
<1> QED BY <1>3, <1>4, <1>9, <1>10, <1>11 DEF GenInv

LEMMA GenerateKeeps == ASSUME GenInv, Generate PROVE GenInv'
<1>1. ASSUME NEW answer, Attempt(answer),
             answer = NoMeta \/ (answer.cell \in Cells /\ answer.verdict \in {"passed", "failed"})
      PROVE  GenInv'
  <2>1. /\ meta' = IF answer = NoMeta THEN meta ELSE answer
        /\ UNCHANGED <<job, left, failures, drafted, report, parts, files, phantoms, listed, taken,
                       astray>>
    BY <1>1 DEF Attempt
  <2>2. meta' = meta \/ (meta'.cell \in Cells /\ meta'.verdict \in {"passed", "failed"})
    BY <1>1, <2>1
  <2> QED BY <2>1, <2>2, GenQuiet
<1>2. Verdicts \subseteq {"passed", "failed"}
  BY DEF Verdicts, Verdict
<1>3. CASE Attempt(NoMeta)
  BY <1>1, <1>3
<1>4. ASSUME NEW verdict \in Verdicts, NEW c \in Cells, Attempt([verdict |-> verdict, cell |-> c])
      PROVE  GenInv'
  BY <1>1, <1>2, <1>4
<1> QED BY <1>3, <1>4 DEF Generate

LEMMA GenNext == ASSUME GenInv, [GenerationNext]_generationVars PROVE GenInv'
<1>1. CASE UNCHANGED generationVars
  BY <1>1, GenQuiet DEF generationVars
<1>2. CASE GenerationNext
  <2>1. CASE StartBatch \/ StartRegeneration \/ StartManual \/ \E c \in Cells : StartSingle(c)
    BY <2>1, StartsKeep
  <2>2. CASE Generate
    BY <2>2, GenerateKeeps
  <2>3. CASE FinishTask
    BY <2>3, FinishKeeps
  <2>4. ASSUME NEW works \in BOOLEAN, ManualTask(works) PROVE GenInv'
    BY <2>4, ManualTaskKeeps
  <2>5. CASE EndJob \/ JobDies
    BY <2>5, EndsKeep
  <2>6. CASE IdentifyPhantoms
    BY <2>6, IdentifyKeeps
  <2>7. CASE AggregateReports \/ \E n \in Parts : RenameReport(n)
    BY <2>7, ReportsKeep
  <2> QED BY <1>2, <2>1, <2>2, <2>3, <2>4, <2>5, <2>6, <2>7 DEF GenerationNext
<1> QED BY <1>1, <1>2

(* However many jobs run, die or stop at their budget, whatever the model  *)
(* answers and the validator says: where a single batch has taken up a     *)
(* concept, the list of phantoms names exactly the tasks that are missing. *)
THEOREM PhantomsAreAllFound == GenerationSpec => []PhantomsAreFound
<1>1. GenerationInit => GenInv
  BY GenInit
<1>2. GenInv /\ [GenerationNext]_generationVars => GenInv'
  BY GenNext
<1>3. GenInv => PhantomsAreFound
  BY DEF GenInv
<1> QED BY <1>1, <1>2, <1>3, PTL DEF GenerationSpec

(* Beside each other the three desks behave as each does alone.            *)
THEOREM DesksAreApart == Spec => GenerationSpec /\ BankSpec /\ AccountsSpec
<1>1. Init => GenerationInit /\ BankInit /\ AccountsInit
  BY DEF Init
<1>2. [Next]_vars => [GenerationNext]_generationVars /\ [BankNext]_bankVars
                     /\ [AccountsNext]_accountsVars
  <2> SUFFICES ASSUME [Next]_vars
               PROVE  [GenerationNext]_generationVars /\ [BankNext]_bankVars
                      /\ [AccountsNext]_accountsVars
    OBVIOUS
  <2>1. CASE UNCHANGED vars
    BY <2>1 DEF vars
  <2>2. CASE Next
    BY <2>2 DEF Next
  <2> QED BY <2>1, <2>2
<1> QED BY <1>1, <1>2, PTL DEF Spec, GenerationSpec, BankSpec, AccountsSpec
=============================================================================
