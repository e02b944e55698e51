------------------------------ MODULE Accounts ------------------------------
(* Users and what hangs on them: registration and login, requests of users  *)
(* who may be gone before the agents write, and the scripts beside the      *)
(* running service that delete users (purge_demo_users, seed_demo_user,     *)
(* prepare_eval_baseline) or export their data.  A script is one            *)
(* transaction of several DELETEs at READ COMMITTED: others see nothing of  *)
(* it before its commit, a row it has deleted is locked until then, and a   *)
(* DELETE finds what others have committed meanwhile.                       *)
EXTENDS Naturals, FiniteSets, Sequences

CONSTANTS Names, AdminName,
          Demo,         \* names (or mail addresses) with the prefix demo44_
          Sentinel,     \* with one of SENTINEL_PREFIXES
          AlsoUser,     \* what --also-user may name
          MaxUsers, MaxAttempts, MaxScripts   \* bounds

ASSUME AccountsAssumption ==
    /\ AdminName \in Names /\ Demo \subseteq Sentinel
    /\ Sentinel \subseteq Names \ {AdminName} /\ AlsoUser \subseteq Names

VARIABLES users,     \* ids in table users -> [name, role]
          lastUser,  \* the sequence behind users.id
          inflight,  \* users with a submission past get_current_user
          attempts,  \* ids in table attempts -> user_id
          lastAttempt,
          informs,   \* <<attempt, table>> the agents have still to write
          points,    \* attempts with rows in skill_mastery_history
          awards,    \* attempts with rows in xp_log
          rest,      \* users with rows that fall by CASCADE (skill_mastery, streaks, ...)
          script,    \* the transaction of the script that runs
          export,    \* the run of export_eval_data
          scripts,   \* scripts started
          everUsers, everAttempts   \* ghosts: all users and attempts there have been

accountsVars == <<users, lastUser, inflight, attempts, lastAttempt, informs, points,
                  awards, rest, script, export, scripts, everUsers, everAttempts>>

None == [i \in {} |-> {}]
NoRows == [points |-> {}, awards |-> {}, attempts |-> {}, users |-> {}, rest |-> {}]
NoScript == [name |-> "none", steps |-> <<>>, gone |-> NoRows]
NoExport == [step |-> "none", map |-> {}, rows |-> {}, participants |-> {}]

AccountsInit ==
    /\ users = None /\ lastUser = 0 /\ inflight = {}
    /\ attempts = None /\ lastAttempt = 0 /\ informs = {}
    /\ points = {} /\ awards = {} /\ rest = {}
    /\ script = NoScript /\ export = NoExport /\ scripts = 0
    /\ everUsers = None /\ everAttempts = None

UsedNames == {users[i].name : i \in DOMAIN users}
IdOf(name) == CHOOSE i \in DOMAIN users : users[i].name = name

Insert(name, role) ==
    /\ lastUser < MaxUsers /\ lastUser' = lastUser + 1
    /\ users' = [i \in DOMAIN users \cup {lastUser'} |->
                   IF i = lastUser' THEN [name |-> name, role |-> role] ELSE users[i]]
    /\ everUsers' = [i \in DOMAIN everUsers \cup {lastUser'} |->
                       IF i = lastUser' THEN name ELSE everUsers[i]]

(* ON CONFLICT DO NOTHING: a name already taken keeps its user and role.    *)
SeedAdmin ==
    /\ AdminName \notin UsedNames /\ Insert(AdminName, "admin")
    /\ UNCHANGED <<inflight, attempts, lastAttempt, informs, points, awards, rest,
                   script, export, scripts, everAttempts>>

(* 409 if the name is taken; everybody else is a student, whatever the name.*)
Register(name) ==
    /\ name \notin UsedNames /\ Insert(name, "student")
    /\ UNCHANGED <<inflight, attempts, lastAttempt, informs, points, awards, rest, script,
                   export, scripts, everAttempts>>

(* The server keeps nothing of a login; get_current_user looks the token's  *)
(* user up once, before the submission travels.                             *)
CurrentUser(id) == id \in DOMAIN users

PostAttempt(id) ==
    /\ CurrentUser(id) /\ id \notin inflight
    /\ inflight' = inflight \cup {id}
    /\ UNCHANGED <<users, lastUser, attempts, lastAttempt, informs, points, awards,
                   rest, script, export, scripts, everUsers, everAttempts>>

(* The Evaluator inserts the attempt; the foreign key needs the user, and   *)
(* waits while a transaction has deleted him.                               *)
PersistAttempt(id) ==
    /\ id \in inflight /\ id \notin script.gone.users
    /\ inflight' = inflight \ {id}
    /\ IF id \in DOMAIN users
       THEN /\ lastAttempt < MaxAttempts /\ lastAttempt' = lastAttempt + 1
            /\ attempts' = [a \in DOMAIN attempts \cup {lastAttempt'} |->
                              IF a = lastAttempt' THEN id ELSE attempts[a]]
            /\ everAttempts' = [a \in DOMAIN everAttempts \cup {lastAttempt'} |->
                                  IF a = lastAttempt' THEN id ELSE everAttempts[a]]
            /\ informs' = informs \cup {<<lastAttempt', "points">>, <<lastAttempt', "awards">>}
       ELSE UNCHANGED <<attempts, lastAttempt, informs, everAttempts>>
    /\ UNCHANGED <<users, lastUser, points, awards, rest, script, export, scripts, everUsers>>

(* KnowledgeModel and Gamification write for the attempt they were told of; *)
(* they fail, and drop it, if it is gone.                                   *)
Follow(a, table) ==
    /\ <<a, table>> \in informs /\ a \notin script.gone.attempts
    /\ informs' = informs \ {<<a, table>>}
    /\ IF a \in DOMAIN attempts
       THEN /\ attempts[a] \notin script.gone.users
            /\ points' = IF table = "points" THEN points \cup {a} ELSE points
            /\ awards' = IF table = "awards" THEN awards \cup {a} ELSE awards
            /\ rest' = rest \cup {attempts[a]}
       ELSE UNCHANGED <<points, awards, rest>>
    /\ UNCHANGED <<users, lastUser, inflight, attempts, lastAttempt, script, export,
                   scripts, everUsers, everAttempts>>

Alone == script = NoScript /\ export = NoExport

(* find_demo_user_ids and find_dev_users: by name, and never the admin.     *)
DemoUsers == {i \in DOMAIN users : users[i].name \in Demo}
DevUsers(named) == {i \in DOMAIN users : /\ users[i].name # AdminName
                                         /\ users[i].name \in Sentinel \cup named}
Admin == {i \in DOMAIN users : users[i].name = AdminName}
ActiveAdmin == {i \in Admin : \E a \in DOMAIN attempts \cup points \cup awards : attempts[a] = i}

Delete(table, ids) == [table |-> table, of |-> ids]
DeleteUsers(ids) == IF ids = {} THEN <<>>
    ELSE <<Delete("points", ids), Delete("awards", ids), Delete("attempts", ids), Delete("users", ids)>>
ClearUserActivity(ids) == IF ids = {} THEN <<>>
    ELSE <<Delete("points", ids), Delete("awards", ids), Delete("attempts", ids), Delete("rest", ids)>>

Begin(name, steps) ==
    /\ Alone /\ scripts < MaxScripts /\ scripts' = scripts + 1
    /\ script' = [name |-> name, steps |-> steps, gone |-> NoRows]
    /\ UNCHANGED <<users, lastUser, inflight, attempts, lastAttempt, informs, points,
                   awards, rest, export, everUsers, everAttempts>>

PurgeDemoUsers == DemoUsers # {} /\ Begin("purge", DeleteUsers(DemoUsers))
SeedDemoUser == Begin("seed", DeleteUsers(DemoUsers))
PrepareEvalBaseline(named) ==
    /\ DevUsers(named) \cup ActiveAdmin # {}
    /\ Begin("baseline", DeleteUsers(DevUsers(named)) \o ClearUserActivity(ActiveAdmin))

OwnedBy(ids, rows) == {a \in rows : attempts[a] \in ids}
Found(step) ==
    CASE step.table = "points" -> OwnedBy(step.of, points)
      [] step.table = "awards" -> OwnedBy(step.of, awards)
      [] step.table = "attempts" -> OwnedBy(step.of, DOMAIN attempts)
      [] step.table = "users" -> step.of \cap DOMAIN users
      [] step.table = "rest" -> step.of \cap rest

(* NO ACTION: rows that still refer to what is deleted are an error.        *)
Refused(step) ==
    \/ /\ step.table = "attempts"
       /\ Found(step) \cap ((points \ script.gone.points) \cup (awards \ script.gone.awards)) # {}
    \/ /\ step.table = "users"
       /\ OwnedBy(step.of, DOMAIN attempts) \ script.gone.attempts # {}

Gone(step) == [script.gone EXCEPT ![step.table] = @ \cup Found(step)]

Keep(rows, gone) == [i \in DOMAIN rows \ gone |-> rows[i]]

(* What others see once the rows in gone are deleted; CASCADE takes the rest.*)
Erase(gone) ==
    /\ points' = points \ gone.points /\ awards' = awards \ gone.awards
    /\ attempts' = Keep(attempts, gone.attempts) /\ users' = Keep(users, gone.users)
    /\ rest' = rest \ (gone.users \cup gone.rest)

(* A slip: every DELETE is committed by itself.                             *)
DeleteAndCommit(step) ==
    /\ script' = [script EXCEPT !.steps = Tail(@)]
    /\ Erase(Gone(step))

DeleteRows(step) ==
    /\ script' = [script EXCEPT !.steps = Tail(@), !.gone = Gone(step)]
    /\ UNCHANGED <<points, awards, attempts, users, rest>>

ScriptDeletes ==
    /\ script.steps # <<>> /\ ~Refused(Head(script.steps))
    /\ DeleteRows(Head(script.steps))
    /\ UNCHANGED <<lastUser, inflight, lastAttempt, informs, export, scripts,
                   everUsers, everAttempts>>

ScriptCommits ==
    /\ script.name # "none" /\ script.steps = <<>>
    /\ Erase(script.gone)
    /\ script' = NoScript
    /\ UNCHANGED <<lastUser, inflight, lastAttempt, informs, export, scripts,
                   everUsers, everAttempts>>

(* A refused DELETE, or the end of the process: rollback.                   *)
ScriptFails ==
    /\ script.name # "none" /\ script' = NoScript
    /\ UNCHANGED <<users, lastUser, inflight, attempts, lastAttempt, informs, points,
                   awards, rest, export, scripts, everUsers, everAttempts>>

Leave == UNCHANGED <<users, lastUser, inflight, attempts, lastAttempt, informs, points,
                     awards, rest, script, everUsers, everAttempts>>

(* Each query of the export sees the tables of its own moment.              *)
ExportBegins ==
    /\ Alone /\ scripts < MaxScripts /\ scripts' = scripts + 1
    /\ export' = [NoExport EXCEPT !.step = "attempts", !.map = DOMAIN users]
    /\ Leave

Owners(table) == CASE table = "attempts" -> {attempts[a] : a \in DOMAIN attempts}
                   [] table = "points" -> {attempts[a] : a \in points}
                   [] table = "awards" -> {attempts[a] : a \in awards}
                   [] table = "rest" -> rest
After == [attempts |-> "points", points |-> "awards", awards |-> "rest", rest |-> "participants"]

ExportTable ==
    /\ export.step \in DOMAIN After
    /\ export' = [export EXCEPT !.rows = @ \cup Owners(export.step), !.step = After[export.step]]
    /\ Leave /\ UNCHANGED scripts

(* A slip: a user without a pseudonym becomes UNKNOWN here too.             *)
UnknownIsFine == TRUE

(* pseudonymize makes a row of such a user UNKNOWN_id and goes on; only the *)
(* last two files look the user up with pmap[uid], a KeyError.              *)
EveryoneHasPseudonym == DOMAIN users \subseteq export.map

ExportParticipants ==
    /\ export.step = "participants" /\ EveryoneHasPseudonym
    /\ export' = [export EXCEPT !.participants = DOMAIN users, !.step = "identities"]
    /\ Leave /\ UNCHANGED scripts

ExportIdentities ==
    /\ export.step = "identities" /\ EveryoneHasPseudonym
    /\ export' = [export EXCEPT !.step = "done"]
    /\ Leave /\ UNCHANGED scripts

(* Given up, or the files taken away: the operator turns to the next script.*)
ExportEnds == /\ export # NoExport /\ export' = NoExport
              /\ Leave /\ UNCHANGED scripts

AccountsNext ==
    \/ SeedAdmin
    \/ \E name \in Names : Register(name)
    \/ \E id \in DOMAIN everUsers : PostAttempt(id) \/ PersistAttempt(id)
    \/ \E inform \in informs : Follow(inform[1], inform[2])
    \/ PurgeDemoUsers \/ SeedDemoUser
    \/ \E named \in SUBSET AlsoUser : PrepareEvalBaseline(named)
    \/ ScriptDeletes \/ ScriptCommits \/ ScriptFails
    \/ ExportBegins \/ ExportTable \/ ExportParticipants \/ ExportIdentities \/ ExportEnds

AccountsSpec == AccountsInit /\ [][AccountsNext]_accountsVars

(* Deletion takes all of a user or nothing, also while he works: no row     *)
(* refers to one that is gone, who is still there has lost none of his      *)
(* attempts (only the admin's may be cleared), and nobody is deleted who    *)
(* has neither a prefix nor been named.                                     *)
PurgesAreWhole ==
    /\ \A a \in DOMAIN attempts : attempts[a] \in DOMAIN users
    /\ points \cup awards \subseteq DOMAIN attempts /\ rest \subseteq DOMAIN users
    /\ \A a \in DOMAIN everAttempts \ DOMAIN attempts :
          \/ everAttempts[a] \notin DOMAIN users
          \/ users[everAttempts[a]].name = AdminName
    /\ \A i \in DOMAIN everUsers \ DOMAIN users : everUsers[i] \in Sentinel \cup AlsoUser

(* A finished export is complete though its queries are not one snapshot    *)
(* and people register meanwhile: every row it wrote is of a user who has a *)
(* pseudonym (none says UNKNOWN), and they all are among the participants.  *)
ExportNamesEveryone ==
    export.step = "done" => /\ export.rows \subseteq export.map
                            /\ export.participants = export.map
=============================================================================
