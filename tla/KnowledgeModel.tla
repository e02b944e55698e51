---------------------------- MODULE KnowledgeModel ----------------------------
(***************************************************************************)
(* The KnowledgeModelAgent: update_mastery_for_attempt, which awaits the   *)
(* Prolog engine before each concept and commits once, then                *)
(* record_misconception_if_failed in a transaction of its own; and the     *)
(* script purge_polluted_attempts, which takes attempts back out of the    *)
(* chain of mastery updates.                                               *)
(***************************************************************************)
EXTENDS Curriculum

CONSTANTS
    Users,
    ErrorTypes,        \* error types of wrong answers
    MechanicalErrors,  \* those that are no misconception
    AllowTailTruncate  \* the script's --allow-tail-truncate

Correct == "none"

ASSUME KnowledgeAssumption ==
    /\ MechanicalErrors \subseteq ErrorTypes
    /\ Correct \notin ErrorTypes
    /\ AllowTailTruncate \in BOOLEAN

VARIABLES
    attempts,        \* the attempts table, deleted rows included; the index is the id
    purged,          \* ids of the deleted rows
    informs,         \* the agent's mailbox: attempt ids, oldest first
    mastery,         \* mastery[u]: the rows of skill_mastery, by concept
    history,         \* skill_mastery_history, as a set of rows with ids
    lastPoint,       \* the sequence behind skill_mastery_history.id
    misconceptions,  \* misconceptions[u]: occurrences by primary concept and error type
    km               \* the run of UpdateBehaviour

kmVars == <<attempts, purged, informs, mastery, history, lastPoint, misconceptions, km>>

Attempt == [user : Users, task : Tasks, error : ErrorTypes \cup {Correct}]
Row     == [p : Probability, attempts : Nat, correct : Nat]
Point   == [id : Nat \ {0}, user : Users, concept : Concepts, p : Probability, attempt : Nat \ {0}]

IsCorrect(a) == attempts[a].error = Correct

Idle == [stage |-> "idle", attempt |-> 0, todo |-> <<>>, rows |-> <<>>]

KnowledgeInit ==
    /\ attempts = <<>>
    /\ purged = {}
    /\ informs = <<>>
    /\ mastery = [u \in Users |-> <<>>]
    /\ history = {}
    /\ lastPoint = 0
    /\ misconceptions = [u \in Users |-> [k \in Concepts \X ErrorTypes |-> 0]]
    /\ km = Idle

-----------------------------------------------------------------------------
(* The Evaluator's commit of an attempt and its inform.                    *)
Evaluate(u, t, error) ==
    /\ attempts' = Append(attempts, [user |-> u, task |-> t, error |-> error])
    /\ informs' = Append(informs, Len(attempts) + 1)
    /\ UNCHANGED <<purged, mastery, history, lastPoint, misconceptions, km>>

(* XMPP delivers an inform a second time.                                  *)
Redeliver(a) ==
    /\ informs' = Append(informs, a)
    /\ UNCHANGED <<attempts, purged, mastery, history, lastPoint, misconceptions, km>>

-----------------------------------------------------------------------------
(* UpdateBehaviour.run.                                                    *)

KnowledgeTake ==
    /\ km.stage = "idle"
    /\ informs # <<>>
    /\ informs' = Tail(informs)
    /\ km' = [stage |-> "updating", attempt |-> Head(informs),
              todo |-> TaskConcepts[attempts[Head(informs)].task], rows |-> <<>>]
    /\ UNCHANGED <<attempts, purged, mastery, history, lastPoint, misconceptions>>

PriorRow(c) == [p |-> TierDefaults[Tier[c]].p_l0, attempts |-> 0, correct |-> 0]

RowOf(u, c) == IF c \in DOMAIN mastery[u] THEN mastery[u][c] ELSE PriorRow(c)

UpdatedRow(row, c, correct) ==
    [p        |-> Update(row.p, TierDefaults[Tier[c]], correct),
     attempts |-> row.attempts + 1,
     correct  |-> row.correct + (IF correct THEN 1 ELSE 0)]

(* One round of the loop: the tier arrived, the row is read and its update *)
(* is added to the session.                                                *)
KnowledgeConcept ==
    /\ km.stage = "updating"
    /\ km.todo # <<>>
    /\ LET c == Head(km.todo)
           u == attempts[km.attempt].user
       IN  km' = [km EXCEPT !.todo = Tail(km.todo),
                            !.rows = [d \in DOMAIN km.rows \cup {c} |->
                                        IF d = c
                                        THEN UpdatedRow(RowOf(u, c), c, IsCorrect(km.attempt))
                                        ELSE km.rows[d]]]
    /\ UNCHANGED <<attempts, purged, informs, mastery, history, lastPoint, misconceptions>>

(* The one commit: rows and snapshots together.  The snapshots of one      *)
(* commit concern different concepts, so they may share a number.          *)
KnowledgeCommit ==
    LET u == attempts[km.attempt].user IN
    /\ km.stage = "updating"
    /\ km.todo = <<>>
    /\ km.attempt \notin purged  \* the foreign key of the snapshots
    /\ mastery' = [mastery EXCEPT ![u] =
                     [c \in DOMAIN @ \cup DOMAIN km.rows |->
                        IF c \in DOMAIN km.rows THEN km.rows[c] ELSE @[c]]]
    /\ history' = history \cup
         {[id |-> lastPoint + 1, user |-> u, concept |-> c, p |-> km.rows[c].p,
           attempt |-> km.attempt] : c \in DOMAIN km.rows}
    /\ lastPoint' = lastPoint + 1
    /\ km' = [km EXCEPT !.stage = "misconception", !.rows = <<>>]
    /\ UNCHANGED <<attempts, purged, informs, misconceptions>>

(* record_misconception_if_failed, and the signal to the Coordinator.      *)
RecordMisconception ==
    LET a == attempts[km.attempt] IN
    /\ km.stage = "misconception"
    /\ misconceptions' =
         IF a.error \in MechanicalErrors \cup {Correct}
         THEN misconceptions
         ELSE [misconceptions EXCEPT ![a.user][<<Primary[a.task], a.error>>] = @ + 1]
    /\ km' = Idle
    /\ UNCHANGED <<attempts, purged, informs, mastery, history, lastPoint>>

(* Any exception, the engine's and the database's among them: the session  *)
(* is closed without a commit, the inform is forgotten.                    *)
KnowledgeFails ==
    /\ km.stage # "idle"
    /\ km' = Idle
    /\ UNCHANGED <<attempts, purged, informs, mastery, history, lastPoint, misconceptions>>

-----------------------------------------------------------------------------
(* purge_polluted_attempts over the attempts of one error type.            *)

PointsOf(u, c) == {h \in history : h.user = u /\ h.concept = c}

(* The newest of some points of one pair.                                  *)
Newest(points) == CHOOSE h \in points : \A g \in points : g.id <= h.id

(* The points of the polluted attempts, and what the flag adds to them:    *)
(* every later point of the same pair.                                     *)
Spoilt(ids) == {h \in history : h.attempt \in ids}

AfterSpoilt(ids) ==
    {h \in history : \E g \in Spoilt(ids) : /\ g.user = h.user
                                            /\ g.concept = h.concept
                                            /\ g.id < h.id}

InMiddle(ids) == AfterSpoilt(ids) \ Spoilt(ids) # {}

Affected(u, ids) == {c \in Concepts : \E h \in Spoilt(ids) : h.user = u /\ h.concept = c}

(* Mutant: the tail stays although its prior has gone.                     *)
RemovedOnlySpoilt(ids) == Spoilt(ids)

(* Mutant: the tail goes, the points of the polluted attempts stay.        *)
RemovedOnlyTail(ids) == AfterSpoilt(ids)

Removed(ids) == Spoilt(ids) \cup AfterSpoilt(ids)

(* p_l falls back to the last point left; without one the row goes.        *)
Repaired(u, ids) ==
    LET left(c)     == PointsOf(u, c) \ Removed(ids)
        rowless     == {c \in Affected(u, ids) : left(c) = {}}
    IN  [c \in DOMAIN mastery[u] \ rowless |->
            IF c \in Affected(u, ids)
            THEN [mastery[u][c] EXCEPT !.p = Newest(left(c)).p]
            ELSE mastery[u][c]]

Purge(error) ==
    LET ids == {a \in 1..Len(attempts) \ purged : attempts[a].error = error} IN
    /\ ids # {}
    /\ InMiddle(ids) => AllowTailTruncate
    /\ history' = history \ Removed(ids)
    /\ mastery' = [u \in Users |-> Repaired(u, ids)]
    /\ purged' = purged \cup ids
    /\ UNCHANGED <<attempts, informs, lastPoint, misconceptions, km>>
===============================================================================
