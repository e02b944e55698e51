----------------------------- MODULE DomainAgents -----------------------------
(***************************************************************************)
(* The agents behind the Coordinator, seen from the messages they take and *)
(* send: Evaluator, KnowledgeModel, Gamification and Recommender.  What    *)
(* they compute is the subject of modules of their own; here a database    *)
(* write is the set of attempts it has been made for.                      *)
(*                                                                         *)
(* The Evaluator evaluates and commits without yielding, then sends two    *)
(* informs and yields at each.  The others commit and reply in one step,   *)
(* because no other behaviour can observe them in between.                 *)
(***************************************************************************)
EXTENDS Coordinator

VARIABLES
    informing, \* the committed attempt the Evaluator is announcing: {} or {r}
    learned,   \* attempts whose mastery update is committed
    awarded    \* attempts whose gamification transaction is committed

agentVars == <<attempts, informing, learned, awarded>>

Informing == [cid : Cids, attempt : Nat, next : {"knowledge", "gamification"}]

AgentsInit ==
    /\ informing = {}
    /\ learned = {}
    /\ awarded = {}

Evaluating(c) ==
    /\ informing = {}
    /\ mail["evaluator"] # <<>>
    /\ c = Head(mail["evaluator"]).cid

(* The task has no row: task_not_found goes to the Coordinator under the   *)
(* ontology attempt-result, which no template there matches.               *)
EvaluateUnknownTask(c) ==
    /\ Evaluating(c)
    /\ ask[c].task \notin KnownTasks
    /\ Take("evaluator")
    /\ UNCHANGED <<routes, inbox, agentVars>>

(* Mutant: the refused attempt is recorded all the same (errata 69).       *)
PlanUnavailableRecorded(c) ==
    /\ Evaluating(c)
    /\ ask[c].task \in KnownTasks
    /\ attempts' = Append(attempts, [by |-> c, user |-> ask[c].user, task |-> ask[c].task])
    /\ Take("evaluator")
    /\ Dispatch(Msg("refuse-model-updated", c, NoAttempt))
    /\ UNCHANGED <<routes, informing, learned, awarded>>

(* The plan could not be fetched: refuse(model-updated), and no row.       *)
EvaluatePlanUnavailable(c) ==
    /\ Evaluating(c)
    /\ ask[c].task \in KnownTasks
    /\ Take("evaluator")
    /\ Dispatch(Msg("refuse-model-updated", c, NoAttempt))
    /\ UNCHANGED <<routes, agentVars>>

(* persist_attempt and persist_sqlstate: the row is committed first.       *)
EvaluatePersist(c) ==
    /\ Evaluating(c)
    /\ ask[c].task \in KnownTasks
    /\ attempts' = Append(attempts, [by |-> c, user |-> ask[c].user, task |-> ask[c].task])
    /\ informing' = {[cid |-> c, attempt |-> Len(attempts) + 1, next |-> "knowledge"]}
    /\ Take("evaluator")
    /\ UNCHANGED <<routes, inbox, learned, awarded>>

(* Mutant: only the KnowledgeModel hears of the attempt.                   *)
InformKnowledgeOnly ==
    \E r \in informing :
      /\ Post(r.next, Msg("attempt-result", r.cid, r.attempt))
      /\ informing' = {}
      /\ UNCHANGED <<routes, inbox, attempts, learned, awarded>>

(* The two informs, KnowledgeModel first.                                  *)
EvaluatorInform ==
    \E r \in informing :
      /\ Post(r.next, Msg("attempt-result", r.cid, r.attempt))
      /\ informing' = IF r.next = "knowledge"
                      THEN {[r EXCEPT !.next = "gamification"]} ELSE {}
      /\ UNCHANGED <<routes, inbox, attempts, learned, awarded>>

EvaluatorStep ==
    \/ \E c \in Cids : \/ EvaluateUnknownTask(c)
                       \/ EvaluatePlanUnavailable(c)
                       \/ EvaluatePersist(c)
    \/ EvaluatorInform

(* Mutant: the signal goes out before the commit.                          *)
SignalBeforeCommit ==
    /\ mail["knowledge"] # <<>>
    /\ LET m == Head(mail["knowledge"]) IN Dispatch(Msg("model-updated", m.cid, m.attempt))
    /\ Take("knowledge")
    /\ UNCHANGED <<routes, attempts, informing, learned, awarded>>

(* UpdateBehaviour.run: commit the mastery, then tell the Coordinator.     *)
KnowledgeUpdate ==
    /\ mail["knowledge"] # <<>>
    /\ LET m == Head(mail["knowledge"]) IN
         /\ learned' = learned \cup {m.attempt}
         /\ Dispatch(Msg("model-updated", m.cid, m.attempt))
    /\ Take("knowledge")
    /\ UNCHANGED <<routes, attempts, informing, awarded>>

(* GamificationBehaviour.run: one transaction, no reply.                   *)
GamificationAward ==
    /\ mail["gamification"] # <<>>
    /\ awarded' = awarded \cup {Head(mail["gamification"]).attempt}
    /\ Take("gamification")
    /\ UNCHANGED <<routes, inbox, attempts, informing, learned>>

(* RecommendBehaviour.run: a reply in every case, an exception included.   *)
RecommenderReply ==
    /\ mail["recommender"] # <<>>
    /\ Dispatch(Msg("recommend-next", Head(mail["recommender"]).cid, NoAttempt))
    /\ Take("recommender")
    /\ UNCHANGED <<routes, agentVars>>

---------------------------------------------------------------------------
(* Exceptions that a behaviour catches and logs: the message is consumed   *)
(* and nobody is told.                                                     *)

(* Before the commit (the sandbox or the database is down, or the retries  *)
(* of persist_attempt are exhausted): no row, no reply.                    *)
EvaluatorFails ==
    /\ informing = {}
    /\ mail["evaluator"] # <<>>
    /\ Take("evaluator")
    /\ UNCHANGED <<routes, inbox, agentVars>>

(* After the commit, in persist_sqlstate or in a send: the row stays and   *)
(* the informs not yet sent are never sent.                                *)
EvaluatorFailsInforming ==
    /\ informing # {}
    /\ informing' = {}
    /\ UNCHANGED <<mail, routes, inbox, attempts, learned, awarded>>

(* Before its commit, or after it (the misconception record, the send).    *)
KnowledgeFails ==
    /\ mail["knowledge"] # <<>>
    /\ learned' \in {learned, learned \cup {Head(mail["knowledge"]).attempt}}
    /\ Take("knowledge")
    /\ UNCHANGED <<routes, inbox, attempts, informing, awarded>>

GamificationFails ==
    /\ mail["gamification"] # <<>>
    /\ Take("gamification")
    /\ UNCHANGED <<routes, inbox, agentVars>>

AgentsTypeOK ==
    /\ informing \in SUBSET Informing
    /\ learned \in SUBSET Nat
    /\ awarded \in SUBSET Nat
=============================================================================
