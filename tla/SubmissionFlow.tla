---------------------------- MODULE SubmissionFlow ----------------------------
(***************************************************************************)
(* POST /attempt from the client to the agents and back: the bridge, the   *)
(* Coordinator and the domain agents on one event loop.                    *)
(***************************************************************************)
EXTENDS AgentBridge, DomainAgents

CONSTANTS
    FaultyParts,  \* whose behaviours may meet an exception
    MaxFaults     \* bound on the exceptions in one behaviour of the system

ASSUME FaultAssumption ==
    /\ FaultyParts \subseteq {"coordinator", "agents"}
    /\ MaxFaults \in Nat

VARIABLE faults

vars == <<messageVars, bridgeVars, coordinatorVars, agentVars, faults>>

Init ==
    /\ MessagesInit
    /\ BridgeInit
    /\ CoordinatorInit
    /\ AgentsInit
    /\ faults = 0

Bridge(c) ==
    /\ Submit(c) \/ WaitReturns(c) \/ WaitExpires(c)
    /\ UNCHANGED <<ask, routes, inbox, coordinatorVars, agentVars, faults>>

Gateway ==
    /\ GatewayResolve
    /\ UNCHANGED <<ask, routes, inbox, coordinatorVars, agentVars, faults>>

IntakeBehaviour ==
    /\ IntakeReceive \/ IntakeOpen \/ IntakeRefuse
    /\ UNCHANGED <<ask, bridgeVars, agentVars, faults>>

Conversation(c) ==
    /\ FlowStep(c)
    /\ UNCHANGED <<ask, bridgeVars, agentVars, faults>>

Evaluator ==
    /\ EvaluatorStep
    /\ UNCHANGED <<ask, bridgeVars, coordinatorVars, faults>>

KnowledgeModel ==
    /\ KnowledgeUpdate
    /\ UNCHANGED <<ask, bridgeVars, coordinatorVars, faults>>

Gamification ==
    /\ GamificationAward
    /\ UNCHANGED <<ask, bridgeVars, coordinatorVars, faults>>

Recommender ==
    /\ RecommenderReply
    /\ UNCHANGED <<ask, bridgeVars, coordinatorVars, faults>>

CoordinatorFault ==
    /\ "coordinator" \in FaultyParts
    /\ IntakeDies \/ IntakeRefusalFails \/ \E c \in Cids : FlowFails(c)
    /\ UNCHANGED <<ask, bridgeVars, agentVars>>

AgentFault ==
    /\ "agents" \in FaultyParts
    /\ EvaluatorFails \/ EvaluatorFailsInforming \/ KnowledgeFails \/ GamificationFails
    /\ UNCHANGED <<ask, bridgeVars, coordinatorVars>>

Fault ==
    /\ faults < MaxFaults
    /\ faults' = faults + 1
    /\ CoordinatorFault \/ AgentFault

Next ==
    \/ \E c \in Cids : Bridge(c) \/ Conversation(c)
    \/ Gateway \/ IntakeBehaviour \/ Evaluator \/ KnowledgeModel
    \/ Gamification \/ Recommender \/ Fault

Spec == Init /\ [][Next]_vars

(***************************************************************************)
(* Every behaviour is a task of one asyncio loop, so a step that stays     *)
(* enabled is taken, and every timer fires.  Clients owe nothing, and      *)
(* neither do faults.                                                      *)
(***************************************************************************)
Fairness ==
    /\ \A c \in Cids : /\ WF_vars(Bridge(c) /\ http[c] # "idle")
                       /\ WF_vars(Conversation(c))
    /\ WF_vars(Gateway)
    /\ WF_vars(IntakeBehaviour)
    /\ WF_vars(Evaluator)
    /\ WF_vars(KnowledgeModel)
    /\ WF_vars(Gamification)
    /\ WF_vars(Recommender)

FairSpec == Spec /\ Fairness
---------------------------------------------------------------------------
(* Type invariant of the composed system.                                  *)
TypeOK ==
    /\ MessagesTypeOK
    /\ BridgeTypeOK
    /\ CoordinatorTypeOK
    /\ AgentsTypeOK
    /\ faults \in 0..MaxFaults

Rows(c) == {i \in 1..Len(attempts) : attempts[i].by = c}

(* A 200 response reports a committed attempt, and it is an attempt of the *)
(* client's own user on the task the client named, even when the           *)
(* Coordinator picked the row up in _settle (test_coordinator_concurrency: *)
(* nobody receives somebody else's answer).                                *)
AnswerConcernsOwnTask ==
    \A c \in Cids : http[c] = "ok" =>
        /\ shown[c] \in 1..Len(attempts)
        /\ attempts[shown[c]].user = ask[c].user
        /\ attempts[shown[c]].task = ask[c].task

(* Outside _settle the response reports the very row this submission made. *)
AnswerIsOwnUnlessSettled ==
    \A c \in Cids : http[c] = "ok" /\ ~ flow[c].settled => attempts[shown[c]].by = c

(* Errata 69 and 62: a submission answered with plan_unavailable or        *)
(* coordinator_busy leaves no row, now or later.                           *)
RefusalLeavesNoRow ==
    \A c \in Cids : http[c] \in {"plan_unavailable", "coordinator_busy"} =>
        /\ Rows(c) = {}
        /\ c \notin {m.cid : m \in Contents(mail["evaluator"])}

(* However messages are delayed and answers given up on, one submission is *)
(* evaluated and recorded at most once.                                    *)
OneRowPerSubmission ==
    \A i, j \in 1..Len(attempts) : attempts[i].by = attempts[j].by => i = j

(* What reaches the table is what was promised: nothing of a refused        *)
(* submission, and of any other at most one row.                           *)
RowsAsAnswered == RefusalLeavesNoRow /\ OneRowPerSubmission

(* Errata 62: the number of live conversations never passes the limit, and *)
(* every live conversation counts against it until it is released.         *)
FlowLimit ==
    /\ Cardinality(routes) <= MaxFlows
    /\ routes = {c \in Cids : Stage(c) \notin {"none", "refused", "released"}}

(* The fan-in: the Recommender is only asked for a conversation whose own  *)
(* attempt the KnowledgeModel has already committed.                       *)
MasteryBeforeRecommendation ==
    \A m \in Contents(mail["recommender"]) :
        /\ flow[m.cid].attempt \in learned
        /\ attempts[flow[m.cid].attempt].by = m.cid

(* Every accepted conversation ends and gives its place back, whatever     *)
(* exceptions the other agents meet.                                       *)
EveryFlowReleased == \A c \in Cids : c \in routes ~> c \notin routes

(* The Coordinator answers every request by itself, without the route's    *)
(* own timeout: whatever exceptions the other agents meet, and for a task  *)
(* without a row too, which the Evaluator never answers (errata 70).       *)
EveryRequestAnswered == \A c \in Cids : http[c] = "waiting" ~> http[c] \in Outcomes

(* Errata 62: as long as no exception occurs and the UPDATE window never    *)
(* runs out, nothing is lost: a submission of a known task ends in its own *)
(* result or in an explicit refusal.                                       *)
NoSubmissionLost ==
    [](faults = 0 /\ \A c \in Cids : Stage(c) # "SETTLE") =>
        \A c \in Cids : http[c] = "waiting" /\ ask[c].task \in KnownTasks
            ~> \/ http[c] \in {"coordinator_busy", "plan_unavailable"}
               \/ http[c] = "ok" /\ attempts[shown[c]].by = c

Unprocessed == 1..Len(attempts) \ (learned \cap awarded)

(* An exception costs at most the one attempt it meets: apart from one for *)
(* each exception, every committed attempt reaches both downstream agents, *)
(* whether or not its submission is still waited for, and an exception     *)
(* that one attempt met keeps no later one from them.                      *)
EveryAttemptProcessed == <>[](Cardinality(Unprocessed) <= faults)

(* Errata 63, coordinator.py "nothing was written, so the error is true":  *)
(* a submission answered with evaluation_timeout has no row.  VIOLATED.    *)
TimeoutMeansNoRow ==
    \A c \in Cids : http[c] = "evaluation_timeout" => Rows(c) = {}

---------------------------------------------------------------------------
(* Submissions past the last point where a row could be made for them.     *)
Barred ==
    {c \in Cids :
        \/ Stage(c) = "refused"
        \/ /\ Stage(c) \notin {"none", "EVALUATE"}
           /\ c \notin {m.cid : m \in Contents(mail["evaluator"])}
           /\ Rows(c) = {}}

Service == INSTANCE AttemptService WITH
               rows <- attempts, barred <- Barred, reply <- http

(* The whole machinery implements the promise of AttemptService.           *)
ImplementsService == Service!Spec
=============================================================================
