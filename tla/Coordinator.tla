----------------------------- MODULE Coordinator -----------------------------
(***************************************************************************)
(* The Coordinator agent: one intake behaviour and, for every submission   *)
(* it accepts, a finite state machine EVALUATE, UPDATE, RECOMMEND, RESPOND *)
(* of its own.  A state that awaits a message is split where it awaits.    *)
(*                                                                         *)
(* The Coordinator reads the attempts table twice: for the baseline, when  *)
(* it takes a submission in, and in _settle, when model-updated is late.   *)
(***************************************************************************)
EXTENDS TutorMessages

CONSTANTS
    MaxFlows,           \* MAX_CONCURRENT_FLOWS
    UpdateMayExpire,    \* TRUE if the UPDATE window can run out
    RecommendMayExpire  \* TRUE if the RECOMMEND window can run out

ASSUME CoordinatorAssumption ==
    /\ MaxFlows \in Nat
    /\ UpdateMayExpire \in BOOLEAN
    /\ RecommendMayExpire \in BOOLEAN

VARIABLES
    intake,    \* the submission whose baseline has been read: {} or {a record}
    flow,      \* flow[c]: the conversation of c, the fields its states use
    attempts,  \* the attempts table; the index is the id
    listening  \* FALSE once an exception has killed the intake behaviour

coordinatorVars == <<intake, flow, listening>>

Stages == {"none", "refused", "EVALUATE", "UPDATE", "SETTLE", "RECOMMEND",
           "AWAIT-RECOMMENDATION", "RESPOND", "done", "released"}
Errors == {"none", "evaluation_timeout", "plan_unavailable"}
Flow   == [stage : Stages, baseline : Nat, attempt : Nat, settled : BOOLEAN, error : Errors]
Intake == [cid : Cids, baseline : Nat]
Attempt == [by : Cids, user : Users, task : Tasks]

NoFlow == [stage |-> "none", baseline |-> NoAttempt, attempt |-> NoAttempt,
           settled |-> FALSE, error |-> "none"]

(* Mutant: the user is left out of the query.                              *)
RowsForTask(c) == {i \in 1..Len(attempts) : attempts[i].task = ask[c].task}

(* The ids of the rows for the user and the task that c names.             *)
RowsFor(c) ==
    {i \in 1..Len(attempts) : /\ attempts[i].user = ask[c].user
                              /\ attempts[i].task = ask[c].task}

MaxId(ids) == IF ids = {} THEN NoAttempt ELSE CHOOSE i \in ids : \A j \in ids : j <= i

MaxAttemptId(c) == MaxId(RowsFor(c))

(* attempt_since: the newest row for the same user and task past baseline. *)
AttemptSince(c) == MaxId({i \in RowsFor(c) : i > flow[c].baseline})

CoordinatorInit ==
    /\ intake = {}
    /\ flow = [c \in Cids |-> NoFlow]
    /\ attempts = <<>>
    /\ listening = TRUE

Stage(c) == flow[c].stage

(* Mutant: while a conversation is live, a submission counts as stale and  *)
(* is drained (errata 62).                                                 *)
IntakeDrains ==
    /\ listening
    /\ intake = {}
    /\ mail["intake"] # <<>>
    /\ LET c == Head(mail["intake"]).cid
       IN  intake' = IF routes = {} THEN {[cid |-> c, baseline |-> MaxAttemptId(c)]} ELSE {}
    /\ Take("intake")
    /\ UNCHANGED <<routes, inbox, flow, listening>>

(* _Intake.run until the baseline read returns.                            *)
IntakeReceive ==
    /\ listening
    /\ intake = {}
    /\ mail["intake"] # <<>>
    /\ LET c == Head(mail["intake"]).cid
       IN  intake' = {[cid |-> c, baseline |-> MaxAttemptId(c)]}
    /\ Take("intake")
    /\ UNCHANGED <<routes, inbox, flow, listening>>

(* Mutant: the limit is off by one.                                        *)
IntakeOpenOneMore ==
    \E r \in intake :
      /\ r.cid \notin routes
      /\ Cardinality(routes) <= MaxFlows
      /\ routes' = routes \cup {r.cid}
      /\ flow' = [flow EXCEPT ![r.cid].stage = "EVALUATE", ![r.cid].baseline = r.baseline]
      /\ intake' = {}
      /\ UNCHANGED <<mail, inbox, listening>>

(* _open_flow succeeds: a place is reserved and the conversation's         *)
(* behaviour is added under a template bound to its cid.                   *)
IntakeOpen ==
    \E r \in intake :
      /\ r.cid \notin routes
      /\ Cardinality(routes) < MaxFlows
      /\ routes' = routes \cup {r.cid}
      /\ flow' = [flow EXCEPT ![r.cid].stage = "EVALUATE", ![r.cid].baseline = r.baseline]
      /\ intake' = {}
      /\ UNCHANGED <<mail, inbox, listening>>

(* _open_flow fails: _refuse_busy answers at once with coordinator_busy.   *)
IntakeRefuse ==
    \E r \in intake :
      /\ r.cid \in routes \/ Cardinality(routes) >= MaxFlows
      /\ Post("gateway", Msg("coordinator_busy", r.cid, NoAttempt))
      /\ flow' = IF r.cid \in routes THEN flow ELSE [flow EXCEPT ![r.cid].stage = "refused"]
      /\ intake' = {}
      /\ UNCHANGED <<routes, inbox, listening>>

(* max_attempt_id runs outside the try block: a database error there ends  *)
(* the intake behaviour, and no later submission is received.              *)
IntakeDies ==
    /\ listening
    /\ intake = {}
    /\ mail["intake"] # <<>>
    /\ listening' = FALSE
    /\ Take("intake")
    /\ UNCHANGED <<routes, inbox, intake, flow>>

(* _refuse_busy is not guarded either: if its send raises, the refusal is  *)
(* never posted and the intake behaviour ends.                             *)
IntakeRefusalFails ==
    \E r \in intake :
      /\ r.cid \in routes \/ Cardinality(routes) >= MaxFlows
      /\ listening' = FALSE
      /\ intake' = {}
      /\ UNCHANGED <<mail, routes, inbox, flow>>

(* EvaluateState.run.                                                      *)
Evaluate(c) ==
    /\ Stage(c) = "EVALUATE"
    /\ Post("evaluator", Msg("evaluate-query", c, NoAttempt))
    /\ flow' = [flow EXCEPT ![c].stage = "UPDATE"]
    /\ UNCHANGED <<routes, inbox, intake, listening>>

(* UpdateState.run, an inform arrives: it carries the attempt id.          *)
UpdateReceive(c) ==
    /\ Stage(c) = "UPDATE"
    /\ \E m \in inbox[c] :
         /\ m.kind = "model-updated"
         /\ flow' = [flow EXCEPT ![c].stage = "RECOMMEND", ![c].attempt = m.attempt]
         /\ inbox' = [inbox EXCEPT ![c] = @ \ {m}]
    /\ UNCHANGED <<mail, routes, intake, listening>>

(* Mutant: the refuse is passed on under a word the response cannot hold.  *)
UpdateRefusedUnnamed(c) ==
    /\ Stage(c) = "UPDATE"
    /\ \E m \in inbox[c] :
         /\ m.kind = "refuse-model-updated"
         /\ flow' = [flow EXCEPT ![c].stage = "RESPOND", ![c].error = m.kind]
         /\ inbox' = [inbox EXCEPT ![c] = @ \ {m}]
    /\ UNCHANGED <<mail, routes, intake, listening>>

(* UpdateState.run, a refuse arrives: the plan was unavailable.            *)
UpdateRefused(c) ==
    /\ Stage(c) = "UPDATE"
    /\ \E m \in inbox[c] :
         /\ m.kind = "refuse-model-updated"
         /\ flow' = [flow EXCEPT ![c].stage = "RESPOND", ![c].error = "plan_unavailable"]
         /\ inbox' = [inbox EXCEPT ![c] = @ \ {m}]
    /\ UNCHANGED <<mail, routes, intake, listening>>

(* UpdateState.run, the window runs out with nothing in the mailbox.       *)
UpdateExpires(c) ==
    /\ UpdateMayExpire
    /\ Stage(c) = "UPDATE"
    /\ inbox[c] = {}
    /\ flow' = [flow EXCEPT ![c].stage = "SETTLE"]
    /\ UNCHANGED <<mail, routes, inbox, intake, listening>>

(* _settle finds a row: answer with it, ask for no recommendation.         *)
SettleFinds(c) ==
    /\ Stage(c) = "SETTLE"
    /\ AttemptSince(c) # NoAttempt
    /\ flow' = [flow EXCEPT ![c].stage = "RESPOND", ![c].settled = TRUE,
                            ![c].attempt = AttemptSince(c)]
    /\ UNCHANGED <<mail, routes, inbox, intake, listening>>

(* Mutant: _settle has no deadline.                                        *)
SettleWaitsOn(c) ==
    /\ Stage(c) = "SETTLE"
    /\ AttemptSince(c) = NoAttempt
    /\ UNCHANGED <<mail, routes, inbox, intake, flow, listening>>

(* _settle finds none and its deadline has passed: evaluation_timeout.  A  *)
(* check that finds none before the deadline changes nothing.              *)
SettleGivesUp(c) ==
    /\ Stage(c) = "SETTLE"
    /\ AttemptSince(c) = NoAttempt
    /\ flow' = [flow EXCEPT ![c].stage = "RESPOND", ![c].error = "evaluation_timeout"]
    /\ UNCHANGED <<mail, routes, inbox, intake, listening>>

(* RecommendState.run until its await.                                     *)
Recommend(c) ==
    /\ Stage(c) = "RECOMMEND"
    /\ Post("recommender", Msg("recommend-next", c, NoAttempt))
    /\ flow' = [flow EXCEPT ![c].stage = "AWAIT-RECOMMENDATION"]
    /\ UNCHANGED <<routes, inbox, intake, listening>>

RecommendReceive(c) ==
    /\ Stage(c) = "AWAIT-RECOMMENDATION"
    /\ \E m \in inbox[c] :
         /\ m.kind = "recommend-next"
         /\ inbox' = [inbox EXCEPT ![c] = @ \ {m}]
    /\ flow' = [flow EXCEPT ![c].stage = "RESPOND"]
    /\ UNCHANGED <<mail, routes, intake, listening>>

(* The window runs out: the answer goes out without a recommendation.      *)
RecommendExpires(c) ==
    /\ RecommendMayExpire
    /\ Stage(c) = "AWAIT-RECOMMENDATION"
    /\ inbox[c] = {}
    /\ flow' = [flow EXCEPT ![c].stage = "RESPOND"]
    /\ UNCHANGED <<mail, routes, inbox, intake, listening>>

(* Mutant: one error for both.                                             *)
RespondOneError(c) ==
    /\ Stage(c) = "RESPOND"
    /\ Post("gateway", IF flow[c].error # "none"
                       THEN Msg("plan_unavailable", c, NoAttempt)
                       ELSE Msg("ok", c, flow[c].attempt))
    /\ flow' = [flow EXCEPT ![c].stage = "done"]
    /\ UNCHANGED <<routes, inbox, intake, listening>>

(* RespondState.run: an error, or the response built from the database.    *)
Respond(c) ==
    /\ Stage(c) = "RESPOND"
    /\ Post("gateway", IF flow[c].error # "none"
                       THEN Msg(flow[c].error, c, NoAttempt)
                       ELSE Msg("ok", c, flow[c].attempt))
    /\ flow' = [flow EXCEPT ![c].stage = "done"]
    /\ UNCHANGED <<routes, inbox, intake, listening>>

(* An exception in a state's send or in its database read (_settle, the    *)
(* response): SPADE kills the behaviour before the message is out, nothing *)
(* is answered, on_end still runs.                                         *)
FlowFails(c) ==
    /\ Stage(c) \in {"EVALUATE", "SETTLE", "RECOMMEND", "RESPOND"}
    /\ flow' = [flow EXCEPT ![c].stage = "done"]
    /\ UNCHANGED <<mail, routes, inbox, intake, listening>>

(* Mutant: the place in _flows is never given back.                        *)
ReleaseLeaks(c) ==
    /\ Stage(c) = "done"
    /\ flow' = [flow EXCEPT ![c].stage = "released"]
    /\ UNCHANGED <<mail, routes, inbox, intake, listening>>

(* OrchestrationFSM.on_end and _release_flow.                              *)
Release(c) ==
    /\ Stage(c) = "done"
    /\ routes' = routes \ {c}
    /\ inbox' = [inbox EXCEPT ![c] = {}]
    /\ flow' = [flow EXCEPT ![c].stage = "released"]
    /\ UNCHANGED <<mail, intake, listening>>

FlowStep(c) ==
    \/ Evaluate(c) \/ UpdateReceive(c) \/ UpdateRefused(c) \/ UpdateExpires(c)
    \/ SettleFinds(c) \/ SettleGivesUp(c) \/ Recommend(c) \/ RecommendReceive(c)
    \/ RecommendExpires(c) \/ Respond(c) \/ Release(c)

CoordinatorTypeOK ==
    /\ intake \in SUBSET Intake
    /\ flow \in [Cids -> Flow]
    /\ attempts \in Seq(Attempt)
    /\ listening \in BOOLEAN
=============================================================================
