------------------------- MODULE SubmissionFlowProofs -------------------------
(***************************************************************************)
(* For every number of clients, users and tasks and every limit, with any  *)
(* timer running out at any time and any number of exceptions: the types,  *)
(* the limit on conversations, whose attempt an answer may report, what a  *)
(* client is told against the rows of its submission, the flow as an       *)
(* implementation of AttemptService, and when a recommendation is made.    *)
(***************************************************************************)
EXTENDS SubmissionFlow, TLAPS, WellFoundedInduction, FiniteSetTheorems

USE VocabularyAssumption, CoordinatorAssumption

---------------------------------------------------------------------------
(* Lemmas on mailboxes and ids.                                            *)

(* What an append and a removal do to the contents of a mailbox.           *)
LEMMA AppendContents ==
    ASSUME NEW T, NEW q \in Seq(T), NEW m \in T
    PROVE  /\ Append(q, m) \in Seq(T)
           /\ Contents(Append(q, m)) = Contents(q) \cup {m}
<1> DEFINE r == Append(q, m)
<1>1. /\ r \in Seq(T)
      /\ Len(r) = Len(q) + 1
      /\ \A i \in 1..Len(q) : r[i] = q[i]
      /\ r[Len(q) + 1] = m
  OBVIOUS
<1>2. Len(q) \in Nat
  OBVIOUS
<1> HIDE DEF r
<1>3. Contents(r) = Contents(q) \cup {m}
  <2>1. ASSUME NEW x \in Contents(r) PROVE x \in Contents(q) \cup {m}
    <3>1. PICK i \in 1..Len(r) : x = r[i]
      BY <2>1 DEF Contents
    <3>2. CASE i \in 1..Len(q)
      BY <1>1, <3>1, <3>2 DEF Contents
    <3>3. CASE i = Len(q) + 1
      BY <1>1, <3>1, <3>3
    <3> QED
      BY <1>1, <1>2, <3>2, <3>3
  <2>2. ASSUME NEW x \in Contents(q) PROVE x \in Contents(r)
    <3>1. PICK i \in 1..Len(q) : x = q[i]
      BY <2>2 DEF Contents
    <3>2. i \in 1..Len(r) /\ r[i] = x
      BY <1>1, <1>2, <3>1
    <3> QED
      BY <3>2 DEF Contents
  <2>3. m \in Contents(r)
    <3>1. Len(q) + 1 \in 1..Len(r)
      BY <1>1, <1>2
    <3> QED
      BY <1>1, <3>1 DEF Contents
  <2> QED
    BY <2>1, <2>2, <2>3
<1> QED
  BY <1>1, <1>3 DEF r

LEMMA TailContents ==
    ASSUME NEW T, NEW q \in Seq(T), q # <<>>
    PROVE  /\ Tail(q) \in Seq(T)
           /\ Head(q) \in T
           /\ Head(q) \in Contents(q)
           /\ Contents(Tail(q)) \subseteq Contents(q)
<1>1. /\ Tail(q) \in Seq(T)
      /\ Head(q) \in T
      /\ Head(q) = q[1]
      /\ Len(q) \in Nat
      /\ Len(q) >= 1
      /\ Len(Tail(q)) = Len(q) - 1
      /\ \A i \in 1..Len(Tail(q)) : Tail(q)[i] = q[i + 1]
  OBVIOUS
<1>2. Head(q) \in Contents(q)
  BY <1>1 DEF Contents
<1>3. ASSUME NEW x \in Contents(Tail(q)) PROVE x \in Contents(q)
  <2>1. PICK i \in 1..Len(Tail(q)) : x = Tail(q)[i]
    BY <1>3 DEF Contents
  <2>2. i + 1 \in 1..Len(q) /\ x = q[i + 1]
    BY <1>1, <2>1
  <2> QED
    BY <2>2 DEF Contents
<1> QED
  BY <1>1, <1>2, <1>3

(* The newest of the ids in a set is one of them.                          *)
LEMMA MaxIdInSet ==
    ASSUME NEW n \in Nat, NEW S \in SUBSET (1..n), S # {}
    PROVE  MaxId(S) \in S
<1> DEFINE D == {n - i : i \in S}
<1>1. D \subseteq Nat /\ D # {}
  <2>1. \A i \in S : n - i \in Nat
    OBVIOUS
  <2>2. D \subseteq Nat
    BY <2>1
  <2>3. PICK i \in S : TRUE
    OBVIOUS
  <2>4. n - i \in D
    BY <2>3
  <2> QED
    BY <2>2, <2>4
<1>2. PICK x \in D : \A y \in D : ~ (<<y, x>> \in OpToRel(<, Nat))
  BY <1>1, NatLessThanWellFounded, WFMin
<1>3. \A y \in D : x <= y
  <2> SUFFICES ASSUME NEW y \in D PROVE x <= y
    OBVIOUS
  <2>1. x \in Nat /\ y \in Nat
    BY <1>1
  <2>2. <<y, x>> \in Nat \X Nat
    BY <2>1
  <2>3. <<y, x>> \notin OpToRel(<, Nat)
    BY <1>2
  <2>4. ~ (y < x)
    <3> DEFINE p == <<y, x>>
    <3>1. p[1] = y /\ p[2] = x
      OBVIOUS
    <3>2. SUFFICES ASSUME y < x PROVE FALSE
      OBVIOUS
    <3>3. p \in {ss \in Nat \X Nat : ss[1] < ss[2]}
      BY <2>2, <3>1, <3>2
    <3> QED
      BY <2>3, <3>3 DEF OpToRel
  <2> QED
    BY <2>1, <2>4
<1>4. PICK i \in S : x = n - i
  OBVIOUS
<1>5. \A j \in S : j <= i
  <2> TAKE j \in S
  <2>1. x <= n - j
    BY <1>3
  <2> QED
    BY <1>4, <2>1
<1> QED
  BY <1>5 DEF MaxId

LEMMA RowsForIds == \A c \in Cids : RowsFor(c) \subseteq 1..Len(attempts)
BY DEF RowsFor

LEMMA MaxAttemptIdType ==
    ASSUME attempts \in Seq(Attempt), NEW c \in Cids
    PROVE  MaxAttemptId(c) \in Nat
<1>1. Len(attempts) \in Nat
  OBVIOUS
<1>2. CASE RowsFor(c) = {}
  BY <1>2 DEF MaxAttemptId, MaxId, NoAttempt
<1>3. CASE RowsFor(c) # {}
  <2>1. MaxId(RowsFor(c)) \in RowsFor(c)
    BY <1>1, <1>3, MaxIdInSet, RowsForIds
  <2> QED
    BY <1>1, <2>1, RowsForIds DEF MaxAttemptId
<1> QED
  BY <1>2, <1>3

(* A row that _settle finds is one of the submission's user and task.      *)
LEMMA AttemptSinceIsRow ==
    ASSUME attempts \in Seq(Attempt), NEW c \in Cids, AttemptSince(c) # NoAttempt
    PROVE  AttemptSince(c) \in RowsFor(c)
<1> DEFINE S == {i \in RowsFor(c) : i > flow[c].baseline}
<1>1. Len(attempts) \in Nat
  OBVIOUS
<1>2. S # {}
  BY DEF AttemptSince, MaxId
<1>3. S \in SUBSET (1..Len(attempts))
  BY RowsForIds
<1>4. MaxId(S) \in S
  BY <1>1, <1>2, <1>3, MaxIdInSet
<1> QED
  BY <1>4 DEF AttemptSince
---------------------------------------------------------------------------
(* Type correctness.                                                       *)

LEMMA MsgType ==
    ASSUME NEW k \in MessageKinds, NEW c \in Cids, NEW a \in Nat
    PROVE  /\ Msg(k, c, a) \in Message
           /\ Msg(k, c, a).kind = k /\ Msg(k, c, a).cid = c /\ Msg(k, c, a).attempt = a
BY DEF Msg, Message

LEMMA PostType ==
    ASSUME MessagesTypeOK, NEW a \in Agents, NEW m \in Message, Post(a, m)
    PROVE  /\ mail' \in [Agents -> Seq(Message)]
           /\ Contents(mail'[a]) = Contents(mail[a]) \cup {m}
           /\ \A b \in Agents \ {a} : mail'[b] = mail[b]
<1>1. mail \in [Agents -> Seq(Message)] /\ mail[a] \in Seq(Message)
  BY DEF MessagesTypeOK
<1>2. /\ Append(mail[a], m) \in Seq(Message)
      /\ Contents(Append(mail[a], m)) = Contents(mail[a]) \cup {m}
  BY <1>1, AppendContents
<1> QED
  BY <1>1, <1>2 DEF Post

LEMMA TakeType ==
    ASSUME MessagesTypeOK, NEW a \in Agents, mail[a] # <<>>, Take(a)
    PROVE  /\ mail' \in [Agents -> Seq(Message)]
           /\ Head(mail[a]) \in Contents(mail[a]) /\ Head(mail[a]) \in Message
           /\ \A b \in Agents : Contents(mail'[b]) \subseteq Contents(mail[b])
           /\ \A b \in Agents \ {a} : mail'[b] = mail[b]
<1>1. mail \in [Agents -> Seq(Message)] /\ mail[a] \in Seq(Message)
  BY DEF MessagesTypeOK
<1>2. /\ Tail(mail[a]) \in Seq(Message)
      /\ Head(mail[a]) \in Message /\ Head(mail[a]) \in Contents(mail[a])
      /\ Contents(Tail(mail[a])) \subseteq Contents(mail[a])
  BY <1>1, TailContents
<1> QED
  BY <1>1, <1>2 DEF Take

LEMMA DispatchType ==
    ASSUME MessagesTypeOK, NEW m \in Message, Dispatch(m)
    PROVE  /\ inbox' \in [Cids -> SUBSET Message]
           /\ \A c \in Cids : \A x \in inbox'[c] : x \in inbox[c] \/ (x = m /\ c = m.cid)
BY DEF MessagesTypeOK, Dispatch, Message

LEMMA InitType == Init => TypeOK
<1> SUFFICES ASSUME Init PROVE TypeOK
  OBVIOUS
<1> USE DEF Init, MessagesInit, BridgeInit, CoordinatorInit, AgentsInit
<1>1. MessagesTypeOK
  BY DEF MessagesTypeOK
<1>2. BridgeTypeOK
  <2>1. mail["gateway"] = <<>>
    BY DEF Agents
  <2>2. Contents(mail["gateway"]) = {}
    BY <2>1 DEF Contents
  <2> QED
    BY <2>2 DEF BridgeTypeOK, HttpState, NoAttempt
<1>3. CoordinatorTypeOK
  BY DEF CoordinatorTypeOK, Flow, NoFlow, Stages, Errors, NoAttempt
<1>4. AgentsTypeOK
  BY DEF AgentsTypeOK
<1> QED
  BY <1>1, <1>2, <1>3, <1>4, FaultAssumption DEF TypeOK

(* The HTTP side. *)
LEMMA BridgeType ==
    ASSUME TypeOK, NEW c \in Cids, Bridge(c)
    PROVE  TypeOK'
<1> USE DEF TypeOK
<1>1. CoordinatorTypeOK' /\ AgentsTypeOK' /\ faults' \in 0..MaxFaults
  BY DEF Bridge, CoordinatorTypeOK, AgentsTypeOK, coordinatorVars, agentVars
<1>2. ask' = ask /\ routes' = routes /\ inbox' = inbox
  BY DEF Bridge
<1>3. CASE Submit(c)
  <2>1. Msg("submit-attempt", c, NoAttempt) \in Message
    BY MsgType DEF MessageKinds, NoAttempt
  <2>2. mail' \in [Agents -> Seq(Message)] /\ mail'["gateway"] = mail["gateway"]
    BY <1>3, <2>1, PostType DEF Submit, Agents
  <2> QED
    BY <1>1, <1>2, <1>3, <2>2 DEF Submit, MessagesTypeOK, BridgeTypeOK, HttpState
<1>4. CASE WaitReturns(c)
  <2>1. PICK m \in result[c] : /\ http' = [http EXCEPT ![c] = m.kind]
                               /\ shown' = [shown EXCEPT ![c] = m.attempt]
    BY <1>4 DEF WaitReturns
  <2>2. m \in Answer
    BY <2>1 DEF BridgeTypeOK
  <2>3. m.kind \in HttpState /\ m.attempt \in Nat
    BY <2>2 DEF Answer, HttpState, Outcomes
  <2> QED
    BY <1>1, <1>2, <1>4, <2>1, <2>3 DEF WaitReturns, MessagesTypeOK, BridgeTypeOK
<1>5. CASE WaitExpires(c)
  BY <1>1, <1>2, <1>5 DEF WaitExpires, MessagesTypeOK, BridgeTypeOK, HttpState, Outcomes
<1> QED
  BY <1>3, <1>4, <1>5 DEF Bridge

LEMMA GatewayType ==
    ASSUME TypeOK, Gateway
    PROVE  TypeOK'
<1> USE DEF TypeOK
<1>1. CoordinatorTypeOK' /\ AgentsTypeOK' /\ faults' \in 0..MaxFaults
  BY DEF Gateway, CoordinatorTypeOK, AgentsTypeOK, coordinatorVars, agentVars
<1>2. ask' = ask /\ routes' = routes /\ inbox' = inbox
  BY DEF Gateway
<1>3. mail["gateway"] # <<>> /\ Take("gateway") /\ "gateway" \in Agents
  BY DEF Gateway, GatewayResolve, Agents
<1> DEFINE m == Head(mail["gateway"])
<1>4. /\ mail' \in [Agents -> Seq(Message)]
      /\ m \in Contents(mail["gateway"])
      /\ Contents(mail'["gateway"]) \subseteq Contents(mail["gateway"])
  BY <1>3, TakeType
<1>5. m \in Answer
  BY <1>4 DEF BridgeTypeOK
<1> HIDE DEF m
<1>6. result' \in [Cids -> SUBSET Answer]
  <2>1. result' = result \/ result' = [result EXCEPT ![m.cid] = {m}]
    BY DEF Gateway, GatewayResolve, m
  <2>2. m.cid \in Cids
    BY <1>5 DEF Answer
  <2> QED
    BY <1>5, <2>1, <2>2 DEF BridgeTypeOK
<1> QED
  BY <1>1, <1>2, <1>4, <1>6
     DEF Gateway, GatewayResolve, MessagesTypeOK, BridgeTypeOK

(* A step of the Coordinator: what remains to show once the variables of   *)
(* the other components are known not to change.                           *)
LEMMA CoordinatorFrame ==
    ASSUME TypeOK, UNCHANGED <<ask, bridgeVars, agentVars>>, faults' \in 0..MaxFaults,
           routes' \in SUBSET Cids,
           inbox' \in [Cids -> SUBSET Message],
           intake' \in SUBSET Intake,
           flow' \in [Cids -> Flow],
           listening' \in BOOLEAN,
           mail' \in [Agents -> Seq(Message)],
           Contents(mail'["gateway"]) \subseteq Answer
    PROVE  TypeOK'
BY DEF TypeOK, MessagesTypeOK, BridgeTypeOK, CoordinatorTypeOK, AgentsTypeOK,
       bridgeVars, agentVars

LEMMA IntakeType ==
    ASSUME TypeOK, IntakeBehaviour
    PROVE  TypeOK'
<1> USE DEF TypeOK, CoordinatorTypeOK
<1>1. /\ UNCHANGED <<ask, bridgeVars, agentVars>>
      /\ faults' \in 0..MaxFaults
  BY DEF IntakeBehaviour
<1>2. /\ mail \in [Agents -> Seq(Message)] /\ routes \in SUBSET Cids
      /\ inbox \in [Cids -> SUBSET Message]
      /\ Contents(mail["gateway"]) \subseteq Answer
  BY DEF MessagesTypeOK, BridgeTypeOK
<1>3. CASE IntakeReceive
  <2>1. mail["intake"] # <<>> /\ Take("intake") /\ "intake" \in Agents /\ "gateway" \in Agents
    BY <1>3 DEF IntakeReceive, Agents
  <2>2. /\ mail' \in [Agents -> Seq(Message)]
        /\ Head(mail["intake"]) \in Message
        /\ Contents(mail'["gateway"]) \subseteq Contents(mail["gateway"])
    BY <2>1, TakeType
  <2>3. intake' \in SUBSET Intake
    <3> DEFINE c == Head(mail["intake"]).cid
    <3>1. c \in Cids
      BY <2>2 DEF Message
    <3>2. MaxAttemptId(c) \in Nat
      BY <3>1, MaxAttemptIdType
    <3>3. intake' = {[cid |-> c, baseline |-> MaxAttemptId(c)]}
      BY <1>3 DEF IntakeReceive
    <3> QED
      BY <3>1, <3>2, <3>3 DEF Intake
  <2> QED
    BY <1>1, <1>2, <1>3, <2>2, <2>3, CoordinatorFrame DEF IntakeReceive
<1>4. CASE IntakeOpen
  <2>1. PICK r \in intake :
          /\ routes' = routes \cup {r.cid}
          /\ flow' = [flow EXCEPT ![r.cid].stage = "EVALUATE", ![r.cid].baseline = r.baseline]
          /\ intake' = {}
          /\ UNCHANGED <<mail, inbox, listening>>
    BY <1>4 DEF IntakeOpen
  <2>2. r.cid \in Cids /\ r.baseline \in Nat
    BY <2>1 DEF Intake
  <2>3. flow' \in [Cids -> Flow]
    BY <2>1, <2>2 DEF Flow, Stages
  <2> QED
    BY <1>1, <1>2, <2>1, <2>2, <2>3, CoordinatorFrame
<1>5. CASE IntakeRefuse
  <2>1. PICK r \in intake :
          /\ Post("gateway", Msg("coordinator_busy", r.cid, NoAttempt))
          /\ flow' = IF r.cid \in routes THEN flow ELSE [flow EXCEPT ![r.cid].stage = "refused"]
          /\ intake' = {}
          /\ UNCHANGED <<routes, inbox, listening>>
    BY <1>5 DEF IntakeRefuse
  <2>2. r.cid \in Cids
    BY <2>1 DEF Intake
  <2> DEFINE m == Msg("coordinator_busy", r.cid, NoAttempt)
  <2>3. m \in Message /\ m \in Answer
    BY <2>2 DEF Msg, Message, MessageKinds, Answer, AnswerKinds, NoAttempt
  <2> HIDE DEF m
  <2>4. /\ mail' \in [Agents -> Seq(Message)]
        /\ Contents(mail'["gateway"]) \subseteq Answer
    BY <1>2, <2>1, <2>3, PostType DEF Agents, m
  <2>5. flow' \in [Cids -> Flow]
    BY <2>1, <2>2 DEF Flow, Stages
  <2> QED
    BY <1>1, <1>2, <2>1, <2>4, <2>5, CoordinatorFrame
<1> QED
  BY <1>3, <1>4, <1>5 DEF IntakeBehaviour

LEMMA ConversationType ==
    ASSUME TypeOK, NEW c \in Cids, Conversation(c)
    PROVE  TypeOK'
<1> USE DEF TypeOK, CoordinatorTypeOK
<1>1. /\ UNCHANGED <<ask, bridgeVars, agentVars>>
      /\ faults' \in 0..MaxFaults
  BY DEF Conversation
<1>2. /\ mail \in [Agents -> Seq(Message)] /\ routes \in SUBSET Cids
      /\ inbox \in [Cids -> SUBSET Message]
      /\ Contents(mail["gateway"]) \subseteq Answer
  BY DEF MessagesTypeOK, BridgeTypeOK
<1>3. CASE Evaluate(c)
  <2>1. Msg("evaluate-query", c, NoAttempt) \in Message
    BY MsgType DEF MessageKinds, NoAttempt
  <2>2. mail' \in [Agents -> Seq(Message)] /\ mail'["gateway"] = mail["gateway"]
    BY <1>3, <2>1, PostType DEF Evaluate, Agents
  <2>3. flow' \in [Cids -> Flow]
    BY <1>3 DEF Evaluate, Flow, Stages
  <2> QED
    BY <1>1, <1>2, <1>3, <2>2, <2>3, CoordinatorFrame DEF Evaluate
<1>4. CASE UpdateReceive(c)
  <2>1. PICK m \in inbox[c] :
          /\ flow' = [flow EXCEPT ![c].stage = "RECOMMEND", ![c].attempt = m.attempt]
          /\ inbox' = [inbox EXCEPT ![c] = @ \ {m}]
    BY <1>4 DEF UpdateReceive
  <2>2. m.attempt \in Nat
    BY <1>2, <2>1 DEF Message
  <2>3. flow' \in [Cids -> Flow]
    BY <2>1, <2>2 DEF Flow, Stages
  <2> QED
    BY <1>1, <1>2, <1>4, <2>1, <2>3, CoordinatorFrame DEF UpdateReceive
<1>5. CASE UpdateRefused(c)
  <2>1. /\ flow' = [flow EXCEPT ![c].stage = "RESPOND", ![c].error = "plan_unavailable"]
        /\ inbox' \in [Cids -> SUBSET Message]
    BY <1>2, <1>5 DEF UpdateRefused
  <2>2. flow' \in [Cids -> Flow]
    <3>1. flow' = [flow EXCEPT ![c] =
                     [flow[c] EXCEPT !.stage = "RESPOND", !.error = "plan_unavailable"]]
      BY <2>1
    <3>2. [flow[c] EXCEPT !.stage = "RESPOND", !.error = "plan_unavailable"] \in Flow
      BY DEF Flow, Stages, Errors
    <3> QED
      BY <3>1, <3>2
  <2> QED
    BY <1>1, <1>2, <1>5, <2>1, <2>2, CoordinatorFrame DEF UpdateRefused
<1>6. CASE UpdateExpires(c)
  <2>1. flow' \in [Cids -> Flow]
    BY <1>6 DEF UpdateExpires, Flow, Stages
  <2> QED
    BY <1>1, <1>2, <1>6, <2>1, CoordinatorFrame DEF UpdateExpires
<1>7. CASE SettleFinds(c)
  <2>1. AttemptSince(c) \in Nat
    BY <1>7, AttemptSinceIsRow DEF SettleFinds, RowsFor
  <2>2. flow' \in [Cids -> Flow]
    <3> DEFINE a == AttemptSince(c)
    <3>1. flow' = [flow EXCEPT ![c].stage = "RESPOND", ![c].settled = TRUE, ![c].attempt = a]
      BY <1>7 DEF SettleFinds
    <3>2. a \in Nat
      BY <2>1
    <3> HIDE DEF a
    <3>3. flow' = [flow EXCEPT ![c] = [flow[c] EXCEPT !.stage = "RESPOND", !.settled = TRUE,
                                                      !.attempt = a]]
      BY <3>1
    <3>4. [flow[c] EXCEPT !.stage = "RESPOND", !.settled = TRUE, !.attempt = a] \in Flow
      BY <3>2 DEF Flow, Stages
    <3> QED
      BY <3>3, <3>4
  <2> QED
    BY <1>1, <1>2, <1>7, <2>2, CoordinatorFrame DEF SettleFinds
<1>8. CASE SettleGivesUp(c)
  <2>1. flow' \in [Cids -> Flow]
    <3>1. flow' = [flow EXCEPT ![c] =
                     [flow[c] EXCEPT !.stage = "RESPOND", !.error = "evaluation_timeout"]]
      BY <1>8 DEF SettleGivesUp
    <3>2. [flow[c] EXCEPT !.stage = "RESPOND", !.error = "evaluation_timeout"] \in Flow
      BY DEF Flow, Stages, Errors
    <3> QED
      BY <3>1, <3>2
  <2> QED
    BY <1>1, <1>2, <1>8, <2>1, CoordinatorFrame DEF SettleGivesUp
<1>9. CASE Recommend(c)
  <2>1. Msg("recommend-next", c, NoAttempt) \in Message
    BY MsgType DEF MessageKinds, FlowKinds, NoAttempt
  <2>2. mail' \in [Agents -> Seq(Message)] /\ mail'["gateway"] = mail["gateway"]
    BY <1>9, <2>1, PostType DEF Recommend, Agents
  <2>3. flow' \in [Cids -> Flow]
    BY <1>9 DEF Recommend, Flow, Stages
  <2> QED
    BY <1>1, <1>2, <1>9, <2>2, <2>3, CoordinatorFrame DEF Recommend
<1>10. CASE RecommendReceive(c)
  <2>1. flow' \in [Cids -> Flow]
    BY <1>10 DEF RecommendReceive, Flow, Stages
  <2> QED
    BY <1>1, <1>2, <1>10, <2>1, CoordinatorFrame DEF RecommendReceive
<1>11. CASE RecommendExpires(c)
  <2>1. flow' \in [Cids -> Flow]
    BY <1>11 DEF RecommendExpires, Flow, Stages
  <2> QED
    BY <1>1, <1>2, <1>11, <2>1, CoordinatorFrame DEF RecommendExpires
<1>12. CASE Respond(c)
  <2> DEFINE m == IF flow[c].error # "none" THEN Msg(flow[c].error, c, NoAttempt)
                                            ELSE Msg("ok", c, flow[c].attempt)
  <2>1. flow[c].error \in Errors /\ flow[c].attempt \in Nat
    BY DEF Flow
  <2>2. m \in Message /\ m \in Answer
    BY <2>1 DEF Msg, Message, MessageKinds, Answer, AnswerKinds, NoAttempt, Errors
  <2>3. Post("gateway", m)
    BY <1>12 DEF Respond
  <2> HIDE DEF m
  <2>4. /\ mail' \in [Agents -> Seq(Message)]
        /\ Contents(mail'["gateway"]) \subseteq Answer
    BY <1>2, <2>2, <2>3, PostType DEF Agents
  <2>5. flow' \in [Cids -> Flow]
    BY <1>12 DEF Respond, Flow, Stages
  <2> QED
    BY <1>1, <1>2, <1>12, <2>4, <2>5, CoordinatorFrame DEF Respond
<1>13. CASE Release(c)
  <2>1. flow' \in [Cids -> Flow]
    BY <1>13 DEF Release, Flow, Stages
  <2> QED
    BY <1>1, <1>2, <1>13, <2>1, CoordinatorFrame DEF Release
<1> QED
  BY <1>3, <1>4, <1>5, <1>6, <1>7, <1>8, <1>9, <1>10, <1>11, <1>12, <1>13
     DEF Conversation, FlowStep

(* A step of the domain agents, likewise.                                  *)
LEMMA AgentsFrame ==
    ASSUME TypeOK, UNCHANGED <<ask, routes, bridgeVars, coordinatorVars>>,
           faults' \in 0..MaxFaults,
           inbox' \in [Cids -> SUBSET Message],
           attempts' \in Seq(Attempt),
           informing' \in SUBSET Informing,
           learned' \in SUBSET Nat,
           awarded' \in SUBSET Nat,
           mail' \in [Agents -> Seq(Message)],
           Contents(mail'["gateway"]) \subseteq Answer
    PROVE  TypeOK'
BY DEF TypeOK, MessagesTypeOK, BridgeTypeOK, CoordinatorTypeOK, AgentsTypeOK,
       bridgeVars, coordinatorVars

(* An agent that only takes a message leaves the answers alone.            *)
LEMMA TakeFrame ==
    ASSUME TypeOK, NEW a \in Agents \ {"gateway"}, mail[a] # <<>>, Take(a)
    PROVE  /\ mail' \in [Agents -> Seq(Message)]
           /\ Contents(mail'["gateway"]) \subseteq Answer
           /\ Head(mail[a]) \in Message
<1>1. MessagesTypeOK /\ Contents(mail["gateway"]) \subseteq Answer
  BY DEF TypeOK, BridgeTypeOK
<1>2. "gateway" \in Agents
  BY DEF Agents
<1> QED
  BY <1>1, <1>2, TakeType

LEMMA EvaluatorType ==
    ASSUME TypeOK, Evaluator
    PROVE  TypeOK'
<1> USE DEF TypeOK, AgentsTypeOK
<1>1. /\ UNCHANGED <<ask, bridgeVars, coordinatorVars>>
      /\ faults' \in 0..MaxFaults
  BY DEF Evaluator
<1>2. /\ MessagesTypeOK
      /\ mail \in [Agents -> Seq(Message)] /\ inbox \in [Cids -> SUBSET Message]
      /\ Contents(mail["gateway"]) \subseteq Answer
      /\ attempts \in Seq(Attempt)
      /\ ask \in [Cids -> [user : Users, task : Tasks]]
  BY DEF MessagesTypeOK, BridgeTypeOK, CoordinatorTypeOK
<1>3. "evaluator" \in Agents \ {"gateway"}
  BY DEF Agents
<1>4. ASSUME NEW c \in Cids, EvaluateUnknownTask(c) PROVE TypeOK'
  <2>1. mail["evaluator"] # <<>> /\ Take("evaluator")
    BY <1>4 DEF EvaluateUnknownTask, Evaluating
  <2> QED
    BY <1>1, <1>2, <1>3, <1>4, <2>1, TakeFrame, AgentsFrame
       DEF EvaluateUnknownTask, agentVars
<1>5. ASSUME NEW c \in Cids, EvaluatePlanUnavailable(c) PROVE TypeOK'
  <2>1. mail["evaluator"] # <<>> /\ Take("evaluator")
    BY <1>5 DEF EvaluatePlanUnavailable, Evaluating
  <2>2. Msg("refuse-model-updated", c, NoAttempt) \in Message
    BY MsgType DEF MessageKinds, FlowKinds, NoAttempt
  <2>3. inbox' \in [Cids -> SUBSET Message]
    BY <1>2, <1>5, <2>2, DispatchType DEF EvaluatePlanUnavailable
  <2> QED
    BY <1>1, <1>2, <1>3, <1>5, <2>1, <2>3, TakeFrame, AgentsFrame
       DEF EvaluatePlanUnavailable, agentVars
<1>6. ASSUME NEW c \in Cids, EvaluatePersist(c) PROVE TypeOK'
  <2>1. mail["evaluator"] # <<>> /\ Take("evaluator")
    BY <1>6 DEF EvaluatePersist, Evaluating
  <2>2. attempts' \in Seq(Attempt)
    <3>1. [by |-> c, user |-> ask[c].user, task |-> ask[c].task] \in Attempt
      BY <1>2 DEF Attempt
    <3> QED
      BY <1>2, <1>6, <3>1 DEF EvaluatePersist
  <2>3. informing' \in SUBSET Informing
    <3>1. Len(attempts) + 1 \in Nat
      BY <1>2
    <3> QED
      BY <1>6, <3>1 DEF EvaluatePersist, Informing
  <2> QED
    BY <1>1, <1>2, <1>3, <1>6, <2>1, <2>2, <2>3, TakeFrame, AgentsFrame
       DEF EvaluatePersist
<1>7. CASE EvaluatorInform
  <2>1. PICK r \in informing :
          /\ Post(r.next, Msg("attempt-result", r.cid, r.attempt))
          /\ informing' = IF r.next = "knowledge"
                          THEN {[r EXCEPT !.next = "gamification"]} ELSE {}
          /\ UNCHANGED <<routes, inbox, attempts, learned, awarded>>
    BY <1>7 DEF EvaluatorInform
  <2>2. /\ r.cid \in Cids /\ r.attempt \in Nat
        /\ r.next \in Agents \ {"gateway"} /\ r \in Informing
    BY <2>1 DEF Informing, Agents
  <2>3. Msg("attempt-result", r.cid, r.attempt) \in Message
    BY <2>2, MsgType DEF MessageKinds
  <2>4. mail' \in [Agents -> Seq(Message)] /\ mail'["gateway"] = mail["gateway"]
    BY <1>2, <2>1, <2>2, <2>3, PostType DEF Agents
  <2>5. informing' \in SUBSET Informing
    BY <2>1, <2>2 DEF Informing
  <2> QED
    BY <1>1, <1>2, <2>1, <2>4, <2>5, AgentsFrame
<1> QED
  BY <1>4, <1>5, <1>6, <1>7 DEF Evaluator, EvaluatorStep

LEMMA DownstreamType ==
    ASSUME TypeOK, KnowledgeModel \/ Gamification \/ Recommender
    PROVE  TypeOK'
<1> USE DEF TypeOK, AgentsTypeOK
<1>1. /\ UNCHANGED <<ask, routes, bridgeVars, coordinatorVars>>
      /\ faults' \in 0..MaxFaults
  BY DEF KnowledgeModel, Gamification, Recommender,
         KnowledgeUpdate, GamificationAward, RecommenderReply
<1>2. /\ MessagesTypeOK
      /\ inbox \in [Cids -> SUBSET Message]
      /\ attempts \in Seq(Attempt)
  BY DEF MessagesTypeOK, CoordinatorTypeOK
<1>3. {"knowledge", "gamification", "recommender"} \subseteq Agents \ {"gateway"}
  BY DEF Agents
<1>4. CASE KnowledgeModel
  <2> DEFINE m == Head(mail["knowledge"])
  <2>1. mail["knowledge"] # <<>> /\ Take("knowledge")
    BY <1>4 DEF KnowledgeModel, KnowledgeUpdate
  <2>2. m \in Message /\ m.cid \in Cids /\ m.attempt \in Nat
    <3>1. m \in Message
      BY <1>3, <2>1, TakeFrame
    <3> QED
      BY <3>1 DEF Message
  <2>3. Msg("model-updated", m.cid, m.attempt) \in Message
    BY <2>2, MsgType DEF MessageKinds, FlowKinds
  <2>4. inbox' \in [Cids -> SUBSET Message] /\ learned' \in SUBSET Nat
    BY <1>2, <1>4, <2>2, <2>3, DispatchType DEF KnowledgeModel, KnowledgeUpdate
  <2> QED
    BY <1>1, <1>2, <1>3, <1>4, <2>1, <2>4, TakeFrame, AgentsFrame
       DEF KnowledgeModel, KnowledgeUpdate
<1>5. CASE Gamification
  <2>1. mail["gamification"] # <<>> /\ Take("gamification")
    BY <1>5 DEF Gamification, GamificationAward
  <2>2. Head(mail["gamification"]) \in Message
    BY <1>3, <2>1, TakeFrame
  <2>3. awarded' \in SUBSET Nat
    BY <1>5, <2>2 DEF Gamification, GamificationAward, Message
  <2> QED
    BY <1>1, <1>2, <1>3, <1>5, <2>1, <2>3, TakeFrame, AgentsFrame
       DEF Gamification, GamificationAward
<1>6. CASE Recommender
  <2> DEFINE m == Head(mail["recommender"])
  <2>1. mail["recommender"] # <<>> /\ Take("recommender")
    BY <1>6 DEF Recommender, RecommenderReply
  <2>2. m.cid \in Cids
    <3>1. m \in Message
      BY <1>3, <2>1, TakeFrame
    <3> QED
      BY <3>1 DEF Message
  <2>3. Msg("recommend-next", m.cid, NoAttempt) \in Message
    BY <2>2, MsgType DEF MessageKinds, FlowKinds, NoAttempt
  <2>4. inbox' \in [Cids -> SUBSET Message]
    BY <1>2, <1>6, <2>3, DispatchType DEF Recommender, RecommenderReply
  <2> QED
    BY <1>1, <1>2, <1>3, <1>6, <2>1, <2>4, TakeFrame, AgentsFrame
       DEF Recommender, RecommenderReply, agentVars
<1> QED
  BY <1>4, <1>5, <1>6

LEMMA FaultType ==
    ASSUME TypeOK, Fault
    PROVE  TypeOK'
<1> USE DEF TypeOK
<1>1. UNCHANGED <<ask, bridgeVars>> /\ faults' \in 0..MaxFaults
  BY FaultAssumption DEF Fault, CoordinatorFault, AgentFault
<1>2. /\ MessagesTypeOK /\ mail \in [Agents -> Seq(Message)]
      /\ inbox \in [Cids -> SUBSET Message] /\ routes \in SUBSET Cids
      /\ Contents(mail["gateway"]) \subseteq Answer
      /\ attempts \in Seq(Attempt) /\ flow \in [Cids -> Flow]
      /\ intake \in SUBSET Intake /\ listening \in BOOLEAN
      /\ informing \in SUBSET Informing /\ learned \in SUBSET Nat /\ awarded \in SUBSET Nat
  BY DEF MessagesTypeOK, BridgeTypeOK, CoordinatorTypeOK, AgentsTypeOK
<1>3. {"intake", "evaluator", "knowledge", "gamification"} \subseteq Agents \ {"gateway"}
  BY DEF Agents
<1>4. CASE CoordinatorFault
  <2>1. CASE IntakeDies
    BY <1>1, <1>2, <1>3, <1>4, <2>1, TakeFrame, CoordinatorFrame
       DEF CoordinatorFault, IntakeDies
  <2>3. CASE IntakeRefusalFails
    BY <1>1, <1>2, <1>4, <2>3, CoordinatorFrame DEF CoordinatorFault, IntakeRefusalFails
  <2>2. ASSUME NEW c \in Cids, FlowFails(c) PROVE TypeOK'
    <3>1. flow' \in [Cids -> Flow]
      BY <1>2, <2>2 DEF FlowFails, Flow, Stages
    <3> QED
      BY <1>1, <1>2, <1>4, <2>2, <3>1, CoordinatorFrame DEF CoordinatorFault, FlowFails
  <2> QED
    BY <1>4, <2>1, <2>2, <2>3 DEF CoordinatorFault
<1>5. CASE AgentFault
  <2>1. UNCHANGED <<ask, routes, inbox, bridgeVars, coordinatorVars, attempts>>
    BY <1>5 DEF AgentFault, EvaluatorFails, EvaluatorFailsInforming, KnowledgeFails,
                GamificationFails, agentVars
  <2>2. CASE EvaluatorFails
    BY <1>1, <1>2, <1>3, <2>1, <2>2, TakeFrame, AgentsFrame DEF EvaluatorFails, agentVars
  <2>3. CASE EvaluatorFailsInforming
    BY <1>1, <1>2, <2>1, <2>3, AgentsFrame DEF EvaluatorFailsInforming
  <2>4. CASE KnowledgeFails
    <3>1. mail["knowledge"] # <<>> /\ Take("knowledge")
      BY <2>4 DEF KnowledgeFails
    <3>2. Head(mail["knowledge"]) \in Message
      BY <1>3, <3>1, TakeFrame
    <3>3. learned' \in SUBSET Nat
      BY <1>2, <2>4, <3>2 DEF KnowledgeFails, Message
    <3> QED
      BY <1>1, <1>2, <1>3, <2>1, <2>4, <3>1, <3>3, TakeFrame, AgentsFrame DEF KnowledgeFails
  <2>5. CASE GamificationFails
    BY <1>1, <1>2, <1>3, <2>1, <2>5, TakeFrame, AgentsFrame DEF GamificationFails, agentVars
  <2> QED
    BY <1>5, <2>2, <2>3, <2>4, <2>5 DEF AgentFault
<1> QED
  BY <1>4, <1>5 DEF Fault

(* Every variable always has its type; in particular only answers travel   *)
(* to the gateway, so post_attempt meets no message it has no case for.    *)
THEOREM TypeCorrect == Spec => []TypeOK
<1>1. Init => TypeOK
  BY InitType
<1>2. TypeOK /\ [Next]_vars => TypeOK'
  <2> SUFFICES ASSUME TypeOK, [Next]_vars PROVE TypeOK'
    OBVIOUS
  <2>1. ASSUME NEW c \in Cids, Bridge(c) PROVE TypeOK'
    BY <2>1, BridgeType
  <2>2. ASSUME NEW c \in Cids, Conversation(c) PROVE TypeOK'
    BY <2>2, ConversationType
  <2>3. CASE UNCHANGED vars
    BY <2>3 DEF vars, messageVars, bridgeVars, coordinatorVars, agentVars, TypeOK,
                MessagesTypeOK, BridgeTypeOK, CoordinatorTypeOK, AgentsTypeOK
  <2> QED
    BY <2>1, <2>2, <2>3, GatewayType, IntakeType, EvaluatorType, DownstreamType, FaultType DEF Next
<1> QED
  BY <1>1, <1>2, PTL DEF Spec
---------------------------------------------------------------------------
(* The limit on conversations.                                             *)

Live(c) == Stage(c) \notin {"none", "refused", "released"}

(* A step that opens or closes no conversation.                            *)
LEMMA LimitKept ==
    ASSUME FlowLimit, routes' = routes, \A c \in Cids : Live(c)' <=> Live(c)
    PROVE  FlowLimit'
BY DEF FlowLimit, Live, Stage

LEMMA NextLimit == TypeOK /\ FlowLimit /\ [Next]_vars => FlowLimit'
<1> SUFFICES ASSUME TypeOK, FlowLimit, [Next]_vars PROVE FlowLimit'
  OBVIOUS
<1>1. /\ flow \in [Cids -> Flow] /\ intake \in SUBSET Intake
      /\ routes = {c \in Cids : Live(c)}
      /\ IsFiniteSet(routes) /\ Cardinality(routes) \in Nat
      /\ Cardinality(routes) <= MaxFlows
  <2>1. routes = {c \in Cids : Live(c)} /\ Cardinality(routes) <= MaxFlows
    BY DEF FlowLimit, Live
  <2>2. IsFiniteSet(routes) /\ Cardinality(routes) \in Nat
    BY <2>1, FS_Subset, FS_CardinalityType
  <2> QED
    BY <2>1, <2>2 DEF TypeOK, CoordinatorTypeOK
<1>2. ASSUME UNCHANGED <<routes, flow>> PROVE FlowLimit'
  BY <1>2, LimitKept DEF Live, Stage
<1>3. CASE IntakeBehaviour
  <2>1. CASE IntakeReceive
    BY <1>2, <2>1 DEF IntakeReceive
  <2>2. CASE IntakeOpen
    <3>1. PICK r \in intake :
            /\ r.cid \notin routes
            /\ Cardinality(routes) < MaxFlows
            /\ routes' = routes \cup {r.cid}
            /\ flow' = [flow EXCEPT ![r.cid].stage = "EVALUATE", ![r.cid].baseline = r.baseline]
      BY <2>2 DEF IntakeOpen
    <3>2. Cardinality(routes') = Cardinality(routes) + 1
      BY <1>1, <3>1, FS_AddElement
    <3>3. r.cid \in Cids
      BY <1>1, <3>1 DEF Intake
    <3>4. routes' = {c \in Cids : Live(c)'}
      BY <1>1, <3>1, <3>3 DEF Live, Stage, Flow
    <3> QED
      BY <1>1, <3>1, <3>2, <3>4 DEF FlowLimit, Live, Stage
  <2>3. CASE IntakeRefuse
    <3>1. PICK r \in intake :
            flow' = IF r.cid \in routes THEN flow ELSE [flow EXCEPT ![r.cid].stage = "refused"]
      BY <2>3 DEF IntakeRefuse
    <3>2. \A c \in Cids : Live(c)' <=> Live(c)
      BY <1>1, <3>1 DEF Live, Stage, Flow, Intake
    <3> QED
      BY <2>3, <3>2, LimitKept DEF IntakeRefuse
  <2> QED
    BY <1>3, <2>1, <2>2, <2>3 DEF IntakeBehaviour
<1>4. ASSUME NEW c \in Cids, Conversation(c) PROVE FlowLimit'
  <2>1. CASE Release(c)
    <3>1. /\ routes' = routes \ {c}
          /\ flow' = [flow EXCEPT ![c].stage = "released"]
          /\ c \in routes
      BY <1>1, <2>1 DEF Release, Live
    <3>2. Cardinality(routes') = Cardinality(routes) - 1
      BY <1>1, <3>1, FS_RemoveElement
    <3>3. routes' = {d \in Cids : Live(d)'}
      BY <1>1, <3>1 DEF Live, Stage, Flow
    <3> QED
      BY <1>1, <3>2, <3>3 DEF FlowLimit, Live, Stage
  <2>2. ASSUME routes' = routes, Live(c), Live(c)', \A d \in Cids \ {c} : flow'[d] = flow[d]
        PROVE  FlowLimit'
    BY <2>2, LimitKept DEF Live, Stage
  <2>3. CASE Evaluate(c) \/ UpdateReceive(c) \/ UpdateRefused(c) \/ UpdateExpires(c)
    BY <1>1, <2>2, <2>3 DEF Live, Stage, Evaluate, UpdateReceive, UpdateRefused, UpdateExpires, Flow
  <2>4. CASE SettleFinds(c) \/ SettleGivesUp(c) \/ Recommend(c) \/ Respond(c)
    BY <1>1, <2>2, <2>4 DEF Live, Stage, SettleFinds, SettleGivesUp, Recommend, Respond, Flow
  <2>5. CASE RecommendReceive(c) \/ RecommendExpires(c)
    BY <1>1, <2>2, <2>5 DEF Live, Stage, RecommendReceive, RecommendExpires, Flow
  <2> QED
    BY <1>4, <2>1, <2>3, <2>4, <2>5 DEF Conversation, FlowStep
<1>5. CASE Evaluator \/ KnowledgeModel \/ Gamification \/ Recommender
  BY <1>2, <1>5 DEF Evaluator, KnowledgeModel, Gamification, Recommender, coordinatorVars,
     EvaluatorStep, EvaluateUnknownTask, EvaluatePlanUnavailable, EvaluatePersist,
     EvaluatorInform, KnowledgeUpdate, GamificationAward, RecommenderReply
<1>6. CASE Fault
  <2>1. CASE IntakeDies \/ IntakeRefusalFails
    BY <1>2, <2>1 DEF IntakeDies, IntakeRefusalFails
  <2>2. ASSUME NEW c \in Cids, FlowFails(c) PROVE FlowLimit'
    <3>1. \A d \in Cids : Live(d)' <=> Live(d)
      BY <1>1, <2>2 DEF FlowFails, Live, Stage, Flow
    <3> QED
      BY <2>2, <3>1, LimitKept DEF FlowFails
  <2>3. CASE AgentFault
    BY <1>2, <2>3 DEF AgentFault, coordinatorVars, EvaluatorFails, EvaluatorFailsInforming,
       KnowledgeFails, GamificationFails
  <2> QED
    BY <1>6, <2>1, <2>2, <2>3 DEF Fault, CoordinatorFault
<1>7. CASE Gateway \/ \E c \in Cids : Bridge(c)
  BY <1>2, <1>7 DEF Gateway, Bridge, coordinatorVars
<1>8. CASE UNCHANGED vars
  BY <1>2, <1>8 DEF vars, messageVars, coordinatorVars
<1> QED
  BY <1>3, <1>4, <1>5, <1>6, <1>7, <1>8 DEF Next

(* Errata 62, for every limit: never more conversations than MaxFlows, and *)
(* the places taken are those of the conversations that live, so none is   *)
(* lost to an exception or given back twice.                               *)
THEOREM LimitHolds == Spec => []FlowLimit
<1>1. Init => FlowLimit
  <2> SUFFICES ASSUME Init PROVE FlowLimit
    OBVIOUS
  <2>1. routes = {} /\ \A c \in Cids : Stage(c) = "none"
    BY DEF Init, MessagesInit, CoordinatorInit, NoFlow, Stage
  <2>2. Cardinality(routes) = 0
    BY <2>1, FS_EmptySet
  <2> QED
    BY <2>1, <2>2 DEF FlowLimit
<1>2. TypeOK /\ FlowLimit /\ [Next]_vars => FlowLimit'
  BY NextLimit
<1> QED
  BY <1>1, <1>2, TypeCorrect, PTL DEF Spec

---------------------------------------------------------------------------
(* Whose attempt an answer may report.  The argument follows the id of an  *)
(* attempt from the table to the client: at every place it passes, it      *)
(* belongs to the submission or, once _settle has taken it from the table, *)
(* to the same user and task.                                              *)

(* Row i is the one that submission c made.                                *)
Own(c, i) == i \in RowsFor(c) /\ attempts[i].by = c

(* Row i may be reported to c.                                             *)
Reportable(c, i) == i \in RowsFor(c) /\ (flow[c].settled \/ attempts[i].by = c)

(* The stages at which a conversation holds the attempt it will report.    *)
Holding(c) ==
    /\ Stage(c) \in {"RECOMMEND", "AWAIT-RECOMMENDATION", "RESPOND"}
    /\ flow[c].error = "none"

(* Where an attempt's id is on its way from the table to the client.       *)
InformInv  == \A r \in informing : Own(r.cid, r.attempt)
LearnInv   == \A m \in Contents(mail["knowledge"]) : Own(m.cid, m.attempt)
InboxInv   == \A c \in Cids : \A m \in inbox[c] : m.kind = "model-updated" => Own(c, m.attempt)
FlowInv    == \A c \in Cids : Holding(c) => Reportable(c, flow[c].attempt)
GatewayInv == \A m \in Contents(mail["gateway"]) : m.kind = "ok" => Reportable(m.cid, m.attempt)
ResultInv  == \A c \in Cids : \A m \in result[c] : m.kind = "ok" => Reportable(c, m.attempt)
HttpInv    == \A c \in Cids : http[c] = "ok" => Reportable(c, shown[c])

Provenance ==
    InformInv /\ LearnInv /\ InboxInv /\ FlowInv /\ GatewayInv /\ ResultInv /\ HttpInv
---------------------------------------------------------------------------
(* The table only grows and a settled conversation stays settled, so what  *)
(* may be reported may be reported for good.                               *)
LEMMA RowsKept ==
    ASSUME TypeOK, ask' = ask,
           attempts' = attempts \/ \E x \in Attempt : attempts' = Append(attempts, x),
           \A c \in Cids : flow[c].settled => flow'[c].settled
    PROVE  \A c \in Cids : \A i : /\ Own(c, i) => Own(c, i)'
                                  /\ Reportable(c, i) => Reportable(c, i)'
<1>1. attempts \in Seq(Attempt) /\ Len(attempts) \in Nat
  BY DEF TypeOK, CoordinatorTypeOK
<1>2. /\ 1..Len(attempts) \subseteq 1..Len(attempts')
      /\ \A i \in 1..Len(attempts) : attempts'[i] = attempts[i]
  <2>1. CASE attempts' = attempts
    BY <2>1
  <2>2. CASE \E x \in Attempt : attempts' = Append(attempts, x)
    <3>1. PICK x \in Attempt : attempts' = Append(attempts, x)
      BY <2>2
    <3> QED BY <1>1, <3>1
  <2> QED BY <2>1, <2>2
<1>3. ASSUME NEW c \in Cids, NEW i \in RowsFor(c)
      PROVE  i \in RowsFor(c)' /\ attempts'[i].by = attempts[i].by
  BY <1>2, <1>3 DEF RowsFor
<1> QED BY <1>3 DEF Own, Reportable

LEMMA ContentsType ==
    ASSUME NEW T, NEW q \in Seq(T)
    PROVE  Contents(q) \subseteq T
<1>1. \A i \in 1..Len(q) : q[i] \in T
  OBVIOUS
<1> QED
  BY <1>1 DEF Contents

LEMMA InitProvenance == Init => Provenance
<1> SUFFICES ASSUME Init PROVE Provenance
  OBVIOUS
<1>1. /\ mail["gateway"] = <<>> /\ mail["knowledge"] = <<>> /\ informing = {}
      /\ \A c \in Cids : /\ inbox[c] = {} /\ result[c] = {}
                         /\ http[c] = "idle" /\ flow[c].stage = "none"
  BY DEF Init, MessagesInit, BridgeInit, CoordinatorInit, AgentsInit, NoFlow, Agents
<1>2. Contents(<<>>) = {}
  BY DEF Contents
<1> QED
  BY <1>1, <1>2 DEF Provenance, InformInv, LearnInv, InboxInv, FlowInv, GatewayInv,
                    ResultInv, HttpInv, Holding, Stage

(* What a step has to show: each id in a place was there before, or came  *)
(* from the place upstream of it, or is a row it may stand for.            *)
LEMMA ProvenanceKept ==
    ASSUME TypeOK, TypeOK', Provenance, ask' = ask,
           attempts' = attempts \/ \E x \in Attempt : attempts' = Append(attempts, x),
           \A c \in Cids : flow[c].settled => flow'[c].settled,
           \A r \in informing' : \/ Own(r.cid, r.attempt)'
                                 \/ \E s \in informing : s.cid = r.cid /\ s.attempt = r.attempt,
           \A m \in Contents(mail'["knowledge"]) :
               m \in Contents(mail["knowledge"]) \/ Own(m.cid, m.attempt),
           \A c \in Cids : \A m \in inbox'[c] :
               m \in inbox[c] \/ m.kind # "model-updated" \/ Own(c, m.attempt),
           \A c \in Cids : Holding(c)' =>
               \/ Holding(c) /\ flow'[c].attempt = flow[c].attempt
               \/ Own(c, flow'[c].attempt)
               \/ flow'[c].settled /\ flow'[c].attempt \in RowsFor(c),
           \A m \in Contents(mail'["gateway"]) :
               m \in Contents(mail["gateway"]) \/ m.kind # "ok" \/ Reportable(m.cid, m.attempt),
           \A c \in Cids : \A m \in result'[c] :
               m \in result[c] \/ (m \in Contents(mail["gateway"]) /\ m.cid = c),
           \A c \in Cids : http'[c] = "ok" =>
               \/ http[c] = "ok" /\ shown'[c] = shown[c]
               \/ \E m \in result[c] : m.kind = "ok" /\ shown'[c] = m.attempt
    PROVE  Provenance'
<1>1. \A c \in Cids : \A i : /\ Own(c, i) => Own(c, i)'
                             /\ Reportable(c, i) => Reportable(c, i)'
  BY RowsKept
<1>2. \A c \in Cids : \A i : /\ i \in RowsFor(c) => i \in RowsFor(c)'
                             /\ Own(c, i) => Reportable(c, i)
  <2>1. attempts \in Seq(Attempt)
    BY DEF TypeOK, CoordinatorTypeOK
  <2>2. ASSUME NEW c \in Cids, NEW i \in RowsFor(c) PROVE i \in RowsFor(c)'
    <3>1. CASE attempts' = attempts
      BY <2>2, <3>1 DEF RowsFor
    <3>2. CASE \E x \in Attempt : attempts' = Append(attempts, x)
      BY <2>1, <2>2, <3>2 DEF RowsFor
    <3> QED
      BY <3>1, <3>2
  <2> QED
    BY <2>2 DEF Own, Reportable
<1>3. /\ \A m \in Contents(mail'["knowledge"]) : m.cid \in Cids
      /\ \A m \in Contents(mail'["gateway"]) : m.cid \in Cids
      /\ \A r \in informing' : r.cid \in Cids
  <2>1. /\ mail'["knowledge"] \in Seq(Message) /\ mail'["gateway"] \in Seq(Message)
        /\ informing' \in SUBSET Informing
    BY DEF TypeOK, MessagesTypeOK, AgentsTypeOK, Agents
  <2>2. /\ Contents(mail'["knowledge"]) \subseteq Message
        /\ Contents(mail'["gateway"]) \subseteq Message
    BY <2>1, ContentsType
  <2> QED
    BY <2>1, <2>2 DEF Message, Informing
<1>4. InformInv'
  BY <1>1, <1>3 DEF Provenance, InformInv
<1>5. LearnInv' /\ InboxInv'
  BY <1>1, <1>3 DEF Provenance, LearnInv, InboxInv
<1>6. FlowInv'
  <2> SUFFICES ASSUME NEW c \in Cids, Holding(c)' PROVE Reportable(c, flow[c].attempt)'
    BY DEF FlowInv
  <2>1. CASE Holding(c) /\ flow'[c].attempt = flow[c].attempt
    <3>1. Reportable(c, flow[c].attempt)
      BY <2>1 DEF Provenance, FlowInv
    <3>2. Reportable(c, flow'[c].attempt)
      BY <2>1, <3>1
    <3> QED
      BY <1>1, <2>1, <3>1 DEF Reportable
  <2>2. CASE Own(c, flow'[c].attempt)
    BY <1>1, <2>2 DEF Own, Reportable
  <2>3. CASE flow'[c].settled /\ flow'[c].attempt \in RowsFor(c)
    BY <1>2, <2>3 DEF Reportable
  <2> QED
    BY <2>1, <2>2, <2>3
<1>7. GatewayInv'
  BY <1>1, <1>3 DEF Provenance, GatewayInv
<1>8. ResultInv'
  <2> SUFFICES ASSUME NEW c \in Cids, NEW m \in result'[c], m.kind = "ok"
               PROVE  Reportable(c, m.attempt)'
    BY DEF ResultInv
  <2>1. Reportable(c, m.attempt)
    BY DEF Provenance, ResultInv, GatewayInv
  <2> QED
    BY <1>1, <2>1
<1>9. HttpInv'
  <2> SUFFICES ASSUME NEW c \in Cids, http'[c] = "ok" PROVE Reportable(c, shown[c])'
    BY DEF HttpInv
  <2>1. Reportable(c, shown'[c])
    BY DEF Provenance, HttpInv, ResultInv
  <2> QED
    BY <1>1, <2>1 DEF Reportable
<1> QED
  BY <1>4, <1>5, <1>6, <1>7, <1>8, <1>9 DEF Provenance
---------------------------------------------------------------------------
(* The steps, one component after the other.                               *)

LEMMA BridgeProvenance ==
    ASSUME TypeOK, Provenance, NEW c \in Cids, Bridge(c)
    PROVE  Provenance'
<1>1. UNCHANGED <<ask, inbox, flow, attempts, informing>>
  BY DEF Bridge, coordinatorVars, agentVars
<1>2. /\ http \in [Cids -> HttpState] /\ shown \in [Cids -> Nat]
      /\ result \in [Cids -> SUBSET Answer] /\ MessagesTypeOK
  BY DEF TypeOK, BridgeTypeOK
<1>3. mail'["gateway"] = mail["gateway"] /\ mail'["knowledge"] = mail["knowledge"]
  <2>1. CASE Submit(c)
    <3>1. Msg("submit-attempt", c, NoAttempt) \in Message
      BY MsgType DEF MessageKinds, NoAttempt
    <3> QED
      BY <1>2, <2>1, <3>1, PostType DEF Submit, Agents
  <2>2. CASE WaitReturns(c) \/ WaitExpires(c)
    BY <2>2 DEF WaitReturns, WaitExpires
  <2> QED
    BY <2>1, <2>2 DEF Bridge
<1>4. \A d \in Cids : Holding(d)' <=> Holding(d)
  BY <1>1 DEF Holding, Stage
<1>5. \A d \in Cids : result'[d] \subseteq result[d]
  BY <1>2 DEF Bridge, Submit, WaitReturns, WaitExpires
<1>6. ASSUME NEW d \in Cids, http'[d] = "ok"
      PROVE  \/ http[d] = "ok" /\ shown'[d] = shown[d]
             \/ \E m \in result[d] : m.kind = "ok" /\ shown'[d] = m.attempt
  BY <1>2, <1>6 DEF Bridge, Submit, WaitReturns, WaitExpires
<1>7. TypeOK'
  BY BridgeType
<1> QED
  BY <1>1, <1>3, <1>4, <1>5, <1>6, <1>7, ProvenanceKept

LEMMA GatewayProvenance ==
    ASSUME TypeOK, Provenance, Gateway
    PROVE  Provenance'
<1>1. UNCHANGED <<ask, inbox, flow, attempts, informing, http, shown>>
  BY DEF Gateway, GatewayResolve, coordinatorVars, agentVars
<1> DEFINE m == Head(mail["gateway"])
<1>2. /\ m \in Contents(mail["gateway"])
      /\ Contents(mail'["gateway"]) \subseteq Contents(mail["gateway"])
      /\ mail'["knowledge"] = mail["knowledge"]
  <2>1. mail["gateway"] # <<>> /\ Take("gateway") /\ MessagesTypeOK
    BY DEF Gateway, GatewayResolve, TypeOK
  <2>2. "gateway" \in Agents /\ "knowledge" \in Agents
    BY DEF Agents
  <2> QED
    BY <2>1, <2>2, TakeType
<1>3. result' = result \/ result' = [result EXCEPT ![m.cid] = {m}]
  BY DEF Gateway, GatewayResolve
<1> HIDE DEF m
<1>4. \A d \in Cids : \A x \in result'[d] :
        x \in result[d] \/ (x \in Contents(mail["gateway"]) /\ x.cid = d)
  <2>1. result \in [Cids -> SUBSET Answer] /\ m.cid \in Cids
    BY <1>2 DEF TypeOK, BridgeTypeOK, Answer
  <2> QED
    BY <1>2, <1>3, <2>1
<1>5. \A d \in Cids : Holding(d)' <=> Holding(d)
  BY <1>1 DEF Holding, Stage
<1>6. TypeOK'
  BY GatewayType
<1> QED
  BY <1>1, <1>2, <1>4, <1>5, <1>6, ProvenanceKept

(* A step of the Coordinator reads the table and changes neither it nor    *)
(* what the clients see.                                                   *)
LEMMA CoordinatorProvenance ==
    ASSUME TypeOK, TypeOK', Provenance, UNCHANGED <<ask, bridgeVars, agentVars>>,
           \A c \in Cids : flow[c].settled => flow'[c].settled,
           Contents(mail'["knowledge"]) \subseteq Contents(mail["knowledge"]),
           \A c \in Cids : inbox'[c] \subseteq inbox[c],
           \A c \in Cids : Holding(c)' =>
               \/ Holding(c) /\ flow'[c].attempt = flow[c].attempt
               \/ Own(c, flow'[c].attempt)
               \/ flow'[c].settled /\ flow'[c].attempt \in RowsFor(c),
           \A m \in Contents(mail'["gateway"]) :
               m \in Contents(mail["gateway"]) \/ m.kind # "ok" \/ Reportable(m.cid, m.attempt)
    PROVE  Provenance'
<1>1. UNCHANGED <<attempts, informing, result, http, shown>>
  BY DEF bridgeVars, agentVars
<1> QED
  BY <1>1, ProvenanceKept

LEMMA IntakeProvenance ==
    ASSUME TypeOK, Provenance, IntakeBehaviour
    PROVE  Provenance'
<1>1. UNCHANGED <<ask, bridgeVars, agentVars>> /\ TypeOK' /\ inbox' = inbox
  BY IntakeType DEF IntakeBehaviour, IntakeReceive, IntakeOpen, IntakeRefuse
<1>2. /\ MessagesTypeOK /\ flow \in [Cids -> Flow] /\ intake \in SUBSET Intake
      /\ {"gateway", "knowledge", "intake"} \subseteq Agents
  BY DEF TypeOK, CoordinatorTypeOK, Agents
<1>3. CASE IntakeReceive
  <2>1. mail'["knowledge"] = mail["knowledge"] /\ mail'["gateway"] = mail["gateway"]
    BY <1>2, <1>3, TakeType DEF IntakeReceive
  <2>2. \A c \in Cids : (Holding(c)' <=> Holding(c)) /\ flow' = flow
    BY <1>3 DEF IntakeReceive, Holding, Stage
  <2> QED
    BY <1>1, <2>1, <2>2, CoordinatorProvenance
<1>4. CASE IntakeOpen
  <2>1. PICK r \in intake :
          flow' = [flow EXCEPT ![r.cid].stage = "EVALUATE", ![r.cid].baseline = r.baseline]
    BY <1>4 DEF IntakeOpen
  <2>2. mail' = mail
    BY <1>4 DEF IntakeOpen
  <2>3. \A c \in Cids : /\ flow'[c].settled = flow[c].settled
                        /\ flow'[c] = flow[c] \/ flow'[c].stage = "EVALUATE"
    BY <1>2, <2>1 DEF Flow, Intake
  <2>4. \A c \in Cids : Holding(c)' => Holding(c) /\ flow'[c].attempt = flow[c].attempt
    BY <2>3 DEF Holding, Stage
  <2> QED
    BY <1>1, <2>2, <2>3, <2>4, CoordinatorProvenance
<1>5. CASE IntakeRefuse
  <2>1. PICK r \in intake :
          /\ Post("gateway", Msg("coordinator_busy", r.cid, NoAttempt))
          /\ flow' = IF r.cid \in routes THEN flow ELSE [flow EXCEPT ![r.cid].stage = "refused"]
    BY <1>5 DEF IntakeRefuse
  <2> DEFINE m == Msg("coordinator_busy", r.cid, NoAttempt)
  <2>2. m \in Message /\ m.kind # "ok"
    BY <1>2, <2>1, MsgType DEF Intake, MessageKinds, AnswerKinds, NoAttempt
  <2> HIDE DEF m
  <2>3. /\ mail'["knowledge"] = mail["knowledge"]
        /\ Contents(mail'["gateway"]) = Contents(mail["gateway"]) \cup {m}
    BY <1>2, <2>1, <2>2, PostType DEF m
  <2>4. \A c \in Cids : /\ flow'[c].settled = flow[c].settled
                        /\ flow'[c] = flow[c] \/ flow'[c].stage = "refused"
    BY <1>2, <2>1 DEF Flow, Intake
  <2>5. \A c \in Cids : Holding(c)' => Holding(c) /\ flow'[c].attempt = flow[c].attempt
    BY <2>4 DEF Holding, Stage
  <2> QED
    BY <1>1, <2>2, <2>3, <2>4, <2>5, CoordinatorProvenance
<1> QED
  BY <1>3, <1>4, <1>5 DEF IntakeBehaviour

(* A conversation takes an attempt from a model-updated message of its own *)
(* or from the table in _settle, and reports the one it holds.             *)
LEMMA ConversationProvenance ==
    ASSUME TypeOK, Provenance, NEW c \in Cids, Conversation(c)
    PROVE  Provenance'
<1>1. UNCHANGED <<ask, bridgeVars, agentVars>> /\ TypeOK'
  BY ConversationType DEF Conversation
<1>2. /\ MessagesTypeOK /\ flow \in [Cids -> Flow] /\ attempts \in Seq(Attempt)
      /\ inbox \in [Cids -> SUBSET Message]
      /\ {"gateway", "knowledge", "evaluator", "recommender"} \subseteq Agents
  BY DEF TypeOK, CoordinatorTypeOK, MessagesTypeOK, Agents
<1>3. /\ \A d \in Cids : inbox'[d] \subseteq inbox[d]
      /\ \A d \in Cids \ {c} : flow'[d] = flow[d]
  BY <1>2 DEF Conversation, FlowStep, Evaluate, UpdateReceive, UpdateRefused, UpdateExpires,
              SettleFinds, SettleGivesUp, Recommend, RecommendReceive, RecommendExpires,
              Respond, Release
<1>4. \A d \in Cids \ {c} : Holding(d)' <=> Holding(d)
  BY <1>3 DEF Holding, Stage
<1>5. flow[c].settled => flow'[c].settled
  BY <1>2 DEF Conversation, FlowStep, Evaluate, UpdateReceive, UpdateRefused, UpdateExpires,
              SettleFinds, SettleGivesUp, Recommend, RecommendReceive, RecommendExpires,
              Respond, Release, Flow
<1>6. Contents(mail'["knowledge"]) \subseteq Contents(mail["knowledge"])
  <2>1. CASE mail' = mail
    BY <2>1
  <2>2. ASSUME NEW a \in Agents \ {"knowledge"}, NEW m \in Message, Post(a, m)
        PROVE  mail'["knowledge"] = mail["knowledge"]
    BY <1>2, <2>2, PostType
  <2>3. CASE Evaluate(c)
    <3>1. Msg("evaluate-query", c, NoAttempt) \in Message
      BY MsgType DEF MessageKinds, NoAttempt
    <3> QED
      BY <1>2, <2>2, <2>3, <3>1 DEF Evaluate
  <2>4. CASE Recommend(c)
    <3>1. Msg("recommend-next", c, NoAttempt) \in Message
      BY MsgType DEF MessageKinds, FlowKinds, NoAttempt
    <3> QED
      BY <1>2, <2>2, <2>4, <3>1 DEF Recommend
  <2>5. CASE Respond(c)
    BY <1>2, <2>5 DEF Respond, Post, MessagesTypeOK
  <2> QED
    BY <2>1, <2>3, <2>4, <2>5 DEF Conversation, FlowStep, UpdateReceive, UpdateRefused,
       UpdateExpires, SettleFinds, SettleGivesUp, RecommendReceive, RecommendExpires, Release
<1>7. Holding(c)' =>
        \/ Holding(c) /\ flow'[c].attempt = flow[c].attempt
        \/ Own(c, flow'[c].attempt)
        \/ flow'[c].settled /\ flow'[c].attempt \in RowsFor(c)
  <2> SUFFICES ASSUME Holding(c)'
               PROVE  \/ Holding(c) /\ flow'[c].attempt = flow[c].attempt
                      \/ Own(c, flow'[c].attempt)
                      \/ flow'[c].settled /\ flow'[c].attempt \in RowsFor(c)
    OBVIOUS
  <2>1. CASE UpdateReceive(c)
    <3>1. PICK m \in inbox[c] : /\ m.kind = "model-updated"
                                /\ flow'[c].attempt = m.attempt
      BY <1>2, <2>1 DEF UpdateReceive, Flow
    <3> QED
      BY <3>1 DEF Provenance, InboxInv
  <2>2. CASE SettleFinds(c)
    <3>1. flow'[c].settled /\ flow'[c].attempt = AttemptSince(c)
      BY <1>2, <2>2 DEF SettleFinds, Flow
    <3>2. AttemptSince(c) \in RowsFor(c)
      BY <1>2, <2>2, AttemptSinceIsRow DEF SettleFinds
    <3> QED
      BY <3>1, <3>2
  <2>3. CASE Recommend(c) \/ RecommendReceive(c) \/ RecommendExpires(c)
    BY <1>2, <2>3 DEF Holding, Stage, Recommend, RecommendReceive, RecommendExpires, Flow
  <2>4. CASE \/ Evaluate(c) \/ UpdateRefused(c) \/ UpdateExpires(c) \/ SettleGivesUp(c)
             \/ Respond(c) \/ Release(c)
    BY <1>2, <2>4 DEF Holding, Stage, Evaluate, UpdateRefused, UpdateExpires, SettleGivesUp,
                      Respond, Release, Flow
  <2> QED
    BY <2>1, <2>2, <2>3, <2>4 DEF Conversation, FlowStep
<1>8. ASSUME NEW m \in Contents(mail'["gateway"])
      PROVE  m \in Contents(mail["gateway"]) \/ m.kind # "ok" \/ Reportable(m.cid, m.attempt)
  <2>1. CASE Evaluate(c) \/ Recommend(c)
    BY <1>2, <1>8, <2>1 DEF Evaluate, Recommend, Post, MessagesTypeOK
  <2>2. CASE Respond(c)
    <3> DEFINE x == IF flow[c].error # "none" THEN Msg(flow[c].error, c, NoAttempt)
                                              ELSE Msg("ok", c, flow[c].attempt)
    <3>1. flow[c].error \in Errors /\ flow[c].attempt \in Nat
      BY <1>2 DEF Flow
    <3>2. x \in Message
      BY <3>1 DEF Msg, Message, MessageKinds, AnswerKinds, NoAttempt, Errors
    <3>3. x.kind # "ok" \/ Reportable(x.cid, x.attempt)
      <4>1. CASE flow[c].error = "none"
        <5>1. Reportable(c, flow[c].attempt)
          BY <2>2, <4>1 DEF Respond, Provenance, FlowInv, Holding
        <5> QED
          BY <4>1, <5>1 DEF Msg
      <4>2. CASE flow[c].error # "none"
        BY <3>1, <4>2 DEF Msg, Errors
      <4> QED
        BY <4>1, <4>2
    <3>4. Post("gateway", x)
      BY <2>2 DEF Respond
    <3> HIDE DEF x
    <3>5. Contents(mail'["gateway"]) = Contents(mail["gateway"]) \cup {x}
      BY <1>2, <3>2, <3>4, PostType
    <3> QED
      BY <1>8, <3>3, <3>5
  <2>3. CASE mail' = mail
    BY <1>8, <2>3
  <2> QED
    BY <2>1, <2>2, <2>3 DEF Conversation, FlowStep, UpdateReceive, UpdateRefused,
       UpdateExpires, SettleFinds, SettleGivesUp, RecommendReceive, RecommendExpires, Release
<1>9. /\ \A d \in Cids : flow[d].settled => flow'[d].settled
      /\ \A d \in Cids : Holding(d)' =>
            \/ Holding(d) /\ flow'[d].attempt = flow[d].attempt
            \/ Own(d, flow'[d].attempt)
            \/ flow'[d].settled /\ flow'[d].attempt \in RowsFor(d)
  BY <1>3, <1>4, <1>5, <1>7
<1> QED
  BY <1>1, <1>3, <1>6, <1>8, <1>9, CoordinatorProvenance

(* A step of the domain agents changes no conversation, only what is on    *)
(* its way to one.                                                         *)
LEMMA AgentsProvenance ==
    ASSUME TypeOK, TypeOK', Provenance, UNCHANGED <<ask, bridgeVars, flow>>,
           attempts' = attempts \/ \E x \in Attempt : attempts' = Append(attempts, x),
           \A r \in informing' : \/ Own(r.cid, r.attempt)'
                                 \/ \E s \in informing : s.cid = r.cid /\ s.attempt = r.attempt,
           \A m \in Contents(mail'["knowledge"]) :
               m \in Contents(mail["knowledge"]) \/ Own(m.cid, m.attempt),
           \A c \in Cids : \A m \in inbox'[c] :
               m \in inbox[c] \/ m.kind # "model-updated" \/ Own(c, m.attempt),
           Contents(mail'["gateway"]) \subseteq Contents(mail["gateway"])
    PROVE  Provenance'
<1>1. UNCHANGED <<result, http, shown>>
  BY DEF bridgeVars
<1>2. \A c \in Cids : Holding(c)' <=> Holding(c)
  BY DEF Holding, Stage
<1> QED
  BY <1>1, <1>2, ProvenanceKept

(* The attempt the Evaluator announces is the row it has just appended for *)
(* the submission it was asked about.                                      *)
LEMMA EvaluatorProvenance ==
    ASSUME TypeOK, Provenance, Evaluator
    PROVE  Provenance'
<1>1. UNCHANGED <<ask, bridgeVars, flow>> /\ TypeOK'
  BY EvaluatorType DEF Evaluator, coordinatorVars
<1>2. /\ MessagesTypeOK /\ attempts \in Seq(Attempt) /\ informing \in SUBSET Informing
      /\ ask \in [Cids -> [user : Users, task : Tasks]]
      /\ {"gateway", "knowledge", "evaluator", "gamification"} \subseteq Agents
  BY DEF TypeOK, CoordinatorTypeOK, AgentsTypeOK, MessagesTypeOK, Agents
<1>3. ASSUME mail["evaluator"] # <<>>, Take("evaluator")
      PROVE  mail'["gateway"] = mail["gateway"] /\ mail'["knowledge"] = mail["knowledge"]
  BY <1>2, <1>3, TakeType
<1>4. ASSUME NEW c \in Cids, EvaluateUnknownTask(c) PROVE Provenance'
  <2>1. UNCHANGED <<inbox, attempts, informing>>
    BY <1>4 DEF EvaluateUnknownTask, agentVars
  <2> QED
    BY <1>1, <1>3, <1>4, <2>1, AgentsProvenance DEF EvaluateUnknownTask, Evaluating
<1>5. ASSUME NEW c \in Cids, EvaluatePlanUnavailable(c) PROVE Provenance'
  <2>1. UNCHANGED <<attempts, informing>>
    BY <1>5 DEF EvaluatePlanUnavailable, agentVars
  <2> DEFINE m == Msg("refuse-model-updated", c, NoAttempt)
  <2>2. m \in Message /\ m.kind # "model-updated"
    BY MsgType DEF MessageKinds, FlowKinds, NoAttempt
  <2>3. Dispatch(m)
    BY <1>5 DEF EvaluatePlanUnavailable
  <2> HIDE DEF m
  <2>4. \A d \in Cids : \A x \in inbox'[d] : x \in inbox[d] \/ x.kind # "model-updated"
    BY <1>2, <2>2, <2>3, DispatchType
  <2> QED
    BY <1>1, <1>3, <1>5, <2>1, <2>4, AgentsProvenance DEF EvaluatePlanUnavailable, Evaluating
<1>6. ASSUME NEW c \in Cids, EvaluatePersist(c) PROVE Provenance'
  <2> DEFINE row == [by |-> c, user |-> ask[c].user, task |-> ask[c].task]
  <2>0. PICK n \in Nat : n = Len(attempts) + 1
    BY <1>2
  <2>1. /\ attempts' = Append(attempts, row)
        /\ informing' = {[cid |-> c, attempt |-> n, next |-> "knowledge"]}
        /\ inbox' = inbox
    BY <1>6, <2>0 DEF EvaluatePersist
  <2>2. row \in Attempt
    BY <1>2 DEF Attempt
  <2>3. n \in 1..Len(attempts') /\ attempts'[n] = row
    BY <1>2, <2>0, <2>1, <2>2
  <2>4. Own(c, n)'
    BY <1>1, <2>3 DEF Own, RowsFor
  <2>5. \A r \in informing' : Own(r.cid, r.attempt)'
    BY <2>1, <2>4
  <2>6. \E x \in Attempt : attempts' = Append(attempts, x)
    BY <2>1, <2>2
  <2> HIDE DEF row
  <2> QED
    BY <1>1, <1>3, <1>6, <2>1, <2>5, <2>6, AgentsProvenance DEF EvaluatePersist, Evaluating
<1>7. CASE EvaluatorInform
  <2>1. PICK r \in informing :
          /\ Post(r.next, Msg("attempt-result", r.cid, r.attempt))
          /\ informing' = IF r.next = "knowledge"
                          THEN {[r EXCEPT !.next = "gamification"]} ELSE {}
          /\ UNCHANGED <<routes, inbox, attempts, learned, awarded>>
    BY <1>7 DEF EvaluatorInform
  <2> DEFINE m == Msg("attempt-result", r.cid, r.attempt)
  <2>2. /\ r.next \in Agents \ {"gateway"} /\ r \in Informing
        /\ m \in Message /\ m.cid = r.cid /\ m.attempt = r.attempt
    <3>1. r \in Informing /\ r.cid \in Cids /\ r.attempt \in Nat
      BY <1>2, <2>1 DEF Informing
    <3>2. "attempt-result" \in MessageKinds
      BY DEF MessageKinds
    <3>3. m \in Message /\ m.cid = r.cid /\ m.attempt = r.attempt
      BY <3>1, <3>2, MsgType
    <3> QED
      BY <1>2, <3>1, <3>3 DEF Informing
  <2>3. Own(m.cid, m.attempt)
    BY <2>1, <2>2 DEF Provenance, InformInv
  <2> HIDE DEF m
  <2>4. /\ mail'["gateway"] = mail["gateway"]
        /\ Contents(mail'["knowledge"]) \subseteq Contents(mail["knowledge"]) \cup {m}
    <3>1. Contents(mail'[r.next]) = Contents(mail[r.next]) \cup {m}
      BY <1>2, <2>1, <2>2, PostType DEF m
    <3>2. \A b \in Agents \ {r.next} : mail'[b] = mail[b]
      BY <1>2, <2>1, <2>2, PostType DEF m
    <3> QED
      BY <1>2, <2>2, <3>1, <3>2
  <2>5. \A s \in informing' : s.cid = r.cid /\ s.attempt = r.attempt
    BY <2>1, <2>2 DEF Informing
  <2> QED
    BY <1>1, <2>1, <2>3, <2>4, <2>5, AgentsProvenance
<1> QED
  BY <1>4, <1>5, <1>6, <1>7 DEF Evaluator, EvaluatorStep

LEMMA DownstreamProvenance ==
    ASSUME TypeOK, Provenance, KnowledgeModel \/ Gamification \/ Recommender
    PROVE  Provenance'
<1>1. /\ UNCHANGED <<ask, bridgeVars, flow, attempts, informing>> /\ TypeOK'
  BY DownstreamType DEF KnowledgeModel, Gamification, Recommender, coordinatorVars, agentVars,
         KnowledgeUpdate, GamificationAward, RecommenderReply
<1>2. /\ MessagesTypeOK
      /\ {"gateway", "knowledge", "gamification", "recommender"} \subseteq Agents
  BY DEF TypeOK, Agents
<1>3. ASSUME NEW a \in Agents \ {"gateway"}, mail[a] # <<>>, Take(a)
      PROVE  /\ Contents(mail'["gateway"]) \subseteq Contents(mail["gateway"])
             /\ Contents(mail'["knowledge"]) \subseteq Contents(mail["knowledge"])
             /\ Head(mail[a]) \in Contents(mail[a]) /\ Head(mail[a]) \in Message
  BY <1>2, <1>3, TakeType
<1>4. CASE KnowledgeModel
  <2> DEFINE h == Head(mail["knowledge"])
             m == Msg("model-updated", h.cid, h.attempt)
  <2>1. mail["knowledge"] # <<>> /\ Take("knowledge") /\ Dispatch(m)
    BY <1>4 DEF KnowledgeModel, KnowledgeUpdate
  <2>2. h \in Contents(mail["knowledge"]) /\ h \in Message
    BY <1>2, <1>3, <2>1
  <2>3. Own(h.cid, h.attempt) /\ h.cid \in Cids /\ h.attempt \in Nat
    BY <2>2 DEF Provenance, LearnInv, Message
  <2> HIDE DEF h
  <2>4. m \in Message /\ m.cid = h.cid /\ m.attempt = h.attempt
    <3>1. "model-updated" \in MessageKinds
      BY DEF MessageKinds, FlowKinds
    <3> QED
      BY <2>3, <3>1, MsgType
  <2> HIDE DEF m
  <2>5. \A d \in Cids : \A x \in inbox'[d] : x \in inbox[d] \/ Own(d, x.attempt)
    BY <1>2, <2>1, <2>3, <2>4, DispatchType
  <2> QED
    BY <1>1, <1>2, <1>3, <2>1, <2>5, AgentsProvenance
<1>5. CASE Gamification
  <2>1. mail["gamification"] # <<>> /\ Take("gamification") /\ inbox' = inbox
    BY <1>5 DEF Gamification, GamificationAward
  <2> QED
    BY <1>1, <1>2, <1>3, <2>1, AgentsProvenance
<1>6. CASE Recommender
  <2> DEFINE h == Head(mail["recommender"])
             m == Msg("recommend-next", h.cid, NoAttempt)
  <2>1. mail["recommender"] # <<>> /\ Take("recommender") /\ Dispatch(m)
    BY <1>6 DEF Recommender, RecommenderReply
  <2>2. h.cid \in Cids
    <3>1. h \in Message
      BY <1>2, <1>3, <2>1
    <3> QED
      BY <3>1 DEF Message
  <2> HIDE DEF h
  <2>3. m \in Message /\ m.kind # "model-updated"
    <3>1. "recommend-next" \in MessageKinds
      BY DEF MessageKinds, FlowKinds
    <3>2. m \in Message /\ m.kind = "recommend-next"
      BY <2>2, <3>1, MsgType DEF NoAttempt
    <3> QED
      BY <3>2
  <2> HIDE DEF m
  <2>4. \A d \in Cids : \A x \in inbox'[d] : x \in inbox[d] \/ x.kind # "model-updated"
    BY <1>2, <2>1, <2>3, DispatchType
  <2> QED
    BY <1>1, <1>2, <1>3, <2>1, <2>4, AgentsProvenance
<1> QED
  BY <1>4, <1>5, <1>6

(* An exception loses messages and invents none.                           *)
LEMMA FaultProvenance ==
    ASSUME TypeOK, Provenance, Fault
    PROVE  Provenance'
<1>1. UNCHANGED <<ask, bridgeVars>> /\ TypeOK'
  BY FaultType DEF Fault, CoordinatorFault, AgentFault
<1>2. /\ MessagesTypeOK /\ flow \in [Cids -> Flow]
      /\ {"gateway", "knowledge", "gamification", "evaluator", "intake"} \subseteq Agents
  BY DEF TypeOK, CoordinatorTypeOK, Agents
<1>3. ASSUME NEW a \in Agents \ {"gateway"}, mail[a] # <<>>, Take(a)
      PROVE  /\ Contents(mail'["gateway"]) \subseteq Contents(mail["gateway"])
             /\ Contents(mail'["knowledge"]) \subseteq Contents(mail["knowledge"])
  BY <1>2, <1>3, TakeType
<1>4. CASE CoordinatorFault
  <2>1. CASE IntakeDies
    <3>1. /\ mail["intake"] # <<>> /\ Take("intake")
          /\ UNCHANGED <<ask, bridgeVars, agentVars, inbox, flow>>
      BY <1>4, <2>1 DEF CoordinatorFault, IntakeDies
    <3>2. \A c \in Cids : Holding(c)' <=> Holding(c)
      BY <3>1 DEF Holding, Stage
    <3> QED
      BY <1>1, <1>2, <1>3, <3>1, <3>2, CoordinatorProvenance
  <2>3. CASE IntakeRefusalFails
    <3>1. UNCHANGED <<ask, bridgeVars, agentVars, inbox, mail, flow>>
      BY <1>4, <2>3 DEF CoordinatorFault, IntakeRefusalFails
    <3>2. \A c \in Cids : Holding(c)' <=> Holding(c)
      BY <3>1 DEF Holding, Stage
    <3> QED
      BY <1>1, <3>1, <3>2, CoordinatorProvenance
  <2>2. ASSUME NEW c \in Cids, FlowFails(c) PROVE Provenance'
    <3>1. /\ flow' = [flow EXCEPT ![c].stage = "done"]
          /\ UNCHANGED <<ask, bridgeVars, agentVars, inbox, mail>>
      BY <1>4, <2>2 DEF CoordinatorFault, FlowFails
    <3>2. \A d \in Cids : /\ flow'[d].settled = flow[d].settled
                          /\ flow'[d] = flow[d] \/ flow'[d].stage = "done"
      BY <1>2, <3>1 DEF Flow
    <3>3. \A d \in Cids : Holding(d)' => Holding(d) /\ flow'[d].attempt = flow[d].attempt
      BY <3>2 DEF Holding, Stage
    <3> QED
      BY <1>1, <3>1, <3>2, <3>3, CoordinatorProvenance
  <2> QED
    BY <1>4, <2>1, <2>2, <2>3 DEF CoordinatorFault
<1>5. CASE AgentFault
  <2>1. /\ UNCHANGED <<ask, bridgeVars, flow, inbox, attempts>>
        /\ informing' \subseteq informing
    BY <1>5 DEF AgentFault, EvaluatorFails, EvaluatorFailsInforming, KnowledgeFails,
                GamificationFails, agentVars, coordinatorVars
  <2>2. /\ Contents(mail'["gateway"]) \subseteq Contents(mail["gateway"])
        /\ Contents(mail'["knowledge"]) \subseteq Contents(mail["knowledge"])
    <3>1. CASE EvaluatorFails
      BY <1>2, <1>3, <3>1 DEF EvaluatorFails
    <3>2. CASE KnowledgeFails
      BY <1>2, <1>3, <3>2 DEF KnowledgeFails
    <3>3. CASE GamificationFails
      BY <1>2, <1>3, <3>3 DEF GamificationFails
    <3>4. CASE EvaluatorFailsInforming
      BY <3>4 DEF EvaluatorFailsInforming
    <3> QED
      BY <1>5, <3>1, <3>2, <3>3, <3>4 DEF AgentFault
  <2> QED
    BY <1>1, <2>1, <2>2, AgentsProvenance
<1> QED
  BY <1>4, <1>5 DEF Fault
---------------------------------------------------------------------------
LEMMA NextProvenance == TypeOK /\ Provenance /\ [Next]_vars => Provenance'
<1> SUFFICES ASSUME TypeOK, Provenance, [Next]_vars PROVE Provenance'
  OBVIOUS
<1>1. ASSUME NEW c \in Cids, Bridge(c) PROVE Provenance'
  BY <1>1, BridgeProvenance
<1>2. ASSUME NEW c \in Cids, Conversation(c) PROVE Provenance'
  BY <1>2, ConversationProvenance
<1>3. CASE UNCHANGED vars
  <2>1. UNCHANGED <<ask, mail, inbox, flow, attempts, informing, result, http, shown>>
    BY <1>3 DEF vars, messageVars, bridgeVars, coordinatorVars, agentVars
  <2> QED
    BY <2>1 DEF Provenance, InformInv, LearnInv, InboxInv, FlowInv, GatewayInv, ResultInv,
                HttpInv, Holding, Stage, Own, Reportable, RowsFor
<1> QED
  BY <1>1, <1>2, <1>3, GatewayProvenance, IntakeProvenance, EvaluatorProvenance,
     DownstreamProvenance, FaultProvenance DEF Next

LEMMA ProvenanceHolds == Spec => []Provenance
<1>1. Init => Provenance
  BY InitProvenance
<1>2. TypeOK /\ Provenance /\ [Next]_vars => Provenance'
  BY NextProvenance
<1> QED
  BY <1>1, <1>2, TypeCorrect, PTL DEF Spec

(* Nobody receives somebody else's answer: a 200 response reports a        *)
(* committed attempt of the client's own user on the task the client       *)
(* named, whichever way the Coordinator came by it.                        *)
THEOREM AnswersConcernOwnTask == Spec => []AnswerConcernsOwnTask
<1>1. Provenance => AnswerConcernsOwnTask
  BY DEF Provenance, HttpInv, Reportable, RowsFor, AnswerConcernsOwnTask
<1> QED
  BY <1>1, ProvenanceHolds, PTL

(* And unless _settle took it from the table, it is the very row that the  *)
(* submission made.                                                        *)
THEOREM AnswersAreOwnUnlessSettled == Spec => []AnswerIsOwnUnlessSettled
<1>1. Provenance => AnswerIsOwnUnlessSettled
  BY DEF Provenance, HttpInv, Reportable, AnswerIsOwnUnlessSettled
<1> QED
  BY <1>1, ProvenanceHolds, PTL

---------------------------------------------------------------------------
(* What becomes of a submission: what a client is told against the rows of *)
(* it, the flow as an implementation of AttemptService, and the order of   *)
(* mastery and recommendation.  The argument follows a submission through  *)
(* the places it may be at (OnePlace), keeps apart the answers that deny a *)
(* row from the stages that may still make one (RefusalInv, SilentInv),    *)
(* and, for the recommendation, notes what must be true before the request *)
(* to the Recommender leaves (RecommendInv).                               *)

(* The submissions a mailbox holds, and that it holds each of them once.   *)
CidsIn(q) == {m.cid : m \in Contents(q)}
Lonely(q) == \A i, j \in 1..Len(q) : q[i].cid = q[j].cid => i = j

Taken == {r.cid : r \in intake}
Early == {"none", "refused", "EVALUATE"}

(* A submission is at one place at a time: in the mailbox of the intake,   *)
(* taken, a conversation that has not asked the Evaluator, in the mailbox  *)
(* of the Evaluator, or past that; and only past that has it a row.        *)
OnePlace ==
    /\ Lonely(mail["intake"]) /\ Lonely(mail["evaluator"])
    /\ \A c \in CidsIn(mail["intake"]) : Stage(c) = "none" /\ c \notin Taken
    /\ \A c \in Taken : Stage(c) = "none"
    /\ \A c \in Cids : http[c] = "idle" =>
          Stage(c) = "none" /\ c \notin Taken \cup CidsIn(mail["intake"])
    /\ \A c \in Cids : Stage(c) \in Early => c \notin CidsIn(mail["evaluator"]) /\ Rows(c) = {}
    /\ \A c \in CidsIn(mail["evaluator"]) : Rows(c) = {}
    /\ OneRowPerSubmission

Refusals == {"coordinator_busy", "plan_unavailable"}

(* Wherever a refusal is on its way to the client, no row can come any more.*)
RefusalInv ==
    /\ \A c \in Cids : \A m \in inbox[c] : m.kind = "refuse-model-updated" => c \in Barred
    /\ \A c \in Cids : flow[c].error = "plan_unavailable" => c \in Barred
    /\ \A m \in Contents(mail["gateway"]) : m.kind \in Refusals => m.cid \in Barred
    /\ \A c \in Cids : \A m \in result[c] : m.kind \in Refusals => c \in Barred
    /\ \A c \in Cids : http[c] \in Refusals => c \in Barred
---------------------------------------------------------------------------
LEMMA CidsAppend ==
    ASSUME NEW q \in Seq(Message), NEW m \in Message
    PROVE  /\ CidsIn(Append(q, m)) = CidsIn(q) \cup {m.cid}
           /\ Lonely(q) /\ m.cid \notin CidsIn(q) => Lonely(Append(q, m))
<1>1. Contents(Append(q, m)) = Contents(q) \cup {m}
  BY AppendContents
<1>2. CidsIn(Append(q, m)) = CidsIn(q) \cup {m.cid}
  BY <1>1 DEF CidsIn
<1>3. ASSUME Lonely(q), m.cid \notin CidsIn(q) PROVE Lonely(Append(q, m))
  <2> DEFINE r == Append(q, m)
  <2>1. /\ Len(r) = Len(q) + 1 /\ Len(q) \in Nat
        /\ \A i \in 1..Len(q) : r[i] = q[i]
        /\ r[Len(q) + 1] = m
    OBVIOUS
  <2>2. \A i \in 1..Len(q) : q[i].cid # m.cid
    BY <1>3 DEF CidsIn, Contents
  <2> HIDE DEF r
  <2>3. ASSUME NEW i \in 1..Len(r), NEW j \in 1..Len(r), r[i].cid = r[j].cid PROVE i = j
    <3>1. (i \in 1..Len(q) \/ i = Len(q) + 1) /\ (j \in 1..Len(q) \/ j = Len(q) + 1)
      BY <2>1
    <3>2. CASE i \in 1..Len(q) /\ j \in 1..Len(q)
      BY <1>3, <2>1, <2>3, <3>2 DEF Lonely
    <3>3. CASE i \in 1..Len(q) /\ j = Len(q) + 1
      BY <2>1, <2>2, <2>3, <3>3
    <3>4. CASE i = Len(q) + 1 /\ j \in 1..Len(q)
      BY <2>1, <2>2, <2>3, <3>4
    <3> QED
      BY <3>1, <3>2, <3>3, <3>4
  <2> QED
    BY <2>3 DEF Lonely, r
<1> QED
  BY <1>2, <1>3

LEMMA CidsTail ==
    ASSUME NEW q \in Seq(Message), q # <<>>, Lonely(q)
    PROVE  /\ Lonely(Tail(q))
           /\ CidsIn(q) = CidsIn(Tail(q)) \cup {Head(q).cid}
           /\ Head(q).cid \notin CidsIn(Tail(q))
           /\ Head(q).cid \in Cids
<1> DEFINE t == Tail(q)
<1>1. /\ Len(q) \in Nat /\ Len(q) >= 1 /\ Head(q) = q[1] /\ q[1] \in Message
      /\ Len(t) = Len(q) - 1
      /\ \A i \in 1..Len(t) : t[i] = q[i + 1]
  OBVIOUS
<1>2. \A i \in 1..Len(t) : i + 1 \in 1..Len(q)
  BY <1>1
<1>3. \A i \in 1..Len(q) : i = 1 \/ (i - 1 \in 1..Len(t) /\ q[i] = t[i - 1])
  BY <1>1
<1> HIDE DEF t
<1>4. Lonely(t)
  <2> SUFFICES ASSUME NEW i \in 1..Len(t), NEW j \in 1..Len(t), t[i].cid = t[j].cid PROVE i = j
    BY DEF Lonely
  <2>1. i + 1 = j + 1
    BY <1>1, <1>2 DEF Lonely
  <2> QED
    BY <1>1, <2>1
<1>5. CidsIn(q) = CidsIn(t) \cup {q[1].cid}
  <2>1. Contents(q) = Contents(t) \cup {q[1]}
    <3>1. 1 \in 1..Len(q) /\ \A i \in 1..Len(t) : t[i] = q[i + 1]
      BY <1>1
    <3>2. ASSUME NEW m \in Contents(q) PROVE m \in Contents(t) \cup {q[1]}
      <4>1. PICK i \in 1..Len(q) : m = q[i]
        BY DEF Contents
      <4> QED
        BY <1>3, <4>1 DEF Contents
    <3>3. ASSUME NEW m \in Contents(t) PROVE m \in Contents(q)
      <4>1. PICK i \in 1..Len(t) : m = t[i]
        BY DEF Contents
      <4>2. i + 1 \in 1..Len(q) /\ m = q[i + 1]
        BY <1>2, <3>1, <4>1
      <4> QED
        BY <4>2 DEF Contents
    <3>4. q[1] \in Contents(q)
      BY <3>1 DEF Contents
    <3> QED
      BY <3>2, <3>3, <3>4
  <2> QED
    BY <2>1 DEF CidsIn
<1>6. q[1].cid \notin CidsIn(t)
  <2> SUFFICES ASSUME q[1].cid \in CidsIn(t) PROVE FALSE
    OBVIOUS
  <2>1. PICK i \in 1..Len(t) : q[1].cid = t[i].cid
    BY DEF CidsIn, Contents
  <2>2. 1 = i + 1
    BY <1>1, <1>2, <2>1 DEF Lonely
  <2> QED
    BY <1>1, <2>2
<1> QED
  BY <1>1, <1>4, <1>5, <1>6 DEF t, Message
---------------------------------------------------------------------------
(* What a step does to the submissions seen from outside: nothing, or one  *)
(* of them can no longer be recorded, or one is recorded.                  *)
Row(c) == [by |-> c, user |-> ask[c].user, task |-> ask[c].task]

Bars(c) ==
    /\ http[c] # "idle" /\ Rows(c) = {}
    /\ Barred' = Barred \cup {c}
    /\ UNCHANGED <<attempts, http, shown>>

Records(c) ==
    /\ http[c] # "idle" /\ c \notin Barred /\ Rows(c) = {}
    /\ attempts' = Append(attempts, Row(c))
    /\ Barred' = Barred
    /\ UNCHANGED <<http, shown>>

Outwardly ==
    \/ attempts' = attempts /\ Barred' = Barred
    \/ \E c \in Cids : Bars(c) \/ Records(c)

LEMMA BarredIs ==
    \A c : c \in Barred <=>
        /\ c \in Cids
        /\ \/ Stage(c) = "refused"
           \/ Stage(c) \notin {"none", "EVALUATE"} /\ c \notin CidsIn(mail["evaluator"]) /\ Rows(c) = {}
BY DEF Barred, CidsIn

LEMMA OnlyStages == TypeOK => \A c \in Cids : Stage(c) \in Stages
BY DEF TypeOK, CoordinatorTypeOK, Flow, Stage

LEMMA PlacesType ==
    ASSUME TypeOK
    PROVE  /\ \A a \in Agents : CidsIn(mail[a]) \subseteq Cids
           /\ Taken \subseteq Cids
<1>1. ASSUME NEW a \in Agents PROVE CidsIn(mail[a]) \subseteq Cids
  <2>1. mail[a] \in Seq(Message)
    BY DEF TypeOK, MessagesTypeOK
  <2>2. Contents(mail[a]) \subseteq Message
    BY <2>1, ContentsType
  <2> QED
    BY <2>2 DEF CidsIn, Message
<1>2. Taken \subseteq Cids
  BY DEF Taken, TypeOK, CoordinatorTypeOK, Intake
<1> QED
  BY <1>1, <1>2

(* A step that leaves the submissions where they are, but for stages past  *)
(* the Evaluator.                                                          *)
LEMMA QuietPlace ==
    ASSUME TypeOK, OnePlace, mail'["intake"] = mail["intake"], mail'["evaluator"] = mail["evaluator"],
           intake' = intake, attempts' = attempts,
           \A c \in Cids : http'[c] = "idle" => http[c] = "idle",
           \A c \in Cids : \/ flow'[c].stage = flow[c].stage
                           \/ Stage(c) \notin Early /\ flow'[c].stage \notin Early
    PROVE  OnePlace' /\ Outwardly
<1>1. Taken' = Taken /\ \A c : Rows(c)' = Rows(c)
  BY DEF Taken, Rows
<1>2. \A c \in Cids : /\ Stage(c)' \in Early => Stage(c)' = Stage(c)
                      /\ Stage(c) \in Early => Stage(c)' = Stage(c)
  BY DEF Stage
<1>3. CidsIn(mail["intake"])' = CidsIn(mail["intake"])
      /\ CidsIn(mail["evaluator"])' = CidsIn(mail["evaluator"])
  BY DEF CidsIn
<1>4. OnePlace'
  <2>1. CidsIn(mail["intake"]) \subseteq Cids /\ Taken \subseteq Cids
    BY PlacesType DEF Agents
  <2>2. /\ Lonely(mail["intake"])' /\ Lonely(mail["evaluator"])' /\ OneRowPerSubmission'
    BY DEF OnePlace, Lonely, OneRowPerSubmission
  <2> QED
    BY <1>1, <1>2, <1>3, <2>1, <2>2 DEF OnePlace, Early
<1>5. Barred' = Barred
  BY <1>1, <1>2, <1>3 DEF Barred, CidsIn, Early
<1> QED
  BY <1>4, <1>5 DEF Outwardly

---------------------------------------------------------------------------
(* The steps, one component after the other.                               *)

LEMMA BridgePlace ==
    ASSUME TypeOK, OnePlace, NEW c \in Cids, Bridge(c)
    PROVE  OnePlace' /\ Outwardly
<1>1. UNCHANGED <<flow, intake, attempts>>
  BY DEF Bridge, coordinatorVars, agentVars
<1>2. MessagesTypeOK /\ http \in [Cids -> HttpState]
  BY DEF TypeOK, BridgeTypeOK
<1>3. CASE Submit(c)
  <2> DEFINE m == Msg("submit-attempt", c, NoAttempt)
  <2>1. m \in Message /\ m.cid = c
    BY MsgType DEF MessageKinds, NoAttempt
  <2>2. mail' = [mail EXCEPT !["intake"] = Append(@, m)]
    BY <1>3 DEF Submit, Post
  <2> HIDE DEF m
  <2>3. /\ mail'["intake"] = Append(mail["intake"], m) /\ mail["intake"] \in Seq(Message)
        /\ mail'["evaluator"] = mail["evaluator"]
    BY <1>2, <2>2 DEF MessagesTypeOK, Agents
  <2>4. /\ CidsIn(mail["intake"])' = CidsIn(mail["intake"]) \cup {c}
        /\ Lonely(mail["intake"]) /\ c \notin CidsIn(mail["intake"]) => Lonely(mail["intake"])'
    BY <2>1, <2>3, CidsAppend
  <2>5. /\ Stage(c) = "none" /\ c \notin Taken \cup CidsIn(mail["intake"])
        /\ \A d \in Cids : http'[d] = "idle" => http[d] = "idle" /\ d # c
    BY <1>2, <1>3 DEF Submit, OnePlace
  <2>6. /\ Taken' = Taken /\ \A d : Rows(d)' = Rows(d) /\ Stage(d)' = Stage(d)
        /\ CidsIn(mail["evaluator"])' = CidsIn(mail["evaluator"])
    BY <1>1, <2>3 DEF Taken, Rows, Stage, CidsIn
  <2>7. Lonely(mail["evaluator"])' /\ OneRowPerSubmission'
    BY <1>1, <2>3 DEF OnePlace, Lonely, OneRowPerSubmission
  <2>8. OnePlace'
    BY <2>4, <2>5, <2>6, <2>7 DEF OnePlace
  <2>9. Barred' = Barred
    BY <2>6 DEF Barred, CidsIn
  <2> QED
    BY <1>1, <2>8, <2>9 DEF Outwardly
<1>4. CASE WaitReturns(c) \/ WaitExpires(c)
  <2>1. mail' = mail
    BY <1>4 DEF WaitReturns, WaitExpires
  <2>2. \A d \in Cids : http'[d] = "idle" => http[d] = "idle"
    <3>1. CASE WaitExpires(c)
      BY <1>2, <3>1 DEF WaitExpires
    <3>2. CASE WaitReturns(c)
      <4>1. PICK m \in result[c] : http' = [http EXCEPT ![c] = m.kind]
        BY <3>2 DEF WaitReturns
      <4>2. m.kind # "idle"
        BY <4>1 DEF TypeOK, BridgeTypeOK, Answer, AnswerKinds
      <4> QED
        BY <1>2, <4>1, <4>2
    <3> QED
      BY <1>4, <3>1, <3>2
  <2> QED
    BY <1>1, <2>1, <2>2, QuietPlace DEF Stage
<1> QED
  BY <1>3, <1>4 DEF Bridge

(* An agent other than the two that hold submissions handles a message.    *)
LEMMA AsidePlace ==
    ASSUME TypeOK, OnePlace, UNCHANGED <<http, flow, intake, attempts>>,
           mail'["intake"] = mail["intake"], mail'["evaluator"] = mail["evaluator"]
    PROVE  OnePlace' /\ Outwardly
BY QuietPlace DEF Stage

LEMMA IntakePlace ==
    ASSUME TypeOK, OnePlace, FlowLimit, IntakeBehaviour
    PROVE  OnePlace' /\ Outwardly
<1>1. UNCHANGED <<attempts, http, shown>>
  BY DEF IntakeBehaviour, bridgeVars, agentVars
<1>2. /\ MessagesTypeOK /\ flow \in [Cids -> Flow] /\ intake \in SUBSET Intake
      /\ {"gateway", "intake", "evaluator"} \subseteq Agents
  BY DEF TypeOK, CoordinatorTypeOK, Agents
<1>3. /\ CidsIn(mail["intake"]) \subseteq Cids /\ Taken \subseteq Cids
      /\ \A c : Rows(c)' = Rows(c)
  BY <1>1, PlacesType DEF Agents, Rows
<1>4. OneRowPerSubmission' /\ Lonely(mail["evaluator"])
  BY <1>1 DEF OnePlace, OneRowPerSubmission
<1>5. CASE IntakeReceive
  <2> DEFINE q == mail["intake"]
             c == Head(q).cid
  <2>1. /\ q # <<>> /\ intake = {} /\ flow' = flow
        /\ intake' = {[cid |-> c, baseline |-> MaxAttemptId(c)]}
        /\ mail' = [mail EXCEPT !["intake"] = Tail(@)]
    BY <1>5 DEF IntakeReceive, Take
  <2>2. q \in Seq(Message) /\ mail'["intake"] = Tail(q) /\ mail'["evaluator"] = mail["evaluator"]
    BY <1>2, <2>1 DEF MessagesTypeOK
  <2>3. /\ Lonely(mail["intake"])' /\ CidsIn(mail["intake"])' = CidsIn(q) \ {c}
        /\ c \in CidsIn(q)
    <3>1. Lonely(q)
      BY DEF OnePlace
    <3> HIDE DEF q
    <3>2. /\ Lonely(Tail(q)) /\ CidsIn(q) = CidsIn(Tail(q)) \cup {Head(q).cid}
          /\ Head(q).cid \notin CidsIn(Tail(q))
      BY <2>1, <2>2, <3>1, CidsTail
    <3>3. CidsIn(mail["intake"])' = CidsIn(Tail(q)) /\ Lonely(mail["intake"])'
      BY <2>2, <3>2 DEF CidsIn, Lonely
    <3> QED
      BY <3>2, <3>3
  <2>4. Taken' = {c} /\ Taken = {}
    BY <2>1 DEF Taken
  <2> HIDE DEF q, c
  <2>5. /\ \A d : Stage(d)' = Stage(d)
        /\ CidsIn(mail["evaluator"])' = CidsIn(mail["evaluator"]) /\ Lonely(mail["evaluator"])'
    BY <1>4, <2>1, <2>2 DEF Stage, CidsIn, Lonely
  <2>6. OnePlace'
    BY <1>1, <1>3, <1>4, <2>3, <2>4, <2>5 DEF OnePlace, q
  <2>7. Barred' = Barred
    BY <1>3, <2>5 DEF Barred, CidsIn
  <2> QED
    BY <1>1, <2>6, <2>7 DEF Outwardly
<1>6. ASSUME NEW r \in intake, NEW s \in {"EVALUATE", "refused"}, intake' = {},
             \A d \in Cids : flow'[d].stage = IF d = r.cid THEN s ELSE flow[d].stage,
             mail'["intake"] = mail["intake"], mail'["evaluator"] = mail["evaluator"]
      PROVE  OnePlace' /\ Outwardly
  <2> DEFINE c == r.cid
  <2>1. c \in Taken /\ c \in Cids /\ Taken' = {}
    BY <1>3, <1>6 DEF Taken
  <2>2. /\ Stage(c) = "none" /\ c \notin CidsIn(mail["intake"]) /\ http[c] # "idle"
        /\ Rows(c) = {} /\ c \notin CidsIn(mail["evaluator"])
    BY <2>1 DEF OnePlace, Early
  <2>3. /\ \A d \in Cids : Stage(d)' = IF d = c THEN s ELSE Stage(d)
        /\ CidsIn(mail["evaluator"])' = CidsIn(mail["evaluator"]) /\ Lonely(mail["evaluator"])'
        /\ CidsIn(mail["intake"])' = CidsIn(mail["intake"]) /\ Lonely(mail["intake"])'
    BY <1>4, <1>6 DEF Stage, CidsIn, Lonely, OnePlace
  <2> HIDE DEF c
  <2>4. OnePlace'
    BY <1>1, <1>3, <1>4, <1>6, <2>1, <2>2, <2>3 DEF OnePlace, Early
  <2>5. Barred' = IF s = "refused" THEN Barred \cup {c} ELSE Barred
    BY <1>3, <1>6, <2>1, <2>2, <2>3 DEF Barred, CidsIn
  <2>6. Outwardly
    BY <1>1, <2>1, <2>2, <2>5 DEF Outwardly, Bars
  <2> QED
    BY <2>4, <2>6
<1>7. CASE IntakeOpen
  <2>1. PICK r \in intake :
          /\ flow' = [flow EXCEPT ![r.cid].stage = "EVALUATE", ![r.cid].baseline = r.baseline]
          /\ intake' = {} /\ mail' = mail
    BY <1>7 DEF IntakeOpen
  <2>2. \A d \in Cids : flow'[d].stage = IF d = r.cid THEN "EVALUATE" ELSE flow[d].stage
    BY <1>2, <2>1 DEF Flow
  <2> QED
    BY <1>6, <2>1, <2>2
<1>8. CASE IntakeRefuse
  <2>1. PICK r \in intake :
          /\ Post("gateway", Msg("coordinator_busy", r.cid, NoAttempt))
          /\ flow' = IF r.cid \in routes THEN flow ELSE [flow EXCEPT ![r.cid].stage = "refused"]
          /\ intake' = {}
    BY <1>8 DEF IntakeRefuse
  <2>2. r.cid \notin routes
    <3>1. r.cid \in Taken
      BY <2>1 DEF Taken
    <3>2. Stage(r.cid) = "none"
      BY <3>1 DEF OnePlace
    <3> QED
      BY <3>2 DEF FlowLimit
  <2>3. \A d \in Cids : flow'[d].stage = IF d = r.cid THEN "refused" ELSE flow[d].stage
    BY <1>2, <2>1, <2>2 DEF Flow
  <2>4. mail'["intake"] = mail["intake"] /\ mail'["evaluator"] = mail["evaluator"]
    BY <1>2, <2>1 DEF Post, MessagesTypeOK
  <2> QED
    BY <1>6, <2>1, <2>3, <2>4
<1> QED
  BY <1>5, <1>7, <1>8 DEF IntakeBehaviour

LEMMA ConversationPlace ==
    ASSUME TypeOK, OnePlace, NEW c \in Cids, Conversation(c)
    PROVE  OnePlace' /\ Outwardly
<1>1. UNCHANGED <<attempts, http, shown>>
  BY DEF Conversation, bridgeVars, agentVars
<1>2. /\ MessagesTypeOK /\ flow \in [Cids -> Flow] /\ intake' = intake
      /\ mail \in [Agents -> Seq(Message)]
      /\ {"gateway", "intake", "evaluator", "recommender"} \subseteq Agents
  BY DEF TypeOK, CoordinatorTypeOK, MessagesTypeOK, Agents, Conversation, FlowStep, Evaluate,
         UpdateReceive, UpdateRefused, UpdateExpires, SettleFinds, SettleGivesUp, Recommend,
         RecommendReceive, RecommendExpires, Respond, Release
<1>3. CASE Evaluate(c)
  <2> DEFINE m == Msg("evaluate-query", c, NoAttempt)
  <2>1. m \in Message /\ m.cid = c
    BY MsgType DEF MessageKinds, NoAttempt
  <2>2. /\ mail' = [mail EXCEPT !["evaluator"] = Append(@, m)]
        /\ flow' = [flow EXCEPT ![c].stage = "UPDATE"]
        /\ Stage(c) = "EVALUATE"
    BY <1>3 DEF Evaluate, Post
  <2> HIDE DEF m
  <2>3. /\ mail'["evaluator"] = Append(mail["evaluator"], m) /\ mail["evaluator"] \in Seq(Message)
        /\ mail'["intake"] = mail["intake"]
    BY <1>2, <2>2
  <2>4. /\ CidsIn(mail["evaluator"])' = CidsIn(mail["evaluator"]) \cup {c}
        /\ Lonely(mail["evaluator"]) /\ c \notin CidsIn(mail["evaluator"]) => Lonely(mail["evaluator"])'
    BY <2>1, <2>3, CidsAppend
  <2>5. /\ c \notin CidsIn(mail["evaluator"]) /\ Rows(c) = {}
        /\ c \notin CidsIn(mail["intake"]) /\ c \notin Taken /\ http[c] # "idle"
    BY <2>2 DEF OnePlace, Early
  <2>6. \A d \in Cids : Stage(d)' = IF d = c THEN "UPDATE" ELSE Stage(d)
    BY <1>2, <2>2 DEF Flow, Stage
  <2>7. /\ Taken' = Taken /\ \A d : Rows(d)' = Rows(d)
        /\ CidsIn(mail["intake"])' = CidsIn(mail["intake"])
    BY <1>1, <1>2, <2>3 DEF Taken, Rows, CidsIn
  <2>8. Lonely(mail["intake"])' /\ OneRowPerSubmission'
    BY <1>1, <2>3 DEF OnePlace, Lonely, OneRowPerSubmission
  <2>9. Taken \subseteq Cids /\ CidsIn(mail["intake"]) \subseteq Cids
    BY <1>2, PlacesType
  <2>10. OnePlace'
    BY <1>1, <2>4, <2>5, <2>6, <2>7, <2>8, <2>9 DEF OnePlace, Early
  <2>11. Barred' = Barred
    <3>1. \A d \in Cids : d \in Barred' <=> d \in Barred
      BY <2>2, <2>4, <2>6, <2>7 DEF Barred, CidsIn
    <3> QED
      BY <3>1 DEF Barred
  <2> QED
    BY <1>1, <2>10, <2>11 DEF Outwardly
<1>4. CASE ~ Evaluate(c)
  <2>1. /\ \A d \in Cids \ {c} : flow'[d] = flow[d]
        /\ Stage(c) \notin Early /\ flow'[c].stage \notin Early
    <3>1. CASE UpdateReceive(c)
      BY <1>2, <3>1 DEF UpdateReceive, Early, Stage, Flow
    <3>2. CASE UpdateRefused(c) \/ UpdateExpires(c) \/ SettleFinds(c) \/ SettleGivesUp(c)
      BY <1>2, <3>2 DEF UpdateRefused, UpdateExpires, SettleFinds, SettleGivesUp, Early, Stage, Flow
    <3>3. CASE Recommend(c) \/ RecommendReceive(c) \/ RecommendExpires(c)
      BY <1>2, <3>3 DEF Recommend, RecommendReceive, RecommendExpires, Early, Stage, Flow
    <3>4. CASE Respond(c) \/ Release(c)
      BY <1>2, <3>4 DEF Respond, Release, Early, Stage, Flow
    <3> QED
      BY <1>4, <3>1, <3>2, <3>3, <3>4 DEF Conversation, FlowStep
  <2>2. mail'["intake"] = mail["intake"] /\ mail'["evaluator"] = mail["evaluator"]
    BY <1>2, <1>4 DEF Conversation, FlowStep, UpdateReceive, UpdateRefused, UpdateExpires,
         SettleFinds, SettleGivesUp, Recommend, RecommendReceive, RecommendExpires, Respond,
         Release, Post
  <2>3. \A d \in Cids : \/ flow'[d].stage = flow[d].stage
                        \/ Stage(d) \notin Early /\ flow'[d].stage \notin Early
    BY <2>1
  <2> QED
    BY <1>1, <1>2, <2>2, <2>3, QuietPlace
<1> QED
  BY <1>3, <1>4

(* The Evaluator takes a submission and records nothing.                   *)
LEMMA TakenUnrecorded ==
    ASSUME TypeOK, OnePlace, UNCHANGED <<attempts, http, shown, flow, intake>>,
           mail["evaluator"] # <<>>, Take("evaluator")
    PROVE  /\ OnePlace' /\ Outwardly
           /\ Head(mail["evaluator"]).cid \in Barred'
<1> DEFINE q == mail["evaluator"]
           c == Head(q).cid
<1>1. mail \in [Agents -> Seq(Message)] /\ "intake" \in Agents /\ "evaluator" \in Agents
  BY DEF TypeOK, MessagesTypeOK, Agents
<1>2. q \in Seq(Message) /\ mail'["evaluator"] = Tail(q) /\ mail'["intake"] = mail["intake"]
  BY <1>1 DEF Take
<1>3. /\ Lonely(mail["evaluator"])' /\ CidsIn(mail["evaluator"])' = CidsIn(q) \ {c}
      /\ c \in CidsIn(q) /\ c \in Cids
  <2>1. Lonely(q) /\ q # <<>>
    BY DEF OnePlace
  <2> HIDE DEF q
  <2>2. /\ Lonely(Tail(q)) /\ CidsIn(q) = CidsIn(Tail(q)) \cup {Head(q).cid}
        /\ Head(q).cid \notin CidsIn(Tail(q)) /\ Head(q).cid \in Cids
    BY <1>2, <2>1, CidsTail
  <2>3. CidsIn(mail["evaluator"])' = CidsIn(Tail(q)) /\ Lonely(mail["evaluator"])'
    BY <1>2, <2>2 DEF CidsIn, Lonely
  <2> QED
    BY <2>2, <2>3
<1> HIDE DEF c, q
<1>4. /\ Rows(c) = {} /\ Stage(c) \notin Early /\ http[c] # "idle"
  BY <1>3 DEF OnePlace, q, Early
<1>5. /\ Taken' = Taken /\ \A d : Rows(d)' = Rows(d) /\ Stage(d)' = Stage(d)
      /\ CidsIn(mail["intake"])' = CidsIn(mail["intake"])
      /\ Lonely(mail["intake"])' /\ OneRowPerSubmission'
  BY <1>2 DEF Taken, Rows, Stage, CidsIn, OnePlace, Lonely, OneRowPerSubmission
<1>6. OnePlace'
  BY <1>3, <1>5 DEF OnePlace, q
<1>7. Barred' = Barred \cup {c}
  <2>1. \A d \in Cids : d \in Barred' <=> d \in Barred \cup {c}
    BY <1>3, <1>4, <1>5 DEF Barred, CidsIn, Early, q
  <2> QED
    BY <1>3, <2>1 DEF Barred
<1> QED
  BY <1>3, <1>4, <1>6, <1>7 DEF Outwardly, Bars, c, q

LEMMA EvaluatorPlace ==
    ASSUME TypeOK, OnePlace, Evaluator
    PROVE  OnePlace' /\ Outwardly
<1>1. UNCHANGED <<http, shown, flow, intake>>
  BY DEF Evaluator, bridgeVars, coordinatorVars
<1>2. /\ mail \in [Agents -> Seq(Message)] /\ attempts \in Seq(Attempt)
      /\ informing \in SUBSET Informing
      /\ {"intake", "evaluator", "knowledge", "gamification"} \subseteq Agents
  BY DEF TypeOK, MessagesTypeOK, CoordinatorTypeOK, AgentsTypeOK, Agents
<1>3. ASSUME NEW c \in Cids, EvaluateUnknownTask(c) \/ EvaluatePlanUnavailable(c)
      PROVE  OnePlace' /\ Outwardly
  BY <1>1, <1>3, TakenUnrecorded
     DEF EvaluateUnknownTask, EvaluatePlanUnavailable, Evaluating, agentVars
<1>4. ASSUME NEW c \in Cids, EvaluatePersist(c) PROVE OnePlace' /\ Outwardly
  <2> DEFINE q == mail["evaluator"]
  <2>1. /\ q # <<>> /\ c = Head(q).cid /\ Take("evaluator")
        /\ attempts' = Append(attempts, Row(c))
    BY <1>4 DEF EvaluatePersist, Evaluating, Row
  <2>2. q \in Seq(Message) /\ mail'["evaluator"] = Tail(q) /\ mail'["intake"] = mail["intake"]
    BY <1>2, <2>1 DEF Take
  <2>3. /\ Lonely(mail["evaluator"])' /\ CidsIn(mail["evaluator"])' = CidsIn(q) \ {c}
        /\ c \in CidsIn(q)
    <3>1. Lonely(q) /\ q # <<>>
      BY <2>1 DEF OnePlace
    <3> HIDE DEF q
    <3>2. /\ Lonely(Tail(q)) /\ CidsIn(q) = CidsIn(Tail(q)) \cup {Head(q).cid}
          /\ Head(q).cid \notin CidsIn(Tail(q))
      BY <2>2, <3>1, CidsTail
    <3>3. CidsIn(mail["evaluator"])' = CidsIn(Tail(q)) /\ Lonely(mail["evaluator"])'
      BY <2>2, <3>2 DEF CidsIn, Lonely
    <3> QED
      BY <2>1, <3>2, <3>3
  <2>4. /\ Rows(c) = {} /\ Stage(c) \notin Early /\ http[c] # "idle"
    BY <2>3 DEF OnePlace, Early
  <2>5. /\ Taken' = Taken /\ \A d : Stage(d)' = Stage(d)
        /\ CidsIn(mail["intake"])' = CidsIn(mail["intake"]) /\ Lonely(mail["intake"])'
    BY <1>1, <2>2 DEF Taken, Stage, CidsIn, OnePlace, Lonely
  <2>6. /\ Len(attempts) \in Nat /\ Len(attempts') = Len(attempts) + 1
        /\ \A i \in 1..Len(attempts) : attempts'[i] = attempts[i]
        /\ attempts'[Len(attempts) + 1].by = c
    BY <1>2, <2>1 DEF Row
  <2>7. /\ \A d \in Cids \ {c} : Rows(d)' = Rows(d)
        /\ Rows(c)' # {}
    BY <2>6 DEF Rows
  <2>8. OneRowPerSubmission'
    <3>1. \A i \in 1..Len(attempts) : attempts[i].by # c
      BY <2>4 DEF Rows
    <3>2. SUFFICES ASSUME NEW i \in 1..Len(attempts'), NEW j \in 1..Len(attempts'),
                          attempts'[i].by = attempts'[j].by
                   PROVE  i = j
      BY DEF OneRowPerSubmission
    <3>3. /\ i \in 1..Len(attempts) \/ i = Len(attempts) + 1
          /\ j \in 1..Len(attempts) \/ j = Len(attempts) + 1
      BY <2>6
    <3>4. CASE i \in 1..Len(attempts) /\ j \in 1..Len(attempts)
      BY <2>6, <3>2, <3>4 DEF OnePlace, OneRowPerSubmission
    <3> QED
      BY <2>6, <3>1, <3>2, <3>3, <3>4
  <2> HIDE DEF q
  <2>9. CidsIn(q) \subseteq Cids
    BY <1>2, PlacesType DEF q
  <2>10. OnePlace'
    BY <1>1, <2>3, <2>4, <2>5, <2>7, <2>8, <2>9 DEF OnePlace, q
  <2>11. c \notin Barred /\ Barred' = Barred
    <3>1. c \notin Barred /\ \A d \in Cids : d \in Barred' <=> d \in Barred
      BY <2>3, <2>4, <2>5, <2>7 DEF Barred, CidsIn, Early, q
    <3> QED
      BY <3>1 DEF Barred
  <2> QED
    BY <1>1, <2>1, <2>4, <2>10, <2>11 DEF Outwardly, Records
<1>5. CASE EvaluatorInform
  <2>1. PICK r \in informing : Post(r.next, Msg("attempt-result", r.cid, r.attempt))
    BY <1>5 DEF EvaluatorInform
  <2>2. mail'["intake"] = mail["intake"] /\ mail'["evaluator"] = mail["evaluator"]
    BY <1>2, <2>1 DEF Informing, Post
  <2> QED
    BY <1>1, <1>5, <2>2, AsidePlace DEF EvaluatorInform
<1> QED
  BY <1>3, <1>4, <1>5 DEF Evaluator, EvaluatorStep

LEMMA DownstreamPlace ==
    ASSUME TypeOK, OnePlace, Gateway \/ KnowledgeModel \/ Gamification \/ Recommender
    PROVE  OnePlace' /\ Outwardly
<1>1. UNCHANGED <<http, flow, intake, attempts>>
  BY DEF Gateway, GatewayResolve, KnowledgeModel, Gamification, Recommender, KnowledgeUpdate,
         GamificationAward, RecommenderReply, bridgeVars, coordinatorVars, agentVars
<1>2. mail \in [Agents -> Seq(Message)] /\ "intake" \in Agents /\ "evaluator" \in Agents
  BY DEF TypeOK, MessagesTypeOK, Agents
<1>3. mail'["intake"] = mail["intake"] /\ mail'["evaluator"] = mail["evaluator"]
  BY <1>2 DEF Gateway, GatewayResolve, KnowledgeModel, Gamification, Recommender,
              KnowledgeUpdate, GamificationAward, RecommenderReply, Take
<1> QED
  BY <1>1, <1>3, AsidePlace

LEMMA FaultPlace ==
    ASSUME TypeOK, OnePlace, Fault
    PROVE  OnePlace' /\ Outwardly
<1>1. UNCHANGED <<http, shown, attempts>>
  BY DEF Fault, CoordinatorFault, AgentFault, bridgeVars, agentVars, EvaluatorFails,
         EvaluatorFailsInforming, KnowledgeFails, GamificationFails
<1>2. /\ mail \in [Agents -> Seq(Message)] /\ "intake" \in Agents /\ "evaluator" \in Agents
      /\ flow \in [Cids -> Flow]
  BY DEF TypeOK, MessagesTypeOK, CoordinatorTypeOK, Agents
<1>3. CASE IntakeDies
  <2> DEFINE q == mail["intake"]
  <2>1. /\ q # <<>> /\ q \in Seq(Message) /\ mail'["intake"] = Tail(q)
        /\ mail'["evaluator"] = mail["evaluator"] /\ UNCHANGED <<intake, flow>>
    BY <1>2, <1>3 DEF IntakeDies, Take
  <2>2. Lonely(q)
    BY DEF OnePlace
  <2> HIDE DEF q
  <2>3. Lonely(Tail(q)) /\ CidsIn(Tail(q)) \subseteq CidsIn(q)
    BY <2>1, <2>2, CidsTail
  <2>4. Lonely(mail["intake"])' /\ CidsIn(mail["intake"])' \subseteq CidsIn(q)
    BY <2>1, <2>3 DEF CidsIn, Lonely
  <2>5. /\ Taken' = Taken /\ \A d : Rows(d)' = Rows(d) /\ Stage(d)' = Stage(d)
        /\ CidsIn(mail["evaluator"])' = CidsIn(mail["evaluator"])
        /\ Lonely(mail["evaluator"])' /\ OneRowPerSubmission'
    BY <1>1, <2>1 DEF Taken, Rows, Stage, CidsIn, OnePlace, Lonely, OneRowPerSubmission
  <2>6. OnePlace'
    BY <1>1, <2>4, <2>5 DEF OnePlace, q
  <2>7. Barred' = Barred
    BY <2>5 DEF Barred, CidsIn
  <2> QED
    BY <1>1, <2>6, <2>7 DEF Outwardly
<1>6. CASE IntakeRefusalFails
  <2>1. Taken' = {} /\ UNCHANGED <<mail, flow>>
    BY <1>6 DEF IntakeRefusalFails, Taken
  <2>2. /\ \A d : Rows(d)' = Rows(d) /\ Stage(d)' = Stage(d)
        /\ \A a : CidsIn(mail[a])' = CidsIn(mail[a])
    BY <1>1, <2>1 DEF Rows, Stage, CidsIn
  <2>3. /\ Lonely(mail["intake"])' /\ Lonely(mail["evaluator"])' /\ OneRowPerSubmission'
    BY <1>1, <2>1 DEF OnePlace, Lonely, OneRowPerSubmission
  <2>4. OnePlace'
    BY <1>1, <2>1, <2>2, <2>3 DEF OnePlace
  <2>5. Barred' = Barred
    BY <2>2 DEF Barred, CidsIn
  <2> QED
    BY <1>1, <2>4, <2>5 DEF Outwardly
<1>7. ASSUME NEW c \in Cids, FlowFails(c), Stage(c) = "EVALUATE" PROVE OnePlace' /\ Outwardly
  <2>1. flow' = [flow EXCEPT ![c].stage = "done"] /\ UNCHANGED <<mail, intake>>
    BY <1>7 DEF FlowFails
  <2>2. /\ c \notin CidsIn(mail["evaluator"]) /\ Rows(c) = {}
        /\ c \notin CidsIn(mail["intake"]) /\ c \notin Taken /\ http[c] # "idle"
    BY <1>7 DEF OnePlace, Early
  <2>3. \A d \in Cids : Stage(d)' = IF d = c THEN "done" ELSE Stage(d)
    BY <1>2, <2>1 DEF Flow, Stage
  <2>4. /\ Taken' = Taken /\ \A d : Rows(d)' = Rows(d)
        /\ \A a : CidsIn(mail[a])' = CidsIn(mail[a])
    BY <1>1, <2>1 DEF Taken, Rows, CidsIn
  <2>5. /\ Lonely(mail["intake"])' /\ Lonely(mail["evaluator"])' /\ OneRowPerSubmission'
    BY <1>1, <2>1 DEF OnePlace, Lonely, OneRowPerSubmission
  <2>6. Taken \subseteq Cids /\ CidsIn(mail["intake"]) \subseteq Cids
    BY <1>2, PlacesType
  <2>7. OnePlace'
    BY <1>1, <2>2, <2>3, <2>4, <2>5, <2>6 DEF OnePlace, Early
  <2>8. Barred' = Barred \cup {c}
    <3>1. \A d \in Cids : d \in Barred' <=> d \in Barred \cup {c}
      BY <1>7, <2>2, <2>3, <2>4 DEF Barred, CidsIn
    <3> QED
      BY <3>1 DEF Barred
  <2> QED
    BY <1>1, <2>2, <2>7, <2>8 DEF Outwardly, Bars
<1>4. ASSUME NEW c \in Cids, FlowFails(c), Stage(c) # "EVALUATE" PROVE OnePlace' /\ Outwardly
  <2>1. /\ Stage(c) \notin Early /\ flow'[c].stage \notin Early
        /\ \A d \in Cids \ {c} : flow'[d] = flow[d]
        /\ UNCHANGED <<mail, intake>>
    BY <1>2, <1>4 DEF FlowFails, Early, Stage, Flow
  <2>2. \A d \in Cids : \/ flow'[d].stage = flow[d].stage
                        \/ Stage(d) \notin Early /\ flow'[d].stage \notin Early
    BY <2>1
  <2> QED
    BY <1>1, <2>1, <2>2, QuietPlace
<1>5. CASE AgentFault
  <2>1. UNCHANGED <<intake, flow>>
    BY <1>5 DEF AgentFault, coordinatorVars
  <2>2. CASE EvaluatorFails
    BY <1>1, <2>1, <2>2, TakenUnrecorded DEF EvaluatorFails
  <2>3. CASE EvaluatorFailsInforming \/ KnowledgeFails \/ GamificationFails
    <3>1. mail'["intake"] = mail["intake"] /\ mail'["evaluator"] = mail["evaluator"]
      BY <1>2, <2>3 DEF EvaluatorFailsInforming, KnowledgeFails, GamificationFails, Take
    <3> QED
      BY <1>1, <2>1, <3>1, AsidePlace
  <2> QED
    BY <1>5, <2>2, <2>3 DEF AgentFault
<1> QED
  BY <1>3, <1>4, <1>5, <1>6, <1>7 DEF Fault, CoordinatorFault
---------------------------------------------------------------------------
LEMMA InitPlace == Init => OnePlace /\ Barred = {}
<1> SUFFICES ASSUME Init PROVE OnePlace /\ Barred = {}
  OBVIOUS
<1>1. /\ mail["intake"] = <<>> /\ mail["evaluator"] = <<>> /\ intake = {} /\ attempts = <<>>
      /\ \A c \in Cids : http[c] = "idle" /\ flow[c].stage = "none"
  BY DEF Init, MessagesInit, BridgeInit, CoordinatorInit, NoFlow, Agents
<1>2. /\ CidsIn(<<>>) = {} /\ Lonely(<<>>) /\ Taken = {} /\ OneRowPerSubmission
      /\ \A c : Rows(c) = {}
  BY <1>1 DEF CidsIn, Contents, Lonely, Taken, OneRowPerSubmission, Rows
<1> QED
  BY <1>1, <1>2 DEF OnePlace, Barred, CidsIn, Early, Stage

(* Every step keeps a submission at one place and is, seen from outside,   *)
(* nothing, a barring or a recording.                                      *)
LEMMA NextPlace ==
    ASSUME TypeOK, FlowLimit, OnePlace, [Next]_vars
    PROVE  OnePlace' /\ Outwardly
<1>1. ASSUME NEW c \in Cids, Bridge(c) PROVE OnePlace' /\ Outwardly
  BY <1>1, BridgePlace
<1>2. ASSUME NEW c \in Cids, Conversation(c) PROVE OnePlace' /\ Outwardly
  BY <1>2, ConversationPlace
<1>3. CASE UNCHANGED vars
  BY <1>3, AsidePlace DEF vars, messageVars, bridgeVars, coordinatorVars, agentVars
<1> QED
  BY <1>1, <1>2, <1>3, IntakePlace, EvaluatorPlace, DownstreamPlace, FaultPlace DEF Next

LEMMA PlaceHolds == Spec => []OnePlace
<1>1. Init => OnePlace
  BY InitPlace
<1>2. TypeOK /\ FlowLimit /\ OnePlace /\ [Next]_vars => OnePlace'
  BY NextPlace
<1> QED
  BY <1>1, <1>2, TypeCorrect, LimitHolds, PTL DEF Spec
---------------------------------------------------------------------------
(* What a step does to the answers on their way to the clients: each was   *)
(* there before or came from the place upstream, and a refusal is made     *)
(* only where the submission is barred.                                    *)
RefusesArrive ==
    \A c \in Cids : \A m \in inbox'[c] :
        m \in inbox[c] \/ m.kind # "refuse-model-updated" \/ c \in Barred'

RefusesTaken ==
    \A c \in Cids : flow'[c].error = "plan_unavailable" =>
        \/ flow[c].error = "plan_unavailable"
        \/ \E m \in inbox[c] : m.kind = "refuse-model-updated"

AnswersLeave ==
    \A m \in Contents(mail'["gateway"]) :
        \/ m \in Contents(mail["gateway"])
        \/ m.kind = "ok"
        \/ /\ m.attempt = NoAttempt
           /\ m.kind \in Refusals => m.cid \in Barred' \/ flow[m.cid].error = "plan_unavailable"

AnswersResolve ==
    \A c \in Cids : \A m \in result'[c] :
        m \in result[c] \/ (m \in Contents(mail["gateway"]) /\ m.cid = c)

Replied(c) ==
    /\ http[c] = "waiting"
    /\ \/ \E m \in result[c] : /\ http' = [http EXCEPT ![c] = m.kind]
                               /\ shown' = [shown EXCEPT ![c] = m.attempt]
       \/ http' = [http EXCEPT ![c] = "orchestration_timeout"] /\ shown' = shown

AnswersReturn ==
    \/ http' = http /\ shown' = shown
    \/ \E c \in Cids : \/ Replied(c)
                       \/ http[c] = "idle" /\ http' = [http EXCEPT ![c] = "waiting"] /\ shown' = shown

Passage == RefusesArrive /\ RefusesTaken /\ AnswersLeave /\ AnswersResolve /\ AnswersReturn

LEMMA BridgePassage ==
    ASSUME TypeOK, NEW c \in Cids, Bridge(c)
    PROVE  Passage
<1>1. UNCHANGED <<inbox, flow>>
  BY DEF Bridge, coordinatorVars
<1>2. mail'["gateway"] = mail["gateway"]
  BY DEF Bridge, Submit, WaitReturns, WaitExpires, Post, TypeOK, MessagesTypeOK, Agents
<1>3. AnswersResolve
  BY DEF Bridge, Submit, WaitReturns, WaitExpires, AnswersResolve, TypeOK, BridgeTypeOK
<1>4. AnswersReturn
  BY DEF Bridge, Submit, WaitReturns, WaitExpires, AnswersReturn, Replied
<1> QED
  BY <1>1, <1>2, <1>3, <1>4 DEF Passage, RefusesArrive, RefusesTaken, AnswersLeave

LEMMA GatewayPassage ==
    ASSUME TypeOK, Gateway
    PROVE  Passage
<1> DEFINE m == Head(mail["gateway"])
<1>1. UNCHANGED <<inbox, flow, http, shown>> /\ mail["gateway"] # <<>> /\ Take("gateway")
  BY DEF Gateway, GatewayResolve, coordinatorVars
<1>2. result' = result \/ result' = [result EXCEPT ![m.cid] = {m}]
  BY DEF Gateway, GatewayResolve
<1>3. /\ m \in Contents(mail["gateway"]) /\ m \in Message
      /\ Contents(mail'["gateway"]) \subseteq Contents(mail["gateway"])
  BY <1>1, TakeType DEF TypeOK, Agents
<1> HIDE DEF m
<1>4. AnswersResolve
  BY <1>2, <1>3 DEF AnswersResolve, TypeOK, BridgeTypeOK, Message
<1> QED
  BY <1>1, <1>3, <1>4 DEF Passage, RefusesArrive, RefusesTaken, AnswersLeave, AnswersReturn

LEMMA IntakePassage ==
    ASSUME TypeOK, FlowLimit, OnePlace, IntakeBehaviour
    PROVE  Passage
<1>1. UNCHANGED <<inbox, result, http, shown>>
  BY DEF IntakeBehaviour, IntakeReceive, IntakeOpen, IntakeRefuse, bridgeVars
<1>2. /\ MessagesTypeOK /\ flow \in [Cids -> Flow] /\ intake \in SUBSET Intake
      /\ "gateway" \in Agents /\ "intake" \in Agents
  BY DEF TypeOK, CoordinatorTypeOK, Agents
<1>3. \A c \in Cids : flow'[c].error = flow[c].error
  <2>1. CASE IntakeReceive
    BY <2>1 DEF IntakeReceive
  <2>2. CASE IntakeOpen
    BY <1>2, <2>2 DEF IntakeOpen, Flow
  <2>3. CASE IntakeRefuse
    BY <1>2, <2>3 DEF IntakeRefuse, Flow
  <2> QED
    BY <2>1, <2>2, <2>3 DEF IntakeBehaviour
<1>4. AnswersLeave
  <2>1. CASE IntakeReceive \/ IntakeOpen
    <3>1. mail'["gateway"] = mail["gateway"]
      BY <1>2, <2>1 DEF IntakeReceive, IntakeOpen, Take, MessagesTypeOK
    <3> QED
      BY <3>1 DEF AnswersLeave
  <2>2. CASE IntakeRefuse
    <3>1. PICK r \in intake :
            /\ Post("gateway", Msg("coordinator_busy", r.cid, NoAttempt))
            /\ flow' = IF r.cid \in routes THEN flow ELSE [flow EXCEPT ![r.cid].stage = "refused"]
      BY <2>2 DEF IntakeRefuse
    <3>2. r.cid \in Cids /\ r.cid \in Taken
      BY <1>2, <3>1 DEF Intake, Taken
    <3>3. r.cid \notin routes
      BY <3>2 DEF OnePlace, FlowLimit
    <3>4. flow'[r.cid].stage = "refused"
      BY <1>2, <3>1, <3>2, <3>3 DEF Flow
    <3>5. r.cid \in Barred'
      BY <3>2, <3>4 DEF Barred, Stage
    <3> DEFINE m == Msg("coordinator_busy", r.cid, NoAttempt)
    <3>6. m \in Message /\ m.cid = r.cid /\ m.attempt = NoAttempt
      BY <3>2, MsgType DEF MessageKinds, AnswerKinds, NoAttempt
    <3>7. Contents(mail'["gateway"]) = Contents(mail["gateway"]) \cup {m}
      BY <1>2, <3>1, <3>6, PostType
    <3> HIDE DEF m
    <3> QED
      BY <3>5, <3>6, <3>7 DEF AnswersLeave
  <2> QED
    BY <2>1, <2>2 DEF IntakeBehaviour
<1> QED
  BY <1>1, <1>3, <1>4 DEF Passage, RefusesArrive, RefusesTaken, AnswersResolve, AnswersReturn

LEMMA ConversationPassage ==
    ASSUME TypeOK, NEW c \in Cids, Conversation(c)
    PROVE  Passage
<1>1. UNCHANGED <<result, http, shown>>
  BY DEF Conversation, bridgeVars
<1>2. /\ MessagesTypeOK /\ flow \in [Cids -> Flow] /\ inbox \in [Cids -> SUBSET Message]
      /\ {"gateway", "evaluator", "recommender"} \subseteq Agents
  BY DEF TypeOK, CoordinatorTypeOK, MessagesTypeOK, Agents
<1>3. \A d \in Cids : inbox'[d] \subseteq inbox[d]
  BY <1>2 DEF Conversation, FlowStep, Evaluate, UpdateReceive, UpdateRefused, UpdateExpires,
              SettleFinds, SettleGivesUp, Recommend, RecommendReceive, RecommendExpires,
              Respond, Release
<1>4. RefusesTaken
  <2>1. CASE UpdateRefused(c)
    BY <1>2, <2>1 DEF UpdateRefused, RefusesTaken, Flow
  <2>2. CASE SettleGivesUp(c)
    BY <1>2, <2>2 DEF SettleGivesUp, RefusesTaken, Flow
  <2>3. CASE ~ (UpdateRefused(c) \/ SettleGivesUp(c))
    <3>1. \A d \in Cids : flow'[d].error = flow[d].error
      BY <1>2, <2>3 DEF Conversation, FlowStep, Evaluate, UpdateReceive, UpdateExpires,
              SettleFinds, Recommend, RecommendReceive, RecommendExpires, Respond, Release, Flow
    <3> QED
      BY <3>1 DEF RefusesTaken
  <2> QED
    BY <2>1, <2>2, <2>3
<1>5. AnswersLeave
  <2>1. CASE Respond(c)
    <3> DEFINE m == IF flow[c].error # "none" THEN Msg(flow[c].error, c, NoAttempt)
                                              ELSE Msg("ok", c, flow[c].attempt)
    <3>1. flow[c].error \in Errors /\ flow[c].attempt \in Nat
      BY <1>2 DEF Flow
    <3>2. m \in Message
      BY <3>1 DEF Msg, Message, MessageKinds, AnswerKinds, NoAttempt, Errors
    <3>3. \/ m.kind = "ok"
          \/ m.attempt = NoAttempt /\ m.kind = flow[c].error /\ m.cid = c
      BY DEF Msg
    <3>4. m.kind \in Refusals => flow[m.cid].error = "plan_unavailable"
      BY <3>1, <3>3 DEF Refusals, Errors
    <3>5. Post("gateway", m)
      BY <2>1 DEF Respond
    <3> HIDE DEF m
    <3>6. Contents(mail'["gateway"]) = Contents(mail["gateway"]) \cup {m}
      BY <1>2, <3>2, <3>5, PostType
    <3> QED
      BY <3>3, <3>4, <3>6 DEF AnswersLeave
  <2>2. CASE ~ Respond(c)
    <3>1. mail'["gateway"] = mail["gateway"]
      BY <1>2, <2>2 DEF Conversation, FlowStep, Evaluate, UpdateReceive, UpdateRefused,
         UpdateExpires, SettleFinds, SettleGivesUp, Recommend, RecommendReceive,
         RecommendExpires, Release, Post, MessagesTypeOK
    <3> QED
      BY <3>1 DEF AnswersLeave
  <2> QED
    BY <2>1, <2>2
<1> QED
  BY <1>1, <1>3, <1>4, <1>5 DEF Passage, RefusesArrive, AnswersResolve, AnswersReturn

(* The agents and the exceptions touch no answer, but for the refuse of an *)
(* Evaluator that has no plan.                                             *)
LEMMA AgentsPassage ==
    ASSUME TypeOK, OnePlace, Evaluator \/ KnowledgeModel \/ Gamification \/ Recommender \/ Fault
    PROVE  Passage
<1>1. UNCHANGED <<result, http, shown>>
  BY DEF Evaluator, KnowledgeModel, Gamification, Recommender, Fault, CoordinatorFault,
         AgentFault, bridgeVars
<1>2. /\ MessagesTypeOK /\ flow \in [Cids -> Flow] /\ mail \in [Agents -> Seq(Message)]
      /\ "gateway" \in Agents /\ informing \in SUBSET Informing
  BY DEF TypeOK, CoordinatorTypeOK, AgentsTypeOK, MessagesTypeOK, Agents
<1>3. \A d \in Cids : flow'[d].error = flow[d].error
  <2>1. ASSUME NEW c \in Cids, FlowFails(c) PROVE \A d \in Cids : flow'[d].error = flow[d].error
    BY <1>2, <2>1 DEF FlowFails, Flow
  <2>2. CASE ~ \E c \in Cids : FlowFails(c)
    BY <2>2 DEF Evaluator, KnowledgeModel, Gamification, Recommender, Fault, CoordinatorFault,
       AgentFault, coordinatorVars, IntakeDies, IntakeRefusalFails
  <2> QED
    BY <2>1, <2>2
<1>4. mail'["gateway"] = mail["gateway"]
  <2>1. CASE Evaluator
    <3>1. CASE EvaluatorInform
      BY <1>2, <3>1 DEF EvaluatorInform, Post, Informing
    <3>2. CASE ~ EvaluatorInform
      BY <1>2, <2>1, <3>2 DEF Evaluator, EvaluatorStep, EvaluateUnknownTask,
         EvaluatePlanUnavailable, EvaluatePersist, Take
    <3> QED
      BY <3>1, <3>2
  <2>2. CASE KnowledgeModel \/ Gamification \/ Recommender
    BY <1>2, <2>2 DEF KnowledgeModel, Gamification, Recommender, KnowledgeUpdate,
       GamificationAward, RecommenderReply, Take
  <2>3. CASE Fault
    BY <1>2, <2>3 DEF Fault, CoordinatorFault, AgentFault, IntakeDies, IntakeRefusalFails, FlowFails,
       EvaluatorFails, EvaluatorFailsInforming, KnowledgeFails, GamificationFails, Take
  <2> QED
    BY <2>1, <2>2, <2>3
<1>5. RefusesArrive
  <2>1. ASSUME NEW m \in Message, Dispatch(m),
               m.kind # "refuse-model-updated" \/ m.cid \in Barred'
        PROVE  RefusesArrive
    BY <1>2, <2>1, DispatchType DEF RefusesArrive
  <2>2. CASE inbox' = inbox
    BY <2>2 DEF RefusesArrive
  <2>3. ASSUME NEW c \in Cids, EvaluatePlanUnavailable(c), Evaluator PROVE RefusesArrive
    <3> DEFINE m == Msg("refuse-model-updated", c, NoAttempt)
    <3>0. "refuse-model-updated" \in MessageKinds /\ NoAttempt \in Nat
      BY DEF MessageKinds, FlowKinds, NoAttempt
    <3>1. m \in Message /\ m.cid = c
      BY <3>0, MsgType
    <3>2. Dispatch(m)
      BY <2>3 DEF EvaluatePlanUnavailable
    <3>3. c \in Barred'
      BY <2>3, TakenUnrecorded DEF EvaluatePlanUnavailable, Evaluating, Evaluator, agentVars,
         bridgeVars, coordinatorVars
    <3> QED
      BY <2>1, <3>1, <3>2, <3>3
  <2>4. CASE KnowledgeModel
    <3> DEFINE h == Head(mail["knowledge"])
               m == Msg("model-updated", h.cid, h.attempt)
    <3>1. h \in Message /\ Dispatch(m)
      BY <1>2, <2>4, TakeType DEF KnowledgeModel, KnowledgeUpdate, Agents
    <3>0. "model-updated" \in MessageKinds /\ h.cid \in Cids /\ h.attempt \in Nat
      BY <3>1 DEF MessageKinds, FlowKinds, Message
    <3> HIDE DEF h
    <3>2. m \in Message /\ m.kind = "model-updated"
      BY <3>0, MsgType
    <3> QED
      BY <2>1, <3>1, <3>2
  <2>5. CASE Recommender
    <3> DEFINE h == Head(mail["recommender"])
               m == Msg("recommend-next", h.cid, NoAttempt)
    <3>1. h \in Message /\ Dispatch(m)
      BY <1>2, <2>5, TakeType DEF Recommender, RecommenderReply, Agents
    <3>0. "recommend-next" \in MessageKinds /\ h.cid \in Cids /\ NoAttempt \in Nat
      BY <3>1 DEF MessageKinds, FlowKinds, Message, NoAttempt
    <3> HIDE DEF h
    <3>2. m \in Message /\ m.kind = "recommend-next"
      BY <3>0, MsgType
    <3> QED
      BY <2>1, <3>1, <3>2
  <2>6. ASSUME ~ \E c \in Cids : EvaluatePlanUnavailable(c), Evaluator \/ Gamification \/ Fault
        PROVE  inbox' = inbox
    BY <2>6 DEF Evaluator, EvaluatorStep, EvaluateUnknownTask, EvaluatePersist, EvaluatorInform,
       Gamification, GamificationAward, Fault, CoordinatorFault, AgentFault, IntakeDies,
       IntakeRefusalFails, FlowFails, EvaluatorFails, EvaluatorFailsInforming, KnowledgeFails, GamificationFails
  <2>7. CASE Gamification \/ Fault
    BY <2>2, <2>7 DEF Gamification, GamificationAward, Fault, CoordinatorFault, AgentFault,
       IntakeDies, IntakeRefusalFails, FlowFails, EvaluatorFails, EvaluatorFailsInforming, KnowledgeFails,
       GamificationFails
  <2> QED
    BY <2>2, <2>3, <2>4, <2>5, <2>6, <2>7
<1> QED
  BY <1>1, <1>3, <1>4, <1>5 DEF Passage, RefusesTaken, AnswersLeave, AnswersResolve, AnswersReturn

LEMMA NextPassage ==
    ASSUME TypeOK, FlowLimit, OnePlace, [Next]_vars
    PROVE  Passage
<1>1. ASSUME NEW c \in Cids, Bridge(c) PROVE Passage
  BY <1>1, BridgePassage
<1>2. ASSUME NEW c \in Cids, Conversation(c) PROVE Passage
  BY <1>2, ConversationPassage
<1>3. CASE UNCHANGED vars
  BY <1>3 DEF vars, messageVars, bridgeVars, coordinatorVars, Passage, RefusesArrive,
     RefusesTaken, AnswersLeave, AnswersResolve, AnswersReturn
<1> QED
  BY <1>1, <1>2, <1>3, GatewayPassage, IntakePassage, AgentsPassage DEF Next
---------------------------------------------------------------------------
LEMMA StaysBarred ==
    ASSUME Outwardly
    PROVE  Barred \subseteq Barred'
BY DEF Outwardly, Bars, Records

LEMMA RefusalKept ==
    ASSUME TypeOK, TypeOK', RefusalInv, Outwardly, Passage
    PROVE  RefusalInv'
<1>1. Barred \subseteq Barred'
  BY StaysBarred
<1>2. \A c \in Cids : \A m \in inbox'[c] : m.kind = "refuse-model-updated" => c \in Barred'
  BY <1>1 DEF RefusalInv, Passage, RefusesArrive
<1>3. \A c \in Cids : flow'[c].error = "plan_unavailable" => c \in Barred'
  BY <1>1 DEF RefusalInv, Passage, RefusesTaken
<1>4. \A m \in Contents(mail'["gateway"]) : m.kind \in Refusals => m.cid \in Barred'
  <2> SUFFICES ASSUME NEW m \in Contents(mail'["gateway"]), m.kind \in Refusals
               PROVE  m.cid \in Barred'
    OBVIOUS
  <2>1. CASE m \in Contents(mail["gateway"])
    BY <1>1, <2>1 DEF RefusalInv
  <2>2. CASE m.cid \in Barred'
    BY <2>2
  <2>3. CASE flow[m.cid].error = "plan_unavailable" /\ m.cid \in Cids
    BY <1>1, <2>3 DEF RefusalInv
  <2>4. m.cid \in Cids
    <3>1. Contents(mail'["gateway"]) \subseteq Answer
      BY DEF TypeOK, BridgeTypeOK
    <3> QED
      BY <3>1 DEF Answer
  <2> QED
    BY <2>1, <2>2, <2>3, <2>4 DEF Passage, AnswersLeave, Refusals
<1>5. \A c \in Cids : \A m \in result'[c] : m.kind \in Refusals => c \in Barred'
  BY <1>1 DEF RefusalInv, Passage, AnswersResolve
<1>6. \A c \in Cids : http'[c] \in Refusals => c \in Barred'
  <2>1. http \in [Cids -> HttpState]
    BY DEF TypeOK, BridgeTypeOK
  <2> SUFFICES ASSUME NEW c \in Cids, http'[c] \in Refusals PROVE c \in Barred'
    OBVIOUS
  <2>2. CASE http'[c] = http[c]
    BY <1>1, <2>2 DEF RefusalInv
  <2>3. CASE http'[c] # http[c]
    <3>1. PICK m \in result[c] : http'[c] = m.kind
      BY <2>1, <2>3 DEF Passage, AnswersReturn, Replied, Refusals
    <3> QED
      BY <1>1, <3>1 DEF RefusalInv
  <2> QED
    BY <2>2, <2>3
<1> QED
  BY <1>2, <1>3, <1>4, <1>5, <1>6 DEF RefusalInv

LEMMA InitRefusal == Init => RefusalInv
<1> SUFFICES ASSUME Init PROVE RefusalInv
  OBVIOUS
<1>1. /\ mail["gateway"] = <<>>
      /\ \A c \in Cids : /\ inbox[c] = {} /\ result[c] = {} /\ http[c] = "idle"
                         /\ flow[c].error = "none"
  BY DEF Init, MessagesInit, BridgeInit, CoordinatorInit, NoFlow, Agents
<1> QED
  BY <1>1 DEF RefusalInv, Refusals, Contents

LEMMA NextRefusal ==
    TypeOK /\ TypeOK' /\ FlowLimit /\ OnePlace /\ RefusalInv /\ [Next]_vars => RefusalInv'
BY NextPassage, NextPlace, RefusalKept

LEMMA RefusalHolds == Spec => []RefusalInv
<1>1. Init => RefusalInv
  BY InitRefusal
<1>2. TypeOK /\ TypeOK' /\ FlowLimit /\ OnePlace /\ RefusalInv /\ [Next]_vars => RefusalInv'
  BY NextRefusal
<1> QED
  BY <1>1, <1>2, TypeCorrect, LimitHolds, PlaceHolds, PTL DEF Spec

(* Errata 62 and 69: a submission that was answered with coordinator_busy  *)
(* or plan_unavailable has no row and is not on its way to the Evaluator,  *)
(* now or later; and however answers are delayed or given up on, one       *)
(* submission is recorded at most once.                                    *)
THEOREM RowsAreAsAnswered == Spec => []RowsAsAnswered
<1>1. OnePlace /\ RefusalInv => RowsAsAnswered
  <2> SUFFICES ASSUME OnePlace, RefusalInv PROVE RowsAsAnswered
    OBVIOUS
  <2>1. ASSUME NEW c \in Cids, http[c] \in Refusals
        PROVE  Rows(c) = {} /\ c \notin CidsIn(mail["evaluator"])
    <3>1. c \in Barred
      BY <2>1 DEF RefusalInv
    <3> QED
      BY <3>1, BarredIs DEF OnePlace, Early
  <2> QED
    BY <2>1 DEF RowsAsAnswered, RefusalLeavesNoRow, OnePlace, Refusals, CidsIn
<1> QED
  BY <1>1, PlaceHolds, RefusalHolds, PTL
---------------------------------------------------------------------------
(* An answer other than "ok" names no attempt.                             *)
SilentInv ==
    /\ \A m \in Contents(mail["gateway"]) : m.kind # "ok" => m.attempt = NoAttempt
    /\ \A c \in Cids : \A m \in result[c] : m.kind # "ok" => m.attempt = NoAttempt
    /\ \A c \in Cids : http[c] # "ok" => shown[c] = NoAttempt

LEMMA InitSilent == Init => SilentInv
<1> SUFFICES ASSUME Init PROVE SilentInv
  OBVIOUS
<1>1. mail["gateway"] = <<>> /\ \A c \in Cids : result[c] = {} /\ shown[c] = NoAttempt
  BY DEF Init, MessagesInit, BridgeInit, Agents
<1> QED
  BY <1>1 DEF SilentInv, Contents

LEMMA SilentKept ==
    ASSUME TypeOK, SilentInv, Passage
    PROVE  SilentInv'
<1>1. http \in [Cids -> HttpState] /\ shown \in [Cids -> Nat]
  BY DEF TypeOK, BridgeTypeOK
<1>2. \A m \in Contents(mail'["gateway"]) : m.kind # "ok" => m.attempt = NoAttempt
  BY DEF SilentInv, Passage, AnswersLeave
<1>3. \A c \in Cids : \A m \in result'[c] : m.kind # "ok" => m.attempt = NoAttempt
  BY DEF SilentInv, Passage, AnswersResolve
<1>4. ASSUME NEW c \in Cids, http'[c] # "ok" PROVE shown'[c] = NoAttempt
  <2>1. CASE http' = http /\ shown' = shown
    BY <1>4, <2>1 DEF SilentInv
  <2>2. ASSUME NEW d \in Cids, Replied(d) PROVE shown'[c] = NoAttempt
    BY <1>1, <1>4, <2>2 DEF Replied, SilentInv
  <2>3. ASSUME NEW d \in Cids, http[d] = "idle", http' = [http EXCEPT ![d] = "waiting"],
               shown' = shown
        PROVE  shown'[c] = NoAttempt
    BY <1>1, <1>4, <2>3 DEF SilentInv
  <2> QED
    BY <2>1, <2>2, <2>3 DEF Passage, AnswersReturn
<1> QED
  BY <1>2, <1>3, <1>4 DEF SilentInv

LEMMA NextSilent == TypeOK /\ FlowLimit /\ OnePlace /\ SilentInv /\ [Next]_vars => SilentInv'
BY NextPassage, SilentKept

LEMMA SilentHolds == Spec => []SilentInv
<1>1. Init => SilentInv
  BY InitSilent
<1>2. TypeOK /\ FlowLimit /\ OnePlace /\ SilentInv /\ [Next]_vars => SilentInv'
  BY NextSilent
<1> QED
  BY <1>1, <1>2, TypeCorrect, LimitHolds, PlaceHolds, PTL DEF Spec
---------------------------------------------------------------------------
(* The refinement.                                                         *)

LEMMA RecordedIs == \A c : Service!Recorded(c) <=> Rows(c) # {}
BY DEF Service!Recorded, Rows

LEMMA InitImplements == Init => Service!Init
<1> SUFFICES ASSUME Init PROVE Service!Init
  OBVIOUS
<1>1. Barred = {}
  BY InitPlace
<1> QED
  BY <1>1 DEF Service!Init, Init, MessagesInit, BridgeInit, CoordinatorInit, NoAttempt

(* An answer reaches the client as the abstract service allows.            *)
LEMMA ReplyImplements ==
    ASSUME TypeOK, RefusalInv, SilentInv, Provenance, NEW c \in Cids, Replied(c),
           ask' = ask, attempts' = attempts, Barred' = Barred
    PROVE  Service!Next
<1>1. /\ http \in [Cids -> HttpState] /\ shown \in [Cids -> Nat]
      /\ \A m \in result[c] : m.kind \in AnswerKinds
      /\ http[c] = "waiting" /\ shown[c] = NoAttempt
  BY DEF TypeOK, BridgeTypeOK, Answer, Replied, SilentInv
<1>2. ASSUME http' = [http EXCEPT ![c] = "orchestration_timeout"], shown' = shown
      PROVE  Service!ReplyTimeout(c)
  BY <1>1, <1>2 DEF Service!ReplyTimeout, Service!Timeouts
<1>3. ASSUME NEW m \in result[c], http' = [http EXCEPT ![c] = m.kind],
             shown' = [shown EXCEPT ![c] = m.attempt]
      PROVE  Service!ReplyOk(c) \/ Service!ReplyRefused(c) \/ Service!ReplyTimeout(c)
  <2>1. CASE m.kind = "ok"
    <3>1. m.attempt \in RowsFor(c)
      BY <2>1 DEF Provenance, ResultInv, Reportable
    <3> QED
      BY <1>1, <1>3, <2>1, <3>1 DEF Service!ReplyOk, RowsFor
  <2>2. CASE m.kind # "ok"
    <3>1. shown' = shown
      <4>1. m.attempt = NoAttempt
        BY <2>2 DEF SilentInv
      <4> QED
        BY <1>1, <1>3, <4>1
    <3>2. CASE m.kind \in Refusals
      <4>1. c \in Barred
        BY <3>2 DEF RefusalInv
      <4> QED
        BY <1>1, <1>3, <3>1, <3>2, <4>1 DEF Service!ReplyRefused, Refusals
    <3>3. CASE m.kind = "evaluation_timeout"
      BY <1>1, <1>3, <3>1, <3>3 DEF Service!ReplyTimeout, Service!Timeouts
    <3> QED
      BY <1>1, <2>2, <3>2, <3>3 DEF AnswerKinds, Refusals
  <2> QED
    BY <2>1, <2>2
<1> QED
  BY <1>2, <1>3 DEF Replied, Service!Next

LEMMA NextImplements ==
    ASSUME TypeOK, FlowLimit, OnePlace, RefusalInv, SilentInv, Provenance, [Next]_vars
    PROVE  [Service!Next]_(Service!vars)
<1>1. Passage /\ Outwardly
  BY NextPassage, NextPlace
<1>2. ask' = ask
  BY DEF Next, vars, messageVars, Bridge, Gateway, IntakeBehaviour, Conversation, Evaluator,
         KnowledgeModel, Gamification, Recommender, Fault, CoordinatorFault, AgentFault
<1>3. ASSUME NEW c \in Cids, Bars(c) PROVE Service!Bar(c)
  BY <1>2, <1>3, RecordedIs DEF Bars, Service!Bar
<1>4. ASSUME NEW c \in Cids, Records(c) PROVE Service!Record(c)
  BY <1>2, <1>4, RecordedIs DEF Records, Row, Service!Record
<1>5. CASE attempts' = attempts /\ Barred' = Barred
  <2>1. CASE http' = http /\ shown' = shown
    BY <1>2, <1>5, <2>1 DEF Service!vars
  <2>2. ASSUME NEW c \in Cids, Replied(c) PROVE Service!Next
    BY <1>2, <1>5, <2>2, ReplyImplements
  <2>3. ASSUME NEW c \in Cids, http[c] = "idle", http' = [http EXCEPT ![c] = "waiting"],
               shown' = shown
        PROVE  Service!Submit(c)
    BY <1>2, <1>5, <2>3 DEF Service!Submit
  <2> QED
    BY <1>1, <2>1, <2>2, <2>3 DEF Passage, AnswersReturn, Service!Next
<1> QED
  BY <1>1, <1>3, <1>4, <1>5 DEF Outwardly, Service!Next

(* The bridge, the Coordinator and the agents together keep the promise of *)
(* AttemptService, for every number of submissions, under every            *)
(* interleaving, timer and exception: what a client sees and what the      *)
(* table holds is a behaviour of the service that has neither agents nor   *)
(* messages.                                                               *)
THEOREM FlowImplementsService == Spec => ImplementsService
<1>1. Init => Service!Init
  BY InitImplements
<1>2. TypeOK /\ FlowLimit /\ OnePlace /\ RefusalInv /\ SilentInv /\ Provenance /\ [Next]_vars
        => [Service!Next]_(Service!vars)
  BY NextImplements
<1> QED
  BY <1>1, <1>2, TypeCorrect, LimitHolds, PlaceHolds, RefusalHolds, SilentHolds,
     ProvenanceHolds, PTL DEF Spec, ImplementsService, Service!Spec
---------------------------------------------------------------------------
(* The fan-in.  A conversation hears of its attempt only once the mastery  *)
(* update is committed, and keeps that attempt until it ends.              *)
Past == {"AWAIT-RECOMMENDATION", "RESPOND", "done", "released"}

LearnedOwn(c) == Own(c, flow[c].attempt) /\ flow[c].attempt \in learned

RecommendInv ==
    /\ \A c \in Cids : \A m \in inbox[c] : m.kind = "model-updated" => m.attempt \in learned
    /\ \A c \in Cids : Stage(c) = "RECOMMEND" => LearnedOwn(c)
    /\ \A m \in Contents(mail["recommender"]) : Stage(m.cid) \in Past /\ LearnedOwn(m.cid)

(* What a step does to the mastery signal and to the requests that follow. *)
SignalsArrive ==
    \A c \in Cids : \A m \in inbox'[c] :
        m \in inbox[c] \/ m.kind # "model-updated" \/ m.attempt \in learned'

SignalsTaken ==
    \A c \in Cids :
        /\ Stage(c)' = "RECOMMEND" =>
              \/ Stage(c) = "RECOMMEND" /\ flow'[c].attempt = flow[c].attempt
              \/ \E m \in inbox[c] : m.kind = "model-updated" /\ flow'[c].attempt = m.attempt
        /\ Stage(c) \in Past => Stage(c)' \in Past /\ flow'[c].attempt = flow[c].attempt

RequestsLeave ==
    \A m \in Contents(mail'["recommender"]) :
        \/ m \in Contents(mail["recommender"])
        \/ /\ Stage(m.cid) = "RECOMMEND" /\ Stage(m.cid)' \in Past
           /\ flow'[m.cid].attempt = flow[m.cid].attempt

RowsGrow ==
    /\ ask' = ask /\ learned \subseteq learned'
    /\ attempts' = attempts \/ \E x \in Attempt : attempts' = Append(attempts, x)
    /\ \A c \in Cids : flow[c].settled => flow'[c].settled

FanIn == SignalsArrive /\ SignalsTaken /\ RequestsLeave /\ RowsGrow

LEMMA FanInKept ==
    ASSUME TypeOK, TypeOK', Provenance, RecommendInv, FanIn
    PROVE  RecommendInv'
<1>1. \A c \in Cids : \A i : Own(c, i) => Own(c, i)'
  BY RowsKept DEF FanIn, RowsGrow
<1>2. learned \subseteq learned'
  BY DEF FanIn, RowsGrow
<1>3. \A c \in Cids : \A m \in inbox'[c] : m.kind = "model-updated" => m.attempt \in learned'
  BY <1>2 DEF FanIn, SignalsArrive, RecommendInv
<1>4. ASSUME NEW c \in Cids, LearnedOwn(c), flow'[c].attempt = flow[c].attempt
      PROVE  LearnedOwn(c)'
  <2> DEFINE a == flow[c].attempt
  <2>2. Own(c, a) /\ a \in learned
    BY <1>4 DEF LearnedOwn
  <2>3. flow'[c].attempt = a
    BY <1>4
  <2> HIDE DEF a
  <2> QED
    BY <1>1, <1>2, <2>2, <2>3 DEF LearnedOwn, Own
<1>5. ASSUME NEW c \in Cids, Stage(c)' = "RECOMMEND" PROVE LearnedOwn(c)'
  <2>1. CASE Stage(c) = "RECOMMEND" /\ flow'[c].attempt = flow[c].attempt
    BY <1>4, <2>1 DEF RecommendInv
  <2>2. ASSUME NEW m \in inbox[c], m.kind = "model-updated", flow'[c].attempt = m.attempt
        PROVE  LearnedOwn(c)'
    <3>1. Own(c, m.attempt) /\ m.attempt \in learned
      BY <2>2 DEF Provenance, InboxInv, RecommendInv
    <3> QED
      BY <1>1, <1>2, <2>2, <3>1 DEF LearnedOwn, Own
  <2> QED
    BY <1>5, <2>1, <2>2 DEF FanIn, SignalsTaken
<1>6. ASSUME NEW m \in Contents(mail'["recommender"])
      PROVE  Stage(m.cid)' \in Past /\ LearnedOwn(m.cid)'
  <2>1. m.cid \in Cids
    <3>1. mail'["recommender"] \in Seq(Message)
      BY DEF TypeOK, MessagesTypeOK, Agents
    <3>2. Contents(mail'["recommender"]) \subseteq Message
      BY <3>1, ContentsType
    <3> QED
      BY <1>6, <3>2 DEF Message
  <2>2. CASE m \in Contents(mail["recommender"])
    BY <1>4, <2>1, <2>2 DEF RecommendInv, FanIn, SignalsTaken
  <2>3. CASE /\ Stage(m.cid) = "RECOMMEND" /\ Stage(m.cid)' \in Past
             /\ flow'[m.cid].attempt = flow[m.cid].attempt
    BY <1>4, <2>1, <2>3 DEF RecommendInv
  <2> QED
    BY <1>6, <2>2, <2>3 DEF FanIn, RequestsLeave
<1> QED
  BY <1>3, <1>5, <1>6 DEF RecommendInv

(* A step of anyone but the Coordinator's own behaviours.                  *)
LEMMA QuietFanIn ==
    ASSUME flow' = flow, RowsGrow, SignalsArrive,
           Contents(mail'["recommender"]) \subseteq Contents(mail["recommender"])
    PROVE  FanIn
BY DEF FanIn, SignalsTaken, RequestsLeave, Stage

LEMMA BridgeFanIn ==
    ASSUME TypeOK, (\E c \in Cids : Bridge(c)) \/ Gateway
    PROVE  FanIn
<1>1. UNCHANGED <<ask, inbox, flow, attempts, learned>>
  BY DEF Bridge, Gateway, coordinatorVars, agentVars
<1>2. mail'["recommender"] = mail["recommender"]
  BY DEF Bridge, Submit, WaitReturns, WaitExpires, Gateway, GatewayResolve, Post, Take,
         TypeOK, MessagesTypeOK, Agents
<1> QED
  BY <1>1, <1>2, QuietFanIn DEF RowsGrow, SignalsArrive

LEMMA CoordinatorFanIn ==
    ASSUME TypeOK, OnePlace, IntakeBehaviour \/ (\E c \in Cids : Conversation(c))
                               \/ (CoordinatorFault /\ Fault)
    PROVE  FanIn
<1>1. /\ MessagesTypeOK /\ flow \in [Cids -> Flow] /\ intake \in SUBSET Intake
      /\ inbox \in [Cids -> SUBSET Message] /\ mail \in [Agents -> Seq(Message)]
      /\ {"gateway", "intake", "evaluator", "recommender"} \subseteq Agents
  BY DEF TypeOK, CoordinatorTypeOK, MessagesTypeOK, Agents
<1>2. UNCHANGED <<ask, attempts, learned>>
  BY DEF IntakeBehaviour, Conversation, CoordinatorFault, agentVars
<1>3. ASSUME NEW c \in Cids, FlowStep(c) \/ FlowFails(c)
      PROVE  /\ \A d \in Cids \ {c} : flow'[d] = flow[d]
             /\ \A d \in Cids : inbox'[d] \subseteq inbox[d]
             /\ flow[c].settled => flow'[c].settled
  <2>1. /\ \A d \in Cids \ {c} : flow'[d] = flow[d]
        /\ \A d \in Cids : inbox'[d] \subseteq inbox[d]
    BY <1>1, <1>3 DEF FlowStep, Evaluate, UpdateReceive, UpdateRefused, UpdateExpires,
       SettleFinds, SettleGivesUp, Recommend, RecommendReceive, RecommendExpires, Respond,
       Release, FlowFails
  <2>2. flow[c].settled => flow'[c].settled
    <3>0. flow[c] \in Flow
      BY <1>1
    <3>1. CASE Evaluate(c)
      BY <1>1, <3>0, <3>1 DEF Evaluate, Flow
    <3>6. CASE UpdateReceive(c)
      <4>1. PICK m \in inbox[c] :
              flow' = [flow EXCEPT ![c].stage = "RECOMMEND", ![c].attempt = m.attempt]
        BY <3>6 DEF UpdateReceive
      <4> QED
        BY <1>1, <3>0, <4>1 DEF Flow
    <3>4. CASE UpdateRefused(c)
      BY <1>1, <3>0, <3>4 DEF UpdateRefused, Flow
    <3>5. CASE UpdateExpires(c)
      BY <1>1, <3>0, <3>5 DEF UpdateExpires, Flow
    <3>2. CASE SettleFinds(c) \/ SettleGivesUp(c) \/ Recommend(c) \/ RecommendReceive(c)
      BY <1>1, <3>2 DEF SettleFinds, SettleGivesUp, Recommend, RecommendReceive, Flow
    <3>3. CASE RecommendExpires(c) \/ Respond(c) \/ Release(c) \/ FlowFails(c)
      BY <1>1, <3>3 DEF RecommendExpires, Respond, Release, FlowFails, Flow
    <3> QED
      BY <1>3, <3>1, <3>2, <3>3, <3>4, <3>5, <3>6 DEF FlowStep
  <2> QED
    BY <2>1, <2>2
<1>6. ASSUME NEW c \in Cids, FlowStep(c) \/ FlowFails(c)
      PROVE  /\ flow'[c].stage = "RECOMMEND" =>
                  \E m \in inbox[c] : m.kind = "model-updated" /\ flow'[c].attempt = m.attempt
             /\ flow[c].stage \in Past \cup {"RECOMMEND"} =>
                  flow'[c].stage \in Past /\ flow'[c].attempt = flow[c].attempt
  <2>1. CASE UpdateReceive(c)
    BY <1>1, <2>1 DEF UpdateReceive, Stage, Past, Flow
  <2>2. CASE UpdateRefused(c) \/ UpdateExpires(c) \/ Evaluate(c)
    BY <1>1, <2>2 DEF UpdateRefused, UpdateExpires, Evaluate, Stage, Past, Flow
  <2>3. CASE SettleFinds(c) \/ SettleGivesUp(c)
    BY <1>1, <2>3 DEF SettleFinds, SettleGivesUp, Stage, Past, Flow
  <2>4. CASE Recommend(c)
    BY <1>1, <2>4 DEF Recommend, Stage, Past, Flow
  <2>5. CASE RecommendReceive(c) \/ RecommendExpires(c)
    BY <1>1, <2>5 DEF RecommendReceive, RecommendExpires, Stage, Past, Flow
  <2>6. CASE Respond(c) \/ Release(c) \/ FlowFails(c)
    BY <1>1, <2>6 DEF Respond, Release, FlowFails, Stage, Past, Flow
  <2> QED
    BY <1>6, <2>1, <2>2, <2>3, <2>4, <2>5, <2>6 DEF FlowStep
<1>4. ASSUME NEW c \in Cids, FlowStep(c) \/ FlowFails(c) PROVE FanIn
  <2>1. RowsGrow /\ SignalsArrive /\ SignalsTaken
    BY <1>2, <1>3, <1>4, <1>6 DEF RowsGrow, SignalsArrive, SignalsTaken, Stage
  <2>2. CASE Recommend(c)
    <3> DEFINE m == Msg("recommend-next", c, NoAttempt)
    <3>0. "recommend-next" \in MessageKinds /\ NoAttempt \in Nat
      BY DEF MessageKinds, FlowKinds, NoAttempt
    <3>1. m \in Message /\ m.cid = c
      BY <3>0, MsgType
    <3>2. Contents(mail'["recommender"]) = Contents(mail["recommender"]) \cup {m}
      BY <1>1, <2>2, <3>1, PostType DEF Recommend
    <3> HIDE DEF m
    <3>3. Stage(c) = "RECOMMEND"
      BY <2>2 DEF Recommend
    <3>4. Stage(c)' \in Past /\ flow'[c].attempt = flow[c].attempt
      BY <1>4, <1>6, <3>3 DEF Stage
    <3>5. RequestsLeave
      BY <3>1, <3>2, <3>3, <3>4 DEF RequestsLeave
    <3> QED
      BY <2>1, <3>5 DEF FanIn
  <2>3. CASE ~ Recommend(c)
    <3>1. mail'["recommender"] = mail["recommender"]
      BY <1>1, <1>4, <2>3 DEF FlowStep, Evaluate, UpdateReceive, UpdateRefused, UpdateExpires,
         SettleFinds, SettleGivesUp, RecommendReceive, RecommendExpires, Respond, Release,
         FlowFails, Post
    <3> QED
      BY <2>1, <3>1 DEF FanIn, RequestsLeave
  <2> QED
    BY <2>2, <2>3
<1>5. CASE IntakeBehaviour \/ IntakeDies \/ IntakeRefusalFails
  <2>1. inbox' = inbox /\ mail'["recommender"] = mail["recommender"]
    BY <1>1, <1>5 DEF IntakeBehaviour, IntakeReceive, IntakeOpen, IntakeRefuse, IntakeDies,
       IntakeRefusalFails, Take, Post
  <2>2. ASSUME NEW r \in intake
        PROVE  r.cid \in Cids /\ Stage(r.cid) = "none"
    BY <1>1 DEF OnePlace, Taken, Intake
  <2>3. \A d \in Cids : \/ flow'[d] = flow[d]
                        \/ /\ Stage(d) = "none" /\ Stage(d)' \in {"EVALUATE", "refused"}
                           /\ flow'[d].settled = flow[d].settled
    <3>1. CASE IntakeReceive \/ IntakeDies \/ IntakeRefusalFails
      BY <3>1 DEF IntakeReceive, IntakeDies, IntakeRefusalFails
    <3>2. CASE IntakeOpen
      <4>1. PICK r \in intake :
              flow' = [flow EXCEPT ![r.cid].stage = "EVALUATE", ![r.cid].baseline = r.baseline]
        BY <3>2 DEF IntakeOpen
      <4> QED
        BY <1>1, <2>2, <4>1 DEF Flow, Stage
    <3>3. CASE IntakeRefuse
      <4>1. PICK r \in intake :
              flow' = IF r.cid \in routes THEN flow ELSE [flow EXCEPT ![r.cid].stage = "refused"]
        BY <3>3 DEF IntakeRefuse
      <4> QED
        BY <1>1, <2>2, <4>1 DEF Flow, Stage
    <3> QED
      BY <1>5, <3>1, <3>2, <3>3 DEF IntakeBehaviour
  <2>4. RowsGrow /\ SignalsArrive /\ RequestsLeave
    BY <1>2, <2>1, <2>3 DEF RowsGrow, SignalsArrive, RequestsLeave
  <2>5. SignalsTaken
    BY <2>3 DEF SignalsTaken, Stage, Past
  <2> QED
    BY <2>4, <2>5 DEF FanIn
<1> QED
  BY <1>4, <1>5 DEF Conversation, CoordinatorFault

(* The KnowledgeModel signals what it has just committed; nobody else does.*)
LEMMA AgentsFanIn ==
    ASSUME TypeOK, Evaluator \/ KnowledgeModel \/ Gamification \/ Recommender
                     \/ (AgentFault /\ Fault)
    PROVE  FanIn
<1>1. /\ MessagesTypeOK /\ mail \in [Agents -> Seq(Message)] /\ informing \in SUBSET Informing
      /\ {"evaluator", "knowledge", "gamification", "recommender"} \subseteq Agents
      /\ ask \in [Cids -> [user : Users, task : Tasks]]
  BY DEF TypeOK, AgentsTypeOK, MessagesTypeOK, Agents
<1>2. UNCHANGED <<ask, flow>>
  BY DEF Evaluator, KnowledgeModel, Gamification, Recommender, AgentFault, coordinatorVars
<1>3. RowsGrow
  <2>1. learned \subseteq learned'
    BY DEF Evaluator, EvaluatorStep, EvaluateUnknownTask, EvaluatePlanUnavailable,
       EvaluatePersist, EvaluatorInform, KnowledgeModel, KnowledgeUpdate, Gamification,
       GamificationAward, Recommender, RecommenderReply, AgentFault, EvaluatorFails,
       EvaluatorFailsInforming, KnowledgeFails, GamificationFails, agentVars
  <2>2. ASSUME NEW c \in Cids, EvaluatePersist(c)
        PROVE  \E x \in Attempt : attempts' = Append(attempts, x)
    BY <1>1, <2>2 DEF EvaluatePersist, Attempt
  <2>3. ASSUME Evaluator, ~ \E c \in Cids : EvaluatePersist(c) PROVE attempts' = attempts
    BY <2>3 DEF Evaluator, EvaluatorStep, EvaluateUnknownTask, EvaluatePlanUnavailable,
       EvaluatorInform, agentVars
  <2>4. ASSUME KnowledgeModel \/ Gamification \/ Recommender PROVE attempts' = attempts
    BY <2>4 DEF KnowledgeModel, KnowledgeUpdate, Gamification, GamificationAward, Recommender,
       RecommenderReply, agentVars
  <2>5. ASSUME AgentFault PROVE attempts' = attempts
    BY <2>5 DEF AgentFault, EvaluatorFails, EvaluatorFailsInforming, KnowledgeFails,
       GamificationFails, agentVars
  <2> QED
    BY <1>2, <2>1, <2>2, <2>3, <2>4, <2>5 DEF RowsGrow
<1>4. Contents(mail'["recommender"]) \subseteq Contents(mail["recommender"])
  <2>1. CASE Recommender
    BY <1>1, <2>1, TakeType DEF Recommender, RecommenderReply
  <2>2. CASE EvaluatorInform
    BY <1>1, <2>2 DEF EvaluatorInform, Post, Informing
  <2>3. CASE ~ Recommender /\ ~ EvaluatorInform
    <3>1. mail'["recommender"] = mail["recommender"]
      BY <1>1, <2>3 DEF Evaluator, EvaluatorStep, EvaluateUnknownTask, EvaluatePlanUnavailable,
         EvaluatePersist, KnowledgeModel, KnowledgeUpdate, Gamification,
         GamificationAward, AgentFault, EvaluatorFails, EvaluatorFailsInforming,
         KnowledgeFails, GamificationFails, Take
    <3> QED
      BY <3>1
  <2> QED
    BY <2>1, <2>2, <2>3
<1>5. SignalsArrive
  <2>1. ASSUME NEW m \in Message, Dispatch(m), m.kind # "model-updated" \/ m.attempt \in learned'
        PROVE  SignalsArrive
    BY <1>1, <2>1, DispatchType DEF SignalsArrive
  <2>2. CASE KnowledgeModel
    <3> DEFINE h == Head(mail["knowledge"])
               m == Msg("model-updated", h.cid, h.attempt)
    <3>1. h \in Message /\ Dispatch(m) /\ h.attempt \in learned'
      BY <1>1, <2>2, TakeType DEF KnowledgeModel, KnowledgeUpdate
    <3>0. "model-updated" \in MessageKinds /\ h.cid \in Cids /\ h.attempt \in Nat
      BY <3>1 DEF MessageKinds, FlowKinds, Message
    <3> HIDE DEF h
    <3>2. m \in Message /\ m.attempt = h.attempt
      BY <3>0, MsgType
    <3> QED
      BY <2>1, <3>1, <3>2
  <2>3. CASE Recommender
    <3> DEFINE h == Head(mail["recommender"])
               m == Msg("recommend-next", h.cid, NoAttempt)
    <3>1. h \in Message /\ Dispatch(m)
      BY <1>1, <2>3, TakeType DEF Recommender, RecommenderReply
    <3>0. "recommend-next" \in MessageKinds /\ h.cid \in Cids /\ NoAttempt \in Nat
      BY <3>1 DEF MessageKinds, FlowKinds, Message, NoAttempt
    <3> HIDE DEF h
    <3>2. m \in Message /\ m.kind = "recommend-next"
      BY <3>0, MsgType
    <3> QED
      BY <2>1, <3>1, <3>2
  <2>4. ASSUME NEW c \in Cids, EvaluatePlanUnavailable(c) PROVE SignalsArrive
    <3> DEFINE m == Msg("refuse-model-updated", c, NoAttempt)
    <3>0. "refuse-model-updated" \in MessageKinds /\ NoAttempt \in Nat
      BY DEF MessageKinds, FlowKinds, NoAttempt
    <3>1. m \in Message /\ m.kind = "refuse-model-updated"
      BY <3>0, MsgType
    <3>2. Dispatch(m)
      BY <2>4 DEF EvaluatePlanUnavailable
    <3> QED
      BY <2>1, <3>1, <3>2
  <2>5. CASE inbox' = inbox
    BY <2>5 DEF SignalsArrive
  <2> QED
    BY <2>2, <2>3, <2>4, <2>5 DEF Evaluator, EvaluatorStep, EvaluateUnknownTask,
       EvaluatePersist, EvaluatorInform, Gamification, GamificationAward, AgentFault,
       EvaluatorFails, EvaluatorFailsInforming, KnowledgeFails, GamificationFails
<1> QED
  BY <1>2, <1>3, <1>4, <1>5, QuietFanIn

LEMMA NextFanIn ==
    ASSUME TypeOK, OnePlace, [Next]_vars
    PROVE  FanIn
<1>1. CASE UNCHANGED vars
  <2>1. UNCHANGED <<ask, inbox, flow, attempts, learned, mail>>
    BY <1>1 DEF vars, messageVars, coordinatorVars, agentVars
  <2> QED
    BY <2>1, QuietFanIn DEF RowsGrow, SignalsArrive
<1> QED
  BY <1>1, BridgeFanIn, CoordinatorFanIn, AgentsFanIn DEF Next, Fault

LEMMA InitRecommend == Init => RecommendInv
<1> SUFFICES ASSUME Init PROVE RecommendInv
  OBVIOUS
<1>1. /\ mail["recommender"] = <<>>
      /\ \A c \in Cids : inbox[c] = {} /\ flow[c].stage = "none"
  BY DEF Init, MessagesInit, CoordinatorInit, NoFlow, Agents
<1> QED
  BY <1>1 DEF RecommendInv, Contents, Stage

(* The fan-in: the Recommender is asked for a conversation only after the  *)
(* KnowledgeModel has committed the mastery update of that conversation's  *)
(* own attempt, and that stays so while the request waits.                 *)
THEOREM RecommendationAfterMastery == Spec => []MasteryBeforeRecommendation
<1>1. Init => RecommendInv
  BY InitRecommend
<1>2. TypeOK /\ TypeOK' /\ OnePlace /\ Provenance /\ RecommendInv /\ [Next]_vars => RecommendInv'
  BY NextFanIn, FanInKept
<1>3. RecommendInv => MasteryBeforeRecommendation
  BY DEF RecommendInv, LearnedOwn, Own, MasteryBeforeRecommendation
<1> QED
  BY <1>1, <1>2, <1>3, TypeCorrect, PlaceHolds, ProvenanceHolds, PTL DEF Spec
=============================================================================
