---------------------------- MODULE TutorMessages ----------------------------
(***************************************************************************)
(* The vocabulary that the agents share and the two ways a FIPA message    *)
(* reaches one of them.                                                    *)
(*                                                                         *)
(* Every agent is a SPADE agent with cyclic behaviours; a behaviour owns   *)
(* one mailbox and handles it serially, oldest message first.  A           *)
(* submission is named by its correlation id (cid), which the bridge makes *)
(* fresh for every request (uuid4), so a cid stands for one POST /attempt. *)
(*                                                                         *)
(* The conversation of one cid inside the Coordinator has a mailbox of its *)
(* own: SPADE hands it only messages whose template matches that cid, and  *)
(* drops a message for which no behaviour is registered any more.          *)
(***************************************************************************)
EXTENDS Naturals, Sequences, FiniteSets

CONSTANTS
    Cids,       \* correlation ids, one for each POST /attempt
    Users,
    Tasks,      \* task ids a client may name
    KnownTasks  \* the ones that have a row in tasks

ASSUME VocabularyAssumption ==
    /\ IsFiniteSet(Cids)
    /\ KnownTasks \subseteq Tasks

VARIABLES
    ask,     \* ask[c]: the user and task of submission c; never changes
    mail,    \* mail[a]: mailbox of the cyclic behaviour of agent a
    routes,  \* cids whose conversation has its template registered
    inbox    \* inbox[c]: messages delivered to the conversation of c

messageVars == <<ask, mail, routes, inbox>>

Agents == {"intake", "evaluator", "knowledge", "gamification", "recommender", "gateway"}

(* 0 stands for "no attempt id": ids come from a sequence that starts at 1, *)
(* and attempt_since itself reads a missing baseline as 0.                  *)
NoAttempt == 0

AnswerKinds == {"ok", "evaluation_timeout", "coordinator_busy", "plan_unavailable"}
FlowKinds   == {"model-updated", "refuse-model-updated", "recommend-next"}
MessageKinds == AnswerKinds \cup FlowKinds
                  \cup {"submit-attempt", "evaluate-query", "attempt-result"}

Message == [kind : MessageKinds, cid : Cids, attempt : Nat]
Answer  == [kind : AnswerKinds, cid : Cids, attempt : Nat]

Msg(kind, c, a) == [kind |-> kind, cid |-> c, attempt |-> a]

(* The messages in a mailbox, order forgotten. *)
Contents(q) == {q[i] : i \in 1..Len(q)}

(* Send to an agent's cyclic behaviour. *)
Post(a, m) == mail' = [mail EXCEPT ![a] = Append(@, m)]

(* The agent takes its oldest message and, while handling it, sends nothing. *)
Take(a) == mail' = [mail EXCEPT ![a] = Tail(@)]

(* Mutant: one FSM for everybody, no template bound to a cid (errata 62).  *)
DispatchToEveryone(m) ==
    inbox' = [c \in Cids |-> IF c \in routes THEN inbox[c] \cup {m} ELSE inbox[c]]

(* SPADE dispatch to a conversation of the Coordinator.  A message whose   *)
(* conversation has ended matches no behaviour and is dropped.             *)
Dispatch(m) ==
    inbox' = IF m.cid \in routes
             THEN [inbox EXCEPT ![m.cid] = @ \cup {m}]
             ELSE inbox

MessagesInit ==
    /\ ask \in [Cids -> [user : Users, task : Tasks]]
    /\ mail = [a \in Agents |-> <<>>]
    /\ routes = {}
    /\ inbox = [c \in Cids |-> {}]

MessagesTypeOK ==
    /\ ask \in [Cids -> [user : Users, task : Tasks]]
    /\ mail \in [Agents -> Seq(Message)]
    /\ routes \in SUBSET Cids
    /\ inbox \in [Cids -> SUBSET Message]
=============================================================================
