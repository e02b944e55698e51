----------------------------- MODULE AgentBridge -----------------------------
(***************************************************************************)
(* The HTTP side of POST /attempt.  The route registers a future with the  *)
(* bridge, lets the gateway agent send the request and waits a bounded     *)
(* time; the gateway's _Resolve behaviour turns replies into results.      *)
(***************************************************************************)
EXTENDS TutorMessages

CONSTANT GatewayMayExpire  \* TRUE if the wait in the route can time out

ASSUME BridgeAssumption == GatewayMayExpire \in BOOLEAN

VARIABLES
    pending,  \* AgentBridge._pending: the cids that have a future
    result,   \* result[c]: {} until the future is done, then {its message}
    http,     \* http[c]: the client's view of its request
    shown     \* shown[c]: the attempt a 200 response reports

bridgeVars == <<pending, result, http, shown>>

Outcomes  == AnswerKinds \cup {"orchestration_timeout"}
HttpState == {"idle", "waiting"} \cup Outcomes

BridgeInit ==
    /\ pending = {}
    /\ result = [c \in Cids |-> {}]
    /\ http = [c \in Cids |-> "idle"]
    /\ shown = [c \in Cids |-> NoAttempt]

(* post_attempt up to its await.  send_fipa only schedules the send; the   *)
(* time until the message leaves counts as time spent in the mailbox.      *)
Submit(c) ==
    /\ http[c] = "idle"
    /\ pending' = pending \cup {c}
    /\ Post("intake", Msg("submit-attempt", c, NoAttempt))
    /\ http' = [http EXCEPT ![c] = "waiting"]
    /\ UNCHANGED <<result, shown>>

(* GatewayAgent._Resolve and AgentBridge.resolve.  A reply whose cid is    *)
(* unknown (the route has given up) or whose future is done is dropped.    *)
GatewayResolve ==
    /\ mail["gateway"] # <<>>
    /\ LET m == Head(mail["gateway"]) IN
         result' = IF m.cid \in pending /\ result[m.cid] = {}
                   THEN [result EXCEPT ![m.cid] = {m}]
                   ELSE result
    /\ Take("gateway")
    /\ UNCHANGED <<pending, http, shown>>

(* bridge.wait returns the result; the finally clause forgets the future   *)
(* and post_attempt maps the message to 200, 503 or 504.                   *)
WaitReturns(c) ==
    /\ http[c] = "waiting"
    /\ \E m \in result[c] :
         /\ http' = [http EXCEPT ![c] = m.kind]
         /\ shown' = [shown EXCEPT ![c] = m.attempt]
    /\ pending' = pending \ {c}
    /\ result' = [result EXCEPT ![c] = {}]
    /\ UNCHANGED mail

(* bridge.wait raises TimeoutError: 504 orchestration_timeout.             *)
WaitExpires(c) ==
    /\ GatewayMayExpire
    /\ http[c] = "waiting"
    /\ result[c] = {}
    /\ http' = [http EXCEPT ![c] = "orchestration_timeout"]
    /\ pending' = pending \ {c}
    /\ UNCHANGED <<mail, result, shown>>

BridgeTypeOK ==
    /\ pending \in SUBSET Cids
    /\ result \in [Cids -> SUBSET Answer]
    /\ Contents(mail["gateway"]) \subseteq Answer
    /\ http \in [Cids -> HttpState]
    /\ shown \in [Cids -> Nat]
=============================================================================
