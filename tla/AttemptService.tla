---------------------------- MODULE AttemptService ----------------------------
(***************************************************************************)
(* What POST /attempt promises, with no agents and no messages: a          *)
(* submission is recorded at most once, a refused one never, and a 200     *)
(* reports a recorded attempt of the same user on the same task.           *)
(***************************************************************************)
EXTENDS Naturals, Sequences

CONSTANTS Cids, Users, Tasks

VARIABLES
    ask,     \* the user and task of each submission
    rows,    \* the recorded attempts, in order
    barred,  \* submissions it is settled will never be recorded
    reply,   \* what the client has been told
    shown    \* the attempt a reply "ok" reports

vars == <<ask, rows, barred, reply, shown>>

Recorded(c) == \E i \in 1..Len(rows) : rows[i].by = c
Timeouts  == {"evaluation_timeout", "orchestration_timeout"}

Init ==
    /\ ask \in [Cids -> [user : Users, task : Tasks]]
    /\ rows = <<>>
    /\ barred = {}
    /\ reply = [c \in Cids |-> "idle"]
    /\ shown = [c \in Cids |-> 0]

Submit(c) ==
    /\ reply[c] = "idle"
    /\ reply' = [reply EXCEPT ![c] = "waiting"]
    /\ UNCHANGED <<ask, rows, barred, shown>>

Record(c) ==
    /\ reply[c] # "idle"
    /\ c \notin barred
    /\ ~ Recorded(c)
    /\ rows' = Append(rows, [by |-> c, user |-> ask[c].user, task |-> ask[c].task])
    /\ UNCHANGED <<ask, barred, reply, shown>>

Bar(c) ==
    /\ reply[c] # "idle"
    /\ ~ Recorded(c)
    /\ barred' = barred \cup {c}
    /\ UNCHANGED <<ask, rows, reply, shown>>

(* 200: the newest attempt of that user on that task may be reported in    *)
(* place of the submission's own, but never one of somebody else.          *)
ReplyOk(c) ==
    /\ reply[c] = "waiting"
    /\ \E i \in 1..Len(rows) :
         /\ rows[i].user = ask[c].user
         /\ rows[i].task = ask[c].task
         /\ shown' = [shown EXCEPT ![c] = i]
    /\ reply' = [reply EXCEPT ![c] = "ok"]
    /\ UNCHANGED <<ask, rows, barred>>

ReplyRefused(c) ==
    /\ reply[c] = "waiting"
    /\ c \in barred
    /\ reply' \in {[reply EXCEPT ![c] = k] : k \in {"coordinator_busy", "plan_unavailable"}}
    /\ UNCHANGED <<ask, rows, barred, shown>>

(* A timeout promises nothing: the submission may be recorded later.       *)
ReplyTimeout(c) ==
    /\ reply[c] = "waiting"
    /\ reply' \in {[reply EXCEPT ![c] = k] : k \in Timeouts}
    /\ UNCHANGED <<ask, rows, barred, shown>>

Next ==
    \E c \in Cids :
        \/ Submit(c) \/ Record(c) \/ Bar(c)
        \/ ReplyOk(c) \/ ReplyRefused(c) \/ ReplyTimeout(c)

Spec == Init /\ [][Next]_vars
=============================================================================
