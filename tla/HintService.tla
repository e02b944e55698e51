----------------------------- MODULE HintService -----------------------------
(***************************************************************************)
(* POST /hint.  The route checks, in a session of its own, whether the     *)
(* last attempt unlocks a hint, whether that attempt was already given one *)
(* and whether there is credit, in three queries between which others      *)
(* commit; only then it asks the HintAgent, which checks the first of the  *)
(* three again, calls the LLM or the catalog and records the request.      *)
(* Students keep submitting attempts meanwhile.                            *)
(***************************************************************************)
EXTENDS HintCredit, Sequences

CONSTANTS
    Requests,       \* POST /hint calls
    Users, Tasks,
    Admins,         \* users that may reset their own credit
    Catalogued,     \* <<task, clear>> pairs for which the catalog has a hint
    MaxTries,       \* bound on attempts
    MaxTime,        \* bound on the clock
    WaitMayExpire,  \* TRUE if the wait for the agent can time out
    AgentMayFail    \* TRUE if an exception may end the agent's work early

ASSUME HintAssumption ==
    /\ Admins \subseteq Users
    /\ Catalogued \subseteq Tasks \X BOOLEAN
    /\ MaxTries \in Nat
    /\ MaxTime \in Nat
    /\ WaitMayExpire \in BOOLEAN
    /\ AgentMayFail \in BOOLEAN

VARIABLES
    enabled,   \* USE_LLM_HINTS
    ask,       \* ask[r]: whose request it is and for which task
    clock,
    attempts,  \* the attempts table; the index is the id
    hints,     \* the table hint_requests
    http,      \* http[r]: the request as the client sees it
    unlocked,  \* unlocked[r]: the attempt the gate of r has found
    paid,      \* paid[r]: the hints r's student had for it then (a history variable)
    mailbox,   \* requests waiting for the HintAgent, oldest first
    working,   \* what the HintAgent is working on: {} or one record
    reply      \* reply[r]: {} or the agent's answer, waiting in the future

vars == <<enabled, ask, clock, attempts, hints, http, unlocked, paid, mailbox, working,
          reply>>

NoAttempt == 0

(* A wrong attempt is "clear" if its error type and payload determine the  *)
(* diagnosis; UNDERDETERMINED_TYPES never go to the LLM.  at is the time   *)
(* of its commit.                                                          *)
Attempt == [user : Users, task : Tasks, correct : BOOLEAN, clear : BOOLEAN, at : Nat]

Sources   == {"llm", "fallback", "unavailable"}
Consuming == {"llm", "fallback"}
HintRow   == [by : Requests, user : Users, after : Nat, source : Sources, at : Nat]
Failures  == {"hint_not_unlocked", "hint_no_catalog", "hint_unavailable"}
Outcomes  == Failures \cup {"hint", "replay", "hints_disabled", "hint_rate_limited", "hint_timeout"}

Init ==
    /\ enabled \in BOOLEAN
    /\ ask \in [Requests -> [user : Users, task : Tasks]]
    /\ clock = 0
    /\ attempts = <<>>
    /\ hints = {}
    /\ http = [r \in Requests |-> "idle"]
    /\ unlocked = [r \in Requests |-> NoAttempt]
    /\ paid = [r \in Requests |-> {}]
    /\ mailbox = <<>>
    /\ working = {}
    /\ reply = [r \in Requests |-> {}]

TriesOf(r) ==
    {i \in 1..Len(attempts) : /\ attempts[i].user = ask[r].user
                              /\ attempts[i].task = ask[r].task}

(* unlocking_attempt: the last attempt, if it is wrong; {} otherwise.      *)
UnlockingAttempt(r) ==
    {i \in TriesOf(r) : /\ \A j \in TriesOf(r) : j <= i
                        /\ ~ attempts[i].correct}

(* existing_request: the hints already given for an attempt.               *)
Given(a) == {h \in hints : h.after = a /\ h.source \in Consuming}

(* The rows that hint_credit reads.                                        *)
Charged(u) == {h \in hints : h.user = u /\ h.source \in Consuming}

Credit(u) == Remaining(Charged(u), clock)

Answer(r, outcome) == http' = [http EXCEPT ![r] = outcome]

(* post_hint while the switch is off: nothing is read or sent.             *)
AskDisabled(r) ==
    /\ http[r] = "idle"
    /\ ~ enabled
    /\ Answer(r, "hints_disabled")
    /\ UNCHANGED <<enabled, ask, clock, attempts, hints, unlocked, paid, mailbox, working, reply>>

(* _hint_gate, step 1: is a hint unlocked?                                 *)
GateUnlock(r) ==
    /\ http[r] = "idle"
    /\ enabled
    /\ IF UnlockingAttempt(r) = {}
       THEN /\ Answer(r, "hint_not_unlocked")
            /\ UNCHANGED <<unlocked, paid>>
       ELSE /\ Answer(r, "gate")
            /\ \E i \in UnlockingAttempt(r) : /\ unlocked' = [unlocked EXCEPT ![r] = i]
                                             /\ paid' = [paid EXCEPT ![r] = Given(i)]
    /\ UNCHANGED <<enabled, ask, clock, attempts, hints, mailbox, working, reply>>

(* Mutant: the limit is looked at before what was already paid for.        *)
LimitBeforeReplay(r) ==
    /\ http[r] = "gate"
    /\ Answer(r, IF Credit(ask[r].user) = 0 THEN "hint_rate_limited"
                 ELSE IF Given(unlocked[r]) # {} THEN "replay" ELSE "credit")
    /\ UNCHANGED <<enabled, ask, clock, attempts, hints, unlocked, paid, mailbox, working, reply>>

(* _hint_gate, step 2: a hint already given is shown again.                *)
GateReplay(r) ==
    /\ http[r] = "gate"
    /\ Answer(r, IF Given(unlocked[r]) # {} THEN "replay" ELSE "credit")
    /\ UNCHANGED <<enabled, ask, clock, attempts, hints, unlocked, paid, mailbox, working, reply>>

(* _hint_gate, step 3, and the request to the agent: without credit the    *)
(* request is refused, even if a hint for the attempt has been recorded    *)
(* since step 2.                                                           *)
GateCredit(r) ==
    /\ http[r] = "credit"
    /\ IF Credit(ask[r].user) = 0
       THEN Answer(r, "hint_rate_limited") /\ UNCHANGED mailbox
       ELSE Answer(r, "waiting") /\ mailbox' = Append(mailbox, r)
    /\ UNCHANGED <<enabled, ask, clock, attempts, hints, unlocked, paid, working, reply>>

(* The gateway hands the reply to the future of r, unless the route has    *)
(* given up on it.                                                         *)
Resolve(r, outcome) ==
    reply' = IF http[r] = "waiting" THEN [reply EXCEPT ![r] = {outcome}] ELSE reply

(* Mutant: the agent trusts what the route has found.                      *)
AgentTrustsRoute ==
    /\ working = {}
    /\ mailbox # <<>>
    /\ working' = {[by |-> Head(mailbox), after |-> unlocked[Head(mailbox)], at |-> clock]}
    /\ mailbox' = Tail(mailbox)
    /\ UNCHANGED <<enabled, ask, clock, attempts, hints, http, unlocked, paid, reply>>

(* produce_hint until the LLM: the attempt is looked up afresh, and the    *)
(* transaction that begins here dates the row.                             *)
AgentTakes ==
    /\ working = {}
    /\ mailbox # <<>>
    /\ LET r == Head(mailbox) IN
         IF UnlockingAttempt(r) = {}
         THEN Resolve(r, "hint_not_unlocked") /\ UNCHANGED working
         ELSE /\ \E i \in UnlockingAttempt(r) :
                   working' = {[by |-> r, after |-> i, at |-> clock]}
              /\ UNCHANGED reply
    /\ mailbox' = Tail(mailbox)
    /\ UNCHANGED <<enabled, ask, clock, attempts, hints, http, unlocked, paid>>

(* What the LLM and the catalog can yield: the LLM is not asked about an   *)
(* underdetermined error, it may fail, and then the catalog answers.       *)
Yield(i) ==
    (IF attempts[i].clear THEN {"llm"} ELSE {})
      \cup (IF <<attempts[i].task, attempts[i].clear>> \in Catalogued
            THEN {"fallback"} ELSE {"unavailable"})

(* Mutant: the row of a request without a hint names no source.            *)
RecordedUnnamed(w, source) ==
    [by |-> w.by, user |-> ask[w.by].user, after |-> w.after,
     source |-> IF source = "unavailable" THEN "none" ELSE source, at |-> w.at]

(* Mutant: a request that yields no text is recorded under the catalog.    *)
RecordsAll(w, source) ==
    [by |-> w.by, user |-> ask[w.by].user, after |-> w.after,
     source |-> IF source = "unavailable" THEN "fallback" ELSE source, at |-> w.at]

Recorded(w, source) ==
    [by |-> w.by, user |-> ask[w.by].user, after |-> w.after, source |-> source, at |-> w.at]

(* The rest of produce_hint and the reply: the row is committed whatever   *)
(* the outcome is, and whether or not anybody still waits.                 *)
AgentFinishes ==
    \E w \in working : \E source \in Yield(w.after) :
      /\ hints' = hints \cup {Recorded(w, source)}
      /\ Resolve(w.by, IF source \in Consuming THEN "hint"
                       ELSE IF attempts[w.after].clear THEN "hint_unavailable"
                       ELSE "hint_no_catalog")
      /\ working' = {}
      /\ UNCHANGED <<enabled, ask, clock, attempts, http, unlocked, paid, mailbox>>

(* Mutant: the exception is logged and nobody is told.                     *)
AgentFailsSilently ==
    /\ AgentMayFail
    /\ working # {}
    /\ working' = {}
    /\ UNCHANGED <<enabled, ask, clock, attempts, hints, http, unlocked, paid, mailbox, reply>>

(* An exception before the commit: no row, and a failure goes back.        *)
AgentFails ==
    /\ AgentMayFail
    /\ \E w \in working : Resolve(w.by, "hint_unavailable")
    /\ working' = {}
    /\ UNCHANGED <<enabled, ask, clock, attempts, hints, http, unlocked, paid, mailbox>>

(* bridge.wait returns and post_hint maps the answer.                      *)
WaitReturns(r) ==
    /\ http[r] = "waiting"
    /\ \E outcome \in reply[r] : Answer(r, outcome)
    /\ reply' = [reply EXCEPT ![r] = {}]
    /\ UNCHANGED <<enabled, ask, clock, attempts, hints, unlocked, paid, mailbox, working>>

(* bridge.wait times out: 504, although the agent may still record a hint. *)
WaitExpires(r) ==
    /\ WaitMayExpire
    /\ http[r] = "waiting"
    /\ reply[r] = {}
    /\ Answer(r, "hint_timeout")
    /\ UNCHANGED <<enabled, ask, clock, attempts, hints, unlocked, paid, mailbox, working, reply>>

(* The Evaluator commits an attempt, in a process of its own rhythm.       *)
Submit(u, t, correct, clear) ==
    /\ Len(attempts) < MaxTries
    /\ correct => clear
    /\ attempts' = Append(attempts, [user |-> u, task |-> t, correct |-> correct, clear |-> clear,
                                      at |-> clock])
    /\ UNCHANGED <<enabled, ask, clock, hints, http, unlocked, paid, mailbox, working, reply>>

(* POST /admin/hint-credit/reset: the caller's own consuming rows.         *)
ResetCredit(u) ==
    /\ u \in Admins
    /\ Charged(u) # {}
    /\ hints' = hints \ Charged(u)
    /\ UNCHANGED <<enabled, ask, clock, attempts, http, unlocked, paid, mailbox, working, reply>>

Tick ==
    /\ clock < MaxTime
    /\ clock' = clock + 1
    /\ UNCHANGED <<enabled, ask, attempts, hints, http, unlocked, paid, mailbox, working, reply>>

Route(r) == GateReplay(r) \/ GateCredit(r) \/ WaitReturns(r)

HintAgent == AgentTakes \/ AgentFinishes \/ AgentFails

Next ==
    \/ \E r \in Requests : AskDisabled(r) \/ GateUnlock(r) \/ Route(r) \/ WaitExpires(r)
    \/ HintAgent
    \/ \E u \in Users, t \in Tasks, correct, clear \in BOOLEAN : Submit(u, t, correct, clear)
    \/ \E u \in Users : ResetCredit(u)
    \/ Tick

Spec == Init /\ [][Next]_vars

(* The route and the agent are tasks of one event loop; the LLM call has a *)
(* timeout of its own, so the agent always comes to an end.  The timeout   *)
(* of the route need not fire.                                             *)
Fairness == (\A r \in Requests : WF_vars(Route(r))) /\ WF_vars(HintAgent)

FairSpec == Spec /\ Fairness
---------------------------------------------------------------------------
TypeOK ==
    /\ enabled \in BOOLEAN
    /\ ask \in [Requests -> [user : Users, task : Tasks]]
    /\ clock \in 0..MaxTime
    /\ attempts \in Seq(Attempt)
    /\ hints \in SUBSET HintRow
    /\ http \in [Requests -> {"idle", "gate", "credit", "waiting"} \cup Outcomes]
    /\ unlocked \in [Requests -> Nat]
    /\ paid \in [Requests -> SUBSET HintRow]
    /\ mailbox \in Seq(Requests)
    /\ working \in SUBSET [by : Requests, after : Nat, at : Nat]
    /\ reply \in [Requests -> SUBSET (Failures \cup {"hint"})]

(* No attempt on r's task was committed between attempt a and time t.      *)
LatestThen(r, a, t) == \A j \in TriesOf(r) : j > a => attempts[j].at >= t

(* Every recorded request hangs on a wrong attempt of the same student on  *)
(* the task the student asked about, and on the one that was his last when *)
(* the agent began, although the route looked it up on its own before and  *)
(* the student kept submitting.                                            *)
RowsHangOnLastWrongAttempt ==
    \A h \in hints :
        /\ h.after \in TriesOf(h.by)
        /\ ~ attempts[h.after].correct
        /\ LatestThen(h.by, h.after, h.at)
        /\ h.user = ask[h.by].user

(* Decision C.1: only a request that got a hint, or whose client gave up   *)
(* waiting for it, is charged; a refusal or a failure is free.             *)
ChargedOnlyForAHint ==
    \A h \in hints : h.source \in Consuming =>
        http[h.by] \in {"waiting", "hint", "hint_timeout"}

(* A 200 was produced by a recorded request (until an admin resets).       *)
HintIsRecorded ==
    \A r \in Requests :
        (http[r] = "hint" \/ "hint" \in reply[r]) /\ ask[r].user \notin Admins
            => \E h \in hints : h.by = r /\ h.source \in Consuming

(* Decision C.1 in both directions: charged for a hint, and only for one.  *)
ChargedForHints == ChargedOnlyForAHint /\ HintIsRecorded

(* The order in _hint_gate is part of the contract: a hint the student had *)
(* for the attempt when he asked is shown again, without a second charge   *)
(* and whatever his credit, although others spend that credit while the    *)
(* gate reads.  (An admin may take his own hints back.)                    *)
PaidHintIsShownAgain ==
    \A r \in Requests :
        paid[r] # {} /\ ask[r].user \notin Admins => http[r] \in {"gate", "replay"}

(* The rebuilt bucket is never below the real one: forgetting old requests *)
(* never costs a student a hint.                                           *)
CreditNeverTooLow ==
    \A u \in Users : Credit(u) >= TrueLevel(Charged(u), clock) \div Refill

(* A student who waits until next_refill_at, and asks for nothing in       *)
(* between, then has more credit than now.                                 *)
RefillAsPromised ==
    \A u \in Users : \A t \in NextRefill(Charged(u), clock) :
        Remaining(Charged(u), t) > Credit(u)

(* A student is never worse off than the rule says: he has all the credit   *)
(* due to him now, and what next_refill_at promises for later.             *)
CreditIsFair == CreditNeverTooLow /\ RefillAsPromised

(* Every request is answered even if the route's own timeout never fires,  *)
(* whatever the LLM, the catalog and exceptions in the agent do.           *)
EveryHintRequestAnswered ==
    \A r \in Requests : http[r] = "gate" ~> http[r] \in Outcomes
=============================================================================
