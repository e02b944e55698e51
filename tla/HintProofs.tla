----------------------------- MODULE HintProofs -----------------------------
(* For any requests, students, tasks and bounds: a recorded hint hangs on a  *)
(* wrong attempt of its own student, and a student is charged for a hint,    *)
(* for each hint, and for nothing else, although the route gives up waiting  *)
(* while the agent works on.  And for any capacity and rate of refill: the   *)
(* replay of requests computes the level that the rule of the bucket gives   *)
(* them (ReplayIsTrue), and fewer requests never give a lower one.           *)
EXTENDS HintService, SumProofs, SequenceTheorems, TLAPS

InMail(r) == \E i \in 1..Len(mailbox) : mailbox[i] = r

InWork(r) == \E w \in working : w.by = r

(* Nothing has come of the request yet.                                      *)
Fresh(r) == reply[r] = {} /\ \A h \in hints : h.by # r

(* A request is in one place at most: with the route, in the mailbox or on   *)
(* the agent's desk.                                                         *)
PlacesInv ==
    /\ \A i, j \in 1..Len(mailbox) : mailbox[i] = mailbox[j] => i = j
    /\ \A v, w \in working : v = w
    /\ \A w \in working : ~InMail(w.by)
    /\ \A r \in Requests : http[r] \in {"idle", "gate", "credit"} => ~InMail(r) /\ ~InWork(r) /\ Fresh(r)
    /\ \A r \in Requests :
          InMail(r) \/ InWork(r) => http[r] \in {"waiting", "hint_timeout"} /\ Fresh(r)

(* What has been charged is being delivered or was waited for too briefly.   *)
ChargeInv ==
    \A h \in hints : h.source \in Consuming =>
        /\ http[h.by] \in {"waiting", "hint", "hint_timeout"}
        /\ http[h.by] = "waiting" => reply[h.by] \subseteq {"hint"}

(* The attempt on the agent's desk stays a wrong one of the right student.   *)
WorkInv == \A w \in working : w.after \in TriesOf(w.by) /\ ~ attempts[w.after].correct

(* So is the one a row hangs on.                                             *)
OwnRows ==
    \A h \in hints : /\ h.after \in TriesOf(h.by)
                     /\ ~ attempts[h.after].correct
                     /\ h.user = ask[h.by].user

HintInv ==
    TypeOK /\ PlacesInv /\ ChargeInv /\ HintIsRecorded /\ WorkInv /\ OwnRows

-----------------------------------------------------------------------------
LEMMA InitInv == Init => HintInv
<1> SUFFICES ASSUME Init PROVE HintInv
  OBVIOUS
<1>1. TypeOK
  BY HintAssumption DEF Init, TypeOK, NoAttempt
<1>2. PlacesInv
  BY DEF Init, PlacesInv, InMail, InWork, Fresh
<1>3. ChargeInv /\ HintIsRecorded /\ WorkInv /\ OwnRows
  BY DEF Init, ChargeInv, HintIsRecorded, WorkInv, OwnRows
<1> QED BY <1>1, <1>2, <1>3 DEF HintInv

(* The end of a mailbox and its head.                                        *)
LEMMA AppendMail ==
    ASSUME TypeOK, PlacesInv, NEW r \in Requests, ~InMail(r), mailbox' = Append(mailbox, r)
    PROVE  /\ mailbox' \in Seq(Requests)
           /\ \A i, j \in 1..Len(mailbox') : mailbox'[i] = mailbox'[j] => i = j
           /\ \A s : InMail(s)' <=> InMail(s) \/ s = r
<1>1. mailbox \in Seq(Requests)
  BY DEF TypeOK
<1>2. /\ mailbox' \in Seq(Requests) /\ Len(mailbox) \in Nat
      /\ Len(mailbox') = Len(mailbox) + 1
      /\ mailbox'[Len(mailbox) + 1] = r
      /\ \A i \in 1..Len(mailbox) : mailbox'[i] = mailbox[i]
  BY <1>1, AppendProperties, LenProperties
<1>3. /\ \A i \in 1..Len(mailbox') : i \in 1..Len(mailbox) \/ i = Len(mailbox) + 1
      /\ \A i \in 1..Len(mailbox) : i \in 1..Len(mailbox')
      /\ Len(mailbox) + 1 \in 1..Len(mailbox')
  BY <1>2
<1>4. \A i \in 1..Len(mailbox) : mailbox[i] # r
  BY DEF InMail
<1>5. \A i, j \in 1..Len(mailbox') : mailbox'[i] = mailbox'[j] => i = j
  BY <1>2, <1>3, <1>4 DEF PlacesInv
<1>6. \A s : InMail(s)' <=> InMail(s) \/ s = r
  BY <1>2, <1>3 DEF InMail
<1> QED BY <1>2, <1>5, <1>6

LEMMA TailMail ==
    ASSUME TypeOK, PlacesInv, mailbox # <<>>, mailbox' = Tail(mailbox)
    PROVE  /\ mailbox' \in Seq(Requests)
           /\ Head(mailbox) \in Requests /\ InMail(Head(mailbox))
           /\ \A i, j \in 1..Len(mailbox') : mailbox'[i] = mailbox'[j] => i = j
           /\ \A s : InMail(s)' => InMail(s) /\ s # Head(mailbox)
<1>1. mailbox \in Seq(Requests)
  BY DEF TypeOK
<1>2. /\ mailbox' \in Seq(Requests) /\ Len(mailbox) \in Nat /\ Len(mailbox) > 0
      /\ Head(mailbox) \in Requests /\ Head(mailbox) = mailbox[1]
      /\ Len(mailbox') = Len(mailbox) - 1
      /\ \A i \in 1..Len(mailbox') : mailbox'[i] = mailbox[i + 1]
  BY <1>1, HeadTailProperties, LenProperties, EmptySeq
<1>3. /\ 1 \in 1..Len(mailbox)
      /\ \A i \in 1..Len(mailbox') : i + 1 \in 1..Len(mailbox) /\ i + 1 # 1 /\ i \in Int
  BY <1>2
<1>4. \A i, j \in 1..Len(mailbox') : mailbox'[i] = mailbox'[j] => i = j
  <2> SUFFICES ASSUME NEW i \in 1..Len(mailbox'), NEW j \in 1..Len(mailbox'),
                      mailbox'[i] = mailbox'[j]
               PROVE  i = j
    OBVIOUS
  <2>1. i + 1 = j + 1
    BY <1>2, <1>3 DEF PlacesInv
  <2> QED BY <2>1, <1>3
<1>5. \A s : InMail(s)' => InMail(s) /\ s # Head(mailbox)
  BY <1>2, <1>3 DEF InMail, PlacesInv
<1>6. InMail(Head(mailbox))
  BY <1>2, <1>3 DEF InMail
<1> QED BY <1>2, <1>4, <1>5, <1>6

(* Steps of the route that leave the agent's side alone.                     *)
LEMMA RouteOnly ==
    ASSUME HintInv, NEW r \in Requests, NEW outcome \in Outcomes \cup {"gate", "credit"},
           http' = [http EXCEPT ![r] = outcome], unlocked' \in [Requests -> Nat],
           paid' \in [Requests -> SUBSET HintRow],
           UNCHANGED <<enabled, ask, clock, attempts, hints, mailbox, working, reply>>,
           \/ /\ http[r] \in {"idle", "gate", "credit"}
              /\ outcome # "hint"
           \/ http[r] = "waiting" /\ outcome = "hint_timeout"
    PROVE  HintInv'
<1>1. /\ http \in [Requests -> {"idle", "gate", "credit", "waiting"} \cup Outcomes]
      /\ hints \in SUBSET HintRow /\ \A h \in hints : h.by \in Requests
  BY DEF HintInv, TypeOK, HintRow
<1>2. TypeOK'
  BY <1>1 DEF HintInv, TypeOK
<1>3. \A s \in Requests : http'[s] = IF s = r THEN outcome ELSE http[s]
  BY <1>1
<1>4. \A s : (InMail(s)' <=> InMail(s)) /\ (InWork(s)' <=> InWork(s)) /\ (Fresh(s)' <=> Fresh(s))
  BY DEF InMail, InWork, Fresh
<1>5. PlacesInv'
  <2>1. \A s \in Requests : http'[s] \in {"idle", "gate", "credit"} => ~InMail(s) /\ ~InWork(s) /\ Fresh(s)
    BY <1>3 DEF HintInv, PlacesInv, Outcomes, Failures
  <2>2. \A s \in Requests :
           InMail(s) \/ InWork(s) => http'[s] \in {"waiting", "hint_timeout"} /\ Fresh(s)
    BY <1>3 DEF HintInv, PlacesInv
  <2> QED BY <1>4, <2>1, <2>2 DEF HintInv, PlacesInv
<1>6. ChargeInv'
  <2>1. \A h \in hints : http[r] \in {"idle", "gate", "credit"} => h.by # r
    BY DEF HintInv, PlacesInv, Fresh
  <2> QED BY <1>1, <1>3, <2>1 DEF HintInv, ChargeInv
<1>7. HintIsRecorded'
  BY <1>3 DEF HintInv, HintIsRecorded
<1>8. WorkInv' /\ OwnRows'
  BY DEF HintInv, WorkInv, OwnRows, TriesOf
<1> QED BY <1>2, <1>5, <1>6, <1>7, <1>8 DEF HintInv

LEMMA DisabledKeeps == ASSUME HintInv, NEW r \in Requests, AskDisabled(r) PROVE HintInv'
<1>1. "hints_disabled" \in Outcomes /\ "hints_disabled" # "hint"
  BY DEF Outcomes
<1>2. unlocked' \in [Requests -> Nat] /\ paid' \in [Requests -> SUBSET HintRow]
  BY DEF AskDisabled, HintInv, TypeOK
<1> QED BY <1>1, <1>2, RouteOnly DEF AskDisabled, Answer

LEMMA GateUnlockKeeps == ASSUME HintInv, NEW r \in Requests, GateUnlock(r) PROVE HintInv'
<1>1. unlocked' \in [Requests -> Nat] /\ paid' \in [Requests -> SUBSET HintRow]
  <2>1. unlocked \in [Requests -> Nat] /\ paid \in [Requests -> SUBSET HintRow]
    BY DEF HintInv, TypeOK
  <2>2. \A i \in UnlockingAttempt(r) : i \in Nat /\ Given(i) \in SUBSET HintRow
    BY DEF UnlockingAttempt, TriesOf, Given, HintInv, TypeOK
  <2> QED BY <2>1, <2>2 DEF GateUnlock
<1>2. "hint_not_unlocked" \in Outcomes
  BY DEF Outcomes, Failures
<1>3. CASE UnlockingAttempt(r) = {}
  BY <1>1, <1>2, <1>3, RouteOnly DEF GateUnlock, Answer
<1>4. CASE UnlockingAttempt(r) # {}
  BY <1>1, <1>4, RouteOnly DEF GateUnlock, Answer
<1> QED BY <1>3, <1>4

LEMMA GateReplayKeeps == ASSUME HintInv, NEW r \in Requests, GateReplay(r) PROVE HintInv'
<1>1. "replay" \in Outcomes /\ "replay" # "hint" /\ "credit" # "hint"
  BY DEF Outcomes
<1>2. unlocked' \in [Requests -> Nat] /\ paid' \in [Requests -> SUBSET HintRow]
  BY DEF GateReplay, HintInv, TypeOK
<1>3. \E outcome \in {"replay", "credit"} : http' = [http EXCEPT ![r] = outcome]
  BY DEF GateReplay, Answer
<1> QED BY <1>1, <1>2, <1>3, RouteOnly DEF GateReplay

LEMMA GateCreditKeeps == ASSUME HintInv, NEW r \in Requests, GateCredit(r) PROVE HintInv'
<1>1. /\ http[r] = "credit" /\ unlocked \in [Requests -> Nat]
      /\ paid \in [Requests -> SUBSET HintRow]
      /\ UNCHANGED <<enabled, ask, clock, attempts, hints, unlocked, paid, working, reply>>
      /\ \/ mailbox' = mailbox /\ http' = [http EXCEPT ![r] = "hint_rate_limited"]
         \/ mailbox' = Append(mailbox, r) /\ http' = [http EXCEPT ![r] = "waiting"]
  BY DEF GateCredit, Answer, HintInv, TypeOK
<1>2. CASE mailbox' = mailbox
  <2>1. "hint_rate_limited" \in Outcomes
    BY DEF Outcomes
  <2>2. \/ http' = [http EXCEPT ![r] = "hint_rate_limited"]
        \/ mailbox' = Append(mailbox, r)
    BY <1>1
  <2>3. mailbox' # Append(mailbox, r)
    <3>1. mailbox \in Seq(Requests)
      BY DEF HintInv, TypeOK
    <3>2. Len(Append(mailbox, r)) = Len(mailbox) + 1 /\ Len(mailbox) \in Nat
      BY <3>1, AppendProperties, LenProperties
    <3>3. Len(Append(mailbox, r)) # Len(mailbox)
      BY <3>2
    <3> QED BY <1>2, <3>3
  <2> QED BY <1>1, <1>2, <2>1, <2>2, <2>3, RouteOnly
<1>3. CASE mailbox' = Append(mailbox, r) /\ http' = [http EXCEPT ![r] = "waiting"]
  <2>1. ~InMail(r) /\ ~InWork(r) /\ Fresh(r)
    BY <1>1 DEF HintInv, PlacesInv
  <2>2. /\ mailbox' \in Seq(Requests)
        /\ \A i, j \in 1..Len(mailbox') : mailbox'[i] = mailbox'[j] => i = j
        /\ \A s : InMail(s)' <=> InMail(s) \/ s = r
    BY <1>3, <2>1, AppendMail DEF HintInv
  <2>3. http \in [Requests -> {"idle", "gate", "credit", "waiting"} \cup Outcomes]
    BY DEF HintInv, TypeOK
  <2>4. \A s \in Requests : http'[s] = IF s = r THEN "waiting" ELSE http[s]
    BY <1>3, <2>3
  <2>5. TypeOK'
    BY <1>1, <1>3, <2>2, <2>3 DEF HintInv, TypeOK
  <2>6. \A s : (InWork(s)' <=> InWork(s)) /\ (Fresh(s)' <=> Fresh(s))
    BY <1>1 DEF InWork, Fresh
  <2>7. PlacesInv'
    <3>1. \A w \in working : w.by # r
      BY <2>1 DEF InWork
    <3> QED BY <1>1, <2>1, <2>2, <2>4, <2>6, <3>1 DEF HintInv, PlacesInv
  <2>8. ChargeInv'
    <3>1. \A h \in hints : h.by # r /\ h.by \in Requests
      BY <2>1 DEF Fresh, HintInv, TypeOK, HintRow
    <3> QED BY <1>1, <2>4, <3>1 DEF HintInv, ChargeInv
  <2>9. HintIsRecorded'
    BY <1>1, <2>4 DEF HintInv, HintIsRecorded
  <2>10. WorkInv' /\ OwnRows'
    BY <1>1 DEF HintInv, WorkInv, OwnRows, TriesOf
  <2> QED BY <2>5, <2>7, <2>8, <2>9, <2>10 DEF HintInv
<1> QED BY <1>1, <1>2, <1>3

-----------------------------------------------------------------------------
(* What an answer of the agent does to the futures.                          *)
LEMMA ResolveEffect ==
    ASSUME HintInv, NEW r \in Requests, NEW outcome \in Failures \cup {"hint"},
           Resolve(r, outcome)
    PROVE  /\ reply' \in [Requests -> SUBSET (Failures \cup {"hint"})]
           /\ \A s \in Requests :
                 reply'[s] = IF s = r /\ http[r] = "waiting" THEN {outcome} ELSE reply[s]
  BY DEF HintInv, TypeOK, Resolve

LEMMA AgentTakesKeeps == ASSUME HintInv, AgentTakes PROVE HintInv'
<1> DEFINE r == Head(mailbox)
<1>1. /\ working = {} /\ mailbox # <<>> /\ mailbox' = Tail(mailbox)
      /\ UNCHANGED <<enabled, ask, clock, attempts, hints, http, unlocked, paid>>
  BY DEF AgentTakes
<1>2. /\ mailbox' \in Seq(Requests) /\ r \in Requests /\ InMail(r)
      /\ \A i, j \in 1..Len(mailbox') : mailbox'[i] = mailbox'[j] => i = j
      /\ \A s : InMail(s)' => InMail(s) /\ s # r
  BY <1>1, TailMail DEF HintInv
<1>3. http[r] \in {"waiting", "hint_timeout"} /\ Fresh(r)
  BY <1>2 DEF HintInv, PlacesInv
<1>4. \/ Resolve(r, "hint_not_unlocked") /\ UNCHANGED working
      \/ /\ \E i \in UnlockingAttempt(r) : working' = {[by |-> r, after |-> i, at |-> clock]}
         /\ UNCHANGED reply
  BY DEF AgentTakes
<1>5. /\ reply' \in [Requests -> SUBSET (Failures \cup {"hint"})]
      /\ \A s \in Requests : s # r => reply'[s] = reply[s]
      /\ ~ "hint" \in reply'[r]
      /\ http[r] = "waiting" => reply'[r] \subseteq Failures \cup {"hint"}
  <2>1. "hint_not_unlocked" \in Failures \cup {"hint"} /\ "hint_not_unlocked" # "hint"
    BY DEF Failures
  <2>2. CASE Resolve(r, "hint_not_unlocked")
    <3>1. r \in Requests /\ (http[r] # "waiting" => reply[r] = {})
      BY <1>2, <1>3 DEF Fresh
    <3> HIDE DEF r
    <3>2. /\ reply' \in [Requests -> SUBSET (Failures \cup {"hint"})]
          /\ \A s \in Requests : reply'[s] = IF s = r /\ http[r] = "waiting"
                                            THEN {"hint_not_unlocked"} ELSE reply[s]
      BY <3>1, <2>1, <2>2, ResolveEffect
    <3> QED BY <3>1, <3>2, <2>1
  <2>3. CASE UNCHANGED reply
    BY <1>2, <1>3, <2>3 DEF HintInv, TypeOK, Fresh
  <2> QED BY <1>4, <2>2, <2>3
<1>6. \A w \in working' : /\ w.by = r /\ w.after \in TriesOf(r) /\ ~ attempts[w.after].correct
                          /\ w \in [by : Requests, after : Nat, at : Nat]
                          /\ working' = {w} /\ UNCHANGED reply
  <2>1. CASE UNCHANGED working
    BY <1>1, <2>1
  <2>2. CASE \E i \in UnlockingAttempt(r) :
               working' = {[by |-> r, after |-> i, at |-> clock]} /\ UNCHANGED reply
    <3>1. PICK i \in UnlockingAttempt(r) :
               working' = {[by |-> r, after |-> i, at |-> clock]} /\ UNCHANGED reply
      BY <2>2
    <3>2. i \in TriesOf(r) /\ ~ attempts[i].correct /\ i \in Nat
      BY DEF UnlockingAttempt, TriesOf
    <3>3. clock \in Nat
      BY HintAssumption DEF HintInv, TypeOK
    <3> QED BY <1>2, <3>1, <3>2, <3>3
  <2> QED BY <1>4, <2>1, <2>2
<1>7. TypeOK'
  <2>1. working' \in SUBSET [by : Requests, after : Nat, at : Nat]
    BY <1>6
  <2> QED BY <1>1, <1>2, <1>5, <2>1 DEF HintInv, TypeOK
<1>8. \A s \in Requests : InWork(s)' => s = r /\ UNCHANGED reply
  BY <1>6 DEF InWork
<1>9. PlacesInv'
  <2>1. \A v, w \in working' : v = w
    BY <1>6
  <2>2. \A w \in working' : ~InMail(w.by)'
    BY <1>2, <1>6
  <2>3. ASSUME NEW s \in Requests, http[s] \in {"idle", "gate", "credit"}
        PROVE  ~InMail(s)' /\ ~InWork(s)' /\ Fresh(s)'
    BY <1>1, <1>2, <1>3, <1>5, <1>8, <2>3 DEF HintInv, PlacesInv, Fresh
  <2>4. ASSUME NEW s \in Requests, InMail(s)' \/ InWork(s)'
        PROVE  http[s] \in {"waiting", "hint_timeout"} /\ Fresh(s)'
    <3>1. CASE InMail(s)'
      BY <1>1, <1>2, <1>5, <3>1 DEF HintInv, PlacesInv, Fresh
    <3>2. CASE InWork(s)'
      BY <1>1, <1>3, <1>8, <3>2 DEF Fresh
    <3> QED BY <2>4, <3>1, <3>2
  <2> QED BY <1>1, <1>2, <2>1, <2>2, <2>3, <2>4 DEF PlacesInv
<1>10. ChargeInv'
  <2>1. \A h \in hints : h.by # r /\ h.by \in Requests
    BY <1>3 DEF Fresh, HintInv, TypeOK, HintRow
  <2> QED BY <1>1, <1>5, <2>1 DEF HintInv, ChargeInv
<1>11. HintIsRecorded'
  <2>1. http[r] # "hint" /\ \A s \in Requests : "hint" \in reply'[s] => "hint" \in reply[s]
    BY <1>3, <1>5
  <2> QED BY <1>1, <2>1 DEF HintInv, HintIsRecorded
<1>12. WorkInv' /\ OwnRows'
  BY <1>1, <1>6 DEF HintInv, WorkInv, OwnRows, TriesOf
<1> QED BY <1>7, <1>9, <1>10, <1>11, <1>12 DEF HintInv

(* The agent puts its desk in order: the request's reply, if anybody waits.  *)
LEMMA DeskCleared ==
    ASSUME HintInv, NEW w \in working, working' = {}, UNCHANGED <<http, mailbox>>,
           NEW outcome \in Failures \cup {"hint"}, Resolve(w.by, outcome),
           \A h \in hints' : h \in hints \/ h.by = w.by
    PROVE  PlacesInv' /\ http[w.by] \in {"waiting", "hint_timeout"} /\ Fresh(w.by)
<1> DEFINE r == w.by
<1>1. r \in Requests
  BY DEF HintInv, TypeOK
<1>2. InWork(r) /\ http[r] \in {"waiting", "hint_timeout"} /\ Fresh(r) /\ ~InMail(r)
  BY <1>1 DEF InWork, HintInv, PlacesInv
<1>3. \A s \in Requests : s # r => reply'[s] = reply[s]
  BY <1>1, ResolveEffect
<1>4. \A s : (InMail(s)' <=> InMail(s)) /\ ~InWork(s)'
  BY DEF InMail, InWork
<1>5. \A s \in Requests : s # r /\ Fresh(s) => Fresh(s)'
  BY <1>3 DEF Fresh
<1>6. \A s \in Requests : http'[s] \in {"idle", "gate", "credit"} => ~InMail(s)' /\ ~InWork(s)' /\ Fresh(s)'
  BY <1>2, <1>4, <1>5 DEF HintInv, PlacesInv
<1>7. \A s \in Requests :
         InMail(s)' \/ InWork(s)' => http'[s] \in {"waiting", "hint_timeout"} /\ Fresh(s)'
  BY <1>2, <1>4, <1>5 DEF HintInv, PlacesInv
<1>8. PlacesInv'
  BY <1>4, <1>6, <1>7 DEF HintInv, PlacesInv
<1> QED BY <1>2, <1>8

LEMMA AgentFinishesKeeps == ASSUME HintInv, AgentFinishes PROVE HintInv'
<1>1. PICK w \in working : \E source \in Yield(w.after) :
        /\ hints' = hints \cup {Recorded(w, source)}
        /\ Resolve(w.by, IF source \in Consuming THEN "hint"
                         ELSE IF attempts[w.after].clear THEN "hint_unavailable"
                         ELSE "hint_no_catalog")
        /\ working' = {}
        /\ UNCHANGED <<enabled, ask, clock, attempts, http, unlocked, paid, mailbox>>
  BY DEF AgentFinishes
<1>2. PICK source \in Yield(w.after) :
        /\ hints' = hints \cup {Recorded(w, source)}
        /\ Resolve(w.by, IF source \in Consuming THEN "hint"
                         ELSE IF attempts[w.after].clear THEN "hint_unavailable"
                         ELSE "hint_no_catalog")
        /\ working' = {}
        /\ UNCHANGED <<enabled, ask, clock, attempts, http, unlocked, paid, mailbox>>
  BY <1>1
<1> DEFINE row == Recorded(w, source)
           outcome == IF source \in Consuming THEN "hint"
                      ELSE IF attempts[w.after].clear THEN "hint_unavailable"
                      ELSE "hint_no_catalog"
<1>3. source \in Sources /\ outcome \in Failures \cup {"hint"}
      /\ (outcome = "hint" <=> source \in Consuming)
  BY DEF Yield, Sources, Failures, Consuming
<1>4. w.by \in Requests /\ w.after \in Nat /\ w.at \in Nat
  BY DEF HintInv, TypeOK
<1>5. /\ row.by = w.by /\ row.user = ask[w.by].user /\ row.after = w.after
      /\ row.source = source /\ row \in HintRow
  <2>1. ask[w.by].user \in Users
    BY <1>4 DEF HintInv, TypeOK
  <2> QED BY <1>3, <1>4, <2>1 DEF Recorded, HintRow
<1> HIDE DEF row, outcome
<1>6. /\ hints' = hints \cup {row} /\ Resolve(w.by, outcome)
      /\ \A h \in hints' : h \in hints \/ h.by = w.by
  BY <1>2, <1>5 DEF row, outcome
<1>7. PlacesInv' /\ http[w.by] \in {"waiting", "hint_timeout"} /\ Fresh(w.by)
  BY <1>2, <1>3, <1>6, DeskCleared
<1>8. /\ reply' \in [Requests -> SUBSET (Failures \cup {"hint"})]
      /\ \A s \in Requests :
            reply'[s] = IF s = w.by /\ http[w.by] = "waiting" THEN {outcome} ELSE reply[s]
  BY <1>3, <1>4, <1>6, ResolveEffect
<1>9. TypeOK'
  BY <1>2, <1>5, <1>6, <1>8 DEF HintInv, TypeOK
<1>10. ChargeInv'
  <2>1. \A h \in hints : h.by # w.by /\ h.by \in Requests
    BY <1>7 DEF Fresh, HintInv, TypeOK, HintRow
  <2>2. \A h \in hints : h.source \in Consuming =>
           /\ http'[h.by] \in {"waiting", "hint", "hint_timeout"}
           /\ http'[h.by] = "waiting" => reply'[h.by] \subseteq {"hint"}
    BY <1>2, <1>8, <2>1 DEF HintInv, ChargeInv
  <2>3. row.source \in Consuming =>
           /\ http'[row.by] \in {"waiting", "hint", "hint_timeout"}
           /\ http'[row.by] = "waiting" => reply'[row.by] \subseteq {"hint"}
    BY <1>2, <1>3, <1>4, <1>5, <1>7, <1>8
  <2> QED BY <1>6, <2>2, <2>3 DEF ChargeInv
<1>11. HintIsRecorded'
  <2> SUFFICES ASSUME NEW s \in Requests, http'[s] = "hint" \/ "hint" \in reply'[s],
                      ask'[s].user \notin Admins
               PROVE  \E h \in hints' : h.by = s /\ h.source \in Consuming
    BY DEF HintIsRecorded
  <2>1. CASE http[s] = "hint" \/ "hint" \in reply[s]
    BY <1>2, <1>6, <2>1 DEF HintInv, HintIsRecorded
  <2>2. CASE s = w.by /\ outcome = "hint"
    BY <1>3, <1>5, <1>6, <2>2
  <2> QED BY <1>2, <1>8, <2>1, <2>2
<1>12. WorkInv'
  BY <1>2 DEF WorkInv
<1>13. OwnRows'
  <2>1. w.after \in TriesOf(w.by) /\ ~ attempts[w.after].correct
    BY DEF HintInv, WorkInv
  <2>2. \A s : TriesOf(s)' = TriesOf(s)
    BY <1>2 DEF TriesOf
  <2>3. \A h \in hints : /\ h.after \in TriesOf(h.by)' /\ ~ attempts'[h.after].correct
                         /\ h.user = ask'[h.by].user
    BY <1>2, <2>2 DEF HintInv, OwnRows
  <2>4. w.after \in TriesOf(w.by)' /\ ~ attempts'[w.after].correct
    BY <1>2, <2>1, <2>2
  <2>5. ASSUME NEW h \in hints', h \notin hints
        PROVE  /\ h.after \in TriesOf(h.by)' /\ ~ attempts'[h.after].correct
               /\ h.user = ask'[h.by].user
    <3>1. h.by = w.by /\ h.after = w.after /\ h.user = ask[w.by].user
      BY <1>5, <1>6, <2>5
    <3>2. ask' = ask
      BY <1>2
    <3> QED BY <2>4, <3>1, <3>2
  <2> QED BY <2>3, <2>5 DEF OwnRows
<1> QED BY <1>7, <1>9, <1>10, <1>11, <1>12, <1>13 DEF HintInv

LEMMA AgentFailsKeeps == ASSUME HintInv, AgentFails PROVE HintInv'
<1>1. PICK w \in working : Resolve(w.by, "hint_unavailable")
  BY DEF AgentFails
<1>2. /\ working' = {}
      /\ UNCHANGED <<enabled, ask, clock, attempts, hints, http, unlocked, paid, mailbox>>
  BY DEF AgentFails
<1>3. "hint_unavailable" \in Failures \cup {"hint"} /\ "hint_unavailable" # "hint"
      /\ w.by \in Requests
  BY DEF Failures, HintInv, TypeOK
<1>4. PlacesInv' /\ http[w.by] \in {"waiting", "hint_timeout"} /\ Fresh(w.by)
  BY <1>1, <1>2, <1>3, DeskCleared
<1>5. /\ reply' \in [Requests -> SUBSET (Failures \cup {"hint"})]
      /\ \A s \in Requests : s # w.by => reply'[s] = reply[s]
      /\ \A s \in Requests : "hint" \in reply'[s] => "hint" \in reply[s]
  BY <1>1, <1>3, ResolveEffect
<1>6. TypeOK'
  BY <1>2, <1>5 DEF HintInv, TypeOK
<1>7. ChargeInv'
  <2>1. \A h \in hints : h.by # w.by /\ h.by \in Requests
    BY <1>4 DEF Fresh, HintInv, TypeOK, HintRow
  <2> QED BY <1>2, <1>5, <2>1 DEF HintInv, ChargeInv
<1>8. HintIsRecorded'
  BY <1>2, <1>5 DEF HintInv, HintIsRecorded
<1>9. WorkInv' /\ OwnRows'
  BY <1>2 DEF HintInv, WorkInv, OwnRows, TriesOf
<1> QED BY <1>4, <1>6, <1>7, <1>8, <1>9 DEF HintInv

LEMMA WaitReturnsKeeps == ASSUME HintInv, NEW r \in Requests, WaitReturns(r) PROVE HintInv'
<1>1. PICK outcome \in reply[r] : http' = [http EXCEPT ![r] = outcome]
  BY DEF WaitReturns, Answer
<1>2. /\ http[r] = "waiting" /\ reply' = [reply EXCEPT ![r] = {}]
      /\ UNCHANGED <<enabled, ask, clock, attempts, hints, unlocked, paid, mailbox, working>>
  BY DEF WaitReturns
<1>3. /\ http \in [Requests -> {"idle", "gate", "credit", "waiting"} \cup Outcomes]
      /\ reply \in [Requests -> SUBSET (Failures \cup {"hint"})]
      /\ outcome \in Failures \cup {"hint"}
      /\ Failures \cup {"hint"} \subseteq Outcomes
      /\ outcome \notin {"idle", "gate", "credit", "waiting"}
  BY DEF HintInv, TypeOK, Outcomes, Failures
<1>4. \A s \in Requests : /\ http'[s] = IF s = r THEN outcome ELSE http[s]
                          /\ reply'[s] = IF s = r THEN {} ELSE reply[s]
  BY <1>1, <1>2, <1>3
<1>5. TypeOK'
  BY <1>1, <1>2, <1>3 DEF HintInv, TypeOK
<1>6. \A s : (InMail(s)' <=> InMail(s)) /\ (InWork(s)' <=> InWork(s))
  BY <1>2 DEF InMail, InWork
<1>7. ~InMail(r) /\ ~InWork(r)
  BY <1>1 DEF HintInv, PlacesInv, Fresh
<1>8. PlacesInv'
  <2>1. \A s \in Requests : Fresh(s) => Fresh(s)'
    BY <1>2, <1>4 DEF Fresh
  <2>2. \A s \in Requests : http'[s] \in {"idle", "gate", "credit"} => ~InMail(s)' /\ ~InWork(s)' /\ Fresh(s)'
    BY <1>3, <1>4, <1>6, <2>1 DEF HintInv, PlacesInv
  <2>3. \A s \in Requests :
           InMail(s)' \/ InWork(s)' => http'[s] \in {"waiting", "hint_timeout"} /\ Fresh(s)'
    BY <1>4, <1>6, <1>7, <2>1 DEF HintInv, PlacesInv
  <2> QED BY <1>2, <1>6, <2>2, <2>3 DEF HintInv, PlacesInv
<1>9. ChargeInv'
  <2> SUFFICES ASSUME NEW h \in hints, h.source \in Consuming
               PROVE  /\ http'[h.by] \in {"waiting", "hint", "hint_timeout"}
                      /\ http'[h.by] = "waiting" => reply'[h.by] \subseteq {"hint"}
    BY <1>2 DEF ChargeInv
  <2>1. h.by \in Requests
    BY DEF HintInv, TypeOK, HintRow
  <2>2. CASE h.by = r
    <3>1. outcome = "hint"
      BY <1>2, <2>2 DEF HintInv, ChargeInv
    <3> QED BY <1>4, <2>1, <2>2, <3>1
  <2>3. CASE h.by # r
    BY <1>4, <2>1, <2>3 DEF HintInv, ChargeInv
  <2> QED BY <2>2, <2>3
<1>10. HintIsRecorded'
  <2>1. \A s \in Requests : http'[s] = "hint" \/ "hint" \in reply'[s]
                            => http[s] = "hint" \/ "hint" \in reply[s]
    BY <1>4
  <2> QED BY <1>2, <2>1 DEF HintInv, HintIsRecorded
<1>11. WorkInv' /\ OwnRows'
  BY <1>2 DEF HintInv, WorkInv, OwnRows, TriesOf
<1> QED BY <1>5, <1>8, <1>9, <1>10, <1>11 DEF HintInv

LEMMA WaitExpiresKeeps == ASSUME HintInv, NEW r \in Requests, WaitExpires(r) PROVE HintInv'
<1>1. "hint_timeout" \in Outcomes
  BY DEF Outcomes
<1>2. unlocked' \in [Requests -> Nat] /\ paid' \in [Requests -> SUBSET HintRow]
  BY DEF WaitExpires, HintInv, TypeOK
<1> QED BY <1>1, <1>2, RouteOnly DEF WaitExpires, Answer

-----------------------------------------------------------------------------
(* The world around the request: attempts are only added, the admin's own    *)
(* rows may go, and time passes.                                             *)
LEMMA SubmitKeeps ==
    ASSUME HintInv, NEW u \in Users, NEW t \in Tasks, NEW correct \in BOOLEAN,
           NEW clear \in BOOLEAN, Submit(u, t, correct, clear)
    PROVE  HintInv'
<1> DEFINE row == [user |-> u, task |-> t, correct |-> correct, clear |-> clear,
                     at |-> clock]
<1>1. /\ attempts' = Append(attempts, row) /\ row \in Attempt
      /\ UNCHANGED <<enabled, ask, clock, hints, http, unlocked, paid, mailbox, working, reply>>
  <2>1. clock \in Nat
    BY HintAssumption DEF HintInv, TypeOK
  <2> QED BY <2>1 DEF Submit, Attempt
<1> HIDE DEF row
<1>2. /\ attempts \in Seq(Attempt) /\ attempts' \in Seq(Attempt) /\ Len(attempts) \in Nat
      /\ Len(attempts') = Len(attempts) + 1
      /\ \A i \in 1..Len(attempts) : attempts'[i] = attempts[i]
  BY <1>1, AppendProperties, LenProperties DEF HintInv, TypeOK
<1>3. \A r, i : i \in TriesOf(r) => i \in TriesOf(r)' /\ attempts'[i] = attempts[i]
  <2>1. \A i \in 1..Len(attempts) : i \in 1..Len(attempts')
    BY <1>2
  <2> QED BY <1>1, <1>2, <2>1 DEF TriesOf
<1>4. TypeOK'
  BY <1>1, <1>2 DEF HintInv, TypeOK
<1>5. PlacesInv' /\ ChargeInv' /\ HintIsRecorded'
  BY <1>1 DEF HintInv, PlacesInv, InMail, InWork, Fresh, ChargeInv, HintIsRecorded
<1>6. WorkInv' /\ OwnRows'
  BY <1>1, <1>3 DEF HintInv, WorkInv, OwnRows
<1> QED BY <1>4, <1>5, <1>6 DEF HintInv

LEMMA ResetCreditKeeps == ASSUME HintInv, NEW u \in Users, ResetCredit(u) PROVE HintInv'
<1>1. /\ u \in Admins /\ hints' = hints \ Charged(u)
      /\ UNCHANGED <<enabled, ask, clock, attempts, http, unlocked, paid, mailbox, working, reply>>
  BY DEF ResetCredit
<1>2. TypeOK' /\ PlacesInv' /\ ChargeInv' /\ WorkInv' /\ OwnRows'
  <2>1. hints' \subseteq hints
    BY <1>1
  <2>2. TypeOK'
    BY <1>1, <2>1 DEF HintInv, TypeOK
  <2>3. \A r : Fresh(r) => Fresh(r)'
    BY <1>1, <2>1 DEF Fresh
  <2>4. PlacesInv'
    BY <1>1, <2>3 DEF HintInv, PlacesInv, InMail, InWork
  <2>5. ChargeInv' /\ WorkInv' /\ OwnRows'
    BY <1>1, <2>1 DEF HintInv, ChargeInv, WorkInv, OwnRows, TriesOf
  <2> QED BY <2>2, <2>4, <2>5
<1>3. HintIsRecorded'
  <2>1. \A h \in Charged(u) : ask[h.by].user \in Admins
    BY <1>1 DEF Charged, HintInv, OwnRows
  <2> QED BY <1>1, <2>1 DEF HintInv, HintIsRecorded
<1> QED BY <1>2, <1>3 DEF HintInv

LEMMA TickKeeps == ASSUME HintInv, Tick PROVE HintInv'
<1>1. TypeOK'
  BY HintAssumption DEF HintInv, TypeOK, Tick
<1> QED BY <1>1 DEF HintInv, Tick, PlacesInv, InMail, InWork, Fresh, ChargeInv, HintIsRecorded,
                    WorkInv, OwnRows, TriesOf

LEMMA NextInv == ASSUME HintInv, [Next]_vars PROVE HintInv'
<1>1. CASE UNCHANGED vars
  <2>1. TypeOK'
    BY <1>1 DEF vars, HintInv, TypeOK
  <2>2. PlacesInv' /\ ChargeInv' /\ HintIsRecorded'
    BY <1>1 DEF vars, HintInv, PlacesInv, InMail, InWork, Fresh, ChargeInv, HintIsRecorded
  <2>3. WorkInv' /\ OwnRows'
    BY <1>1 DEF vars, HintInv, WorkInv, OwnRows, TriesOf
  <2> QED BY <2>1, <2>2, <2>3 DEF HintInv
<1>2. CASE \E r \in Requests : AskDisabled(r) \/ GateUnlock(r) \/ Route(r) \/ WaitExpires(r)
  BY <1>2, DisabledKeeps, GateUnlockKeeps, GateReplayKeeps, GateCreditKeeps, WaitReturnsKeeps, WaitExpiresKeeps
     DEF Route
<1>3. CASE HintAgent
  BY <1>3, AgentTakesKeeps, AgentFinishesKeeps, AgentFailsKeeps DEF HintAgent
<1>4. CASE \E u \in Users, t \in Tasks, correct, clear \in BOOLEAN : Submit(u, t, correct, clear)
  BY <1>4, SubmitKeeps
<1>5. CASE \E u \in Users : ResetCredit(u)
  BY <1>5, ResetCreditKeeps
<1>6. CASE Tick
  BY <1>6, TickKeeps
<1> QED BY <1>1, <1>2, <1>3, <1>4, <1>5, <1>6 DEF Next

LEMMA AlwaysHintInv == Spec => []HintInv
<1> QED BY InitInv, NextInv, PTL DEF Spec

-----------------------------------------------------------------------------
(* The credit.                                                             *)

Arithmetic == Full \in Nat /\ HintMax \in Nat \ {0} /\ Refill \in Nat \ {0}

LEMMA FullIs == Arithmetic
BY CreditAssumption DEF Arithmetic, Full

LEMMA LessIs ==
    ASSUME NEW x \in Nat, NEW y \in Nat
    PROVE  Less(x, y) \in Nat /\ Less(x, y) <= x /\ Less(x, 0) = x
           /\ Least(x, y) \in Nat /\ Least(x, y) <= x /\ Least(x, y) <= y
BY DEF Less, Least

LEMMA FillIs ==
    ASSUME NEW x \in Nat, NEW d \in Nat
    PROVE  /\ Least(Full, x + d) \in Nat /\ Least(Full, x + d) <= Full
           /\ Least(Full, x + 1) \in Nat /\ Least(Full, x + 1) <= Full
BY FullIs DEF Least, Arithmetic

(* Requests of a student: finitely many, each at a time.                   *)
Dated(rows) == IsFiniteSet(rows) /\ \A r \in rows : r.at \in Nat

LEMMA DatedPart == ASSUME NEW R, Dated(R), NEW S \in SUBSET R PROVE Dated(S)
BY FS_Subset DEF Dated

Has(rows, t) == Cardinality({r \in rows : r.at = t})

LEMMA HasIs == ASSUME NEW R, Dated(R), NEW t PROVE Has(R, t) \in Nat
<1>1. {r \in R : r.at = t} \subseteq R
  OBVIOUS
<1> QED BY <1>1, FS_Subset, FS_CardinalityType DEF Dated, Has

(* The true level, time after time.                                        *)
Levels(f, rows, n) ==
    f = [t \in 0..n |-> Less(IF t = 0 THEN Full ELSE Least(Full, f[t - 1] + 1),
                             Refill * Has(rows, t))]

LEMMA TrueLevelIs ==
    ASSUME NEW rows, NEW n
    PROVE  TrueLevel(rows, n) = (CHOOSE f : Levels(f, rows, n))[n]
BY DEF TrueLevel, Levels, Has

LEMMA LevelsExist == ASSUME NEW rows PROVE \A n \in Nat : \E f : Levels(f, rows, n)
<1> DEFINE T == {n \in Nat : \E f : Levels(f, rows, n)}
<1>1. 0 \in T
  <2> DEFINE f == [t \in 0..0 |-> Less(Full, Refill * Has(rows, t))]
  <2>1. Levels(f, rows, 0)
    BY DEF Levels
  <2> QED BY <2>1
<1>2. ASSUME NEW n \in Nat, n \in T PROVE n + 1 \in T
  <2>1. PICK f : Levels(f, rows, n)
    BY <1>2
  <2> DEFINE last == Less(Least(Full, f[n] + 1), Refill * Has(rows, n + 1))
             g == [t \in 0..(n + 1) |-> IF t = n + 1 THEN last ELSE f[t]]
  <2>2. \A t \in 0..(n + 1) : t # n + 1 => t \in 0..n /\ (t # 0 => t - 1 \in 0..n)
    OBVIOUS
  <2>3. \A t \in 0..n : g[t] = f[t]
    OBVIOUS
  <2>4. g[n + 1] = last /\ n \in 0..n /\ (n + 1) - 1 = n /\ n + 1 # 0
    OBVIOUS
  <2>5. \A t \in 0..n : f[t] = Less(IF t = 0 THEN Full ELSE Least(Full, f[t - 1] + 1),
                                    Refill * Has(rows, t))
    BY <2>1 DEF Levels
  <2>6. g = [t \in 0..(n + 1) |-> g[t]]
    OBVIOUS
  <2>7. last = Less(Least(Full, g[n] + 1), Refill * Has(rows, n + 1))
    BY <2>3, <2>4
  <2> HIDE DEF g, last
  <2>8. ASSUME NEW t \in 0..(n + 1)
        PROVE  g[t] = Less(IF t = 0 THEN Full ELSE Least(Full, g[t - 1] + 1), Refill * Has(rows, t))
    <3>1. CASE t = n + 1
      BY <2>4, <2>7, <3>1
    <3>2. CASE t # n + 1
      BY <2>2, <2>3, <2>5, <3>2
    <3> QED BY <3>1, <3>2
  <2>9. Levels(g, rows, n + 1)
    BY <2>6, <2>8 DEF Levels
  <2> QED BY <2>9
<1> HIDE DEF T
<1>3. \A n \in Nat : n \in T
  BY <1>1, <1>2, AllNat
<1> QED BY <1>3 DEF T

LEMMA LevelsAgree ==
    ASSUME NEW rows, NEW m \in Nat, NEW n \in Nat, NEW f, NEW g,
           Levels(f, rows, m), Levels(g, rows, n)
    PROVE  \A t \in Nat : t <= m /\ t <= n => f[t] = g[t]
<1> DEFINE T == {t \in Nat : t <= m /\ t <= n => f[t] = g[t]}
<1>1. \A t \in Nat : t <= m => f[t] = Less(IF t = 0 THEN Full ELSE Least(Full, f[t - 1] + 1),
                                           Refill * Has(rows, t))
  BY DEF Levels
<1>2. \A t \in Nat : t <= n => g[t] = Less(IF t = 0 THEN Full ELSE Least(Full, g[t - 1] + 1),
                                           Refill * Has(rows, t))
  BY DEF Levels
<1>3. 0 \in T
  BY <1>1, <1>2
<1>4. ASSUME NEW t \in Nat, t \in T PROVE t + 1 \in T
  <2>1. t + 1 # 0 /\ (t + 1) - 1 = t /\ (t + 1 <= m => t <= m) /\ (t + 1 <= n => t <= n)
        /\ t + 1 \in Nat
    OBVIOUS
  <2> QED BY <1>1, <1>2, <1>4, <2>1
<1> HIDE DEF T
<1>5. \A t \in Nat : t \in T
  BY <1>3, <1>4, AllNat
<1> QED BY <1>5 DEF T

LEMMA TrueSteps ==
    ASSUME NEW rows
    PROVE  /\ TrueLevel(rows, 0) = Less(Full, Refill * Has(rows, 0))
           /\ \A t \in Nat : TrueLevel(rows, t + 1) = Less(Least(Full, TrueLevel(rows, t) + 1),
                                                           Refill * Has(rows, t + 1))
<1>1. \A n \in Nat : \E f : Levels(f, rows, n) /\ TrueLevel(rows, n) = f[n]
  BY TrueLevelIs, LevelsExist
<1>2. TrueLevel(rows, 0) = Less(Full, Refill * Has(rows, 0))
  <2>1. PICK f : Levels(f, rows, 0) /\ TrueLevel(rows, 0) = f[0]
    BY <1>1
  <2> QED BY <2>1 DEF Levels
<1>3. ASSUME NEW t \in Nat
      PROVE  TrueLevel(rows, t + 1) = Less(Least(Full, TrueLevel(rows, t) + 1),
                                           Refill * Has(rows, t + 1))
  <2>1. PICK f : Levels(f, rows, t) /\ TrueLevel(rows, t) = f[t]
    BY <1>1
  <2>2. PICK g : Levels(g, rows, t + 1) /\ TrueLevel(rows, t + 1) = g[t + 1]
    BY <1>1
  <2>3. f[t] = g[t]
    <3>1. t <= t /\ t <= t + 1 /\ t + 1 \in Nat
      OBVIOUS
    <3> QED BY <2>1, <2>2, <3>1, LevelsAgree
  <2>4. t + 1 \in 0..(t + 1) /\ t + 1 # 0 /\ (t + 1) - 1 = t
    OBVIOUS
  <2>5. g[t + 1] = Less(Least(Full, g[t] + 1), Refill * Has(rows, t + 1))
    BY <2>2, <2>4 DEF Levels
  <2> QED BY <2>1, <2>2, <2>3, <2>5
<1> QED BY <1>2, <1>3

LEMMA TrueTyped ==
    ASSUME NEW R, Dated(R)
    PROVE  \A t \in Nat : TrueLevel(R, t) \in Nat /\ TrueLevel(R, t) <= Full
<1> DEFINE T == {t \in Nat : TrueLevel(R, t) \in Nat /\ TrueLevel(R, t) <= Full}
<1>1. ASSUME NEW t PROVE Refill * Has(R, t) \in Nat
  <2>1. Refill \in Nat /\ Has(R, t) \in Nat
    BY HasIs, FullIs DEF Arithmetic
  <2> QED BY <2>1
<1>2. ASSUME NEW x \in Nat, x <= Full, NEW t
      PROVE  Less(x, Refill * Has(R, t)) \in Nat /\ Less(x, Refill * Has(R, t)) <= Full
  <2>1. Less(x, Refill * Has(R, t)) \in Nat /\ Less(x, Refill * Has(R, t)) <= x
    BY <1>1, LessIs
  <2> QED BY <1>2, <2>1, FullIs DEF Arithmetic
<1>3. 0 \in T
  BY <1>2, TrueSteps, FullIs DEF Arithmetic
<1>4. ASSUME NEW t \in Nat, t \in T PROVE t + 1 \in T
  <2>1. PICK x \in Nat : x = Least(Full, TrueLevel(R, t) + 1) /\ x <= Full
    BY <1>4, FillIs
  <2>2. TrueLevel(R, t + 1) = Less(x, Refill * Has(R, t + 1))
    BY <2>1, TrueSteps
  <2>3. Less(x, Refill * Has(R, t + 1)) \in Nat /\ Less(x, Refill * Has(R, t + 1)) <= Full
    BY <1>2, <2>1
  <2> QED BY <2>2, <2>3
<1> HIDE DEF T
<1>5. \A t \in Nat : t \in T
  BY <1>3, <1>4, AllNat
<1> QED BY <1>5 DEF T

(* Fewer requests, a higher level.                                         *)
LEMMA LessMonotone ==
    ASSUME NEW x \in Nat, NEW y \in Nat, NEW v \in Nat, NEW w \in Nat, x >= y, v <= w
    PROVE  Less(x, v) >= Less(y, w) /\ Least(Full, x + 1) >= Least(Full, y + 1)
BY FullIs DEF Less, Least, Arithmetic

LEMMA TrueMonotone ==
    ASSUME NEW R, Dated(R), NEW S \in SUBSET R
    PROVE  \A t \in Nat : TrueLevel(S, t) >= TrueLevel(R, t)
<1> DEFINE T == {t \in Nat : TrueLevel(S, t) >= TrueLevel(R, t)}
<1>1. Dated(S)
  BY DatedPart
<1>2. ASSUME NEW t
      PROVE  Refill * Has(S, t) \in Nat /\ Refill * Has(R, t) \in Nat
             /\ Refill * Has(S, t) <= Refill * Has(R, t)
  <2>1. Has(S, t) \in Nat /\ Has(R, t) \in Nat /\ Refill \in Nat
    BY <1>1, HasIs, FullIs DEF Arithmetic
  <2>2. Has(S, t) <= Has(R, t)
    <3>1. {r \in S : r.at = t} \subseteq {r \in R : r.at = t} /\ {r \in R : r.at = t} \subseteq R
      OBVIOUS
    <3> QED BY <3>1, FS_Subset DEF Has, Dated
  <2> QED BY <2>1, <2>2
<1>3. 0 \in T
  <2>1. Full \in Nat
    BY FullIs DEF Arithmetic
  <2>2. Less(Full, Refill * Has(S, 0)) >= Less(Full, Refill * Has(R, 0))
    BY <1>2, <2>1, LessMonotone
  <2> QED BY <2>2, TrueSteps
<1>4. ASSUME NEW t \in Nat, t \in T PROVE t + 1 \in T
  <2>1. TrueLevel(S, t) \in Nat /\ TrueLevel(R, t) \in Nat /\ TrueLevel(S, t) >= TrueLevel(R, t)
    BY <1>1, <1>4, TrueTyped
  <2>2. /\ Least(Full, TrueLevel(S, t) + 1) >= Least(Full, TrueLevel(R, t) + 1)
        /\ Least(Full, TrueLevel(S, t) + 1) \in Nat /\ Least(Full, TrueLevel(R, t) + 1) \in Nat
    <3>1. 0 \in Nat /\ 0 <= 0
      OBVIOUS
    <3> QED BY <2>1, <3>1, LessMonotone, FillIs
  <2>3. PICK x \in Nat, y \in Nat : /\ x = Least(Full, TrueLevel(S, t) + 1)
                                    /\ y = Least(Full, TrueLevel(R, t) + 1) /\ x >= y
    BY <2>2
  <2>4. PICK v \in Nat, w \in Nat : /\ v = Refill * Has(S, t + 1)
                                    /\ w = Refill * Has(R, t + 1) /\ v <= w
    BY <1>2
  <2>5. Less(x, v) >= Less(y, w)
    BY <2>3, <2>4, LessMonotone
  <2>6. TrueLevel(S, t + 1) = Less(x, v) /\ TrueLevel(R, t + 1) = Less(y, w)
    BY <2>3, <2>4, TrueSteps
  <2> QED BY <2>5, <2>6
<1> HIDE DEF T
<1>5. \A t \in Nat : t \in T
  BY <1>3, <1>4, AllNat
<1> QED BY <1>5 DEF T

(* While nothing is asked for the bucket fills.                            *)
LEMMA TrueIdle ==
    ASSUME NEW R, Dated(R), NEW u \in Nat, \A r \in R : r.at <= u
    PROVE  \A d \in Nat : TrueLevel(R, u + d) = Least(Full, TrueLevel(R, u) + d)
<1> DEFINE T == {d \in Nat : TrueLevel(R, u + d) = Least(Full, TrueLevel(R, u) + d)}
<1>1. TrueLevel(R, u) \in Nat /\ TrueLevel(R, u) <= Full /\ Full \in Nat /\ Refill \in Nat
  BY TrueTyped, FullIs DEF Arithmetic
<1>2. 0 \in T
  BY <1>1 DEF Least
<1>3. ASSUME NEW d \in Nat, d \in T PROVE d + 1 \in T
  <2>1. {r \in R : r.at = u + d + 1} = {}
    <3>1. \A r \in R : r.at \in Nat /\ r.at <= u
      BY DEF Dated
    <3> QED BY <3>1
  <2>2. Refill * Has(R, u + d + 1) = 0
    <3>1. Has(R, u + d + 1) = 0
      BY <2>1, FS_EmptySet DEF Has
    <3> QED BY <1>1, <3>1
  <2>3. u + (d + 1) = u + d + 1 /\ u + d \in Nat
    OBVIOUS
  <2>4. TrueLevel(R, u + d + 1) = Less(Least(Full, TrueLevel(R, u + d) + 1), 0)
    BY <2>2, <2>3, TrueSteps
  <2>5. TrueLevel(R, u + d) = Least(Full, TrueLevel(R, u) + d)
    BY <1>3
  <2>6. Least(Full, Least(Full, TrueLevel(R, u) + d) + 1) = Least(Full, TrueLevel(R, u) + (d + 1))
    BY <1>1 DEF Least
  <2>7. Least(Full, TrueLevel(R, u) + (d + 1)) \in Nat
    BY <1>1 DEF Least
  <2>8. TrueLevel(R, u + (d + 1)) = Least(Full, TrueLevel(R, u) + (d + 1))
    BY <2>3, <2>4, <2>5, <2>6, <2>7, LessIs
  <2> QED BY <2>8
<1> HIDE DEF T
<1>4. \A d \in Nat : d \in T
  BY <1>2, <1>3, AllNat
<1> QED BY <1>4 DEF T

(* A request takes one token, from its time on.                            *)
LEMMA TrueBefore ==
    ASSUME NEW R, NEW x \in R, x.at \in Nat
    PROVE  \A t \in Nat : t < x.at => TrueLevel(R, t) = TrueLevel(R \ {x}, t)
<1> DEFINE T == {t \in Nat : t < x.at => TrueLevel(R, t) = TrueLevel(R \ {x}, t)}
<1>1. ASSUME NEW t \in Nat, t < x.at PROVE Has(R, t) = Has(R \ {x}, t)
  <2>1. t # x.at
    BY <1>1
  <2>2. {r \in R : r.at = t} = {r \in R \ {x} : r.at = t}
    BY <2>1
  <2> QED BY <2>2 DEF Has
<1>2. 0 \in T
  BY <1>1, TrueSteps
<1>3. ASSUME NEW t \in Nat, t \in T PROVE t + 1 \in T
  <2>1. t + 1 \in Nat /\ (t + 1 < x.at => t < x.at)
    OBVIOUS
  <2> QED BY <1>1, <1>3, <2>1, TrueSteps
<1> HIDE DEF T
<1>4. \A t \in Nat : t \in T
  BY <1>2, <1>3, AllNat
<1> QED BY <1>4 DEF T

LEMMA TrueTakes ==
    ASSUME NEW R, Dated(R), NEW x \in R
    PROVE  TrueLevel(R, x.at) = Less(TrueLevel(R \ {x}, x.at), Refill)
<1>1. x.at \in Nat /\ Dated(R \ {x}) /\ Full \in Nat /\ Refill \in Nat
  BY DatedPart, FullIs DEF Dated, Arithmetic
<1>2. Has(R, x.at) = Has(R \ {x}, x.at) + 1 /\ Has(R \ {x}, x.at) \in Nat
  <2> DEFINE S == {r \in R \ {x} : r.at = x.at}
  <2>1. {r \in R : r.at = x.at} = S \cup {x} /\ x \notin S
    OBVIOUS
  <2>2. IsFiniteSet(S)
    BY <1>1, FS_Subset DEF Dated
  <2> HIDE DEF S
  <2>3. Cardinality(S \cup {x}) = Cardinality(S) + 1 /\ Cardinality(S) \in Nat
    BY <2>1, <2>2, FS_AddElement, FS_CardinalityType
  <2> QED BY <2>1, <2>3 DEF Has, S
<1>3. PICK c \in Nat : c = Has(R \ {x}, x.at)
  BY <1>2
<1>4. Refill * (c + 1) = Refill * c + Refill /\ Refill * c \in Nat
  BY <1>1, <1>3
<1>5. \A y \in Nat : Less(y, Refill * (c + 1)) = Less(Less(y, Refill * c), Refill)
  <2> SUFFICES ASSUME NEW y \in Nat
               PROVE  Less(y, Refill * (c + 1)) = Less(Less(y, Refill * c), Refill)
    OBVIOUS
  <2>1. PICK m \in Nat : m = Refill * c
    BY <1>4
  <2>2. Less(y, m + Refill) = Less(Less(y, m), Refill)
    BY <1>1 DEF Less
  <2> QED BY <1>4, <2>1, <2>2
<1>6. CASE x.at = 0
  BY <1>1, <1>2, <1>3, <1>5, <1>6, TrueSteps
<1>7. CASE x.at # 0
  <2>1. x.at - 1 \in Nat /\ x.at - 1 < x.at /\ (x.at - 1) + 1 = x.at
    BY <1>1, <1>7
  <2>2. TrueLevel(R, x.at - 1) = TrueLevel(R \ {x}, x.at - 1)
    BY <1>1, <2>1, TrueBefore
  <2>3. Least(Full, TrueLevel(R \ {x}, x.at - 1) + 1) \in Nat
    <3>1. TrueLevel(R \ {x}, x.at - 1) \in Nat
      BY <1>1, <2>1, TrueTyped
    <3> QED BY <3>1, FillIs
  <2>4. /\ TrueLevel(R, x.at) = Less(Least(Full, TrueLevel(R, x.at - 1) + 1), Refill * Has(R, x.at))
        /\ TrueLevel(R \ {x}, x.at) = Less(Least(Full, TrueLevel(R \ {x}, x.at - 1) + 1),
                                           Refill * Has(R \ {x}, x.at))
    BY <2>1, TrueSteps
  <2> QED BY <1>2, <1>3, <1>5, <2>2, <2>3, <2>4
<1> QED BY <1>6, <1>7

-----------------------------------------------------------------------------
(* The replay.                                                             *)
LEMMA NewestIs ==
    ASSUME NEW R, Dated(R), R # {}
    PROVE  Newest(R) \in R /\ \A s \in R : s.at <= Newest(R).at
<1> DEFINE P(s) == \E r \in s : \A o \in s : o.at <= r.at
           F == {s \in SUBSET R : s # {} /\ ~ P(s)}
<1>1. ASSUME F # {} PROVE FALSE
  <2>1. \A s \in F : IsFiniteSet(s)
    BY FS_Subset DEF Dated
  <2>2. PICK s \in F : \A t \in F : t \subseteq s => t = s
    <3> HIDE DEF F
    <3> QED BY <1>1, <2>1, SmallestSet
  <2>3. s \subseteq R /\ s # {} /\ ~ P(s) /\ \A r \in s : r.at \in Nat
    BY DEF Dated
  <2>4. PICK x \in s : TRUE
    BY <2>3
  <2>5. CASE s \ {x} = {}
    <3>1. \A o \in s : o.at <= x.at
      BY <2>3, <2>4, <2>5
    <3> QED BY <2>3, <2>4, <3>1
  <2>6. CASE s \ {x} # {}
    <3>1. s \ {x} \notin F
      BY <2>2, <2>4
    <3>2. PICK m \in s \ {x} : \A o \in s \ {x} : o.at <= m.at
      BY <2>3, <2>6, <3>1
    <3>3. CASE x.at <= m.at
      BY <2>3, <3>2, <3>3
    <3>4. CASE ~ (x.at <= m.at)
      <4>1. \A o \in s : o.at <= x.at
        BY <2>3, <2>4, <3>2, <3>4
      <4> QED BY <2>3, <2>4, <4>1
    <3> QED BY <3>3, <3>4
  <2> QED BY <2>5, <2>6
<1>2. P(R)
  BY <1>1
<1> QED BY <1>2 DEF Newest

Untouched == [level |-> Full, at |-> 0]

Replays(g, S) ==
    g = [s \in SUBSET S |-> IF s = {} THEN Untouched
                            ELSE Spend(g[s \ {Newest(s)}], Newest(s).at)]

LEMMA ReplayedIs == ASSUME NEW S PROVE Replayed(S) = (CHOOSE g : Replays(g, S))[S]
BY DEF Replayed, MapThenFoldSet, Replays, Untouched

LEMMA ReplaysAgree ==
    ASSUME NEW S, Dated(S), NEW T \in SUBSET S, NEW g, NEW h, Replays(g, S), Replays(h, T)
    PROVE  g[T] = h[T]
<1> DEFINE F == {s \in SUBSET T : g[s] # h[s]}
<1> SUFFICES ASSUME F # {} PROVE FALSE
  OBVIOUS
<1>1. \A s \in F : IsFiniteSet(s)
  BY FS_Subset DEF Dated
<1>2. PICK s \in F : \A t \in F : t \subseteq s => t = s
  <2> HIDE DEF F
  <2> QED BY <1>1, SmallestSet
<1>3. s \subseteq T /\ s \subseteq S /\ g[s] # h[s]
  OBVIOUS
<1>4. /\ g[s] = IF s = {} THEN Untouched ELSE Spend(g[s \ {Newest(s)}], Newest(s).at)
      /\ h[s] = IF s = {} THEN Untouched ELSE Spend(h[s \ {Newest(s)}], Newest(s).at)
  BY <1>3 DEF Replays
<1>5. s # {} /\ Newest(s) \in s
  BY <1>3, <1>4, DatedPart, NewestIs
<1>6. g[s \ {Newest(s)}] = h[s \ {Newest(s)}]
  BY <1>2, <1>3, <1>5
<1> QED BY <1>3, <1>4, <1>5, <1>6

LEMMA ReplaysExist == ASSUME NEW S, Dated(S) PROVE \E g : Replays(g, S)
<1> DEFINE F == {s \in SUBSET S : ~ \E g : Replays(g, s)}
<1> SUFFICES ASSUME F # {} PROVE FALSE
  OBVIOUS
<1>1. \A s \in F : IsFiniteSet(s)
  BY FS_Subset DEF Dated
<1>2. PICK s \in F : \A t \in F : t \subseteq s => t = s
  <2> HIDE DEF F
  <2> QED BY <1>1, SmallestSet
<1>3. s \subseteq S /\ ~ \E g : Replays(g, s)
  OBVIOUS
<1>4. \A t \in SUBSET s : t # s => \E g : Replays(g, t)
  BY <1>2, <1>3
<1> DEFINE part(t) == IF t = {} THEN Untouched
                      ELSE Spend(Replayed(t \ {Newest(t)}), Newest(t).at)
<1>5. ASSUME NEW t \in SUBSET s, t # s PROVE Replayed(t) = part(t)
  <2>1. PICK g : g = (CHOOSE any : Replays(any, t)) /\ Replays(g, t)
    BY <1>4, <1>5
  <2>2. Replayed(t) = g[t]
    BY <2>1, ReplayedIs
  <2>3. CASE t = {}
    BY <2>1, <2>2, <2>3 DEF Replays
  <2>4. CASE t # {}
    <3>1. Newest(t) \in t /\ Dated(t)
      BY <1>3, <2>4, DatedPart, NewestIs
    <3>2. PICK u : u = t \ {Newest(t)} /\ u \in SUBSET t /\ u # s /\ u \in SUBSET s
      BY <1>5, <3>1
    <3>3. PICK h : h = (CHOOSE any : Replays(any, u)) /\ Replays(h, u)
      BY <1>4, <3>2
    <3>4. Replayed(u) = h[u]
      BY <3>3, ReplayedIs
    <3>5. g[u] = h[u]
      BY <2>1, <3>1, <3>2, <3>3, ReplaysAgree
    <3>6. g[t] = Spend(g[u], Newest(t).at)
      BY <2>1, <2>4, <3>2 DEF Replays
    <3> QED BY <2>2, <2>4, <3>2, <3>4, <3>5, <3>6
  <2> QED BY <2>3, <2>4
<1> DEFINE g == [t \in SUBSET s |-> part(t)]
<1>6. Replays(g, s)
  <2>1. ASSUME NEW t \in SUBSET s, t # {}
        PROVE  g[t \ {Newest(t)}] = Replayed(t \ {Newest(t)})
    <3>1. Newest(t) \in t
      BY <1>3, <2>1, DatedPart, NewestIs
    <3>2. t \ {Newest(t)} \in SUBSET s /\ t \ {Newest(t)} # s
      BY <3>1
    <3> QED BY <1>5, <3>2
  <2>2. \A t \in SUBSET s : part(t) = IF t = {} THEN Untouched
                                       ELSE Spend(g[t \ {Newest(t)}], Newest(t).at)
    BY <2>1
  <2> QED BY <2>2 DEF Replays
<1> HIDE DEF g
<1> QED BY <1>3, <1>6

LEMMA ReplaySteps ==
    ASSUME NEW S, Dated(S)
    PROVE  /\ S = {} => Replayed(S) = Untouched
           /\ S # {} => Replayed(S) = Spend(Replayed(S \ {Newest(S)}), Newest(S).at)
<1>1. PICK g : g = (CHOOSE any : Replays(any, S)) /\ Replays(g, S)
  BY ReplaysExist
<1>2. Replayed(S) = g[S]
  BY <1>1, ReplayedIs
<1>3. CASE S = {}
  BY <1>1, <1>2, <1>3 DEF Replays
<1>4. CASE S # {}
  <2>0. S \ {Newest(S)} \in SUBSET S /\ Dated(S \ {Newest(S)})
    BY DatedPart
  <2>1. PICK u : u = S \ {Newest(S)} /\ u \in SUBSET S /\ Dated(u)
    BY <2>0
  <2>2. PICK h : h = (CHOOSE any : Replays(any, u)) /\ Replays(h, u)
    BY <2>1, ReplaysExist
  <2>3. Replayed(u) = h[u]
    BY <2>2, ReplayedIs
  <2>4. g[u] = h[u]
    BY <1>1, <2>1, <2>2, ReplaysAgree
  <2>5. g[S] = Spend(g[u], Newest(S).at)
    BY <1>1, <1>4, <2>1 DEF Replays
  <2> QED BY <1>2, <1>4, <2>1, <2>3, <2>4, <2>5
<1> QED BY <1>3, <1>4

(* The level that the replay of all requests finds at time t.              *)
Total(S, t) == Least(Full, Replayed(S).level + (t - Replayed(S).at))

LastAt(S) == IF S = {} THEN 0 ELSE Newest(S).at

LEMMA ReplayTyped ==
    ASSUME NEW R, Dated(R)
    PROVE  /\ Replayed(R).level \in Nat /\ Replayed(R).level <= Full
           /\ Replayed(R).at = LastAt(R) /\ LastAt(R) \in Nat
           /\ \A t \in Nat : (\A r \in R : r.at <= t) => LastAt(R) <= t
<1> DEFINE OK(S) == /\ Replayed(S).level \in Nat /\ Replayed(S).level <= Full
                    /\ Replayed(S).at = LastAt(S)
           F == {S \in SUBSET R : ~ OK(S)}
<1>1. ASSUME F # {} PROVE FALSE
  <2>1. \A s \in F : IsFiniteSet(s)
    BY FS_Subset DEF Dated
  <2>2. PICK s \in F : \A t \in F : t \subseteq s => t = s
    <3> HIDE DEF F
    <3> QED BY <1>1, <2>1, SmallestSet
  <2>3. s \subseteq R /\ ~ OK(s)
    OBVIOUS
  <2>4. Dated(s)
    BY <2>3, DatedPart
  <2>5. CASE s = {}
    BY <2>3, <2>4, <2>5, ReplaySteps, FullIs DEF Untouched, LastAt, Arithmetic
  <2>6. CASE s # {}
    <3>1. PICK x : x = Newest(s) /\ x \in s /\ x.at \in Nat /\ \A o \in s : o.at <= x.at
      BY <2>4, <2>6, NewestIs DEF Dated
    <3>2. s \ {x} \notin F
      BY <2>2, <3>1
    <3>3. OK(s \ {x}) /\ s \ {x} \subseteq s /\ Dated(s \ {x})
      BY <2>3, <2>4, <3>2, DatedPart
    <3>4. LastAt(s \ {x}) \in Nat /\ LastAt(s \ {x}) <= x.at
      <4>1. CASE s \ {x} = {}
        BY <3>1, <4>1 DEF LastAt
      <4>2. CASE s \ {x} # {}
        <5>1. Newest(s \ {x}) \in s \ {x}
          BY <3>3, <4>2, NewestIs
        <5> QED BY <2>4, <3>1, <4>2, <5>1 DEF LastAt, Dated
      <4> QED BY <4>1, <4>2
    <3>5. PICK l \in Nat : l = Replayed(s \ {x}).level + (x.at - Replayed(s \ {x}).at)
      BY <3>1, <3>3, <3>4
    <3>6. Replayed(s) = [level |-> Less(Least(Full, l), Refill), at |-> x.at]
      BY <2>4, <2>6, <3>1, <3>5, ReplaySteps DEF Spend
    <3>7. Less(Least(Full, l), Refill) \in Nat /\ Less(Least(Full, l), Refill) <= Full
      BY FullIs DEF Less, Least, Arithmetic
    <3> QED BY <2>3, <2>6, <3>1, <3>6, <3>7 DEF LastAt
  <2> QED BY <2>5, <2>6
<1>2. OK(R)
  BY <1>1
<1>3. CASE R = {}
  BY <1>2, <1>3 DEF LastAt
<1>4. CASE R # {}
  <2>1. Newest(R) \in R /\ Newest(R).at \in Nat
    BY <1>4, NewestIs DEF Dated
  <2> QED BY <1>2, <1>4, <2>1 DEF LastAt
<1> QED BY <1>3, <1>4

(* It is the true one.                                                     *)
LEMMA ReplayIsTrue ==
    ASSUME NEW R, Dated(R)
    PROVE  \A t \in Nat : (\A r \in R : r.at <= t) => Total(R, t) = TrueLevel(R, t)
<1> DEFINE P(S) == \A t \in Nat : (\A r \in S : r.at <= t) => Total(S, t) = TrueLevel(S, t)
           F == {S \in SUBSET R : ~ P(S)}
<1> SUFFICES ASSUME F # {} PROVE FALSE
  OBVIOUS
<1>1. \A s \in F : IsFiniteSet(s)
  BY FS_Subset DEF Dated
<1>2. PICK s \in F : \A t \in F : t \subseteq s => t = s
  <2> HIDE DEF F
  <2> QED BY <1>1, SmallestSet
<1>3. s \subseteq R /\ ~ P(s)
  OBVIOUS
<1>4. Dated(s)
  BY <1>3, DatedPart
<1>5. PICK t \in Nat : (\A r \in s : r.at <= t) /\ Total(s, t) # TrueLevel(s, t)
  BY <1>3
<1>6. PICK u \in Nat : u = LastAt(s) /\ Replayed(s).at = u /\ u <= t
  BY <1>4, <1>5, ReplayTyped
<1>7. \A r \in s : r.at <= u
  BY <1>4, <1>6, NewestIs DEF LastAt
<1>8. TrueLevel(s, u) = Replayed(s).level
  <2>1. CASE s = {}
    <3>1. Has(s, 0) = 0
      <4>1. {r \in s : r.at = 0} = {}
        BY <2>1
      <4> QED BY <4>1, FS_EmptySet DEF Has
    <3>2. Refill * 0 = 0 /\ Less(Full, 0) = Full
      BY FullIs, LessIs DEF Arithmetic
    <3>3. TrueLevel(s, 0) = Full
      BY <3>1, <3>2, TrueSteps
    <3> QED BY <1>4, <1>6, <2>1, <3>3, ReplaySteps DEF LastAt, Untouched
  <2>2. CASE s # {}
    <3>1. PICK x : x = Newest(s) /\ x \in s /\ x.at = u
      BY <1>4, <1>6, <2>2, NewestIs DEF LastAt
    <3>2. s \ {x} \notin F
      BY <1>2, <3>1
    <3>3. P(s \ {x})
      BY <1>3, <3>2
    <3>4. Total(s \ {x}, u) = TrueLevel(s \ {x}, u)
      BY <1>7, <3>3
    <3>5. TrueLevel(s, u) = Less(Total(s \ {x}, u), Refill)
      BY <1>4, <3>1, <3>4, TrueTakes
    <3>6. Replayed(s) = Spend(Replayed(s \ {x}), u)
      BY <1>4, <2>2, <3>1, ReplaySteps
    <3> QED BY <3>5, <3>6 DEF Spend, Total
  <2> QED BY <2>1, <2>2
<1>9. PICK d \in Nat : d = t - u /\ t = u + d
  BY <1>6
<1>10. TrueLevel(s, t) = Least(Full, TrueLevel(s, u) + d)
  BY <1>4, <1>7, <1>9, TrueIdle
<1> QED BY <1>5, <1>6, <1>8, <1>9, <1>10 DEF Total

-----------------------------------------------------------------------------
(* What the student sees.                                                  *)
LEMMA LevelIs ==
    ASSUME NEW R, Dated(R), NEW t \in Nat, \A r \in R : r.at <= t
    PROVE  /\ Window(R, t) \in SUBSET R /\ Dated(Window(R, t))
           /\ Level(R, t) = Total(Window(R, t), t)
           /\ Level(R, t) = TrueLevel(Window(R, t), t)
<1>1. Window(R, t) \in SUBSET R /\ Dated(Window(R, t))
  BY DatedPart DEF Window
<1>2. PICK W : W = Window(R, t)
  OBVIOUS
<1>3. \A r \in W : r.at <= t
  BY <1>1, <1>2
<1>4. /\ Replayed(W).level \in Nat /\ Replayed(W).at \in Nat
      /\ Replayed(W).at <= t
  BY <1>1, <1>2, <1>3, ReplayTyped
<1>5. Less(t, Replayed(W).at) = t - Replayed(W).at
  BY <1>4 DEF Less
<1>6. Level(R, t) = Total(W, t)
  BY <1>2, <1>5 DEF Level, Total
<1>7. Total(W, t) = TrueLevel(W, t)
  BY <1>1, <1>2, <1>3, ReplayIsTrue
<1> QED BY <1>1, <1>2, <1>6, <1>7

LEMMA NeverTooLow ==
    ASSUME NEW R, Dated(R), NEW t \in Nat, \A r \in R : r.at <= t
    PROVE  Remaining(R, t) >= TrueLevel(R, t) \div Refill
<1>1. Level(R, t) = TrueLevel(Window(R, t), t) /\ Level(R, t) \in Nat
  BY LevelIs, TrueTyped
<1>2. TrueLevel(R, t) \in Nat /\ Level(R, t) >= TrueLevel(R, t)
  BY <1>1, LevelIs, TrueTyped, TrueMonotone
<1>3. Refill \in Nat \ {0}
  BY FullIs DEF Arithmetic
<1> QED BY <1>1, <1>2, <1>3 DEF Remaining

LEMMA PromiseKept ==
    ASSUME NEW R, Dated(R), NEW now \in Nat, \A r \in R : r.at <= now,
           NEW t \in NextRefill(R, now)
    PROVE  Remaining(R, t) > Remaining(R, now)
<1>1. PICK W : W = Window(R, now) /\ W \in SUBSET R /\ Dated(W) /\ Level(R, now) = Total(W, now)
  BY LevelIs
<1>2. PICK l \in Nat : l = Level(R, now) /\ l <= Full
  BY LevelIs, TrueTyped
<1>3. Full \in Nat /\ Full = HintMax * Refill /\ HintMax \in Nat \ {0} /\ Refill \in Nat \ {0}
  BY FullIs DEF Arithmetic, Full
<1>4. PICK m \in Nat : m = Remaining(R, now) /\ m = l \div Refill
  BY <1>2, <1>3 DEF Remaining
<1>5. m < HintMax /\ t = now + (Refill * (m + 1) - l)
  BY <1>2, <1>3, <1>4 DEF NextRefill
<1>6. PICK n \in Nat : n = Refill * (m + 1) /\ l < n /\ n <= Full
  <2>1. Refill * (m + 1) \in Nat /\ l < Refill * (m + 1)
    BY <1>3, <1>4
  <2>2. (m + 1) * Refill <= HintMax * Refill
    BY <1>3, <1>5
  <2> QED BY <1>3, <2>1, <2>2
<1>7. t \in Nat /\ now < t /\ t = now + (n - l) /\ \A r \in R : r.at <= t
  <2>1. t \in Nat /\ now < t /\ t = now + (n - l)
    BY <1>5, <1>6
  <2> QED BY <2>1 DEF Dated
<1>8. PICK V : V = Window(R, t) /\ V \in SUBSET R /\ Level(R, t) = TrueLevel(V, t)
  BY <1>7, LevelIs
<1>9. V \in SUBSET W
  BY <1>1, <1>3, <1>7, <1>8 DEF Window, Dated
<1>10. Total(W, t) = n
  <2>1. PICK a \in Nat, b \in Nat : a = Replayed(W).level /\ b = Replayed(W).at /\ b <= now
    BY <1>1, ReplayTyped
  <2>2. l = Least(Full, a + (now - b))
    BY <1>1, <1>2, <2>1 DEF Total
  <2>3. l = a + (now - b)
    BY <1>3, <1>6, <2>1, <2>2 DEF Least
  <2>4. a + (t - b) = n
    BY <1>7, <2>1, <2>3
  <2>5. Total(W, t) = Least(Full, n)
    BY <2>1, <2>4 DEF Total
  <2> QED BY <1>3, <1>6, <2>5 DEF Least
<1>11. TrueLevel(W, t) = n
  BY <1>1, <1>7, <1>10, ReplayIsTrue
<1>12. PICK k \in Nat : k = Level(R, t) /\ n <= k
  <2>1. TrueLevel(V, t) >= TrueLevel(W, t)
    BY <1>1, <1>7, <1>9, TrueMonotone
  <2>2. TrueLevel(V, t) \in Nat
    BY <1>7, <1>8, DatedPart, TrueTyped
  <2> QED BY <1>8, <1>11, <2>1, <2>2
<1>13. k \div Refill >= m + 1
  BY <1>3, <1>6, <1>12
<1> QED BY <1>3, <1>4, <1>12, <1>13 DEF Remaining

(* The rows of hint_requests are finitely many and of the past.             *)
CreditInv ==
    /\ IsFiniteSet(hints)
    /\ \A h \in hints : h.at <= clock
    /\ \A w \in working : w.at <= clock

LEMMA CreditInvKept == ASSUME TypeOK, CreditInv, [Next]_vars PROVE CreditInv'
<1>1. clock \in Nat
  BY HintAssumption DEF TypeOK
<1>2. CASE UNCHANGED <<hints, clock, working>>
  BY <1>2 DEF CreditInv
<1>3. CASE AgentTakes
  <2>1. UNCHANGED <<hints, clock>> /\ \A w \in working' : w \in working \/ w.at = clock
    BY <1>3 DEF AgentTakes
  <2> QED BY <1>1, <2>1 DEF CreditInv
<1>4. CASE AgentFinishes
  <2>1. PICK w \in working : \E source \in Yield(w.after) : hints' = hints \cup {Recorded(w, source)}
    BY <1>4 DEF AgentFinishes
  <2>2. PICK source : hints' = hints \cup {Recorded(w, source)}
    BY <2>1
  <2>3. clock' = clock /\ working' = {} /\ Recorded(w, source).at = w.at
    BY <1>4 DEF AgentFinishes, Recorded
  <2>4. IsFiniteSet(hints')
    BY <2>2, FS_AddElement DEF CreditInv
  <2> QED BY <2>2, <2>3, <2>4 DEF CreditInv
<1>5. CASE AgentFails
  BY <1>5 DEF AgentFails, CreditInv
<1>6. CASE \E u \in Users : ResetCredit(u)
  <2>1. hints' \subseteq hints /\ UNCHANGED <<clock, working>>
    BY <1>6 DEF ResetCredit
  <2> QED BY <2>1, FS_Subset DEF CreditInv
<1>7. CASE Tick
  <2>1. clock' = clock + 1 /\ UNCHANGED <<hints, working>>
    BY <1>7 DEF Tick
  <2>2. \A h \in hints : h.at \in Nat
    BY DEF TypeOK, HintRow
  <2>3. \A w \in working : w.at \in Nat
    BY DEF TypeOK
  <2> QED BY <1>1, <2>1, <2>2, <2>3 DEF CreditInv
<1>8. CASE \E r \in Requests : AskDisabled(r) \/ GateUnlock(r) \/ Route(r) \/ WaitExpires(r)
  BY <1>2, <1>8 DEF AskDisabled, GateUnlock, Route, GateReplay, GateCredit, WaitReturns, WaitExpires
<1>9. CASE \E u \in Users, t \in Tasks, correct, clear \in BOOLEAN : Submit(u, t, correct, clear)
  BY <1>2, <1>9 DEF Submit
<1>10. CASE UNCHANGED vars
  BY <1>2, <1>10 DEF vars
<1> QED BY <1>3, <1>4, <1>5, <1>6, <1>7, <1>8, <1>9, <1>10 DEF Next, HintAgent

LEMMA AlwaysCreditInv == Spec => [](TypeOK /\ CreditInv)
<1>1. Init => CreditInv
  BY FS_EmptySet DEF Init, CreditInv
<1>2. TypeOK /\ CreditInv /\ [Next]_vars => CreditInv'
  BY CreditInvKept
<1>3. Spec => []TypeOK
  <2>1. HintInv => TypeOK
    BY DEF HintInv
  <2> QED BY <2>1, AlwaysHintInv, PTL
<1> QED BY <1>1, <1>2, <1>3, PTL DEF Spec

-----------------------------------------------------------------------------
(* When the agent began, nobody had submitted anything later.               *)
LatestInv ==
    /\ \A h \in hints : LatestThen(h.by, h.after, h.at)
    /\ \A w \in working : LatestThen(w.by, w.after, w.at)

LEMMA LatestInvKept == ASSUME TypeOK, CreditInv, LatestInv, [Next]_vars PROVE LatestInv'
<1>1. CASE UNCHANGED <<ask, attempts>>
  <2>1. \A r, a, t : LatestThen(r, a, t)' <=> LatestThen(r, a, t)
    BY <1>1 DEF LatestThen, TriesOf
  <2>2. CASE UNCHANGED working /\ hints' \subseteq hints
    BY <2>1, <2>2 DEF LatestInv
  <2>3. CASE AgentTakes
    <3>1. hints' = hints
      BY <2>3 DEF AgentTakes
    <3>2. ASSUME NEW w \in working', w \notin working PROVE LatestThen(w.by, w.after, w.at)
      <4>1. PICK r, i : i \in UnlockingAttempt(r) /\ w = [by |-> r, after |-> i, at |-> clock]
        BY <2>3, <3>2 DEF AgentTakes
      <4>2. \A j \in TriesOf(r) : j \in Int /\ i \in Int /\ j <= i
        BY <4>1 DEF UnlockingAttempt, TriesOf
      <4>3. \A j \in TriesOf(r) : ~(j > i)
        BY <4>2
      <4> QED BY <4>1, <4>3 DEF LatestThen
    <3> QED BY <2>1, <3>1, <3>2 DEF LatestInv
  <2>4. CASE AgentFinishes
    <3>1. PICK w \in working : \E source \in Yield(w.after) : hints' = hints \cup {Recorded(w, source)}
      BY <2>4 DEF AgentFinishes
    <3>2. PICK source : hints' = hints \cup {Recorded(w, source)}
      BY <3>1
    <3>3. LET row == Recorded(w, source) IN row.by = w.by /\ row.after = w.after /\ row.at = w.at
      BY DEF Recorded
    <3>4. working' = {}
      BY <2>4 DEF AgentFinishes
    <3> QED BY <2>1, <3>2, <3>3, <3>4 DEF LatestInv
  <2>5. CASE AgentFails
    BY <2>1, <2>5 DEF LatestInv, AgentFails
  <2>6. CASE \E u \in Users : ResetCredit(u)
    BY <2>2, <2>6 DEF ResetCredit
  <2>7. CASE \E r \in Requests : AskDisabled(r) \/ GateUnlock(r) \/ Route(r) \/ WaitExpires(r)
    BY <2>2, <2>7 DEF AskDisabled, GateUnlock, Route, GateReplay, GateCredit, WaitReturns, WaitExpires
  <2>8. CASE Tick \/ UNCHANGED vars
    BY <2>2, <2>8 DEF Tick, vars
  <2>9. CASE \E u \in Users, t \in Tasks, correct, clear \in BOOLEAN : Submit(u, t, correct, clear)
    BY <2>2, <2>9 DEF Submit
  <2> QED BY <2>3, <2>4, <2>5, <2>6, <2>7, <2>8, <2>9 DEF Next, HintAgent
<1>2. CASE \E u \in Users, t \in Tasks, correct, clear \in BOOLEAN : Submit(u, t, correct, clear)
  <2>0. clock \in Nat
    BY HintAssumption DEF TypeOK
  <2>1. /\ UNCHANGED <<ask, hints, working>>
        /\ \E row \in Attempt : attempts' = Append(attempts, row) /\ row.at = clock
    BY <1>2, <2>0 DEF Submit, Attempt
  <2>2. PICK row \in Attempt : attempts' = Append(attempts, row) /\ row.at = clock
    BY <2>1
  <2>3. PICK n \in Nat : /\ n = Len(attempts) /\ Len(attempts') = n + 1
                         /\ attempts'[n + 1].at = clock
                         /\ \A i \in 1..n : attempts'[i] = attempts[i]
    <3>1. attempts \in Seq(Attempt)
      BY DEF TypeOK
    <3>2. PICK n \in Nat : n = Len(attempts)
      BY <3>1, LenProperties
    <3> QED BY <2>2, <3>1, <3>2, AppendProperties
  <2>4. \A r : \A j \in TriesOf(r)' :
            j = n + 1 \/ (j \in TriesOf(r) /\ attempts'[j] = attempts[j])
    BY <2>1, <2>3 DEF TriesOf
  <2>5. \A r, a, t : LatestThen(r, a, t) /\ t <= clock => LatestThen(r, a, t)'
    <3> SUFFICES ASSUME NEW r, NEW a, NEW t, LatestThen(r, a, t), t <= clock,
                        NEW j \in TriesOf(r)', j > a
                 PROVE  attempts'[j].at >= t
      BY DEF LatestThen
    <3>1. CASE j = n + 1
      BY <2>3, <3>1
    <3>2. CASE j \in TriesOf(r) /\ attempts'[j] = attempts[j]
      BY <3>2 DEF LatestThen
    <3> QED BY <2>4, <3>1, <3>2
  <2> QED BY <2>1, <2>5 DEF LatestInv, CreditInv
<1>3. UNCHANGED <<ask, attempts>>
        \/ \E u \in Users, t \in Tasks, correct, clear \in BOOLEAN : Submit(u, t, correct, clear)
  BY DEF Next, HintAgent, AskDisabled, GateUnlock, Route, GateReplay, GateCredit, WaitReturns,
         WaitExpires, AgentTakes, AgentFinishes, AgentFails, ResetCredit, Tick, vars
<1> QED BY <1>1, <1>2, <1>3

LEMMA AlwaysLatestInv == Spec => []LatestInv
<1>1. Init => LatestInv
  BY DEF Init, LatestInv
<1>2. TypeOK /\ CreditInv /\ LatestInv /\ [Next]_vars => LatestInv'
  BY LatestInvKept
<1> QED BY <1>1, <1>2, AlwaysCreditInv, PTL DEF Spec

-----------------------------------------------------------------------------
(* What was paid for when the gate began is there until it looks, and then   *)
(* the request goes nowhere but to the replay.                               *)
PaidInv ==
    \A r \in Requests : ask[r].user \notin Admins =>
        /\ http[r] = "gate" =>
              paid[r] \subseteq {h \in Given(unlocked[r]) : h.user = ask[r].user}
        /\ http[r] \notin {"gate", "replay"} => paid[r] = {}

LEMMA PaidInvKept == ASSUME HintInv, PaidInv, [Next]_vars PROVE PaidInv'
<1>1. CASE UNCHANGED <<ask, http, unlocked, paid>>
  <2>1. CASE hints \subseteq hints'
    BY <1>1, <2>1 DEF PaidInv, Given
  <2>2. CASE \E u \in Users : ResetCredit(u)
    <3>1. PICK u \in Users : u \in Admins /\ hints' = hints \ Charged(u)
      BY <2>2 DEF ResetCredit
    <3>2. \A h \in hints : h.user \notin Admins => h \in hints'
      BY <3>1 DEF Charged
    <3> QED BY <1>1, <3>2 DEF PaidInv, Given
  <2> QED BY <2>1, <2>2 DEF Next, HintAgent, AskDisabled, GateUnlock, Route, GateReplay, GateCredit,
             WaitReturns, WaitExpires, AgentTakes, AgentFinishes, AgentFails, Submit, Tick, vars
<1>2. CASE \E r \in Requests : AskDisabled(r) \/ GateUnlock(r) \/ Route(r) \/ WaitExpires(r)
  <2>1. PICK r \in Requests : AskDisabled(r) \/ GateUnlock(r) \/ Route(r) \/ WaitExpires(r)
    BY <1>2
  <2>2. /\ http \in [Requests -> {"idle", "gate", "credit", "waiting"} \cup Outcomes]
        /\ paid \in [Requests -> SUBSET HintRow] /\ unlocked \in [Requests -> Nat]
        /\ reply \in [Requests -> SUBSET (Failures \cup {"hint"})]
        /\ UNCHANGED <<ask, hints>>
    BY <2>1 DEF HintInv, TypeOK, AskDisabled, GateUnlock, Route, GateReplay, GateCredit, WaitReturns,
                WaitExpires
  <2>3. \A s \in Requests : s # r => /\ http'[s] = http[s] /\ paid'[s] = paid[s]
                                     /\ unlocked'[s] = unlocked[s]
    BY <2>1, <2>2 DEF AskDisabled, GateUnlock, Route, GateReplay, GateCredit, WaitReturns,
                      WaitExpires, Answer
  <2>4. ASSUME ask[r].user \notin Admins
        PROVE  /\ http'[r] = "gate" =>
                    paid'[r] \subseteq {h \in Given(unlocked'[r]) : h.user = ask[r].user}
               /\ http'[r] \notin {"gate", "replay"} => paid'[r] = {}
    <3>1. /\ http[r] = "gate" =>
               paid[r] \subseteq {h \in Given(unlocked[r]) : h.user = ask[r].user}
          /\ http[r] \notin {"gate", "replay"} => paid[r] = {}
      BY <2>4 DEF PaidInv
    <3>2. CASE AskDisabled(r)
      BY <2>2, <3>1, <3>2 DEF AskDisabled, Answer
    <3>3. CASE GateUnlock(r)
      <4>1. CASE UnlockingAttempt(r) = {}
        BY <2>2, <3>1, <3>3, <4>1 DEF GateUnlock, Answer
      <4>2. CASE UnlockingAttempt(r) # {}
        <5>1. PICK i \in UnlockingAttempt(r) : /\ unlocked' = [unlocked EXCEPT ![r] = i]
                                               /\ paid' = [paid EXCEPT ![r] = Given(i)]
          BY <3>3, <4>2 DEF GateUnlock
        <5>2. http'[r] = "gate" /\ unlocked'[r] = i /\ paid'[r] = Given(i)
          BY <2>2, <3>3, <4>2, <5>1 DEF GateUnlock, Answer
        <5>3. attempts[i].user = ask[r].user
          BY DEF UnlockingAttempt, TriesOf
        <5>4. \A h \in Given(i) : h.user = ask[r].user
          <6> SUFFICES ASSUME NEW h \in Given(i) PROVE h.user = ask[r].user
            OBVIOUS
          <6>1. h \in hints /\ h.after = i
            BY DEF Given
          <6>2. h.after \in TriesOf(h.by) /\ h.user = ask[h.by].user
            BY <6>1 DEF HintInv, OwnRows
          <6> QED BY <5>3, <6>1, <6>2 DEF TriesOf
        <5> QED BY <5>2, <5>4
      <4> QED BY <4>1, <4>2
    <3>4. CASE GateReplay(r)
      <4>1. http[r] = "gate" /\ paid'[r] = paid[r] /\ http'[r] \in {"replay", "credit"}
            /\ (http'[r] = "credit" => Given(unlocked[r]) = {})
        BY <2>2, <3>4 DEF GateReplay, Answer
      <4> QED BY <3>1, <4>1
    <3>5. CASE GateCredit(r)
      BY <2>2, <3>1, <3>5 DEF GateCredit, Answer
    <3>6. CASE WaitReturns(r)
      <4>1. http[r] = "waiting" /\ paid' = paid /\ http'[r] # "gate"
        BY <2>2, <3>6 DEF WaitReturns, Answer, Failures
      <4> QED BY <3>1, <4>1
    <3>7. CASE WaitExpires(r)
      BY <2>2, <3>1, <3>7 DEF WaitExpires, Answer
    <3> QED BY <2>1, <3>2, <3>3, <3>4, <3>5, <3>6, <3>7 DEF Route
  <2>5. \A a : Given(a)' = Given(a)
    BY <2>2 DEF Given
  <2> QED BY <2>2, <2>3, <2>4, <2>5 DEF PaidInv
<1>3. UNCHANGED <<ask, http, unlocked, paid>>
        \/ \E r \in Requests : AskDisabled(r) \/ GateUnlock(r) \/ Route(r) \/ WaitExpires(r)
  BY DEF Next, HintAgent, AgentTakes, AgentFinishes, AgentFails, Submit, ResetCredit, Tick, vars
<1> QED BY <1>1, <1>2, <1>3

LEMMA AlwaysPaidInv == Spec => []PaidInv
<1>1. Init => PaidInv
  BY DEF Init, PaidInv
<1>2. HintInv /\ PaidInv /\ [Next]_vars => PaidInv'
  BY PaidInvKept
<1> QED BY <1>1, <1>2, AlwaysHintInv, PTL DEF Spec

-----------------------------------------------------------------------------
(* Every variable of the hint service keeps its shape, the seats of one      *)
(* request at the route, in the mailbox and with the agent included.         *)
THEOREM TypesAreKept == Spec => []TypeOK
<1>1. HintInv => TypeOK
  BY DEF HintInv
<1> QED BY <1>1, AlwaysHintInv, PTL

(* A recorded request hangs on the wrong attempt that was its student's last *)
(* on the task when the agent began, although the route had looked it up on  *)
(* its own and the student kept submitting (_hint_gate, produce_hint).       *)
THEOREM RowsHangWhereTheyShould == Spec => []RowsHangOnLastWrongAttempt
<1>1. HintInv /\ LatestInv => RowsHangOnLastWrongAttempt
  BY DEF HintInv, LatestInv, OwnRows, RowsHangOnLastWrongAttempt
<1> QED BY <1>1, AlwaysHintInv, AlwaysLatestInv, PTL

(* Decision C.1, in both directions and for every interleaving: whoever is   *)
(* charged gets a hint or gave up waiting for one, and whoever is shown a    *)
(* new hint is charged, unless an admin forgave it.                          *)
THEOREM ChargesAreForHints == Spec => []ChargedForHints
<1>1. HintInv => ChargedForHints
  BY DEF HintInv, ChargeInv, ChargedForHints, ChargedOnlyForAHint
<1> QED BY <1>1, AlwaysHintInv, PTL

(* A hint the student had for the attempt when he asked is shown to him      *)
(* again, whatever becomes of his credit and of the table while the gate     *)
(* reads: only an admin can take it back, and only his own (_hint_gate).     *)
THEOREM PaidHintsAreShown == Spec => []PaidHintIsShownAgain
<1>1. PaidInv => PaidHintIsShownAgain
  BY DEF PaidInv, PaidHintIsShownAgain
<1> QED BY <1>1, AlwaysPaidInv, PTL

(* The bucket that is stored nowhere: a student is never refused a hint      *)
(* that the rule grants, however many requests the window forgets, and what  *)
(* next_refill_at promises him is there when that time comes (hint_credit).  *)
THEOREM CreditIsNeverTooLow == Spec => []CreditIsFair
<1>1. TypeOK /\ CreditInv => CreditIsFair
  <2> SUFFICES ASSUME TypeOK, CreditInv, NEW u \in Users
               PROVE  /\ Credit(u) >= TrueLevel(Charged(u), clock) \div Refill
                      /\ \A t \in NextRefill(Charged(u), clock) :
                            Remaining(Charged(u), t) > Credit(u)
    BY DEF CreditIsFair, CreditNeverTooLow, RefillAsPromised
  <2>1. clock \in Nat /\ \A h \in hints : h.at \in Nat
    BY HintAssumption DEF TypeOK, HintRow
  <2>2. PICK R : R = Charged(u) /\ R \subseteq hints
    BY DEF Charged
  <2>3. Dated(R) /\ \A r \in R : r.at <= clock
    BY <2>1, <2>2, FS_Subset DEF CreditInv, Dated
  <2> QED BY <2>1, <2>2, <2>3, NeverTooLow, PromiseKept DEF Credit
<1> QED BY <1>1, AlwaysCreditInv, PTL
=============================================================================
