----------------------------- MODULE Recommender -----------------------------
(***************************************************************************)
(* The RecommenderAgent: recommend-next requests taken one by one, each    *)
(* answered by recommender_logic.recommend in a thread, over facts that    *)
(* are asserted into the one Prolog engine of the process and retracted    *)
(* again (prolog_engine.py).                                               *)
(***************************************************************************)
EXTENDS KnowledgeModel

VARIABLES
    asks,   \* recommend-next requests: the users asking, oldest first
    rec,    \* the run of RecommendBehaviour
    vm,     \* dynamic facts in the engine: mastery/3 and recommendable/1
    offer,  \* offer[u]: the last inform recommend-next that u received
    served  \* recommendations_log, without repetitions

recVars == <<asks, rec, vm, offer, served>>

Reasons == {"weak_with_prereqs_met", "partial_continuation", "repeat_practice",
            "exhausted", "no_recommendation", "error"}

Offer(t, c, reason) == [task |-> t, concept |-> c, reason |-> reason]
NoOffer == Offer(NoTask, NoConcept, "none yet")

EmptyVm == [mastery |-> {}, recommendable |-> {}]
Resting == [stage |-> "idle", user |-> "", round |-> 0, snapshot |-> <<>>,
            concept |-> NoConcept, reason |-> ""]

RecommenderInit ==
    /\ asks = <<>>
    /\ rec = Resting
    /\ vm = EmptyVm
    /\ offer = [u \in Users |-> NoOffer]
    /\ served = {}

Solved(u) == {attempts[a].task : a \in {b \in 1..Len(attempts) \ purged :
                                           attempts[b].user = u /\ IsCorrect(b)}}

-----------------------------------------------------------------------------
(* GET /next-task, or the Coordinator's RECOMMEND.                         *)
Ask(u) ==
    /\ asks' = Append(asks, u)
    /\ UNCHANGED <<rec, vm, offer, served>>

(* The lock is taken; the thread reads skill_mastery.                      *)
RecommenderTake ==
    /\ rec.stage = "idle"
    /\ asks # <<>>
    /\ LET u == Head(asks)
       IN  rec' = [stage |-> "asking", user |-> u, round |-> 1,
                   snapshot |-> Snapshot([c \in DOMAIN mastery[u] |-> mastery[u][c].p]),
                   concept |-> NoConcept, reason |-> ""]
    /\ asks' = Tail(asks)
    /\ UNCHANGED <<vm, offer, served>>

(* The first round wants something new, the reserve round takes anything.  *)
Candidates ==
    IF rec.round = 1 THEN ConceptsWithAvailableTasks(Solved(rec.user)) ELSE ConceptsWithTasks

(* inject_recommendable clears the facts of everybody, inject_mastery      *)
(* those of the user.                                                      *)
Injected ==
    [mastery |-> {f \in vm.mastery : f[1] # rec.user}
                   \cup {<<rec.user, c, rec.snapshot[c]>> : c \in Concepts},
     recommendable |-> Candidates]

(* _ask: inject, recommend_next, explain_recommendation.                   *)
RecommenderAsk ==
    /\ rec.stage = "asking"
    /\ vm' = Injected
    /\ LET own   == {f \in vm'.mastery : f[1] = rec.user}
           facts == [c \in Concepts |-> (CHOOSE f \in own : f[2] = c)[3]]
           c     == RecommendNext(facts, vm'.recommendable)
       IN  rec' = [rec EXCEPT !.stage = "clearing", !.concept = c,
                              !.reason = IF c = NoConcept THEN "" ELSE Reason(facts, c)]
    /\ UNCHANGED <<asks, offer, served>>

(* An exception between the first fact and the last: what had been         *)
(* asserted by then is in the engine, and the finally branch is next.      *)
RecommenderAskFails ==
    /\ rec.stage = "asking"
    /\ vm' \in {[vm EXCEPT !.recommendable = Candidates], Injected}
    /\ rec' = [rec EXCEPT !.stage = "failing"]
    /\ UNCHANGED <<asks, offer, served>>

Cleared == [mastery |-> {f \in vm.mastery : f[1] # rec.user}, recommendable |-> {}]

(* Mutant: clear_mastery and clear_recommendable only after an answer.     *)
ClearUnlessFailing ==
    /\ rec.stage \in {"clearing", "failing"}
    /\ vm' = IF rec.stage = "failing" THEN vm ELSE Cleared
    /\ rec' = [rec EXCEPT !.stage = IF rec.stage = "failing" THEN "erring"
                                    ELSE IF rec.concept = NoConcept /\ rec.round = 1 THEN "asking"
                                    ELSE "resolving",
                          !.round = IF rec.stage = "clearing" THEN 2 ELSE @]
    /\ UNCHANGED <<asks, offer, served>>

(* Mutant: there is no reserve round.                                      *)
ClearNoReserve ==
    /\ rec.stage \in {"clearing", "failing"}
    /\ vm' = Cleared
    /\ rec' = [rec EXCEPT !.stage = IF rec.stage = "failing" THEN "erring" ELSE "resolving"]
    /\ UNCHANGED <<asks, offer, served>>

(* The finally branch of _ask, and what recommend does next.               *)
RecommenderClear ==
    /\ rec.stage \in {"clearing", "failing"}
    /\ vm' = Cleared
    /\ rec' = [rec EXCEPT
                 !.stage = IF rec.stage = "failing" THEN "erring"
                           ELSE IF rec.concept = NoConcept /\ rec.round = 1 THEN "asking"
                           ELSE "resolving",
                 !.round = IF rec.stage = "clearing" /\ rec.concept = NoConcept THEN 2 ELSE @]
    /\ UNCHANGED <<asks, offer, served>>

(* The result of recommend: resolve_task_for_concept reads the solved      *)
(* tasks again.                                                            *)
Result ==
    LET c      == rec.concept
        choice == ResolveTaskForConcept(c, Solved(rec.user))
    IN  IF c = NoConcept          THEN Offer(NoTask, NoConcept, "no_recommendation")
        ELSE IF choice.task = NoTask THEN Offer(NoTask, c, "exhausted")
        ELSE IF choice.repeat     THEN Offer(choice.task, c, "repeat_practice")
        ELSE Offer(choice.task, c, rec.reason)

(* The log entry, only for a task, and the inform.                         *)
RecommenderReply ==
    /\ rec.stage = "resolving"
    /\ offer' = [offer EXCEPT ![rec.user] = Result]
    /\ served' = IF Result.task = NoTask THEN served
                 ELSE served \cup {<<rec.user, Result.task, Result.reason>>}
    /\ rec' = Resting
    /\ UNCHANGED <<asks, vm>>

(* The except branch: an inform all the same.                              *)
RecommenderReplyError ==
    /\ rec.stage = "erring"
    /\ offer' = [offer EXCEPT ![rec.user] = Offer(NoTask, NoConcept, "error")]
    /\ rec' = Resting
    /\ UNCHANGED <<asks, vm, served>>

(* The commit of the log entry, or the reading of the tables, fails.       *)
RecommenderFails ==
    /\ rec.stage = "resolving"
    /\ rec' = [rec EXCEPT !.stage = "erring"]
    /\ UNCHANGED <<asks, vm, offer, served>>
===============================================================================
