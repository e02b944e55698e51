------------------------------- MODULE Learning -------------------------------
(***************************************************************************)
(* The learning loop: a student asks for a task and answers it, the        *)
(* KnowledgeModel turns the answer into mastery, the Recommender turns     *)
(* mastery into the next task, while other students ask too.               *)
(***************************************************************************)
EXTENDS Recommender

CONSTANTS
    Learners,    \* the users who answer what they are offered
    MaxWrong,    \* bound on wrong answers
    MaxTrouble   \* bound on early requests, answers to tasks nobody offered, informs
                 \* delivered again, runs of the purge and exceptions, taken together

ASSUME LearningAssumption ==
    /\ Learners \subseteq Users
    /\ {MaxWrong, MaxTrouble} \subseteq Nat

VARIABLES
    trouble,    \* how much of MaxTrouble is used up
    deliveries  \* deliveries[a]: informs of attempt a so far

worldVars == <<trouble, deliveries>>

vars == <<kmVars, recVars, worldVars>>

Init ==
    /\ KnowledgeInit
    /\ RecommenderInit
    /\ trouble = 0
    /\ deliveries = <<>>

-----------------------------------------------------------------------------
(* The students.                                                           *)

Trouble ==
    /\ trouble < MaxTrouble
    /\ trouble' = trouble + 1

(* POST /attempt answers when the KnowledgeModel has signalled.            *)
Settled == informs = <<>> /\ km.stage = "idle"

AskForTask(u) ==
    /\ offer[u].task = NoTask
    /\ u \notin {asks[i] : i \in 1..Len(asks)} \cup {rec.user}
    /\ Ask(u)
    /\ UNCHANGED <<kmVars, deliveries>>

(* The page of a learner asks once the last answer is settled.             *)
AskWhenSettled(u) == Settled /\ AskForTask(u) /\ UNCHANGED trouble

(* GET /next-task in another tab, or by somebody else.                     *)
AskEarly(u) == Trouble /\ AskForTask(u)

WrongSoFar == Cardinality({a \in 1..Len(attempts) : ~IsCorrect(a)})

(* A correct answer, or a wrong one within the bound.                      *)
Answer(u, t) ==
    /\ \E error \in {Correct} \cup (IF WrongSoFar < MaxWrong THEN ErrorTypes ELSE {}) :
          Evaluate(u, t, error)
    /\ deliveries' = Append(deliveries, 1)

AnswerOffered(u) ==
    /\ offer[u].task # NoTask
    /\ Settled
    /\ Answer(u, offer[u].task)
    /\ offer' = [offer EXCEPT ![u] = NoOffer]
    /\ UNCHANGED <<asks, rec, vm, served, trouble>>

(* A task picked from the list of modules.                                 *)
AnswerFreely(u, t) ==
    /\ Trouble
    /\ Answer(u, t)
    /\ UNCHANGED recVars

-----------------------------------------------------------------------------
(* The world around them.                                                  *)

DeliveredAgain ==
    /\ Trouble
    /\ \E a \in 1..Len(attempts) :
          /\ Redeliver(a)
          /\ deliveries' = [deliveries EXCEPT ![a] = @ + 1]
    /\ UNCHANGED recVars

(* The script is run while no update is under way.                         *)
PurgeRuns ==
    /\ Trouble
    /\ km.stage = "idle"
    /\ \E error \in ErrorTypes : Purge(error)
    /\ UNCHANGED <<recVars, deliveries>>

KnowledgeModelAgent ==
    \/ /\ KnowledgeTake \/ KnowledgeConcept \/ KnowledgeCommit \/ RecordMisconception
       /\ UNCHANGED <<recVars, worldVars>>
    \/ /\ km.attempt \in purged  \* no such attempt any more
       /\ KnowledgeFails
       /\ UNCHANGED <<recVars, worldVars>>

RecommenderAgent ==
    /\ RecommenderTake \/ RecommenderAsk \/ RecommenderClear
          \/ RecommenderReply \/ RecommenderReplyError
    /\ UNCHANGED <<kmVars, worldVars>>

Exception ==
    /\ Trouble
    /\ UNCHANGED deliveries
    /\ \/ KnowledgeFails /\ UNCHANGED recVars
       \/ (RecommenderAskFails \/ RecommenderFails) /\ UNCHANGED kmVars

Next ==
    \/ KnowledgeModelAgent
    \/ RecommenderAgent
    \/ \E u \in Learners : AskWhenSettled(u)
    \/ \E u \in Users : AskEarly(u)
    \/ \E u \in Learners : AnswerOffered(u)
    \/ \E u \in Learners, t \in Tasks : AnswerFreely(u, t)
    \/ DeliveredAgain
    \/ PurgeRuns
    \/ Exception

Spec == Init /\ [][Next]_vars

(* The agents take what is in their mailboxes, and the learners are        *)
(* diligent: they ask when they have no task and answer when they have.    *)
Fairness ==
    /\ WF_vars(KnowledgeModelAgent)
    /\ WF_vars(RecommenderAgent)
    /\ \A u \in Learners : WF_vars(AskWhenSettled(u)) /\ WF_vars(AnswerOffered(u))

FairSpec == Spec /\ Fairness

-----------------------------------------------------------------------------
(* Every variable has its type.                                            *)
TypeOK ==
    /\ attempts \in Seq(Attempt)
    /\ purged \subseteq 1..Len(attempts)
    /\ \A i \in 1..Len(informs) : informs[i] \in 1..Len(attempts)
    /\ \A u \in Users : /\ DOMAIN mastery[u] \subseteq Concepts
                        /\ \A c \in DOMAIN mastery[u] : mastery[u][c] \in Row
    /\ history \subseteq [id : 1..lastPoint, user : Users, concept : Concepts,
                          p : Probability, attempt : 1..Len(attempts) \ purged]
    /\ misconceptions \in [Users -> [Concepts \X ErrorTypes -> Nat]]
    /\ km.stage \in {"idle", "updating", "misconception"}
    /\ km.stage # "idle" => km.attempt \in 1..Len(attempts)
    /\ rec.stage \in {"idle", "asking", "clearing", "failing", "resolving", "erring"}
    /\ rec.stage # "idle" => rec.user \in Users /\ rec.snapshot \in [Concepts -> Probability]
    /\ \A u \in Users : offer[u].reason \in Reasons \cup {"none yet"}

(* The chain of mastery updates is unbroken: each point of a student and a *)
(* concept is the Bayesian update, by the verdict of its own attempt, of   *)
(* the point before it (the first one, of the prior of the tier), and      *)
(* skill_mastery holds the last one; no row without a point, and its       *)
(* counter counts the points, those the script took away included.  So no  *)
(* update is lost although the agent awaits the engine in the middle of    *)
(* one, no exception leaves half of one, and the purge takes no point away *)
(* that another was computed from.                                         *)
ChainOfUpdates ==
    \A u \in Users, c \in Concepts :
        LET points == PointsOf(u, c)
            prior(h) == LET before == {g \in points : g.id < h.id}
                        IN  IF before = {} THEN PriorRow(c).p ELSE Newest(before).p
        IN  /\ \A h \in points :
                 h.p = Update(prior(h), TierDefaults[Tier[c]], IsCorrect(h.attempt))
            /\ c \in DOMAIN mastery[u] <=> points # {}
            /\ points # {} => /\ mastery[u][c].p = Newest(points).p
                              /\ mastery[u][c].attempts >= Cardinality(points)
                              /\ purged = {} => mastery[u][c].attempts = Cardinality(points)

(* An attempt is applied to a concept at most once for each delivery of    *)
(* its inform: a failed run leaves nothing that a later one would apply    *)
(* again, and a redelivery does no more than one update of harm.           *)
AppliedOncePerDelivery ==
    \A h \in history :
        Cardinality({g \in history : g.attempt = h.attempt /\ g.concept = h.concept})
            <= deliveries[h.attempt]

(* What skill_mastery says is accounted for, attempt by attempt.           *)
MasteryIsAccounted == ChainOfUpdates /\ AppliedOncePerDelivery

(* The engine holds facts only while one request is being answered, and    *)
(* then those of its user: no exception leaves facts behind in the engine  *)
(* that all requests share.                                                *)
EngineHoldsOwnFactsOnly ==
    /\ vm # EmptyVm => rec.stage \in {"clearing", "failing"}
    /\ \A f \in vm.mastery : f[1] = rec.user

(* "no_recommendation", which the pages show as "all mastered", is said    *)
(* only if every concept that can be practised is mastered.                *)
AllMasteredIsTrue ==
    rec.stage = "resolving" /\ rec.concept = NoConcept =>
        \A c \in ConceptsWithTasks \ Subfloor : rec.snapshot[c] >= MasteryThreshold

(* A new offer with a task gives a task of the recommended concept, whose  *)
(* prerequisites were mastered when the request was taken; it repeats a    *)
(* solved task only if the concept has no other; and a concept that was    *)
(* recommended always has a task to give.                                  *)
OfferIsWorkable ==
    [][\A u \in Users :
          offer'[u] # offer[u] /\ offer'[u].concept # NoConcept =>
             LET o == offer'[u]
             IN  /\ o.reason # "exhausted"
                 /\ o.task \in Tasks /\ Primary[o.task] = o.concept
                 /\ \A p \in Prerequisite[o.concept] : rec.snapshot[p] >= MasteryThreshold
                 /\ o.task \in Solved(u) =>
                       {t \in Tasks : Primary[t] = o.concept} \subseteq Solved(u)]_vars

(* A student who keeps answering what is offered, with finitely many wrong *)
(* answers, and whatever finitely many exceptions, masters everything that *)
(* can be practised and is told so: no dead end, no task offered for ever. *)
DiligentStudentFinishes ==
    \A u \in Learners :
        <>(/\ offer[u].reason = "no_recommendation"
           /\ \A c \in ConceptsWithTasks \ Subfloor :
                 c \in DOMAIN mastery[u] /\ mastery[u][c].p >= MasteryThreshold)
===============================================================================
