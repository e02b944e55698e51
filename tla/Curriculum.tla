------------------------------ MODULE Curriculum ------------------------------
(***************************************************************************)
(* The catalogue (tables concepts, modules, tasks, task_concepts), the     *)
(* ontology (ontology.pl) and what recommender_logic.py and rules.pl       *)
(* compute from them: which concepts can be recommended, the mastery       *)
(* snapshot with its masks, the choice of a concept and of a task.         *)
(***************************************************************************)
EXTENDS BKT, FiniteSets, Sequences

CONSTANTS
    Order,         \* the concepts table in canonical order
    Tier,          \* Tier[c]: tier/2, for the concepts of the ontology
    Prerequisite,  \* Prerequisite[c]: prerequisite/2
    AllPrereqs,    \* AllPrereqs[c]: all_prereqs/2, the transitive closure
    ModuleOf,      \* ModuleOf[c]: the number of the concept's module
    Tasks,         \* the tasks that are active
    TaskRank,      \* TaskRank[t]: position by difficulty and id
    Primary,       \* Primary[t]: the concept of the is_primary row
    TaskConcepts   \* TaskConcepts[t]: all its concepts, as the payload lists them

NoConcept == "no concept"
NoTask    == "no task"

Concepts == {Order[i] : i \in 1..Len(Order)}
Ontology == DOMAIN Tier

TaskCount(c) == Cardinality({t \in Tasks : Primary[t] = c})

(* Kat. A: glue without tasks.  Kat. B: too few tasks to practise.         *)
Transversal == {c \in Concepts : ModuleOf[c] = 0 /\ TaskCount(c) = 0}
Subfloor    == {c \in Concepts : ModuleOf[c] # 0 /\ TaskCount(c) < 2}

(* The seed fills the tables from the ontology; prerequisites have no      *)
(* cycle, and no transversal concept leads to another one.                 *)
ASSUME CurriculumAssumption ==
    /\ Order \in Seq(STRING)
    /\ \A i, j \in 1..Len(Order) : Order[i] = Order[j] => i = j
    /\ Tier \in [Concepts -> Tiers]
    /\ NoConcept \notin Concepts
    /\ Prerequisite \in [Ontology -> SUBSET Ontology]
    /\ AllPrereqs \in [Ontology -> SUBSET Ontology]
    /\ \A c \in Ontology : Prerequisite[c] \subseteq AllPrereqs[c]
    /\ ModuleOf \in [Concepts -> Nat]
    /\ IsFiniteSet(Tasks)
    /\ NoTask \notin Tasks
    /\ TaskRank \in [Tasks -> Nat]
    /\ \A t, u \in Tasks : TaskRank[t] = TaskRank[u] => t = u
    /\ Primary \in [Tasks -> Concepts]
    /\ TaskConcepts \in [Tasks -> Seq(Concepts)]

ASSUME AcyclicAssumption ==
    \A S \in SUBSET Ontology : S # {} => \E c \in S : AllPrereqs[c] \cap S = {}

ASSUME TransversalAssumption ==
    \A c \in Transversal : AllPrereqs[c] \cap Transversal = {}

-----------------------------------------------------------------------------
(* build_mastery_snapshot: the priors, the student's rows, the two masks.  *)

MaskValue  == 990
BlockValue == 0

Reached(rows) ==
    [c \in Concepts |->
        IF c \in Subfloor       THEN MaskValue
        ELSE IF c \in DOMAIN rows THEN rows[c]
        ELSE TierDefaults[Tier[c]].p_l0]

Snapshot(rows) ==
    LET reached == Reached(rows)
        Passable(c) == \A p \in AllPrereqs[c] : reached[p] >= MasteryThreshold
    IN  [c \in Concepts |->
            IF c \notin Transversal THEN reached[c]
            ELSE IF Passable(c)     THEN MaskValue
            ELSE BlockValue]

-----------------------------------------------------------------------------
(* rules.pl over the injected facts: mastery/3 of one user as a function,  *)
(* recommendable/1 as a set.                                               *)

Mastered(facts, c) == facts[c] >= MasteryThreshold
Weak(facts, c)     == facts[c] < WeakThreshold
Partial(facts, c)  == facts[c] >= WeakThreshold /\ facts[c] < MasteryThreshold

PrereqsMet(facts, c) == \A p \in Prerequisite[c] : Mastered(facts, p)

(* The first solution of a clause: the cut after the last goal.            *)
First(candidates) ==
    IF candidates = {}
    THEN NoConcept
    ELSE Order[CHOOSE i \in 1..Len(Order) :
                  /\ Order[i] \in candidates
                  /\ \A j \in 1..Len(Order) : Order[j] \in candidates => i <= j]

Ready(facts, recommendable) == {c \in recommendable : PrereqsMet(facts, c)}

(* recommend_next/2.  Its third and fourth clause admit what is ready and  *)
(* not mastered, which one of the first two has taken when mastery/3 is    *)
(* known for every concept.                                                *)
RecommendNext(facts, recommendable) ==
    LET ready == Ready(facts, recommendable)
        weak  == {c \in ready : Weak(facts, c)}
    IN  First(IF weak # {} THEN weak ELSE {c \in ready : Partial(facts, c)})

(* explain_recommendation/3.                                               *)
Reason(facts, c) ==
    IF Weak(facts, c) THEN "weak_with_prereqs_met" ELSE "partial_continuation"

-----------------------------------------------------------------------------
(* The concepts that can give a task, and the task they give.              *)

ConceptsWithAvailableTasks(solved) == {Primary[t] : t \in Tasks \ solved}

ConceptsWithTasks == {Primary[t] : t \in Tasks}

Easiest(candidates) ==
    CHOOSE t \in candidates : \A u \in candidates : TaskRank[t] <= TaskRank[u]

(* select_task_for_concept, which the code keeps for its tests: it never   *)
(* repeats a task.                                                         *)
SelectTaskForConcept(c, solved) ==
    LET unsolved == {t \in Tasks \ solved : Primary[t] = c}
    IN  [task |-> IF unsolved = {} THEN NoTask ELSE Easiest(unsolved), repeat |-> FALSE]

ResolveTaskForConcept(c, solved) ==
    LET all      == {t \in Tasks : Primary[t] = c}
        unsolved == all \ solved
    IN  IF all = {}           THEN [task |-> NoTask, repeat |-> FALSE]
        ELSE IF unsolved = {} THEN [task |-> Easiest(all), repeat |-> TRUE]
        ELSE [task |-> Easiest(unsolved), repeat |-> FALSE]
===============================================================================
