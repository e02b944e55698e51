----------------------------- MODULE ConceptPage -----------------------------
(* The page of concepts, put together from GET /modules, /profile,          *)
(* /task-for-concept and /task, while students solve tasks, the             *)
(* KnowledgeModel writes mastery rows for them or loses the inform, and     *)
(* imports switch tasks off and on.                                         *)
EXTENDS Naturals, FiniteSets

CONSTANTS Students,
          Exercises,    \* ids of tasks
          Subjects,     \* codes of concepts
          PrimaryOf,    \* PrimaryOf[e]: the concept of its is_primary row
          SubjectsOf,   \* SubjectsOf[e]: all its concepts
          Grade         \* Grade[e]: its difficulty

ASSUME PageAssumption ==
    /\ Exercises \subseteq Nat /\ IsFiniteSet(Exercises)  \* a table
    /\ Grade \in [Exercises -> Nat]
    /\ \A e \in Exercises : PrimaryOf[e] \in SubjectsOf[e] /\ SubjectsOf[e] \subseteq Subjects

VARIABLES tried,     \* pairs of student and task with an attempt
          solved,    \* those with a correct one
          skilled,   \* pairs of student and concept with a row in skill_mastery
          open       \* tasks with is_active

pageVars == <<tried, solved, skilled, open>>

PageInit == tried = {} /\ solved = {} /\ skilled = {} /\ open = Exercises

(* The Evaluator does not ask whether the task is active: a page may have   *)
(* been open since before it was switched off.                              *)
Submit(u, e, right) ==
    /\ tried' = tried \cup {<<u, e>>}
    /\ solved' = IF right THEN solved \cup {<<u, e>>} ELSE solved
    /\ <<tried, solved>>' # <<tried, solved>>
    /\ UNCHANGED <<skilled, open>>

Learn(u, e) ==
    /\ <<u, e>> \in tried
    /\ skilled' = skilled \cup ({u} \X SubjectsOf[e]) /\ skilled' # skilled
    /\ UNCHANGED <<tried, solved, open>>

Upsert(e, active) ==
    /\ open' = IF active THEN open \cup {e} ELSE open \ {e}
    /\ open' # open
    /\ UNCHANGED <<tried, solved, skilled>>

PageNext ==
    \/ \E u \in Students, e \in Exercises, right \in BOOLEAN : Submit(u, e, right)
    \/ \E u \in Students, e \in Exercises : Learn(u, e)
    \/ \E e \in Exercises, active \in BOOLEAN : Upsert(e, active)

PageSpec == PageInit /\ [][PageNext]_pageVars

-----------------------------------------------------------------------------
SolvedBy(u) == {e \in Exercises : <<u, e>> \in solved}

Offered(c) == {e \in open : PrimaryOf[e] = c}

(* _read_modules.                                                          *)
PrimaryTaskCount(c) == Cardinality(Offered(c))

(* A slip: solved tasks that were switched off still count.                *)
SolvedEver(u, c) == Cardinality({e \in SolvedBy(u) : PrimaryOf[e] = c})

(* _read_profile; it lists only concepts with a mastery row.               *)
SolvedTaskCount(u, c) == Cardinality({e \in SolvedBy(u) \cap open : PrimaryOf[e] = c})

Easier(e, f) == Grade[e] < Grade[f] \/ (Grade[e] = Grade[f] /\ e <= f)

(* resolve_task_for_concept; tasks is empty where the route says 404.      *)
TaskForConcept(u, c) ==
    LET unsolved == Offered(c) \ SolvedBy(u)
        choice   == IF unsolved = {} THEN Offered(c) ELSE unsolved
    IN  [repeat |-> unsolved = {}, tasks |-> {e \in choice : \A f \in choice : Easier(e, f)}]

(* _read_task_detail; an inactive task is not found.                       *)
TaskDetail(u, e) == [found |-> e \in open, solved |-> e \in SolvedBy(u)]

(* The page agrees with itself although four queries, written apart, make   *)
(* it up: a concept that is shown with tasks always has one to give and one *)
(* without never has, the count of solved ones stays within the count of    *)
(* tasks whatever was switched off, the concept is offered for repetition   *)
(* exactly when the two meet, and the task it leads to opens and says so.   *)
PageAgrees ==
    \A u \in Students, c \in Subjects :
        LET entry == TaskForConcept(u, c)
        IN  /\ Cardinality(entry.tasks) = IF PrimaryTaskCount(c) > 0 THEN 1 ELSE 0
            /\ \A e \in entry.tasks : TaskDetail(u, e) = [found |-> TRUE, solved |-> entry.repeat]
            /\ <<u, c>> \in skilled =>
                  /\ SolvedTaskCount(u, c) <= PrimaryTaskCount(c)
                  /\ entry.repeat <=> SolvedTaskCount(u, c) = PrimaryTaskCount(c)
=============================================================================
