---------------------------- MODULE LearningProofs ----------------------------
(***************************************************************************)
(* For any curriculum, users, error types and bounds: the tables of the    *)
(* KnowledgeModel and the run of the Recommender keep their types, the     *)
(* engine holds facts of the user being answered only, and "all mastered"  *)
(* is true whenever it is said.  The last rests on the ontology having no  *)
(* cycle: among the concepts that are not mastered one has no unmastered   *)
(* prerequisite, and that one the rules would have found.  At last the     *)
(* account of the mastery: ChainInv keeps each chain of points unbroken,   *)
(* DeliveryInv has every point paid for by a delivery; and the offers:     *)
(* what the rules chose (ChoiceInv) can be worked on when it is offered.   *)
(***************************************************************************)
EXTENDS Learning, SequenceTheorems, SumProofs

(* An update of a probability by a tier's parameters is a probability.     *)
LEMMA UpdateType ==
    ASSUME NEW p \in Probability, NEW tier \in Tiers, NEW correct \in BOOLEAN
    PROVE  Update(p, TierDefaults[tier], correct) \in Probability
<1> DEFINE params == TierDefaults[tier]
<1>1. params \in Params
  BY DEF Tiers, TierDefaults, Params, Probability, One
<1> HIDE DEF params
<1>2. /\ p \in Int
      /\ params.p_t \in Int /\ params.p_g \in Int /\ params.p_s \in Int
  <2>1. p \in Int
    BY DEF Probability, One
  <2>2. params.p_t \in Probability /\ params.p_g \in Probability /\ params.p_s \in Probability
    BY <1>1 DEF Params
  <2>3. Probability \subseteq Int
    BY DEF Probability, One
  <2> QED BY <2>1, <2>2, <2>3
<1>3. Posterior(p, params, correct) \in Int
  <2> DEFINE known == p * (IF correct THEN One - params.p_s ELSE params.p_s)
             total == known + (One - p) * (IF correct THEN params.p_g ELSE One - params.p_g)
  <2>1. known \in Int
    BY <1>2 DEF One
  <2>2. total \in Int
    <3> HIDE DEF known
    <3>1. (One - p) * (IF correct THEN params.p_g ELSE One - params.p_g) \in Int
      BY <1>2 DEF One
    <3> QED BY <2>1, <3>1
  <2> HIDE DEF known, total
  <2>3. known * One \in Int
    BY <2>1 DEF One
  <2>4. total > 0 => (known * One) \div total \in Int
    BY <2>2, <2>3
  <2>5. Posterior(p, params, correct) = IF total > 0 THEN (known * One) \div total ELSE p
    BY DEF Posterior, known, total
  <2> QED BY <2>4, <2>5, <1>2
<1>4. Learnt(Posterior(p, params, correct), params) \in Int
  <2> DEFINE q == Posterior(p, params, correct)
             gain == (One - q) * params.p_t
  <2>1. gain \in Int
    BY <1>2, <1>3 DEF One
  <2> HIDE DEF q, gain
  <2>2. gain \div One \in Int
    BY <2>1 DEF One
  <2>3. q + gain \div One \in Int
    BY <2>2, <1>3 DEF q
  <2> QED BY <2>3 DEF Learnt, q, gain
<1>5. \A x \in Int : Clamp(x) \in Probability
  BY DEF Clamp, Probability, One
<1> QED BY <1>4, <1>5 DEF Update, params

-----------------------------------------------------------------------------
(* The tables and the run of the KnowledgeModel.                           *)

PartialRows(f) == DOMAIN f \subseteq Concepts /\ \A c \in DOMAIN f : f[c] \in Row

Points == [id : 1..lastPoint, user : Users, concept : Concepts, p : Probability,
           attempt : 1..Len(attempts) \ purged]

KmOK ==
    /\ DOMAIN km = {"stage", "attempt", "todo", "rows"}
    /\ km.stage \in {"idle", "updating", "misconception"}
    /\ km.stage # "idle" => km.attempt \in 1..Len(attempts)
    /\ km.todo \in Seq(Concepts)
    /\ PartialRows(km.rows)

TablesOK ==
    /\ attempts \in Seq(Attempt)
    /\ purged \subseteq 1..Len(attempts)
    /\ informs \in Seq(1..Len(attempts))
    /\ DOMAIN mastery = Users /\ \A u \in Users : PartialRows(mastery[u])
    /\ lastPoint \in Nat
    /\ history \subseteq Points
    /\ misconceptions \in [Users -> [Concepts \X ErrorTypes -> Nat]]

KnowledgeOK == TablesOK /\ KmOK

(* The newest of some points is one of them.                               *)
LEMMA NewestIsOne ==
    ASSUME TablesOK, NEW points, points \subseteq history, points # {}
    PROVE  Newest(points) \in points
<1>1. \A h \in points : h.id \in 1..lastPoint
  BY DEF TablesOK, Points
<1> DEFINE Ages == {lastPoint - h.id : h \in points}
<1>2. Ages \subseteq Nat /\ Ages # {}
  BY <1>1 DEF TablesOK
<1>3. PICK age \in Ages : \A other \in Ages : age <= other
  BY <1>2, LeastNat
<1>4. PICK h \in points : age = lastPoint - h.id
  OBVIOUS
<1>5. ASSUME NEW g \in points PROVE g.id <= h.id
  <2>1. lastPoint - g.id \in Ages
    OBVIOUS
  <2>2. age <= lastPoint - g.id
    BY <2>1, <1>3
  <2> HIDE DEF Ages
  <2>3. lastPoint \in Int /\ g.id \in Int /\ h.id \in Int
    BY <1>1 DEF TablesOK
  <2> QED BY <2>2, <2>3, <1>4
<1> QED BY <1>5 DEF Newest

LEMMA PriorRowType == ASSUME NEW c \in Concepts PROVE PriorRow(c) \in Row
<1>1. Tier[c] \in Tiers
  BY CurriculumAssumption
<1>2. \A tier \in Tiers : TierDefaults[tier].p_l0 \in Probability
  BY DEF Tiers, TierDefaults, Probability, One
<1> QED BY <1>1, <1>2 DEF PriorRow, Row

LEMMA UpdatedRowType ==
    ASSUME NEW row \in Row, NEW c \in Concepts, NEW correct \in BOOLEAN
    PROVE  UpdatedRow(row, c, correct) \in Row
<1>1. Tier[c] \in Tiers
  BY CurriculumAssumption
<1>2. row.p \in Probability /\ row.attempts \in Nat /\ row.correct \in Nat
  BY DEF Row
<1>3. Update(row.p, TierDefaults[Tier[c]], correct) \in Probability
  BY <1>1, <1>2, UpdateType
<1>4. row.attempts + 1 \in Nat /\ row.correct + (IF correct THEN 1 ELSE 0) \in Nat
  BY <1>2
<1> QED BY <1>3, <1>4 DEF UpdatedRow, Row

LEMMA EvaluateKeeps ==
    ASSUME KnowledgeOK, NEW u \in Users, NEW t \in Tasks, NEW error \in ErrorTypes \cup {Correct},
           Evaluate(u, t, error)
    PROVE  KnowledgeOK'
<1> DEFINE row == [user |-> u, task |-> t, error |-> error]
<1>1. row \in Attempt
  BY DEF Attempt
<1>2. /\ attempts' = Append(attempts, row)
      /\ attempts \in Seq(Attempt)
      /\ informs' = Append(informs, Len(attempts) + 1)
      /\ informs \in Seq(1..Len(attempts))
      /\ UNCHANGED <<purged, mastery, history, lastPoint, misconceptions, km>>
  BY DEF Evaluate, KnowledgeOK, TablesOK
<1> HIDE DEF row
<1>3. attempts' \in Seq(Attempt) /\ Len(attempts') = Len(attempts) + 1 /\ Len(attempts) \in Nat
  BY <1>1, <1>2, AppendProperties, LenProperties
<1>4. 1..Len(attempts) \subseteq 1..Len(attempts') /\ Len(attempts) + 1 \in 1..Len(attempts')
  BY <1>3
<1>5. informs \in Seq(1..Len(attempts'))
  BY <1>2, <1>4, SeqMonotonic
<1>6. informs' \in Seq(1..Len(attempts'))
  BY <1>2, <1>4, <1>5, AppendProperties
<1>7. Points \subseteq Points'
  BY <1>2, <1>4 DEF Points
<1>8. TablesOK'
  BY <1>2, <1>3, <1>4, <1>6, <1>7 DEF KnowledgeOK, TablesOK, PartialRows
<1>9. KmOK'
  BY <1>2, <1>4 DEF KnowledgeOK, KmOK, PartialRows
<1> QED BY <1>8, <1>9 DEF KnowledgeOK

LEMMA RedeliverKeeps ==
    ASSUME KnowledgeOK, NEW a \in 1..Len(attempts), Redeliver(a)
    PROVE  KnowledgeOK'
<1>1. informs' \in Seq(1..Len(attempts))
  BY AppendProperties DEF Redeliver, KnowledgeOK, TablesOK
<1>2. TablesOK'
  BY <1>1 DEF Redeliver, KnowledgeOK, TablesOK, Points, PartialRows
<1>3. KmOK'
  BY DEF Redeliver, KnowledgeOK, KmOK, PartialRows
<1> QED BY <1>2, <1>3 DEF KnowledgeOK

LEMMA TakeKeeps == ASSUME KnowledgeOK, KnowledgeTake PROVE KnowledgeOK'
<1>1. /\ Head(informs) \in 1..Len(attempts)
      /\ informs' \in Seq(1..Len(attempts))
  BY HeadTailProperties DEF KnowledgeTake, KnowledgeOK, TablesOK
<1>2. attempts[Head(informs)] \in Attempt
  BY <1>1, ElementOfSeq DEF KnowledgeOK, TablesOK
<1>3. TaskConcepts[attempts[Head(informs)].task] \in Seq(Concepts)
  BY <1>2, CurriculumAssumption DEF Attempt
<1>4. TablesOK'
  BY <1>1 DEF KnowledgeTake, KnowledgeOK, TablesOK, Points, PartialRows
<1>5. KmOK'
  BY <1>1, <1>3 DEF KnowledgeTake, KmOK, PartialRows
<1> QED BY <1>4, <1>5 DEF KnowledgeOK

LEMMA ConceptKeeps == ASSUME KnowledgeOK, KnowledgeConcept PROVE KnowledgeOK'
<1> DEFINE c == Head(km.todo)
           u == attempts[km.attempt].user
           new == UpdatedRow(RowOf(u, c), c, IsCorrect(km.attempt))
<1>1. /\ c \in Concepts /\ Tail(km.todo) \in Seq(Concepts)
      /\ km.attempt \in 1..Len(attempts)
  BY HeadTailProperties DEF KnowledgeConcept, KnowledgeOK, KmOK
<1>2. attempts[km.attempt] \in Attempt
  BY <1>1, ElementOfSeq DEF KnowledgeOK, TablesOK
<1>3. u \in Users /\ IsCorrect(km.attempt) \in BOOLEAN
  BY <1>2 DEF Attempt, IsCorrect
<1>4. RowOf(u, c) \in Row
  BY <1>1, <1>3, PriorRowType DEF RowOf, KnowledgeOK, TablesOK, PartialRows
<1>5. new \in Row
  BY <1>1, <1>3, <1>4, UpdatedRowType
<1>6. TablesOK'
  BY DEF KnowledgeConcept, KnowledgeOK, TablesOK, Points, PartialRows
<1>7. km' = [km EXCEPT !.todo = Tail(km.todo),
                       !.rows = [d \in DOMAIN km.rows \cup {c} |->
                                   IF d = c THEN new ELSE km.rows[d]]]
  BY DEF KnowledgeConcept
<1>8. UNCHANGED attempts /\ km.stage = "updating"
  BY DEF KnowledgeConcept
<1> HIDE DEF c, new
<1>9. KmOK'
  BY <1>1, <1>5, <1>7, <1>8 DEF KnowledgeOK, KmOK, PartialRows
<1> QED BY <1>6, <1>9 DEF KnowledgeOK

LEMMA CommitKeeps == ASSUME KnowledgeOK, KnowledgeCommit PROVE KnowledgeOK'
<1> DEFINE u == attempts[km.attempt].user
           new == {[id |-> lastPoint + 1, user |-> u, concept |-> c, p |-> km.rows[c].p,
                    attempt |-> km.attempt] : c \in DOMAIN km.rows}
           merged == [c \in DOMAIN mastery[u] \cup DOMAIN km.rows |->
                        IF c \in DOMAIN km.rows THEN km.rows[c] ELSE mastery[u][c]]
<1>1. /\ km.stage = "updating"
      /\ km.attempt \notin purged
      /\ mastery' = [mastery EXCEPT ![u] = merged]
      /\ history' = history \cup new
      /\ lastPoint' = lastPoint + 1
      /\ km' = [km EXCEPT !.stage = "misconception", !.rows = <<>>]
      /\ UNCHANGED <<attempts, purged, informs, misconceptions>>
  BY DEF KnowledgeCommit
<1>2. km.attempt \in 1..Len(attempts) /\ PartialRows(km.rows) /\ lastPoint \in Nat
  BY <1>1 DEF KnowledgeOK, KmOK, TablesOK
<1>3. attempts[km.attempt] \in Attempt
  BY <1>2, ElementOfSeq DEF KnowledgeOK, TablesOK
<1>4. u \in Users
  BY <1>3 DEF Attempt
<1>5. new \subseteq Points'
  <2>1. \A c \in DOMAIN km.rows : c \in Concepts /\ km.rows[c].p \in Probability
    BY <1>2 DEF PartialRows, Row
  <2>2. lastPoint + 1 \in 1..lastPoint' /\ km.attempt \in 1..Len(attempts) \ purged
    BY <1>1, <1>2
  <2> HIDE DEF u
  <2> QED BY <1>1, <1>4, <2>1, <2>2 DEF Points
<1>6. history \subseteq Points'
  <2>1. 1..lastPoint \subseteq 1..lastPoint'
    BY <1>1, <1>2
  <2> QED BY <1>1, <2>1 DEF Points, KnowledgeOK, TablesOK
<1>7. PartialRows(merged)
  BY <1>2, <1>4 DEF KnowledgeOK, TablesOK, PartialRows
<1> HIDE DEF u, new, merged
<1>8. TablesOK'
  <2>1. DOMAIN mastery' = Users /\ \A v \in Users : PartialRows(mastery'[v])
    BY <1>1, <1>4, <1>7 DEF KnowledgeOK, TablesOK
  <2>2. lastPoint' \in Nat
    BY <1>1, <1>2
  <2> QED BY <1>1, <1>5, <1>6, <2>1, <2>2 DEF KnowledgeOK, TablesOK, PartialRows
<1>9. KmOK'
  BY <1>1, <1>2 DEF KnowledgeOK, KmOK, PartialRows
<1> QED BY <1>8, <1>9 DEF KnowledgeOK

LEMMA MisconceptionKeeps == ASSUME KnowledgeOK, RecordMisconception PROVE KnowledgeOK'
<1>1. km.attempt \in 1..Len(attempts)
  BY DEF RecordMisconception, KnowledgeOK, KmOK
<1>2. attempts[km.attempt] \in Attempt
  BY <1>1, ElementOfSeq DEF KnowledgeOK, TablesOK
<1> DEFINE a == attempts[km.attempt]
<1>3. a.user \in Users /\ a.task \in Tasks /\ a.error \in ErrorTypes \cup {Correct}
  BY <1>2 DEF Attempt
<1>4. Primary[a.task] \in Concepts
  BY <1>3, CurriculumAssumption
<1>5. misconceptions \in [Users -> [Concepts \X ErrorTypes -> Nat]]
  BY DEF KnowledgeOK, TablesOK
<1>6. misconceptions' = IF a.error \in MechanicalErrors \cup {Correct}
                        THEN misconceptions
                        ELSE [misconceptions EXCEPT ![a.user][<<Primary[a.task], a.error>>] = @ + 1]
  BY DEF RecordMisconception
<1> HIDE DEF a
<1>7. misconceptions' \in [Users -> [Concepts \X ErrorTypes -> Nat]]
  <2>1. CASE a.error \in MechanicalErrors \cup {Correct}
    BY <1>5, <1>6, <2>1
  <2>2. CASE a.error \notin MechanicalErrors \cup {Correct}
    <3> DEFINE k == <<Primary[a.task], a.error>>
               f == misconceptions[a.user]
    <3>1. f \in [Concepts \X ErrorTypes -> Nat] /\ k \in Concepts \X ErrorTypes
      BY <1>3, <1>4, <1>5, <2>2
    <3>2. misconceptions' = [misconceptions EXCEPT ![a.user] = [f EXCEPT ![k] = f[k] + 1]]
      BY <1>6, <2>2
    <3> HIDE DEF k, f
    <3>3. [f EXCEPT ![k] = f[k] + 1] \in [Concepts \X ErrorTypes -> Nat]
      BY <3>1
    <3> QED BY <1>3, <1>5, <3>2, <3>3
  <2> QED BY <2>1, <2>2
<1>8. TablesOK'
  BY <1>7 DEF RecordMisconception, KnowledgeOK, TablesOK, Points, PartialRows
<1>9. KmOK'
  BY DEF RecordMisconception, Idle, KmOK, PartialRows
<1> QED BY <1>8, <1>9 DEF KnowledgeOK

LEMMA FailsKeeps == ASSUME KnowledgeOK, KnowledgeFails PROVE KnowledgeOK'
<1>1. TablesOK'
  BY DEF KnowledgeFails, KnowledgeOK, TablesOK, Points, PartialRows
<1>2. KmOK'
  BY DEF KnowledgeFails, Idle, KmOK, PartialRows
<1> QED BY <1>1, <1>2 DEF KnowledgeOK

LEMMA PurgeKeeps ==
    ASSUME KnowledgeOK, NEW error \in ErrorTypes, Purge(error)
    PROVE  KnowledgeOK'
<1> DEFINE ids == {a \in 1..Len(attempts) \ purged : attempts[a].error = error}
<1>1. /\ history' = history \ Removed(ids)
      /\ mastery' = [u \in Users |-> Repaired(u, ids)]
      /\ purged' = purged \cup ids
      /\ UNCHANGED <<attempts, informs, lastPoint, misconceptions, km>>
  BY DEF Purge
<1>2. ids \subseteq 1..Len(attempts)
  OBVIOUS
<1> HIDE DEF ids
<1>3. history' \subseteq Points'
  <2> SUFFICES ASSUME NEW h \in history' PROVE h \in Points'
    OBVIOUS
  <2>1. h \in Points /\ h.attempt \notin ids
    BY <1>1 DEF Removed, Spoilt, KnowledgeOK, TablesOK
  <2> QED BY <1>1, <2>1 DEF Points
<1>4. ASSUME NEW u \in Users PROVE PartialRows(Repaired(u, ids))
  <2> DEFINE left(c) == PointsOf(u, c) \ Removed(ids)
             rowless == {c \in Affected(u, ids) : left(c) = {}}
  <2>1. DOMAIN Repaired(u, ids) = DOMAIN mastery[u] \ rowless
    BY DEF Repaired
  <2>2. PartialRows(mastery[u])
    BY DEF KnowledgeOK, TablesOK
  <2>3. ASSUME NEW c \in DOMAIN mastery[u] \ rowless
        PROVE  Repaired(u, ids)[c] \in Row
    <3>1. mastery[u][c] \in Row
      BY <2>2 DEF PartialRows
    <3>2. CASE c \in Affected(u, ids)
      <4>1. left(c) # {} /\ left(c) \subseteq history
        BY <3>2 DEF PointsOf
      <4>2. Newest(left(c)) \in history
        BY <4>1, NewestIsOne DEF KnowledgeOK
      <4>3. Newest(left(c)).p \in Probability
        BY <4>2 DEF KnowledgeOK, TablesOK, Points
      <4>4. Repaired(u, ids)[c] = [mastery[u][c] EXCEPT !.p = Newest(left(c)).p]
        BY <3>2 DEF Repaired
      <4> HIDE DEF left
      <4> QED BY <3>1, <4>3, <4>4 DEF Row
    <3>3. CASE c \notin Affected(u, ids)
      BY <3>1, <3>3 DEF Repaired
    <3> QED BY <3>2, <3>3
  <2> HIDE DEF rowless
  <2> QED BY <2>1, <2>2, <2>3 DEF PartialRows
<1>5. TablesOK'
  <2>1. DOMAIN mastery' = Users /\ \A u \in Users : PartialRows(mastery'[u])
    BY <1>1, <1>4
  <2> QED BY <1>1, <1>2, <1>3, <2>1 DEF KnowledgeOK, TablesOK
<1>6. KmOK'
  BY <1>1 DEF KnowledgeOK, KmOK, PartialRows
<1> QED BY <1>5, <1>6 DEF KnowledgeOK

-----------------------------------------------------------------------------
(* What the masks of a snapshot promise, and what the rules conclude.      *)

Honest(s) ==
    /\ s \in [Concepts -> Probability]
    /\ \A c \in Subfloor : s[c] = MaskValue
    /\ \A c \in Transversal :
          (\A p \in AllPrereqs[c] : s[p] >= MasteryThreshold) => s[c] = MaskValue

AllDone(s) == \A c \in ConceptsWithTasks \ Subfloor : s[c] >= MasteryThreshold

LEMMA OntologyIsConcepts ==
    /\ Ontology = Concepts
    /\ \A c \in Concepts : AllPrereqs[c] \subseteq Concepts /\ Prerequisite[c] \subseteq AllPrereqs[c]
BY CurriculumAssumption DEF Ontology

LEMMA SnapshotIsHonest ==
    ASSUME NEW rows, DOMAIN rows \subseteq Concepts, \A c \in DOMAIN rows : rows[c] \in Probability
    PROVE  Honest(Snapshot(rows))
<1>1. \A c \in Concepts : TierDefaults[Tier[c]].p_l0 \in Probability
  <2>1. \A tier \in Tiers : TierDefaults[tier].p_l0 \in Probability
    BY DEF Tiers, TierDefaults, Probability, One
  <2> QED BY <2>1, CurriculumAssumption
<1>2. MaskValue \in Probability /\ BlockValue \in Probability
  BY DEF MaskValue, BlockValue, Probability, One
<1>3. Reached(rows) \in [Concepts -> Probability]
  BY <1>1, <1>2 DEF Reached
<1>4. \A c \in Subfloor : c \in Concepts /\ c \notin Transversal /\ Reached(rows)[c] = MaskValue
  BY DEF Subfloor, Transversal, Reached
<1>5. Snapshot(rows) \in [Concepts -> Probability]
  BY <1>2, <1>3 DEF Snapshot
<1>6. \A c \in Concepts \ Transversal : Snapshot(rows)[c] = Reached(rows)[c]
  BY DEF Snapshot
<1>7. ASSUME NEW c \in Transversal, \A p \in AllPrereqs[c] : Snapshot(rows)[p] >= MasteryThreshold
      PROVE  Snapshot(rows)[c] = MaskValue
  <2>1. c \in Concepts
    BY DEF Transversal
  <2>2. \A p \in AllPrereqs[c] : p \in Concepts \ Transversal
    BY <2>1, OntologyIsConcepts, TransversalAssumption
  <2>3. \A p \in AllPrereqs[c] : Reached(rows)[p] >= MasteryThreshold
    BY <2>2, <1>6, <1>7
  <2> QED BY <2>1, <2>3 DEF Snapshot
<1> QED BY <1>4, <1>5, <1>6, <1>7 DEF Honest

(* The first solution exists when there is one.                            *)
LEMMA FirstIsOne ==
    ASSUME NEW candidates, candidates \subseteq Concepts, candidates # {}
    PROVE  First(candidates) \in candidates
<1> DEFINE Places == {i \in 1..Len(Order) : Order[i] \in candidates}
<1>1. Len(Order) \in Nat
  BY CurriculumAssumption, LenProperties
<1>2. Places \subseteq Nat /\ Places # {}
  BY <1>1 DEF Concepts
<1>3. PICK i \in Places : \A j \in Places : i <= j
  BY <1>2, LeastNat
<1> QED BY <1>3 DEF First

LEMMA FirstIsNone ==
    ASSUME NEW candidates, candidates \subseteq Concepts, First(candidates) = NoConcept
    PROVE  candidates = {}
BY FirstIsOne, CurriculumAssumption

(* Among the concepts that are not mastered one has no unmastered          *)
(* prerequisite; if it has tasks the rules take it, if not it is masked.   *)
LEMMA NothingLeft ==
    ASSUME NEW s, Honest(s), RecommendNext(s, ConceptsWithTasks) = NoConcept
    PROVE  AllDone(s)
<1> DEFINE ready == Ready(s, ConceptsWithTasks)
           weak == {c \in ready : Weak(s, c)}
           partial == {c \in ready : Partial(s, c)}
           Open == {c \in Concepts : s[c] < MasteryThreshold}
<1>1. ConceptsWithTasks \subseteq Concepts
  BY CurriculumAssumption DEF ConceptsWithTasks
<1>2. ready \subseteq Concepts
  BY <1>1 DEF Ready
<1>3. weak = {} /\ partial = {}
  <2>1. weak \subseteq Concepts /\ partial \subseteq Concepts
    BY <1>2
  <2>2. RecommendNext(s, ConceptsWithTasks) = First(IF weak # {} THEN weak ELSE partial)
    BY DEF RecommendNext
  <2> HIDE DEF weak, partial
  <2> QED BY <2>1, <2>2, FirstIsNone
<1>4. \A c \in Concepts : s[c] \in Int
  BY DEF Honest, Probability, One
<1>5. SUFFICES ASSUME Open # {} PROVE FALSE
  <2>1. \A c \in Concepts : s[c] >= MasteryThreshold
    BY <1>4, <1>5 DEF MasteryThreshold
  <2> QED BY <1>1, <2>1 DEF AllDone
<1>6. PICK c \in Open : AllPrereqs[c] \cap Open = {}
  BY <1>5, OntologyIsConcepts, AcyclicAssumption
<1>7. \A p \in AllPrereqs[c] : p \in Concepts /\ s[p] >= MasteryThreshold
  BY <1>4, <1>6, OntologyIsConcepts DEF MasteryThreshold
<1>8. CASE c \in ConceptsWithTasks
  <2>1. c \in ready
    BY <1>7, <1>8, OntologyIsConcepts DEF Ready, PrereqsMet, Mastered
  <2>2. Weak(s, c) \/ Partial(s, c)
    BY <1>4 DEF Weak, Partial, WeakThreshold
  <2> QED BY <2>1, <2>2, <1>3
<1>9. CASE c \notin ConceptsWithTasks
  <2>1. {t \in Tasks : Primary[t] = c} = {}
    BY <1>9 DEF ConceptsWithTasks
  <2>2. TaskCount(c) = 0
    BY <2>1, FS_EmptySet DEF TaskCount
  <2>3. c \in Transversal \/ c \in Subfloor
    BY <2>2 DEF Transversal, Subfloor
  <2>4. s[c] = MaskValue
    BY <2>3, <1>7 DEF Honest
  <2> QED BY <2>4 DEF MaskValue, MasteryThreshold
<1> QED BY <1>8, <1>9

LEMMA EasiestIsOne ==
    ASSUME NEW candidates, candidates \subseteq Tasks, candidates # {}
    PROVE  Easiest(candidates) \in candidates
<1> DEFINE Ranks == {TaskRank[t] : t \in candidates}
<1>1. Ranks \subseteq Nat /\ Ranks # {}
  BY CurriculumAssumption
<1>2. PICK r \in Ranks : \A q \in Ranks : r <= q
  BY <1>1, LeastNat
<1>3. PICK t \in candidates : TaskRank[t] = r
  OBVIOUS
<1>4. \A u \in candidates : TaskRank[t] <= TaskRank[u]
  BY <1>2, <1>3
<1> QED BY <1>4 DEF Easiest

LEMMA ResolvedTask ==
    ASSUME NEW c, NEW solved
    PROVE  ResolveTaskForConcept(c, solved).task \in Tasks \cup {NoTask}
<1> DEFINE all == {t \in Tasks : Primary[t] = c}
<1>1. all # {} => Easiest(all) \in Tasks
  BY EasiestIsOne
<1>2. all \ solved # {} => Easiest(all \ solved) \in Tasks
  BY EasiestIsOne
<1> QED BY <1>1, <1>2 DEF ResolveTaskForConcept

-----------------------------------------------------------------------------
(* The run of the Recommender.                                             *)

RecOK ==
    /\ asks \in Seq(Users)
    /\ DOMAIN rec = {"stage", "user", "round", "snapshot", "concept", "reason"}
    /\ rec.stage \in {"idle", "asking", "clearing", "failing", "resolving", "erring"}
    /\ rec.stage # "idle" =>
          rec.user \in Users /\ rec.round \in {1, 2} /\ Honest(rec.snapshot)
    /\ rec.stage \in {"clearing", "resolving"} /\ rec.concept # NoConcept => rec.reason \in Reasons
    /\ rec.stage = "clearing" /\ rec.concept = NoConcept /\ rec.round = 2 => AllDone(rec.snapshot)
    /\ rec.stage = "resolving" /\ rec.concept = NoConcept => AllDone(rec.snapshot)

OffersOK ==
    /\ DOMAIN offer = Users
    /\ \A u \in Users : /\ offer[u].task \in Tasks \cup {NoTask}
                        /\ offer[u].reason \in Reasons \cup {"none yet"}

RecommendationOK == RecOK /\ OffersOK /\ EngineHoldsOwnFactsOnly

LEMMA AskKeeps == ASSUME RecommendationOK, NEW u \in Users, Ask(u) PROVE RecommendationOK'
<1>1. asks' \in Seq(Users)
  BY AppendProperties DEF Ask, RecommendationOK, RecOK
<1> QED BY <1>1 DEF Ask, RecommendationOK, RecOK, OffersOK, EngineHoldsOwnFactsOnly

LEMMA RecTakeKeeps ==
    ASSUME RecommendationOK, KnowledgeOK, RecommenderTake PROVE RecommendationOK'
<1> DEFINE u == Head(asks)
           rows == [c \in DOMAIN mastery[u] |-> mastery[u][c].p]
<1>1. u \in Users /\ asks' \in Seq(Users)
  BY HeadTailProperties DEF RecommenderTake, RecommendationOK, RecOK
<1>2. DOMAIN rows \subseteq Concepts /\ \A c \in DOMAIN rows : rows[c] \in Probability
  BY <1>1 DEF KnowledgeOK, TablesOK, PartialRows, Row
<1>3. Honest(Snapshot(rows))
  <2> HIDE DEF rows
  <2> QED BY <1>2, SnapshotIsHonest
<1>4. /\ rec' = [stage |-> "asking", user |-> u, round |-> 1, snapshot |-> Snapshot(rows),
                 concept |-> NoConcept, reason |-> ""]
      /\ rec.stage = "idle"
      /\ UNCHANGED <<vm, offer, served>>
  BY DEF RecommenderTake
<1> HIDE DEF u, rows
<1>5. RecOK'
  <2>1. DOMAIN rec' = {"stage", "user", "round", "snapshot", "concept", "reason"}
    BY <1>4
  <2>2. /\ rec'.stage = "asking" /\ rec'.user = u /\ rec'.round = 1
        /\ rec'.snapshot = Snapshot(rows)
    BY <1>4
  <2> QED BY <1>1, <1>3, <2>1, <2>2 DEF RecOK
<1>6. EngineHoldsOwnFactsOnly'
  <2>1. vm' = EmptyVm
    BY <1>4 DEF RecommendationOK, EngineHoldsOwnFactsOnly
  <2>2. vm'.mastery = {}
    BY <2>1 DEF EmptyVm
  <2> QED BY <2>1, <2>2 DEF EngineHoldsOwnFactsOnly
<1> QED BY <1>4, <1>5, <1>6 DEF RecommendationOK, OffersOK

(* The engine sees the snapshot of the request and nothing else.           *)
Known(facts) == [c \in Concepts |-> (CHOOSE f \in {g \in facts : g[1] = rec.user} : f[2] = c)[3]]

LEMMA KnownIsSnapshot ==
    ASSUME rec.snapshot \in [Concepts -> Probability]
    PROVE  Known(Injected.mastery) = rec.snapshot
<1> DEFINE own == {f \in Injected.mastery : f[1] = rec.user}
<1>1. own = {<<rec.user, c, rec.snapshot[c]>> : c \in Concepts}
  BY DEF Injected
<1>2. ASSUME NEW c \in Concepts PROVE (CHOOSE f \in own : f[2] = c)[3] = rec.snapshot[c]
  <2> DEFINE fact == <<rec.user, c, rec.snapshot[c]>>
  <2>1. fact \in own /\ fact[2] = c
    BY <1>1
  <2>2. \A f \in own : f[2] = c => f[3] = rec.snapshot[c]
    BY <1>1
  <2> HIDE DEF own, fact
  <2>3. \E f \in own : f[2] = c
    BY <2>1
  <2> QED BY <2>2, <2>3
<1>3. Known(Injected.mastery) = [c \in Concepts |-> (CHOOSE f \in own : f[2] = c)[3]]
  BY DEF Known
<1> HIDE DEF own
<1> QED BY <1>2, <1>3

(* What the rules answer is decided by the snapshot.                       *)
LEMMA RecAskIs ==
    ASSUME RecommendationOK, RecommenderAsk, NEW c, c = RecommendNext(rec.snapshot, Candidates)
    PROVE  rec' = [rec EXCEPT !.stage = "clearing", !.concept = c,
                              !.reason = IF c = NoConcept THEN "" ELSE Reason(rec.snapshot, c)]
<1> DEFINE next(facts, choice) == RecommendNext(facts, choice)
<1>1. vm' = Injected /\ rec.user \in Users /\ Honest(rec.snapshot)
  BY DEF RecommenderAsk, RecommendationOK, RecOK
<1>2. c = next(rec.snapshot, Candidates)
  OBVIOUS
<1>3. QED
  <2>1. Known(Injected.mastery) = rec.snapshot
    BY <1>1, KnownIsSnapshot DEF Honest
  <2>2. Injected.recommendable = Candidates
    BY DEF Injected
  <2> DEFINE d == next(Known(vm'.mastery), vm'.recommendable)
  <2>3. rec' = [rec EXCEPT !.stage = "clearing", !.concept = d,
                           !.reason = IF d = NoConcept THEN "" ELSE Reason(Known(vm'.mastery), d)]
    BY DEF RecommenderAsk, Known
  <2> HIDE DEF next
  <2>4. d = c
    BY <1>1, <1>2, <2>1, <2>2
  <2> QED BY <1>1, <2>1, <2>3, <2>4

LEMMA RecAskKeeps == ASSUME RecommendationOK, RecommenderAsk PROVE RecommendationOK'
<1> DEFINE c == RecommendNext(rec.snapshot, Candidates)
<1>1. /\ rec.stage = "asking" /\ vm' = Injected /\ UNCHANGED <<asks, offer, served>>
      /\ rec.user \in Users /\ rec.round \in {1, 2} /\ Honest(rec.snapshot)
  BY DEF RecommenderAsk, RecommendationOK, RecOK
<1>2. rec' = [rec EXCEPT !.stage = "clearing", !.concept = c,
                         !.reason = IF c = NoConcept THEN "" ELSE Reason(rec.snapshot, c)]
  BY RecAskIs
<1>3. c = NoConcept /\ rec.round = 2 => AllDone(rec.snapshot)
  BY <1>1, NothingLeft DEF Candidates
<1>4. \A d : Reason(rec.snapshot, d) \in Reasons
  BY DEF Reason, Reasons
<1> HIDE DEF c
<1>5. RecOK'
  <2>1. DOMAIN rec = {"stage", "user", "round", "snapshot", "concept", "reason"}
    BY DEF RecommendationOK, RecOK
  <2>2. /\ DOMAIN rec' = DOMAIN rec
        /\ rec'.stage = "clearing" /\ rec'.concept = c
        /\ rec'.reason = IF c = NoConcept THEN "" ELSE Reason(rec.snapshot, c)
        /\ rec'.user = rec.user /\ rec'.round = rec.round /\ rec'.snapshot = rec.snapshot
    BY <1>2, <2>1
  <2>3. asks' \in Seq(Users)
    BY <1>1 DEF RecommendationOK, RecOK
  <2> QED BY <1>1, <1>3, <1>4, <2>1, <2>2, <2>3 DEF RecOK
<1>6. EngineHoldsOwnFactsOnly'
  <2>1. vm = EmptyVm
    BY <1>1 DEF RecommendationOK, EngineHoldsOwnFactsOnly
  <2>2. rec'.user = rec.user /\ rec'.stage = "clearing"
    BY <1>2 DEF RecommendationOK, RecOK
  <2> QED BY <1>1, <2>1, <2>2 DEF EngineHoldsOwnFactsOnly, Injected, EmptyVm
<1> QED BY <1>1, <1>5, <1>6 DEF RecommendationOK, OffersOK

LEMMA RecAskFailsKeeps == ASSUME RecommendationOK, RecommenderAskFails PROVE RecommendationOK'
<1>1. rec.stage = "asking" /\ rec' = [rec EXCEPT !.stage = "failing"]
  BY DEF RecommenderAskFails
<1>2. RecOK'
  BY <1>1 DEF RecommenderAskFails, RecommendationOK, RecOK
<1>3. EngineHoldsOwnFactsOnly'
  <2>1. vm = EmptyVm
    BY <1>1 DEF RecommendationOK, EngineHoldsOwnFactsOnly
  <2>2. rec'.user = rec.user /\ rec'.stage = "failing"
    BY <1>1 DEF RecommendationOK, RecOK
  <2>3. \A f \in vm'.mastery : f[1] = rec.user
    BY <2>1 DEF RecommenderAskFails, Injected, EmptyVm
  <2> QED BY <2>2, <2>3 DEF EngineHoldsOwnFactsOnly
<1> QED BY <1>2, <1>3 DEF RecommendationOK, OffersOK, RecommenderAskFails

LEMMA RecClearKeeps == ASSUME RecommendationOK, RecommenderClear PROVE RecommendationOK'
<1>1. rec.stage \in {"clearing", "failing"} /\ vm' = Cleared
  BY DEF RecommenderClear
<1>2. RecOK'
  BY <1>1 DEF RecommenderClear, RecommendationOK, RecOK
<1>3. vm' = EmptyVm
  BY <1>1 DEF Cleared, EmptyVm, RecommendationOK, EngineHoldsOwnFactsOnly
<1>4. EngineHoldsOwnFactsOnly'
  BY <1>3 DEF EngineHoldsOwnFactsOnly, EmptyVm
<1> QED BY <1>2, <1>4 DEF RecommendationOK, OffersOK, RecommenderClear

(* The steps that end a request or give it up leave the engine alone.      *)
LEMMA RestKeeps ==
    ASSUME RecommendationOK, rec.stage \in {"resolving", "erring"}, rec' = Resting,
           UNCHANGED <<asks, vm>>, OffersOK'
    PROVE  RecommendationOK'
<1>1. vm = EmptyVm
  BY DEF RecommendationOK, EngineHoldsOwnFactsOnly
<1>2. RecOK'
  BY DEF RecommendationOK, RecOK, Resting
<1>3. EngineHoldsOwnFactsOnly'
  BY <1>1 DEF EngineHoldsOwnFactsOnly, EmptyVm
<1> QED BY <1>2, <1>3 DEF RecommendationOK

LEMMA ReplyKeeps == ASSUME RecommendationOK, RecommenderReply PROVE RecommendationOK'
<1>1. rec.stage = "resolving" /\ rec.user \in Users
      /\ (rec.concept # NoConcept => rec.reason \in Reasons)
  BY DEF RecommenderReply, RecommendationOK, RecOK
<1>2. Result.task \in Tasks \cup {NoTask} /\ Result.reason \in Reasons
  <2> DEFINE choice == ResolveTaskForConcept(rec.concept, Solved(rec.user))
  <2>1. choice.task \in Tasks \cup {NoTask}
    BY ResolvedTask
  <2>2. Result = IF rec.concept = NoConcept  THEN Offer(NoTask, NoConcept, "no_recommendation")
                 ELSE IF choice.task = NoTask THEN Offer(NoTask, rec.concept, "exhausted")
                 ELSE IF choice.repeat THEN Offer(choice.task, rec.concept, "repeat_practice")
                 ELSE Offer(choice.task, rec.concept, rec.reason)
    BY DEF Result
  <2> HIDE DEF choice
  <2> QED BY <1>1, <2>1, <2>2 DEF Offer, Reasons
<1>3. OffersOK'
  BY <1>1, <1>2 DEF RecommenderReply, RecommendationOK, OffersOK
<1> QED BY <1>1, <1>3, RestKeeps DEF RecommenderReply

LEMMA ReplyErrorKeeps == ASSUME RecommendationOK, RecommenderReplyError PROVE RecommendationOK'
<1>1. rec.stage = "erring" /\ rec.user \in Users
  BY DEF RecommenderReplyError, RecommendationOK, RecOK
<1>2. OffersOK'
  BY <1>1 DEF RecommenderReplyError, RecommendationOK, OffersOK, Offer, Reasons
<1> QED BY <1>1, <1>2, RestKeeps DEF RecommenderReplyError

LEMMA RecFailsKeeps == ASSUME RecommendationOK, RecommenderFails PROVE RecommendationOK'
BY DEF RecommenderFails, RecommendationOK, RecOK, OffersOK, EngineHoldsOwnFactsOnly

-----------------------------------------------------------------------------
LearningOK == KnowledgeOK /\ RecommendationOK

LEMMA InitOK == Init => LearningOK
<1> SUFFICES ASSUME Init PROVE LearningOK
  OBVIOUS
<1>1. KnowledgeOK
  <2>1. TablesOK
    BY DEF Init, KnowledgeInit, TablesOK, PartialRows
  <2>2. KmOK
    BY DEF Init, KnowledgeInit, Idle, KmOK, PartialRows
  <2> QED BY <2>1, <2>2 DEF KnowledgeOK
<1>2. RecommendationOK
  <2>1. RecOK
    <3>1. DOMAIN rec = {"stage", "user", "round", "snapshot", "concept", "reason"}
      BY DEF Init, RecommenderInit, Resting
    <3>2. rec.stage = "idle" /\ asks = <<>>
      BY DEF Init, RecommenderInit, Resting
    <3> QED BY <3>1, <3>2 DEF RecOK
  <2>2. OffersOK
    BY DEF Init, RecommenderInit, NoOffer, Offer, OffersOK
  <2>3. EngineHoldsOwnFactsOnly
    BY DEF Init, RecommenderInit, EmptyVm, EngineHoldsOwnFactsOnly
  <2> QED BY <2>1, <2>2, <2>3 DEF RecommendationOK
<1> QED BY <1>1, <1>2 DEF LearningOK

LEMMA KmUnchanged == ASSUME KnowledgeOK, UNCHANGED kmVars PROVE KnowledgeOK'
<1>1. TablesOK'
  BY DEF kmVars, KnowledgeOK, TablesOK, Points, PartialRows
<1>2. KmOK'
  BY DEF kmVars, KnowledgeOK, KmOK, PartialRows
<1> QED BY <1>1, <1>2 DEF KnowledgeOK

LEMMA RecUnchanged == ASSUME RecommendationOK, UNCHANGED recVars PROVE RecommendationOK'
BY DEF recVars, RecommendationOK, RecOK, OffersOK, EngineHoldsOwnFactsOnly

LEMMA NextKeeps == ASSUME LearningOK, [Next]_vars PROVE LearningOK'
<1> USE DEF LearningOK
<1>1. CASE KnowledgeModelAgent
  <2>1. UNCHANGED recVars
    BY <1>1 DEF KnowledgeModelAgent
  <2>2. KnowledgeOK'
    BY <1>1, TakeKeeps, ConceptKeeps, CommitKeeps, MisconceptionKeeps, FailsKeeps
       DEF KnowledgeModelAgent
  <2> QED BY <2>1, <2>2, RecUnchanged
<1>2. CASE RecommenderAgent
  <2>1. UNCHANGED kmVars
    BY <1>2 DEF RecommenderAgent
  <2>2. RecommendationOK'
    BY <1>2, RecTakeKeeps, RecAskKeeps, RecClearKeeps, ReplyKeeps, ReplyErrorKeeps
       DEF RecommenderAgent
  <2> QED BY <2>1, <2>2, KmUnchanged
<1>3. CASE \E u \in Learners : AskWhenSettled(u)
  BY <1>3, AskKeeps, KmUnchanged, LearningAssumption DEF AskWhenSettled, AskForTask
<1>4. CASE \E u \in Users : AskEarly(u)
  BY <1>4, AskKeeps, KmUnchanged DEF AskEarly, AskForTask
<1>5. ASSUME NEW u \in Learners, AnswerOffered(u) PROVE LearningOK'
  <2>1. u \in Users /\ offer[u].task \in Tasks
    BY <1>5, LearningAssumption DEF AnswerOffered, RecommendationOK, OffersOK
  <2>2. KnowledgeOK'
    BY <1>5, <2>1, EvaluateKeeps DEF AnswerOffered, Answer
  <2>3. OffersOK'
    BY <1>5, <2>1 DEF AnswerOffered, RecommendationOK, OffersOK, NoOffer, Offer
  <2>4. RecOK' /\ EngineHoldsOwnFactsOnly'
    BY <1>5 DEF AnswerOffered, RecommendationOK, RecOK, EngineHoldsOwnFactsOnly
  <2> QED BY <2>2, <2>3, <2>4 DEF RecommendationOK
<1>6. ASSUME NEW u \in Learners, NEW t \in Tasks, AnswerFreely(u, t) PROVE LearningOK'
  <2>1. KnowledgeOK'
    BY <1>6, EvaluateKeeps, LearningAssumption DEF AnswerFreely, Answer
  <2> QED BY <1>6, <2>1, RecUnchanged DEF AnswerFreely
<1>7. CASE DeliveredAgain
  BY <1>7, RedeliverKeeps, RecUnchanged DEF DeliveredAgain
<1>8. CASE PurgeRuns
  BY <1>8, PurgeKeeps, RecUnchanged DEF PurgeRuns
<1>9. CASE Exception
  BY <1>9, FailsKeeps, RecUnchanged, RecAskFailsKeeps, RecFailsKeeps, KmUnchanged DEF Exception
<1>10. CASE UNCHANGED vars
  BY <1>10, KmUnchanged, RecUnchanged DEF vars
<1> QED BY <1>1, <1>2, <1>3, <1>4, <1>5, <1>6, <1>7, <1>8, <1>9, <1>10 DEF Next

LEMMA AlwaysOK == Spec => []LearningOK
BY InitOK, NextKeeps, PTL DEF Spec

(* Every variable keeps its type, whatever the curriculum: an update of a  *)
(* probability stays one, and no snapshot of mastery outlives its attempt. *)
THEOREM TypesAreKept == Spec => []TypeOK
<1>1. LearningOK => TypeOK
  BY ElementOfSeq
     DEF LearningOK, KnowledgeOK, TablesOK, KmOK, PartialRows, Points, RecommendationOK, RecOK,
         OffersOK, Honest, TypeOK
<1> QED BY <1>1, AlwaysOK, PTL

(* No request, not even one that fails between two facts, leaves facts in  *)
(* the engine that all requests share.                                     *)
THEOREM EngineIsClean == Spec => []EngineHoldsOwnFactsOnly
<1>1. LearningOK => EngineHoldsOwnFactsOnly
  BY DEF LearningOK, RecommendationOK
<1> QED BY <1>1, AlwaysOK, PTL

(* "All mastered" is said only to a student who has mastered every concept *)
(* that can be practised, for every ontology without a cycle.              *)
THEOREM AllMasteredIsProved == Spec => []AllMasteredIsTrue
<1>1. LearningOK => AllMasteredIsTrue
  BY DEF LearningOK, RecommendationOK, RecOK, AllDone, AllMasteredIsTrue
<1> QED BY <1>1, AlwaysOK, PTL

-----------------------------------------------------------------------------
(* The chain of mastery updates, one student and concept at a time.        *)

(* What the point h was computed from.                                     *)
PriorIn(points, c, h) ==
    LET before == {g \in points : g.id < h.id}
    IN  IF before = {} THEN PriorRow(c).p ELSE Newest(before).p

Chained(u, c) ==
    /\ \A h \in PointsOf(u, c) :
          h.p = Update(PriorIn(PointsOf(u, c), c, h), TierDefaults[Tier[c]], IsCorrect(h.attempt))
    /\ c \in DOMAIN mastery[u] <=> PointsOf(u, c) # {}
    /\ PointsOf(u, c) # {} =>
          /\ mastery[u][c].p = Newest(PointsOf(u, c)).p
          /\ mastery[u][c].attempts >= Cardinality(PointsOf(u, c))
          /\ purged = {} => mastery[u][c].attempts = Cardinality(PointsOf(u, c))

Distinct(points) == \A g, h \in points : g.id = h.id => g = h

Linked(u, c) == IsFiniteSet(PointsOf(u, c)) /\ Distinct(PointsOf(u, c)) /\ Chained(u, c)

(* What the run has computed so far still follows from the table: nobody   *)
(* else writes to it between the reads and the commit.                     *)
RowsReady ==
    km.stage = "updating" =>
        \A c \in DOMAIN km.rows :
            km.rows[c] = UpdatedRow(RowOf(attempts[km.attempt].user, c), c, IsCorrect(km.attempt))

ChainInv == RowsReady /\ \A u \in Users, c \in Concepts : Linked(u, c)

LEMMA ChainIs == ChainInv => ChainOfUpdates
BY DEF ChainInv, Linked, Chained, PriorIn, ChainOfUpdates

LEMMA NewestIs ==
    ASSUME NEW points, Distinct(points), NEW h \in points,
           \A g \in points : g.id \in Int, \A g \in points : g.id <= h.id
    PROVE  Newest(points) = h
<1>1. PICK n \in points : n = Newest(points) /\ \A g \in points : g.id <= n.id
  BY DEF Newest
<1>2. n.id = h.id
  BY <1>1
<1> QED
  BY <1>1, <1>2 DEF Distinct

LEMMA PointIds ==
    ASSUME TablesOK, NEW u, NEW c, NEW h \in PointsOf(u, c)
    PROVE  /\ h \in history /\ h.id \in 1..lastPoint /\ h.id \in Int
           /\ h.attempt \in 1..Len(attempts) \ purged
           /\ h.user = u /\ h.concept = c
BY DEF TablesOK, PointsOf, Points

(* Nothing happens to this student and concept.                            *)
LEMMA LinkKept ==
    ASSUME TablesOK, NEW u \in Users, NEW c \in Concepts, Linked(u, c),
           PointsOf(u, c)' = PointsOf(u, c),
           c \in DOMAIN mastery'[u] <=> c \in DOMAIN mastery[u],
           c \in DOMAIN mastery[u] => mastery'[u][c] = mastery[u][c],
           \A a \in 1..Len(attempts) : IsCorrect(a)' = IsCorrect(a),
           purged' = {} => purged = {}
    PROVE  Linked(u, c)'
<1>1. \A h \in PointsOf(u, c) : IsCorrect(h.attempt)' = IsCorrect(h.attempt)
  BY PointIds
<1> QED
  BY <1>1 DEF Linked, Chained

(* A commit adds a point that is computed from the newest one.             *)
LEMMA LinkAdded ==
    ASSUME TablesOK, NEW u \in Users, NEW c \in Concepts, Linked(u, c),
           NEW h, h.id = lastPoint + 1, PointsOf(u, c)' = PointsOf(u, c) \cup {h},
           h.p = UpdatedRow(RowOf(u, c), c, IsCorrect(h.attempt)).p,
           h.attempt \in 1..Len(attempts),
           c \in DOMAIN mastery'[u],
           mastery'[u][c] = UpdatedRow(RowOf(u, c), c, IsCorrect(h.attempt)),
           UNCHANGED <<attempts, purged>>
    PROVE  Linked(u, c)'
<1> DEFINE old == PointsOf(u, c)
           new == old \cup {h}
<1>1. lastPoint \in Nat /\ \A g \in old : g.id \in Int /\ g.id <= lastPoint
  <2>1. lastPoint \in Nat
    BY DEF TablesOK
  <2>2. \A g \in old : g.id \in 1..lastPoint
    BY PointIds
  <2> QED
    BY <2>1, <2>2
<1>2. IsFiniteSet(old) /\ Distinct(old) /\ Chained(u, c)
  BY DEF Linked
<1> HIDE DEF old
<1>3. h \notin old /\ \A g \in old : g.id < h.id
  BY <1>1
<1>4. Distinct(new) /\ \A g \in new : g.id \in Int /\ g.id <= h.id
  BY <1>1, <1>2, <1>3 DEF Distinct
<1>5. Newest(new) = h
  BY <1>4, NewestIs
<1>6. /\ IsFiniteSet(new) /\ Cardinality(new) = Cardinality(old) + 1
      /\ Cardinality(old) \in Nat
  BY <1>2, <1>3, FS_AddElement, FS_CardinalityType
<1>7. RowOf(u, c).p = PriorIn(new, c, h)
  <2>1. {g \in new : g.id < h.id} = old
    BY <1>1, <1>3
  <2>2. CASE old = {}
    <3>1. c \notin DOMAIN mastery[u]
      BY <1>2, <2>2 DEF Chained, old
    <3> QED
      BY <2>1, <2>2, <3>1 DEF PriorIn, RowOf
  <2>3. CASE old # {}
    <3>1. c \in DOMAIN mastery[u] /\ mastery[u][c].p = Newest(old).p
      BY <1>2, <2>3 DEF Chained, old
    <3> QED
      BY <2>1, <2>3, <3>1 DEF PriorIn, RowOf
  <2> QED
    BY <2>2, <2>3
<1>8. ASSUME NEW g \in new
      PROVE  g.p = Update(PriorIn(new, c, g), TierDefaults[Tier[c]], IsCorrect(g.attempt))
  <2>1. CASE g = h
    BY <1>7, <2>1 DEF UpdatedRow
  <2>2. CASE g \in old
    <3>1. {x \in new : x.id < g.id} = {x \in old : x.id < g.id}
      BY <1>1, <1>3, <2>2
    <3>2. PriorIn(new, c, g) = PriorIn(old, c, g)
      BY <3>1 DEF PriorIn
    <3> QED
      BY <1>2, <2>2, <3>2 DEF Chained, old
  <2> QED
    BY <1>8, <2>1, <2>2
<1>9. mastery'[u][c].attempts = RowOf(u, c).attempts + 1 /\ mastery'[u][c].p = h.p
  BY DEF UpdatedRow
<1>10. /\ RowOf(u, c).attempts \in Nat /\ RowOf(u, c).attempts >= Cardinality(old)
       /\ purged = {} => RowOf(u, c).attempts = Cardinality(old)
  <2>1. CASE old = {}
    <3>1. c \notin DOMAIN mastery[u] /\ Cardinality(old) = 0
      BY <1>2, <2>1, FS_EmptySet DEF Chained, old
    <3> QED
      BY <3>1 DEF RowOf, PriorRow
  <2>2. CASE old # {}
    <3>1. c \in DOMAIN mastery[u]
      BY <1>2, <2>2 DEF Chained, old
    <3>2. mastery[u][c] \in Row
      BY <3>1 DEF TablesOK, PartialRows
    <3>3. /\ mastery[u][c].attempts >= Cardinality(old)
          /\ purged = {} => mastery[u][c].attempts = Cardinality(old)
      BY <1>2, <2>2 DEF Chained, old
    <3> QED
      BY <3>1, <3>2, <3>3 DEF RowOf, Row
  <2> QED
    BY <2>1, <2>2
<1>11. PointsOf(u, c)' = new
  BY DEF old
<1> HIDE DEF new
<1>12. new # {}
  BY DEF new
<1>13. \A a : IsCorrect(a)' = IsCorrect(a)
  BY DEF IsCorrect
<1>14. mastery'[u][c].attempts >= Cardinality(new)
       /\ (purged' = {} => mastery'[u][c].attempts = Cardinality(new))
  BY <1>6, <1>9, <1>10
<1>15. Chained(u, c)'
  BY <1>5, <1>8, <1>9, <1>11, <1>12, <1>13, <1>14 DEF Chained
<1> QED
  BY <1>4, <1>6, <1>11, <1>15 DEF Linked

(* The purge takes points from the end of a chain, never from its middle.  *)
LEMMA LinkCut ==
    ASSUME TablesOK, NEW u \in Users, NEW c \in Concepts, Linked(u, c), NEW ids, ids # {},
           history' = history \ Removed(ids), mastery'[u] = Repaired(u, ids),
           purged' = purged \cup ids, attempts' = attempts
    PROVE  Linked(u, c)'
<1> DEFINE old == PointsOf(u, c)
           left == old \ Removed(ids)
<1>1. PointsOf(u, c)' = left
  BY DEF PointsOf
<1>2. IsFiniteSet(old) /\ Distinct(old) /\ Chained(u, c) /\ \A g \in old : g.id \in Int
  BY PointIds DEF Linked
<1>3. /\ IsFiniteSet(left) /\ Cardinality(left) <= Cardinality(old) /\ Distinct(left)
      /\ Cardinality(left) \in Nat /\ Cardinality(old) \in Nat
  BY <1>2, FS_Subset, FS_CardinalityType DEF Distinct
<1>4. ASSUME NEW h \in left, NEW g \in old, g.id < h.id PROVE g \in left
  <2> SUFFICES ASSUME g \in Removed(ids) PROVE FALSE
    OBVIOUS
  <2>1. /\ g \in history /\ h \in history /\ g.user = h.user /\ g.concept = h.concept
        /\ h \notin Removed(ids)
    BY PointIds
  <2>2. CASE g \in Spoilt(ids)
    <3>1. h \in AfterSpoilt(ids)
      BY <1>4, <2>1, <2>2 DEF AfterSpoilt
    <3> QED
      BY <2>1, <3>1 DEF Removed
  <2>3. CASE g \in AfterSpoilt(ids)
    <3>1. PICK f \in Spoilt(ids) : f.user = g.user /\ f.concept = g.concept /\ f.id < g.id
      BY <2>3 DEF AfterSpoilt
    <3>2. f.id \in Int /\ g.id \in Int /\ h.id \in Int
      <4>1. f \in PointsOf(u, c)
        BY <2>1, <3>1, PointIds DEF Spoilt, PointsOf
      <4> QED
        BY <1>2, <4>1
    <3>3. f.id < h.id
      BY <1>4, <3>1, <3>2
    <3>4. h \in AfterSpoilt(ids)
      BY <2>1, <3>1, <3>3 DEF AfterSpoilt
    <3> QED
      BY <2>1, <3>4 DEF Removed
  <2> QED
    BY <2>2, <2>3 DEF Removed
<1>5. ASSUME NEW h \in left PROVE PriorIn(left, c, h) = PriorIn(old, c, h)
  <2>1. {g \in left : g.id < h.id} = {g \in old : g.id < h.id}
    BY <1>4
  <2> QED
    BY <2>1 DEF PriorIn
<1>6. \A a : IsCorrect(a)' = IsCorrect(a)
  BY DEF IsCorrect
<1>7. purged' # {}
  OBVIOUS
<1>8. CASE c \in Affected(u, ids)
  <2>1. old # {}
    BY <1>8 DEF Affected, Spoilt, PointsOf
  <2>2. c \in DOMAIN mastery[u] /\ mastery[u][c].attempts >= Cardinality(old)
    BY <1>2, <2>1 DEF Chained
  <2>3. mastery[u][c] \in Row
    BY <2>2 DEF TablesOK, PartialRows
  <2>4. c \in DOMAIN mastery'[u] <=> left # {}
    BY <1>8, <2>2 DEF Repaired
  <2>5. left # {} => mastery'[u][c] = [mastery[u][c] EXCEPT !.p = Newest(left).p]
    BY <1>8, <2>2 DEF Repaired
  <2> HIDE DEF left, old
  <2>6. left # {} => /\ mastery'[u][c].p = Newest(left).p
                     /\ mastery'[u][c].attempts >= Cardinality(left)
    BY <1>3, <2>2, <2>3, <2>5 DEF Row
  <2>7. \A h \in left : h.p = Update(PriorIn(left, c, h), TierDefaults[Tier[c]], IsCorrect(h.attempt))
    BY <1>2, <1>5 DEF Chained, left, old
  <2>8. Chained(u, c)'
    BY <1>1, <1>6, <1>7, <2>4, <2>6, <2>7 DEF Chained
  <2> QED
    BY <1>1, <1>3, <2>8 DEF Linked
<1>9. CASE c \notin Affected(u, ids)
  <2>1. old \cap Removed(ids) = {}
    BY <1>9 DEF Affected, Removed, AfterSpoilt, Spoilt, PointsOf
  <2>2. PointsOf(u, c)' = PointsOf(u, c)
    BY <1>1, <2>1
  <2>3. c \in DOMAIN mastery'[u] <=> c \in DOMAIN mastery[u]
    BY <1>9 DEF Repaired
  <2>4. c \in DOMAIN mastery[u] => mastery'[u][c] = mastery[u][c]
    BY <1>9 DEF Repaired
  <2> QED
    BY <1>6, <1>7, <2>2, <2>3, <2>4, LinkKept
<1> QED
  BY <1>8, <1>9

LEMMA InitChain == Init => ChainInv
<1> SUFFICES ASSUME Init PROVE ChainInv
  OBVIOUS
<1>1. /\ history = {} /\ km.stage = "idle"
      /\ \A u \in Users : mastery[u] = <<>>
  BY DEF Init, KnowledgeInit, Idle
<1>2. \A u, c : PointsOf(u, c) = {}
  BY <1>1 DEF PointsOf
<1>3. DOMAIN <<>> = {}
  OBVIOUS
<1> QED
  BY <1>1, <1>2, <1>3, FS_EmptySet DEF ChainInv, RowsReady, Linked, Distinct, Chained

(* A step that leaves the tables of mastery alone.                         *)
LEMMA ChainKept ==
    ASSUME KnowledgeOK, ChainInv, UNCHANGED <<mastery, history, purged>>,
           \A a \in 1..Len(attempts) : attempts'[a] = attempts[a],
           \/ km' = km
           \/ km'.stage = "updating" => km'.rows = <<>>
    PROVE  ChainInv'
<1>1. ASSUME NEW u \in Users, NEW c \in Concepts PROVE Linked(u, c)'
  <2>1. PointsOf(u, c)' = PointsOf(u, c) /\ \A a \in 1..Len(attempts) : IsCorrect(a)' = IsCorrect(a)
    BY DEF PointsOf, IsCorrect
  <2>2. Linked(u, c) /\ TablesOK
    BY DEF ChainInv, KnowledgeOK
  <2> QED
    BY <2>1, <2>2, LinkKept
<1>2. RowsReady'
  <2>1. CASE km' = km
    <3>1. km.stage = "updating" => km.attempt \in 1..Len(attempts)
      BY DEF KnowledgeOK, KmOK
    <3>2. km.stage = "updating" => attempts'[km.attempt] = attempts[km.attempt]
      BY <3>1
    <3> QED
      BY <2>1, <3>2 DEF ChainInv, RowsReady, RowOf, IsCorrect
  <2>2. CASE km'.stage = "updating" => km'.rows = <<>>
    <3>1. DOMAIN <<>> = {}
      OBVIOUS
    <3> QED
      BY <2>2, <3>1 DEF RowsReady
  <2> QED
    BY <2>1, <2>2
<1> QED
  BY <1>1, <1>2 DEF ChainInv

LEMMA ConceptChain == ASSUME KnowledgeOK, ChainInv, KnowledgeConcept PROVE ChainInv'
<1> DEFINE c == Head(km.todo)
           u == attempts[km.attempt].user
           new == UpdatedRow(RowOf(u, c), c, IsCorrect(km.attempt))
<1>1. /\ km' = [km EXCEPT !.todo = Tail(km.todo),
                          !.rows = [d \in DOMAIN km.rows \cup {c} |->
                                      IF d = c THEN new ELSE km.rows[d]]]
      /\ UNCHANGED <<attempts, purged, informs, mastery, history, lastPoint, misconceptions>>
      /\ km.stage = "updating"
  BY DEF KnowledgeConcept
<1>2. /\ km'.attempt = km.attempt
      /\ km'.rows = [d \in DOMAIN km.rows \cup {c} |-> IF d = c THEN new ELSE km.rows[d]]
  BY <1>1 DEF KnowledgeOK, KmOK
<1>3. \A d \in DOMAIN km.rows : km.rows[d] = UpdatedRow(RowOf(u, d), d, IsCorrect(km.attempt))
  BY <1>1 DEF ChainInv, RowsReady
<1>4. \A d \in DOMAIN km'.rows : km'.rows[d] = UpdatedRow(RowOf(u, d), d, IsCorrect(km.attempt))
  BY <1>2, <1>3
<1>5. RowsReady'
  <2> HIDE DEF c, new
  <2>1. \A d : /\ RowOf(u, d)' = RowOf(u, d)
               /\ UpdatedRow(RowOf(u, d), d, IsCorrect(km.attempt))
                    = UpdatedRow(RowOf(u, d), d, IsCorrect(km.attempt)')
    BY <1>1, <1>2 DEF RowOf, IsCorrect
  <2> QED
    BY <1>1, <1>2, <1>4, <2>1 DEF RowsReady, RowOf, IsCorrect
<1>6. ASSUME NEW v \in Users, NEW d \in Concepts PROVE Linked(v, d)'
  <2>1. PointsOf(v, d)' = PointsOf(v, d) /\ \A a \in 1..Len(attempts) : IsCorrect(a)' = IsCorrect(a)
    BY <1>1 DEF PointsOf, IsCorrect
  <2>2. Linked(v, d) /\ TablesOK
    BY DEF ChainInv, KnowledgeOK
  <2> QED
    BY <1>1, <2>1, <2>2, LinkKept
<1> QED
  BY <1>5, <1>6 DEF ChainInv

LEMMA CommitChain == ASSUME KnowledgeOK, ChainInv, KnowledgeCommit PROVE ChainInv'
<1> DEFINE a == km.attempt
           u == attempts[a].user
           point(c) == [id |-> lastPoint + 1, user |-> u, concept |-> c, p |-> km.rows[c].p,
                        attempt |-> a]
           merged == [c \in DOMAIN mastery[u] \cup DOMAIN km.rows |->
                        IF c \in DOMAIN km.rows THEN km.rows[c] ELSE mastery[u][c]]
<1>1. /\ km.stage = "updating"
      /\ mastery' = [mastery EXCEPT ![u] = merged]
      /\ history' = history \cup {point(c) : c \in DOMAIN km.rows}
      /\ km' = [km EXCEPT !.stage = "misconception", !.rows = <<>>]
      /\ UNCHANGED <<attempts, purged>>
  BY DEF KnowledgeCommit
<1>2. /\ a \in 1..Len(attempts) /\ PartialRows(km.rows) /\ TablesOK
      /\ km'.stage = "misconception"
  BY <1>1 DEF KnowledgeOK, KmOK
<1>3. attempts[a] \in Attempt
  BY <1>2, ElementOfSeq DEF TablesOK
<1>4. u \in Users
  BY <1>3 DEF Attempt
<1>5. /\ mastery'[u] = merged
      /\ \A v \in Users \ {u} : mastery'[v] = mastery[v]
  BY <1>1, <1>2, <1>4 DEF TablesOK
<1>6. \A d \in DOMAIN km.rows : km.rows[d] = UpdatedRow(RowOf(u, d), d, IsCorrect(a))
  BY <1>1 DEF ChainInv, RowsReady
<1>7. ASSUME NEW v \in Users, NEW c \in Concepts PROVE Linked(v, c)'
  <2>1. Linked(v, c)
    BY DEF ChainInv
  <2>2. CASE v = u /\ c \in DOMAIN km.rows
    <3>1. PICK h : h = point(c)
      OBVIOUS
    <3>2. /\ h.id = lastPoint + 1 /\ h.attempt = a /\ h.p = km.rows[c].p
          /\ h.user = v /\ h.concept = c
      BY <2>2, <3>1
    <3>3. PointsOf(v, c)' = PointsOf(v, c) \cup {h}
      BY <1>1, <2>2, <3>1, <3>2 DEF PointsOf
    <3>4. c \in DOMAIN mastery'[v] /\ mastery'[v][c] = km.rows[c]
      BY <1>5, <2>2
    <3>5. /\ km.rows[c] = UpdatedRow(RowOf(v, c), c, IsCorrect(h.attempt))
          /\ h.attempt \in 1..Len(attempts)
      BY <1>2, <1>6, <2>2, <3>2
    <3>6. UNCHANGED <<attempts, purged>> /\ TablesOK
      BY <1>1, <1>2
    <3>7. /\ h.p = UpdatedRow(RowOf(v, c), c, IsCorrect(h.attempt)).p
          /\ mastery'[v][c] = UpdatedRow(RowOf(v, c), c, IsCorrect(h.attempt))
      BY <3>2, <3>4, <3>5
    <3> QED
      BY <2>1, <3>2, <3>3, <3>4, <3>5, <3>6, <3>7, LinkAdded
  <2>3. CASE ~ (v = u /\ c \in DOMAIN km.rows)
    <3>1. PointsOf(v, c)' = PointsOf(v, c)
      BY <1>1, <2>3 DEF PointsOf
    <3>2. /\ c \in DOMAIN mastery'[v] <=> c \in DOMAIN mastery[v]
          /\ c \in DOMAIN mastery[v] => mastery'[v][c] = mastery[v][c]
      BY <1>5, <2>3
    <3>3. \A x \in 1..Len(attempts) : IsCorrect(x)' = IsCorrect(x)
      BY <1>1 DEF IsCorrect
    <3> QED
      BY <1>1, <1>2, <2>1, <3>1, <3>2, <3>3, LinkKept
  <2> QED
    BY <2>2, <2>3
<1>8. RowsReady'
  BY <1>2 DEF RowsReady
<1> QED
  BY <1>7, <1>8 DEF ChainInv

LEMMA PurgeChain ==
    ASSUME KnowledgeOK, ChainInv, NEW error \in ErrorTypes, Purge(error), km.stage = "idle"
    PROVE  ChainInv'
<1> DEFINE ids == {a \in 1..Len(attempts) \ purged : attempts[a].error = error}
<1>1. /\ ids # {}
      /\ history' = history \ Removed(ids)
      /\ mastery' = [u \in Users |-> Repaired(u, ids)]
      /\ purged' = purged \cup ids
      /\ attempts' = attempts /\ km' = km
  BY DEF Purge
<1> HIDE DEF ids
<1>2. ASSUME NEW u \in Users, NEW c \in Concepts PROVE Linked(u, c)'
  <2>1. Linked(u, c) /\ TablesOK /\ mastery'[u] = Repaired(u, ids)
    BY <1>1 DEF ChainInv, KnowledgeOK
  <2> QED
    BY <1>1, <2>1, LinkCut
<1>3. RowsReady'
  BY <1>1 DEF RowsReady
<1> QED
  BY <1>2, <1>3 DEF ChainInv

LEMMA AnswerChain ==
    ASSUME KnowledgeOK, ChainInv, NEW u, NEW t, NEW error, Evaluate(u, t, error)
    PROVE  ChainInv'
<1>1. \A a \in 1..Len(attempts) : attempts'[a] = attempts[a]
  BY AppendProperties DEF Evaluate, KnowledgeOK, TablesOK
<1> QED
  BY <1>1, ChainKept DEF Evaluate

LEMMA NextChain == ASSUME KnowledgeOK, ChainInv, [Next]_vars PROVE ChainInv'
<1>1. CASE UNCHANGED kmVars
  BY <1>1, ChainKept DEF kmVars
<1>2. CASE KnowledgeModelAgent
  <2>1. CASE KnowledgeTake
    BY <2>1, ChainKept DEF KnowledgeTake
  <2>2. CASE RecordMisconception \/ KnowledgeFails
    BY <2>2, ChainKept DEF RecordMisconception, KnowledgeFails, Idle
  <2> QED
    BY <1>2, <2>1, <2>2, ConceptChain, CommitChain DEF KnowledgeModelAgent
<1>3. CASE KnowledgeFails
  BY <1>3, ChainKept DEF KnowledgeFails, Idle
<1>4. ASSUME NEW u \in Learners, AnswerOffered(u) PROVE ChainInv'
  BY <1>4, AnswerChain DEF AnswerOffered, Answer
<1>5. ASSUME NEW u \in Learners, NEW t \in Tasks, AnswerFreely(u, t) PROVE ChainInv'
  BY <1>5, AnswerChain DEF AnswerFreely, Answer
<1>6. CASE DeliveredAgain
  BY <1>6, ChainKept DEF DeliveredAgain, Redeliver
<1>7. CASE PurgeRuns
  BY <1>7, PurgeChain DEF PurgeRuns
<1> QED
  BY <1>1, <1>2, <1>3, <1>4, <1>5, <1>6, <1>7
     DEF Next, vars, RecommenderAgent, AskWhenSettled, AskEarly, AskForTask, Exception

-----------------------------------------------------------------------------
(* An attempt's informs, taken or still in the mailbox, against the points *)
(* it has left.                                                            *)

Places(s, a) == {i \in 1..Len(s) : s[i] = a}

LEMMA PlacesFinite ==
    ASSUME NEW s \in Seq(Int), NEW a
    PROVE  IsFiniteSet(Places(s, a)) /\ Cardinality(Places(s, a)) \in Nat
<1>1. IsFiniteSet(1..Len(s)) /\ Places(s, a) \subseteq 1..Len(s)
  BY FS_Interval, LenProperties DEF Places
<1> QED
  BY <1>1, FS_Subset, FS_CardinalityType

LEMMA PlacesAppend ==
    ASSUME NEW s \in Seq(Int), NEW a, NEW b \in Int
    PROVE  Cardinality(Places(Append(s, b), a))
             = Cardinality(Places(s, a)) + (IF a = b THEN 1 ELSE 0)
<1>1. /\ Len(Append(s, b)) = Len(s) + 1 /\ Len(s) \in Nat
      /\ Append(s, b)[Len(s) + 1] = b
      /\ \A i \in 1..Len(s) : Append(s, b)[i] = s[i]
  BY AppendProperties, LenProperties
<1>2. CASE a = b
  <2>1. Places(Append(s, b), a) = Places(s, a) \cup {Len(s) + 1}
    BY <1>1, <1>2 DEF Places
  <2>2. Len(s) + 1 \notin Places(s, a)
    BY <1>1 DEF Places
  <2> QED
    BY <1>2, <2>1, <2>2, PlacesFinite, FS_AddElement
<1>3. CASE a # b
  <2>1. Places(Append(s, b), a) = Places(s, a)
    BY <1>1, <1>3 DEF Places
  <2> QED
    BY <1>3, <2>1, PlacesFinite
<1> QED
  BY <1>2, <1>3

LEMMA PlacesTail ==
    ASSUME NEW s \in Seq(Int), NEW a, s # <<>>
    PROVE  Cardinality(Places(s, a))
             = Cardinality(Places(Tail(s), a)) + (IF Head(s) = a THEN 1 ELSE 0)
<1> DEFINE now   == Places(s, a) \ {1}
           later == Places(Tail(s), a)
           shift == [i \in now |-> i - 1]
<1>1. /\ Len(s) \in Nat \ {0} /\ Tail(s) \in Seq(Int) /\ Len(Tail(s)) = Len(s) - 1
      /\ \A i \in 1..Len(s) - 1 : Tail(s)[i] = s[i + 1]
      /\ Head(s) = s[1]
  BY HeadTailProperties, EmptySeq, LenProperties
<1>2. now \subseteq 2..Len(s) /\ \A i \in 2..Len(s) : i \in now <=> i - 1 \in later
  BY <1>1 DEF Places
<1>3. later \subseteq 1..Len(s) - 1
  BY <1>1 DEF Places
<1>4. ExistsBijection(now, later)
  <2>1. shift \in [now -> later]
    BY <1>2
  <2>2. \A i, j \in now : shift[i] = shift[j] => i = j
    BY <1>2
  <2>3. \A k \in later : \E i \in now : shift[i] = k
    <3> SUFFICES ASSUME NEW k \in later PROVE \E i \in now : shift[i] = k
      OBVIOUS
    <3>1. k + 1 \in 2..Len(s) /\ k \in Int
      BY <1>1, <1>3
    <3>2. k + 1 \in now
      BY <1>2, <3>1
    <3> QED
      BY <3>1, <3>2
  <2> QED
    BY <2>1, <2>2, <2>3
       DEF ExistsBijection, Bijection, Injection, IsInjective, Surjection
<1>5. IsFiniteSet(now) /\ Cardinality(now) = Cardinality(later)
  BY <1>4, PlacesFinite, FS_RemoveElement, FS_Bijection
<1>6. 1 \in Places(s, a) <=> Head(s) = a
  BY <1>1 DEF Places
<1> QED
  BY <1>5, <1>6, PlacesFinite, FS_RemoveElement

Uses(a, c) == {h \in history : h.attempt = a /\ h.concept = c}

InHand(a) == IF km.stage = "updating" /\ km.attempt = a THEN 1 ELSE 0

Pending(a) == Cardinality(Places(informs, a)) + InHand(a)

(* The points an attempt has left, and those it may still leave, are paid  *)
(* for by its deliveries.                                                  *)
Covered(a, c) == IsFiniteSet(Uses(a, c)) /\ Cardinality(Uses(a, c)) + Pending(a) <= deliveries[a]

DeliveryInv ==
    /\ deliveries \in Seq(Nat) /\ Len(deliveries) = Len(attempts)
    /\ \A a \in 1..Len(attempts), c \in Concepts : Covered(a, c)

LEMMA InformsAreInts ==
    ASSUME TablesOK
    PROVE  /\ informs \in Seq(Int) /\ Len(attempts) \in Nat
           /\ informs # <<>> => Head(informs) \in 1..Len(attempts)
<1>1. /\ attempts \in Seq(Attempt) /\ informs \in Seq(1..Len(attempts))
  BY DEF TablesOK
<1>2. Len(attempts) \in Nat
  BY <1>1, LenProperties
<1>3. Seq(1..Len(attempts)) \subseteq Seq(Int)
  BY <1>2, SeqMonotonic
<1> QED
  BY <1>1, <1>2, <1>3, HeadTailProperties, EmptySeq

LEMMA PendingNat == ASSUME TablesOK, NEW a PROVE Pending(a) \in Nat
BY InformsAreInts, PlacesFinite DEF Pending, InHand

(* Fewer points, and no more of them to come.                              *)
LEMMA CoveredStill ==
    ASSUME NEW a \in 1..Len(attempts), NEW c \in Concepts, Covered(a, c), TablesOK,
           DeliveryInv, deliveries'[a] = deliveries[a],
           history' \subseteq history, Pending(a)' \in Nat, Pending(a)' <= Pending(a)
    PROVE  Covered(a, c)'
<1>1. Uses(a, c)' \subseteq Uses(a, c)
  BY DEF Uses
<1>2. Pending(a) \in Nat /\ Pending(a)' \in Nat
  BY PendingNat
<1>3. IsFiniteSet(Uses(a, c)) /\ Cardinality(Uses(a, c)) + Pending(a) <= deliveries[a]
  BY DEF Covered
<1>4. /\ IsFiniteSet(Uses(a, c)') /\ Cardinality(Uses(a, c)') <= Cardinality(Uses(a, c))
      /\ Cardinality(Uses(a, c)) \in Nat /\ Cardinality(Uses(a, c)') \in Nat
  BY <1>1, <1>3, FS_Subset, FS_CardinalityType
<1>5. deliveries[a] \in Nat
  BY ElementOfSeq DEF DeliveryInv
<1> QED
  BY <1>2, <1>3, <1>4, <1>5 DEF Covered

LEMMA CoveredPaid ==
    ASSUME NEW a \in 1..Len(attempts), NEW c \in Concepts, Covered(a, c), TablesOK,
           DeliveryInv, deliveries'[a] = deliveries[a] + 1,
           history' \subseteq history, Pending(a)' = Pending(a) + 1
    PROVE  Covered(a, c)'
<1>1. Uses(a, c)' \subseteq Uses(a, c)
  BY DEF Uses
<1>2. Pending(a) \in Nat
  BY PendingNat
<1>3. IsFiniteSet(Uses(a, c)) /\ Cardinality(Uses(a, c)) + Pending(a) <= deliveries[a]
  BY DEF Covered
<1>4. /\ IsFiniteSet(Uses(a, c)') /\ Cardinality(Uses(a, c)') <= Cardinality(Uses(a, c))
      /\ Cardinality(Uses(a, c)) \in Nat /\ Cardinality(Uses(a, c)') \in Nat
  BY <1>1, <1>3, FS_Subset, FS_CardinalityType
<1>5. deliveries[a] \in Nat
  BY ElementOfSeq DEF DeliveryInv
<1> QED
  BY <1>2, <1>3, <1>4, <1>5 DEF Covered

(* A step of the agent, the purge or an exception: no attempt, no inform.  *)
LEMMA DeliveryKept ==
    ASSUME KnowledgeOK, DeliveryInv, UNCHANGED <<attempts, deliveries>>, history' \subseteq history,
           \A a \in 1..Len(attempts) : Pending(a)' \in Nat /\ Pending(a)' <= Pending(a)
    PROVE  DeliveryInv'
<1>1. TablesOK
  BY DEF KnowledgeOK
<1>2. ASSUME NEW a \in 1..Len(attempts), NEW c \in Concepts PROVE Covered(a, c)'
  BY <1>1, <1>2, CoveredStill DEF DeliveryInv
<1>3. (deliveries \in Seq(Nat) /\ Len(deliveries) = Len(attempts))'
  BY DEF DeliveryInv
<1> QED
  BY <1>2, <1>3 DEF DeliveryInv

LEMMA TakeDelivery ==
    ASSUME KnowledgeOK, DeliveryInv, KnowledgeTake, UNCHANGED deliveries
    PROVE  DeliveryInv'
<1>1. /\ informs # <<>> /\ informs' = Tail(informs) /\ km.stage = "idle"
      /\ km'.stage = "updating" /\ km'.attempt = Head(informs)
      /\ UNCHANGED <<attempts, history>>
  BY DEF KnowledgeTake
<1>2. informs \in Seq(Int) /\ TablesOK
  BY InformsAreInts DEF KnowledgeOK
<1>3. Tail(informs) \in Seq(Int)
  BY <1>1, <1>2, HeadTailProperties, EmptySeq
<1>4. ASSUME NEW a PROVE Pending(a)' \in Nat /\ Pending(a)' <= Pending(a)
  <2>1. /\ Pending(a) = Cardinality(Places(informs, a))
        /\ Pending(a)' = Cardinality(Places(Tail(informs), a))
                           + (IF Head(informs) = a THEN 1 ELSE 0)
    <3>1. /\ InHand(a) = 0
          /\ InHand(a)' = IF Head(informs) = a THEN 1 ELSE 0
          /\ Places(informs, a)' = Places(Tail(informs), a)
      BY <1>1 DEF InHand, Places
    <3>2. Cardinality(Places(informs, a)) \in Nat
      BY <1>2, PlacesFinite
    <3> QED
      BY <3>1, <3>2 DEF Pending
  <2>2. Cardinality(Places(informs, a)) \in Nat
    BY <1>2, PlacesFinite
  <2> QED
    BY <1>1, <1>2, <2>1, <2>2, PlacesTail
<1> QED
  BY <1>1, <1>4, DeliveryKept

(* The run goes on or ends without a commit.                               *)
LEMMA RunDelivery ==
    ASSUME KnowledgeOK, DeliveryInv, UNCHANGED <<attempts, deliveries, informs>>,
           history' \subseteq history,
           \A a : km'.stage = "updating" /\ km'.attempt = a => km.stage = "updating" /\ km.attempt = a
    PROVE  DeliveryInv'
<1>1. informs \in Seq(Int) /\ TablesOK
  BY InformsAreInts DEF KnowledgeOK
<1>2. ASSUME NEW a PROVE Pending(a)' \in Nat /\ Pending(a)' <= Pending(a)
  <2>1. Places(informs, a)' = Places(informs, a)
    BY DEF Places
  <2>2. InHand(a) \in {0, 1} /\ InHand(a)' \in {0, 1} /\ InHand(a)' <= InHand(a)
    BY DEF InHand
  <2> QED
    BY <1>1, <2>1, <2>2, PlacesFinite DEF Pending
<1> QED
  BY <1>2, DeliveryKept

LEMMA CommitDelivery ==
    ASSUME KnowledgeOK, DeliveryInv, KnowledgeCommit, UNCHANGED deliveries
    PROVE  DeliveryInv'
<1> DEFINE x == km.attempt
           point(c) == [id |-> lastPoint + 1, user |-> attempts[x].user, concept |-> c,
                        p |-> km.rows[c].p, attempt |-> x]
<1>1. /\ km.stage = "updating" /\ km' = [km EXCEPT !.stage = "misconception", !.rows = <<>>]
      /\ history' = history \cup {point(c) : c \in DOMAIN km.rows}
      /\ UNCHANGED <<attempts, informs>>
  BY DEF KnowledgeCommit
<1>2. km'.stage = "misconception"
  BY <1>1 DEF KnowledgeOK, KmOK
<1>3. informs \in Seq(Int) /\ TablesOK
  BY InformsAreInts DEF KnowledgeOK
<1>4. (deliveries \in Seq(Nat) /\ Len(deliveries) = Len(attempts))'
  BY <1>1 DEF DeliveryInv
<1>5. ASSUME NEW a \in 1..Len(attempts), NEW c \in Concepts PROVE Covered(a, c)'
  <2>1. /\ IsFiniteSet(Uses(a, c)) /\ Cardinality(Uses(a, c)) + Pending(a) <= deliveries[a]
        /\ Cardinality(Uses(a, c)) \in Nat /\ Pending(a) \in Nat
        /\ deliveries[a] \in Nat
    BY <1>3, PendingNat, FS_CardinalityType, ElementOfSeq DEF DeliveryInv, Covered
  <2>2. Places(informs, a)' = Places(informs, a) /\ Cardinality(Places(informs, a)) \in Nat
    BY <1>1, <1>3, PlacesFinite DEF Places
  <2>3. CASE a = x
    <3>1. PICK h : h = point(c)
      OBVIOUS
    <3>2. Uses(a, c)' \subseteq Uses(a, c) \cup {h}
      BY <1>1, <3>1 DEF Uses
    <3>3. /\ IsFiniteSet(Uses(a, c) \cup {h})
          /\ Cardinality(Uses(a, c) \cup {h}) \in Nat
          /\ Cardinality(Uses(a, c) \cup {h}) <= Cardinality(Uses(a, c)) + 1
      <4> DEFINE old == Uses(a, c)
      <4>1. IsFiniteSet(old) /\ Cardinality(old) \in Nat
        BY <2>1
      <4> HIDE DEF old
      <4>2. /\ IsFiniteSet(old \cup {h})
            /\ Cardinality(old \cup {h}) = IF h \in old THEN Cardinality(old)
                                          ELSE Cardinality(old) + 1
        BY <4>1, FS_AddElement
      <4>3. /\ IsFiniteSet(old \cup {h}) /\ Cardinality(old \cup {h}) \in Nat
            /\ Cardinality(old \cup {h}) <= Cardinality(old) + 1
        BY <4>1, <4>2
      <4> QED
        BY <4>3 DEF old
    <3>4. /\ IsFiniteSet(Uses(a, c)') /\ Cardinality(Uses(a, c)') \in Nat
          /\ Cardinality(Uses(a, c)') <= Cardinality(Uses(a, c) \cup {h})
      BY <3>2, <3>3, FS_Subset, FS_CardinalityType
    <3>5. Pending(a)' = Pending(a) - 1
      BY <1>1, <1>2, <2>2, <2>3 DEF Pending, InHand
    <3> QED
      BY <2>1, <3>3, <3>4, <3>5 DEF Covered
  <2>4. CASE a # x
    <3>1. Uses(a, c)' = Uses(a, c)
      BY <1>1, <2>4 DEF Uses
    <3>2. Pending(a)' = Pending(a)
      BY <1>1, <1>2, <2>2, <2>4 DEF Pending, InHand
    <3> QED
      BY <2>1, <3>1, <3>2 DEF Covered
  <2> QED
    BY <2>3, <2>4
<1> QED
  BY <1>1, <1>4, <1>5 DEF DeliveryInv

LEMMA AnswerDelivery ==
    ASSUME KnowledgeOK, DeliveryInv, NEW u, NEW t, NEW error, Evaluate(u, t, error),
           deliveries' = Append(deliveries, 1)
    PROVE  DeliveryInv'
<1>0. PICK n : n = Len(attempts)
  OBVIOUS
<1>1. /\ Len(attempts)' = n + 1 /\ informs' = Append(informs, n + 1)
      /\ UNCHANGED <<history, km>>
  BY <1>0, AppendProperties DEF Evaluate, KnowledgeOK, TablesOK
<1>2. /\ informs \in Seq(Int) /\ n \in Nat /\ TablesOK
      /\ informs \in Seq(1..n) /\ history \subseteq Points
      /\ km.stage = "updating" => km.attempt \in 1..n
  BY <1>0, InformsAreInts DEF KnowledgeOK, TablesOK, KmOK
<1>3. /\ deliveries' \in Seq(Nat) /\ Len(deliveries)' = n + 1 /\ deliveries'[n + 1] = 1
      /\ \A a \in 1..n : deliveries'[a] = deliveries[a]
  BY <1>0, AppendProperties DEF DeliveryInv
<1>4. \A a : /\ Cardinality(Places(informs, a)') =
                   Cardinality(Places(informs, a)) + (IF a = n + 1 THEN 1 ELSE 0)
             /\ Cardinality(Places(informs, a)) \in Nat
  <2>1. \A a : Places(informs, a)' = Places(Append(informs, n + 1), a)
    BY <1>1 DEF Places
  <2> QED
    BY <1>2, <2>1, PlacesAppend, PlacesFinite
<1>5. \A a : InHand(a)' = InHand(a) /\ InHand(a) \in {0, 1}
  BY <1>1 DEF InHand
<1>6. ASSUME NEW a \in 1..n, NEW c \in Concepts PROVE Covered(a, c)'
  <2>1. a # n + 1
    BY <1>2
  <2>2. Pending(a)' = Pending(a) /\ Pending(a) \in Nat
    BY <1>4, <1>5, <2>1 DEF Pending
  <2>3. Uses(a, c)' = Uses(a, c) /\ Covered(a, c) /\ deliveries'[a] = deliveries[a]
    BY <1>0, <1>1, <1>3 DEF Uses, DeliveryInv
  <2> QED
    BY <2>2, <2>3 DEF Covered
<1>7. PICK m : m = n + 1
  OBVIOUS
<1>8. ASSUME NEW c \in Concepts PROVE Covered(m, c)'
  <2>1. m \notin 1..n /\ m \in Nat
    BY <1>2, <1>7
  <2>2. Places(informs, m) = {}
    BY <1>2, <2>1, ElementOfSeq DEF Places
  <2>3. InHand(m) = 0
    BY <1>2, <2>1 DEF InHand
  <2>4. Pending(m)' = 1
    <3>1. Cardinality(Places(informs, m)) = 0
      BY <2>2, FS_EmptySet
    <3>2. Cardinality(Places(informs, m)') = 1
      BY <1>4, <1>7, <3>1
    <3>3. InHand(m)' = 0
      BY <1>5, <2>3
    <3>4. Pending(m)' = Cardinality(Places(informs, m)') + InHand(m)'
      BY DEF Pending
    <3> QED
      BY <3>2, <3>3, <3>4
  <2>5. Uses(m, c)' = {}
    <3>1. \A g \in history : g.attempt \in 1..n
      BY <1>0, <1>2 DEF Points
    <3> QED
      BY <1>1, <2>1, <3>1 DEF Uses
  <2>6. Cardinality(Uses(m, c)') = 0 /\ IsFiniteSet(Uses(m, c)') /\ deliveries'[m] = 1
    BY <1>3, <1>7, <2>5, FS_EmptySet
  <2> QED
    <3>1. 0 + 1 <= 1
      OBVIOUS
    <3>2. Cardinality(Uses(m, c)') + Pending(m)' = 0 + 1
      BY <2>4, <2>6
    <3>3. Cardinality(Uses(m, c)') + Pending(m)' <= deliveries'[m]
      BY <2>6, <3>1, <3>2
    <3> QED
      BY <2>6, <3>3 DEF Covered
<1>9. 1..Len(attempts)' = 1..n \cup {m}
  BY <1>1, <1>2, <1>7
<1> QED
  BY <1>1, <1>3, <1>6, <1>8, <1>9 DEF DeliveryInv

LEMMA RedeliverDelivery ==
    ASSUME KnowledgeOK, DeliveryInv, NEW x \in 1..Len(attempts), Redeliver(x),
           deliveries' = [deliveries EXCEPT ![x] = @ + 1]
    PROVE  DeliveryInv'
<1>1. informs' = Append(informs, x) /\ UNCHANGED <<attempts, history, km>>
  BY DEF Redeliver
<1>2. informs \in Seq(Int) /\ x \in Int /\ TablesOK
  BY InformsAreInts DEF KnowledgeOK
<1>3. /\ deliveries \in Seq(Nat) /\ Len(deliveries) = Len(attempts)
      /\ deliveries[x] \in Nat
  BY ElementOfSeq DEF DeliveryInv
<1>4. /\ deliveries' \in Seq(Nat) /\ Len(deliveries') = Len(deliveries)
      /\ deliveries'[x] = deliveries[x] + 1
      /\ \A a \in 1..Len(attempts) \ {x} : deliveries'[a] = deliveries[a]
  BY <1>3, ExceptSeq
<1>5. ASSUME NEW a \in 1..Len(attempts), NEW c \in Concepts PROVE Covered(a, c)'
  <2>1. /\ Cardinality(Places(informs, a)') =
              Cardinality(Places(informs, a)) + (IF a = x THEN 1 ELSE 0)
        /\ Cardinality(Places(informs, a)) \in Nat
    <3>1. Places(informs, a)' = Places(Append(informs, x), a)
      BY <1>1 DEF Places
    <3> QED
      BY <1>2, <3>1, PlacesAppend, PlacesFinite
  <2>2. InHand(a)' = InHand(a) /\ InHand(a) \in {0, 1}
    BY <1>1 DEF InHand
  <2>3. Covered(a, c) /\ history' \subseteq history
    BY <1>1 DEF DeliveryInv
  <2>4. CASE a = x
    <3>1. Pending(a)' = Pending(a) + 1
      BY <2>1, <2>2, <2>4 DEF Pending
    <3> QED
      BY <1>2, <1>4, <2>3, <2>4, <3>1, CoveredPaid
  <2>5. CASE a # x
    <3>1. Pending(a)' = Pending(a) /\ Pending(a) \in Nat
      BY <2>1, <2>2, <2>5 DEF Pending
    <3> QED
      BY <1>2, <1>4, <2>3, <2>5, <3>1, CoveredStill
  <2> QED
    BY <2>4, <2>5
<1> QED
  BY <1>1, <1>3, <1>4, <1>5 DEF DeliveryInv

LEMMA InitDelivery == Init => DeliveryInv
<1> SUFFICES ASSUME Init PROVE DeliveryInv
  OBVIOUS
<1>1. deliveries = <<>> /\ attempts = <<>>
  BY DEF Init, KnowledgeInit
<1> QED
  BY <1>1, EmptySeq DEF DeliveryInv

LEMMA NextDelivery == ASSUME KnowledgeOK, DeliveryInv, [Next]_vars PROVE DeliveryInv'
<1>1. CASE UNCHANGED kmVars /\ UNCHANGED deliveries
  BY <1>1, RunDelivery DEF kmVars
<1>2. CASE KnowledgeModelAgent
  <2>1. UNCHANGED deliveries
    BY <1>2 DEF KnowledgeModelAgent, worldVars
  <2>2. CASE KnowledgeConcept
    <3>1. km'.stage = km.stage /\ km'.attempt = km.attempt
      BY <2>2 DEF KnowledgeConcept, KnowledgeOK, KmOK
    <3> QED
      BY <2>1, <2>2, <3>1, RunDelivery DEF KnowledgeConcept
  <2>3. CASE RecordMisconception \/ KnowledgeFails
    BY <2>1, <2>3, RunDelivery DEF RecordMisconception, KnowledgeFails, Idle
  <2> QED
    BY <1>2, <2>1, <2>2, <2>3, TakeDelivery, CommitDelivery DEF KnowledgeModelAgent
<1>3. CASE KnowledgeFails /\ UNCHANGED deliveries
  BY <1>3, RunDelivery DEF KnowledgeFails, Idle
<1>4. ASSUME NEW u \in Learners, AnswerOffered(u) PROVE DeliveryInv'
  BY <1>4, AnswerDelivery DEF AnswerOffered, Answer
<1>5. ASSUME NEW u \in Learners, NEW t \in Tasks, AnswerFreely(u, t) PROVE DeliveryInv'
  BY <1>5, AnswerDelivery DEF AnswerFreely, Answer
<1>6. CASE DeliveredAgain
  BY <1>6, RedeliverDelivery DEF DeliveredAgain
<1>7. CASE PurgeRuns
  BY <1>7, RunDelivery DEF PurgeRuns, Purge
<1> QED
  BY <1>1, <1>2, <1>3, <1>4, <1>5, <1>6, <1>7
     DEF Next, vars, worldVars, RecommenderAgent, AskWhenSettled, AskEarly, AskForTask, Exception

LEMMA AlwaysLinked == Spec => [](LearningOK /\ ChainInv /\ DeliveryInv)
<1>1. Init => LearningOK /\ ChainInv /\ DeliveryInv
  BY InitOK, InitChain, InitDelivery
<1>2. LearningOK /\ ChainInv /\ DeliveryInv /\ [Next]_vars
         => (LearningOK /\ ChainInv /\ DeliveryInv)'
  BY NextKeeps, NextChain, NextDelivery DEF LearningOK
<1> QED
  BY <1>1, <1>2, PTL DEF Spec

(* Every point of every student and concept follows from the one before    *)
(* it, the table holds the last one, and no attempt is applied more often  *)
(* than it was delivered: whatever fails, is delivered again or is purged. *)
THEOREM MasteryIsProved == Spec => []MasteryIsAccounted
<1>1. LearningOK /\ DeliveryInv => AppliedOncePerDelivery
  <2> SUFFICES ASSUME LearningOK, DeliveryInv, NEW h \in history
               PROVE  Cardinality(Uses(h.attempt, h.concept)) <= deliveries[h.attempt]
    BY DEF AppliedOncePerDelivery, Uses
  <2>1. TablesOK
    BY DEF LearningOK, KnowledgeOK
  <2>2. h.attempt \in 1..Len(attempts) /\ h.concept \in Concepts
    BY <2>1 DEF TablesOK, Points
  <2>3. Covered(h.attempt, h.concept) /\ deliveries[h.attempt] \in Nat
    BY <2>2, ElementOfSeq DEF DeliveryInv
  <2> QED
    BY <2>1, <2>3, PendingNat, FS_CardinalityType DEF Covered
<1>2. LearningOK /\ ChainInv /\ DeliveryInv => MasteryIsAccounted
  BY <1>1, ChainIs DEF MasteryIsAccounted
<1> QED
  BY <1>2, AlwaysLinked, PTL

-----------------------------------------------------------------------------
(* What the rules have chosen stays right until it is offered: the         *)
(* prerequisites are looked up in the snapshot of the request, and that a  *)
(* concept has tasks does not depend on who has solved them.               *)

Explanations == {"weak_with_prereqs_met", "partial_continuation"}

ChoiceInv ==
    rec.stage \in {"clearing", "resolving"} /\ rec.concept # NoConcept =>
        /\ rec.concept \in ConceptsWithTasks
        /\ PrereqsMet(rec.snapshot, rec.concept)
        /\ rec.reason \in Explanations

LEMMA RecommendedIsReady ==
    ASSUME NEW s, NEW candidates, candidates \subseteq ConceptsWithTasks,
           NEW c, c = RecommendNext(s, candidates), c # NoConcept
    PROVE  c \in candidates /\ PrereqsMet(s, c)
<1>1. PICK ready : ready = Ready(s, candidates)
  OBVIOUS
<1>2. PICK chosen : /\ chosen \subseteq ready
                    /\ c = First(chosen)
  <2> DEFINE weak == {d \in ready : Weak(s, d)}
             partial == {d \in ready : Partial(s, d)}
  <2>1. c = First(IF weak # {} THEN weak ELSE partial)
    BY <1>1 DEF RecommendNext
  <2>2. weak \subseteq ready /\ partial \subseteq ready
    OBVIOUS
  <2> HIDE DEF weak, partial
  <2> QED BY <2>1, <2>2
<1>3. ready \subseteq candidates /\ \A d \in ready : PrereqsMet(s, d)
  BY <1>1 DEF Ready
<1>4. chosen \subseteq Concepts
  BY <1>2, <1>3, CurriculumAssumption DEF ConceptsWithTasks
<1>5. chosen # {}
  BY <1>2 DEF First
<1> QED BY <1>2, <1>3, <1>4, <1>5, FirstIsOne

LEMMA AskChooses == ASSUME RecommendationOK, RecommenderAsk PROVE ChoiceInv'
<1>1. PICK c : c = RecommendNext(rec.snapshot, Candidates)
  OBVIOUS
<1>2. rec' = [rec EXCEPT !.stage = "clearing", !.concept = c,
                         !.reason = IF c = NoConcept THEN "" ELSE Reason(rec.snapshot, c)]
  BY <1>1, RecAskIs
<1>3. /\ rec'.concept = c /\ rec'.snapshot = rec.snapshot
      /\ c # NoConcept => rec'.reason = Reason(rec.snapshot, c)
  BY <1>2 DEF RecommendationOK, RecOK
<1>4. Candidates \subseteq ConceptsWithTasks
  BY DEF Candidates, ConceptsWithAvailableTasks, ConceptsWithTasks
<1>5. c # NoConcept => c \in ConceptsWithTasks /\ PrereqsMet(rec.snapshot, c)
  BY <1>1, <1>4, RecommendedIsReady
<1>6. Reason(rec.snapshot, c) \in Explanations
  BY DEF Reason, Explanations
<1> QED BY <1>3, <1>5, <1>6 DEF ChoiceInv

LEMMA NextChoice == ASSUME RecommendationOK, ChoiceInv, [Next]_vars PROVE ChoiceInv'
<1>1. CASE RecommenderAsk
  BY <1>1, AskChooses
<1>2. CASE RecommenderClear
  <2>1. rec.stage \in {"clearing", "failing"}
        /\ rec' = [rec EXCEPT
                 !.stage = IF rec.stage = "failing" THEN "erring"
                           ELSE IF rec.concept = NoConcept /\ rec.round = 1 THEN "asking"
                           ELSE "resolving",
                 !.round = IF rec.stage = "clearing" /\ rec.concept = NoConcept THEN 2 ELSE @]
    BY <1>2 DEF RecommenderClear
  <2>2. /\ rec'.concept = rec.concept /\ rec'.snapshot = rec.snapshot
        /\ rec'.reason = rec.reason
        /\ rec.stage = "failing" => rec'.stage = "erring"
    BY <2>1 DEF RecommendationOK, RecOK
  <2> QED BY <2>1, <2>2 DEF ChoiceInv
<1>3. CASE rec' = rec
  BY <1>3 DEF ChoiceInv
<1>4. CASE rec'.stage \in {"idle", "asking", "failing", "erring"}
  BY <1>4 DEF ChoiceInv
<1>5. \/ RecommenderAsk \/ RecommenderClear \/ rec' = rec
      \/ rec'.stage \in {"idle", "asking", "failing", "erring"}
  <2>1. CASE RecommenderAgent
    <3>1. Resting.stage = "idle"
      BY DEF Resting
    <3>2. ASSUME RecommenderTake PROVE rec'.stage = "asking"
      <4>1. PICK u, s : rec' = [stage |-> "asking", user |-> u, round |-> 1, snapshot |-> s,
                                concept |-> NoConcept, reason |-> ""]
        BY <3>2 DEF RecommenderTake
      <4> QED BY <4>1
    <3>3. RecommenderReply \/ RecommenderReplyError => rec' = Resting
      BY DEF RecommenderReply, RecommenderReplyError
    <3> QED BY <2>1, <3>1, <3>2, <3>3 DEF RecommenderAgent
  <2>2. CASE Exception
    BY <2>2 DEF Exception, RecommenderAskFails, RecommenderFails, recVars, RecommendationOK, RecOK
  <2>3. CASE Next /\ ~RecommenderAgent /\ ~Exception
    BY <2>3 DEF Next, KnowledgeModelAgent, AskWhenSettled, AskEarly, AskForTask, Ask, AnswerOffered,
                AnswerFreely, DeliveredAgain, PurgeRuns, recVars
  <2>4. CASE UNCHANGED vars
    BY <2>4 DEF vars, recVars
  <2> QED BY <2>1, <2>2, <2>3, <2>4
<1> QED BY <1>1, <1>2, <1>3, <1>4, <1>5

LEMMA ResolvedIs ==
    ASSUME NEW c \in ConceptsWithTasks, NEW solved, NEW choice,
           choice = ResolveTaskForConcept(c, solved)
    PROVE  /\ choice.task \in Tasks /\ Primary[choice.task] = c
           /\ choice.repeat \in BOOLEAN
           /\ choice.task \in solved => {t \in Tasks : Primary[t] = c} \subseteq solved
<1>1. PICK all : all = {t \in Tasks : Primary[t] = c}
  OBVIOUS
<1>2. all # {} /\ all \subseteq Tasks
  BY <1>1 DEF ConceptsWithTasks
<1>3. choice = IF all \ solved = {} THEN [task |-> Easiest(all), repeat |-> TRUE]
               ELSE [task |-> Easiest(all \ solved), repeat |-> FALSE]
  BY <1>1, <1>2 DEF ResolveTaskForConcept
<1>4. Easiest(all) \in all
  BY <1>2, EasiestIsOne
<1>5. all \ solved # {} => Easiest(all \ solved) \in all \ solved
  BY <1>2, EasiestIsOne
<1> QED BY <1>1, <1>3, <1>4, <1>5

(* Only a reply of the Recommender offers a concept.                       *)
LEMMA WhoOffers ==
    ASSUME RecommendationOK, [Next]_vars, NEW u \in Users, offer'[u] # offer[u],
           offer'[u].concept # NoConcept
    PROVE  RecommenderReply /\ u = rec.user
<1>1. offer' # offer /\ DOMAIN offer = Users
  BY DEF RecommendationOK, OffersOK
<1>2. CASE RecommenderReply
  <2>1. offer' = [offer EXCEPT ![rec.user] = Result]
    BY <1>2 DEF RecommenderReply
  <2> HIDE DEF Result
  <2> QED BY <1>2, <2>1
<1>3. CASE RecommenderReplyError
  BY <1>1, <1>3 DEF RecommenderReplyError, Offer
<1>4. ASSUME NEW v \in Learners, AnswerOffered(v) PROVE FALSE
  BY <1>1, <1>4 DEF AnswerOffered, NoOffer, Offer
<1>5. \/ RecommenderReply \/ RecommenderReplyError \/ \E v \in Learners : AnswerOffered(v)
  <2>1. CASE RecommenderAgent
    BY <1>1, <2>1 DEF RecommenderAgent, RecommenderTake, RecommenderAsk, RecommenderClear
  <2>2. CASE Exception
    BY <1>1, <2>2 DEF Exception, RecommenderAskFails, RecommenderFails, recVars
  <2>3. CASE Next /\ ~RecommenderAgent /\ ~Exception
    BY <1>1, <2>3 DEF Next, KnowledgeModelAgent, AskWhenSettled, AskEarly, AskForTask, Ask,
                AnswerFreely, DeliveredAgain, PurgeRuns, recVars
  <2>4. CASE UNCHANGED vars
    BY <1>1, <2>4 DEF vars, recVars
  <2> QED BY <2>1, <2>2, <2>3, <2>4
<1> QED BY <1>2, <1>3, <1>4, <1>5

LEMMA ReplyIsWorkable ==
    ASSUME RecommendationOK, ChoiceInv, RecommenderReply, NEW o, o = Result, o.concept # NoConcept
    PROVE  /\ o.reason # "exhausted"
           /\ o.task \in Tasks /\ Primary[o.task] = o.concept
           /\ \A p \in Prerequisite[o.concept] : rec.snapshot[p] >= MasteryThreshold
           /\ o.task \in Solved(rec.user) =>
                 {t \in Tasks : Primary[t] = o.concept} \subseteq Solved(rec.user)
<1>1. rec.concept # NoConcept
  BY DEF Result, Offer
<1>2. /\ rec.concept \in ConceptsWithTasks /\ rec.reason \in Explanations
      /\ PrereqsMet(rec.snapshot, rec.concept)
  BY <1>1 DEF RecommenderReply, ChoiceInv
<1>3. PICK choice : choice = ResolveTaskForConcept(rec.concept, Solved(rec.user))
  OBVIOUS
<1>4. /\ choice.task \in Tasks /\ Primary[choice.task] = rec.concept /\ choice.repeat \in BOOLEAN
      /\ choice.task \in Solved(rec.user) =>
            {t \in Tasks : Primary[t] = rec.concept} \subseteq Solved(rec.user)
  BY <1>2, <1>3, ResolvedIs
<1>5. choice.task # NoTask
  BY <1>4, CurriculumAssumption
<1>6. o = IF choice.repeat THEN Offer(choice.task, rec.concept, "repeat_practice")
          ELSE Offer(choice.task, rec.concept, rec.reason)
  BY <1>1, <1>3, <1>5 DEF Result
<1>7. /\ o.task = choice.task /\ o.concept = rec.concept
      /\ o.reason \in Explanations \cup {"repeat_practice"}
  BY <1>2, <1>4, <1>6 DEF Offer
<1>8. o.reason # "exhausted"
  BY <1>7 DEF Explanations
<1> QED BY <1>2, <1>4, <1>7, <1>8 DEF PrereqsMet, Mastered

(* An offer can always be worked on, though the rules ran on a snapshot    *)
(* and the task is looked up afterwards: a task of the recommended         *)
(* concept, with mastered prerequisites, and repeated only for want of     *)
(* another (recommend, resolve_task_for_concept).                          *)
THEOREM OffersAreWorkable == Spec => OfferIsWorkable
<1> DEFINE Workable ==
          \A u \in Users :
             offer'[u] # offer[u] /\ offer'[u].concept # NoConcept =>
                LET o == offer'[u]
                IN  /\ o.reason # "exhausted"
                    /\ o.task \in Tasks /\ Primary[o.task] = o.concept
                    /\ \A p \in Prerequisite[o.concept] : rec.snapshot[p] >= MasteryThreshold
                    /\ o.task \in Solved(u) =>
                          {t \in Tasks : Primary[t] = o.concept} \subseteq Solved(u)
<1>1. ASSUME RecommendationOK, ChoiceInv, [Next]_vars PROVE Workable
  <2> SUFFICES ASSUME NEW u \in Users, offer'[u] # offer[u], offer'[u].concept # NoConcept,
                      NEW o, o = offer'[u]
               PROVE  /\ o.reason # "exhausted"
                      /\ o.task \in Tasks /\ Primary[o.task] = o.concept
                      /\ \A p \in Prerequisite[o.concept] : rec.snapshot[p] >= MasteryThreshold
                      /\ o.task \in Solved(u) =>
                            {t \in Tasks : Primary[t] = o.concept} \subseteq Solved(u)
    OBVIOUS
  <2>1. RecommenderReply /\ u = rec.user
    BY <1>1, WhoOffers
  <2>2. o = Result
    <3>1. offer' = [offer EXCEPT ![rec.user] = Result]
      BY <2>1 DEF RecommenderReply
    <3>2. DOMAIN offer = Users
      BY <1>1 DEF RecommendationOK, OffersOK
    <3> QED BY <2>1, <3>1, <3>2
  <2> QED BY <1>1, <2>1, <2>2, ReplyIsWorkable
<1>2. Init => ChoiceInv
  <2> SUFFICES ASSUME Init PROVE ChoiceInv
    OBVIOUS
  <2>1. rec = Resting
    BY DEF Init, RecommenderInit
  <2>2. Resting.stage = "idle"
    BY DEF Resting
  <2> QED BY <2>1, <2>2 DEF ChoiceInv
<1>3. LearningOK => RecommendationOK
  BY DEF LearningOK
<1>4. Spec => []RecommendationOK
  BY <1>3, AlwaysOK, PTL
<1>5. Spec => []ChoiceInv
  BY <1>2, <1>4, NextChoice, PTL DEF Spec
<1> QED BY <1>1, <1>4, <1>5, PTL DEF Spec, OfferIsWorkable
===============================================================================
