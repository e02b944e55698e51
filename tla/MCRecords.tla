------------------------------ MODULE MCRecords ------------------------------
(* Four calls of persist_attempt on two pairs; two concepts with tasks and  *)
(* one without; two competitors and a member of the staff.                  *)
EXTENDS Records, TLC

OwnConcept == 1 :> "joins" @@ 2 :> "joins" @@ 3 :> "windows"
AllConcepts == 1 :> {"joins"} @@ 2 :> {"joins", "select"} @@ 3 :> {"windows"}
Difficulties == 1 :> 2 @@ 2 :> 1 @@ 3 :> 1
=============================================================================
