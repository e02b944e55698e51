---------------------------- MODULE MCOperations ----------------------------
(* Three cells of two concepts, one of them written by hand; two generated  *)
(* tasks and a hand-written one over two editions of the sandbox; users out *)
(* of an admin, a demo user and a participant.                              *)
EXTENDS Operations, TLC

TwoConcepts == 1 :> "joins" @@ 2 :> "joins" @@ 3 :> "windows"
Matrix == 1 :> 2 @@ 2 :> 1 @@ 3 :> 1

(* t1 passed and later loses nothing; t2 failed, and its query finds rows   *)
(* only in the second edition; m shows the same rows in both.               *)
Rows == "t1" :> <<"x1", "x2">> @@ "t2" :> <<"none", "y2">> @@ "m" :> <<"m1", "m1">>
=============================================================================
