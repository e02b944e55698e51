---------------------------- MODULE MCHintService ----------------------------
EXTENDS HintService, TLC

CONSTANTS t1, t2

(* The catalog knows a hint for clear errors on the first task only.       *)
FirstTaskOnly == {<<t1, TRUE>>}

RequestSymmetry == Permutations(Requests)
=============================================================================
