------------------------------- MODULE Records -------------------------------
(* The record of attempts: persist_attempt, which writes it, several calls  *)
(* at a time, and the screens that are read from it, the page of concepts   *)
(* and the lists that come in pages.  The writer's and the two readers'     *)
(* questions are asked apart: each has the columns that matter to it, and a *)
(* behaviour stays with one of them while the others wait.                  *)
EXTENDS AttemptNumbers, ConceptPage, PagedLists

VARIABLE scene    \* "numbers", "page" or "lists"

recordsVars == <<scene, vars, pageVars, listsVars>>

RecordsInit ==
    /\ scene \in {"numbers", "page", "lists"}
    /\ Init /\ PageInit /\ ListsInit
    /\ scene # "numbers" => pair = [w \in Writers |-> CHOOSE p \in Pairs : TRUE]

RecordsNext ==
    /\ UNCHANGED scene
    /\ \/ scene = "numbers" /\ Next /\ UNCHANGED <<pageVars, listsVars>>
       \/ scene = "page" /\ PageNext /\ UNCHANGED <<vars, listsVars>>
       \/ scene = "lists" /\ ListsNext /\ UNCHANGED <<vars, pageVars>>

RecordsSpec == RecordsInit /\ [][RecordsNext]_recordsVars
=============================================================================
