----------------------------- MODULE Operations -----------------------------
(* What is done to the system from beside: the making of tasks, the upkeep  *)
(* of the task bank, the accounts and the scripts that clear or export      *)
(* them.  The three share no state (the bank's first files are taken as     *)
(* generated, and no script of one touches a table of another), so a        *)
(* behaviour stays at one desk and the others wait in their first state.    *)
EXTENDS Generation, TaskBank, Accounts

VARIABLE desk    \* "generation", "bank" or "accounts"

vars == <<desk, generationVars, bankVars, accountsVars>>

Init ==
    /\ desk \in {"generation", "bank", "accounts"}
    /\ GenerationInit /\ BankInit /\ AccountsInit

Next ==
    /\ UNCHANGED desk
    /\ \/ desk = "generation" /\ GenerationNext /\ UNCHANGED <<bankVars, accountsVars>>
       \/ desk = "bank" /\ BankNext /\ UNCHANGED <<generationVars, accountsVars>>
       \/ desk = "accounts" /\ AccountsNext /\ UNCHANGED <<generationVars, bankVars>>

Spec == Init /\ [][Next]_vars
=============================================================================
