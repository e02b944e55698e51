------------------------------ MODULE MCRewards ------------------------------
(* Values for the constants of Rewards that a configuration cannot write.  *)
EXTENDS Rewards

MCDifficulty == [t \in Tasks |-> IF t = "select" THEN 1 ELSE 5]
MCModuleOf   == [t \in Tasks |-> IF t = "select" THEN 1 ELSE 3]
MCBadgeXp    == [b \in Badges |->
    CASE b = "first_correct" -> 10 [] b = "join_master" -> 50 [] b = "null_ninja" -> 25
      [] b = "streak_7" -> 30 [] b = "explorer" -> 40]
=============================================================================
