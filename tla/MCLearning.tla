------------------------------ MODULE MCLearning ------------------------------
(* Four concepts: a root, glue without tasks behind it, a join behind the  *)
(* glue, and one with a single task, which is masked.                      *)
EXTENDS Learning

MCOrder == <<"select_basic", "join_condition", "inner_join", "right_join">>
MCTier == [select_basic |-> "easy", join_condition |-> "medium",
           inner_join |-> "medium", right_join |-> "hard"]
MCPrerequisite == [select_basic |-> {}, join_condition |-> {"select_basic"},
                   inner_join |-> {"join_condition"}, right_join |-> {"inner_join"}]
MCAllPrereqs == [select_basic |-> {}, join_condition |-> {"select_basic"},
                 inner_join |-> {"join_condition", "select_basic"},
                 right_join |-> {"inner_join", "join_condition", "select_basic"}]
MCModuleOf == [select_basic |-> 1, join_condition |-> 0, inner_join |-> 3, right_join |-> 3]
MCTasks == {"s1", "s2", "j1", "j2", "r1"}
MCTaskRank == [s1 |-> 1, s2 |-> 2, j1 |-> 3, j2 |-> 4, r1 |-> 5]
MCPrimary == [s1 |-> "select_basic", s2 |-> "select_basic", j1 |-> "inner_join",
              j2 |-> "inner_join", r1 |-> "right_join"]
MCTaskConcepts == [s1 |-> <<"select_basic">>, s2 |-> <<"select_basic">>,
                   j1 |-> <<"inner_join", "select_basic">>, j2 |-> <<"inner_join">>,
                   r1 |-> <<"right_join", "inner_join">>]
===============================================================================
