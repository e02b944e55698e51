--------------------------------- MODULE BKT ---------------------------------
(***************************************************************************)
(* Bayesian Knowledge Tracing: bkt/model.py and bkt/parameters.py.         *)
(* A probability is a number of thousandths; a quotient is rounded down    *)
(* where the code's floats round to the nearest double.                    *)
(***************************************************************************)
EXTENDS Integers

One == 1000

Probability == 0..One

MasteryThreshold == 850
WeakThreshold    == 300

Params == [p_l0 : Probability, p_t : Probability, p_g : Probability, p_s : Probability]

Tiers == {"easy", "medium", "hard"}

TierDefaults ==
    [easy   |-> [p_l0 |-> 300, p_t |-> 300, p_g |-> 250, p_s |->  80],
     medium |-> [p_l0 |-> 150, p_t |-> 200, p_g |-> 200, p_s |-> 100],
     hard   |-> [p_l0 |->  50, p_t |-> 100, p_g |-> 100, p_s |-> 150]]

Clamp(x) == IF x < 0 THEN 0 ELSE IF x > One THEN One ELSE x

(* P(learned | the answer); the prior where the answer was impossible.     *)
Posterior(p, params, correct) ==
    LET known == p * (IF correct THEN One - params.p_s ELSE params.p_s)
        total == known + (One - p) * (IF correct THEN params.p_g ELSE One - params.p_g)
    IN  IF total > 0 THEN (known * One) \div total ELSE p

Learnt(p, params) == p + ((One - p) * params.p_t) \div One

Update(p, params, correct) == Clamp(Learnt(Posterior(p, params, correct), params))
===============================================================================
