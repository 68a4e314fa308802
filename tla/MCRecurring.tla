---------------------------- MODULE MCRecurring ----------------------------
(***************************************************************************)
(* Instances of Recurring: a rule due at every date, one due at every      *)
(* other, and one that cannot be posted.                                   *)
(***************************************************************************)
EXTENDS Recurring, TLC

CONSTANTS u1, r1, r2, r3, i1, i2, c1

MCRuleUser == [r \in Rules |-> u1]
MCCallerUser == [c \in Callers |-> u1]
MCPeriod == [r \in Rules |-> IF r = r2 THEN 2 ELSE 1]
InstanceSymmetry == Permutations(Instances)
=============================================================================
