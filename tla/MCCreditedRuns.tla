--------------------------- MODULE MCCreditedRuns ---------------------------
(* Instances of CreditedRuns for TLC: two runs of one team, which compete for *)
(* its account. A negative grant is a correction by an administrator.        *)
EXTENDS CreditedRuns, TLC

SharedPayer == [r \in Runs |-> CHOOSE t \in Teams : TRUE]
AllStream   == [r \in Runs |-> "stream"]
SmallGrants == {2, -1}

Symmetry == Permutations(Runs)
=============================================================================
