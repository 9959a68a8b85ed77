---------------------------- MODULE MCJobDispatch ----------------------------
(* Instances of JobDispatch for TLC. *)
EXTENDS JobDispatch, TLC

CONSTANTS j1, j2, w1, w2, t1, t2, m1

OneModel == [j \in Jobs |-> m1]
LimitOne == [m \in Models |-> 1]
LimitTwo == [m \in Models |-> 2]

Symmetric == Permutations(Workers) \cup Permutations(Tasks)
(* ... where nothing tells the jobs apart. *)
SymmetricInJobs == Symmetric \cup Permutations(Jobs)
=============================================================================
