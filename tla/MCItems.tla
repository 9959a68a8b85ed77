------------------------------ MODULE MCItems ------------------------------
(* An instance of Items for TLC. *)
EXTENDS Items
(* Every item takes one token of the bucket. *)
Plain == [i \in 1..N |-> 1]
=============================================================================
