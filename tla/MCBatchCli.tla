----------------------------- MODULE MCBatchCli -----------------------------
(* An instance of BatchCli for TLC: two parts, and a longer file of the    *)
(* web page.                                                               *)
EXTENDS BatchCli, TLC
Symmetric == Permutations(Requests)
MCParts == 1..2
MCSize(p) == IF p = Web THEN 2 ELSE 1
=============================================================================
