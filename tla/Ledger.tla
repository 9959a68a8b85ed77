------------------------------- MODULE Ledger -------------------------------
(***************************************************************************)
(* What billing promises (services/billing.py, its opening comment): the   *)
(* tokens the model has really used are divided among numbered bills,      *)
(* every token at most once; a bill never changes; and a bill is charged   *)
(* at most once, however often it is sent.                                 *)
(***************************************************************************)
EXTENDS Naturals, Sequences

VARIABLES
    spent,      \* tokens used at the model so far
    bills,      \* the amounts billed, by number
    noted,      \* their sum
    charged     \* the numbers of the bills that were charged

vars == <<spent, bills, noted, charged>>

(* Tokens may have been used before the first bill is written. *)
Init == spent \in Nat /\ bills = <<>> /\ noted = 0 /\ charged = {}

Use == spent' = spent + 1 /\ UNCHANGED <<bills, noted, charged>>

Note(amount) ==
    /\ bills' = Append(bills, amount)
    /\ noted' = noted + amount
    /\ UNCHANGED <<spent, charged>>

Charge(n) ==
    /\ charged' = charged \cup {n}
    /\ UNCHANGED <<spent, bills, noted>>

Next ==
    \/ Use
    \/ \E amount \in 1..(spent - noted) : Note(amount)
    \/ \E n \in DOMAIN bills \ charged : Charge(n)

Spec == Init /\ [][Next]_vars
=============================================================================
