------------------------------ MODULE Algorithms ------------------------------
(***************************************************************************)
(* How an algorithm without a state of its own is a specification: the     *)
(* initial states are its inputs, the steps compute, and answer holds what *)
(* is computed.                                                            *)
(***************************************************************************)
VARIABLES
    input,    \* what the algorithm is given; it never changes
    answer    \* what it has come to so far

vars == <<input, answer>>

Pending == [type |-> "pending"]

Asked(algorithm) == input.algorithm = algorithm /\ answer = Pending
Answered(algorithm) == input.algorithm = algorithm /\ answer # Pending
=============================================================================
