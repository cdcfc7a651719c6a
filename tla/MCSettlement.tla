---------------------------- MODULE MCSettlement ----------------------------
(***************************************************************************)
(* A small instance of Settlement: requests that may time out or be        *)
(* cancelled, and requests that only the provider or the registry can end, *)
(* with every outcome of the split and a failing store call.               *)
(***************************************************************************)
EXTENDS Settlement

Interrupted == [timers |-> TRUE, cancels |-> TRUE, faults |-> 0, costs |-> {400},
                referred |-> {FALSE}, payee |-> {TRUE}]

Undisturbed == [timers |-> FALSE, cancels |-> FALSE, faults |-> 1, costs |-> {100, 241, 400, 800},
                referred |-> BOOLEAN, payee |-> BOOLEAN]

MCPlans == {Interrupted, Undisturbed}
Faultless == {[Undisturbed EXCEPT !.faults = 0]}
=============================================================================
