------------------------------ MODULE MCAgent ------------------------------
(***************************************************************************)
(* Instances of Agent: what the behaviours of a run may contain.           *)
(***************************************************************************)
EXTENDS Agent

CONSTANTS r1, r2

Base == [requests |-> {r1, r2}, sessions |-> 1, windows |-> 0,
         cancels |-> FALSE, faults |-> FALSE, idle |-> FALSE, stop |-> FALSE]

(* Two requests: with cancellations, with idle shutdowns, with a connection *)
(* that drops, with a schedule window that closes, with failures.  One      *)
(* request: with a cancellation and idle shutdowns, and with a dropped      *)
(* connection, a window, failures and Ctrl-C.                               *)
ServePlans ==
    {[Base EXCEPT !.cancels = TRUE],
     [Base EXCEPT !.idle = TRUE],
     [Base EXCEPT !.requests = {r1}, !.cancels = TRUE, !.idle = TRUE],
     [Base EXCEPT !.sessions = 2],
     [Base EXCEPT !.windows = 1],
     [Base EXCEPT !.faults = TRUE],
     [requests |-> {r1}, sessions |-> 2, windows |-> 1,
      cancels |-> FALSE, faults |-> TRUE, idle |-> FALSE, stop |-> TRUE]}
=============================================================================
