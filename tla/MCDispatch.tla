----------------------------- MODULE MCDispatch -----------------------------
(***************************************************************************)
(* Small instances of Dispatch.                                            *)
(***************************************************************************)
EXTENDS Dispatch, TLC

CONSTANTS r1, r2, r3, p1, p2, m1, m2

OneModel == [r \in Requests |-> m1]
AnyProvider == [r \in Requests |-> Providers]
ServesOne == [p \in Providers |-> <<m1>>]
Interchangeable == Permutations(Requests \ Patient)
TwoModels == (r1 :> m1) @@ (r2 :> m2)
ServesBoth == (p1 :> <<m1, m2>>) @@ (p2 :> <<m1>>)
TierOne == [p \in Providers |-> {1}]

=============================================================================
