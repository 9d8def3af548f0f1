----------------------------- MODULE Subsequences -----------------------------
(***************************************************************************)
(* What a loop leaves that goes over a slice and appends some of its       *)
(* elements to another one.                                                *)
(***************************************************************************)
EXTENDS Naturals, FiniteSets, Functions

(* The set of the one sequence that holds the elements of s at the          *)
(* positions in at, in their order.                                         *)
Picked(s, at) ==
    LET n == Cardinality(at)
        orders == {f \in Bijection(1 .. n, at) :
                     \A i, j \in 1 .. n : i < j => f[i] < f[j]}
    IN  {[k \in 1 .. n |-> s[f[k]]] : f \in orders}

=============================================================================
