------------------------------ MODULE MCBindings ------------------------------
(***************************************************************************)
(* Small instances of Bindings: two calls, in one process or in two.       *)
(***************************************************************************)
EXTENDS Bindings, TLC

CONSTANTS r1, r2, p1, p2, a1, n1, n2, w1, w2, g1, g2

MCAppOf == [p \in Payer |-> a1]

\* Calls, payers, networks, wallets and processes are interchangeable.
MCSymmetry ==
    Permutations({r1, r2}) \cup Permutations({p1, p2}) \cup Permutations({n1, n2})
       \cup Permutations({w1, w2}) \cup Permutations({g1, g2})

=============================================================================
