------------------------------- MODULE MCApiKeys -------------------------------
(***************************************************************************)
(* A small instance of ApiKeys.                                            *)
(***************************************************************************)
EXTENDS ApiKeys, TLC

\* Keys and applications are interchangeable, and so are calls.
MCSymmetry == Permutations(Key) \cup Permutations(App) \cup Permutations(Req)

=============================================================================
