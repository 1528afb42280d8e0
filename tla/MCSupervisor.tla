------------------------------ MODULE MCSupervisor -----------------------------
(***************************************************************************)
(* A small instance of Supervisor: the server and one background loop,     *)
(* three keys for a table of two, two solutions for a table of one.        *)
(***************************************************************************)
EXTENDS Supervisor

CONSTANTS k1, k2, k3

MCLoads == {[keys |-> {k1, k2, k3}, solutions |-> {}], [keys |-> {k1}, solutions |-> Challenge]}

=============================================================================
