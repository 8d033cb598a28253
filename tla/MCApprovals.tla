------------------------------ MODULE MCApprovals ------------------------------
(* Approvals on a small instance. *)
EXTENDS Approvals, TLC

CONSTANTS q1, q2, b1, b2

Symmetry == Permutations({b1, b2})
===============================================================================
