-------------------------- MODULE MCSessionWorkspace --------------------------
(* SessionWorkspace on a small instance. *)
EXTENDS SessionWorkspace, TLC

CONSTANTS s1, s2, s3, r1, r2

(* Session ids and request slots are interchangeable. *)
Symmetry == Permutations({s1, s2, s3}) \union Permutations({r1, r2})
===============================================================================
