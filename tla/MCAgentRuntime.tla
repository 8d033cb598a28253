---------------------------- MODULE MCAgentRuntime ----------------------------
(* AgentRuntime on a small instance. *)
EXTENDS AgentRuntime, TLC

CONSTANTS s1, s2, s3, c1, c2, q1, q2, q3

(* Sessions, browsers and request slots are interchangeable. *)
Symmetry == Permutations({s1, s2, s3}) \union Permutations({c1, c2})
              \union Permutations({q1, q2, q3})
===============================================================================
