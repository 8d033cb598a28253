---- MODULE MCLiveTurn ----
(* LiveTurn on a small instance. *)
EXTENDS LiveTurn
====
