-------------------------- MODULE MCSessionController --------------------------
(* SessionController on a small instance: slots for operations. *)
EXTENDS SessionController

CONSTANTS k1, k2, k3
===============================================================================
