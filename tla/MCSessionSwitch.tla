---- MODULE MCSessionSwitch ----
(* SessionSwitch on a small instance. *)
EXTENDS SessionSwitch
====
