---- MODULE MCPendingSettings ----
(* PendingSettings on a small instance. *)
EXTENDS PendingSettings
====
