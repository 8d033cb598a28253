---- MODULE MCPermissionSettings ----
(* PermissionSettings on a small instance. *)
EXTENDS PermissionSettings
====
