----------------------------- MODULE MCAuditLog -----------------------------
(* Small instances of AuditLog: the configurations differ in what may fail. *)
EXTENDS AuditLog

CONSTANTS w, v
=============================================================================
