----------------------------- MODULE MCAuditLog -----------------------------
(* Three evaluations and one human override share a log. *)
EXTENDS AuditLog

CONSTANTS w1, w2, w3, w4

=============================================================================
