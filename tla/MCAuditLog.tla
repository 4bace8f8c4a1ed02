----------------------------- MODULE MCAuditLog -----------------------------
(* TLC instances of AuditLog. *)
EXTENDS AuditLog, TLC

Symmetry == Permutations(Threads)
=============================================================================
