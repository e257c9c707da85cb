----------------------------- MODULE MCAuditLog -----------------------------
(* Constants for the model checker: two programs that write one audit file.  *)
EXTENDS AuditLog, TLC

CONSTANTS l1, l2

Symmetry == Permutations(Loggers)

=============================================================================
