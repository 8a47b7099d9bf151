---------------------------- MODULE MCAuditLog ----------------------------
(* Model values and symmetry for AuditLog. *)
EXTENDS AuditLog, TLC

CONSTANTS w1, w2, e1, e2

Symmetric == Permutations({w1, w2}) \cup Permutations({e1, e2})
=============================================================================
