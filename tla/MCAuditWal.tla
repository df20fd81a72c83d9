----------------------------- MODULE MCAuditWal -----------------------------
(* Segments and batches of two records, so that a batch crosses a          *)
(* rotation and every restart has something to find.                       *)
EXTENDS AuditWal
=============================================================================
