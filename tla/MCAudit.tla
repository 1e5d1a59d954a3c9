------------------------------ MODULE MCAudit ------------------------------
(* Audit with the symmetry of the payloads and a view, for model checking.  *)
EXTENDS Audit

\* Payloads are only compared with each other.
DataSymmetry == Permutations(Data)

\* A power loss is still within the bounds.
MayLose == losses < MaxLosses /\ failures + crashes + losses + errors < MaxFaults

\* A state without its receipts, and without the WAL once it can no longer be cut
\* off: no guard and no property of the audited system depends on them.
AuditView ==
  <<up, writer, signer, log, heads, IF MayLose THEN wal ELSE <<>>, ses, errors, faults>>

\* A session that has ended is not followed further: its state does not change.
InSession == ses.at \notin {"done", "error"}
=============================================================================
