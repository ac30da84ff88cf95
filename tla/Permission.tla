------------------------------ MODULE Permission ------------------------------
(***************************************************************************)
(* What the analysis of a statement says, in any query language, and the   *)
(* permission it needs (internal/database/permission.go and the head of    *)
(* classify.go).  A permission is its rank: 0 read-only, 1 safe-write,     *)
(* 2 full.  Reasons and advice are left out.                               *)
(***************************************************************************)
EXTENDS Integers

PermissionReadOnly == 0
PermissionSafeWrite == 1
PermissionFull == 2
Permissions == PermissionReadOnly..PermissionFull

\* Min of permission.go.
LeastPermissive(p, q) == IF q < p THEN q ELSE p

CanWrite(p) == p >= PermissionSafeWrite

Kinds == {"read", "write", "schema", "unknown", "session"}

Analyses == [kind : Kinds, unbounded : BOOLEAN, refused : BOOLEAN]

Bounded(kind) == [kind |-> kind, unbounded |-> FALSE, refused |-> FALSE]
Unbounded(kind) == [kind |-> kind, unbounded |-> TRUE, refused |-> FALSE]
Refused(kind) == [kind |-> kind, unbounded |-> FALSE, refused |-> TRUE]

RequiredPermission(a) ==
  CASE a.kind = "read" -> PermissionReadOnly
    [] a.kind = "write" /\ ~a.unbounded -> PermissionSafeWrite
    [] OTHER -> PermissionFull

\* (mutant) a refusal counts like any statement of its kind.
SeverityWithoutRefusal(a) ==
  RequiredPermission(a) * 2 + IF a.unbounded THEN 1 ELSE 0

Severity(a) ==
  IF a.refused THEN 1000
  ELSE RequiredPermission(a) * 2 + IF a.unbounded THEN 1 ELSE 0

\* The outcome of AuthorizeAnalysis.
Authorize(a, granted) ==
  CASE a.refused -> "refused"
    [] ~a.refused /\ granted >= RequiredPermission(a) -> "ok"
    [] OTHER -> "denied"

=============================================================================
