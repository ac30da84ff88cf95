----------------------------- MODULE CassandraScan -----------------------------
(***************************************************************************)
(* A statement on Cassandra: cassandraBackend.Execute                      *)
(* (internal/database/cassandra.go).  A row is one column here: NULL, or   *)
(* the number of the row.  The driver writes the column of a row to a      *)
(* place that is used for every row, and may leave that place alone for    *)
(* NULL.                                                                   *)
(***************************************************************************)
EXTENDS RowCursor

CONSTANT Limits    \* the limits of an answer, negative for none

Null == 0

VARIABLES
  pc,         \* "asking", "reading", "closing", "ok" or "error"
  kind,       \* the statement returns rows, "read", or not, "write"
  limit,
  stored,     \* the column of each row in the database
  dest,       \* where the driver writes it
  rows,
  truncated

scanVars == <<pc, kind, limit, stored, dest, rows, truncated>>
vars == <<cursorVars, scanVars>>

Init ==
  /\ CursorInit
  /\ pc = "asking" /\ limit \in Limits
  /\ kind \in {"read", "write"} /\ (kind = "write" => total = 0)
  /\ stored \in {[i \in 1..total |-> IF i \in empty THEN Null ELSE i] : empty \in SUBSET (1..total)}
  /\ dest = Null /\ rows = <<>> /\ truncated = FALSE

\* A statement that is not a read is run for its effect, without an answer.
Exec ==
  /\ pc = "asking" /\ kind = "write" /\ cursor = "open"
  /\ pc' = "ok"
  /\ UNCHANGED <<cursorVars, kind, limit, stored, dest, rows, truncated>>

ExecFails ==
  /\ pc = "asking" /\ kind = "write" /\ (cursor = "open" \/ expired)
  /\ pc' = "error"
  /\ UNCHANGED <<cursorVars, kind, limit, stored, dest, rows, truncated>>

\* The errors of a read show when its iterator is closed.
Iterate ==
  /\ pc = "asking" /\ kind = "read"
  /\ pc' = "reading"
  /\ UNCHANGED <<cursorVars, kind, limit, stored, dest, rows, truncated>>

Full == limit >= 0 /\ Len(rows) >= limit

\* What iter.Scan leaves in the destination.
Scanned == IF stored[fetched + 1] = Null THEN {Null, dest} ELSE {stored[fetched + 1]}

\* (mutant) the destination is not emptied.
KeepDirty ==
  /\ pc = "reading" /\ Row /\ ~Full
  /\ \E value \in Scanned : rows' = Append(rows, value) /\ dest' = value
  /\ UNCHANGED <<pc, kind, limit, stored, truncated>>

\* The value is taken and the destination emptied for the next row.
Keep ==
  /\ pc = "reading" /\ Row /\ ~Full
  /\ \E value \in Scanned : rows' = Append(rows, value)
  /\ dest' = Null
  /\ UNCHANGED <<pc, kind, limit, stored, truncated>>

\* One more row exists beyond the limit.
Truncate ==
  /\ pc = "reading" /\ Row /\ Full
  /\ dest' \in Scanned
  /\ truncated' = TRUE
  /\ pc' = "closing"
  /\ UNCHANGED <<kind, limit, stored, rows>>

Stop ==
  /\ pc = "reading" /\ (NoMoreRows \/ Breaks)
  /\ pc' = "closing"
  /\ UNCHANGED <<kind, limit, stored, dest, rows, truncated>>

Close ==
  /\ pc = "closing"
  /\ pc' = IF cursor = "broken" THEN "error" ELSE "ok"
  /\ UNCHANGED <<cursorVars, kind, limit, stored, dest, rows, truncated>>

Returned == pc \in {"ok", "error"}

Expire == ~Returned /\ Expires /\ UNCHANGED scanVars

StopAnswering == ~Returned /\ Hang /\ UNCHANGED scanVars

Proceed == Exec \/ ExecFails \/ Iterate \/ Keep \/ Truncate \/ Stop \/ Close

Next == Proceed \/ Expire \/ StopAnswering

Spec == Init /\ [][Next]_vars

\* The goroutine runs; the statement has a deadline.
FairSpec == Spec /\ WF_vars(Proceed) /\ WF_vars(Expire)

-----------------------------------------------------------------------------
(* Properties. *)

TypeOK ==
  /\ total \in Totals /\ fetched \in 0..total
  /\ cursor \in {"open", "hung", "end", "broken"} /\ expired \in BOOLEAN
  /\ pc \in {"asking", "reading", "closing", "ok", "error"}
  /\ kind \in {"read", "write"} /\ limit \in Limits
  /\ stored \in [1..total -> 0..total] /\ dest \in 0..total
  /\ rows \in Seq(0..total) /\ (limit > 0 => Len(rows) <= limit) /\ truncated \in BOOLEAN

\* An answer without an error is the whole result, or cut at the limit and
\* said to be; a failure that shows only when the iterator is closed is not
\* lost (cassandra.go:207-231).
Answer == INSTANCE WholeAnswer WITH
  MayCut    <- TRUE,
  outcome   <- IF Returned THEN pc ELSE "none",
  delivered <- IF pc = "ok" THEN [i \in 1..Len(rows) |-> i] ELSE <<>>,
  cut       <- pc = "ok" /\ truncated

ScanIsWhole == Answer!Spec

\* Every value is that of its own row: a NULL never shows what an earlier row
\* had, whether or not the driver touches the destination
\* (cassandra.go:186-188, :215-224).
RowsAsStored == \A i \in 1..Len(rows) : rows[i] = stored[i]

\* A statement comes back, also when the cluster stops answering.
ScanReturns == <>Returned

=============================================================================
