------------------------------- MODULE MongoScan -------------------------------
(***************************************************************************)
(* A cursor command of MongoDB: runMongoCursor and withMongoBatchSize      *)
(* (internal/database/mongodb.go).  The server sends documents in batches: *)
(* the first as large as the command says, later ones as large as it       *)
(* likes.  RowCursor hands them out one by one.                            *)
(***************************************************************************)
EXTENDS RowCursor, FiniteSets

CONSTANTS
  Limits,     \* the limits of an answer, negative for none
  OwnBatch,   \* the batch sizes a command may set itself, 0 for none
  MaxBatch    \* the largest a batch can be

Commands == {"find", "aggregate", "listcollections", "listindexes"}

VARIABLES
  pc,         \* "asking", "reading", "checking", "ok" or "error"
  limit,
  command,    \* its name and the batch size it sets itself
  batch,      \* the batch size it is sent with, 0 when it has none
  shipped,    \* documents the server has sent
  docs,
  truncated

scanVars == <<pc, limit, command, batch, shipped, docs, truncated>>
vars == <<cursorVars, scanVars>>

Init ==
  /\ CursorInit
  /\ pc = "asking" /\ limit \in Limits
  /\ command \in [name : Commands, own : OwnBatch]
  /\ batch = 0 /\ shipped = 0 /\ docs = <<>> /\ truncated = FALSE

\* The batch size a command is sent with.
BatchSize ==
  IF limit >= 0 /\ command.name \notin {"listcollections", "listindexes"} /\ command.own = 0
  THEN IF limit + 1 < MaxBatch THEN limit + 1 ELSE MaxBatch
  ELSE command.own

Smaller(a, b) == IF a < b THEN a ELSE b

Ask ==
  /\ pc = "asking" /\ cursor = "open"
  /\ batch' = BatchSize
  /\ shipped' = IF BatchSize = 0 THEN total ELSE Smaller(BatchSize, total)
  /\ pc' = "reading"
  /\ UNCHANGED <<cursorVars, limit, command, docs, truncated>>

AskFails ==
  /\ pc = "asking" /\ (cursor = "open" \/ expired)
  /\ pc' = "error"
  /\ UNCHANGED <<cursorVars, limit, command, batch, shipped, docs, truncated>>

Full == limit >= 0 /\ Len(docs) >= limit

\* cursor.Next, which asks for more when the batch is used up.
NextDocument ==
  /\ pc = "reading" /\ Row
  /\ IF fetched < shipped THEN UNCHANGED shipped ELSE shipped' = total

Keep ==
  /\ NextDocument /\ ~Full
  /\ docs' = Append(docs, fetched')
  /\ UNCHANGED <<pc, limit, command, batch, truncated>>

\* The loop returns at the document beyond the limit and asks no error.
Truncate ==
  /\ NextDocument /\ Full
  /\ truncated' = TRUE
  /\ pc' = "ok"
  /\ UNCHANGED <<limit, command, batch, docs>>

Stop ==
  /\ pc = "reading" /\ (NoMoreRows \/ Breaks)
  /\ pc' = "checking"
  /\ UNCHANGED <<limit, command, batch, shipped, docs, truncated>>

Return ==
  /\ pc = "checking"
  /\ pc' = IF cursor = "broken" THEN "error" ELSE "ok"
  /\ UNCHANGED <<cursorVars, limit, command, batch, shipped, docs, truncated>>

Returned == pc \in {"ok", "error"}

\* (mutant) the deadline is set once the command has been sent.
ExpireLate == pc \in {"reading", "checking"} /\ Expires /\ UNCHANGED scanVars

Expire == ~Returned /\ Expires /\ UNCHANGED scanVars

StopAnswering == ~Returned /\ Hang /\ UNCHANGED scanVars

Proceed == Ask \/ AskFails \/ Keep \/ Truncate \/ Stop \/ Return

Next == Proceed \/ Expire \/ StopAnswering

Spec == Init /\ [][Next]_vars

\* The goroutine runs; the statement has a deadline.
FairSpec == Spec /\ WF_vars(Proceed) /\ WF_vars(Expire)

-----------------------------------------------------------------------------
(* Properties. *)

TypeOK ==
  /\ total \in Totals /\ fetched \in 0..total
  /\ cursor \in {"open", "hung", "end", "broken"} /\ expired \in BOOLEAN
  /\ pc \in {"asking", "reading", "checking", "ok", "error"}
  /\ limit \in Limits /\ command \in [name : Commands, own : OwnBatch]
  /\ batch \in 0..MaxBatch \cup OwnBatch /\ shipped \in fetched..total
  /\ docs \in Seq(1..total) /\ (limit > 0 => Len(docs) <= limit) /\ truncated \in BOOLEAN

\* An answer without an error is the whole result, or cut at the limit and
\* said to be: a cursor that broke never passes for a short one, and the
\* document beyond the limit is not part of it (mongodb.go:152-177).
Answer == INSTANCE WholeAnswer WITH
  MayCut    <- TRUE,
  outcome   <- IF Returned THEN pc ELSE "none",
  delivered <- IF pc = "ok" THEN docs ELSE <<>>,
  cut       <- pc = "ok" /\ truncated

ScanIsWhole == Answer!Spec

\* "the server never ships a large first batch that would be thrown away"
\* (mongodb.go:153-154), and no second one either: the document that shows the
\* cut is the last one sent, unless the command says otherwise.
ShipsNoMore ==
  limit >= 0 /\ command.name \in {"find", "aggregate"} /\ command.own = 0 /\ limit < MaxBatch =>
    shipped <= limit + 1

\* A command comes back, also when the server stops answering.
ScanReturns == <>Returned

=============================================================================
