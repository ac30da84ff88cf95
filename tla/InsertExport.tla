----------------------------- MODULE InsertExport -----------------------------
(***************************************************************************)
(* A query written out as INSERT statements, each for a batch of rows:      *)
(* database.ExportInserts (internal/database/export.go).  It is what runs    *)
(* between OpenTemp and EndWrite of ExportStore; the writer it is given      *)
(* fails when the file would get too long.                                 *)
(***************************************************************************)
EXTENDS RowCursor

CONSTANTS
    Limits,    \* values of ExportOptions.MaxRows, positive or none
    Sizes      \* values of ExportOptions.BatchSize, its default filled in

ASSUME OptionsAssumption == Limits \subseteq Int /\ Sizes \subseteq Nat \ {0}

VARIABLES
    pc,            \* "asking", "reading", "flushing", "checking", "last", "ok", "error"
    limit, size,   \* the options
    batch,         \* rows not written yet
    file,          \* rows in the statements of the file
    count,         \* ExportResult.Rows
    statements     \* ExportResult.Statements

optionVars == <<limit, size>>
exportVars == <<pc, optionVars, batch, file, count, statements>>
vars == <<cursorVars, exportVars>>

Init ==
    /\ CursorInit
    /\ pc = "asking" /\ limit \in Limits /\ size \in Sizes
    /\ batch = <<>> /\ file = <<>> /\ count = 0 /\ statements = 0

Goto(s) == pc' = s

\* The query, and its columns.
Ask ==
    /\ pc = "asking" /\ cursor = "open"
    /\ Goto("reading")
    /\ UNCHANGED <<cursorVars, optionVars, batch, file, count, statements>>

AskFails ==
    /\ pc = "asking" /\ (cursor = "open" \/ expired)
    /\ Goto("error")
    /\ UNCHANGED <<cursorVars, optionVars, batch, file, count, statements>>

TooMany == limit > 0 /\ count >= limit

Refuse ==
    /\ pc = "reading" /\ Row /\ TooMany
    /\ Goto("error")
    /\ UNCHANGED <<optionVars, batch, file, count, statements>>

Scan ==
    /\ pc = "reading" /\ Row /\ ~TooMany
    /\ batch' = Append(batch, fetched')
    /\ count' = count + 1
    /\ Goto(IF Len(batch') = size THEN "flushing" ELSE "reading")
    /\ UNCHANGED <<optionVars, file, statements>>

\* A value that cannot be read, or written as a literal.
ScanFails ==
    /\ pc = "reading" /\ Row /\ ~TooMany
    /\ Goto("error")
    /\ UNCHANGED <<optionVars, batch, file, count, statements>>

\* (mutant) The batch is written and kept.
WriteInsertKeeping ==
    /\ file' = file \o batch
    /\ statements' = statements + 1
    /\ UNCHANGED batch

WriteInsert ==
    /\ file' = file \o batch
    /\ statements' = statements + 1
    /\ batch' = <<>>

Flush ==
    /\ pc = "flushing"
    /\ WriteInsert
    /\ Goto("reading")
    /\ UNCHANGED <<cursorVars, optionVars, count>>

\* The writer fails, possibly inside the statement.
FlushFails ==
    /\ pc \in {"flushing", "last"} /\ batch # <<>>
    /\ Goto("error")
    /\ UNCHANGED <<cursorVars, optionVars, batch, file, count, statements>>

Stop ==
    /\ pc = "reading" /\ (NoMoreRows \/ Breaks)
    /\ Goto("checking")
    /\ UNCHANGED <<optionVars, batch, file, count, statements>>

Check ==
    /\ pc = "checking"
    /\ \/ cursor # "broken" /\ Goto("last")
       \/ Erroneous /\ Goto("error")
    /\ UNCHANGED <<cursorVars, optionVars, batch, file, count, statements>>

\* (mutant) What is left of the last batch is not written.
LastLeft ==
    /\ pc = "last"
    /\ Goto("ok")
    /\ UNCHANGED <<cursorVars, optionVars, batch, file, count, statements>>

Last ==
    /\ pc = "last"
    /\ IF batch = <<>> THEN UNCHANGED <<batch, file, statements>> ELSE WriteInsert
    /\ Goto("ok")
    /\ UNCHANGED <<cursorVars, optionVars, count>>

Returned == pc \in {"ok", "error"}

\* (mutant) The deadline is set once the query has been sent.
ExpireLate == pc \notin {"asking", "ok", "error"} /\ Expires /\ UNCHANGED exportVars

Expire == ~Returned /\ Expires /\ UNCHANGED exportVars

StopAnswering == ~Returned /\ Hang /\ UNCHANGED exportVars

Proceed == Ask \/ AskFails \/ Refuse \/ Scan \/ ScanFails \/ Flush \/ FlushFails
           \/ Stop \/ Check \/ Last

Next == Proceed \/ Expire \/ StopAnswering

Spec == Init /\ [][Next]_vars
\* The goroutine runs; the query has a deadline (mcp.query_timeout).
FairSpec == Spec /\ WF_vars(Proceed) /\ WF_vars(Expire)

-----------------------------------------------------------------------------

RowsUpTo(n) == [i \in 1..n |-> i]

\* The types; what is kept in memory never exceeds a batch.
TypeOK ==
    /\ total \in Totals /\ fetched \in 0..total
    /\ cursor \in {"open", "hung", "end", "broken"} /\ expired \in BOOLEAN
    /\ pc \in {"asking", "reading", "flushing", "checking", "last", "ok", "error"}
    /\ limit \in Limits /\ size \in Sizes
    /\ batch \in Seq(1..total) /\ file \in Seq(1..total) /\ Len(batch) <= size
    /\ count \in 0..total /\ statements \in 0..total

\* At every moment the file and the batch hold the rows read so far, each once
\* and in order; every statement but the last is full; and the counts that the
\* client is told are those of the file.
StatementsAddUp ==
    /\ file \o batch = RowsUpTo(count)
    /\ pc # "ok" => Len(file) = statements * size
    /\ pc = "ok" => /\ count = Len(file)
                    /\ Len(file) <= statements * size
                    /\ statements # 0 => (statements - 1) * size < Len(file)

\* An export without an error has every row of the result; one that would be
\* longer than its limit is an error, never a part of the rows.
Answer == INSTANCE WholeAnswer WITH
    MayCut    <- FALSE,
    limit     <- IF limit > 0 THEN limit ELSE -1,
    outcome   <- IF Returned THEN pc ELSE "none",
    delivered <- IF pc = "ok" THEN file ELSE <<>>,
    cut       <- FALSE
ExportIsWhole == Answer!Spec

\* An export comes back, also when the database stops answering: the callback
\* that ExportStore waits for in EndWrite.
ExportReturns == <>Returned
=============================================================================
