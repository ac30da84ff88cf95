------------------------------ MODULE QueryScan ------------------------------
(***************************************************************************)
(* A statement that returns rows: database.Execute and scanRows             *)
(* (internal/database/query.go).  Values are left out: what one row is      *)
(* turned into has no effect on another.                                   *)
(***************************************************************************)
EXTENDS RowCursor

CONSTANT Limits    \* the limits a caller may set, negative for none

ASSUME LimitsAssumption == Limits \subseteq Int \ {0}

VARIABLES
    pc,          \* "asking", "reading", "checking", "ok" or "error"
    limit,       \* QueryOptions.maxRows()
    rows,        \* Result.Rows
    truncated    \* Result.Truncated

scanVars == <<pc, limit, rows, truncated>>
vars == <<cursorVars, scanVars>>

Init ==
    /\ CursorInit
    /\ pc = "asking" /\ limit \in Limits /\ rows = <<>> /\ truncated = FALSE

Goto(s) == pc' = s

Ask ==
    /\ pc = "asking" /\ cursor = "open"
    /\ Goto("reading")
    /\ UNCHANGED <<cursorVars, limit, rows, truncated>>

AskFails ==
    /\ pc = "asking" /\ (cursor = "open" \/ expired)
    /\ Goto("error")
    /\ UNCHANGED <<cursorVars, limit, rows, truncated>>

Full == limit >= 0 /\ Len(rows) >= limit

Scan ==
    /\ pc = "reading" /\ Row /\ ~Full
    /\ rows' = Append(rows, fetched')
    /\ UNCHANGED <<pc, limit, truncated>>

ScanFails ==
    /\ pc = "reading" /\ Row /\ ~Full
    /\ Goto("error")
    /\ UNCHANGED <<limit, rows, truncated>>

\* One more row exists beyond the limit; the loop ends without reading it.
Truncate ==
    /\ pc = "reading" /\ Row /\ Full
    /\ truncated' = TRUE
    /\ Goto("checking")
    /\ UNCHANGED <<limit, rows>>

Stop ==
    /\ pc = "reading" /\ (NoMoreRows \/ Breaks)
    /\ Goto("checking")
    /\ UNCHANGED <<limit, rows, truncated>>

\* (mutant) rows.Err is not asked.
ReturnUnchecked ==
    /\ pc = "checking"
    /\ Goto("ok")
    /\ UNCHANGED <<cursorVars, limit, rows, truncated>>

Return ==
    /\ pc = "checking" /\ cursor # "broken"
    /\ Goto("ok")
    /\ UNCHANGED <<cursorVars, limit, rows, truncated>>

ReturnError ==
    /\ pc = "checking" /\ Erroneous
    /\ Goto("error")
    /\ UNCHANGED <<cursorVars, limit, rows, truncated>>

Returned == pc \in {"ok", "error"}

Expire == ~Returned /\ Expires /\ UNCHANGED scanVars

StopAnswering == ~Returned /\ Hang /\ UNCHANGED scanVars

Proceed == Ask \/ AskFails \/ Scan \/ ScanFails \/ Truncate \/ Stop \/ Return \/ ReturnError

Next == Proceed \/ Expire \/ StopAnswering

Spec == Init /\ [][Next]_vars
\* The goroutine runs; the query has a deadline (mcp.query_timeout).
FairSpec == Spec /\ WF_vars(Proceed) /\ WF_vars(Expire)

-----------------------------------------------------------------------------

\* The types; what is kept in memory never exceeds the limit.
TypeOK ==
    /\ total \in Totals /\ fetched \in 0..total
    /\ cursor \in {"open", "hung", "end", "broken"} /\ expired \in BOOLEAN
    /\ pc \in {"asking", "reading", "checking", "ok", "error"} /\ limit \in Limits
    /\ rows \in Seq(1..total) /\ (limit > 0 => Len(rows) <= limit) /\ truncated \in BOOLEAN

\* An answer without an error is the whole result, or, when it says
\* "truncated", as much of it as the limit allows and not a row less: a
\* result that broke off never passes for a short one (query.go:186).
Answer == INSTANCE WholeAnswer WITH
    MayCut    <- TRUE,
    outcome   <- IF Returned THEN pc ELSE "none",
    delivered <- IF pc = "ok" THEN rows ELSE <<>>,
    cut       <- pc = "ok" /\ truncated
ScanIsWhole == Answer!Spec

\* A statement comes back, also when the database stops answering.
ScanReturns == <>Returned
=============================================================================
