------------------------------ MODULE RowCursor ------------------------------
(***************************************************************************)
(* The rows of a running query as database/sql hands them out (sqlx.Rows),  *)
(* with the context of the query: the database delivers them one by one,    *)
(* may fail at any of them, or stop answering; then only the context ends   *)
(* the wait.                                                               *)
(***************************************************************************)
EXTENDS Integers, Sequences

CONSTANT Totals    \* the sizes a result may have

ASSUME TotalsAssumption == Totals \subseteq Nat

VARIABLES
    total,      \* rows of the result
    fetched,    \* rows handed out
    cursor,     \* "open", "hung", or how it came to an end
    expired     \* the context is done

cursorVars == <<total, fetched, cursor, expired>>

CursorInit == total \in Totals /\ fetched = 0 /\ cursor = "open" /\ expired = FALSE

\* rows.Next is true
Row ==
    /\ cursor = "open" /\ fetched < total
    /\ fetched' = fetched + 1
    /\ UNCHANGED <<total, cursor, expired>>

\* rows.Next is false, rows.Err nil
NoMoreRows ==
    /\ cursor = "open" /\ fetched = total
    /\ cursor' = "end"
    /\ UNCHANGED <<total, fetched, expired>>

\* rows.Next is false, rows.Err not nil
Breaks ==
    /\ cursor = "open" \/ (cursor = "hung" /\ expired)
    /\ cursor' = "broken"
    /\ UNCHANGED <<total, fetched, expired>>

Hang ==
    /\ cursor = "open" /\ cursor' = "hung"
    /\ UNCHANGED <<total, fetched, expired>>

Expires ==
    /\ ~expired /\ expired' = TRUE
    /\ UNCHANGED <<total, fetched, cursor>>

\* rows.Err also tells of a context that is done.
Erroneous == cursor = "broken" \/ expired
=============================================================================
