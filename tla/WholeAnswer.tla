----------------------------- MODULE WholeAnswer -----------------------------
(***************************************************************************)
(* What somebody who asks a database through dbq is promised: an error, or  *)
(* every row of the result, each once and in the order of the database; or, *)
(* where an answer may be cut, the rows up to the limit and the word that   *)
(* there were more.  Nothing that broke off ever looks complete.           *)
(***************************************************************************)
EXTENDS Integers, Sequences

CONSTANT MayCut   \* TRUE for a query, FALSE for an export

VARIABLES
    total,        \* rows of the result
    limit,        \* rows the caller may have, negative for all
    outcome,      \* "none", "ok" or "error"
    delivered,    \* the rows delivered
    cut           \* the answer says that there are more

Rows(n) == [i \in 1..n |-> i]
Fits == limit < 0 \/ total <= limit

Init ==
    /\ total \in Nat /\ limit \in Int
    /\ outcome = "none" /\ delivered = <<>> /\ cut = FALSE

Fail ==
    /\ outcome = "none" /\ outcome' = "error"
    /\ UNCHANGED <<total, limit, delivered, cut>>

Whole ==
    /\ outcome = "none" /\ outcome' = "ok" /\ Fits
    /\ delivered' = Rows(total)
    /\ UNCHANGED <<total, limit, cut>>

Cut ==
    /\ MayCut
    /\ outcome = "none" /\ outcome' = "ok" /\ ~Fits
    /\ delivered' = Rows(limit) /\ cut' = TRUE
    /\ UNCHANGED <<total, limit>>

Next == Fail \/ Whole \/ Cut
Spec == Init /\ [][Next]_<<total, limit, outcome, delivered, cut>>
=============================================================================
