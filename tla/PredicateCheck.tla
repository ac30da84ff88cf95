--------------------------- MODULE PredicateCheck ---------------------------
(***************************************************************************)
(* The verdict of Predicate against the rows a predicate matches.          *)
(*                                                                         *)
(* A predicate is grown one connective at a time, from the leaves a        *)
(* constant lists, and the set of the rows it matches grows with it.  The  *)
(* columns x, y and w hold values; z may be NULL and appears in null       *)
(* checks only, so that every predicate here is true or false of a row.    *)
(*                                                                         *)
(* The verdict is not always one-sided: an OR in parentheses inside an OR   *)
(* is not looked into, and the branches of an OR are only held against each *)
(* other two at a time, and only for being each other's negation.  Such a   *)
(* predicate that covers every row is followed by the variable together.    *)
(***************************************************************************)
EXTENDS Predicate

CONSTANTS
  Row,        \* the rows of the table
  Leaves,     \* records [text, rows, negatable]
  MaxLeaves   \* the most leaves of a predicate

VARIABLES
  text,       \* the tokens of the predicate
  matches,    \* the rows it matches
  shape,      \* "leaf", "fixed" (never negated), "and", "or", "group", "not"
  leaves,     \* how many leaves it has
  flat,       \* it is a leaf, or an AND or an OR of leaves
  branches,   \* the rows of each leaf the outermost OR joins
  together,   \* it matches every row only by branches no two of which are each
              \* other's negation, or that stand in groups of their own
  trailing    \* a clause follows it

vars == <<text, matches, shape, leaves, flat, branches, together, trailing>>

LeafShape(leaf) == IF leaf.negatable THEN "leaf" ELSE "fixed"

Init ==
  \E leaf \in Leaves :
    /\ text = leaf.text
    /\ matches = leaf.rows
    /\ shape = LeafShape(leaf)
    /\ leaves = 1
    /\ flat = TRUE
    /\ branches = {leaf.rows}
    /\ together = FALSE
    /\ trailing = FALSE

\* Parentheses around a predicate with a connective make it a group.
Parenthesise ==
  /\ ~trailing
  /\ text[1] # "("
  /\ text' = <<"(">> \o text \o <<")">>
  /\ shape' = IF shape = "or" THEN "group" ELSE shape
  /\ flat' = (flat /\ leaves = 1)
  /\ branches' = IF leaves = 1 THEN branches ELSE {}
  /\ UNCHANGED <<matches, leaves, together, trailing>>

\* NOT before a leaf, before another NOT, or before a predicate in parentheses.
Negate ==
  /\ ~trailing
  /\ \/ shape = "leaf"
     \/ shape = "not"
     \/ shape \in {"and", "or", "group"} /\ Strip[text] # text
  /\ Cardinality({i \in DOMAIN text : text[i] = "not"}) < 2
  /\ text' = <<"not">> \o text
  /\ matches' = Row \ matches
  /\ shape' = "not"
  /\ flat' = FALSE
  /\ branches' = {Row \ matches}
  /\ together' = FALSE
  /\ UNCHANGED <<leaves, trailing>>

\* Another branch, before or after the predicate.
Joined(word, leaf) ==
  {text \o <<word>> \o leaf.text, leaf.text \o <<word>> \o text}

OrBranch(leaf) ==
  /\ ~trailing
  /\ leaves < MaxLeaves
  /\ text' \in Joined("or", leaf)
  /\ matches' = matches \cup leaf.rows
  /\ branches' = branches \cup {leaf.rows}
  /\ together' = /\ matches' = Row
                 /\ matches = Row => together
                 /\ \A rows \in branches' : rows # Row /\ Row \ rows \notin branches'
  /\ shape' = "or"
  /\ leaves' = leaves + 1
  /\ flat' = (flat /\ shape # "and")
  /\ UNCHANGED trailing

\* AND binds tighter than OR: an OR is joined in its parentheses.
AndBranch(leaf) ==
  /\ ~trailing
  /\ leaves < MaxLeaves
  /\ shape # "or"
  /\ text' \in Joined("and", leaf)
  /\ matches' = matches \cap leaf.rows
  /\ shape' = "and"
  /\ leaves' = leaves + 1
  /\ flat' = (flat /\ shape # "group")
  /\ branches' = {}
  /\ UNCHANGED <<together, trailing>>

\* A clause behind the predicate, which is no part of it.
Trail ==
  /\ ~trailing
  /\ text' = text \o <<"returning", "x">>
  /\ trailing' = TRUE
  /\ UNCHANGED <<matches, shape, leaves, flat, branches, together>>

Next ==
  \/ Parenthesise
  \/ Negate
  \/ \E leaf \in Leaves : OrBranch(leaf)
  \/ \E leaf \in Leaves : AndBranch(leaf)
  \/ Trail

Spec == Init /\ [][Next]_vars

-----------------------------------------------------------------------------
(* Properties. *)

\* The verdict is one-sided (predicate.go:8-11) but for one shape: a predicate
\* that matches every row is never called bounded, however it is negated,
\* parenthesised or followed by another clause, unless it takes the branches of
\* an OR together to cover the rows and no two of them, side by side, are each
\* other's negation (predicate.go:76-82).
OneSided == matches = Row => PredicateIsUnbounded(text) \/ together

\* And it is not a blanket refusal: a leaf, an AND of leaves or an OR of leaves
\* that is called unbounded does match every row.  (predicate.go:56-104 gives
\* up on NOT of a compound and on an OR of ANDs only.)
FlatIsExact == flat /\ PredicateIsUnbounded(text) => matches = Row

\* One more branch of an AND never unbounds a predicate, and one more branch of
\* an OR never bounds one, wherever the branch stands: the rules for the
\* connectives agree with what the connectives do to the set of rows.
BranchesAgree(Leaf) ==
  \A leaf \in Leaf :
    /\ AndBranch(leaf) /\ PredicateIsUnbounded(text')
         => PredicateIsUnbounded(text) /\ PredicateIsUnbounded(leaf.text)
    /\ OrBranch(leaf) /\ ~PredicateIsUnbounded(text')
         => ~PredicateIsUnbounded(text) /\ ~PredicateIsUnbounded(leaf.text)

NarrowsAndWidens == [][BranchesAgree(Leaves)]_vars

=============================================================================
