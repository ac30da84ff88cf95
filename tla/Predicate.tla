------------------------------ MODULE Predicate ------------------------------
(***************************************************************************)
(* When a WHERE clause limits the rows a statement touches                 *)
(* (internal/database/predicate.go).                                       *)
(*                                                                         *)
(* A clause is the sequence of tokens the lexer returns.  A token is       *)
(* modelled by its text, and the sets below say of which type it is; every *)
(* token of no other set is a word that may name a column.  The reasons    *)
(* the code returns with its verdict are left out.  An operator that scans *)
(* the tokens for the first one with a property is written with the set of *)
(* the indices that have it.                                               *)
(***************************************************************************)
EXTENDS Integers, FiniteSets, Sequences, SequencesExt, FiniteSetsExt

ComparisonOps == {"=", "<>", "!=", ">", "<", ">=", "<=", "<=>"}
Punct == {"(", ")", ".", ","} \cup ComparisonOps
Numbers == {"1", "2", "3"}
Strings == {"'%'", "'a'"}
QuotedNames == {"[x]"}

PredicateKeywords ==
  {"and", "or", "not", "is", "null", "true", "false", "unknown", "in",
   "between", "like", "ilike", "rlike", "regexp", "similar", "to", "escape",
   "any", "all", "some", "exists", "case", "when", "then", "else", "end",
   "cast", "as", "distinct", "from", "interval", "date", "time", "timestamp",
   "year", "month", "day", "hour", "minute", "second", "extract", "collate",
   "binary"}

ValueKeywords ==
  {"current_catalog", "current_date", "current_role", "current_schema",
   "current_time", "current_timestamp", "current_user", "localtime",
   "localtimestamp", "session_user", "system_user", "user", "sysdate"}

TrailingClauseKeywords == {"returning", "order", "limit", "offset", "group"}

Tokens == Seq(STRING)

IsWord(t) == t \notin Punct \cup Numbers \cup Strings \cup QuotedNames

(***************************************************************************)
(* Parentheses.                                                            *)
(***************************************************************************)
\* The tokens before, and after, the one at index i.
Before(ts, i) == SubSeq(ts, 1, i - 1)
After(ts, i) == SubSeq(ts, i + 1, Len(ts))

\* How many parentheses are open where token i stands.
Depth(ts, i) ==
  Cardinality({j \in 1..(i - 1) : ts[j] = "("})
    - Cardinality({j \in 1..(i - 1) : ts[j] = ")"})

Balanced(ts) ==
  /\ \A i \in 1..Len(ts) : Depth(ts, i + 1) >= 0
  /\ Depth(ts, Len(ts) + 1) = 0

Enclosed(ts) ==
  /\ Len(ts) >= 2
  /\ ts[1] = "(" /\ ts[Len(ts)] = ")"
  /\ Balanced(SubSeq(ts, 2, Len(ts) - 1))

Strip[ts \in Tokens] == IF Enclosed(ts) THEN Strip[SubSeq(ts, 2, Len(ts) - 1)] ELSE ts

TokensEqual(a, b) == Strip[a] = Strip[b]

\* The leading NOTs of a token run: whether their number is odd, and the rest.
Unnegated[ts \in Tokens] ==
  LET s == Strip[ts]
  IN  IF s # <<>> /\ s[1] = "not"
      THEN LET inner == Unnegated[Tail(s)]
           IN  [negated |-> ~inner.negated, rest |-> inner.rest]
      ELSE [negated |-> FALSE, rest |-> s]

(***************************************************************************)
(* Connectives.                                                            *)
(***************************************************************************)
\* BETWEEN used as an operator and not as the name of a column or an alias.
IsBetweenOperator(ts, i) ==
  /\ ts[i] = "between"
  /\ i > 1 => ts[i - 1] \notin ComparisonOps \cup {".", "as"}
  /\ i < Len(ts) => ts[i + 1] \notin ComparisonOps \cup {"."}

\* (mutant) every AND is a connective.
NoBetween(ts, i) == FALSE

\* Token i is the AND of a BETWEEN: since the last AND a BETWEEN was opened.
ClosesBetween(ts, i) ==
  LET marks == {j \in 1..(i - 1) :
                  /\ Depth(ts, j) = 0
                  /\ ts[j] = "and" \/ IsBetweenOperator(ts, j)}
  IN  ts[i] = "and" /\ marks # {} /\ ts[Max(marks)] = "between"

\* What stands between the tokens at the given indices.
Pieces(ts, ends) ==
  [k \in 1..(Len(ends) - 1) |->
     Strip[SubSeq(ts, ends[k] + 1, ends[k + 1] - 1)]]

\* The branches of a token run at the keyword word of depth 0.
SplitTopLevel(ts, word) ==
  LET cuts == {i \in 1..Len(ts) :
                 ts[i] = word /\ Depth(ts, i) = 0 /\ ~ClosesBetween(ts, i)}
  IN  Pieces(ts, <<0>> \o SetToSortSeq(cuts, <) \o <<Len(ts) + 1>>)

TrimTrailingClauses(ts) ==
  LET cuts == {i \in 1..Len(ts) :
                 ts[i] \in TrailingClauseKeywords /\ Depth(ts, i) = 0}
  IN  IF cuts = {} THEN ts ELSE Before(ts, Min(cuts))

(***************************************************************************)
(* Leaves: expressions that are not split any further.                     *)
(***************************************************************************)
\* A SELECT that is not the first token (the loop of the code starts at 1).
ContainsSubquery(ts) == \E i \in 2..Len(ts) : ts[i] = "select"

\* A word followed by a parenthesis is a function, not a column.
ContainsColumnReference(ts) ==
  \E i \in 1..Len(ts) :
     \/ ts[i] \in QuotedNames
     \/ /\ IsWord(ts[i])
        /\ ts[i] \notin PredicateKeywords \cup ValueKeywords
        /\ ~(i < Len(ts) /\ ts[i + 1] = "(")

IsNegatedCompound(ts) ==
  LET s == Strip[ts]
      inner == Unnegated[s].rest
  IN  /\ s # <<>> /\ s[1] = "not"
      /\ \E word \in {"and", "or"} : Len(SplitTopLevel(inner, word)) > 1

NoSelfBetween == [self |-> FALSE, inverted |-> FALSE]

\* What stands before a BETWEEN against the branches behind it.
SelfBounds(subject, bounds, inverted) ==
  [self |-> subject # <<>> /\ \A k \in 1..2 : TokensEqual(subject, bounds[k]),
   inverted |-> inverted]

Bounds(subject, bounds) ==
  CASE Len(bounds) # 2 -> NoSelfBetween
    [] Len(bounds) = 2 /\ subject # <<>> /\ Last(subject) = "not" ->
         SelfBounds(Strip[Front(subject)], bounds, TRUE)
    [] OTHER -> SelfBounds(subject, bounds, FALSE)

\* X [NOT] BETWEEN X AND X: whether it is one, and whether it is the NOT form.
IsSelfBetween(ts) ==
  LET at == {i \in 1..Len(ts) : ts[i] = "between"}
  IN  IF at = {}
      THEN NoSelfBetween
      ELSE Bounds(Strip[Before(ts, Min(at))], SplitTopLevel(After(ts, Min(at)), "and"))

\* X op X, the operator one of those that hold of equal sides.
HasSelfComparison(s, ops) ==
  \E i \in 1..Len(s) :
     /\ s[i] \in ops
     /\ Strip[Before(s, i)] # <<>>
     /\ TokensEqual(Before(s, i), After(s, i))

\* A run without its NOTs, whose number is odd when negated.
IsSelfRun(s, negated, between) ==
  IF between.self
  THEN negated = between.inverted
  ELSE HasSelfComparison(s, IF negated THEN {"<>", "!=", "<", ">"}
                                       ELSE {"=", ">=", "<=", "<=>"})

IsSelfComparison(ts) ==
  LET u == Unnegated[ts] IN IsSelfRun(u.rest, u.negated, IsSelfBetween(u.rest))

MatchesEverythingLike(ts) ==
  \E i \in 1..(Len(ts) - 1) : ts[i] \in {"like", "ilike"} /\ ts[i + 1] = "'%'"

LeafIsUnbounded(ts) ==
  \/ ~ContainsColumnReference(ts)
  \/ IsNegatedCompound(ts)
  \/ IsSelfComparison(ts)
  \/ MatchesEverythingLike(ts)

(***************************************************************************)
(* Branches of an OR that cover every row between them.                    *)
(***************************************************************************)
None == [ok |-> FALSE]

\* What stands before, and after, the IS at index i.
NullCheckAt(s, i, negated) ==
  CASE After(s, i) = <<"null">> ->
         [ok |-> TRUE, subject |-> Strip[Before(s, i)], negated |-> negated]
    [] After(s, i) = <<"not", "null">> ->
         [ok |-> TRUE, subject |-> Strip[Before(s, i)], negated |-> ~negated]
    [] OTHER -> None

FirstNullCheck(s, negated) ==
  LET at == {i \in 1..Len(s) : s[i] = "is"}
  IN  IF at = {} THEN None ELSE NullCheckAt(s, Min(at), negated)

\* X IS [NOT] NULL, with the NOTs before it counted in.
NullCheck(ts) ==
  LET u == Unnegated[ts] IN FirstNullCheck(u.rest, u.negated)

NegateOp(op) ==
  CASE op = "=" -> "<>"
    [] op \in {"<>", "!="} -> "="
    [] op = ">" -> "<="
    [] op = "<=" -> ">"
    [] op = "<" -> ">="
    [] op = ">=" -> "<"
    [] OTHER -> op

ReverseOp(op) ==
  CASE op = ">" -> "<" [] op = "<" -> ">"
    [] op = ">=" -> "<=" [] op = "<=" -> ">="
    [] OTHER -> op

\* The comparison whose operator is token i.
ComparisonAt(s, i, negated) ==
  [ok |-> TRUE, left |-> Strip[Before(s, i)], right |-> Strip[After(s, i)],
   op |-> IF negated THEN NegateOp(s[i]) ELSE s[i]]

FirstComparison(s, negated) ==
  LET at == {i \in 1..Len(s) : s[i] \in ComparisonOps \ {"<=>"} /\ Depth(s, i) = 0}
  IN  IF at = {} THEN None ELSE ComparisonAt(s, Min(at), negated)

\* X op Y at depth 0, with the NOTs before it counted in.
Comparison(ts) ==
  LET u == Unnegated[ts] IN FirstComparison(u.rest, u.negated)

ComplementaryOps ==
  LET pairs == {<<"=", "<>">>, <<"=", "!=">>, <<">", "<=">>, <<"<", ">=">>}
  IN  pairs \cup {<<p[2], p[1]>> : p \in pairs}

\* The comparison with its sides swapped, unless its left side is the given one.
Turned(left, c) ==
  IF TokensEqual(left, c.left) THEN c
  ELSE [left |-> c.right, right |-> c.left, op |-> ReverseOp(c.op)]

AreOpposite(a, b) ==
  /\ TokensEqual(a.left, b.left)
  /\ TokensEqual(a.right, b.right)
  /\ <<a.op, b.op>> \in ComplementaryOps

NullChecksComplementary(a, b) ==
  a.ok /\ b.ok /\ a.negated # b.negated /\ TokensEqual(a.subject, b.subject)

ComparisonsComplementary(a, b) == a.ok /\ b.ok /\ AreOpposite(a, Turned(a.left, b))

BranchesAreComplementary(a, b) ==
  \/ NullChecksComplementary(NullCheck(a), NullCheck(b))
  \/ ComparisonsComplementary(Comparison(a), Comparison(b))

(***************************************************************************)
(* The verdict.                                                            *)
(***************************************************************************)
\* One level of an expression: the verdict on each branch is given.
BranchesAreUnbounded(ts, ors, ands, verdict) ==
  CASE ts = <<>> -> TRUE
    [] Len(ors) > 1 ->
         \/ \E k \in DOMAIN ors : verdict[ors[k]]
         \/ \E j, k \in DOMAIN ors : j < k /\ BranchesAreComplementary(ors[j], ors[k])
         \/ \E k \in DOMAIN ors : Len(SplitTopLevel(ors[k], "and")) > 1
    [] Len(ands) > 1 -> \A k \in DOMAIN ands : verdict[ands[k]]
    [] OTHER -> LeafIsUnbounded(ts)

ExprIsUnbounded[text \in Tokens] ==
  LET ts == Strip[text]
  IN  BranchesAreUnbounded(ts, SplitTopLevel(ts, "or"), SplitTopLevel(ts, "and"),
                           ExprIsUnbounded)

PredicateIsUnbounded(text) ==
  LET ts == TrimTrailingClauses(text)
  IN  Strip[ts] = <<>> \/ ContainsSubquery(ts) \/ ExprIsUnbounded[ts]

=============================================================================
