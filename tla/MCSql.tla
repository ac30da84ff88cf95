--------------------------------- MODULE MCSql ---------------------------------
(***************************************************************************)
(* Instances for TLC of what is done with SQL texts.  InsertExport writes  *)
(* one; one that arrives is cut into statements (Lexer, Splitter, Shell),  *)
(* and each is judged (Predicate, Statement).                              *)
(*                                                                         *)
(* The modules share no state.  A behaviour is one of a single part; the   *)
(* variables of the others keep an initial value.                          *)
(***************************************************************************)
EXTENDS InsertExport, FiniteSets, TLC

CONSTANT NULL

-----------------------------------------------------------------------------
(* Exports: every result of up to five rows, in batches of one to three,    *)
(* against every limit up to four, and none.                                *)

MCTotals == 0..5
MCLimits == 0..4
MCSizes  == 1..3

-----------------------------------------------------------------------------
(* Predicates: every kind of leaf the rules tell apart, two ways of writing *)
(* the test of a column where there are two, and leaves every row or no row *)
(* satisfies.                                                               *)

MCRow == [x : {0, 1}, y : {0, 1, 2}, w : {1, 3, 4}, z : {0, NULL}]

Leaf(words, rows) == [text |-> words, rows |-> rows, negatable |-> TRUE]
FixedLeaf(words, rows) == [text |-> words, rows |-> rows, negatable |-> FALSE]

MCLeaves ==
  { Leaf(<<"x", "=", "1">>, {r \in MCRow : r.x = 1}),
    Leaf(<<"1", "<>", "x">>, {r \in MCRow : r.x # 1}),
    Leaf(<<"y", "<", "1">>, {r \in MCRow : r.y < 1}),
    Leaf(<<"1", "<=", "y">>, {r \in MCRow : r.y >= 1}),
    Leaf(<<"y", "<", "2">>, {r \in MCRow : r.y < 2}),
    Leaf(<<"z", "is", "null">>, {r \in MCRow : r.z = NULL}),
    Leaf(<<"z", "is", "not", "null">>, {r \in MCRow : r.z # NULL}),
    FixedLeaf(<<"w", "between", "1", "and", "3">>, {r \in MCRow : r.w \in 1..3}),
    Leaf(<<"y", "between", "y", "and", "y">>, MCRow),
    FixedLeaf(<<"y", "not", "between", "y", "and", "y">>, {}),
    Leaf(<<"[x]", "=", "[x]">>, MCRow),
    Leaf(<<"y", "<", "(", "y", ")">>, {}),
    Leaf(<<"w", "like", "'%'">>, MCRow),
    Leaf(<<"abs", "(", "1", ")", "=", "1">>, MCRow) }

\* Fewer leaves for longer predicates: one column's test, its negation, one BETWEEN.
MCFewLeaves ==
  {l \in MCLeaves : l.text \in {<<"x", "=", "1">>, <<"1", "<>", "x">>, <<"w", "between", "1", "and", "3">>}}

-----------------------------------------------------------------------------
(* Statements of every form the classification tells apart, with the level *)
(* the work of each calls for.                                             *)

Statement(words, level) == [text |-> words, need |-> level]

InsertValues == <<"insert", "into", "t", "values", "(", "1", ")">>
SelectX == <<"select", "x", "from", "t">>
DeleteOne == <<"delete", "from", "t", "where", "x", "=", "3">>
SelfComparing == <<"delete", "from", "t", "where", "x", "=", "x">>
UpdateAll == <<"update", "t", "set", "x", "=", "1">>

MCReads ==
  { Statement(SelectX, 0),
    Statement(<<"values", "(", "1", ")">>, 0),
    Statement(<<"pragma", "journal_mode">>, 0),
    Statement(<<"pragma", "table_info", "(", "t", ")">>, 0),
    Statement(SelectX \o <<"for", "update">>, 1),
    Statement(<<"select", "x", "into", "n", "from", "t">>, 2),
    Statement(<<"select", "x", "from", "read_csv", "(", "'a'", ")">>, 2) }

MCInserts ==
  { Statement(InsertValues, 1),
    Statement(<<"insert", "into", "t", "values", "(", "(", "select", "1", ")", ")">>, 1),
    Statement(<<"insert", "into", "t", "(", "(">> \o SelectX \o <<")", ")">>, 2),
    Statement(InsertValues \o <<"on", "conflict", "do", "nothing">>, 1),
    Statement(InsertValues \o <<"on", "conflict", "do", "update", "set", "x", "=", "1">>, 2),
    Statement(<<"insert", "or", "replace", "into", "t", "values", "(", "1", ")">>, 2) }

MCUpdates ==
  { Statement(UpdateAll \o <<"where", "x", "=", "3">>, 1),
    Statement(UpdateAll, 2),
    Statement(UpdateAll \o <<"from", "u", "where", "x", "=", "3">>, 2),
    Statement(<<"update", "t", "set", "x", "=", "(">> \o SelectX \o <<"where", "x", "=", "3", ")">>, 2),
    Statement(DeleteOne \o <<"returning", "x">>, 1),
    Statement(SelfComparing, 2),
    Statement(<<"delete", "from", "t", "where", "x", "in", "(">> \o SelectX \o <<")">>, 2),
    Statement(<<"delete", "from", "t", "using", "u", "where", "x", "=", "3">>, 2) }

MCOthers ==
  { Statement(<<"replace", "into", "t", "values", "(", "1", ")">>, 2),
    Statement(<<"drop", "table", "t">>, 2),
    Statement(<<"pragma", "optimize">>, 2),
    Statement(<<"vacate", "t">>, 2),
    Statement(<<"begin">>, 3),
    Statement(<<"pragma", "journal_mode", "=", "1">>, 3) }

MCSqlStatements == MCReads \cup MCInserts \cup MCUpdates \cup MCOthers

\* Bodies of a WITH: every read, insert, update and delete, but for SELECT INTO,
\* which no database takes there.
MCBodies ==
  {s \in MCSqlStatements :
     /\ s.text[1] \in {"select", "insert", "update", "delete"}
     /\ s.text[1] = "select" => "into" \notin {s.text[i] : i \in DOMAIN s.text}}

-----------------------------------------------------------------------------
(* Texts of every symbol the dialects read in ways of their own, and a      *)
(* script with strings and comments that span lines, and one with batches.  *)

MCAlphabets ==
  { [symbols |-> {"x", ";", "'", "\\", "[", "]", "$", "-", "/", "*", "#", " ", "\n"}, longest |-> 4],
    [symbols |-> {";", "'", "\\", "/", "*"}, longest |-> 6],
    [symbols |-> {";", "/", "*"}, longest |-> 8],
    [symbols |-> {";", "-", " ", "\n"}, longest |-> 6],
    [symbols |-> {";", "$", "x"}, longest |-> 7] }

MCSessions ==
  [sql |-> [interactive |-> FALSE, maxPieces |-> 4,
            pieces |-> {<<"x">>, <<";">>, <<"'">>, <<"-", "-">>, <<"/", "*">>, <<"*", "/">>,
                        <<"\n">>}],
   cql |-> [interactive |-> TRUE, maxPieces |-> 5,
            pieces |-> {<<";">>, <<"\n">>, <<"insert", " ">>,
                        <<"begin", " ", "batch", " ">>, <<"apply", " ", "batch">>}]]

-----------------------------------------------------------------------------
(* The parts. *)

VARIABLES
  part,
  text, matches, shape, leaves, flat,                 \* PredicateCheck
  branches, together, trailing,
  mysql, standard, parts, need, plain, floor, steps,  \* StatementCheck
  src, mode, begun, depth, ends, swallowed,           \* LexCheck
  language, pipe, typed, eof, cancelled, phase,       \* Shell
  readErr, buffer, queue, rest, script, ran, failed

predicateVars == <<text, matches, shape, leaves, flat, branches, together, trailing>>
statementVars == <<mysql, standard, parts, need, plain, floor, steps>>
lexVars == <<src, mode, begun, depth, ends, swallowed>>
shellVars == <<language, pipe, typed, eof, cancelled, phase,
               readErr, buffer, queue, rest, script, ran, failed>>

P == INSTANCE PredicateCheck WITH Row <- MCRow, Leaves <- MCLeaves, MaxLeaves <- 2
PP == INSTANCE PredicateCheck WITH Row <- MCRow, Leaves <- MCFewLeaves, MaxLeaves <- 3
S == INSTANCE StatementCheck WITH Statements <- MCSqlStatements, Bodies <- MCBodies, MaxSteps <- 2
L == INSTANCE LexCheck WITH Alphabets <- MCAlphabets
Sh == INSTANCE Shell WITH Sessions <- MCSessions

MCInit ==
  /\ part \in {"export", "predicate", "longPredicate", "statement", "lexer", "shell"}
  /\ Init
  /\ part # "export" => total = 0 /\ limit = 0 /\ size = 1
  /\ P!Init
  /\ part = "longPredicate" => text \in {l.text : l \in MCFewLeaves}
  /\ part \notin {"predicate", "longPredicate"} => text = <<"x", "=", "1">>
  /\ S!Init
  /\ part # "statement" => mysql = <<SelectX>>
  /\ L!Init
  /\ Sh!Init
  /\ part # "shell" => language = "sql"

\* A step of one part, which changes no variable of another.
ExportStep(A) ==
  /\ part = "export" /\ A
  /\ UNCHANGED <<part, predicateVars, statementVars, lexVars, shellVars>>

TextStep ==
  /\ UNCHANGED <<part, vars>>
  /\ \/ /\ \/ part = "predicate" /\ P!Next
           \/ part = "longPredicate" /\ PP!Next
        /\ UNCHANGED <<statementVars, lexVars, shellVars>>
     \/ /\ part = "statement" /\ S!Next
        /\ UNCHANGED <<predicateVars, lexVars, shellVars>>
     \/ /\ part = "lexer" /\ L!Next
        /\ UNCHANGED <<predicateVars, statementVars, shellVars>>
     \/ /\ part = "shell" /\ Sh!Next
        /\ UNCHANGED <<predicateVars, statementVars, lexVars>>

MCNext == ExportStep(Next) \/ TextStep

MCVars == <<part, vars, predicateVars, statementVars, lexVars, shellVars>>

\* The fairness of InsertExport.
MCSpec ==
  /\ MCInit /\ [][MCNext]_MCVars
  /\ WF_MCVars(ExportStep(Proceed)) /\ WF_MCVars(ExportStep(Expire))

-----------------------------------------------------------------------------
(* Properties, next to those of InsertExport. *)

\* An export comes back, also when the database stops answering (export.go:71-124).
ExportComesBack == part = "export" => ExportReturns

\* A predicate every row satisfies is called bounded only where it takes several
\* branches of an OR to cover them and no two are each other's negation; a flat
\* one that is called unbounded is satisfied by every row; and the rules for AND
\* and OR agree with what they do to the rows (predicate.go:8-11, :56-104).
PredicatesAsMeant ==
  /\ [](part \in {"predicate", "longPredicate"} => P!OneSided /\ P!FlatIsExact)
  /\ [][PP!BranchesAgree(MCLeaves)]_predicateVars

\* A SQL text is gated at the level its worst part needs: never below it but for
\* a WITH whose writing body the analysis misreads (StatementCheck names the two
\* shapes), not above it where nothing in it is hidden or writes beside it, and
\* wrapping it or adding to it never lowers its level (classify.go:157-173,
\* :213-222).
GatedAsItsWorst ==
  part = "statement" => S!GatedAsItsWorst

\* A text is cut at the semicolons outside of every construct, and at no others,
\* unless a comment that does not nest has ended in /*/ (lex.go:78-94, :337-341).
CutsAreTopLevel == part = "lexer" => L!CutsAreTopLevel

\* However the lines cut a script, nothing is lost, run twice or cut inside a
\* string or a comment; what is handed over is one statement, and says what the
\* script says (input.go:123-157, split.go:9-20, classify.go:183-194).
ScriptsAsTyped ==
  part = "shell" => Sh!AsTyped

=============================================================================
