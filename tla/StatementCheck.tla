--------------------------- MODULE StatementCheck ---------------------------
(***************************************************************************)
(* The gate of Statement against what a text really does.                  *)
(*                                                                         *)
(* A text starts as one statement of a constant list, whose need is known: *)
(* the level its work calls for, 3 when no level lets it run.  EXPLAIN and *)
(* WITH are then wrapped around it, clauses and statements that only one   *)
(* of the two dialects sees are added, and the need grows with them.       *)
(***************************************************************************)
EXTENDS Statement

CONSTANTS
  Statements,  \* records [text, need]
  Bodies,      \* those that may be the body of a WITH
  MaxSteps     \* the most steps a text is grown by

VARIABLES
  mysql,       \* the statements the MySQL dialect reads in the text
  standard,    \* the statements the standard dialect reads in it
  parts,       \* the bodies of its WITH, and the statement behind them
  need,        \* the level the worst of them calls for
  plain,       \* no body that writes, no second statement, no hidden clause
  floor,       \* the level of the text before its last step
  steps

vars == <<mysql, standard, parts, need, plain, floor, steps>>

Never == 3  \* what no level lets run

Worst(m, n) == IF m > n THEN m ELSE n

Init ==
  \E s \in Statements :
    /\ mysql = <<s.text>>
    /\ standard = <<s.text>>
    /\ parts = <<s>>
    /\ need = s.need
    /\ plain = TRUE
    /\ floor = 0
    /\ steps = 0

Verdict == Analyze(mysql, standard)

\* The level the gate asks for.
LevelOf(a) == IF a.refused THEN Never ELSE RequiredPermission(a)
Level == LevelOf(Verdict)

\* Both dialects still read the same single statement.
Single == mysql = standard /\ Len(mysql) = 1

Becomes(text) == mysql' = <<text>> /\ standard' = <<text>>

Options == {<<>>, <<"analyze">>, <<"(", "analyze", ",", "format", "(", "a", ")", ")">>}

\* EXPLAIN in front of a statement that can be explained.
Explain ==
  /\ Single
  /\ mysql[1][1] \in {"select", "insert", "update", "delete", "with"}
  /\ \E o \in Options : Becomes(<<"explain">> \o o \o mysql[1])
  /\ UNCHANGED <<parts, need, plain>>

\* WITH in front of a statement, or one body more in front of the first.
With(body) ==
  /\ Single
  /\ mysql[1][1] \in {"select", "insert", "update", "delete", "with"}
  /\ LET open == <<"with", "c", "as", "(">> \o body.text \o <<")">>
     IN  Becomes(IF mysql[1][1] = "with" THEN open \o <<",">> \o Tail(mysql[1])
                 ELSE open \o mysql[1])
  /\ parts' = <<body>> \o parts
  /\ need' = Worst(need, body.need)
  /\ plain' = (plain /\ body.text[1] = "select")

\* A second statement, which each dialect may see or take for a string.
Second(s) ==
  /\ Single
  /\ \E seen \in SUBSET {"mysql", "standard"} \ {{}} :
       /\ mysql' = IF "mysql" \in seen THEN Append(mysql, s.text) ELSE mysql
       /\ standard' = IF "standard" \in seen THEN Append(standard, s.text) ELSE standard
  /\ need' = Never
  /\ plain' = FALSE
  /\ UNCHANGED parts

\* A locking clause in an executable comment, which only MySQL reads.
HiddenClause ==
  /\ Single
  /\ mysql[1][1] = "select"
  /\ \A i \in DOMAIN mysql[1] : mysql[1][i] # "for"
  /\ mysql' = <<mysql[1] \o <<"for", "update">>>>
  /\ need' = Worst(need, PermissionSafeWrite)
  /\ plain' = FALSE
  /\ UNCHANGED <<standard, parts>>

Next ==
  /\ steps < MaxSteps
  /\ steps' = steps + 1
  /\ floor' = Level
  /\ \/ Explain
     \/ \E body \in Bodies : With(body)
     \/ \E s \in Statements : Second(s)
     \/ HiddenClause

Spec == Init /\ [][Next]_vars

-----------------------------------------------------------------------------
(* Properties. *)

Writes(part) == part.text[1] \in WriteVerbs

\* A WHERE in as many parentheses as are open at the given depth of a part.
HasWhere(part, depth) ==
  \E i \in DOMAIN part.text : part.text[i] = "where" /\ Depth(part.text, i) = depth

\* An UPDATE or DELETE of a body is analysed together with all that follows it
\* (classify.go:334).  A test of every row is then not seen to be one, and a WHERE
\* of a later body, or in parentheses of the statement behind the bodies, passes
\* for its own.  A second table in it is seen all the same.
ReadsOn ==
  \E i \in 1..(Len(parts) - 1) :
    /\ parts[i].text[1] \in {"update", "delete"} /\ parts[i].need = PermissionFull
    /\ ~JoinsTables(parts[i].text)
    /\ \/ HasWhere(parts[i], 0) /\ ~ContainsSubquery(parts[i].text)
       \/ \E j \in (i + 1)..Len(parts) : HasWhere(parts[j], IF j < Len(parts) THEN 0 ELSE 1)

\* A read that creates a table or reads a file is not looked for where another
\* part of the WITH writes (classify.go:348-356), nor behind one that locks rows,
\* with which the scan of a read ends (classify.go:385-390).
ReadsUnseen ==
  \E i, j \in DOMAIN parts :
    /\ parts[i].text[1] = "select" /\ parts[i].need = PermissionFull
    /\ Writes(parts[j]) \/ (j < i /\ parts[j].need = PermissionSafeWrite)

\* The two ways in which the analysis of a WITH misjudges a part of it.
Misread == ReadsOn \/ ReadsUnseen

\* A text is gated at least at the level the worst part of it needs: the
\* statement under EXPLAIN, every body of a WITH and the statement behind them,
\* and what only one of the dialects reads (classify.go:157-173, :213-222,
\* :306-311).  A WITH whose writes are misread in one of the two ways is still
\* gated as a write.
AtItsWorst(level) ==
  level >= IF Misread THEN LeastPermissive(need, PermissionSafeWrite) ELSE need

\* A text without a body that writes and without a clause or a statement that one
\* dialect hides is gated at exactly that level: nothing is refused or pushed
\* up for its form.
Exactly(level) == plain /\ ~Misread => level = need

\* No wrapping and no addition lowers the level of a text, but for a write put
\* beside a read that reaches out.
NotLowered(level) == level >= floor \/ ReadsUnseen

GatedAt(level) == AtItsWorst(level) /\ Exactly(level) /\ NotLowered(level)

GatedAsItsWorst == GatedAt(Level)

=============================================================================
