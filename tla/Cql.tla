--------------------------------- MODULE Cql ---------------------------------
(***************************************************************************)
(* The classification of a CQL text (internal/database/cql_analyze.go).    *)
(*                                                                         *)
(* A text is the sequence of the statements the lexer cuts it into at its  *)
(* semicolons, none of them empty; a statement is a sequence of tokens, as *)
(* in Predicate.  A BEGIN ... APPLY BATCH arrives as several statements.   *)
(***************************************************************************)
EXTENDS Statement

Members == {"insert", "update", "delete"}

BatchHeader == {"begin", "unlogged", "counter", "logged", "batch", "using", "timestamp"} \cup Numbers

OpensBatchText(ts) == ts[1] = "begin" /\ \E i \in {2, 3} \cap DOMAIN ts : ts[i] = "batch"

(***************************************************************************)
(* One statement.                                                          *)
(***************************************************************************)
\* What stands between WHERE and the IF of a lightweight transaction.
RowSelection(ts) ==
  LET predicate == After(ts, Min({i \in DOMAIN ts : ts[i] = "where"}))
      ifs == {i \in DOMAIN predicate : predicate[i] = "if"}
  IN  IF ifs = {} THEN predicate ELSE Before(predicate, Min(ifs))

AnalyzeCQLUpdateDelete(ts) ==
  IF \/ \A i \in DOMAIN ts : ts[i] # "where"
     \/ PredicateIsUnbounded(RowSelection(ts))
  THEN Unbounded("write")
  ELSE Bounded("write")

AnalyzeCQLStatement(ts) ==
  CASE ts[1] \in {"select", "describe", "desc", "list"} -> Bounded("read")
    [] ts[1] = "insert" -> Bounded("write")
    [] ts[1] \in {"update", "delete"} -> AnalyzeCQLUpdateDelete(ts)
    [] ts[1] \in {"use", "begin"} -> Refused("session")
    [] ts[1] \in SchemaVerbs -> Bounded("schema")
    [] OTHER -> Unbounded("unknown")

(***************************************************************************)
(* A batch.                                                                *)
(***************************************************************************)
\* (mutant) APPLY BATCH may stand anywhere.
AppliesNever(ts) == FALSE

AppliesInside(ts) == \E i \in 2..Len(ts) : ts[i - 1] = "apply" /\ ts[i] = "batch"

\* The header of a batch: whether only it stands before the first write.
OpensWell(head) ==
  LET writes == {i \in DOMAIN head : head[i] \in WriteVerbs}
  IN  /\ writes # {}
      /\ \A i \in 1..(Min(writes) - 1) : head[i] \in BatchHeader

\* The members of a batch: its header and its APPLY BATCH taken off.
BatchMembers(statements) ==
  LET head == statements[1]
      first == Min({i \in DOMAIN head : head[i] \in WriteVerbs})
      body == [statements EXCEPT ![1] = SubSeq(head, first, Len(head))]
      pieces == [body EXCEPT ![Len(body)] = SubSeq(@, 1, Len(@) - 2)]
  IN  {pieces[k] : k \in DOMAIN pieces} \ {<<>>}

\* A batch is as dangerous as its worst member.
AnalyzeCQLBatch(statements) ==
  LET last == Last(statements)
      members == BatchMembers(statements)
  IN  IF \/ Len(last) < 2
         \/ SubSeq(last, Len(last) - 1, Len(last)) # <<"apply", "batch">>
         \/ ~OpensWell(statements[1])
         \/ \E ts \in members : ts[1] \notin Members \/ AppliesInside(ts)
      THEN Refused("unknown")
      ELSE [Bounded("write") EXCEPT !.unbounded =
              \E ts \in members : AnalyzeCQLStatement(ts).unbounded]

AnalyzeCQL(statements) ==
  CASE statements = <<>> -> Refused("unknown")
    [] statements # <<>> /\ OpensBatchText(statements[1]) -> AnalyzeCQLBatch(statements)
    [] Len(statements) > 1 /\ ~OpensBatchText(statements[1]) -> Refused("unknown")
    [] OTHER -> AnalyzeCQLStatement(statements[1])

-----------------------------------------------------------------------------
(***************************************************************************)
(* The gate of Cql against what a text really does.                        *)
(*                                                                         *)
(* A text starts as one statement of a known need.  A header makes it the  *)
(* first member of a batch, members and other statements are added, and    *)
(* APPLY BATCH closes it, behind the last member or behind a semicolon.    *)
(***************************************************************************)
CONSTANTS
  Statements,  \* records [text, need]
  Headers,     \* records [text, good]: what may stand before a first member
  MaxSteps

VARIABLES
  statements,  \* the text
  batch,       \* "none", "open", "closed"
  need,        \* the level it calls for, Never when no level lets it run
  members,     \* the worst of the members of a batch
  steps

vars == <<statements, batch, need, members, steps>>

Never == 3

Worst(m, n) == IF m > n THEN m ELSE n

Init ==
  \E s \in Statements :
    /\ statements = <<s.text>>
    /\ batch = "none"
    /\ need = s.need
    /\ members = IF s.text[1] \in Members THEN s.need ELSE Never
    /\ steps = 0

Grow == steps < MaxSteps /\ steps' = steps + 1

Open(h) ==
  /\ Grow
  /\ batch = "none" /\ Len(statements) = 1
  /\ statements' = <<h.text \o statements[1]>>
  /\ batch' = "open"
  /\ members' = IF h.good THEN members ELSE Never
  /\ need' = Never

\* One more statement, behind a semicolon.
Another(s) ==
  /\ Grow
  /\ statements' = Append(statements, s.text)
  /\ members' = IF batch = "closed" \/ s.text[1] \notin Members THEN Never
                ELSE Worst(members, s.need)
  /\ need' = Never
  /\ UNCHANGED batch

\* APPLY BATCH, with or without a semicolon before it.  A batch that was closed
\* before is no single batch.
Apply ==
  /\ Grow
  /\ batch # "none"
  /\ \/ statements' = Append(statements, <<"apply", "batch">>)
     \/ statements' = [statements EXCEPT ![Len(statements)] = @ \o <<"apply", "batch">>]
  /\ batch' = "closed"
  /\ members' = IF batch = "closed" THEN Never ELSE members
  /\ need' = members'

Next ==
  \/ \E h \in Headers : Open(h)
  \/ \E s \in Statements : Another(s)
  \/ Apply

Spec == Init /\ [][Next]_vars

-----------------------------------------------------------------------------
(* Properties. *)

Level == IF AnalyzeCQL(statements).refused THEN Never
         ELSE RequiredPermission(AnalyzeCQL(statements))

\* A text is gated at exactly the level it needs: a whole batch at that of its
\* worst member, wherever it stands and whatever header it has, and anything
\* that is neither one statement nor one whole batch of writes at no level
\* (cql_analyze.go:18-33, :138-209).
BatchAsItsWorst == Level = need

=============================================================================
