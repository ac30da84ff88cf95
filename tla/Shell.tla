-------------------------------- MODULE Shell --------------------------------
(***************************************************************************)
(* The statement loop of the interactive shell and of scripts              *)
(* (internal/input/input.go): lines are read, the statements they complete *)
(* are handed to a callback one at a time, and the rest is kept.           *)
(*                                                                         *)
(* The text arrives piece by piece and is read by the line.  It may end,   *)
(* and the context may be cancelled, at any moment; the callback, which    *)
(* runs with that context, may fail.  Prompts and the stripping of the     *)
(* delimiter before the call are left out.                                 *)
(***************************************************************************)
EXTENDS Splitter

CONSTANT Sessions
  \* The sessions there are, by their query language: whether a failing
  \* statement does not end one (interactive), the pieces, sequences of symbols,
  \* that are typed at once, and how many of them it sees (maxPieces).

VARIABLES
  language,   \* the query language, which chooses the splitter
  pipe,       \* typed and not yet read
  typed,      \* how many pieces have been typed
  eof,        \* the text has ended
  cancelled,  \* the context is cancelled
  phase,      \* "top", "read", "run", "finish", "done"
  readErr,    \* of the last read: "none", "eof", "canceled"
  buffer,     \* read and not yet run
  queue,      \* complete statements still to run
  rest,       \* what the buffer keeps when they have run
  \* History.
  script,     \* everything read
  ran,        \* the statements handed to the callback
  failed      \* one of them has failed

vars == <<language, pipe, typed, eof, cancelled, phase, readErr, buffer, queue, rest,
          script, ran, failed>>

Interactive == Sessions[language].interactive

session == <<language, phase, readErr, buffer, queue, rest, script, ran, failed>>

Init ==
  /\ language \in DOMAIN Sessions
  /\ pipe = <<>> /\ typed = 0 /\ eof = FALSE /\ cancelled = FALSE
  /\ phase = "top" /\ readErr = "none"
  /\ buffer = <<>> /\ queue = <<>> /\ rest = <<>>
  /\ script = <<>> /\ ran = <<>> /\ failed = FALSE

(***************************************************************************)
(* The one who types.  A piece is typed when the lines before it have been *)
(* handled: only whole lines are read, so that it makes no difference.     *)
(***************************************************************************)
HasLine == \E i \in DOMAIN pipe : pipe[i] = "\n"

Type ==
  /\ phase = "read" /\ ~HasLine /\ ~eof /\ ~cancelled
  /\ typed < Sessions[language].maxPieces
  /\ typed' = typed + 1
  /\ \E p \in Sessions[language].pieces : pipe' = pipe \o p
  /\ UNCHANGED <<eof, cancelled, session>>

EndOfText ==
  /\ phase = "read" /\ ~HasLine /\ ~eof /\ ~cancelled
  /\ eof' = TRUE
  /\ UNCHANGED <<pipe, typed, cancelled, session>>

Interrupt ==
  /\ ~cancelled /\ phase # "done"
  /\ cancelled' = TRUE
  /\ UNCHANGED <<pipe, typed, eof, session>>

(***************************************************************************)
(* The loop.                                                               *)
(***************************************************************************)
CheckDone ==
  /\ phase = "top"
  /\ phase' = IF cancelled THEN "done" ELSE "read"
  /\ UNCHANGED <<language, pipe, typed, eof, cancelled, readErr, buffer, queue, rest, script, ran, failed>>

\* SQL ends a statement at a semicolon, the other languages at any line.
EachLine == language # "sql"

\* (mutant) the buffer is split again without what has been read.
CompleteOfLine(buf, line) == Split(language, line)

\* The complete statements once line has been read behind the buffer.
CompleteOf(buf, line) == Split(language, buf \o line)

MayComplete(line) == EachLine \/ \E i \in DOMAIN line : line[i] = ";"

\* The buffer takes the line; statements it may complete are split off.
Take(line, err) ==
  /\ readErr' = err
  /\ script' = script \o line
  /\ pipe' = SubSeq(pipe, Len(line) + 1, Len(pipe))
  /\ buffer' = buffer \o line
  /\ IF MayComplete(line)
     THEN \E next \in {CompleteOf(buffer, line)} :
            /\ queue' = next.complete
            /\ rest' = next.rest
            /\ phase' = "run"
     ELSE /\ phase' = IF err = "none" THEN "top" ELSE "finish"
          /\ UNCHANGED <<queue, rest>>
  /\ UNCHANGED <<language, typed, eof, cancelled, ran, failed>>

ReadLine ==
  /\ phase = "read" /\ HasLine
  /\ Take(SubSeq(pipe, 1, Min({i \in DOMAIN pipe : pipe[i] = "\n"})), "none")

\* What stands behind the last line comes with the end of the text.
ReadEnd ==
  /\ phase = "read" /\ ~HasLine /\ eof
  /\ Take(pipe, "eof")

\* A cancelled read returns what the reader holds of an unfinished line.
ReadCancelled ==
  /\ phase = "read" /\ cancelled
  /\ \E line \in {<<>>} \cup (IF HasLine THEN {} ELSE {pipe}) : Take(line, "canceled")

(***************************************************************************)
(* Running statements.                                                     *)
(***************************************************************************)
\* The outcomes of the callback: with a cancelled context it fails.
Outcomes == IF cancelled THEN {"error"} ELSE {"ok", "error"}

Call(stmt, outcome) ==
  /\ ran' = Append(ran, stmt)
  /\ failed' = (failed \/ outcome = "error")

GoesOn(outcome) == outcome = "ok" \/ Interactive

RunNext ==
  /\ phase = "run" /\ queue # <<>>
  /\ \E outcome \in Outcomes :
       /\ Call(Head(queue), outcome)
       /\ queue' = Tail(queue)
       /\ phase' = IF GoesOn(outcome) THEN "run" ELSE "done"
  /\ UNCHANGED <<language, pipe, typed, eof, cancelled, readErr, buffer, rest, script>>

RunDone ==
  /\ phase = "run" /\ queue = <<>>
  /\ buffer' = rest
  /\ phase' = IF readErr = "none" THEN "top" ELSE "finish"
  /\ UNCHANGED <<language, pipe, typed, eof, cancelled, readErr, queue, rest, script, ran, failed>>

\* (mutant) an interrupt runs what is left like the end of the text.
RunsAnyRest == TrimSpace(buffer) # <<>>

RunsRest == TrimSpace(buffer) # <<>> /\ readErr # "canceled"

Finish ==
  /\ phase = "finish"
  /\ phase' = "done"
  /\ IF RunsRest
     THEN \E outcome \in Outcomes : Call(TrimSpace(buffer), outcome)
     ELSE UNCHANGED <<ran, failed>>
  /\ UNCHANGED <<language, pipe, typed, eof, cancelled, readErr, buffer, queue, rest, script>>

Loop == CheckDone \/ ReadLine \/ ReadEnd \/ ReadCancelled \/ RunNext \/ RunDone \/ Finish

Next == Type \/ EndOfText \/ Interrupt \/ Loop

\* The loop takes its steps; the one who types need not.
Spec == Init /\ [][Next]_vars /\ WF_vars(Loop)

-----------------------------------------------------------------------------
(* Properties. *)

\* Between two statements: all that was read has been run or is kept.
Settled == phase \in {"top", "read"}

\* The dialects the statements of the language are analysed in.
Readings ==
  CASE language = "sql" -> {DialectStandard, DialectMySQL}
    [] language = "cql" -> {DialectCQL}
    [] OTHER -> {}

\* The words of the statements of a text, read in one dialect.
Meaning(src, d) ==
  LET statements == SplitStatements(Lex(src, d))
  IN  [k \in DOMAIN statements |->
         [i \in DOMAIN statements[k] |-> <<statements[k][i].type, statements[k][i].text>>]]

\* Both dialects of SQL read the same script.
Agreed ==
  language = "sql" =>
    /\ Semis(script, DialectStandard) = Semis(script, DialectMySQL)
    /\ Meaning(script, DialectStandard) = Meaning(script, DialectMySQL)

\* However the lines cut a script, the statements handed over and the text kept
\* are those of the script as a whole: nothing is lost, run twice or cut inside
\* a string or a comment that spans lines (input.go:123-157).
LineByLine ==
  Settled => \E whole \in {Split(language, script)} :
    whole.complete = ran /\ TrimSpace(whole.rest) = TrimSpace(buffer)

\* Read in the dialect of the server, the statements handed over say what the
\* script up to there says, statement by statement (split.go:9-20).
SameMeaning ==
  Settled => \A d \in Readings :
    Meaning(script, d) = FlattenSeq([k \in DOMAIN ran |-> Meaning(ran[k], d)]) \o Meaning(buffer, d)

AppliesBatch(statement) ==
  LET n == Len(statement)
  IN  n >= 2 /\ <<statement[n - 1].text, statement[n].text>> = <<"apply", "batch">>

\* What is handed over before the end of the text is one statement, or one
\* whole batch: the analysis refuses anything else (classify.go:183-194,
\* cql_analyze.go:21-31, :146-151).
OneStatementEach ==
  phase # "done" => \A k \in DOMAIN ran : \A d \in Readings :
    LET statements == SplitStatements(Lex(ran[k], d))
    IN  IF d = DialectCQL /\ OpensBatch(statements[1])
        THEN \A i \in DOMAIN statements : AppliesBatch(statements[i]) <=> i = Len(statements)
        ELSE Len(statements) = 1

\* A script is run as it was typed, wherever its lines end.
AsTyped == Agreed => LineByLine /\ SameMeaning /\ OneStatementEach

\* The braces open behind symbol i of a document, those in its strings aside.
\* A quote counts unless an odd number of backslashes stands before it.
OpenBraces(doc, i) ==
  LET quotes == {q \in DOMAIN doc :
                   /\ doc[q] = "\""
                   /\ Cardinality({b \in 1..(q - 1) : \A c \in b..(q - 1) : doc[c] = "\\"}) % 2 = 0}
      code == {c \in 1..i : Cardinality({q \in quotes : q < c}) % 2 = 0}
  IN  Cardinality({c \in code : doc[c] = "{"}) - Cardinality({c \in code : doc[c] = "}"})

\* A backslash of a JSON document stands in a string.
IsJson(doc) ==
  \A b \in DOMAIN doc : doc[b] = "\\" => \E q \in 1..(b - 1) : doc[q] = "\""

\* A document is handed over when its last brace has closed, and then at once:
\* neither a brace in a string nor a line end cuts it (split_lang.go:102-105).
WholeDocuments ==
  phase # "done" => \A k \in DOMAIN ran :
    ran[k][1] = "{" /\ IsJson(ran[k]) =>
      \A i \in DOMAIN ran[k] : OpenBraces(ran[k], i) = 0 <=> i = Len(ran[k])

\* An interrupt never runs what is left of an unfinished statement: every
\* statement that ran was complete (input.go:160-178).
InterruptKeepsRest ==
  readErr = "canceled" => \A k \in DOMAIN ran : Split(language, ran[k] \o <<"\n">>).complete = <<ran[k]>>

\* A script stops at the first statement that fails (input.go:64-68).
FailsFast == [][failed /\ ~Interactive => ran' = ran]_vars

\* A session ends once its text has ended or its context is cancelled, whatever
\* is buffered or fails (input.go:111-141).
Ends == (eof \/ cancelled) ~> phase = "done"

=============================================================================
