------------------------------ MODULE Splitter ------------------------------
(***************************************************************************)
(* How buffered input is cut into the statements of a query language       *)
(* (internal/database/split.go and split_lang.go).  Every splitter returns *)
(* the complete statements of a text and what is left of it.               *)
(***************************************************************************)
EXTENDS Lexer

\* The text without the white space around it.
TrimSpace(src) ==
  LET code == {i \in DOMAIN src : src[i] \notin Spaces}
  IN  IF code = {} THEN <<>> ELSE SubSeq(src, Min(code), Max(code))

Behind(src, i) == SubSeq(src, i + 1, Len(src))

(***************************************************************************)
(* SQL.                                                                    *)
(***************************************************************************)
\* Blank pieces, bare semicolons and comments hold none.
HoldsCode(piece) ==
  Eager(Lex(piece, DialectStandard), LAMBDA ts : \E i \in DOMAIN ts : ts[i].type # "semi")

\* The ends that are top-level in at least one dialect.
StatementEnds(src) == Semis(src, DialectStandard) \cup Semis(src, DialectMySQL)

SplitComplete(src) ==
  LET Step(s, end) ==
        LET piece == TrimSpace(SubSeq(src, Len(src) - Len(s.rest) + 1, end))
        IN  [complete |-> IF HoldsCode(piece) THEN Append(s.complete, piece) ELSE s.complete,
             rest |-> Behind(src, end)]
  IN  EagerFold(Step, [complete |-> <<>>, rest |-> src], SetToSortSeq(StatementEnds(src), <))

(***************************************************************************)
(* CQL: a BEGIN ... BATCH is kept whole up to its APPLY BATCH.             *)
(***************************************************************************)
IsWordToken(t, word) == t.type = "word" /\ t.text = word

OpensBatch(ts) ==
  /\ IsWordToken(ts[1], "begin")
  /\ \E i \in {2, 3} \cap DOMAIN ts : IsWordToken(ts[i], "batch")

EndsWithApplyBatch(statements) ==
  /\ statements # <<>>
  /\ LET last == Last(statements)
     IN  /\ Len(last) >= 2
         /\ IsWordToken(last[Len(last) - 1], "apply")
         /\ IsWordToken(last[Len(last)], "batch")

SplitCQL(src) ==
  LET Step(s, end) ==
        LET statements == SplitStatements(Lex(TrimSpace(SubSeq(src, s.start + 1, end)), DialectCQL))
            batch == IF s.batch < 0 /\ statements # <<>> /\ OpensBatch(statements[1])
                     THEN s.start ELSE s.batch
            from == IF batch >= 0 THEN batch ELSE s.start
        IN  IF batch >= 0 /\ ~EndsWithApplyBatch(statements)
            THEN [s EXCEPT !.start = end, !.batch = batch]
            ELSE [start |-> end, batch |-> -1,
                  out |-> IF statements = <<>> THEN s.out
                          ELSE Append(s.out, TrimSpace(SubSeq(src, from + 1, end)))]
      done == EagerFold(Step, [start |-> 0, batch |-> -1, out |-> <<>>],
                       SetToSortSeq(Semis(src, DialectCQL), <))
  IN  [complete |-> done.out,
       rest |-> Behind(src, IF done.batch >= 0 THEN done.batch ELSE done.start)]

(***************************************************************************)
(* Redis: one command a line.                                              *)
(***************************************************************************)
SplitRedis(src) ==
  LET Step(s, end) ==
        LET line == TrimSpace(SubSeq(src, Len(src) - Len(s.rest) + 1, end))
        IN  [complete |-> IF line = <<>> THEN s.complete ELSE Append(s.complete, line),
             rest |-> Behind(src, end)]
  IN  EagerFold(Step, [complete |-> <<>>, rest |-> src],
               SetToSortSeq({i \in DOMAIN src : src[i] = "\n"}, <))

(***************************************************************************)
(* MongoDB: one JSON document at a time, and other text by the line.       *)
(***************************************************************************)
\* The index of the brace that closes the document at start, 0 when there is
\* none yet.
JsonDocumentEnd(src, start) ==
  LET Step(s, i) ==
        CASE s.end # 0 -> s
          [] s.end = 0 /\ s.escaped -> [s EXCEPT !.escaped = FALSE]
          [] s.end = 0 /\ ~s.escaped /\ s.inString ->
               CASE src[i] = "\\" -> [s EXCEPT !.escaped = TRUE]
                 [] src[i] = "\"" -> [s EXCEPT !.inString = FALSE]
                 [] OTHER -> s
          [] OTHER ->
               CASE src[i] = "\"" -> [s EXCEPT !.inString = TRUE]
                 [] src[i] \in {"{", "["} -> [s EXCEPT !.depth = @ + 1]
                 [] src[i] \in {"}", "]"} ->
                      [s EXCEPT !.depth = @ - 1, !.end = IF s.depth = 1 THEN i ELSE 0]
                 [] OTHER -> s
  IN  EagerFold(Step, [depth |-> 0, inString |-> FALSE, escaped |-> FALSE, end |-> 0],
               [k \in 1..(Len(src) - start + 1) |-> start + k - 1]).end

SplitMongo(src) ==
  LET from[i \in 1..(Len(src) + 1)] ==
        LET starts == {j \in i..Len(src) : src[j] \notin Spaces \cup {";", ","}}
            j == Min(starts)
            line == SkipLine(src, j)
            end == JsonDocumentEnd(src, j)
            Then(piece, next) ==
              [from[next] EXCEPT !.complete = <<piece>> \o @]
        IN  CASE starts = {} -> [complete |-> <<>>, rest |-> <<>>]
              [] starts # {} /\ src[j] # "{" /\ line <= Len(src) ->
                   Then(TrimSpace(SubSeq(src, j, line - 1)), line)
              [] starts # {} /\ src[j] = "{" /\ end # 0 -> Then(SubSeq(src, j, end), end + 1)
              [] OTHER -> [complete |-> <<>>, rest |-> Behind(src, j - 1)]
  IN  from[1]

Split(language, src) ==
  CASE language = "cql" -> SplitCQL(src)
    [] language = "mongodb" -> SplitMongo(src)
    [] language = "redis" -> SplitRedis(src)
    [] language = "sql" -> SplitComplete(src)

=============================================================================
