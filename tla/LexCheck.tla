------------------------------ MODULE LexCheck ------------------------------
(***************************************************************************)
(* The semicolons that Lexer finds against a reader that takes a text one  *)
(* symbol at a time and never looks ahead: per dialect, the construct the  *)
(* text is in, and the semicolons read outside of any.                     *)
(***************************************************************************)
EXTENDS Lexer

CONSTANT Alphabets
  \* The texts there are: of the symbols of one of these, up to its longest.

Dialects == {DialectMySQL, DialectStandard, DialectCQL}

VARIABLES
  src,        \* the text so far
  mode,       \* [Dialects -> the construct the text is in]
  begun,      \* [Dialects -> the index of the last / or $ that may begin one]
  depth,      \* [Dialects -> block comments open]
  ends,       \* [Dialects -> places of the semicolons that end a statement]
  swallowed   \* [Dialects -> a comment has ended in a way the lexer misses]

vars == <<src, mode, begun, depth, ends, swallowed>>

Init ==
  /\ src = <<>>
  /\ mode = [d \in Dialects |-> "code"]
  /\ begun = [d \in Dialects |-> 1]
  /\ depth = [d \in Dialects |-> 0]
  /\ ends = [d \in Dialects |-> {}]
  /\ swallowed = [d \in Dialects |-> FALSE]

\* The construct that symbol c of code begins or stays in.
FromCode(d, c) ==
  CASE c = "#" /\ ~d.cql -> "line"
    [] c = "[" /\ ~d.cql -> "bracket"
    [] c \in {"-", "/", "'", "\"", "$"} -> c
    [] c \in Words -> "word"
    [] OTHER -> "code"

\* Inside a block comment a / or a * waits for what follows it, unless it has
\* been part of a /* or a */ already.  Only where comments nest is a /* one.
InComment(d, c, last) ==
  CASE last = "block*" /\ c = "/" -> IF depth[d] = 1 THEN "code" ELSE "block"
    [] last = "block/" /\ c = "*" /\ d.nested -> "block"
    [] c = "/" /\ last # "block*" -> "block/"
    [] c = "*" /\ ~(last = "block/" /\ d.nested) -> "block*"
    [] OTHER -> "block"

\* Behind its tag, a dollar-quoted string ends where the tag stands again.
TagEnds(begin, text) ==
  LET behind == SkipRun(text, begin + 1, Words \cup Digits)
      n == behind - begin + 1
      last == Len(text)
  IN  last - n >= behind /\ SubSeq(text, last - n + 1, last) = SubSeq(text, begin, behind)

After(d, c) ==
  LET m == mode[d]
  IN  CASE m = "line" -> IF c = "\n" THEN "code" ELSE "line"
        [] m = "-" -> CASE c = "-" /\ d.dashSpace -> "dash"
                        [] c = "-" /\ ~d.dashSpace -> "line"
                        [] OTHER -> FromCode(d, c)
        [] m = "dash" -> CASE c = " " -> "line"
                           [] c = "-" -> "dash"
                           [] OTHER -> FromCode(d, c)
        [] m = "/" -> CASE c = "*" -> "block"
                        [] c = "/" /\ d.cql -> "line"
                        [] OTHER -> FromCode(d, c)
        [] m \in {"block", "block/", "block*"} -> InComment(d, c, m)
        [] m = "'" -> CASE c = "'" -> "code"
                        [] c = "\\" /\ d.escapes -> "escaped"
                        [] OTHER -> "'"
        [] m = "escaped" -> "'"
        [] m = "\"" -> IF c = "\"" THEN "code" ELSE m
        [] m = "bracket" -> IF c = "]" THEN "closed" ELSE m
        [] m = "closed" -> IF c = "]" THEN "bracket" ELSE FromCode(d, c)
        [] m = "$" -> CASE c = "$" -> "dollar"
                        [] c \in Words -> "tag"
                        [] c \in Digits -> "word"
                        [] OTHER -> FromCode(d, c)
        [] m = "tag" -> CASE c = "$" -> "dollar"
                          [] c \in Words \cup Digits -> "tag"
                          [] OTHER -> FromCode(d, c)
        [] m = "dollar" -> IF TagEnds(begun[d], Append(src, c)) THEN "code" ELSE m
        [] m = "word" -> IF c \in WordParts THEN "word" ELSE FromCode(d, c)
        [] m = "code" -> FromCode(d, c)

\* The constructs code goes on in, so that a semicolon counts.
Open == {"code", "word", "dash", "closed", "-", "/", "$", "tag"}

\* A doubled quote closes the construct and opens it again.
Type(c) ==
  /\ \E a \in Alphabets : Len(src) < a.longest /\ ToSet(src) \cup {c} \subseteq a.symbols
  /\ src' = Append(src, c)
  /\ mode' = [d \in Dialects |-> After(d, c)]
  /\ begun' = [d \in Dialects |->
                 IF After(d, c) \in {"/", "$"} THEN Len(src) + 1 ELSE begun[d]]
  /\ depth' = [d \in Dialects |->
                 CASE mode[d] = "/" /\ c = "*" -> 1
                   [] mode[d] = "block/" /\ c = "*" /\ d.nested -> depth[d] + 1
                   [] mode[d] = "block*" /\ c = "/" -> depth[d] - 1
                   [] OTHER -> depth[d]]
  /\ ends' = [d \in Dialects |->
                IF c = ";" /\ mode[d] \in Open THEN ends[d] \cup {Len(src) + 1} ELSE ends[d]]
  /\ swallowed' = [d \in Dialects |->
                     \/ swallowed[d]
                     \/ /\ ~d.nested /\ mode[d] = "block*" /\ c = "/"
                        /\ Len(src) - 1 > begun[d] + 1 /\ src[Len(src) - 1] = "/"]

Next == \E a \in Alphabets : \E c \in a.symbols : Type(c)

Spec == Init /\ [][Next]_vars

\* The lexer cuts a text at the semicolons outside of strings, quoted names,
\* comments and dollar quotes, and at no others, in every dialect (lex.go:78-94),
\* whatever the constructs stand in and however they nest.  Since the reader
\* here never looks ahead, reading on never takes back a cut.  One construct is
\* excepted: where comments do not nest, the lexer misses the end of one that
\* ends in /*/ and reads on to the next */ (lex.go:337-341).
CutsAreTopLevel == \A d \in Dialects : swallowed[d] \/ Semis(src, d) = ends[d]

=============================================================================
