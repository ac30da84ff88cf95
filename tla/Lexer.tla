-------------------------------- MODULE Lexer --------------------------------
(***************************************************************************)
(* How a text is cut into tokens (internal/database/lex.go).               *)
(*                                                                         *)
(* A text is a sequence of symbols: a character, or a run of letters that  *)
(* stands for a word.  A token is a record of its type, its text where that *)
(* matters, and end, the index of its last symbol.  Comments that begin    *)
(* with /*M! and the operators of two characters are left out.             *)
(***************************************************************************)
EXTENDS Integers, FiniteSets, Sequences, SequencesExt, FiniteSetsExt

(***************************************************************************)
(* The model checker evaluates an argument wherever a definition uses it.  *)
(* Eager evaluates it once, and so does a fold over a sequence with it.    *)
(***************************************************************************)
Eager(v, Op(_)) == CHOOSE r \in {Op(x) : x \in {v}} : TRUE

EagerFold(Op(_, _), base, seq) ==
  Eager(seq, LAMBDA s :
    LET upTo[k \in 0..Len(s)] ==
          IF k = 0 THEN base ELSE Eager(upTo[k - 1], LAMBDA acc : Op(acc, s[k]))
    IN  upTo[Len(s)])

Words == {"x", "begin", "batch", "apply", "insert"}
Digits == {"5"}
Spaces == {" ", "\n"}

WordStarts == Words \cup {"$"}
WordParts == WordStarts \cup Digits

DialectMySQL ==
  [escapes |-> TRUE, nested |-> FALSE, executable |-> TRUE, dashSpace |-> TRUE, cql |-> FALSE]
DialectStandard ==
  [escapes |-> FALSE, nested |-> TRUE, executable |-> FALSE, dashSpace |-> FALSE, cql |-> FALSE]
DialectCQL ==
  [escapes |-> FALSE, nested |-> FALSE, executable |-> FALSE, dashSpace |-> FALSE, cql |-> TRUE]

(***************************************************************************)
(* Where what starts at index i ends: the index behind it.                 *)
(***************************************************************************)
\* The first index of a set, or the one behind the text.
FirstOr(src, S) == IF S = {} THEN Len(src) + 1 ELSE Min(S)

SkipLine(src, i) == FirstOr(src, {j \in i..Len(src) : src[j] = "\n"})

\* Whether the two symbols a and b stand at index i.
PairAt(src, i, a, b) == i < Len(src) /\ src[i] = a /\ src[i + 1] = b

\* Inside a comment that does not nest, a /* is passed over as a whole, so that
\* its * never ends the comment.
SkipBlockComment(src, i, nested) ==
  LET n == Len(src)
      from[j \in 1..(n + 1), depth \in 0..n] ==
        CASE j > n -> n + 1
          [] PairAt(src, j, "/", "*") ->
               from[j + 2, IF nested \/ depth = 0 THEN depth + 1 ELSE depth]
          [] PairAt(src, j, "*", "/") -> IF depth = 1 THEN j + 2 ELSE from[j + 2, depth - 1]
          [] OTHER -> from[j + 1, depth]
  IN  from[i, 0]

\* A doubled quote is a quote, and behind a backslash nothing is.
SkipQuoted(src, i, closing, escapes) ==
  LET from[j \in 1..(Len(src) + 2)] ==
        CASE j > Len(src) -> Len(src) + 1
          [] j <= Len(src) /\ escapes /\ src[j] = "\\" -> from[j + 2]
          [] j <= Len(src) /\ src[j] = closing ->
               IF j < Len(src) /\ src[j + 1] = closing THEN from[j + 2] ELSE j + 1
          [] OTHER -> from[j + 1]
  IN  from[i + 1]

SkipRun(src, i, part) == FirstOr(src, {j \in i..Len(src) : src[j] \notin part})

\* The tag of a dollar-quoted string that begins at i, <<>> when none does.
DollarTag(src, i) ==
  LET end == SkipRun(src, i + 1, Words \cup Digits)
  IN  IF end <= Len(src) /\ src[end] = "$" /\ (end > i + 1 => src[i + 1] \in Words)
      THEN SubSeq(src, i, end) ELSE <<>>

SkipDollarQuoted(src, i, tag) ==
  LET n == Len(tag)
      closes == {j \in (i + n)..(Len(src) - n + 1) : SubSeq(src, j, j + n - 1) = tag}
  IN  IF closes = {} THEN Len(src) + 1 ELSE Min(closes) + n

\* (mutant) -- is a comment in every dialect.
DashAlwaysComment(src, i, d) == TRUE

DashComment(src, i, d) ==
  ~d.dashSpace \/ i + 2 > Len(src) \/ src[i + 2] \in Spaces

\* The body of the executable comment at i, behind its version, and where the
\* comment ends: at the first */, whatever that stands in.
ExecutableBody(src, i) ==
  LET start == SkipRun(src, i + 3, Digits \cup {" "})
      closes == {j \in start..Len(src) : PairAt(src, j, "*", "/")}
  IN  IF closes = {} THEN [text |-> SubSeq(src, start, Len(src)), next |-> Len(src) + 1]
      ELSE [text |-> SubSeq(src, start, Min(closes) - 1), next |-> Min(closes) + 2]

(***************************************************************************)
(* Tokens.                                                                 *)
(***************************************************************************)
Token(type, words, end) == [type |-> type, text |-> words, end |-> end]

\* The tokens of a text.  The body of an executable comment is lexed as a text
\* of its own, and the ends of its tokens are places in that body.
RECURSIVE Lex(_, _)
Lex(src, d) ==
  LET n == Len(src)
      from[i \in 1..(n + 1)] ==
        IF i > n THEN <<>>
        ELSE LET c == src[i]
                 Emit(type, words, next) == <<Token(type, words, next - 1)>> \o from[next]
                 executable == d.executable /\ i + 2 <= n /\ src[i + 2] = "!"
             IN  CASE c = "#" /\ ~d.cql -> from[SkipLine(src, i)]
                   [] d.cql /\ PairAt(src, i, "/", "/") -> from[SkipLine(src, i)]
                   [] c \in {"[", "]", "#"} /\ d.cql -> Emit("punct", c, i + 1)
                   [] PairAt(src, i, "-", "-") /\ DashComment(src, i, d) -> from[SkipLine(src, i)]
                   [] PairAt(src, i, "/", "*") /\ executable ->
                        Eager(ExecutableBody(src, i), LAMBDA b : Lex(b.text, d) \o from[b.next])
                   [] PairAt(src, i, "/", "*") /\ ~executable ->
                        from[SkipBlockComment(src, i, d.nested)]
                   [] c = "'" -> Emit("string", "", SkipQuoted(src, i, "'", d.escapes))
                   [] c = "\"" -> Emit("quoted", "", SkipQuoted(src, i, c, FALSE))
                   [] c = "[" /\ ~d.cql -> Emit("quoted", "", SkipQuoted(src, i, "]", FALSE))
                   [] c = "$" /\ DollarTag(src, i) # <<>> ->
                        Emit("string", "", SkipDollarQuoted(src, i, DollarTag(src, i)))
                   [] c = ";" -> Emit("semi", c, i + 1)
                   [] c \in Digits ->
                        Emit("number", "", SkipRun(src, i, Digits))
                   [] c \in WordStarts /\ (c = "$" => DollarTag(src, i) = <<>>) ->
                        LET next == SkipRun(src, i, WordParts)
                        IN  Emit("word", IF next = i + 1 THEN c ELSE "word", next)
                   [] c \in Spaces -> from[i + 1]
                   [] OTHER -> Emit("punct", c, i + 1)
  IN  from[1]

\* The places of the semicolons that are no part of a string or a comment.
Semis(src, d) ==
  Eager(Lex(src, d), LAMBDA ts : {ts[i].end : i \in {i \in DOMAIN ts : ts[i].type = "semi"}})

\* The statements of a token stream; those without a token are dropped.
SplitStatements(tokens) ==
  LET Step(out, t) ==
        IF t.type = "semi" THEN Append(out, <<>>)
        ELSE [out EXCEPT ![Len(out)] = Append(@, t)]
  IN  SelectSeq(EagerFold(Step, <<<<>>>>, tokens), LAMBDA s : s # <<>>)

=============================================================================
