----------------------------- MODULE RedisCommand -----------------------------
(***************************************************************************)
(* A Redis command as redis-cli writes it: how a line is cut into its      *)
(* arguments, and the classification by the name of the command            *)
(* (internal/database/redis_analyze.go).                                   *)
(*                                                                         *)
(* A line is a sequence of symbols: a word, a character, or x41, which     *)
(* stands for an x and two hexadecimal digits.  An argument is a sequence  *)
(* of symbols, too.  Of every table of commands a few stand for all.       *)
(***************************************************************************)
EXTENDS Permission, Sequences, FiniteSetsExt, SequencesExt

Spaces == {" ", "\n"}

RedisRead == {"get", "scan"}
RedisWriteKey == {"set", "del"}
RedisSession == {"select", "blpop"}
RedisContainers == {"config", "slowlog"}
ReadSubs == {<<"config", "get">>, <<"slowlog", "len">>}
RedisSpecial ==
  [c \in {"keys", "flushall", "eval", "publish"} |->
     CASE c \in {"keys", "eval"} -> Bounded("schema")
       [] c = "flushall" -> Unbounded("write")
       [] c = "publish" -> Bounded("write")]
RedisModuleDDL == {"ft.create"}

\* The names of commands in lower case.
Lower(word) ==
  CASE word = "GET" -> "get" [] word = "CONFIG" -> "config" [] word = "STORE" -> "store"
    [] OTHER -> word

(***************************************************************************)
(* The arguments of a line.                                                *)
(***************************************************************************)
Quotes == {"\"", "'"}

\* What a symbol stands for behind a backslash.
Unescaped(c) ==
  CASE c = "n" -> "\n" [] c = "x41" -> "A" [] OTHER -> c

\* (mutant) a quote that closes ends the argument.
EndOfQuoteCuts(s) == [s EXCEPT !.quote = "none", !.args = Append(@, s.cur), !.cur = <<>>, !.in = FALSE]

EndOfQuote(s) == [s EXCEPT !.quote = "none"]

\* One symbol: quote is "none", the kind of the open quote, or "escape" behind
\* a backslash in double quotes; in tells that an argument has begun.
ParseSymbol(s, c) ==
  CASE s.quote = "none" /\ c \in Spaces ->
         IF s.in THEN [s EXCEPT !.args = Append(@, s.cur), !.cur = <<>>, !.in = FALSE] ELSE s
    [] s.quote = "none" /\ c \in Quotes -> [s EXCEPT !.quote = c, !.in = TRUE]
    [] s.quote = "\"" /\ c = "\\" -> [s EXCEPT !.quote = "escape"]
    [] s.quote = "escape" -> [s EXCEPT !.quote = "\"", !.cur = Append(@, Unescaped(c))]
    [] c \in Quotes /\ s.quote = c -> EndOfQuote(s)
    [] OTHER -> [s EXCEPT !.cur = Append(@, c), !.in = TRUE]

NothingRead == [args |-> <<>>, cur |-> <<>>, in |-> FALSE, quote |-> "none"]

\* What has been read where a line ends.
Parsed(line) ==
  LET upTo[n \in 0..Len(line)] ==
        IF n = 0 THEN NothingRead ELSE ParseSymbol(upTo[n - 1], line[n])
  IN  upTo[Len(line)]

\* The arguments, or none when a quote is left open.
ParseRedisCommand(line) ==
  CASE Parsed(line).quote # "none" -> <<>>
    [] Parsed(line).quote = "none" ->
         IF Parsed(line).in THEN Append(Parsed(line).args, Parsed(line).cur) ELSE Parsed(line).args

\* A semicolon behind the command is no part of it.
WithoutSemicolon(line) ==
  LET code == {i \in DOMAIN line : line[i] \notin Spaces}
      last == Max(code)
  IN  CASE code = {} -> <<>>
        [] code # {} -> SubSeq(line, 1, IF line[last] = ";" THEN last - 1 ELSE last)

(***************************************************************************)
(* The classification.                                                     *)
(***************************************************************************)
\* An argument that is one word, in lower case.
WordOf(arg) == IF Len(arg) = 1 THEN Lower(arg[1]) ELSE ""

AnalyzeRedisContainer(name, args) ==
  IF Len(args) > 1 /\ <<name, WordOf(args[2])>> \in ReadSubs THEN Bounded("read") ELSE Bounded("schema")

AnalyzeRedisSort(name, args) ==
  IF name = "sort" /\ \E i \in 2..Len(args) : WordOf(args[i]) = "store"
  THEN Bounded("write") ELSE Bounded("read")

AnalyzeArguments(args) ==
  LET name == WordOf(args[1])
  IN  CASE args = <<>> -> Refused("unknown")
        [] args # <<>> /\ name \in RedisContainers -> AnalyzeRedisContainer(name, args)
        [] OTHER ->
             CASE name \in RedisRead -> Bounded("read")
               [] name \in RedisWriteKey -> Bounded("write")
               [] name \in RedisSession -> Refused("session")
               [] name \in {"sort", "sort_ro"} -> AnalyzeRedisSort(name, args)
               [] name \in DOMAIN RedisSpecial -> RedisSpecial[name]
               [] name \in RedisModuleDDL -> Bounded("schema")
               [] OTHER -> Unbounded("unknown")

AnalyzeRedis(line) == AnalyzeArguments(ParseRedisCommand(WithoutSemicolon(line)))

\* The permission that lets a command run, Never when none does.
Never == 3
Level(analysis) == IF analysis.refused THEN Never ELSE RequiredPermission(analysis)

-----------------------------------------------------------------------------
(***************************************************************************)
(* The arguments and the gate of RedisCommand against the command a line   *)
(* was written for.                                                        *)
(*                                                                         *)
(* A line is written argument by argument, each in one of the ways         *)
(* redis-cli reads it: bare, quoted, or quoted in part.                    *)
(* It may end in a semicolon, or in the middle of a quote.                 *)
(***************************************************************************)
CONSTANTS
  Commands,   \* records [args, need]
  Arguments,  \* arguments that may follow a command which takes any
  MaxArgs

\* A command has a name, and needs what it would need alone; what may follow it is
\* none of the words the analysis looks for.
ASSUME CommandsAssumption ==
  \A c \in Commands :
    c.args \in Seq(Seq(STRING)) /\ c.args # <<>> /\ c.need = Level(AnalyzeArguments(c.args))

ASSUME ArgumentsAssumption ==
  /\ Arguments \subseteq Seq(STRING)
  /\ \A arg \in Arguments : WordOf(arg) \notin {"store"} \cup {sub[2] : sub \in ReadSubs}

VARIABLES
  line,    \* what has been written
  args,    \* the arguments it was written for
  rest,    \* the arguments of the command still to write
  need,    \* the level it calls for, Never when no level lets it run
  ended    \* nothing follows

vars == <<line, args, rest, need, ended>>

Init ==
  \E c \in Commands :
    line = <<>> /\ args = <<>> /\ rest = c.args /\ need = c.need /\ ended = FALSE

Specials == Spaces \cup Quotes \cup {"\\", ";"}

\* A symbol in double quotes.
Escape(c) ==
  CASE c \in {"\"", "\\"} -> <<"\\", c>>
    [] c = "\n" -> <<"\\", "n">>
    [] c = "A" -> <<"\\", "x41">>
    [] OTHER -> <<c>>

Escaped(arg) == FlattenSeq([i \in DOMAIN arg |-> Escape(arg[i])])
Bare(arg) == \A i \in DOMAIN arg : arg[i] \notin Specials

Quoted(arg) ==
  {<<"\"">> \o Escaped(arg) \o <<"\"">>}
    \cup (IF \A i \in DOMAIN arg : arg[i] # "'" THEN {<<"'">> \o arg \o <<"'">>} ELSE {})

\* The ways to write an argument.
Forms(arg) ==
  Quoted(arg)
    \cup (IF arg # <<>> /\ Bare(arg) THEN {arg} ELSE {})
    \cup (IF arg # <<>> /\ arg[1] \notin Specials
          THEN {<<arg[1]>> \o q : q \in Quoted(Tail(arg))} ELSE {})
    \cup (IF Len(arg) > 1 /\ Bare(Tail(arg))
          THEN {q \o Tail(arg) : q \in Quoted(<<arg[1]>>)} ELSE {})

Write(arg) ==
  /\ \E form \in Forms(arg) : \E gap \in {<<" ">>, <<" ", " ">>} :
       line' = line \o (IF line = <<>> THEN <<>> ELSE gap) \o form
  /\ args' = Append(args, arg)

\* The next argument of the command.
Continue ==
  /\ ~ended /\ rest # <<>>
  /\ Write(Head(rest))
  /\ rest' = Tail(rest)
  /\ UNCHANGED <<need, ended>>

OneMore ==
  /\ ~ended /\ rest = <<>> /\ Len(args) < MaxArgs
  /\ \E arg \in Arguments : Write(arg)
  /\ UNCHANGED <<rest, need, ended>>

Semicolon ==
  /\ ~ended /\ rest = <<>>
  /\ line' = line \o <<";">>
  /\ ended' = TRUE
  /\ UNCHANGED <<args, rest, need>>

\* A quote that is never closed.
OpenQuote ==
  /\ ~ended /\ rest = <<>>
  /\ \E q \in {"\"", "'"} : line' = line \o <<" ", q, "k">>
  /\ args' = <<>>
  /\ need' = Never
  /\ ended' = TRUE
  /\ UNCHANGED rest

Next == Continue \/ OneMore \/ Semicolon \/ OpenQuote

Spec == Init /\ [][Next]_vars

-----------------------------------------------------------------------------
(* Properties. *)

\* However its arguments are quoted, a line is cut into the arguments it was
\* written for, the semicolon behind it aside, and one with an open quote into
\* none (redis_analyze.go:97-207).
ParsesAsMeant == ParseRedisCommand(WithoutSemicolon(line)) = args

\* The gate asks for what the command needs: neither quoting, case, nor the
\* arguments around a subcommand or a STORE hide or feign it
\* (redis_analyze.go:209-248, :291-334).
GatedByCommand == rest = <<>> => Level(AnalyzeRedis(line)) = need

\* Both (redis_analyze.go:97-248, :291-334).
RedisAsMeant == ParsesAsMeant /\ GatedByCommand

=============================================================================
