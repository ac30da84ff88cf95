------------------------------ MODULE Statement ------------------------------
(***************************************************************************)
(* The classification of one SQL statement (internal/database/classify.go):*)
(* what kind of work it does and whether its reach is limited.             *)
(*                                                                         *)
(* A statement is the sequence of its tokens, as in Predicate.  A loop of  *)
(* the code that returns at the first token of interest is written with    *)
(* the least index that has the interest.                                  *)
(***************************************************************************)
EXTENDS Predicate, Permission

ReadVerbs ==
  {"select", "show", "describe", "desc", "values", "table", "pragma", "explain"}
WriteVerbs == {"insert", "update", "delete", "merge", "upsert", "replace"}
SchemaVerbs ==
  {"create", "drop", "alter", "truncate", "rename", "grant", "revoke",
   "comment", "vacuum", "analyze", "reindex", "cluster", "refresh", "attach",
   "detach", "call", "do", "exec", "execute", "copy", "load", "import",
   "export", "backup", "restore", "shutdown", "kill", "install", "checkpoint"}
SessionVerbs ==
  {"begin", "start", "commit", "rollback", "savepoint", "release", "end",
   "use", "set", "reset", "discard", "lock", "unlock", "prepare",
   "deallocate", "declare", "fetch", "close", "move", "listen", "unlisten",
   "notify"}

VerbKind(word) ==
  CASE word \in ReadVerbs -> "read"
    [] word \in WriteVerbs -> "write"
    [] word \in SchemaVerbs -> "schema"
    [] word \in SessionVerbs -> "session"
    [] OTHER -> "unknown"

(***************************************************************************)
(* EXPLAIN.                                                                *)
(***************************************************************************)
ExplainOptions ==
  {"analyze", "analyse", "verbose", "costs", "buffers", "timing", "summary",
   "format", "plan", "for", "extended", "partitions"}

\* What is left behind the options, in words or in parentheses.
StripExplain(ts) ==
  LET rest == Tail(ts)
      start == {i \in DOMAIN rest : Depth(rest, i) = 0 /\ rest[i] \notin ExplainOptions \cup {"("}}
  IN  IF start = {} THEN <<>> ELSE SubSeq(rest, Min(start), Len(rest))

(***************************************************************************)
(* Reads.                                                                  *)
(***************************************************************************)
LockingModes == {"update", "share", "key", "no"}

\* Some of the functions of externalTableFuncs.
ExternalTableFuncs == {"file", "url", "remote", "executable", "read_csv", "glob", "getenv"}

ExternalRead(ts, i) ==
  \/ ts[i] \in Strings /\ i > 1 /\ ts[i - 1] \in {"from", "join"}
  \/ ts[i] \in ExternalTableFuncs /\ i < Len(ts) /\ ts[i + 1] = "("

\* What token i of a read turns it into.
ReadTurn(ts, i) ==
  CASE ExternalRead(ts, i) -> "schema"
    [] ts[i] = "for" /\ i < Len(ts) /\ ts[i + 1] \in LockingModes -> "write"
    [] ts[i] = "into" /\ Depth(ts, i) = 0 /\ i < Len(ts) /\ IsWord(ts[i + 1]) -> "schema"
    [] OTHER -> "read"

AnalyzeRead(ts) ==
  LET turns == {i \in DOMAIN ts : ReadTurn(ts, i) # "read"}
  IN  Bounded(IF turns = {} THEN "read" ELSE ReadTurn(ts, Min(turns)))

\* Some of the pragmas that read, in call form and alone.
PragmaQueries == {"table_info", "index_list", "integrity_check"}
PragmaReadable == {"journal_mode", "foreign_keys", "integrity_check"}

AnalyzePragma(ts) ==
  LET argument == {i \in 2..Len(ts) : ts[i] \in {"=", "("}}
      end == IF argument = {} THEN Len(ts) ELSE Min(argument) - 1
      words == {i \in 2..end : IsWord(ts[i])}
      name == IF words = {} THEN "" ELSE ts[Max(words)]
  IN  CASE argument # {} ->
             IF ts[Min(argument)] = "(" /\ name \in PragmaQueries
             THEN Bounded("read") ELSE Refused("session")
        [] argument = {} /\ name \in PragmaReadable \cup PragmaQueries -> Bounded("read")
        [] OTHER -> Bounded("schema")

(***************************************************************************)
(* Writes.                                                                 *)
(***************************************************************************)
\* Token i starts the query an INSERT takes its rows from: no VALUES before it.
QuerySource(ts, i) ==
  /\ ts[i] \in {"select", "with", "table"}
  /\ \A j \in 1..(i - 1) : ~(ts[j] = "values" /\ Depth(ts, j) = 0)

AnalyzeInsert(ts) ==
  LET clause(i) ==
        /\ Depth(ts, i) = 0
        /\ \/ ts[i] \in {"function", "overwrite", "duplicate", "replace"}
           \/ ts[i] = "conflict" /\ \E j \in i..Len(ts) : ts[j] = "update"
      found == {i \in DOMAIN ts : QuerySource(ts, i) \/ clause(i)}
  IN  CASE found = {} -> Bounded("write")
        [] found # {} /\ ts[Min(found)] = "function" -> Bounded("schema")
        [] OTHER -> Unbounded("write")

TopLevel(ts, words) == {i \in DOMAIN ts : Depth(ts, i) = 0 /\ ts[i] \in words}

JoinsTables(ts) ==
  TopLevel(ts, {"join", "using"} \cup IF ts[1] = "update" THEN {"from"} ELSE {}) # {}

AnalyzeUpdateDelete(ts) ==
  LET where == TopLevel(ts, {"where"})
  IN  IF \/ JoinsTables(ts)
         \/ where = {}
         \/ PredicateIsUnbounded(After(ts, Max(where)))
      THEN Unbounded("write")
      ELSE Bounded("write")

AnalyzeWrite(ts) ==
  CASE ts[1] = "insert" -> AnalyzeInsert(ts)
    [] ts[1] \in {"update", "delete"} -> AnalyzeUpdateDelete(ts)
    [] OTHER -> Unbounded("write")

(***************************************************************************)
(* WITH: the writes in its bodies and behind them.                         *)
(***************************************************************************)
AnalyzeCTE(ts) ==
  LET starts == {i \in 2..Len(ts) :
                   /\ ts[i - 1] \in {"(", ")", ","}
                   /\ VerbKind(ts[i]) \in {"write", "schema", "session"}}
      kinds == {VerbKind(ts[i]) : i \in starts}
      unbounded == \E i \in starts :
                     /\ VerbKind(ts[i]) = "write"
                     /\ AnalyzeWrite(SubSeq(ts, i, Len(ts))).unbounded
  IN  CASE starts = {} -> AnalyzeRead(ts)
        [] "session" \in kinds -> Refused("session")
        [] OTHER -> [kind |-> IF "schema" \in kinds THEN "schema" ELSE "write",
                     unbounded |-> unbounded, refused |-> FALSE]

(***************************************************************************)
(* A statement, and the text it came from.                                 *)
(***************************************************************************)
AnalyzeVerb(ts) ==
  LET kind == VerbKind(ts[1])
  IN  CASE ts[1] = "with" -> AnalyzeCTE(ts)
        [] kind = "unknown" /\ ts[1] # "with" -> Unbounded("unknown")
        [] kind = "read" -> IF ts[1] = "pragma" THEN AnalyzePragma(ts) ELSE AnalyzeRead(ts)
        [] kind = "write" -> AnalyzeWrite(ts)
        [] kind = "session" -> Refused("session")
        [] kind = "schema" -> Bounded("schema")

AnalyzeStatement(ts) ==
  LET explained == IF ts[1] = "explain" THEN StripExplain(ts) ELSE ts
  IN  IF explained = <<>> THEN Bounded("read") ELSE AnalyzeVerb(explained)

\* The statements one dialect reads in the text: exactly one is analysed.
AnalyzeDialect(statements) ==
  IF Len(statements) = 1 THEN AnalyzeStatement(statements[1]) ELSE Refused("unknown")

\* The worse of the two readings of a text.
Worse(a, b) == IF Severity(b) > Severity(a) THEN b ELSE a

Analyze(mysql, standard) == Worse(AnalyzeDialect(mysql), AnalyzeDialect(standard))

=============================================================================
