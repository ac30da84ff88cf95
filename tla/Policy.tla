-------------------------------- MODULE Policy --------------------------------
(***************************************************************************)
(* The policy layer (internal/service/service.go) and the tools of an MCP  *)
(* endpoint that call it (internal/mcpserver/mcpserver.go).                *)
(*                                                                         *)
(* An endpoint has a scope: a cap, the connections it shows and a limit    *)
(* for answers.  A call is resolved and authorised in one go; then its     *)
(* backend is opened, which takes time and may fail, and it runs.  What    *)
(* the analysis says of a statement is a constant here: Statement, Cql,    *)
(* RedisCommand and MongoCommand define it, and how far a statement        *)
(* changes a database is what it needs by that analysis.                   *)
(*                                                                         *)
(* Rows and the characters of a value are limited in the same way; one     *)
(* limit stands for both.  Timeouts, the dialect of an export and the tool *)
(* that only lists connections are left out.                               *)
(***************************************************************************)
EXTENDS Permission, FiniteSets

CONSTANTS
  Client,
  Connection,
  Name,          \* what a caller may write for a connection
  Unnamed,       \* nothing
  Endpoint,
  Local,         \* the endpoints that are no MCP server but the shell
  Language,      \* of a connection: "sql", "cql", "mongodb", "redis"
  Grant,         \* the permission of a connection
  Cap,           \* of an endpoint, NoCap when none is configured
  NoCap,
  Allow,         \* the connections an endpoint lists, none for all
  Exports,       \* the endpoints with a store for exports
  MaxRows,       \* the limit of an endpoint: 0 for the default, negative for none
  DefaultMaxRows,
  MaxExportRows,
  Statement,
  Empty,         \* the empty text
  Verdict,       \* what the analysis says of a statement in a language
  Requests       \* the limits a caller may ask for

Languages == {"sql", "cql", "mongodb", "redis"}

ASSUME PolicyAssumption ==
  /\ Connection \subseteq Name
  /\ Unnamed \in Name \ Connection
  /\ Local \subseteq Endpoint
  /\ Language \in [Connection -> Languages]
  /\ Grant \in [Connection -> Permissions]
  /\ NoCap \notin Permissions
  /\ Cap \in [Endpoint -> Permissions \cup {NoCap}]
  /\ Allow \in [Endpoint -> SUBSET Name]
  /\ MaxRows \in [Endpoint -> Int]
  /\ DefaultMaxRows \in Nat \ {0}
  /\ MaxExportRows \in Nat \ {0}
  /\ Requests \subseteq Int
  /\ Empty \notin Statement
  /\ Verdict \in [Languages -> [Statement -> Analyses]]

VARIABLES
  offered,  \* the tools registered with each endpoint
  call,     \* of each client: past the gate and not yet run
  answer,   \* of each client: the last it got
  touched   \* how far calls of each endpoint have changed each connection

vars == <<offered, call, answer, touched>>

(***************************************************************************)
(* Scopes.                                                                 *)
(***************************************************************************)
Visible(e, name) == Allow[e] = {} \/ name \in Allow[e]

Ceiling == [e \in Endpoint |-> IF Cap[e] = NoCap THEN PermissionFull ELSE Cap[e]]

\* The connections an endpoint shows.
Shows(e, c) == c \in Connection /\ Visible(e, c)

Effective(e, c) == LeastPermissive(Grant[c], Ceiling[e])

\* (mutant) the cap alone decides.
CanWriteByCap(e) == CanWrite(Ceiling[e])

\* Service.CanWrite.
CanWriteIn(e) ==
  CanWrite(Ceiling[e]) /\ \E c \in Connection : Shows(e, c) /\ CanWrite(Effective(e, c))

\* (mutant) a negative request lifts the cap.
LiftedLimit(requested, ceiling) ==
  IF requested < 0 THEN requested ELSE ceiling

CappedLimit(requested, ceiling) ==
  LET cap == IF ceiling = 0 THEN DefaultMaxRows ELSE ceiling
  IN  IF cap < 0
      THEN IF requested = 0 THEN cap ELSE requested
      ELSE IF requested <= 0 \/ requested > cap THEN cap ELSE requested

(***************************************************************************)
(* Tools.                                                                  *)
(***************************************************************************)
Inspections == {"list_tables", "describe_table", "schema_context"}
ReadTools == Inspections \cup {"query", "export"}
Tools == ReadTools \cup {"execute"}

\* registerTools; the shell runs its statements without any tool.
Offered(e) ==
  IF e \in Local THEN {"execute"}
  ELSE Inspections \cup {"query"}
         \cup (IF e \in Exports THEN {"export"} ELSE {})
         \cup (IF CanWriteIn(e) THEN {"execute"} ELSE {})

\* The rows an answer of the query tool may have, as the instructions of the
\* endpoint say: none stands for no limit.
Announced(e) ==
  IF MaxRows[e] = 0 THEN {DefaultMaxRows} ELSE {n \in {MaxRows[e]} : n > 0}

\* The rows of an answer that a call may have: negative for all.
LimitFor(e, tool, requested) ==
  IF tool \in Inspections THEN -1
  ELSE IF tool = "export" THEN MaxExportRows
  ELSE IF tool = "query" THEN CappedLimit(requested, MaxRows[e])
  ELSE CappedLimit(IF e \in Local THEN MaxRows[e] ELSE 0, MaxRows[e])

Reading(tool) == tool \in {"query", "export"}

\* (mutant) the query tool runs what the connection allows.
PermissionToWrite(e, tool, c) == Effective(e, c)

\* (mutant) the cap of the endpoint is forgotten.
PermissionWithoutCap(e, tool, c) ==
  IF Reading(tool) THEN LeastPermissive(Grant[c], PermissionReadOnly) ELSE Grant[c]

\* The permission a call is authorised with.
PermissionFor(e, tool, c) ==
  IF Reading(tool) THEN LeastPermissive(Effective(e, c), PermissionReadOnly) ELSE Effective(e, c)

\* Execute and ExportInserts, once they know that the connection is shown.
Checked(e, tool, c, stmt) ==
  CASE tool \in Inspections -> "ok"
    [] tool \notin Inspections /\ stmt = Empty -> "required"
    [] tool = "export" /\ stmt # Empty /\ Language[c] # "sql" -> "language"
    [] OTHER -> Authorize(Verdict[Language[c]][stmt], PermissionFor(e, tool, c))

\* Service.resolve, and Manager.entry below it.
Resolve(e, name) ==
  CASE Shows(e, name) -> "ok"
    [] name \in Connection /\ ~Visible(e, name) -> "hidden"
    [] name = Unnamed -> "unnamed"
    [] OTHER -> "unconfigured"

\* (mutant) whether a connection is shown is asked last.
GateLate(e, tool, name, stmt) ==
  IF name \in Connection /\ Checked(e, tool, name, stmt) # "ok"
  THEN Checked(e, tool, name, stmt)
  ELSE Resolve(e, name)

\* What the service says before it opens the connection.
Gate(e, tool, name, stmt) ==
  IF Shows(e, name) THEN Checked(e, tool, name, stmt) ELSE Resolve(e, name)

\* The connections an answer names, besides the one it was asked for: the manager
\* lists what is configured, the service names nothing.
Named(outcome) == IF outcome \in {"unnamed", "unconfigured"} THEN Connection ELSE {}

\* How far a call changes its connection.
Effect(r) ==
  IF r.tool \in Inspections THEN PermissionReadOnly
  ELSE RequiredPermission(Verdict[Language[r.name]][r.stmt])

(***************************************************************************)
(* The specification.                                                      *)
(***************************************************************************)
Idle == [tool |-> "none"]

Calls ==
  [endpoint : Endpoint, tool : Tools, name : Connection, stmt : Statement \cup {Empty}, limit : Int]

Unresolved == {"unnamed", "unconfigured", "hidden"}
Outcomes == Unresolved \cup {"required", "language", "refused", "denied", "ok", "failed"}
Answers == [endpoint : Endpoint, name : Name, outcome : Outcomes, names : SUBSET Connection]

Answer(e, name, outcome) ==
  [endpoint |-> e, name |-> name, outcome |-> outcome, names |-> Named(outcome)]

Init ==
  /\ offered = [e \in Endpoint |-> Offered(e)]
  /\ call = [cl \in Client |-> Idle]
  /\ answer = [cl \in Client |-> Idle]
  /\ touched = [e \in Endpoint |-> [c \in Connection |-> PermissionReadOnly]]

\* A client calls a tool; the answer is a refusal, or the call goes on.
Submit(cl, e, tool, name, stmt, requested) ==
  /\ call[cl] = Idle
  /\ tool \in offered[e]
  /\ LET verdict == Gate(e, tool, name, stmt)
     IN  IF verdict = "ok"
         THEN /\ call' = [call EXCEPT ![cl] =
                   [endpoint |-> e, tool |-> tool, name |-> name, stmt |-> stmt,
                    limit |-> LimitFor(e, tool, requested)]]
              /\ answer' = [answer EXCEPT ![cl] = Idle]
         ELSE /\ answer' = [answer EXCEPT ![cl] = Answer(e, name, verdict)]
              /\ UNCHANGED call
  /\ UNCHANGED <<offered, touched>>

Touch(r) ==
  touched' = [touched EXCEPT ![r.endpoint][r.name] = IF Effect(r) > @ THEN Effect(r) ELSE @]

Finish(cl, outcome) ==
  /\ answer' = [answer EXCEPT ![cl] = Answer(call[cl].endpoint, call[cl].name, outcome)]
  /\ call' = [call EXCEPT ![cl] = Idle]
  /\ UNCHANGED offered

\* The backend is there, and the call runs.
Run(cl) ==
  /\ call[cl] # Idle
  /\ Touch(call[cl])
  /\ Finish(cl, "ok")

\* It cannot be opened, or the call fails before or after its effect.
Fail(cl) ==
  /\ call[cl] # Idle
  /\ Touch(call[cl]) \/ UNCHANGED touched
  /\ Finish(cl, "failed")

\* An inspection takes no statement, and only a query takes a limit.
StatementsOf(tool) == IF tool \in Inspections THEN {Empty} ELSE Statement \cup {Empty}
RequestsOf(tool) == IF tool = "query" THEN Requests ELSE {0}

Next ==
  \E cl \in Client :
    \/ \E e \in Endpoint, tool \in Tools, name \in Name :
         \E stmt \in StatementsOf(tool), requested \in RequestsOf(tool) :
           Submit(cl, e, tool, name, stmt, requested)
    \/ Run(cl)
    \/ Fail(cl)

Spec == Init /\ [][Next]_vars

-----------------------------------------------------------------------------
(* Properties. *)

TypeOK ==
  /\ offered \in [Endpoint -> SUBSET Tools]
  /\ call \in [Client -> Calls \cup {Idle}]
  /\ answer \in [Client -> Answers \cup {Idle}]
  /\ touched \in [Endpoint -> [Connection -> Permissions]]

\* An endpoint changes no connection further than the grant of the connection
\* and its own cap allow, and none it does not show, whatever calls of whatever
\* clients came before (service.go:36-39, :122-139, :391-397).
TouchedWithinGrants ==
  \A e \in Endpoint, c \in Connection :
    touched[e][c] # PermissionReadOnly =>
      Shows(e, c) /\ touched[e][c] <= Grant[c] /\ touched[e][c] <= Ceiling[e]

\* A call of a tool that is announced as reading changes nothing, whatever the
\* permission of its connection: "Writes and DDL are always refused here
\* regardless of the connection's permission" (mcpserver.go:464-465).
ReadToolsChangeNothing ==
  [][\A cl \in Client :
       call[cl] # Idle /\ call[cl].tool \in ReadTools /\ call'[cl] = Idle => UNCHANGED touched]_vars

\* Whatever is changed was allowed, by the connection, an endpoint and the tool.
ChangesAreAllowed == []TouchedWithinGrants /\ ReadToolsChangeNothing

\* The connections an answer tells of although its endpoint does not show them.
Told(a) == {c \in a.names : ~Shows(a.endpoint, c)}

\* What a client reads of an answer besides the name it has asked for: a connection
\* that is hidden and one that is not configured are both "unknown connection".
Reads(a) == <<IF a.outcome \in {"hidden", "unconfigured"} THEN "unknown" ELSE a.outcome, a.names>>

\* "Reported as unknown rather than forbidden so a restricted caller cannot
\* enumerate connections it is not allowed to see" (service.go:131-132), as far as
\* that holds.  A call for a connection that its endpoint does not show gets no
\* further, whatever the tool and the statement, and its answer tells of no other.
\* But a name that is not configured is answered with the names of all that are,
\* hidden or not (manager.go:145-153), and so reads differently from a hidden one.
UnseenIsUnknown ==
  \A cl \in Client :
    /\ call[cl] # Idle => Shows(call[cl].endpoint, call[cl].name)
    /\ answer[cl] # Idle =>
         /\ answer[cl].outcome \in Unresolved <=> ~Shows(answer[cl].endpoint, answer[cl].name)
         /\ Told(answer[cl]) # {} => answer[cl].name \notin Connection
    /\ \A other \in Client :
         LET a == answer[cl]
             b == answer[other]
         IN  a # Idle /\ b # Idle /\ a.outcome \in Unresolved /\ b.outcome \in Unresolved =>
               (Reads(a) = Reads(b) <=>
                  \/ a.name \in Connection /\ b.name \in Connection
                  \/ a.name = Unnamed /\ b.name = Unnamed
                  \/ {a.name, b.name} \cap (Connection \cup {Unnamed}) = {})

\* A query never answers with more rows than the instructions of its endpoint
\* announce (mcpserver.go:157-181, service.go:474-494).
LimitsAsAnnounced ==
  \A cl \in Client :
    call[cl] # Idle /\ call[cl].tool = "query" =>
      \A n \in Announced(call[cl].endpoint) : call[cl].limit \in 1..n

\* The tool for writes is registered exactly where some write could pass the
\* gate (mcpserver.go:558-565, service.go:52-67).
WriteToolCanSucceed ==
  \A e \in Endpoint \ Local :
    "execute" \in offered[e] <=>
      \E c \in Connection, a \in Analyses :
        Shows(e, c) /\ a.kind # "read" /\ Authorize(a, Effective(e, c)) = "ok"

\* What the operator is promised.
Access == INSTANCE AccessPolicy

Implements == Access!Spec

=============================================================================
