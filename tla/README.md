# dbq in TLA+

Specifications of dbq (`../src`), a server and shell through which language
models and people query databases: what its parts promise, how they keep the
promise, and machine checks that they do. TLC checks each model on small
instances; TLAPS proves the theorems for every value of the constants.

## 1. The system

One process runs in one of three ways: an HTTP server with MCP endpoints
(`cmd/dbq`, `internal/cli/server.go`), an MCP server on stdin/stdout
(`cli/mcp.go`), or an interactive shell (`cli/repl.go`). All of them go through
the same layers:

    client -> mcpserver (tools) -> service (policy) -> database (manager, analysis, backends)
                     \-> artifact (export store) -> download over HTTP

| Part | State | Operations | What makes it correct |
|---|---|---|---|
| `artifact/store.go` export store | entries, byte and file counters, slots, WaitGroup, files on disk | Create, ServeHTTP, janitor, Close, NewStore | limits hold, no stray file, a link works exactly as long as it should, Close leaves nothing and returns |
| `database/manager.go` connection manager | one lazily opened backend per connection, each behind its own mutex | Backend, Ping, Close | at most one backend per connection, a failed open can be retried, Close releases every pool, one slow database does not block the others |
| `service/service.go` policy layer | scopes (visible connections, permission ceiling) | Execute, ExportInserts, listings, Health | nothing runs that needs more than the lower of connection and endpoint permission; caps cannot be raised by the caller; Health always answers |
| `database/permission.go`, `classify.go`, `predicate.go` | none | from a script to the permission it needs | a script needs as much as its worst statement; a write without a real restriction is unbounded; what is not understood needs the most |
| `database/lex.go`, `split*.go` | none | tokens and statements of a script | the statements are those the server would see |
| `cql_analyze.go`, `redis_analyze.go`, `mongo_analyze.go` | none | the same for CQL, Redis commands, MongoDB commands | as above |
| `database/query.go`, `export.go`, `format.go` | position in a result stream | scan rows up to a cap, stream INSERT batches | the cap and the "truncated" flag are exact; every row is exported exactly once; a failure is reported and never looks complete |
| `database/db.go`, `backend.go` | pool limits, registry | merge defaults, open and ping | the pool a driver gets is the configured one |
| `redis.go`, `mongodb.go`, `cassandra.go`, `introspect.go` | a driver's cursors | listing, describing, executing | listings end and are complete |
| `config/config.go` | configuration | Validate, ResolvedEndpoints, ConnectionDefs | no endpoint shadows another, writing is asked for explicitly |
| `mcpserver/mcpserver.go` | tools per endpoint | register and serve tools | a tool offered is a tool that can work |
| `server/server.go`, `cli/server.go` | listener, lifecycle | New, Start, health, shutdown | everything opened is closed, in an order that works |
| `input/input.go`, `cli/repl.go` | line buffer, running query | read, run, interrupt | an interrupt cancels the query and not the shell |

Interactions: handlers run concurrently, one goroutine per request; they share
the manager's entries (a mutex each), the pools inside them, and the export
store (one mutex, a channel of slots, a WaitGroup). Health and the startup check
start one goroutine per connection. Shutdown cancels the server's context, waits
for the HTTP server, and closes the manager and the export store. Export
directories may be shared with other processes and survive the process.

What is hard: calls that check under a lock, work without it and commit under
it again; deferred clean-up from many early returns; a close that races with
calls that are being admitted; lazily opened connections with failures, retries
and timeouts; an answer that arrives after its deadline; results that end early;
and an analysis that must err on one side only. Section `hazards` of
`PROJECT.json` lists each at its line.

## 2. The modules

| Module | What it is |
|---|---|
| `ExportCapability` | abstract: what the holder of a download link is promised |
| `ExportStore` | the store of `artifact/store.go` |
| `ExportStoreProofs` | theorems: types, counters, limits, draining, files, Close, the refinement of `ExportCapability` |
| `ConnManager` | the manager of `database/manager.go` and the goroutines that use it |
| `ServerLifecycle` | extends `ConnManager`: `dbq server` from start to exit, health probes, shutdown |
| `ServerLifecycleProofs` | theorems: types of the manager, one pool for each connection; the order of opening and closing |
| `WholeAnswer` | abstract: what somebody who asks a database is promised |
| `RowCursor` | external: the rows of a query as database/sql hands them out |
| `QueryScan` | extends `RowCursor`: a statement with its row limit (`database/query.go`) |
| `InsertExport` | extends `RowCursor`: batched INSERT statements (`database/export.go`) |
| `InsertExportProofs` | theorems: types, statements and counts, the refinement of `WholeAnswer` |
| `Permission` | permissions, kinds of work, the gate of `database/permission.go` |
| `Predicate`, `PredicateCheck` | when a WHERE clause limits a statement (`predicate.go`); predicates grown with the rows they match |
| `Statement`, `StatementCheck` | classification of an SQL statement (`classify.go`); statements wrapped and combined with the level they need |
| `Lexer`, `LexCheck` | tokens of a text (`lex.go`); a reader that never looks ahead |
| `Splitter`, `Shell` | the statements of buffered input in four languages (`split*.go`); the loop that reads and runs them (`input.go`) |
| `Cql`, `RedisCommand`, `MongoCommand` | the analyses of `*_analyze.go`; texts built with the level they need |
| `Commands` | the three of them side by side, with the assumptions and properties of each |
| `CommandsProofs` | theorems: a Redis line is read as it was written; MongoDB commands are gated at least as their reach calls for, but for null where the analysis overlooks it; CQL texts exactly |
| `AccessPolicy` | abstract: what an operator is promised of the data behind a connection |
| `Policy` | scopes, gate, limits and tools (`service.go`, `mcpserver.go`) |
| `PolicyProofs` | theorems about `Policy`, the refinement of `AccessPolicy` |
| `SchemaContext` | describing many tables while the database changes (`service.go`, `introspect.go`) |
| `MongoScan`, `CassandraScan` | extend `RowCursor`: reading answers of MongoDB and Cassandra |
| `MongoDocuments` | documents as a table, fields inferred from a sample (`mongodb.go`) |
| `KeyListing` | listing the keys of a Redis (`redis.go`) |
| `Backends` | the six modules about what a backend makes of an answer, side by side: `QueryScan` and the five above it |
| `BackendsProofs` | theorems about all of them, and that the three that read rows refine `WholeAnswer` |
| `Configuration` | connections and endpoints as resolved, mounted, selected (`config.go`, `cli`, `server.go`) |
| `PoolSettings` | merging and translating the settings of a pool (`db.go`) |
| `ConfigurationProofs` | theorems about `PoolSettings` and `Configuration` |
| `MCExportStore`, `MCConnManager`, `MCServerLifecycle`, `MCPolicy` | instances of one module each for TLC |
| `MCSql` | instances of `InsertExport`, `PredicateCheck`, `StatementCheck`, `LexCheck` and, for SQL and CQL scripts, `Shell` |
| `MCCommands` | instances of the parts of `Commands` |
| `MCBackends` | instances of the parts of `Backends` and, for Redis and MongoDB, of `Shell` |
| `MCConfiguration` | instances of `PoolSettings` and `Configuration` |

The last four check several modules that share no state in one run. A behaviour
of such a run is one of a single part: the variable `part` says at the start
which, the variables of the others keep one initial value, and every property
speaks of the part it is about. What is gained is that parts about one question
stand side by side; nothing is composed.

How they meet: `ServerLifecycle` composes the manager with requests, probes and
the export store, of which it keeps only what ties it to the others (`closed`,
`active.Add`, `active.Wait`). `InsertExport` is what runs between `OpenTemp` and
`EndWrite` of `ExportStore`. `ExportStore` assumes that such a callback returns:
`ExportComesBack` says that it does once it has its pool, and
`PoolsOpenWhileServing` that in a server it has one. `Predicate` is what
`Statement` asks about conditions; `Cql` classifies with `Statement`, `Splitter`
cuts with `Lexer`, `Shell` runs what `Splitter` cuts. `Policy` takes what an
analysis says of a statement as a constant: any analysis at all, so that its
theorems do not rest on one. `Configuration` says where the scopes of `Policy`
come from.

Definitions marked `(mutant)` are not part of a specification. Each is a variant
of the definition below it, with a mistake somebody could make in that code; the
property it is listed with in `PROJECT.json` then fails.

### ExportStore

The model keeps the fields of `Store` that `mu` protects (`entries`,
`totalBytes`, `creating`, `reserved`; `closed` and `stop` are the state of
`closer`), the capacity of `slots` in use, the count of the WaitGroup `active`,
and for every artifact the state of its file (`disk`: none, `partial`, `final`).
One `Call` is one call of Create and at the same time the random ID it draws:
24 random bytes are taken not to collide.

Each critical section under `mu` is one action, each file operation outside it
another, and each deferred function one more, in the order Go runs them:

| Action | Code (`store.go`) |
|---|---|
| `Begin`, `AcquireSlot`, `GiveUp` | the select at 123-130 |
| `RejectClosed`, `Admit`, `Refuse` | 131-147: closed, sweep, capacity, reservation |
| `OpenTemp`, `Write`, `EndWrite`, `Rename` | 155-189, each with its failures |
| `Stamp`, `Publish` | 191-203: the deadline is read off the clock *before* the lock |
| `RemoveTemp`, `Unreserve`, `Leave`, `ReleaseSlot` | the deferred functions of 167, 148, 138, 125 |
| `Lookup`, `OpenFile` | ServeHTTP, under the lock and after it |
| `Sweep`, `JanitorExit` | runJanitor |
| `CloseFlag` .. `RemoveRoot` | Close, one action per thing it waits for |
| `Exit`, `Start`, `StartOther` | the end of the process, NewStore with removeOrphans, NewStore of another process on the same directory |

`os.Remove` may fail when `RemovalMayFail`; such a file goes to `stuck`, a
variable the program does not have: it only remembers the files for which the
promise of a clean directory cannot be kept.

Left out: file names and digests, HTTP headers and the method check, reading a
file while it is being downloaded (after `http.ServeFile` has opened it).

### ConnManager

A task is a goroutine that needs a connection once; `state` says how far it is.

| Action | Code |
|---|---|
| `Begin` | a request or a ping calls Backend |
| `Reuse`, `StartOpen` | `manager.go:168-174`: the lock of the entry, which does not look at the context, then an existing backend or a new one |
| `OpenSucceeds`, `OpenFails` | the rest of Backend, still under the lock: an entry stays nil when the open fails, so the next task tries again |
| `Acquire`, `GiveUp` | the pool of database/sql, with `PoolSize` connections |
| `Answer` | the statement or the ping itself |
| `Expire`, `Cancel` | the deadline, the client |
| `StartClose`, `LockToClose`, `CloseConn` | Close: for every name in order the lock, `backend.Close`, nil |
| `Hang` | a database stops answering, for good |

Which deadline covers what is part of the model: a ping or a listing has its
deadline when it calls Backend (`Early`); a statement gets one only in the
driver's Execute. `live` is a variable the program does not have: the pools
opened and not closed, also those an entry no longer knows. `Patient` are the
connections whose Close waits for what is in use, as MongoDB's does.

### ServerLifecycle

| Action | Code |
|---|---|
| `StartCheck`, `CheckPassed`, `CheckFailed` | `cli/server.go`: all connections are pinged before the port is opened |
| `Stop`, `Stopped` | the signal; StartWithContext returns when requests are done, or with `overrun` when the shutdown timeout has passed first |
| `ExportsDrained`, `ClosePools`, `Leave` | the deferred functions, innermost first: export store, then manager |
| `StartRequest`, `StartExport`, `RefuseExport`, `StartProbe` | handlers; Health starts one task for every connection and waits for all |
| `Work`, `Time`, `Abandon`, `StopAnswering` | the tasks of `ConnManager`, until the process is gone |

### RowCursor, QueryScan, InsertExport

A row is its number. The cursor delivers a row, ends, breaks, or hangs until the
context is done; `rows.Err` (`Erroneous`) is what tells an end from a break.
`QueryScan` is `Execute` with `scanRows`, from the query to the check after the
loop; `InsertExport` is `ExportInserts` with its batch, its writer that may fail
and its counts. Both map to `WholeAnswer`, the first with the right to cut an
answer at the limit if it says so, the second without. Conversions of values and
literals are left out: what becomes of one row has no effect on another.

### Predicate, Statement

A clause is a sequence of tokens and the operators of these modules are the
functions of `predicate.go` and `classify.go`, name by name, a long one with the
operators it is put together from beside it; a scan for the first token with a
property is written with the set of the indices that have it, and what calls itself
is a recursive function on token sequences (`Strip`, `ExprIsUnbounded`). The
`...Check` modules grow a predicate or a statement one step at a time and keep
beside it what is true of it: the set of rows it matches, or the level its work
needs. The analysis must then never be on the wrong side (`OneSided`, `AtItsWorst`),
be exact where its documentation says it understands (`FlatIsExact`, `Exactly`),
and change as what is said changes (`BranchesAgree`, `NotLowered`); together these
are `PredicatesAsMeant` and `GatedAsItsWorst`.

The analysis is on the wrong side of some texts, and the properties say of which:

* `together` follows a predicate that matches every row only because branches of an OR
  cover the rows between them, with no two, side by side, each other's negation:
  `y < 2 OR y > 1`, or `(x = 1 OR y < 1) OR x <> 1`. Such a predicate may be called
  bounded, and no other that matches every row is.
* `ReadsOn` is a WITH with an UPDATE or DELETE of every row in a body, for which
  the analysis takes a WHERE that comes later in the text, or takes a test of every row
  together with what follows for a selective one.
* `ReadsUnseen` is a WITH with a SELECT INTO or a read of external data beside a part
  that writes, or behind one that locks rows. In both shapes the text is still gated
  as a write.

Section 6 has the lines. NULL is in a column of its own that appears in null checks
only, so that every predicate is true or false of a row.

### Lexer, Splitter, Shell

A text is a sequence of symbols: characters, and runs of letters where a word is
meant. A pair such as `/*` is two symbols, so that a symbol can be read as part of one
pair or of the next. `LexCheck` has the reader that `CutsAreTopLevel` compares the lexer with, for every dialect: it takes
a symbol at a time, remembers the construct it is in, and never looks ahead.
`swallowed` marks the texts in which a comment that does not nest ends in `/*/`: the
lexer passes over the `/*` and misses the end (section 6).

`Lex` has the bodies of executable comments (`/*! .. */`), which are lexed as texts of
their own; the texts of the runs have none, because the ends of such tokens are places in
the body.

| Action of `Shell` | Code (`input.go`) |
|---|---|
| `Type`, `EndOfText` | the reader: a piece of a line, the end |
| `Interrupt` | the context is cancelled, between lines or while a statement runs |
| `Loop` | reading a line, splitting the buffer, running statements one at a time, `finish` |

The next line is typed when the ones before have been dealt with. Prompts and the
stripping of the delimiter are left out.

### Cql, RedisCommand, MongoCommand

The same scheme as `Statement`. CQL texts are the statements between semicolons,
so that a batch is spread over several. Redis lines are written argument by
argument in every way redis-cli quotes them and cut again; `x41` is any `\xHH`.
MongoDB filters grow with the documents they match, whose fields are missing, null,
numbers or text, and are tested against numbers, null, sets of them, bounds and a
regular expression. `hidden` marks a filter in which null is one of several values or
a bound, which the analysis takes for selective (section 6), and `seen` is the level a
command needs but for the reach of such filters. Of every table of commands a few
members stand for all.

`findMongoKey`, `mongoFilterIsTautology` and the case of explain call themselves. The
model goes down level by level instead: `Within` has what stands in a value down to a
level, `Tautologies` the filters among it that match everything as far as a number of
rounds tells, `Unwrapped` what is left when so many explains are taken off. `MaxDepth`
is a bound of the model and not of the code, which has none but that of the parser;
by `DepthAssumption` no document that `Next` builds comes near it. The members of a
batch are a set: `analyzeCQLBatch` takes the worst of them, whatever their order.

### Backends

`KeyListing` has one action for each call of SCAN, one for each TYPE and one for what
other clients do to the keys; `SchemaContext` one for each question to the database.
What `sort.Strings` and ORDER BY may return is a set, from which the step takes a
member. `MongoDocuments` reads documents element by element and keeps the account of
the fields that `documentsToResult` and `DescribeTable` keep in their maps: `order`,
and in `tally` what was seen of each; the table and the description are made of those.
A document has a field once, as MongoDB stores it.

### Policy

| Action | Code |
|---|---|
| `Submit` | a tool of an endpoint, or the shell, names a connection and a statement: `resolve` with the lookup below it (`manager.go:145-153`), the gate, the limits (`service.go:122-139`, `376-438`); refusals end here |
| `Run`, `Fail` | the backend is opened and the statement runs, or fails, possibly after it has had its effect |

`Resolve` has four outcomes: the connection is shown, hidden, not configured, or not
named at all. The last two are errors of the manager, which lists every connection;
`names` of an answer is what it lists. `touched` remembers how far the calls of each
endpoint have changed each connection, which the program does not. Opening takes time in which other clients
do the same, but what a call was granted is never read again. Rows and characters
are limited alike and one limit stands for both; timeouts, the dialect of an export
and the tool that lists connections are left out.

### SchemaContext

`List`, `Columns`, `Skip`, `Keys` and their failures are the questions
`Service.SchemaContext` asks, one after the other; `Change` creates or drops a
table between any two of them. Columns and foreign keys are two questions
(`introspect.go`), the second of which may fail and be left out. `failed` remembers
the questions that failed before the deadline. A table that failed in time is left out
without a word, and so are foreign keys that failed, or met the deadline; what the
answer has is the count of the tables, and `CountTellsSkips` says when it gives a
table that was left out away.

### MongoScan, MongoDocuments, CassandraScan, KeyListing

`MongoScan` is `runMongoCursor` with the size of batches: the first as asked, the
later ones of any size, fetched when the one before is used up. What the driver
fetches ahead is not modelled; listSearchIndexes is read as aggregate is.
`CassandraScan` is the loop over an iterator that may leave its destination alone
for NULL. Both map to `WholeAnswer`. `KeyListing` has SCAN as its documentation
describes it: keys that stay are returned at least once, others or not, all of
them perhaps twice. The listing shows a key as often as it came, and stops at its
limit without a word. `LimitMet` is where that happened: keys that came twice count
twice, so that keys may then be missing from a keyspace smaller than the limit.
`MongoDocuments` lays documents out in columns.

### Configuration, PoolSettings

Paths are sequences of names and slashes, any at all, so that cleaning, comparing and
mounting are what the code does. `Mounted` is what `mountMCP` registers, in order;
`Selected` is what `dbq mcp --endpoint` finds. `Overlap` is when two paths are mounted
at one pattern, `SlashedOnce` when stdio finds a path. `PoolSettings` has `Merged`
and `withDefaults`, and what database/sql makes of the numbers; what the clients of
Redis, MongoDB and Cassandra make of them is not modelled (section 6 has one case).

## 3. The runs

| Run | Instance | Shows |
|---|---|---|
| `store_limits` | 4 calls over 3 slots, at most 3 artifacts and 2 bytes | counters exact; limits hold over what is live and what admitted calls may still add, and on the disk |
| `store_restart` | 2 calls, shared directory, failing removals, one crash | no stray file, nothing published behind Close, a closed store is empty |
| `store_promise` | 2 calls over 1 slot with downloads, private directory, one exit, fair goroutines | refinement of `ExportCapability`; calls and Close return, expired artifacts go |
| `store_leftover` | 1 call, failing removal | violation: Close leaves a file behind and says nothing (section 6) |
| `manager` | 3 tasks, 2 connections, one may hang, Close at any time, fair goroutines | one pool for each connection, none lost, none handed out closed; a hung database blocks nobody who uses another |
| `server_shutdown` | a query, a listing and an export on 2 connections | no request has to open a pool, none loses one, none is left |
| `server_liveness` | a query, an export and a probe on 1 connection that may hang | probes are answered, shutdown completes |
| `sql` | exports of 0 to 5 rows; predicates of two leaves of 14 kinds, of three of 3; 27 statements with 2 steps around them; texts of 4 of 13 characters, of 6 to 8 of three to five; SQL and CQL scripts of 4 and 5 pieces | an export is whole and its statements add up, or it fails and says so, and it comes back; a clause that every row satisfies is called selective only where several branches cover the rows together; the level asked for is that of the worst part but for the two shapes of a WITH; semicolons are found where a reader without lookahead finds them, but behind `/*/`; a script runs as it was typed, whatever the lines |
| `commands` | CQL statements and batches in 4 steps; Redis commands with up to 3 arguments, quoted in every way; MongoDB filters of 12 clauses in 3 steps, in every command | a batch is gated as its worst member, or refused; arguments are those meant; the level asked for covers the documents reached, unless null hides in the filter |
| `backends` | results of 0 to 5 rows and every limit below; 3 keys, 4 tables, 3 documents; Redis and MongoDB scripts | an answer is whole or cut where it says; no row shows another's value; keys that stay are listed, unless the limit was met; what a schema lacks, its count gives away; columns are those of the documents; everything returns |
| `policy` | 2 clients, 3 endpoints and the shell, 3 connections of every grant and language | `AccessPolicy`: what calls of an endpoint change is granted to them; what answers tell of unseen connections; limits, tools that can succeed |
| `configuration` | two pool blocks of unlimited, inherited and 1; 2 connections, 2 endpoints, 9 paths | pools as the configuration says, field by field; writing is configured twice over; a path leads to the endpoint written there, over stdio too, and the paths for which that fails are exactly those named |

Bounds of the store. Two calls are enough for every pair of critical sections to
interleave; the limit run has four, over three slots, so that one is refused by
bytes behind two that write and one by the number of files behind three that are
empty. The clock runs to 2 with a lifetime of 1 where expiry matters, so an
artifact can be created, expire and be looked up after that. One process death is
enough: a restart begins from nothing but the directory. Calls are used once,
because an artifact never comes back under the same ID.

Bounds of the manager. Three tasks let one open, one wait for the lock and one
come after a failure or after Close. Two connections are what a statement about
"the others" needs; they differ in what can go wrong (one hangs, the other waits
when it is closed). A pool of one connection is exhausted by a single task. A
task runs once, and a pool is opened by a task, so nothing is counted without
bound. The server's liveness run has one connection, because its hazards are in
the waits of a probe for a lock, a pool and an answer, and these never cross
connections (`DeadDatabaseBlocksNobodyElse`).

Bounds of the rows. Five rows and limits up to four have a result shorter than
its limit, as long, one and more rows longer; with batches up to three they end
with a full batch, a part of one and none at all. Results of Cassandra are of up
to four rows, of a read or a write.

Bounds of the analyses. Two connectives put any two rules of `predicate.go` side
by side, three put one between two others. Two steps around a statement nest WITH
in EXPLAIN, add a second statement to either, and hide something from one dialect
in all of them. The bodies of a WITH are every read, insert, update and delete of the statements but
SELECT INTO, which no database takes there. Four characters of all kinds are what a
construct of one character takes, with something in it; of quotes, backslashes and
comments alone there are six, of comments and semicolons eight, which is a comment
inside a comment with a semicolon behind both; of dashes six and of dollar tags seven.
Four steps of `Cql` make a batch with a header, two members and an end. Three steps join
two clauses to a filter and make a command of it, or put entries and explains around a
single one.

Bounds of the policy. Three grants, a connection of each query language, an
endpoint that shows all and ones that show some, with caps on either side of the
grants; a name nobody has configured, listed by one endpoint all the same, and a
call that gives none. Two clients are what changing a connection under each other, and
comparing two answers, takes; a call is forgotten when it ends.

Bounds of the listings. Four tables exceed the limit of three. `Patience` bounds
the calls of SCAN that return nothing.

Bounds of the configuration. Two endpoints are what a collision of paths takes. Four
paths have at most single slashes, at either end or none, and are written beside
connections of every kind; five more have slashes next to each other in front, in the
middle and at the end, and are written without connections, which paths know nothing of.

`CHECK_DEADLOCK FALSE` stands in every configuration because the system may
stop: every call made, the store closed, the process exited, the answer given.

Fairness. Go runs every runnable goroutine eventually, and timers fire; clients,
the clock of the store, signals and crashes owe nothing: nobody has to call,
to follow a link or to stop the server.

* `ExportStore`: weak fairness of every goroutine that has started. The write
  callback ends because an export does (above); the janitor's ticker does not
  stop; a select whose `stop` case stays ready takes it in the end.
* `ConnManager`, `ServerLifecycle`: weak fairness of each task's own steps, of
  its deadline and of the main goroutine. A database that hangs answers no more;
  one that does not, answers. A task that `Expire` does not cover has no timer.
* `QueryScan`, `InsertExport`, `MongoScan`, `CassandraScan`, `SchemaContext`: weak
  fairness of the goroutine and of the deadline.
* `Shell`: weak fairness of the loop; whoever types owes nothing, and the text may
  end at any time.

Assumed of the configuration and of the drivers: timeouts are set, as they are by
default (`connection_check_timeout`, `query_timeout`); an open that fails leaves
no pool behind (`sqlx.ConnectContext` closes it); an open ends once its context is
done. Cassandra's does not look at the context (`cassandra.go:133`) and ends by
the driver's own timeout instead.

## 4. The proofs

Theorems state the safety properties of the runs about the store, the manager,
the server, the policy, queries, exports, the other backends, the commands of Redis,
MongoDB and CQL, configuration and pools. Beyond those they have facts the runs do
not list: the type invariants of `ExportStore`, `ConnManager`, `QueryScan`,
`InsertExport` and `Policy`; that every live entry has its file; and the parts of
the properties a run states as one (`FilesStayWithinLimit`, `BytesStayWithinLimit`,
`ChangesAreGranted`, `ReadingIsHarmless`, `LimitsAreKept`, `PoolsReuse`,
`OverridesFieldByField`).

### The export store

`ExportStoreProofs` proves the safety properties of the store's runs for any number
of calls, any limits, any lifetime and any of the directory settings, from the four
assumptions of `ExportStore` (finitely many calls, positive limits).

The invariant is built in layers, each inductive given the ones before:

1. `Shape`: types, but not the bounds of the counters.
2. `Lifecycle`: an undecided call has outcome "none", an entry has outcome "ok".
3. `Counts`: `creating`, `reserved`, `active`, `slots` are cardinalities of sets
   of calls; each action moves one call across at most one boundary
   (`MoveSet`, `Enters`, `Exits`, `Stays`).
4. `Bytes`: `totalBytes` is the number of byte cells of the entries; a sum of
   sizes is a cardinality, so that no recursion over sets is needed
   (`CellsUnion`, `CellsSingle`).
5. `Within`: live and owed artifacts respect both limits. The counters alone are
   not enough: the step that matters is `AdmitWithin`, where what the lock shows
   (entries, reservations) must bound what may exist after the lock is gone.
6. `DrainedStaysDrained` and `Emptied`: after `active.Wait` no call joins, as
   joining needs `closed = false` under the lock.
7. `Down`, `FilesTraced`, `HasFiles`: each file has an owner, each entry a file.
8. `PromiseStep`: each step is a step or a stutter of `ExportCapability`.

### The manager and the server

From `ConnAssumption`, `TaskAssumption` and `ServerAssumption`, for any number of
connections, tasks and probes.

`OnePool` is not inductive. `ManagerInv` adds what the lock is for: `Held`, a
task that opens a pool has the lock of a connection whose entry is nil, and
`Current`, until Close a task has the pool of the entry. `ServerInv` adds the
stages of the server: `Order` (the manager is closed last), `Quiet` (who is at
work when: nobody but the pings during the check, nobody at all behind a
shutdown without overrun, no export once pools are closed) and `Pools` (all open
while serving, closed up to `next` after). The step that matters is
`CheckStages`: a check passes only when every ping was answered, and a ping that
was answered holds the pool of its entry, by `Current`.

### Rows

From `TotalsAssumption`, `LimitsAssumption`, `OptionsAssumption` and `BatchAssumption`,
for results, limits and batches of any size. `ScanInv` is `Shape` and `Kept`: what has been
kept is the first `fetched` rows, or the first `limit` with one more seen.
`ExportInv` is `Shape`, `Progress` and `Written`: the file has the first
`statements * size` rows and the batch the following ones, short of a full one
except before a flush. Both give the refinement of `WholeAnswer` step by step.

`MongoInv` adds what the server has shipped: no row is read that was not, and a
statement whose batch size the limit has set is never sent more than one row beyond
it. `CassandraInv` relates the place the driver writes to with the row before: it may
hold that row's value when a null comes, and the rows kept do not. The refinements
of `MongoScan` and `CassandraScan` rest on these.

`ExportTypes` adds that no statement is empty, so that there are no more of them
than rows.

### Pools by their number

`ManagerTypes` needs that no connection ever has more pools than there are tasks.
`Numbered` says why: a task that opens one has it from then on, and had none, so
the pools of a connection are no more than the tasks that have one of them
(`CountGiven`, `NumberedOpen`).

### The policy

From the assumptions of `Policy`, for any connections, endpoints, scopes,
statements and clients, and for any analysis of them. The invariant is `TypeOK`,
`OfferedByScope` (a call in progress is of a tool its endpoint has), `CallsAuthorised`
(its permission was the lower of grant and cap, and the statement needs no more),
`AnswersKnown`, `LimitsAsAnnounced` and `TouchedWithinGrants`. `AnswersKnown` says of
every answer that it is the one `Resolve` gives where the name is not shown, and names
what that outcome names (`ResolveUnseen`, `GateRefuses`); that two refusals read alike
in three cases and no other (`UnseenStaysUnknown`) follows from it. `CallsAuthorised` is
what the step `Run` needs: it changes a connection with what `Submit` found, while
others have changed everything else. The refinement of `AccessPolicy` follows from
it, step by step.

### Listings and documents

From `ListingAssumption` and `SchemaAssumption`, for any keys, tables, limits and any
interleaving with those who change them. `SteadyKeysListed` is not inductive:
`KeyListed` adds that while keys are typed, the listing has each steady key as often as
it stands among the first `at - 1` keys, and that a scan which has ended below its
limit has returned all that are steady. That sorting loses nothing is `SortedIsWhole`:
the positions of a key before and after are in bijection. `SchemaDescribed` relates
the answer to the part of `todo` that is done: what was described has its place there, in
order, and what was not has its failure on record. `SchemaCounted` counts: as many
tables are described as the loop has passed exactly while none has failed in time,
because no table is described twice (`SchemaDistinct`).

From `DocumentAssumption`, for any documents. `DocumentInv` says of the account what it
is an account of: `DocumentOrdered`, that the fields are those of the documents, each
once, and each first seen before the next one; `DocumentTallied`, that `seen` counts the
documents with the field, and `types` and `null` are those of its values. The step that
matters is an element of a field that is already known: it comes after everything, so
that it disturbs no order (`ElementStep`). `ColumnsReorder` says that moving `_id` to the
front is a permutation that keeps the order of the rest.

### Redis commands

From `CommandsAssumption` (a command needs what the analysis of its bare arguments
says) and `ArgumentsAssumption` (no argument that follows one is a word the analysis
looks for), for any commands and arguments, of any length. The assumptions leave to
the proof what quoting, gaps, a semicolon and arguments behind the command could do;
that the levels are the right ones is what the run checks, whose commands have theirs
written down.

Reading is a recursive function over a line. The library's induction theorems take
a predicate, which the provers cannot instantiate; `SetInduction` and `SeqInduction`
say the same of a set of numbers, or sequences, and follow from the well-foundedness
of `<`. `ReadingExists` and `ReadingAgrees` show that the function exists and that
what it says of a line depends on nothing that follows, which gives `ParsedNext`:
one more symbol is one more `ParseSymbol`. From there:

1. `LiteralsRead` and `EscapedRead`: what stands between quotes is read as what was
   meant, by induction over the argument; `Joins` does the same for `Escaped`.
2. `FormsRead`: each way of writing an argument adds that argument, and nothing else.
3. `Written` is the invariant: behind the line, all arguments but the last are done,
   the last is being read, and no quote is open; its last symbol is neither space nor
   semicolon, so that nothing is cut off (`WrittenIsWhole`, `SemicolonIsCut`).
4. `OfCommand` says that what was written and what is still to be is a command and
   what follows it; `MoreKeepsAnalysis`, that what follows does not change the level.

### MongoDB commands

From `DepthAssumption`, for any number of steps. `GatedByReach` is about a set of
documents, which a filter narrows or widens from step to step, and about a verdict
that looks at the text alone. What ties them together is one document, that without
fields (`Missing`): a filter the analysis takes for selective, and in which no null
hides, does not match it, so it does not match everything. `MongoInv` has two parts.

1. While a filter is grown, `FilterHolds`: it is as deep as its steps allow (`Nested`),
   names no stage that writes (`Quiet`), `Missing` is left out unless it is taken for one
   that matches everything or null hides in it, it is not so taken when its clauses pin
   values, and it needs full access exactly if it runs code (`Runs`).
2. In a command, `CommandHolds`: again how deep it is, with what is left when explains
   are taken off (`Bottom`), and `Gated`, that its level is at least what it needs but
   for the reach of a filter in which null hides, and what it needs if values are pinned.

The search and the rounds are recursive functions on levels. `DescentExists` and
`DescentAgrees` do for them what `ReadingExists` does for a line, which gives the step
from a level to the next (`WithinNext`, `MatchesNext`). The rounds of `Tautologies` start
from the filters in the whole document; `TautologiesOfLess` says that the verdict on a
filter is the same wherever it stands. `Settled` says from which round on nothing changes,
which is how the verdict on two filters becomes that on the two joined (`AndVerdict`,
`OrVerdict`). The twelve clauses are looked at one by one (`ClausesAreGood`), each command by
itself (`FindItStep` to `FindAndModifyStep`), and an explain changes neither level nor
need (`ExplainStep`).

### CQL batches

From `StatementsAssumption` and `HeadersAssumption`: a statement alone needs what its
analysis says, does not begin like a header and has no APPLY BATCH in it; a header
opens a batch, has no verb of a write, and is good when only words of a header are in
it. For any such statements and headers, of any length, and any number of steps.
What the assumptions leave to the proof is everything a batch could do to its members:
the header in front of the first, APPLY BATCH behind the last or in a piece of its own,
or in the middle, a second one, statements that are no writes, statements without a
header.

`CqlInv` says what the text is: statements of which no header stands before the first
(`Alone`), or `Headed(h, b)`, a header h in front of a body b, still open or closed by one
of the two ways to write APPLY BATCH. `members` is `Worth(h, b)`. What is closed and goes on
is a body again, one that has an APPLY BATCH inside and is worth no level
(`ClosedIs`, `BehindIs`, `EndingIs`), so that the cases of a batch closed twice, or
with something behind its end, come down to that of an open one. `EndedVerdict` is the
verdict on a closed batch: its members are the pieces of the body (`MembersAre`), and the
word of a header cannot be taken for the end of a statement (`HeadedCloses`).

### Endpoints

From `PathAssumption`, which says no more than that a path is a sequence of names and
slashes, for any number of entries. `AnsweredAsWritten` takes no invariant beyond types
(`BlockTypes`) but lemmas about paths.

A cleaned path is the rooted one, or that without its last slash (`Cleaned`), so that the
pattern with a slash behind it is another endpoint's pattern without one exactly when the
paths overlap (`OverlapIs`). As no two cleaned paths are the same in a block that is not
refused, this is the only way for two mounts to meet (`OneMount`, `PatternsMeet`), and
a path that overlaps with none has a handler of its own (`HandlerOf`, `Served`).

Over stdio, the path that is asked for is trimmed at both ends, from its first name
to its last: the smallest and the greatest element of a set of positions, which exist as
`<` is well-founded (`Smallest`, `Trimmed`). What is looked for has the form of a
cleaned path exactly when `SlashedOnce` holds (`FoundIf`).

### Settings of a pool

From `PoolAssumption`, for any numbers in a configuration and any positive
defaults. Types are the invariant; `Handed` and `Kept` say in closed form what
reaches database/sql, and the three theorems follow from those.

### Model-checked only

Liveness, as fairness and ENABLED are outside the prover's reach: `CallsReturn`,
`ExpiredIsRemoved`, `DeadDatabaseBlocksNobodyElse`, `ProbesAreAnswered`,
`ShutdownCompletes`, `ExportComesBack`, `EverythingReturns`.

The lexer recurs over its input as a RECURSIVE operator with lookahead, and a module
that reaches one cannot be proved about: `CutsAreTopLevel`, `ScriptsAsTyped` and
`CommandsAsTyped`, which are about `Lexer`, `Splitter` and `Shell`.

`PredicatesAsMeant` and `GatedAsItsWorst`: the rules of `predicate.go` are judged by the
rows that the leaves of an instance match, and those of `classify.go` by the statements
of one. Their exceptions (section 2) are about how a text was put together, and a
function like `ExprIsUnbounded` goes down by parentheses and connectives in turn, for
which no induction on numbers or on single tokens is at hand.

## 5. Plan

Done, in this order: the export store; the connection manager with the server's
life around it; rows of a query and of an export; predicates and statements; the
lexer, the splitters and the shell; the other query languages; the policy layer;
the other backends; configuration and pools. What would come next:

1. The lexer as a recursive function, to prove about it and what cuts with it.
2. The composition of `Policy` with `ConnManager`: a call that waits for a pool.
3. Literals of an export (`export.go`) and values of each backend, by type.
4. The catalog queries of `introspect.go`.

## 6. Findings

`store_leftover` shows one disagreement. The comment at `store.go:271` says that
Close "removes every artifact created by this process". `removeExpiredLocked` drops
the entry of an expired artifact whether or not `os.Remove` succeeded (243), so
Close does not try again, and reports no error. On Windows, for which releases are
built, a file somebody is still downloading cannot be removed.

In the following the code and what is written about it are not the same, and a passing
run says so: the property names the case as an exception, and holds of all others, so that
a further case would be found.

* `classify.go:306` says that a WITH is resolved "to the kind of the work it really
  performs". An UPDATE or DELETE in a body is measured from its verb to the end of the
  text (334) and not to the end of the body, so that a WHERE that follows the body counts
  as its own: `WITH d AS (DELETE FROM t), c AS (SELECT x
  FROM u WHERE x = 1) SELECT ...` is called bounded (`ReadsOn`). Where a body writes,
  reads of external data and SELECT INTO are not looked for (348-356), nor are they
  behind a locking read (385-390) (`ReadsUnseen`).
* `lex.go:329-331` says that a comment "ends at the first */" where comments do not
  nest. A `/*` inside it is passed over as a whole (337-341), so that the `*` of `/*/` does
  not end the comment, which then hides what follows it (`swallowed`).
* `predicate.go:8-11` says that the analysis must never call a tautology "bounded". An OR in
  parentheses that is followed by another OR is not looked into, and branches are held
  against each other two at a time, only for being each other's negation (76-104):
  `(x = 1 OR y < 1) OR x <> 1` and `y < 2 OR y > 1` are called bounded (`together`).
* `mongo_analyze.go:278-281` says that `{"field": null}` matches documents without the
  field; null as one of several values, or as a bound, is taken for a selective test
  (335-344) and matches them too (`hidden`).
* `service.go:131-132` says that a restricted caller "cannot enumerate connections it is
  not allowed to see"; the error for a name that is not configured, and for none, lists
  them all (`manager.go:147`, `:152`) (`UnseenIsUnknown`).
* `config.go:293-302` refuses two endpoints with the same path. One slash is cut from the
  end of a path (291), which is then mounted with one slash more (`server.go:127-129`): the
  endpoints at `/a` and `/a//` both pass, and are both mounted at `/a/` (`Overlap`).
* An endpoint at `/` is mounted at the empty path (`config.go:291`) and
  `dbq mcp --endpoint /` does not find it (`cli/mcp.go:103`), nor any whose path begins or
  ends with two slashes (`SlashedOnce`).

Two more exceptions go against nothing that is written, but a reader of an answer should
know them: a listing of keys that has met its limit may lack some of a smaller keyspace
(`LimitMet`), and a table that could not be described, or its foreign keys, are missing from
a schema context without a word (`CountTellsSkips`, `KeysLostOnlyAtTheEnd`).

The following are in no property.

* `classify.go:45-46` says of a statement's kind that it "decides between Query and
  Exec". A locking read, an EXPLAIN of a write and a WITH around one have the kind
  of the write, so that the rows they return are not shown.
* `lex.go:87-88` says that the bodies of executable comments are "real SQL to the
  server"; `appendStatement` (`split.go:51`) looks for code with the standard dialect
  only and drops a piece that has no other. Tokens of an executable comment carry
  positions in its body (`lex.go:138`), and a semicolon there cuts the text at
  another place. The texts and the scripts of the runs have no executable comments.
* A script that ends with a comment runs it (`input.go:173`), which `split.go:47-48`
  says is not run.
* `mcpserver.go:558` says that "a tool that can never succeed is worse than an absent
  one"; the export tool is offered where no connection shown speaks SQL (489).
* The repository's README says that a negative `max_open` means unlimited, for every
  connection; to the clients of Redis, MongoDB and Cassandra it means their own
  default (`redis.go:42`, `mongodb.go:60`, `cassandra.go:139`).

## 7. Not modelled

* Rendering (`format.go`), flags, prompts and log lines (`cmd/dbq`, `cli/repl.go`): they
  have no state another part depends on.
* Conversions of single values and literals (`query.go`, `export.go`, `mongodb.go`,
  `redis.go`): what becomes of one value has no effect on another.
* The catalog queries of `introspect.go` and the keyspace queries of `cassandra.go`:
  text for a database to run. How their answers are put together is in
  `SchemaContext`.
* Options of a connection string and the check of URLs in the configuration.
* Drivers and their wire protocols, terminal handling, MCP and HTTP framing.
* Three hazards have no property, each with its reason in `PROJECT.json`: a pool
  opened behind a shutdown that has run out of time, the connect timeout of
  Cassandra, and a ping on a pool that is in use.
