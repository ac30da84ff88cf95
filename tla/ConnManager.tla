----------------------------- MODULE ConnManager -----------------------------
(***************************************************************************)
(* The connection manager of dbq (internal/database/manager.go) and what   *)
(* its callers do with it: Backend opens the pool of a connection on first *)
(* use, under a mutex of that connection, and Close takes every pool away. *)
(*                                                                         *)
(* A task is one goroutine that needs a database.  The deadline of a ping   *)
(* or of a listing covers everything it does (service.Health, ListTables,  *)
(* DescribeTable, SchemaContext); a statement has none until it runs       *)
(* (database.Execute, ExportInserts), so that Backend sees no deadline.    *)
(***************************************************************************)
EXTENDS Naturals, FiniteSets

CONSTANTS
    NConn,        \* connections, numbered in the order of their names
    Task,         \* goroutines that use a connection, each of them once
    Early,        \* those whose deadline covers Backend: pings, listings
    Fragile,      \* connections whose database may stop answering for good
    Patient,      \* connections whose backend.Close waits for what is in use
    PoolSize,     \* connections a pool may have in use at once
    Nobody, Closer

Conn == 1..NConn
Pool == 1..Cardinality(Task)   \* every task opens at most one

ASSUME ConnAssumption == NConn \in Nat /\ PoolSize \in Nat \ {0} /\ Fragile \cup Patient \subseteq Conn
ASSUME TaskAssumption ==
    /\ IsFiniteSet(Task) /\ Early \subseteq Task
    /\ Nobody \notin Task /\ Closer \notin Task /\ Nobody # Closer

VARIABLES
    state,     \* where each task stands
    target,    \* the connection it names
    expired,   \* its context is done
    pool,      \* the pool Backend gave it
    holder,    \* who holds the mutex of a connection
    backend,   \* connEntry.backend, 0 for nil
    live,      \* the pools opened and not closed
    opened,    \* how many pools a connection has had
    next,      \* the connection Close is at; 0 before, NConn + 1 after
    hung       \* the connections whose database does not answer any more

taskVars == <<state, target, expired, pool>>
connVars == <<holder, backend, live, opened>>
managerVars == <<taskVars, connVars, next, hung>>

State == {"idle", "locking", "opening", "waiting", "using", "ok", "failed"}
Finished == {"ok", "failed"}
\* (mutant) One mutex for the whole manager.
FreeAltogether(c) == \A d \in Conn : holder[d] = Nobody
Free(c) == holder[c] = Nobody
InUse(c, p) == {t \in Task : state[t] = "using" /\ target[t] = c /\ pool[t] = p}

ManagerInit ==
    /\ state = [t \in Task |-> "idle"]
    /\ target \in [Task -> Conn]
    /\ expired = [t \in Task |-> FALSE]
    /\ pool = [t \in Task |-> 0]
    /\ holder = [c \in Conn |-> Nobody]
    /\ backend = [c \in Conn |-> 0]
    /\ live = [c \in Conn |-> {}]
    /\ opened = [c \in Conn |-> 0]
    /\ next = 0 /\ hung = {}

Goto(t, s) == state' = [state EXCEPT ![t] = s]

-----------------------------------------------------------------------------
(* A task *)

Begin(t) ==
    /\ state[t] = "idle"
    /\ Goto(t, "locking")
    /\ UNCHANGED <<target, expired, pool, connVars, next, hung>>

\* (mutant) A statement runs without a deadline.
HasDeadlineEarly(t) == t \in Early

\* The context is done: its deadline, where it has one (the timeouts are
\* taken to be configured, as they are by default), or its client.
HasDeadline(t) == t \in Early \/ state[t] \in {"waiting", "using"}

Expire(t) ==
    /\ HasDeadline(t) /\ state[t] \notin {"idle"} \cup Finished /\ ~expired[t]
    /\ expired' = [expired EXCEPT ![t] = TRUE]
    /\ UNCHANGED <<state, target, pool, connVars, next, hung>>

Cancel(t) ==
    /\ state[t] \notin {"idle"} \cup Finished /\ ~expired[t]
    /\ expired' = [expired EXCEPT ![t] = TRUE]
    /\ UNCHANGED <<state, target, pool, connVars, next, hung>>

\* Backend: the lock does not look at the context.  A pool that is there is
\* returned at once ...
Reuse(t) ==
    LET c == target[t] IN
    /\ state[t] = "locking" /\ Free(c) /\ backend[c] # 0
    /\ pool' = [pool EXCEPT ![t] = backend[c]]
    /\ Goto(t, "waiting")
    /\ UNCHANGED <<target, expired, connVars, next, hung>>

\* (mutant) The lock is let go before the pool is opened.
StartOpenUnlocked(t) ==
    LET c == target[t] IN
    /\ state[t] = "locking" /\ Free(c) /\ backend[c] = 0
    /\ Goto(t, "opening")
    /\ UNCHANGED <<target, expired, pool, connVars, next, hung>>

\* ... otherwise the lock is held while one is opened.
StartOpen(t) ==
    LET c == target[t] IN
    /\ state[t] = "locking" /\ Free(c) /\ backend[c] = 0
    /\ holder' = [holder EXCEPT ![c] = t]
    /\ Goto(t, "opening")
    /\ UNCHANGED <<target, expired, pool, backend, live, opened, next, hung>>

OpenSucceeds(t) ==
    LET c == target[t]
        p == opened[c] + 1 IN
    /\ state[t] = "opening" /\ c \notin hung
    /\ opened' = [opened EXCEPT ![c] = p]
    /\ live' = [live EXCEPT ![c] = @ \cup {p}]
    /\ backend' = [backend EXCEPT ![c] = p]
    /\ pool' = [pool EXCEPT ![t] = p]
    /\ holder' = [holder EXCEPT ![c] = Nobody]
    /\ Goto(t, "waiting")
    /\ UNCHANGED <<target, expired, next, hung>>

\* The database refuses, or the context is done (the driver may notice late);
\* the entry stays nil, and the next task tries again.
OpenFails(t) ==
    LET c == target[t] IN
    /\ state[t] = "opening"
    /\ c \notin hung \/ expired[t]
    /\ holder' = [holder EXCEPT ![c] = Nobody]
    /\ Goto(t, "failed")
    /\ UNCHANGED <<target, expired, pool, backend, live, opened, next, hung>>

\* The pool hands out a connection, when one is to be had before the context
\* is done and the pool is closed.
Acquire(t) ==
    LET c == target[t] IN
    /\ state[t] = "waiting" /\ pool[t] \in live[c]
    /\ Cardinality(InUse(c, pool[t])) < PoolSize
    /\ Goto(t, "using")
    /\ UNCHANGED <<target, expired, pool, connVars, next, hung>>

GiveUp(t) ==
    /\ state[t] = "waiting"
    /\ expired[t] \/ pool[t] \notin live[target[t]]
    /\ Goto(t, "failed")
    /\ UNCHANGED <<target, expired, pool, connVars, next, hung>>

\* The statement or the ping itself.
Answer(t) ==
    /\ state[t] = "using"
    /\ \/ target[t] \notin hung /\ (Goto(t, "ok") \/ Goto(t, "failed"))
       \/ expired[t] /\ Goto(t, "failed")
    /\ UNCHANGED <<target, expired, pool, connVars, next, hung>>

\* What a task does by itself once it has begun.
Proceed(t) ==
    \/ Reuse(t) \/ StartOpen(t) \/ OpenSucceeds(t) \/ OpenFails(t)
    \/ Acquire(t) \/ GiveUp(t) \/ Answer(t)

TaskStep(t) == Proceed(t) \/ Expire(t) \/ Cancel(t)

-----------------------------------------------------------------------------
(* Close *)

StartClose ==
    /\ next = 0
    /\ next' = 1
    /\ UNCHANGED <<taskVars, connVars, hung>>

\* One connection after the other: the lock ...
LockToClose ==
    /\ next \in Conn /\ Free(next)
    /\ holder' = [holder EXCEPT ![next] = Closer]
    /\ UNCHANGED <<taskVars, backend, live, opened, next, hung>>

\* ... then backend.Close, whose error is only reported, and a nil entry.
CloseConn ==
    /\ next \in Conn /\ holder[next] = Closer
    /\ next \in Patient => InUse(next, backend[next]) = {}
    /\ live' = [live EXCEPT ![next] = @ \ {backend[next]}]
    /\ backend' = [backend EXCEPT ![next] = 0]
    /\ holder' = [holder EXCEPT ![next] = Nobody]
    /\ next' = next + 1
    /\ UNCHANGED <<taskVars, opened, hung>>

CloseStep == LockToClose \/ CloseConn

Hang(c) ==
    /\ c \in Fragile \ hung
    /\ hung' = hung \cup {c}
    /\ UNCHANGED <<taskVars, connVars, next>>

ManagerNext ==
    \/ \E t \in Task : Begin(t) \/ TaskStep(t)
    \/ \E c \in Fragile : Hang(c)
    \/ StartClose \/ CloseStep

ManagerSpec == ManagerInit /\ [][ManagerNext]_managerVars

\* Goroutines run, timers fire, and a database that is not hung answers.
\* Clients owe nothing.
TaskFairness(t) == WF_managerVars(Proceed(t)) /\ WF_managerVars(Expire(t))

FairManagerSpec ==
    ManagerSpec /\ (\A t \in Task : TaskFairness(t)) /\ WF_managerVars(CloseStep)

-----------------------------------------------------------------------------
(* Properties *)

TypeOK ==
    /\ state \in [Task -> State] /\ target \in [Task -> Conn]
    /\ expired \in [Task -> BOOLEAN] /\ pool \in [Task -> {0} \cup Pool]
    /\ holder \in [Conn -> Task \cup {Nobody, Closer}]
    /\ backend \in [Conn -> {0} \cup Pool] /\ live \in [Conn -> SUBSET Pool]
    /\ opened \in [Conn -> {0} \cup Pool] /\ next \in 0..(NConn + 1) /\ hung \subseteq Fragile

\* Concurrent first uses, failures and Close notwithstanding, the manager has
\* at most one pool of a connection, never loses one that is open, and never
\* hands out one that is closed (manager.go:165: "so concurrent first-use
\* requests do not each open a pool").
OnePool == \A c \in Conn : live[c] = IF backend[c] = 0 THEN {} ELSE {backend[c]}

\* manager.go:166: "a slow or dead database never blocks traffic to the
\* others": a task whose database answers is finished, whatever the tasks for
\* the others are doing.
DeadDatabaseBlocksNobodyElse ==
    \A t \in Task : state[t] = "locking" ~> state[t] \in Finished \/ target[t] \in hung
=============================================================================
