--------------------------- MODULE ServerLifecycle ---------------------------
(***************************************************************************)
(* `dbq server` from start to exit (internal/cli/server.go, internal/      *)
(* server/server.go, service.Health): the check of all connections before  *)
(* the port is opened, requests and health probes while it is served, and  *)
(* what is closed in which order when the process is told to stop.         *)
(*                                                                         *)
(* The tasks of ConnManager are here the goroutines of requests (Query,    *)
(* Listing, Export) and those a probe starts, one for each connection.  Of the      *)
(* export store this module keeps what ties it to the rest: an export runs *)
(* between active.Add and active.Done, its Close refuses new ones and      *)
(* waits for the others (module ExportStore has the details).              *)
(***************************************************************************)
EXTENDS ConnManager

CONSTANTS
    Query,     \* requests that execute a statement
    Listing,   \* requests that list or describe tables
    Export,    \* requests that create an export
    Probe,     \* health checks
    Startup    \* the check before the server is started

ASSUME ServerAssumption ==
    /\ Startup \in Probe
    /\ Early = Listing \cup (Probe \X Conn)
    /\ Task = Query \cup Export \cup Early
    /\ Export \cap (Query \cup Early) = {} /\ Query \cap Early = {}
    /\ Listing \cap (Probe \X Conn) = {}

VARIABLES
    server,         \* what the main goroutine is doing
    exportsClosed,  \* Store.closed
    overrun         \* the shutdown timeout has passed with requests left

serverVars == <<server, exportsClosed, overrun>>
vars == <<managerVars, serverVars>>

ServerState == {"starting", "checking", "serving", "stopping", "closingExports",
                "closingPools", "exited"}

Pings(p) == {p} \X Conn
Active(T) == {t \in T : state[t] \notin {"idle"} \cup Finished}
\* wg.Wait of Health
Reported(p) == \A t \in Pings(p) : state[t] \in Finished
Asked(p) == \A t \in Pings(p) : state[t] # "idle"

Init ==
    /\ ManagerInit
    /\ \A p \in Probe, c \in Conn : target[<<p, c>>] = c
    /\ server = "starting" /\ exportsClosed = FALSE /\ overrun = FALSE

\* Health starts one goroutine for every connection.
StartPings(p) ==
    /\ \A t \in Pings(p) : state[t] = "idle"
    /\ state' = [t \in Task |-> IF t \in Pings(p) THEN "locking" ELSE state[t]]
    /\ UNCHANGED <<target, expired, pool, connVars, next, hung>>

-----------------------------------------------------------------------------
(* runServer *)

\* checkConnections
StartCheck ==
    /\ server = "starting"
    /\ StartPings(Startup)
    /\ server' = "checking"
    /\ UNCHANGED <<exportsClosed, overrun>>

\* (mutant) The server starts although a connection did not answer.
CheckPassedAnyway ==
    /\ server = "checking" /\ Reported(Startup)
    /\ server' = "serving"
    /\ UNCHANGED <<managerVars, exportsClosed, overrun>>

CheckPassed ==
    /\ server = "checking" /\ \A t \in Pings(Startup) : state[t] = "ok"
    /\ server' = "serving"
    /\ UNCHANGED <<managerVars, exportsClosed, overrun>>

\* (mutant) The pools are closed only where the server has been started.
CheckFailedUnclosed ==
    /\ server = "checking" /\ Reported(Startup)
    /\ server' = "exited"
    /\ UNCHANGED <<managerVars, exportsClosed, overrun>>

\* One connection that fails is enough; so is an error of server.New.
CheckFailed ==
    /\ server = "checking" /\ Reported(Startup)
    /\ StartClose
    /\ server' = "closingPools"
    /\ UNCHANGED <<exportsClosed, overrun>>

\* The signal, or the listener failing.
Stop ==
    /\ server = "serving"
    /\ server' = "stopping"
    /\ UNCHANGED <<managerVars, exportsClosed, overrun>>

\* StartWithContext returns when the requests are done or the time is up; then
\* the deferred Close of the export store, its closed flag first ...
Stopped ==
    /\ server = "stopping"
    /\ overrun' \in BOOLEAN
    /\ Active(Task) # {} => overrun'
    /\ exportsClosed' = TRUE
    /\ server' = "closingExports"
    /\ UNCHANGED managerVars

\* (mutant) The manager is closed without waiting for the exports.
ExportsIgnored ==
    /\ server = "closingExports"
    /\ StartClose
    /\ server' = "closingPools"
    /\ UNCHANGED <<exportsClosed, overrun>>

\* ... then active.Wait; after it the deferred Close of the manager.
ExportsDrained ==
    /\ server = "closingExports" /\ Active(Export) = {}
    /\ StartClose
    /\ server' = "closingPools"
    /\ UNCHANGED <<exportsClosed, overrun>>

Leave ==
    /\ server = "closingPools" /\ next = NConn + 1
    /\ server' = "exited"
    /\ UNCHANGED <<managerVars, exportsClosed, overrun>>

ClosePools == CloseStep /\ UNCHANGED serverVars

Main == StartCheck \/ CheckPassed \/ CheckFailed \/ Stopped \/ ExportsDrained
        \/ Leave \/ ClosePools

-----------------------------------------------------------------------------
(* Requests.  One that was accepted before the server stopped may get here   *)
(* later; nothing runs on after the process has exited.                      *)

Accepted == server \in {"serving", "stopping"} \/ (overrun /\ server # "exited")

StartRequest(t) == Accepted /\ Begin(t) /\ UNCHANGED serverVars

\* GET /healthz
StartProbe(p) ==
    /\ Accepted /\ p # Startup
    /\ StartPings(p)
    /\ UNCHANGED serverVars

\* Store.Create: closed is looked at before active.Add.
StartExport(t) == ~exportsClosed /\ StartRequest(t)

RefuseExport(t) ==
    /\ Accepted /\ exportsClosed /\ state[t] = "idle"
    /\ Goto(t, "failed")
    /\ UNCHANGED <<target, expired, pool, connVars, next, hung, serverVars>>

Work(t) == server # "exited" /\ Proceed(t) /\ UNCHANGED serverVars
Time(t) == server # "exited" /\ Expire(t) /\ UNCHANGED serverVars
Abandon(t) == server # "exited" /\ Cancel(t) /\ UNCHANGED serverVars
StopAnswering(c) == Hang(c) /\ UNCHANGED serverVars

Next ==
    \/ Main \/ Stop
    \/ \E t \in Query \cup Listing : StartRequest(t)
    \/ \E t \in Export : StartExport(t) \/ RefuseExport(t)
    \/ \E p \in Probe : StartProbe(p)
    \/ \E t \in Task : Work(t) \/ Time(t) \/ Abandon(t)
    \/ \E c \in Fragile : StopAnswering(c)

Spec == Init /\ [][Next]_vars

\* Goroutines run and timers fire; nobody has to stop the server.
FairSpec ==
    /\ Spec
    /\ WF_vars(Main)
    /\ \A t \in Task : WF_vars(Work(t)) /\ WF_vars(Time(t))

-----------------------------------------------------------------------------
(* Properties *)

\* While the server is up no request has to open a pool: the check before has
\* opened all of them and nobody takes one away.  So it does no harm that a
\* statement has no deadline in Backend, whose lock a health check would wait
\* for without looking at its own.
PoolsOpenWhileServing ==
    server \in {"serving", "stopping", "closingExports"} =>
        /\ \A c \in Conn : backend[c] # 0
        /\ \A t \in Task : state[t] # "opening"

\* Nobody loses his pool to the shutdown: no export ever (the store drains
\* before the manager closes), and no other request unless the shutdown timeout
\* has passed.
PoolsOutliveRequests ==
    \A t \in Task :
        state[t] \in {"waiting", "using"} /\ (t \in Export \/ ~overrun) => pool[t] \in live[target[t]]

\* A process that exits in order leaves no pool open, also when the check at
\* the start failed half-way.
ExitReleasesPools == server = "exited" /\ ~overrun => \A c \in Conn : live[c] = {}

\* service.go:498: "the timeout is what stops it from hanging the probe
\* altogether": a probe is answered, whichever databases hang and whatever the
\* requests do.
ProbesAreAnswered == \A p \in Probe : Asked(p) ~> Reported(p) \/ server = "exited"

\* Told to stop, the process exits, hung databases or not.
ShutdownCompletes == server = "stopping" ~> server = "exited"
=============================================================================
