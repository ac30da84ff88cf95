------------------------ MODULE ServerLifecycleProofs ------------------------
(***************************************************************************)
(* One pool for each connection, whatever the tasks, the databases and     *)
(* Close do, and the order in which `dbq server` opens and closes things:  *)
(* for any number of connections, tasks, requests and probes.              *)
(***************************************************************************)
EXTENDS ServerLifecycle, FiniteSetTheorems, TLAPS

-----------------------------------------------------------------------------
(* The connection manager. *)

Types ==
    /\ state \in [Task -> State] /\ target \in [Task -> Conn] /\ pool \in [Task -> Nat]
    /\ holder \in [Conn -> Task \cup {Nobody, Closer}]
    /\ backend \in [Conn -> Nat] /\ live \in [Conn -> SUBSET Nat]
    /\ opened \in [Conn -> Nat] /\ next \in Nat /\ next <= NConn + 1

\* The mutex of a connection is with the one task that opens a pool of it.
Held ==
    /\ \A t \in Task : state[t] = "opening" => holder[target[t]] = t /\ backend[target[t]] = 0
    /\ \A c \in Conn : holder[c] \in Task => state[holder[c]] = "opening" /\ target[holder[c]] = c

\* Before Close, what a task got is what the entry has.
Current ==
    next = 0 => \A t \in Task : state[t] \in {"waiting", "using", "ok"} =>
                    pool[t] # 0 /\ backend[target[t]] = pool[t]

\* What Close has passed stays closed, unless somebody opens it again.
ManagerInv == Types /\ Held /\ OnePool /\ Current

LEMMA ManagerInitInv == ManagerInit => ManagerInv
  <1> SUFFICES ASSUME ManagerInit PROVE ManagerInv
    OBVIOUS
  <1>1. Types
    BY ConnAssumption DEF ManagerInit, Types, State
  <1>2. Held /\ OnePool /\ Current
    BY TaskAssumption DEF ManagerInit, Held, OnePool, Current
  <1>3. QED
    BY <1>1, <1>2 DEF ManagerInv

\* Beginning is all the same to the manager, however many begin at once.
LEMMA BeginInv ==
  ASSUME ManagerInv, NEW S \in SUBSET Task, \A t \in S : state[t] = "idle",
         state' = [t \in Task |-> IF t \in S THEN "locking" ELSE state[t]],
         UNCHANGED <<target, pool, connVars, next>>
  PROVE  ManagerInv'
  BY DEF ManagerInv, Types, Held, OnePool, Current, connVars, State

LEMMA TaskInv ==
  ASSUME ManagerInv, NEW t \in Task, TaskStep(t)
  PROVE  ManagerInv'
  <1> USE DEF ManagerInv, Goto
  <1> DEFINE c == target[t]
  <1>c. c \in Conn
    BY DEF Types
  <1>1. CASE Reuse(t)
    BY <1>1, <1>c DEF Reuse, Types, Held, OnePool, Current, connVars, State
  <1>2. CASE StartOpen(t)
    BY <1>2, <1>c, TaskAssumption DEF StartOpen, Free, Types, Held, OnePool, Current, State
  <1>3. CASE OpenSucceeds(t)
    <2>1. backend[c] = 0 /\ holder[c] = t /\ live[c] = {}
      BY <1>3, <1>c DEF OpenSucceeds, Held, OnePool
    <2>2. \A u \in Task : u # t /\ state[u] = "opening" => target[u] # c
      BY <2>1 DEF Held
    <2>3. Types'
      <3>1. opened[c] + 1 \in Nat
        BY <1>c DEF Types
      <3>2. live' \in [Conn -> SUBSET Nat]
        BY <1>3, <1>c, <3>1 DEF OpenSucceeds, Types
      <3>3. QED
        BY <1>3, <1>c, <3>1, <3>2 DEF OpenSucceeds, Types, State
    <2>4. Held'
      BY <1>3, <1>c, <2>1, <2>2, TaskAssumption DEF OpenSucceeds, Types, Held
    <2>5. OnePool'
      <3> DEFINE p == opened[c] + 1
      <3>1. p # 0 /\ p \in Nat
        BY <1>c DEF Types
      <3>2. backend' = [backend EXCEPT ![c] = p] /\ live' = [live EXCEPT ![c] = {p}]
        BY <1>3, <2>1 DEF OpenSucceeds
      <3> HIDE DEF p
      <3>3. QED
        BY <3>1, <3>2, <1>c DEF Types, OnePool
    <2>6. Current'
      BY <1>3, <1>c, <2>1 DEF OpenSucceeds, Types, Current
    <2>7. QED
      BY <2>3, <2>4, <2>5, <2>6
  <1>4. CASE OpenFails(t)
    <2>1. holder[c] = t
      BY <1>4 DEF OpenFails, Held
    <2>2. \A u \in Task : u # t /\ state[u] = "opening" => target[u] # c
      BY <2>1 DEF Held
    <2>3. QED
      BY <1>4, <1>c, <2>1, <2>2, TaskAssumption DEF OpenFails, Types, Held, OnePool, Current, State
  <1>5. CASE Acquire(t) \/ GiveUp(t) \/ Answer(t)
    <2>1. /\ state[t] \in {"waiting", "using"} /\ UNCHANGED <<target, pool, connVars, next>>
          /\ \/ state' = [state EXCEPT ![t] = "using"]
             \/ state' = [state EXCEPT ![t] = "ok"] /\ state[t] = "using"
             \/ state' = [state EXCEPT ![t] = "failed"]
      BY <1>5 DEF Acquire, GiveUp, Answer
    <2>2. Types' /\ OnePool'
      BY <2>1 DEF Types, OnePool, State, connVars
    <2>3. Held'
      BY <2>1 DEF Types, Held, connVars
    <2>4. Current'
      BY <2>1 DEF Types, Current, connVars
    <2>5. QED
      BY <2>2, <2>3, <2>4
  <1>6. CASE Expire(t) \/ Cancel(t)
    BY <1>6 DEF Expire, Cancel, Types, Held, OnePool, Current, connVars
  <1>7. QED
    BY <1>1, <1>2, <1>3, <1>4, <1>5, <1>6 DEF TaskStep, Proceed

LEMMA CloseInv ==
  ASSUME ManagerInv, StartClose \/ CloseStep
  PROVE  ManagerInv'
  <1> USE DEF ManagerInv
  <1>1. CASE StartClose
    BY <1>1, ConnAssumption DEF StartClose, Types, Held, OnePool, Current, taskVars, connVars
  <1>2. CASE LockToClose
    BY <1>2, TaskAssumption DEF LockToClose, Free, Types, Held, OnePool, Current, taskVars
  <1>3. CASE CloseConn
    <2>1. next \in Conn /\ next # 0 /\ next + 1 <= NConn + 1
      BY <1>3, ConnAssumption DEF CloseConn, Conn
    <2>2. \A u \in Task : state[u] = "opening" => target[u] # next
      BY <1>3, TaskAssumption DEF CloseConn, Held
    <2>3. Types'
      BY <1>3, <2>1, ConnAssumption DEF CloseConn, Types, taskVars
    <2>4. Held'
      BY <1>3, <2>1, <2>2, TaskAssumption DEF CloseConn, Types, Held, taskVars
    <2>5. OnePool'
      BY <1>3, <2>1 DEF CloseConn, Types, OnePool
    <2>6. Current'
      BY <1>3, <2>1 DEF CloseConn, Types, Current
    <2>7. QED
      BY <2>3, <2>4, <2>5, <2>6
  <1>4. QED
    BY <1>1, <1>2, <1>3 DEF CloseStep

LEMMA CalmInv ==
  ASSUME ManagerInv, UNCHANGED <<state, target, pool, connVars, next>>
  PROVE  ManagerInv'
  BY DEF ManagerInv, Types, Held, OnePool, Current, connVars

LEMMA ManagerStepInv == ManagerInv /\ [ManagerNext]_managerVars => ManagerInv'
  <1> SUFFICES ASSUME ManagerInv, [ManagerNext]_managerVars PROVE ManagerInv'
    OBVIOUS
  <1>1. ASSUME NEW t \in Task, Begin(t) PROVE ManagerInv'
    <2>1. state' = [u \in Task |-> IF u \in {t} THEN "locking" ELSE state[u]]
      BY <1>1 DEF Begin, Goto, ManagerInv, Types
    <2>2. {t} \in SUBSET Task /\ \A u \in {t} : state[u] = "idle"
      BY <1>1 DEF Begin
    <2>3. UNCHANGED <<target, pool, connVars, next>>
      BY <1>1 DEF Begin
    <2>4. QED
      BY <2>1, <2>2, <2>3, BeginInv
  <1>2. CASE \E c \in Fragile : Hang(c)
    BY <1>2, CalmInv DEF Hang, taskVars
  <1>3. CASE UNCHANGED managerVars
    BY <1>3, CalmInv DEF managerVars, taskVars
  <1>4. QED
    BY <1>1, <1>2, <1>3, TaskInv, CloseInv DEF ManagerNext

\* The manager has at most one live pool of each connection and it is the one
\* in the entry: concurrent first uses do not open two, a failed open can be
\* tried again, Close loses none.
THEOREM OnePoolEach == ManagerSpec => []OnePool
  <1>1. ManagerInv => OnePool
    BY DEF ManagerInv
  <1>2. QED
    BY <1>1, ManagerInitInv, ManagerStepInv, PTL DEF ManagerSpec

-----------------------------------------------------------------------------
(* How many pools are opened. *)

\* Those who have been given a pool of a connection.
Given(c) == {t \in Task : target[t] = c /\ pool[t] # 0}

\* Every pool was opened by a task of its own, which has it ever after; nobody
\* has one that was not opened.
Numbered ==
    /\ \A t \in Task : /\ state[t] \in {"idle", "locking", "opening"} => pool[t] = 0
                      /\ pool[t] <= opened[target[t]]
    /\ \A c \in Conn : /\ opened[c] <= Cardinality(Given(c))
                      /\ backend[c] <= opened[c] /\ live[c] \subseteq 1..opened[c]
    /\ expired \in [Task -> BOOLEAN] /\ hung \subseteq Fragile

\* More tasks with a pool, more to count.
LEMMA CountGiven ==
  ASSUME NEW S \in SUBSET Task, NEW T \in SUBSET Task, S \subseteq T
  PROVE  /\ Cardinality(S) \in Nat /\ Cardinality(T) \in Nat
         /\ Cardinality(S) <= Cardinality(T) /\ Cardinality(T) <= Cardinality(Task)
         /\ \A t \in T \ S : Cardinality(S) + 1 <= Cardinality(T)
  <1>1. IsFiniteSet(S) /\ IsFiniteSet(T) /\ IsFiniteSet(Task)
    BY TaskAssumption, FS_Subset
  <1>2. /\ Cardinality(S) \in Nat /\ Cardinality(T) \in Nat
        /\ Cardinality(S) <= Cardinality(T) /\ Cardinality(T) <= Cardinality(Task)
    BY <1>1, FS_Subset, FS_CardinalityType
  <1>3. ASSUME NEW t \in T \ S PROVE Cardinality(S) + 1 <= Cardinality(T)
    <2>1. IsFiniteSet(S \cup {t}) /\ Cardinality(S \cup {t}) = Cardinality(S) + 1
      BY <1>1, FS_AddElement
    <2>2. S \cup {t} \subseteq T
      OBVIOUS
    <2>3. QED
      BY <1>1, <2>1, <2>2, FS_Subset
  <1>4. QED
    BY <1>2, <1>3

LEMMA NumberedInit == ManagerInit => Numbered
  <1> SUFFICES ASSUME ManagerInit PROVE Numbered
    OBVIOUS
  <1>1. \A c \in Conn : Given(c) = {}
    BY DEF ManagerInit, Given
  <1>2. QED
    BY <1>1, FS_EmptySet DEF ManagerInit, Numbered

\* A step that opens nothing.
LEMMA NumberedQuiet ==
  ASSUME ManagerInv, Numbered, UNCHANGED <<target, pool, opened>>,
         expired' \in [Task -> BOOLEAN], hung' \subseteq Fragile,
         \A t \in Task : state'[t] \in {"idle", "locking", "opening"} =>
                          state[t] \in {"idle", "locking", "opening"},
         \A c \in Conn : backend'[c] \in {backend[c], 0} /\ live'[c] \subseteq live[c]
  PROVE  Numbered'
  <1>1. \A c \in Conn : Given(c)' = Given(c)
    BY DEF Given
  <1>2. \A c \in Conn : 0 <= opened[c] /\ opened'[c] = opened[c]
    BY DEF ManagerInv, Types
  <1>3. QED
    BY <1>1, <1>2 DEF Numbered

LEMMA NumberedReuse ==
  ASSUME ManagerInv, Numbered, NEW t \in Task, Reuse(t)
  PROVE  Numbered'
  <1> DEFINE c == target[t]
  <1>1. c \in Conn /\ pool[t] = 0 /\ backend[c] <= opened[c]
    BY DEF ManagerInv, Types, Numbered, Reuse
  <1>2. \A d \in Conn : Given(d) \subseteq Given(d)'
    BY <1>1 DEF Given, Reuse, ManagerInv, Types
  <1>3. \A d \in Conn : opened[d] <= Cardinality(Given(d)')
    <2> TAKE d \in Conn
    <2>1. Given(d) \in SUBSET Task /\ Given(d)' \in SUBSET Task
      BY DEF Given
    <2>2. opened[d] <= Cardinality(Given(d)) /\ opened[d] \in Nat
      BY DEF ManagerInv, Types, Numbered
    <2>3. QED
      BY <1>2, <2>1, <2>2, CountGiven
  <1>4. QED
    BY <1>1, <1>3 DEF Reuse, Goto, connVars, Numbered, ManagerInv, Types

LEMMA NumberedOpen ==
  ASSUME ManagerInv, Numbered, NEW t \in Task, OpenSucceeds(t)
  PROVE  Numbered'
  <1> DEFINE c == target[t]
             p == opened[c] + 1
  <1>1. c \in Conn /\ pool[t] = 0 /\ opened[c] \in Nat /\ p \in Nat \ {0}
    BY DEF ManagerInv, Types, Numbered, OpenSucceeds
  <1>2. /\ opened' = [opened EXCEPT ![c] = p] /\ pool' = [pool EXCEPT ![t] = p]
        /\ backend' = [backend EXCEPT ![c] = p] /\ live' = [live EXCEPT ![c] = @ \cup {p}]
        /\ state' = [state EXCEPT ![t] = "waiting"]
        /\ UNCHANGED <<target, expired, hung>>
    BY DEF OpenSucceeds, Goto
  <1>3. p > opened[c] /\ p = opened[c] + 1
    BY <1>1
  <1> HIDE DEF p
  <1>4. \A d \in Conn : opened'[d] <= Cardinality(Given(d)')
    <2> SUFFICES ASSUME NEW d \in Conn PROVE opened'[d] <= Cardinality(Given(d)')
      OBVIOUS
    <2>1. /\ Given(d) \in SUBSET Task /\ Given(d)' \in SUBSET Task
          /\ Given(d) \subseteq Given(d)' /\ (d = c => t \in Given(d)' \ Given(d))
      BY <1>1, <1>2 DEF Given, ManagerInv, Types
    <2>2. opened[d] <= Cardinality(Given(d)) /\ opened[d] \in Nat
      BY DEF ManagerInv, Types, Numbered
    <2>3. /\ Cardinality(Given(d)) \in Nat /\ Cardinality(Given(d)') \in Nat
          /\ Cardinality(Given(d)) <= Cardinality(Given(d)')
          /\ d = c => Cardinality(Given(d)) + 1 <= Cardinality(Given(d)')
      BY <2>1, CountGiven
    <2>4. opened'[d] = IF d = c THEN opened[d] + 1 ELSE opened[d]
      BY <1>1, <1>2, <1>3 DEF ManagerInv, Types
    <2>5. QED
      BY <2>2, <2>3, <2>4
  <1>5. \A u \in Task : /\ state'[u] \in {"idle", "locking", "opening"} => pool'[u] = 0
                        /\ pool'[u] <= opened'[target'[u]]
    BY <1>1, <1>2, <1>3 DEF Numbered, ManagerInv, Types
  <1>6. \A d \in Conn : backend'[d] <= opened'[d] /\ live'[d] \subseteq 1..opened'[d]
    BY <1>1, <1>2, <1>3 DEF Numbered, ManagerInv, Types
  <1>7. QED
    BY <1>2, <1>4, <1>5, <1>6 DEF Numbered

LEMMA NumberedStep == ManagerInv /\ Numbered /\ [ManagerNext]_managerVars => Numbered'
  <1> SUFFICES ASSUME ManagerInv, Numbered, [ManagerNext]_managerVars PROVE Numbered'
    OBVIOUS
  <1>t. expired \in [Task -> BOOLEAN] /\ hung \subseteq Fragile /\ state \in [Task -> State]
    BY DEF Numbered, ManagerInv, Types
  <1>1. ASSUME NEW t \in Task, Begin(t) \/ StartOpen(t) \/ OpenFails(t) \/ Acquire(t)
                               \/ GiveUp(t) \/ Answer(t) \/ Expire(t) \/ Cancel(t)
        PROVE  Numbered'
    <2>1. /\ UNCHANGED <<target, pool, opened, backend, live, hung>>
          /\ expired' \in [Task -> BOOLEAN]
      BY <1>t, <1>1 DEF Begin, StartOpen, OpenFails, Acquire, GiveUp, Answer, Expire, Cancel,
                        connVars
    <2>2. \A u \in Task : state'[u] \in {"idle", "locking", "opening"} =>
                              state[u] \in {"idle", "locking", "opening"}
      BY <1>t, <1>1 DEF Begin, StartOpen, OpenFails, Acquire, GiveUp, Answer, Expire, Cancel, Goto
    <2>3. QED
      BY <1>t, <2>1, <2>2, NumberedQuiet
  <1>2. CASE StartClose \/ CloseStep \/ \E c \in Fragile : Hang(c)
    <2>1. /\ UNCHANGED <<target, pool, opened, expired, state>> /\ hung' \subseteq Fragile
      BY <1>t, <1>2 DEF StartClose, CloseStep, LockToClose, CloseConn, Hang, taskVars, connVars
    <2>2. \A c \in Conn : backend'[c] \in {backend[c], 0} /\ live'[c] \subseteq live[c]
      BY <1>2 DEF StartClose, CloseStep, LockToClose, CloseConn, Hang, connVars, ManagerInv, Types
    <2>3. QED
      BY <1>t, <2>1, <2>2, NumberedQuiet
  <1>3. CASE UNCHANGED managerVars
    BY <1>t, <1>3, NumberedQuiet DEF managerVars, taskVars, connVars
  <1>4. QED
    BY <1>1, <1>2, <1>3, NumberedReuse, NumberedOpen DEF ManagerNext, TaskStep, Proceed

\* The types, and that a connection never has more pools in its time than there
\* are tasks: every pool was opened for one (manager.go:159-185).
THEOREM ManagerTypes == ManagerSpec => []TypeOK
  <1>1. ManagerInv /\ Numbered => TypeOK
    <2> SUFFICES ASSUME ManagerInv, Numbered PROVE TypeOK
      OBVIOUS
    <2>1. \A c \in Conn : Given(c) \in SUBSET Task
      BY DEF Given
    <2>2. /\ Cardinality(Task) \in Nat
          /\ \A c \in Conn : opened[c] \in Nat /\ opened[c] <= Cardinality(Task)
      <3>1. Cardinality(Task) \in Nat
        BY TaskAssumption, FS_CardinalityType
      <3>2. \A c \in Conn : /\ Cardinality(Given(c)) \in Nat
                            /\ Cardinality(Given(c)) <= Cardinality(Task)
        BY <2>1, CountGiven
      <3>3. QED
        BY <3>1, <3>2 DEF Numbered, ManagerInv, Types
    <2>3. opened \in [Conn -> {0} \cup Pool] /\ backend \in [Conn -> {0} \cup Pool]
      BY <2>2 DEF Numbered, ManagerInv, Types, Pool
    <2>4. pool \in [Task -> {0} \cup Pool]
      BY <2>2 DEF Numbered, ManagerInv, Types, Pool
    <2>5. live \in [Conn -> SUBSET Pool]
      BY <2>2 DEF Numbered, ManagerInv, Types, Pool
    <2>6. next \in 0..(NConn + 1)
      BY ConnAssumption DEF ManagerInv, Types
    <2>7. QED
      BY <2>3, <2>4, <2>5, <2>6 DEF TypeOK, ManagerInv, Types, Numbered
  <1>2. QED
    BY <1>1, ManagerInitInv, ManagerStepInv, NumberedInit, NumberedStep, PTL DEF ManagerSpec

-----------------------------------------------------------------------------
(* The server. *)

Up == {"serving", "stopping", "closingExports"}
Down == {"closingPools", "exited"}

ServerTypes == server \in ServerState /\ overrun \in BOOLEAN

\* A ping is for the connection it is named after.
Named == \A p \in Probe, c \in Conn : target[<<p, c>>] = c

\* The manager is closed last, and an overrun is one of the shutdown.
Order ==
    /\ server \notin Down => next = 0
    /\ server = "exited" => next = NConn + 1
    /\ overrun => exportsClosed /\ server \in {"closingExports"} \cup Down

\* Who is at work at which stage.
Quiet ==
    /\ server = "starting" => \A t \in Task : state[t] = "idle"
    /\ server = "checking" => \A t \in Task \ Pings(Startup) : state[t] = "idle"
    /\ server \in {"closingExports"} \cup Down /\ ~overrun => Active(Task) = {}
    /\ server \in Down => Active(Export) = {}

\* Which pools are there at which stage.
Pools ==
    /\ server \in Up => \A c \in Conn : backend[c] # 0
    /\ ~overrun => \A c \in Conn : c < next => backend[c] = 0

Stages == ServerTypes /\ Named /\ Order /\ Quiet /\ Pools
ServerInv == ManagerInv /\ Stages

LEMMA Pinging ==
  ASSUME NEW p \in Probe
  PROVE  Pings(p) \subseteq Task /\ Pings(p) \cap Export = {}
         /\ \A c \in Conn : <<p, c>> \in Pings(p)
  BY ServerAssumption DEF Pings

LEMMA ExportsAreTasks == Export \subseteq Task
  BY ServerAssumption

LEMMA ServerInitInv == Init => ServerInv
  <1> SUFFICES ASSUME Init PROVE ServerInv
    OBVIOUS
  <1>1. ManagerInv
    BY ManagerInitInv DEF Init
  <1>2. Stages
    BY <1>1, ConnAssumption, ExportsAreTasks
    DEF Init, ManagerInit, Stages, ServerTypes, ServerState, Named, Order, Quiet, Pools,
        Up, Down, Conn
  <1>3. QED
    BY <1>1, <1>2 DEF ServerInv

\* What a step of a task can change.
LEMMA TaskMoves ==
  ASSUME ManagerInv, NEW t \in Task, TaskStep(t)
  PROVE  /\ state[t] \notin {"idle"} \cup Finished
         /\ UNCHANGED <<target, next>>
         /\ \A u \in Task : u # t => state'[u] = state[u]
         /\ \A d \in Conn : backend'[d] # backend[d] => backend'[d] # 0
  <1> USE DEF ManagerInv, Types, Goto, Finished, connVars
  <1>1. CASE Reuse(t) \/ StartOpen(t)
    BY <1>1 DEF Reuse, StartOpen
  <1>2. CASE OpenSucceeds(t)
    <2>1. target[t] \in Conn /\ opened[target[t]] + 1 # 0
      OBVIOUS
    <2>2. QED
      BY <1>2, <2>1 DEF OpenSucceeds
  <1>3. CASE OpenFails(t) \/ Acquire(t) \/ GiveUp(t) \/ Answer(t)
    BY <1>3 DEF OpenFails, Acquire, GiveUp, Answer
  <1>4. CASE Expire(t) \/ Cancel(t)
    BY <1>4 DEF Expire, Cancel
  <1>5. QED
    BY <1>1, <1>2, <1>3, <1>4 DEF TaskStep, Proceed

LEMMA TaskStages ==
  ASSUME ServerInv, NEW t \in Task, TaskStep(t), server # "exited", UNCHANGED serverVars
  PROVE  ServerInv'
  <1> USE DEF ServerInv, Stages, serverVars
  <1>1. ManagerInv'
    BY TaskInv
  <1>2. /\ state[t] \notin {"idle"} \cup Finished /\ UNCHANGED <<target, next>>
        /\ \A u \in Task : u # t => state'[u] = state[u]
        /\ \A d \in Conn : backend'[d] # backend[d] => backend'[d] # 0
    BY TaskMoves
  <1>3. ServerTypes' /\ Named' /\ Order'
    BY <1>2 DEF ServerTypes, Named, Order
  <1>4. t \in Active(Task) /\ (t \in Export => t \in Active(Export))
    BY <1>2 DEF Active
  <1>5. Quiet'
    <2>1. server = "starting" => FALSE
      BY <1>2 DEF Quiet
    <2>2. server = "checking" => t \in Pings(Startup)
      BY <1>2 DEF Quiet
    <2>3. server \in Down => t \notin Export
      BY <1>4 DEF Quiet
    <2>4. server \in Down => Active(Export)' = {}
      BY <1>2, <2>3, ExportsAreTasks DEF Quiet, Active
    <2>5. server \in {"closingExports"} \cup Down => overrun
      BY <1>4 DEF Quiet
    <2>6. QED
      BY <1>2, <2>1, <2>2, <2>4, <2>5 DEF Quiet, Down
  <1>6. Pools'
    <2>1. next # 0 => overrun
      BY <1>4 DEF Quiet, Order
    <2>2. overrun \/ \A d \in Conn : ~(d < next)
      BY <2>1, ConnAssumption DEF Conn
    <2>3. QED
      BY <1>2, <2>2 DEF Pools
  <1>7. QED
    BY <1>1, <1>3, <1>5, <1>6

\* Somebody begins: a request, or all the pings of a probe.
LEMMA BeginStages ==
  ASSUME ServerInv, NEW S \in SUBSET Task, \A t \in S : state[t] = "idle",
         state' = [t \in Task |-> IF t \in S THEN "locking" ELSE state[t]],
         UNCHANGED <<target, pool, connVars, next, serverVars>>,
         Accepted, S \cap Export # {} => ~exportsClosed
  PROVE  ServerInv'
  <1> USE DEF ServerInv, Stages, serverVars
  <1>1. ManagerInv'
    BY BeginInv
  <1>2. server \notin {"starting", "checking"}
    BY DEF Accepted, Order, Down
  <1>3. server \in {"closingExports"} \cup Down => overrun
    BY DEF Accepted, Down
  <1>4. server \in Down => S \cap Export = {}
    BY <1>3 DEF Order, Down
  <1>5. Quiet'
    <2>1. server \in Down => Active(Export)' = {}
      BY <1>4, ExportsAreTasks DEF Quiet, Active
    <2>2. QED
      BY <1>2, <1>3, <2>1 DEF Quiet, Down
  <1>6. ServerTypes' /\ Named' /\ Order' /\ Pools'
    BY DEF ServerTypes, Named, Order, Pools, connVars
  <1>7. QED
    BY <1>1, <1>5, <1>6

LEMMA StartCheckStages ==
  ASSUME ServerInv, StartCheck
  PROVE  ServerInv'
  <1> USE DEF ServerInv, Stages
  <1>1. /\ server = "starting" /\ server' = "checking"
        /\ state' = [t \in Task |-> IF t \in Pings(Startup) THEN "locking" ELSE state[t]]
        /\ UNCHANGED <<target, pool, connVars, next, overrun>>
    BY DEF StartCheck, StartPings
  <1>2. Pings(Startup) \in SUBSET Task /\ \A t \in Task : state[t] = "idle"
    BY <1>1, Pinging, ServerAssumption DEF Quiet
  <1>3. ManagerInv'
    BY <1>1, <1>2, BeginInv
  <1>4. ServerTypes' /\ Named' /\ Order'
    BY <1>1 DEF ServerTypes, ServerState, Named, Order, Down
  <1>5. Quiet' /\ Pools'
    BY <1>1, <1>2 DEF Quiet, Pools, Up, Down, connVars
  <1>6. QED
    BY <1>3, <1>4, <1>5

\* The check has opened every pool, or nobody is left to open one.
LEMMA CheckStages ==
  ASSUME ServerInv, CheckPassed \/ CheckFailed
  PROVE  ServerInv'
  <1> USE DEF ServerInv, Stages, StartClose, managerVars
  <1>1. server = "checking" /\ next = 0 /\ ~overrun
    BY DEF CheckPassed, CheckFailed, Order, Down
  <1>2. CASE CheckPassed
    <2>1. ManagerInv'
      BY <1>2, CalmInv DEF CheckPassed, taskVars
    <2>2. ASSUME NEW c \in Conn PROVE backend[c] # 0
      <3>1. <<Startup, c>> \in Task /\ state[<<Startup, c>>] = "ok" /\ target[<<Startup, c>>] = c
        BY <1>2, Pinging, ServerAssumption DEF CheckPassed, Named
      <3>2. QED
        BY <3>1, <1>1 DEF ManagerInv, Current
    <2>3. ServerTypes' /\ Named' /\ Order' /\ Quiet' /\ Pools'
      BY <1>1, <1>2, <2>2
      DEF CheckPassed, ServerTypes, ServerState, Named, Order, Quiet, Pools, Up, Down, connVars, taskVars
    <2>4. QED
      BY <2>1, <2>3
  <1>3. CASE CheckFailed
    <2>1. ManagerInv'
      BY <1>3, CloseInv DEF CheckFailed
    <2>2. Active(Task) = {} /\ Active(Export) = {}
      BY <1>1, <1>3, ExportsAreTasks DEF CheckFailed, Reported, Quiet, Active
    <2>3. Quiet'
      BY <1>1, <1>3, <2>2 DEF CheckFailed, Quiet, Active, Down, taskVars
    <2>4. Pools'
      <3>1. ASSUME NEW c \in Conn, c < 1 PROVE FALSE
        BY <3>1, ConnAssumption DEF Conn
      <3>2. server' \notin Up /\ next' = 1
        BY <1>3 DEF CheckFailed, Up
      <3>3. QED
        BY <3>1, <3>2 DEF Pools
    <2>5. ServerTypes' /\ Named' /\ Order'
      BY <1>1, <1>3 DEF CheckFailed, ServerTypes, ServerState, Named, Order, Down, taskVars
    <2>6. QED
      BY <2>1, <2>3, <2>4, <2>5
  <1>4. QED
    BY <1>2, <1>3

LEMMA StopStages ==
  ASSUME ServerInv, Stop \/ Stopped
  PROVE  ServerInv'
  <1> USE DEF ServerInv, Stages, Stop, Stopped, managerVars, taskVars
  <1>1. ManagerInv'
    BY CalmInv
  <1>2. server \in {"serving", "stopping"} /\ server' \in {"stopping", "closingExports"}
        /\ (~overrun' /\ server' = "closingExports" => Active(Task) = {})
    BY DEF ServerTypes
  <1>3. ServerTypes' /\ Named' /\ Order'
    BY <1>2 DEF ServerTypes, ServerState, Named, Order, Down
  <1>4. Quiet'
    BY <1>2 DEF Quiet, Down, Active
  <1>5. Pools'
    BY <1>2, ConnAssumption DEF Pools, Order, Up, Down, Conn, connVars
  <1>6. QED
    BY <1>1, <1>3, <1>4, <1>5

LEMMA CloseStages ==
  ASSUME ServerInv, ExportsDrained \/ ClosePools \/ Leave
  PROVE  ServerInv'
  <1> USE DEF ServerInv, Stages, StartClose, managerVars, serverVars
  <1>1. CASE ExportsDrained
    <2>1. server = "closingExports" /\ server' = "closingPools" /\ next' = 1
          /\ UNCHANGED <<state, target, backend, overrun, exportsClosed>>
          /\ Active(Export) = {}
      BY <1>1 DEF ExportsDrained, taskVars, connVars
    <2>2. ManagerInv'
      BY <1>1, CloseInv DEF ExportsDrained
    <2>3. ServerTypes' /\ Named' /\ Order' /\ Quiet'
      BY <2>1 DEF ServerTypes, ServerState, Named, Order, Quiet, Down, Active
    <2>4. Pools'
      <3>1. ASSUME NEW c \in Conn, c < 1 PROVE FALSE
        BY <3>1, ConnAssumption DEF Conn
      <3>2. QED
        BY <2>1, <3>1 DEF Pools, Up
    <2>5. QED
      BY <2>2, <2>3, <2>4
  <1>2. CASE ClosePools
    <2>1. ManagerInv'
      BY <1>2, CloseInv DEF ClosePools
    <2>2. next \in Conn /\ server \in Down /\ server # "exited"
      BY <1>2, ConnAssumption DEF ClosePools, CloseStep, LockToClose, CloseConn, Order, Conn, ServerTypes, ServerState, Down
    <2>3. /\ UNCHANGED <<state, target, server, overrun, exportsClosed>>
          /\ \/ UNCHANGED <<backend, next>>
             \/ backend' = [backend EXCEPT ![next] = 0] /\ next' = next + 1
      BY <1>2 DEF ClosePools, CloseStep, LockToClose, CloseConn, taskVars
    <2>4. ServerTypes' /\ Named' /\ Order' /\ Quiet'
      BY <2>2, <2>3 DEF ServerTypes, Named, Order, Quiet, Active
    <2>5. Pools'
      <3>1. \A c \in Conn : c < next + 1 <=> c < next \/ c = next
        BY <2>2, ConnAssumption DEF Conn
      <3>2. server' \notin Up
        BY <2>2, <2>3 DEF Up, Down
      <3>3. QED
        BY <2>2, <2>3, <3>1, <3>2 DEF Pools, ManagerInv, Types
    <2>6. QED
      BY <2>1, <2>4, <2>5
  <1>3. CASE Leave
    <2>1. ManagerInv'
      BY <1>3, CalmInv DEF Leave, taskVars
    <2>2. Stages'
      BY <1>3 DEF Leave, ServerTypes, ServerState, Named, Order, Quiet, Pools, Active, Up, Down, taskVars, connVars
    <2>3. QED
      BY <2>1, <2>2
  <1>4. QED
    BY <1>1, <1>2, <1>3

LEMMA RefuseStages ==
  ASSUME ServerInv, NEW t \in Export, RefuseExport(t)
  PROVE  ServerInv'
  <1> USE DEF ServerInv, Stages, RefuseExport, Goto, serverVars
  <1>1. t \in Task /\ state[t] = "idle"
    BY ExportsAreTasks
  <1>2. ManagerInv'
    BY <1>1 DEF ManagerInv, Types, Held, OnePool, Current, State, connVars
  <1>3. server \notin {"starting", "checking"}
    BY DEF Accepted, Order, Down
  <1>4. Quiet'
    BY <1>1, <1>3, ExportsAreTasks DEF Quiet, Active, Finished, ManagerInv, Types
  <1>5. ServerTypes' /\ Named' /\ Order' /\ Pools'
    BY DEF ServerTypes, Named, Order, Pools, connVars
  <1>6. QED
    BY <1>2, <1>4, <1>5

LEMMA CalmStages ==
  ASSUME ServerInv, UNCHANGED <<state, target, pool, connVars, next, serverVars>>
  PROVE  ServerInv'
  <1>1. ManagerInv'
    BY CalmInv DEF ServerInv
  <1>2. Stages'
    BY DEF ServerInv, Stages, ServerTypes, Named, Order, Quiet, Pools, Active, serverVars, connVars
  <1>3. QED
    BY <1>1, <1>2 DEF ServerInv

LEMMA ServerStepInv == ServerInv /\ [Next]_vars => ServerInv'
  <1> SUFFICES ASSUME ServerInv, [Next]_vars PROVE ServerInv'
    OBVIOUS
  <1>1. CASE Main \/ Stop
    BY <1>1, StartCheckStages, CheckStages, StopStages, CloseStages DEF Main
  <1>2. ASSUME NEW t \in Task, StartRequest(t), t \in Export => ~exportsClosed PROVE ServerInv'
    <2>1. {t} \in SUBSET Task /\ (\A u \in {t} : state[u] = "idle")
          /\ ({t} \cap Export # {} => ~exportsClosed)
      BY <1>2 DEF StartRequest, Begin
    <2>2. state' = [u \in Task |-> IF u \in {t} THEN "locking" ELSE state[u]]
      BY <1>2 DEF StartRequest, Begin, Goto, ServerInv, ManagerInv, Types
    <2>3. Accepted /\ UNCHANGED <<target, pool, connVars, next, serverVars>>
      BY <1>2 DEF StartRequest, Begin
    <2>4. QED
      BY <2>1, <2>2, <2>3, BeginStages
  <1>3. ASSUME NEW p \in Probe, StartProbe(p) PROVE ServerInv'
    <2>1. Pings(p) \in SUBSET Task /\ Pings(p) \cap Export = {}
      BY Pinging
    <2>2. QED
      BY <1>3, <2>1, BeginStages DEF StartProbe, StartPings
  <1>4. ASSUME NEW t \in Task, Work(t) \/ Time(t) \/ Abandon(t) PROVE ServerInv'
    BY <1>4, TaskStages DEF Work, Time, Abandon, TaskStep
  <1>5. CASE \E c \in Fragile : StopAnswering(c)
    BY <1>5, CalmStages DEF StopAnswering, Hang, taskVars
  <1>6. CASE UNCHANGED vars
    BY <1>6, CalmStages DEF vars, managerVars, taskVars
  <1>7. ASSUME NEW t \in Query \cup Listing, StartRequest(t) PROVE ServerInv'
    BY <1>2, <1>7, ServerAssumption
  <1>8. ASSUME NEW t \in Export, StartExport(t) \/ RefuseExport(t) PROVE ServerInv'
    BY <1>2, <1>8, ExportsAreTasks, RefuseStages DEF StartExport
  <1>9. QED
    BY <1>1, <1>3, <1>4, <1>5, <1>6, <1>7, <1>8 DEF Next

LEMMA ServerInvAlways == Spec => []ServerInv
  BY ServerInitInv, ServerStepInv, PTL DEF Spec

\* While the server is up every connection has its pool and nobody opens one,
\* so no request waits for a lock that is held over a dead database.
THEOREM ServingOpensNothing == Spec => []PoolsOpenWhileServing
  <1>1. ServerInv => PoolsOpenWhileServing
    <2> SUFFICES ASSUME ServerInv, server \in Up PROVE PoolsOpenWhileServing
      BY DEF PoolsOpenWhileServing, Up
    <2>1. \A c \in Conn : backend[c] # 0
      BY DEF ServerInv, Stages, Pools
    <2>2. QED
      BY <2>1 DEF PoolsOpenWhileServing, ServerInv, ManagerInv, Types, Held
  <1>2. QED
    BY <1>1, ServerInvAlways, PTL

\* The shutdown closes no pool under an export, and none under another request
\* that was over before the shutdown timeout.
THEOREM ShutdownSparesRequests == Spec => []PoolsOutliveRequests
  <1>1. ServerInv => PoolsOutliveRequests
    <2> SUFFICES ASSUME ServerInv, NEW t \in Task, state[t] \in {"waiting", "using"},
                        t \in Export \/ ~overrun
                 PROVE  pool[t] \in live[target[t]]
      BY DEF PoolsOutliveRequests
    <2>1. t \in Active(Task) /\ (t \in Export => t \in Active(Export))
      BY DEF Active, Finished
    <2>2. server \notin Down
      BY <2>1 DEF ServerInv, Stages, Quiet
    <2>3. target[t] \in Conn /\ pool[t] # 0 /\ backend[target[t]] = pool[t]
      BY <2>2 DEF ServerInv, Stages, Order, ManagerInv, Types, Current
    <2>4. QED
      BY <2>3 DEF ServerInv, ManagerInv, OnePool
  <1>2. QED
    BY <1>1, ServerInvAlways, PTL

\* An orderly exit leaves no pool open.
THEOREM NothingLeftOpen == Spec => []ExitReleasesPools
  <1>1. ServerInv => ExitReleasesPools
    <2> SUFFICES ASSUME ServerInv, server = "exited", ~overrun, NEW c \in Conn PROVE live[c] = {}
      BY DEF ExitReleasesPools
    <2>1. c < next
      BY ConnAssumption DEF ServerInv, Stages, Order, Conn
    <2>2. backend[c] = 0
      BY <2>1 DEF ServerInv, Stages, Pools
    <2>3. QED
      BY <2>2 DEF ServerInv, ManagerInv, OnePool
  <1>2. QED
    BY <1>1, ServerInvAlways, PTL

=============================================================================
