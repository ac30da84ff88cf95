-------------------------- MODULE ExportStoreProofs --------------------------
(***************************************************************************)
(* Theorems about ExportStore, for every number of calls and every value   *)
(* of the limits.                                                          *)
(***************************************************************************)
EXTENDS ExportStore, FiniteSetTheorems, TLAPS

-----------------------------------------------------------------------------
(* Shape of the state.  TypeOK as far as it is inductive by itself: that no *)
(* counter becomes negative needs CountersExact.                            *)

Shape ==
    /\ phase \in [Call -> Phase] /\ outcome \in [Call -> Outcome]
    /\ written \in [Call -> 0..MaxBytes] /\ expires \in [Call -> Nat]
    /\ fetch \in [Link -> FetchState]
    /\ janitor \in {"running", "done"} /\ closer \in CloserState /\ closeErr \in BOOLEAN
    /\ entries \subseteq Call
    /\ disk \in [Call -> {"none", "partial", "final"}] /\ stuck \subseteq Call
    /\ up \in BOOLEAN /\ exits \in 0..MaxExits /\ now \in 0..MaxTime

\* Remove touches nothing but the files of S.
LEMMA RemoveShape ==
  ASSUME Shape, NEW S \in SUBSET Call, NEW F \in SUBSET Call, Remove(S, F)
  PROVE  /\ disk' \in [Call -> {"none", "partial", "final"}]
         /\ stuck' \subseteq Call
  BY DEF Shape, Remove

LEMMA SweepShape ==
  ASSUME Shape, RemoveExpired
  PROVE  /\ disk' \in [Call -> {"none", "partial", "final"}]
         /\ stuck' \subseteq Call
         /\ entries' \subseteq Call
  BY RemoveShape DEF Shape, RemoveExpired, Overdue

LEMMA CreateShape ==
  ASSUME Shape, NEW c \in Call, Create(c)
  PROVE  Shape'
  <1> USE LimitAssumption DEF Phase, Outcome, Goto, Return,
          callVars, lockVars, diskVars, closeVars, worldVars
  <1>1. CASE Begin(c) \/ AcquireSlot(c) \/ GiveUp(c) \/ RejectClosed(c)
    BY <1>1 DEF Shape, Begin, AcquireSlot, GiveUp, RejectClosed
  <1>2. CASE Admit(c) \/ Refuse(c)
    BY <1>2, SweepShape DEF Shape, Admit, Refuse
  <1>3. CASE OpenTemp(c) \/ EndWrite(c) \/ Rename(c)
    BY <1>3 DEF Shape, OpenTemp, EndWrite, Rename
  <1>4. CASE Write(c)
    BY <1>4 DEF Shape, Write
  <1>5. CASE Stamp(c)
    BY <1>5, BoundAssumption DEF Shape, Stamp
  <1>6. CASE Publish(c)
    BY <1>6, RemoveShape DEF Shape, Publish, Overdue
  <1>7. CASE RemoveTemp(c)
    BY <1>7, RemoveShape DEF Shape, RemoveTemp
  <1>8. CASE Unreserve(c) \/ Leave(c) \/ ReleaseSlot(c)
    BY <1>8 DEF Shape, Unreserve, Leave, ReleaseSlot
  <1>9. QED
    BY <1>1, <1>2, <1>3, <1>4, <1>5, <1>6, <1>7, <1>8 DEF Create, Proceed

LEMMA ShapeStep == Shape /\ [Next]_vars => Shape'
  <1> SUFFICES ASSUME Shape, [Next]_vars PROVE Shape'
    OBVIOUS
  <1> USE DEF callVars, lockVars, diskVars, closeVars, worldVars
  <1>1. ASSUME NEW c \in Call, Create(c) PROVE Shape'
    BY <1>1, CreateShape
  <1>2. ASSUME NEW c \in Link, Lookup(c) PROVE Shape'
    BY <1>2, SweepShape DEF Shape, Lookup, FetchState
  <1>3. ASSUME NEW c \in Link, OpenFile(c) PROVE Shape'
    BY <1>3 DEF Shape, OpenFile, FetchState
  <1>4. CASE Sweep
    BY <1>4, SweepShape DEF Shape, Sweep
  <1>5. CASE JanitorExit \/ CloseFlag \/ CloseStop \/ AwaitJanitor \/ AwaitActive
    BY <1>5 DEF Shape, JanitorExit, CloseFlag, CloseStop, AwaitJanitor, AwaitActive, CloserState
  <1>6. CASE RemoveAll
    BY <1>6, RemoveShape DEF Shape, RemoveAll, CloserState
  <1>7. CASE RemoveRoot
    BY <1>7, RemoveShape DEF Shape, RemoveRoot, CloserState
  <1>8. CASE Exit
    <2>1. phase' \in [Call -> Phase]
      <3>1. \A c \in Call : (IF phase[c] \in {"idle", "returned"} THEN phase[c] ELSE "lost") \in Phase
        BY DEF Shape, Phase
      <3>2. QED
        BY <1>8, <3>1 DEF Exit
    <2>2. fetch' \in [Link -> FetchState]
      <3>1. \A c \in Link : (IF fetch[c] = "found" THEN "dropped" ELSE fetch[c]) \in FetchState
        BY DEF Shape, FetchState
      <3>2. QED
        BY <1>8, <3>1 DEF Exit
    <2>3. up' \in BOOLEAN /\ closeErr' \in BOOLEAN
      BY <1>8, Zenon DEF Exit
    <2>4. /\ janitor' \in {"running", "done"} /\ closer' \in CloserState
          /\ entries' \subseteq Call /\ exits' \in 0..MaxExits
      BY <1>8, BoundAssumption DEF Shape, Exit, CloserState
    <2>5. QED
      BY <1>8, <2>1, <2>2, <2>3, <2>4 DEF Shape, Exit
  <1>9. CASE Start
    BY <1>9, RemoveShape DEF Shape, Start
  <1>10. CASE StartOther
    BY <1>10, RemoveShape DEF Shape, StartOther
  <1>11. CASE Tick
    BY <1>11, BoundAssumption DEF Shape, Tick
  <1>12. CASE UNCHANGED vars
    BY <1>12 DEF Shape, vars
  <1>13. QED
    BY <1>1, <1>2, <1>3, <1>4, <1>5, <1>6, <1>7, <1>8, <1>9, <1>10, <1>11, <1>12
       DEF Next, Download, CloseStep

LEMMA ShapeAlways == Spec => []Shape
  <1>1. Init => Shape
    <2> SUFFICES ASSUME Init PROVE Shape
      OBVIOUS
    <2>1. up \in BOOLEAN /\ closeErr \in BOOLEAN
      BY Zenon DEF Init
    <2>2. QED
      BY <2>1, LimitAssumption, BoundAssumption
         DEF Init, Shape, Phase, Outcome, FetchState, CloserState
  <1>2. QED
    BY <1>1, ShapeStep, PTL DEF Spec

-----------------------------------------------------------------------------
(* Counting *)

LEMMA DisjointCardinality ==
  ASSUME NEW A, NEW B, IsFiniteSet(A), IsFiniteSet(B), A \cap B = {}
  PROVE  Cardinality(A \cup B) = Cardinality(A) + Cardinality(B)
  <1>1. Cardinality(A) \in Nat /\ Cardinality(B) \in Nat
    BY FS_CardinalityType
  <1>2. Cardinality(A \cap B) = 0
    BY FS_EmptySet
  <1>3. Cardinality(A \cup B) = Cardinality(A) + Cardinality(B) - Cardinality(A \cap B)
    BY FS_Union
  <1>4. QED
    BY <1>1, <1>2, <1>3

LEMMA IntervalSize ==
  ASSUME NEW n \in Nat
  PROVE  IsFiniteSet(1..n) /\ Cardinality(1..n) = n
  BY FS_Interval

\* A row of n cells.
LEMMA RowSize ==
  ASSUME NEW c, NEW n \in Nat
  PROVE  IsFiniteSet({c} \X (1..n)) /\ Cardinality({c} \X (1..n)) = n
  <1>1. IsFiniteSet({c}) /\ Cardinality({c}) = 1
    BY FS_Singleton
  <1>2. IsFiniteSet({c} \X (1..n)) /\ Cardinality({c} \X (1..n)) = 1 * n
    BY <1>1, IntervalSize, FS_Product
  <1>3. QED
    BY <1>2

\* MaxBytes more or less for every call in a set of reservations.
LEMMA ProductStep ==
  ASSUME NEW S, IsFiniteSet(S), NEW c, c \notin S
  PROVE  Cardinality((S \cup {c}) \X (1..MaxBytes)) = Cardinality(S \X (1..MaxBytes)) + MaxBytes
  <1> DEFINE B == 1..MaxBytes
  <1>1. IsFiniteSet(S \X B)
    BY IntervalSize, FS_Product, LimitAssumption
  <1>2. IsFiniteSet({c} \X B) /\ Cardinality({c} \X B) = MaxBytes
    BY RowSize, LimitAssumption
  <1>3. (S \cup {c}) \X B = (S \X B) \cup ({c} \X B) /\ (S \X B) \cap ({c} \X B) = {}
    OBVIOUS
  <1> HIDE DEF B
  <1>4. QED
    BY <1>1, <1>2, <1>3, DisjointCardinality DEF B

LEMMA CallsInFinite ==
  ASSUME NEW P
  PROVE  /\ IsFiniteSet(CallsIn(P))
         /\ Cardinality(CallsIn(P)) \in Nat
  <1>1. CallsIn(P) \in SUBSET Call
    BY DEF CallsIn
  <1>2. QED
    BY <1>1, CallAssumption, FS_Subset, FS_CardinalityType

\* A call that moves joins or leaves the set of the calls in P.
LEMMA MoveSet ==
  ASSUME Shape, NEW c \in Call, NEW q, Goto(c, q), NEW P
  PROVE  CallsIn(P)' = IF q \in P THEN CallsIn(P) \cup {c} ELSE CallsIn(P) \ {c}
  BY DEF Shape, Goto, CallsIn

LEMMA Enters ==
  ASSUME Shape, NEW c \in Call, NEW q, Goto(c, q), NEW P, phase[c] \notin P, q \in P
  PROVE  /\ Cardinality(CallsIn(P))' = Cardinality(CallsIn(P)) + 1
         /\ Cardinality(CallsIn(P) \X (1..MaxBytes))'
              = Cardinality(CallsIn(P) \X (1..MaxBytes)) + MaxBytes
  <1>1. CallsIn(P)' = CallsIn(P) \cup {c} /\ c \notin CallsIn(P)
    BY MoveSet DEF CallsIn
  <1>2. QED
    BY <1>1, CallsInFinite, ProductStep, FS_AddElement

LEMMA Exits ==
  ASSUME Shape, NEW c \in Call, NEW q, Goto(c, q), NEW P, phase[c] \in P, q \notin P
  PROVE  /\ Cardinality(CallsIn(P))' = Cardinality(CallsIn(P)) - 1
         /\ Cardinality(CallsIn(P) \X (1..MaxBytes))'
              = Cardinality(CallsIn(P) \X (1..MaxBytes)) - MaxBytes
  <1>1. CallsIn(P) = CallsIn(P)' \cup {c} /\ c \notin CallsIn(P)'
    BY MoveSet DEF CallsIn
  <1>2. IsFiniteSet(CallsIn(P)')
    BY <1>1, CallsInFinite, FS_Subset
  <1>3. Cardinality(CallsIn(P)') \in Nat /\ Cardinality(CallsIn(P)' \X (1..MaxBytes)) \in Nat
    <2>1. IsFiniteSet(1..MaxBytes)
      BY FS_Interval, LimitAssumption
    <2>2. IsFiniteSet(CallsIn(P)' \X (1..MaxBytes))
      BY <1>2, <2>1, FS_Product
    <2>3. QED
      BY <1>2, <2>2, FS_CardinalityType
  <1>4. /\ Cardinality(CallsIn(P)) = Cardinality(CallsIn(P)') + 1
        /\ Cardinality(CallsIn(P) \X (1..MaxBytes))
             = Cardinality(CallsIn(P)' \X (1..MaxBytes)) + MaxBytes
    BY <1>1, <1>2, ProductStep, FS_AddElement
  <1>5. QED
    BY <1>3, <1>4, LimitAssumption

LEMMA Stays ==
  ASSUME Shape, NEW c \in Call, NEW q, Goto(c, q), NEW P, phase[c] \in P <=> q \in P
  PROVE  CallsIn(P)' = CallsIn(P)
  BY MoveSet DEF CallsIn

Counts ==
    /\ creating = Cardinality(CallsIn(Reserving))
    /\ reserved = Cardinality(CallsIn(Reserving) \X (1..MaxBytes))
    /\ active = Cardinality(CallsIn(Working))
    /\ slots = Cardinality(CallsIn(Holding))

\* Same move, same counts.
LEMMA CountsKept ==
  ASSUME Shape, Counts, UNCHANGED <<creating, reserved, active, slots>>,
         \/ phase' = phase
         \/ \E c \in Call, q \in Phase :
              /\ Goto(c, q)
              /\ \A P \in {Reserving, Working, Holding} : phase[c] \in P <=> q \in P
  PROVE  Counts'
  <1>1. \A P \in {Reserving, Working, Holding} : CallsIn(P)' = CallsIn(P)
    BY Stays DEF CallsIn
  <1>2. QED
    BY <1>1 DEF Counts

\* Which of the phases around a change of a counter belong to which set.
LEMMA Boundaries ==
  /\ {"idle", "waiting", "returned", "lost"} \cap Holding = {}
  /\ {"slotted", "releasing"} \cap Working = {}
  /\ {"slotted", "leaving", "releasing"} \subseteq Holding
  /\ "leaving" \in Working \ Reserving
  /\ {"admitted", "unreserving"} \subseteq Reserving
  /\ Reserving \subseteq Working /\ Working \subseteq Holding
  BY DEF Unpublished, Reserving, Working, Holding

LEMMA CountsStep == Shape /\ Counts /\ [Next]_vars => Counts'
  <1> SUFFICES ASSUME Shape, Counts, [Next]_vars PROVE Counts'
    OBVIOUS
  <1> DEFINE Calm == UNCHANGED <<creating, reserved, active, slots>>
  <1> USE DEF lockVars
  <1>1. ASSUME NEW c \in Call, Create(c) PROVE Counts'
    <2>1. CASE Begin(c) \/ GiveUp(c) \/ RejectClosed(c) \/ OpenTemp(c) \/ Write(c)
               \/ EndWrite(c) \/ Rename(c) \/ Stamp(c) \/ Publish(c) \/ RemoveTemp(c)
      <3>1. Calm
        BY <2>1 DEF Begin, GiveUp, RejectClosed, OpenTemp, Write, EndWrite, Rename,
                    Stamp, Publish, RemoveTemp
      <3>2. \/ phase' = phase
            \/ \E q \in Phase :
                 /\ Goto(c, q)
                 /\ \A P \in {Reserving, Working, Holding} : phase[c] \in P <=> q \in P
        BY <2>1 DEF Begin, GiveUp, RejectClosed, OpenTemp, Write, EndWrite, Rename,
                    Stamp, Publish, RemoveTemp, Return, Phase,
                    Unpublished, Reserving, Working, Holding
      <3>3. QED
        BY <3>1, <3>2, CountsKept
    <2>2. CASE AcquireSlot(c)
      <3>1. Goto(c, "slotted") /\ phase[c] = "waiting"
        BY <2>2 DEF AcquireSlot
      <3>2. CallsIn(Reserving)' = CallsIn(Reserving) /\ CallsIn(Working)' = CallsIn(Working)
        BY <3>1, Stays, Boundaries
      <3>3. Cardinality(CallsIn(Holding))' = Cardinality(CallsIn(Holding)) + 1
        BY <3>1, Enters, Boundaries
      <3>4. QED
        BY <2>2, <3>2, <3>3 DEF AcquireSlot, Counts
    <2>3. CASE Admit(c)
      <3>1. Goto(c, "admitted") /\ phase[c] = "slotted"
        BY <2>3 DEF Admit
      <3>2. CallsIn(Holding)' = CallsIn(Holding)
        BY <3>1, Stays, Boundaries
      <3>3. /\ Cardinality(CallsIn(Reserving))' = Cardinality(CallsIn(Reserving)) + 1
            /\ Cardinality(CallsIn(Reserving) \X (1..MaxBytes))'
                 = Cardinality(CallsIn(Reserving) \X (1..MaxBytes)) + MaxBytes
            /\ Cardinality(CallsIn(Working))' = Cardinality(CallsIn(Working)) + 1
        BY <3>1, Enters, Boundaries
      <3>4. QED
        BY <2>3, <3>2, <3>3 DEF Admit, Counts
    <2>4. CASE Refuse(c)
      <3>1. Goto(c, "leaving") /\ phase[c] = "slotted"
        BY <2>4 DEF Refuse, Return
      <3>2. CallsIn(Holding)' = CallsIn(Holding) /\ CallsIn(Reserving)' = CallsIn(Reserving)
        BY <3>1, Stays, Boundaries
      <3>3. Cardinality(CallsIn(Working))' = Cardinality(CallsIn(Working)) + 1
        BY <3>1, Enters, Boundaries
      <3>4. QED
        BY <2>4, <3>2, <3>3 DEF Refuse, Counts
    <2>5. CASE Unreserve(c)
      <3>1. Goto(c, "leaving") /\ phase[c] = "unreserving"
        BY <2>5 DEF Unreserve
      <3>2. CallsIn(Holding)' = CallsIn(Holding) /\ CallsIn(Working)' = CallsIn(Working)
        BY <3>1, Stays, Boundaries
      <3>3. /\ Cardinality(CallsIn(Reserving))' = Cardinality(CallsIn(Reserving)) - 1
            /\ Cardinality(CallsIn(Reserving) \X (1..MaxBytes))'
                 = Cardinality(CallsIn(Reserving) \X (1..MaxBytes)) - MaxBytes
        BY <3>1, Exits, Boundaries
      <3>4. QED
        BY <2>5, <3>2, <3>3 DEF Unreserve, Counts
    <2>6. CASE Leave(c)
      <3>1. Goto(c, "releasing") /\ phase[c] = "leaving"
        BY <2>6 DEF Leave
      <3>2. CallsIn(Holding)' = CallsIn(Holding) /\ CallsIn(Reserving)' = CallsIn(Reserving)
        BY <3>1, Stays, Boundaries
      <3>3. Cardinality(CallsIn(Working))' = Cardinality(CallsIn(Working)) - 1
        BY <3>1, Exits, Boundaries
      <3>4. QED
        BY <2>6, <3>2, <3>3 DEF Leave, Counts
    <2>7. CASE ReleaseSlot(c)
      <3>1. Goto(c, "returned") /\ phase[c] = "releasing"
        BY <2>7 DEF ReleaseSlot
      <3>2. CallsIn(Reserving)' = CallsIn(Reserving) /\ CallsIn(Working)' = CallsIn(Working)
        BY <3>1, Stays, Boundaries
      <3>3. Cardinality(CallsIn(Holding))' = Cardinality(CallsIn(Holding)) - 1
        BY <3>1, Exits, Boundaries
      <3>4. QED
        BY <2>7, <3>2, <3>3 DEF ReleaseSlot, Counts
    <2>8. QED
      BY <1>1, <2>1, <2>2, <2>3, <2>4, <2>5, <2>6, <2>7 DEF Create, Proceed
  <1>2. CASE Exit
    <2>1. \A P \in {Reserving, Working, Holding} : CallsIn(P)' = {}
      BY <1>2 DEF Exit, CallsIn, Shape, Phase, Unpublished, Reserving, Working, Holding
    <2>2. {} \X (1..MaxBytes) = {} /\ Cardinality({}) = 0
      BY FS_EmptySet
    <2>3. QED
      BY <1>2, <2>1, <2>2 DEF Exit, Counts
  <1>3. ASSUME \/ \E c \in Link : Download(c)
               \/ Sweep \/ JanitorExit \/ CloseFlag \/ CloseStep
               \/ Start \/ StartOther \/ Tick \/ UNCHANGED vars
        PROVE  Counts'
    <2>1. Calm /\ phase' = phase
      BY <1>3 DEF Download, Lookup, OpenFile, Sweep, JanitorExit, CloseFlag, CloseStep,
              CloseStop, AwaitJanitor, AwaitActive, RemoveAll, RemoveRoot, Start,
              StartOther, Tick, vars, callVars
    <2>2. QED
      BY <2>1, CountsKept
  <1>4. QED
    BY <1>1, <1>2, <1>3 DEF Next

-----------------------------------------------------------------------------
(* What the outcome of a call says about its phase and its entry.            *)

Undecided == {"idle", "waiting", "slotted"} \cup Unpublished

Lifecycle ==
    /\ \A c \in Call : phase[c] \in Undecided => outcome[c] = "none"
    /\ \A c \in entries : outcome[c] = "ok"

\* A step of Create decides one call; only Publish decides "ok", and adds an
\* entry.
LEMMA LifecycleStep == Shape /\ Lifecycle /\ [Next]_vars => Lifecycle'
  <1> SUFFICES ASSUME Shape, Lifecycle, [Next]_vars PROVE Lifecycle'
    OBVIOUS
  <1> USE DEF lockVars, callVars
  <1>1. ASSUME NEW c \in Call, Create(c) PROVE Lifecycle'
    <2> USE DEF Undecided, Unpublished, Goto, Return, Shape, Lifecycle
    <2>1. CASE Begin(c) \/ AcquireSlot(c) \/ GiveUp(c) \/ RejectClosed(c)
      BY <2>1 DEF Begin, AcquireSlot, GiveUp, RejectClosed
    <2>2. CASE Admit(c) \/ Refuse(c)
      BY <2>2 DEF Admit, Refuse, RemoveExpired
    <2>3. CASE OpenTemp(c) \/ EndWrite(c) \/ Rename(c) \/ Stamp(c)
      BY <2>3 DEF OpenTemp, EndWrite, Rename, Stamp
    <2>4. CASE Write(c)
      BY <2>4 DEF Write
    <2>5. CASE Publish(c)
      BY <2>5 DEF Publish
    <2>6. CASE RemoveTemp(c) \/ Unreserve(c) \/ Leave(c) \/ ReleaseSlot(c)
      BY <2>6 DEF RemoveTemp, Unreserve, Leave, ReleaseSlot
    <2>7. QED
      BY <1>1, <2>1, <2>2, <2>3, <2>4, <2>5, <2>6 DEF Create, Proceed
  <1>2. CASE Exit
    BY <1>2 DEF Exit, Lifecycle, Undecided, Unpublished, Shape
  <1>3. ASSUME \/ \E c \in Link : Download(c)
               \/ Sweep \/ JanitorExit \/ CloseFlag \/ CloseStep
               \/ Start \/ StartOther \/ Tick \/ UNCHANGED vars
        PROVE  Lifecycle'
    <2>1. entries' \subseteq entries /\ phase' = phase /\ outcome' = outcome
      BY <1>3 DEF Download, Lookup, OpenFile, Sweep, RemoveExpired, JanitorExit, CloseFlag,
              CloseStep, CloseStop, AwaitJanitor, AwaitActive, RemoveAll, RemoveRoot, Start,
              StartOther, Tick, vars
    <2>2. QED
      BY <2>1 DEF Lifecycle
  <1>4. QED
    BY <1>1, <1>2, <1>3 DEF Next

-----------------------------------------------------------------------------
(* Bytes                                                                     *)

LEMMA CellsFinite ==
  ASSUME NEW S \in SUBSET Call, NEW size
  PROVE  IsFiniteSet(Cells(S, size)) /\ Cardinality(Cells(S, size)) \in Nat
  <1>1. IsFiniteSet(Call \X (1..MaxBytes))
    <2>1. IsFiniteSet(1..MaxBytes)
      BY LimitAssumption, FS_Interval
    <2>2. QED
      BY <2>1, CallAssumption, FS_Product
  <1>2. Cells(S, size) \in SUBSET (Call \X (1..MaxBytes))
    BY DEF Cells
  <1>3. QED
    BY <1>1, <1>2, FS_Subset, FS_CardinalityType

\* The size of a set of artifacts is a sum over them.
LEMMA CellsUnion ==
  ASSUME NEW S \in SUBSET Call, NEW T \in SUBSET Call, S \cap T = {}, NEW size
  PROVE  Cardinality(Cells(S \cup T, size)) = Cardinality(Cells(S, size)) + Cardinality(Cells(T, size))
  <1> DEFINE A == Cells(S, size)
             B == Cells(T, size)
  <1>1. Cells(S \cup T, size) = A \cup B /\ A \cap B = {}
    BY DEF Cells
  <1>2. IsFiniteSet(A) /\ IsFiniteSet(B)
    BY CellsFinite
  <1> HIDE DEF A, B
  <1>3. Cardinality(A \cup B) = Cardinality(A) + Cardinality(B)
    BY <1>1, <1>2, DisjointCardinality
  <1>4. QED
    BY <1>1, <1>3 DEF A, B

LEMMA CellsSingle ==
  ASSUME NEW c \in Call, NEW size \in [Call -> 0..MaxBytes]
  PROVE  Cardinality(Cells({c}, size)) = size[c]
  <1> DEFINE n == size[c]
  <1>1. n \in 0..MaxBytes /\ n \in Nat /\ MaxBytes \in Nat
    BY LimitAssumption
  <1>2. Cells({c}, size) = {c} \X (1..n)
    BY <1>1 DEF Cells
  <1> HIDE DEF n
  <1>3. Cardinality({c} \X (1..n)) = n
    BY <1>1, RowSize
  <1>4. QED
    BY <1>2, <1>3 DEF n

Bytes == totalBytes = SizeOf(entries)

LEMMA SweepBytes ==
  ASSUME Shape, Bytes
  PROVE  /\ SizeOf(entries \ Overdue) = totalBytes - SizeOf(Overdue)
         /\ SizeOf(entries \ Overdue) \in Nat
         /\ totalBytes \in Nat
  <1>1. entries \ Overdue \in SUBSET Call /\ Overdue \in SUBSET Call /\ entries \in SUBSET Call
    BY DEF Shape, Overdue
  <1>2. (entries \ Overdue) \cap Overdue = {} /\ (entries \ Overdue) \cup Overdue = entries
    BY DEF Overdue
  <1>3. SizeOf(entries) = SizeOf(entries \ Overdue) + SizeOf(Overdue)
    BY <1>1, <1>2, CellsUnion DEF SizeOf
  <1>4. SizeOf(entries) \in Nat /\ SizeOf(entries \ Overdue) \in Nat /\ SizeOf(Overdue) \in Nat
    BY <1>1, CellsFinite DEF SizeOf
  <1>5. QED
    BY <1>3, <1>4 DEF Bytes

LEMMA EmptySize == SizeOf({}) = 0
  <1>1. Cells({}, written) = {}
    BY DEF Cells
  <1>2. QED
    BY <1>1, FS_EmptySet DEF SizeOf

LEMMA BytesStep == Shape /\ Lifecycle /\ Bytes /\ [Next]_vars => Bytes'
  <1> SUFFICES ASSUME Shape, Lifecycle, Bytes, [Next]_vars PROVE Bytes'
    OBVIOUS
  <1> USE DEF lockVars, callVars
  \* a sweep alone
  <1>1. ASSUME RemoveExpired, written' = written PROVE Bytes'
    BY <1>1, SweepBytes DEF RemoveExpired, Bytes, SizeOf
  \* neither entries nor sizes change
  <1>2. ASSUME UNCHANGED <<entries, totalBytes, written>> PROVE Bytes'
    BY <1>2 DEF Bytes, SizeOf
  <1>3. ASSUME NEW c \in Call, Create(c) PROVE Bytes'
    <2>1. CASE Admit(c) \/ Refuse(c)
      BY <2>1, <1>1 DEF Admit, Refuse
    <2>2. CASE Write(c)
      <3>1. c \notin entries /\ UNCHANGED <<entries, totalBytes>>
        BY <2>2 DEF Write, Lifecycle, Undecided, Unpublished
      <3>2. \A d \in entries : written'[d] = written[d]
        BY <2>2, <3>1 DEF Write, Shape
      <3>3. Cells(entries, written)' = Cells(entries, written)
        BY <3>1, <3>2 DEF Cells
      <3>4. QED
        BY <3>1, <3>3 DEF Bytes, SizeOf
    <2>3. CASE Publish(c)
      <3> DEFINE kept == entries \ Overdue
      <3>1. /\ entries' = kept \cup {c} /\ written' = written
            /\ totalBytes' = totalBytes - SizeOf(Overdue) + written[c]
        BY <2>3 DEF Publish
      <3>2. c \notin entries
        BY <2>3 DEF Publish, Lifecycle, Undecided, Unpublished
      <3>3. kept \in SUBSET Call /\ {c} \in SUBSET Call /\ kept \cap {c} = {}
        BY <3>2 DEF Shape
      <3>4. SizeOf(kept \cup {c}) = SizeOf(kept) + SizeOf({c})
        BY <3>3, CellsUnion DEF SizeOf
      <3>5. SizeOf({c}) = written[c]
        BY CellsSingle DEF SizeOf, Shape
      <3>6. SizeOf(entries)' = SizeOf(kept \cup {c})
        BY <3>1 DEF SizeOf
      <3>7. QED
        BY <3>1, <3>4, <3>5, <3>6, SweepBytes DEF Bytes
    <2>4. CASE ~(Admit(c) \/ Refuse(c) \/ Write(c) \/ Publish(c))
      <3>1. UNCHANGED <<entries, totalBytes, written>>
        BY <1>3, <2>4 DEF Create, Proceed, Begin, AcquireSlot, GiveUp, RejectClosed,
                OpenTemp, EndWrite, Rename, Stamp, RemoveTemp, Unreserve, Leave, ReleaseSlot
      <3>2. QED
        BY <3>1, <1>2
    <2>5. QED
      BY <2>1, <2>2, <2>3, <2>4
  <1>4. ASSUME Sweep \/ \E c \in Link : Lookup(c) PROVE Bytes'
    BY <1>4, <1>1 DEF Sweep, Lookup
  <1>5. ASSUME RemoveAll \/ Exit PROVE Bytes'
    BY <1>5, EmptySize DEF RemoveAll, Exit, Bytes, SizeOf
  <1>6. ASSUME \/ \E c \in Link : OpenFile(c)
               \/ JanitorExit \/ CloseFlag \/ CloseStop \/ AwaitJanitor \/ AwaitActive
               \/ RemoveRoot \/ Start \/ StartOther \/ Tick \/ UNCHANGED vars
        PROVE  Bytes'
    BY <1>6, <1>2 DEF OpenFile, JanitorExit, CloseFlag, CloseStop, AwaitJanitor, AwaitActive,
            RemoveRoot, Start, StartOther, Tick, vars
  <1>7. QED
    BY <1>3, <1>4, <1>5, <1>6 DEF Next, Download, CloseStep

-----------------------------------------------------------------------------
(* The counters count, so they are naturals: TypeOK.                         *)

Counted == Shape /\ Lifecycle /\ Counts /\ Bytes

LEMMA CountedAlways == Spec => []Counted
  <1>1. Init => Lifecycle /\ Counts /\ Bytes
    <2> SUFFICES ASSUME Init PROVE Lifecycle /\ Counts /\ Bytes
      OBVIOUS
    <2>1. Lifecycle
      BY DEF Init, Lifecycle
    <2>2. \A P \in {Reserving, Working, Holding} : CallsIn(P) = {}
      BY DEF Init, CallsIn, Unpublished, Reserving, Working, Holding
    <2>3. {} \X (1..MaxBytes) = {} /\ Cardinality({}) = 0
      BY FS_EmptySet
    <2>4. Counts
      BY <2>2, <2>3 DEF Init, Counts
    <2>5. Bytes
      BY EmptySize DEF Init, Bytes
    <2>6. QED
      BY <2>1, <2>4, <2>5
  <1>2. Shape /\ (Lifecycle /\ Counts /\ Bytes) /\ [Next]_vars => (Lifecycle /\ Counts /\ Bytes)'
    BY LifecycleStep, CountsStep, BytesStep
  <1>3. QED
    BY <1>1, <1>2, ShapeAlways, PTL DEF Spec, Counted

\* The counters behind the limits are exact in every reachable state: every
\* exit path of Create, sweep, Close and restart gives back what it took.
THEOREM CountersAreExact == Spec => []CountersExact
  <1>1. Counted => CountersExact
    BY DEF Counted, Counts, Bytes, CountersExact
  <1>2. QED
    BY <1>1, CountedAlways, PTL

\* No more slots are taken than the channel has.
LEMMA SlotsStep == Counted /\ slots <= MaxConcurrent /\ [Next]_vars => (slots <= MaxConcurrent)'
  <1> SUFFICES ASSUME Counted, slots <= MaxConcurrent, [Next]_vars PROVE slots' <= MaxConcurrent
    OBVIOUS
  <1>1. slots \in Nat /\ MaxConcurrent \in Nat \ {0}
    BY CallsInFinite, LimitAssumption DEF Counted, Counts
  <1>2. \/ slots < MaxConcurrent /\ slots' = slots + 1
        \/ slots' = slots - 1 \/ slots' = slots \/ slots' = 0
    BY DEF Next, Create, Proceed, Begin, AcquireSlot, GiveUp, RejectClosed, Admit, Refuse,
           OpenTemp, Write, EndWrite, Rename, Stamp, Publish, RemoveTemp, Unreserve, Leave,
           ReleaseSlot, Download, Lookup, OpenFile, Sweep, JanitorExit, CloseFlag, CloseStep,
           CloseStop, AwaitJanitor, AwaitActive, RemoveAll, RemoveRoot, Exit, Start,
           StartOther, Tick, vars
  <1>3. QED
    BY <1>1, <1>2

\* Type correctness; in particular no counter ever becomes negative.
THEOREM TypeCorrect == Spec => []TypeOK
  <1>1. Init => slots <= MaxConcurrent
    BY LimitAssumption DEF Init
  <1>2. Counted /\ slots <= MaxConcurrent => TypeOK
    <2> SUFFICES ASSUME Counted, slots <= MaxConcurrent PROVE TypeOK
      OBVIOUS
    <2>1. creating \in Nat /\ active \in Nat /\ slots \in Nat
      BY CallsInFinite DEF Counted, Counts
    <2>2. reserved \in Nat
      <3>1. IsFiniteSet(CallsIn(Reserving) \X (1..MaxBytes))
        BY CallsInFinite, IntervalSize, LimitAssumption, FS_Product
      <3>2. QED
        BY <3>1, FS_CardinalityType DEF Counted, Counts
    <2>3. totalBytes \in Nat
      BY SweepBytes DEF Counted
    <2>4. slots \in 0..MaxConcurrent
      BY <2>1, LimitAssumption
    <2>5. QED
      BY <2>1, <2>2, <2>3, <2>4 DEF Counted, Shape, TypeOK
  <1>3. QED
    BY <1>1, <1>2, CountedAlways, SlotsStep, PTL DEF Spec

-----------------------------------------------------------------------------
(* The limits.                                                               *)

Within == FilesWithinLimit /\ BytesWithinLimit

\* Cells of other artifacts than c do not see its size.
LEMMA CellsOfOthers ==
  ASSUME Shape, NEW c \in Call \ entries, entries' = entries,
         \A d \in Call \ {c} : written'[d] = written[d]
  PROVE  Cells(entries, written)' = Cells(entries, written)
  BY DEF Shape, Cells

\* Every step but Admit and the end of the process takes files and bytes out
\* of what is live or owed, or leaves them there: Publish trades a claim of
\* MaxBytes for the bytes that were written.
LEMMA ClaimsShrink ==
  ASSUME Counted, [Next]_vars, ~ \E c \in Call : Admit(c), ~Exit
  PROVE  /\ (entries \cup Owing)' \subseteq entries \cup Owing
         /\ Claims' \subseteq Claims
  <1> USE DEF lockVars, callVars
  \* nothing is added, no size is changed
  <1>1. ASSUME entries' \subseteq entries, Owing' \subseteq Owing, written' = written
        PROVE  /\ (entries \cup Owing)' \subseteq entries \cup Owing
               /\ Claims' \subseteq Claims
    BY <1>1 DEF Claims, Cells
  <1>2. ASSUME entries' \subseteq entries, phase' = phase, outcome' = outcome
        PROVE  entries' \subseteq entries /\ Owing' \subseteq Owing
    BY <1>2 DEF Owing, CallsIn
  <1>3. ASSUME NEW c \in Call, Create(c)
        PROVE  /\ (entries \cup Owing)' \subseteq entries \cup Owing
               /\ Claims' \subseteq Claims
    <2>1. CASE Publish(c)
      <3>1. /\ entries' = (entries \ Overdue) \cup {c} /\ written' = written
            /\ Owing' = Owing \ {c} /\ c \in Owing
        BY <2>1 DEF Publish, Return, Goto, Owing, CallsIn, Counted, Shape, Lifecycle,
                    Reserving, Unpublished, Undecided
      <3>2. Cells(entries, written)' \subseteq Cells(entries, written) \cup ({c} \X (1..MaxBytes))
        BY <3>1 DEF Cells
      <3>3. QED
        BY <3>1, <3>2 DEF Claims
    <2>2. CASE Write(c)
      <3>1. c \notin entries /\ entries' = entries
        BY <2>2 DEF Write, Counted, Lifecycle, Undecided, Unpublished
      <3>2. Owing' \subseteq Owing
        BY <2>2 DEF Write, Return, Goto, Owing, CallsIn, Counted, Shape, Lifecycle,
                    Reserving, Unpublished, Undecided
      <3>3. \A d \in Call \ {c} : written'[d] = written[d]
        BY <2>2 DEF Write, Counted, Shape
      <3>4. Cells(entries, written)' = Cells(entries, written)
        BY <3>1, <3>3, CellsOfOthers DEF Counted
      <3>5. QED
        BY <3>1, <3>2, <3>4 DEF Claims
    <2>3. CASE ~Publish(c) /\ ~Write(c)
      <3>1. entries' \subseteq entries /\ written' = written
        BY <1>3, <2>3 DEF Create, Proceed, Begin, AcquireSlot, GiveUp, RejectClosed, Admit,
                Refuse, RemoveExpired, OpenTemp, EndWrite, Rename, Stamp, RemoveTemp,
                Unreserve, Leave, ReleaseSlot
      <3>2. Owing' \subseteq Owing
        <4> USE DEF Return, Goto, Owing, CallsIn, Counted, Shape, Lifecycle, Reserving,
                    Unpublished, Undecided
        <4>1. CASE Begin(c) \/ AcquireSlot(c) \/ GiveUp(c) \/ RejectClosed(c) \/ Refuse(c)
          BY <4>1 DEF Begin, AcquireSlot, GiveUp, RejectClosed, Refuse
        <4>2. CASE OpenTemp(c) \/ EndWrite(c) \/ Rename(c) \/ Stamp(c) \/ RemoveTemp(c)
          BY <4>2 DEF OpenTemp, EndWrite, Rename, Stamp, RemoveTemp
        <4>3. CASE Unreserve(c) \/ Leave(c) \/ ReleaseSlot(c)
          BY <4>3 DEF Unreserve, Leave, ReleaseSlot
        <4>4. QED
          BY <1>3, <2>3, <4>1, <4>2, <4>3 DEF Create, Proceed
      <3>3. QED
        BY <3>1, <3>2, <1>1
    <2>4. QED
      BY <2>1, <2>2, <2>3
  <1>4. ASSUME \/ \E c \in Link : Download(c)
               \/ Sweep \/ JanitorExit \/ CloseFlag \/ CloseStep
               \/ Start \/ StartOther \/ Tick \/ UNCHANGED vars
        PROVE  entries' \subseteq entries /\ phase' = phase /\ outcome' = outcome /\ written' = written
    BY <1>4 DEF Download, Lookup, OpenFile, Sweep, RemoveExpired, JanitorExit, CloseFlag,
            CloseStep, CloseStop, AwaitJanitor, AwaitActive, RemoveAll, RemoveRoot, Start,
            StartOther, Tick, vars
  <1>5. QED
    BY <1>1, <1>2, <1>3, <1>4 DEF Next

LEMMA OwingFacts ==
  ASSUME Shape
  PROVE  /\ IsFiniteSet(entries \cup Owing) /\ IsFiniteSet(Claims)
         /\ Cardinality(entries \cup Owing) \in Nat /\ Cardinality(Claims) \in Nat
  <1>1. entries \cup Owing \in SUBSET Call
    BY DEF Shape, Owing, CallsIn
  <1>2. IsFiniteSet(Call \X (1..MaxBytes))
    BY CallAssumption, IntervalSize, LimitAssumption, FS_Product
  <1>3. Claims \in SUBSET (Call \X (1..MaxBytes))
    BY DEF Shape, Claims, Cells, Owing, CallsIn
  <1>4. QED
    BY <1>1, <1>2, <1>3, CallAssumption, FS_Subset, FS_CardinalityType

\* What Admit checks is enough: all that is owed is among what is reserved.
LEMMA AdmitWithin ==
  ASSUME Counted, NEW c \in Call, Admit(c)
  PROVE  Within'
  <1> DEFINE R == CallsIn(Reserving)
             B == 1..MaxBytes
             live == entries'
  <1>1. /\ live \in SUBSET Call /\ Owing \subseteq R /\ R \in SUBSET Call
        /\ Owing' \subseteq R \cup {c} /\ c \notin R
        /\ written' = written
    BY DEF Admit, RemoveExpired, Goto, Owing, CallsIn, Counted, Shape, Reserving, Unpublished,
           callVars, closeVars, worldVars
  <1>2. /\ Cardinality(live) + creating < MaxFiles
        /\ totalBytes' + reserved + MaxBytes <= MaxTotalBytes
        /\ creating = Cardinality(R) /\ reserved = Cardinality(R \X B)
    BY DEF Admit, HasCapacity, Counted, Counts
  <1>3. totalBytes' = Cardinality(Cells(live, written))
    BY SweepBytes DEF Admit, RemoveExpired, Counted, SizeOf
  <1>4. /\ IsFiniteSet(R) /\ IsFiniteSet(live) /\ IsFiniteSet(R \cup {c}) /\ IsFiniteSet({c})
        /\ Cardinality(R \cup {c}) = Cardinality(R) + 1
        /\ Cardinality(R) \in Nat /\ Cardinality(live) \in Nat
    BY <1>1, CallAssumption, FS_Subset, FS_AddElement, FS_CardinalityType, FS_Singleton
  <1>5. FilesWithinLimit'
    <2>1. /\ IsFiniteSet(live \cup (R \cup {c}))
          /\ Cardinality(live \cup (R \cup {c}))
               = Cardinality(live) + Cardinality(R \cup {c}) - Cardinality(live \cap (R \cup {c}))
      BY <1>4, FS_Union
    <2>2. Cardinality(live \cap (R \cup {c})) \in Nat
      BY <1>4, FS_Intersection, FS_CardinalityType
    <2>3. Cardinality((entries \cup Owing)') <= Cardinality(live \cup (R \cup {c}))
      BY <1>1, <2>1, FS_Subset
    <2>4. Cardinality((entries \cup Owing)') \in Nat
      BY <1>1, <2>1, FS_Subset, FS_CardinalityType
    <2>5. QED
      BY <1>2, <1>4, <2>1, <2>2, <2>3, <2>4, LimitAssumption DEF FilesWithinLimit
  <1>6. BytesWithinLimit'
    <2> DEFINE L == Cells(live, written)
               P == (R \cup {c}) \X B
    <2>1. IsFiniteSet(L) /\ Cardinality(L) \in Nat
      BY <1>1, CellsFinite
    <2>2. /\ IsFiniteSet(P) /\ Cardinality(P) = reserved + MaxBytes
          /\ reserved \in Nat
      <3>1. IsFiniteSet(B)
        BY IntervalSize, LimitAssumption
      <3>2. IsFiniteSet(P)
        BY <3>1, <1>4, FS_Product
      <3>3. Cardinality(P) = Cardinality(R \X B) + MaxBytes
        BY <1>1, <1>4, ProductStep
      <3>4. Cardinality(R \X B) \in Nat
        BY <3>1, <1>4, FS_Product, FS_CardinalityType
      <3>5. QED
        BY <1>2, <3>2, <3>3, <3>4
    <2>3. Cardinality(P) \in Nat
      BY <2>2, FS_CardinalityType
    <2>4. /\ IsFiniteSet(L \cup P)
          /\ Cardinality(L \cup P) = Cardinality(L) + Cardinality(P) - Cardinality(L \cap P)
      BY <2>1, <2>2, FS_Union
    <2>5. Cardinality(L \cap P) \in Nat /\ Cardinality(L \cup P) \in Nat
      BY <2>1, <2>4, FS_Intersection, FS_CardinalityType
    <2>6. Claims' \subseteq L \cup P
      BY <1>1 DEF Claims
    <2>7. Cardinality(Claims') <= Cardinality(L \cup P) /\ Cardinality(Claims') \in Nat
      BY <2>4, <2>6, FS_Subset, FS_CardinalityType
    <2>8. Cardinality(L) = totalBytes'
      BY <1>3
    <2> HIDE DEF L, P
    <2>9. Cardinality(L) + Cardinality(P) <= MaxTotalBytes
      BY <1>2, <2>1, <2>2, <2>3, <2>8, LimitAssumption
    <2>10. QED
      BY <2>1, <2>3, <2>4, <2>5, <2>7, <2>9, LimitAssumption DEF BytesWithinLimit
  <1>7. QED
    BY <1>5, <1>6 DEF Within

LEMMA WithinStep == Counted /\ Within /\ [Next]_vars => Within'
  <1> SUFFICES ASSUME Counted, Within, [Next]_vars PROVE Within'
    OBVIOUS
  <1>1. CASE \E c \in Call : Admit(c)
    BY <1>1, AdmitWithin
  <1>2. CASE Exit
    <2>1. (entries \cup Owing)' = {} /\ Claims' = {}
      BY <1>2 DEF Exit, Owing, CallsIn, Claims, Cells, Counted, Shape, Reserving, Unpublished
    <2>2. QED
      BY <2>1, FS_EmptySet, LimitAssumption DEF Within, FilesWithinLimit, BytesWithinLimit
  <1>3. CASE ~(\E c \in Call : Admit(c)) /\ ~Exit
    <2>1. (entries \cup Owing)' \subseteq entries \cup Owing /\ Claims' \subseteq Claims
      BY <1>3, ClaimsShrink
    <2>2. /\ Cardinality((entries \cup Owing)') <= Cardinality(entries \cup Owing)
          /\ Cardinality(Claims') <= Cardinality(Claims)
          /\ Cardinality((entries \cup Owing)') \in Nat /\ Cardinality(Claims') \in Nat
          /\ Cardinality(entries \cup Owing) \in Nat /\ Cardinality(Claims) \in Nat
      BY <2>1, OwingFacts, FS_Subset, FS_CardinalityType DEF Counted
    <2>3. QED
      BY <2>2, LimitAssumption DEF Within, FilesWithinLimit, BytesWithinLimit
  <1>4. QED
    BY <1>1, <1>2, <1>3

LEMMA WithinAlways == Spec => []Within
  <1>1. Init => Within
    <2> SUFFICES ASSUME Init PROVE Within
      OBVIOUS
    <2>1. entries \cup Owing = {} /\ Claims = {}
      BY DEF Init, Owing, CallsIn, Claims, Cells, Reserving, Unpublished
    <2>2. QED
      BY <2>1, FS_EmptySet, LimitAssumption DEF Within, FilesWithinLimit, BytesWithinLimit
  <1>2. QED
    BY <1>1, WithinStep, CountedAlways, PTL DEF Spec

\* Live artifacts and the calls that may still publish one never exceed
\* max_export_files, whatever the interleaving.
THEOREM FilesStayWithinLimit == Spec => []FilesWithinLimit
  BY WithinAlways, PTL DEF Within

\* Their bytes, those a call may still write included, never exceed
\* max_total_export_bytes.
THEOREM BytesStayWithinLimit == Spec => []BytesWithinLimit
  BY WithinAlways, PTL DEF Within

\* The two together, which is what the run checks.
THEOREM LimitsHold == Spec => []AdmittedWithinLimits
  BY FilesStayWithinLimit, BytesStayWithinLimit, PTL DEF AdmittedWithinLimits

-----------------------------------------------------------------------------
(* Close.                                                                    *)

\* Only a call that has seen closed = false under s.mu joins the working ones.
LEMMA WorkingGrows ==
  ASSUME Counted, [Next]_vars, Closed
  PROVE  CallsIn(Working)' \subseteq CallsIn(Working)
  <1>1. ASSUME NEW c \in Call, Create(c) PROVE CallsIn(Working)' \subseteq CallsIn(Working)
    <2> USE DEF Return, Goto, CallsIn, Counted, Shape, Working, Reserving, Unpublished
    <2>1. CASE Begin(c) \/ AcquireSlot(c) \/ GiveUp(c) \/ RejectClosed(c)
      BY <2>1 DEF Begin, AcquireSlot, GiveUp, RejectClosed
    <2>2. CASE Admit(c) \/ Refuse(c)
      BY <2>2 DEF Admit, Refuse
    <2>3. CASE OpenTemp(c) \/ Write(c) \/ EndWrite(c) \/ Rename(c) \/ Stamp(c)
               \/ Publish(c) \/ RemoveTemp(c)
      BY <2>3 DEF OpenTemp, Write, EndWrite, Rename, Stamp, Publish, RemoveTemp, callVars
    <2>4. CASE Unreserve(c) \/ Leave(c) \/ ReleaseSlot(c)
      BY <2>4 DEF Unreserve, Leave, ReleaseSlot
    <2>5. QED
      BY <1>1, <2>1, <2>2, <2>3, <2>4 DEF Create, Proceed
  <1>2. CASE Exit
    BY <1>2 DEF Exit, CallsIn, Counted, Shape, Working, Reserving, Unpublished
  <1>3. ASSUME \/ \E c \in Link : Download(c)
               \/ Sweep \/ JanitorExit \/ CloseFlag \/ CloseStep
               \/ Start \/ StartOther \/ Tick \/ UNCHANGED vars
        PROVE  CallsIn(Working)' \subseteq CallsIn(Working)
    <2>1. phase' = phase
      BY <1>3 DEF Download, Lookup, OpenFile, Sweep, JanitorExit, CloseFlag,
              CloseStep, CloseStop, AwaitJanitor, AwaitActive, RemoveAll, RemoveRoot, Start,
              StartOther, Tick, vars, callVars
    <2>2. QED
      BY <2>1 DEF CallsIn
  <1>4. QED
    BY <1>1, <1>2, <1>3 DEF Next

\* Where Close goes from where.
LEMMA CloserMoves ==
  ASSUME [Next]_vars
  PROVE  \/ closer' = closer
         \/ closer' = "none"
         \/ closer = "none" /\ closer' = "flagged"
         \/ closer = "flagged" /\ closer' = "stopping"
         \/ closer = "stopping" /\ closer' = "draining"
         \/ closer = "draining" /\ closer' = "drained" /\ active = 0 /\ phase' = phase
         \/ /\ closer = "drained" /\ closer' = IF OwnedRoot THEN "emptied" ELSE "returned"
            /\ entries' = {} /\ totalBytes' = 0
         \/ /\ closer = "emptied" /\ closer' = "returned"
            /\ entries' = entries /\ totalBytes' = totalBytes
  <1>1. ASSUME NEW c \in Call, Create(c) PROVE closer' = closer
    BY <1>1 DEF Create, Proceed, Begin, AcquireSlot, GiveUp, RejectClosed, Admit, Refuse,
       OpenTemp, Write, EndWrite, Rename, Stamp, Publish, RemoveTemp, Unreserve, Leave,
       ReleaseSlot, closeVars
  <1>2. ASSUME NEW c \in Link, Download(c) PROVE closer' = closer
    BY <1>2 DEF Download, Lookup, OpenFile, closeVars
  <1>3. CASE Sweep \/ JanitorExit \/ Start \/ StartOther \/ Tick \/ UNCHANGED vars
    BY <1>3 DEF Sweep, JanitorExit, Start, StartOther, Tick, vars, closeVars
  <1>4. CASE Exit
    BY <1>4 DEF Exit
  <1>5. CASE CloseFlag \/ CloseStop \/ AwaitJanitor
    BY <1>5 DEF CloseFlag, CloseStop, AwaitJanitor
  <1>6. CASE AwaitActive
    BY <1>6 DEF AwaitActive, callVars
  <1>7. CASE RemoveAll
    BY <1>7 DEF RemoveAll
  <1>8. CASE RemoveRoot
    BY <1>8 DEF RemoveRoot, lockVars
  <1>9. QED
    BY <1>1, <1>2, <1>3, <1>4, <1>5, <1>6, <1>7, <1>8 DEF Next, CloseStep

LEMMA DrainedStep == Counted /\ DrainedStaysDrained /\ [Next]_vars => DrainedStaysDrained'
  <1> SUFFICES ASSUME Counted, DrainedStaysDrained, [Next]_vars,
                      closer' \in {"drained", "emptied", "returned"}
               PROVE  CallsIn(Working)' = {}
    BY DEF DrainedStaysDrained
  <1>1. CASE closer \in {"drained", "emptied", "returned"}
    BY <1>1, WorkingGrows DEF DrainedStaysDrained, Closed
  <1>2. CASE closer \notin {"drained", "emptied", "returned"}
    <2>1. active = 0 /\ phase' = phase
      BY <1>2, CloserMoves
    <2>2. IsFiniteSet(CallsIn(Working)) /\ Cardinality(CallsIn(Working)) = 0
      BY <2>1, CallsInFinite DEF Counted, Counts
    <2>3. CallsIn(Working) = {}
      BY <2>2, FS_EmptySet
    <2>4. QED
      BY <2>1, <2>3 DEF CallsIn
  <1>3. QED
    BY <1>1, <1>2

\* Once active.Wait has returned no call is, or comes, between active.Add and
\* active.Done.
THEOREM CloseDrains == Spec => []DrainedStaysDrained
  <1>1. Init => DrainedStaysDrained
    BY DEF Init, DrainedStaysDrained
  <1>2. QED
    BY <1>1, DrainedStep, CountedAlways, PTL DEF Spec

-----------------------------------------------------------------------------
(* What is left on disk: no file without an owner, no live entry without its *)
(* file; what Close promises; and the refinement of ExportCapability.        *)

\* Between two processes there are neither entries nor calls nor downloads.
Down ==
    ~up => /\ closer = "none" /\ entries = {}
           /\ \A c \in Call : phase[c] \in {"idle", "returned", "lost"}
           /\ \A c \in Link : fetch[c] # "found"

LEMMA DownStep == Shape /\ Down /\ [Next]_vars => Down'
  <1> SUFFICES ASSUME Shape, Down, [Next]_vars, ~up'
               PROVE  /\ closer' = "none" /\ entries' = {}
                      /\ \A c \in Call : phase'[c] \in {"idle", "returned", "lost"}
                      /\ \A c \in Link : fetch'[c] # "found"
    BY DEF Down
  <1>1. CASE Exit
    <2>1. \A c \in Link : fetch'[c] # "found"
      BY <1>1 DEF Exit
    <2>2. \A c \in Call : phase'[c] \in {"idle", "returned", "lost"}
      BY <1>1 DEF Exit
    <2>3. QED
      BY <1>1, <2>1, <2>2 DEF Exit
  <1>2. CASE UNCHANGED <<phase, fetch, closer, entries, up>>
    BY <1>2 DEF Down
  <1>3. CASE StartOther \/ Tick \/ UNCHANGED vars
    BY <1>2, <1>3 DEF StartOther, Tick, vars, callVars, closeVars, lockVars, worldVars
  <1>4. ASSUME NEW c \in Call, Create(c) PROVE up'
    <2>1. CASE Begin(c) \/ AcquireSlot(c) \/ GiveUp(c) \/ RejectClosed(c) \/ Admit(c) \/ Refuse(c)
      BY <2>1 DEF Begin, AcquireSlot, GiveUp, RejectClosed, Admit, Refuse, worldVars
    <2>2. CASE OpenTemp(c) \/ Write(c) \/ EndWrite(c) \/ Rename(c) \/ Stamp(c) \/ Publish(c)
      BY <2>2 DEF OpenTemp, Write, EndWrite, Rename, Stamp, Publish, worldVars
    <2>3. CASE RemoveTemp(c) \/ Unreserve(c) \/ Leave(c) \/ ReleaseSlot(c)
      BY <2>3 DEF RemoveTemp, Unreserve, Leave, ReleaseSlot, worldVars
    <2>4. QED
      BY <1>4, <2>1, <2>2, <2>3 DEF Create, Proceed
  <1>5. ASSUME NEW c \in Link, Download(c) PROVE up'
    BY <1>5 DEF Download, Lookup, OpenFile, worldVars
  <1>6. CASE Sweep \/ JanitorExit \/ CloseFlag \/ CloseStep \/ Start
    BY <1>6 DEF Sweep, JanitorExit, CloseFlag, CloseStep, CloseStop, AwaitJanitor, AwaitActive,
       RemoveAll, RemoveRoot, Start, worldVars
  <1>7. QED
    BY <1>1, <1>3, <1>4, <1>5, <1>6 DEF Next

-----------------------------------------------------------------------------
(* Files have owners.                                                        *)

\* The file of c belongs to a call that will publish or remove it, or to an
\* entry.
Traced(c) ==
    /\ disk[c] = "partial" =>
          phase[c] \in {"writing", "complete"} \/ (phase[c] = "removing" /\ outcome[c] # "ok")
    /\ disk[c] = "final" => phase[c] \in {"renamed", "stamped"} \/ c \in entries

FilesTraced == up => \A c \in Call \ stuck : Traced(c)

\* A sweep removes the files of what it takes out of entries, or marks them.
LEMMA SweepTraces ==
  ASSUME Shape, RemoveExpired, NEW d \in Call \ stuck', Traced(d),
         phase'[d] = phase[d], outcome'[d] = outcome[d]
  PROVE  Traced(d)'
  <1>1. PICK F \in SUBSET Overdue : Remove(Overdue, F)
    BY DEF RemoveExpired
  <1>2. d \notin F /\ disk'[d] = IF d \in Overdue THEN "none" ELSE disk[d]
    BY <1>1 DEF Remove
  <1>3. entries' = entries \ Overdue
    BY DEF RemoveExpired
  <1>4. QED
    BY <1>2, <1>3 DEF Traced

LEMMA TracedStep == Counted /\ Down /\ FilesTraced /\ [Next]_vars => FilesTraced'
  <1> SUFFICES ASSUME Counted, Down, FilesTraced, [Next]_vars, up', NEW d \in Call \ stuck'
               PROVE  Traced(d)'
    BY DEF FilesTraced
  <1>shape. Shape
    BY DEF Counted
  <1>1. ASSUME NEW c \in Call, Create(c) PROVE Traced(d)'
    <2> USE DEF Goto, Return
    <2>1. CASE Begin(c) \/ AcquireSlot(c) \/ GiveUp(c) \/ RejectClosed(c)
      BY <2>1, <1>shape DEF Begin, AcquireSlot, GiveUp, RejectClosed, Shape, FilesTraced, Traced,
         diskVars, lockVars, worldVars
    <2>2. CASE Admit(c) \/ Refuse(c)
      <3>1. up /\ RemoveExpired /\ phase[c] = "slotted"
        BY <2>2 DEF Admit, Refuse
      <3>2. d \notin stuck
        BY <3>1 DEF RemoveExpired, Remove
      <3>3. Traced(d)
        BY <3>1, <3>2 DEF FilesTraced
      <3>4. CASE d # c
        <4>1. phase'[d] = phase[d] /\ outcome'[d] = outcome[d]
          BY <2>2, <3>4, <1>shape DEF Admit, Refuse, Shape
        <4>2. QED
          BY <3>1, <3>3, <4>1, <1>shape, SweepTraces
      <3>5. CASE d = c
        <4>1. d \notin entries /\ d \notin Overdue
          BY <3>1, <3>5 DEF Counted, Lifecycle, Undecided, Overdue
        <4>2. disk'[d] = disk[d]
          BY <3>1, <4>1, <1>shape DEF RemoveExpired, Remove, Shape
        <4>3. disk[d] = "none"
          BY <3>1, <3>3, <3>5, <4>1, <1>shape DEF Traced, Shape
        <4>4. QED
          BY <4>2, <4>3 DEF Traced
      <3>6. QED
        BY <3>4, <3>5
    <2>3. CASE OpenTemp(c)
      BY <2>3, <1>shape DEF OpenTemp, Shape, FilesTraced, Traced, lockVars, worldVars
    <2>4. CASE Write(c) \/ EndWrite(c)
      <3>1. phase[c] = "writing" /\ outcome[c] = "none"
        BY <2>4 DEF Write, EndWrite, Counted, Lifecycle, Undecided, Unpublished
      <3>2. QED
        BY <2>4, <3>1, <1>shape DEF Write, EndWrite, Shape, FilesTraced, Traced, diskVars, lockVars,
           worldVars
    <2>5. CASE Rename(c) \/ Stamp(c)
      BY <2>5, <1>shape DEF Rename, Stamp, Shape, FilesTraced, Traced, diskVars, lockVars, worldVars
    <2>6. CASE Publish(c)
      <3>1. PICK F \in SUBSET Overdue : Remove(Overdue, F)
        BY <2>6 DEF Publish
      <3>2. d \notin F /\ d \notin stuck
        BY <3>1 DEF Remove
      <3>3. disk'[d] = IF d \in Overdue THEN "none" ELSE disk[d]
        BY <3>1, <3>2 DEF Remove
      <3>4. Traced(d)
        BY <2>6, <3>2 DEF Publish, FilesTraced
      <3>5. entries' = (entries \ Overdue) \cup {c}
        BY <2>6 DEF Publish
      <3>6. d # c => phase'[d] = phase[d] /\ outcome'[d] = outcome[d]
        BY <2>6, <1>shape DEF Publish, Shape
      <3>7. phase[c] = "stamped"
        BY <2>6 DEF Publish
      <3>8. QED
        BY <3>3, <3>4, <3>5, <3>6, <3>7 DEF Traced
    <2>7. CASE RemoveTemp(c)
      <3> DEFINE temp == IF disk[c] = "partial" THEN {c} ELSE {}
      <3>1. PICK F \in SUBSET temp : Remove(temp, F)
        BY <2>7 DEF RemoveTemp
      <3>2. d \notin F /\ d \notin stuck
        BY <3>1 DEF Remove
      <3>3. disk'[d] = IF d \in temp THEN "none" ELSE disk[d]
        BY <3>1, <3>2 DEF Remove
      <3>4. Traced(d)
        BY <2>7, <3>2 DEF RemoveTemp, FilesTraced
      <3>5. /\ entries' = entries /\ outcome' = outcome /\ phase[c] = "removing"
            /\ d # c => phase'[d] = phase[d]
        BY <2>7, <1>shape DEF RemoveTemp, lockVars, Shape
      <3>6. QED
        BY <3>3, <3>4, <3>5 DEF Traced
    <2>8. CASE Unreserve(c) \/ Leave(c) \/ ReleaseSlot(c)
      BY <2>8, <1>shape DEF Unreserve, Leave, ReleaseSlot, Shape, FilesTraced, Traced, diskVars,
         lockVars, worldVars
    <2>9. QED
      BY <1>1, <2>1, <2>2, <2>3, <2>4, <2>5, <2>6, <2>7, <2>8 DEF Create, Proceed
  <1>2. ASSUME up, RemoveExpired, UNCHANGED callVars PROVE Traced(d)'
    <2>1. d \notin stuck
      BY <1>2 DEF RemoveExpired, Remove
    <2>2. QED
      BY <1>2, <2>1, <1>shape, SweepTraces DEF FilesTraced, callVars
  <1>3. CASE up /\ UNCHANGED <<callVars, entries, diskVars>>
    BY <1>3 DEF FilesTraced, Traced, callVars, diskVars
  <1>4. ASSUME NEW c \in Link, Download(c) PROVE Traced(d)'
    BY <1>2, <1>3, <1>4 DEF Download, Lookup, OpenFile, lockVars
  <1>5. CASE Sweep
    BY <1>2, <1>5 DEF Sweep
  <1>6. CASE JanitorExit \/ CloseFlag \/ CloseStop \/ AwaitJanitor \/ AwaitActive
    BY <1>3, <1>6 DEF JanitorExit, CloseFlag, CloseStop, AwaitJanitor, AwaitActive, lockVars
  <1>7. CASE Tick \/ UNCHANGED vars
    BY <1>3, <1>7 DEF Tick, vars, lockVars, worldVars
  <1>8. CASE RemoveAll
    <2>1. PICK F \in SUBSET entries : Remove(entries, F)
      BY <1>8 DEF RemoveAll
    <2>2. d \notin stuck /\ disk'[d] = IF d \in entries THEN "none" ELSE disk[d]
      BY <2>1 DEF Remove
    <2>3. Traced(d)
      BY <1>8, <2>2 DEF RemoveAll, FilesTraced
    <2>4. QED
      BY <1>8, <2>2, <2>3 DEF RemoveAll, Traced, callVars
  \* removeOrphans, whoever runs it, and RemoveAll of a private directory
  <1>9. ASSUME NEW F \in SUBSET Call, Remove(Call, F) PROVE Traced(d)'
    <2>1. disk'[d] = "none"
      BY <1>9 DEF Remove
    <2>2. QED
      BY <2>1 DEF Traced
  <1>10. CASE RemoveRoot \/ Start \/ StartOther
    <2>1. CASE Start /\ OwnedRoot
      BY <2>1 DEF Start, Traced
    <2>2. QED
      BY <1>9, <1>10, <2>1 DEF RemoveRoot, Start, StartOther
  <1>11. CASE Exit
    BY <1>11 DEF Exit
  <1>12. QED
    BY <1>1, <1>4, <1>5, <1>6, <1>7, <1>8, <1>10, <1>11 DEF Next, CloseStep

Owned == Counted /\ Down /\ FilesTraced

LEMMA OwnedAlways == Spec => []Owned
  <1>1. Init => Down /\ FilesTraced
    BY DEF Init, Down, FilesTraced, Traced
  <1>2. QED
    BY <1>1, DownStep, TracedStep, CountedAlways, PTL DEF Spec, Owned, Counted

\* A file that is not that of a live entry or of a call at work is one that
\* os.Remove failed to remove: no path through Create, no expiry and no
\* earlier process leaves any other.
THEOREM NoFileIsStray == Spec => []NoStrayFiles
  <1>1. Owned => NoStrayFiles
    <2> SUFFICES ASSUME Owned, up, NEW c \in Call, disk[c] # "none", c \notin stuck, c \notin entries
                 PROVE  c \in Owing
      BY DEF NoStrayFiles
    <2>1. Traced(c) /\ Shape /\ Lifecycle
      BY DEF Owned, FilesTraced, Counted
    <2>2. phase[c] \in Reserving /\ (phase[c] = "removing" => outcome[c] # "ok")
      BY <2>1 DEF Traced, Shape, Reserving, Unpublished
    <2>3. phase[c] # "unreserving" 
      BY <2>1 DEF Traced, Shape
    <2>4. outcome[c] # "ok"
      BY <2>1, <2>2, <2>3 DEF Lifecycle, Undecided, Reserving
    <2>5. QED
      BY <2>2, <2>4 DEF Owing, CallsIn
  <1>2. QED
    BY <1>1, OwnedAlways, PTL

\* Files that os.Remove left behind aside, the directory never holds more than
\* max_total_export_bytes, half-written files included.
THEOREM DiskStaysWithinLimit == Spec => []DiskWithinLimit
  <1>1. Owned /\ NoStrayFiles /\ BytesWithinLimit => DiskWithinLimit
    <2> SUFFICES ASSUME Owned, NoStrayFiles, BytesWithinLimit, up PROVE
                 Cardinality(Cells({c \in Call \ stuck : disk[c] # "none"}, written)) <= MaxTotalBytes
      BY DEF DiskWithinLimit
    <2> DEFINE files == {c \in Call \ stuck : disk[c] # "none"}
    <2>1. files \subseteq entries \cup Owing
      BY DEF NoStrayFiles
    <2>2. Cells(files, written) \subseteq Claims
      BY <2>1 DEF Cells, Claims
    <2>3. IsFiniteSet(Claims) /\ Cardinality(Claims) \in Nat
      BY OwingFacts, FS_CardinalityType DEF Owned, Counted
    <2>4. Cardinality(Cells(files, written)) <= Cardinality(Claims)
      BY <2>2, <2>3, FS_Subset
    <2>5. Cardinality(Cells(files, written)) \in Nat
      BY CellsFinite
    <2>6. QED
      BY <2>3, <2>4, <2>5, LimitAssumption DEF BytesWithinLimit
  <1>2. QED
    BY <1>1, OwnedAlways, NoFileIsStray, BytesStayWithinLimit, PTL

-----------------------------------------------------------------------------
(* A closed store stays empty.                                               *)

\* Only Publish adds an entry.
LEMMA EntriesShrink ==
  ASSUME [Next]_vars, ~(\E c \in Call : Publish(c))
  PROVE  entries' \subseteq entries
  <1>1. ASSUME NEW c \in Call, Create(c) PROVE entries' \subseteq entries
    BY <1>1 DEF Create, Proceed, Begin, AcquireSlot, GiveUp, RejectClosed, Admit, Refuse,
       RemoveExpired, OpenTemp, Write, EndWrite, Rename, Stamp, RemoveTemp, Unreserve, Leave,
       ReleaseSlot, lockVars
  <1>2. ASSUME NEW c \in Link, Download(c) PROVE entries' \subseteq entries
    BY <1>2 DEF Download, Lookup, OpenFile, RemoveExpired, lockVars
  <1>3. CASE Sweep \/ JanitorExit \/ CloseFlag \/ CloseStep
    BY <1>3 DEF Sweep, RemoveExpired, JanitorExit, CloseFlag, CloseStep, CloseStop, AwaitJanitor,
       AwaitActive, RemoveAll, RemoveRoot, lockVars
  <1>4. CASE Exit \/ Start \/ StartOther \/ Tick \/ UNCHANGED vars
    BY <1>4 DEF Exit, Start, StartOther, Tick, vars, lockVars
  <1>5. QED
    BY <1>1, <1>2, <1>3, <1>4 DEF Next

Emptied == closer \in {"emptied", "returned"} => entries = {}

LEMMA EmptiedStep ==
  Counted /\ DrainedStaysDrained /\ Emptied /\ [Next]_vars => Emptied'
  <1> SUFFICES ASSUME Counted, DrainedStaysDrained, Emptied, [Next]_vars,
                      closer' \in {"emptied", "returned"}
               PROVE  entries' = {}
    BY DEF Emptied
  <1>1. entries' = {} \/ closer \in {"emptied", "returned"}
    BY CloserMoves
  <1>2. ASSUME closer \in {"emptied", "returned"} PROVE ~(\E c \in Call : Publish(c))
    <2>1. CallsIn(Working) = {}
      BY <1>2 DEF DrainedStaysDrained
    <2>2. \A c \in Call : phase[c] # "stamped"
      BY <2>1 DEF CallsIn, Working, Reserving, Unpublished
    <2>3. QED
      BY <2>2 DEF Publish
  <1>3. QED
    BY <1>1, <1>2, EntriesShrink DEF Emptied

LEMMA EmptiedAlways == Spec => []Emptied
  <1>1. Init => Emptied
    BY DEF Init, Emptied
  <1>2. QED
    BY <1>1, EmptiedStep, CountedAlways, CloseDrains, PTL DEF Spec

\* When Close has returned nothing is live, no byte is counted, and no file is
\* left but those os.Remove failed on.
THEOREM CloseEmpties == Spec => []ClosedStoreIsEmpty
  <1>1. Owned /\ DrainedStaysDrained /\ Emptied => ClosedStoreIsEmpty
    <2> SUFFICES ASSUME Owned, DrainedStaysDrained, Emptied, closer = "returned"
                 PROVE  /\ entries = {} /\ totalBytes = 0
                        /\ \A c \in Call : disk[c] # "none" => c \in stuck
      BY DEF ClosedStoreIsEmpty
    <2>1. entries = {}
      BY DEF Emptied
    <2>2. totalBytes = 0
      BY <2>1, EmptySize DEF Owned, Counted, Bytes
    <2>3. ASSUME NEW c \in Call, c \notin stuck PROVE disk[c] = "none"
      <3>1. up
        BY DEF Owned, Down
      <3>2. phase[c] \notin Working
        BY DEF DrainedStaysDrained, CallsIn
      <3>3. Traced(c)
        BY <2>3, <3>1 DEF Owned, FilesTraced
      <3>4. QED
        BY <2>1, <3>2, <3>3 DEF Traced, Working, Reserving, Unpublished, Owned, Counted, Shape
    <2>4. QED
      BY <2>1, <2>2, <2>3
  <1>2. QED
    BY <1>1, OwnedAlways, CloseDrains, EmptiedAlways, PTL

-----------------------------------------------------------------------------
(* In a directory of its own, the store does not lose the file of an entry.  *)

Placed == CallsIn({"renamed", "stamped"}) \cup entries
HasFiles == ~SharedRoot => \A c \in Placed : disk[c] = "final"

\* A sweep leaves the files of calls that are about to publish, and of the
\* entries that stay.
LEMMA SweepKeeps ==
  ASSUME Counted, RemoveExpired, NEW d \in Call, d \in entries' \/ phase[d] \in {"renamed", "stamped"}
  PROVE  d \in Placed /\ disk'[d] = disk[d]
  <1>1. d \in Placed /\ d \notin Overdue
    BY DEF RemoveExpired, Placed, CallsIn, Overdue, Counted, Lifecycle, Undecided, Unpublished
  <1>2. QED
    BY <1>1 DEF RemoveExpired, Remove

LEMMA HasFilesStep ==
  ASSUME ~SharedRoot
  PROVE  Owned /\ DrainedStaysDrained /\ Emptied /\ HasFiles /\ [Next]_vars => HasFiles'
  <1> SUFFICES ASSUME Owned, DrainedStaysDrained, Emptied, HasFiles, [Next]_vars, NEW d \in Placed' PROVE disk'[d] = "final"
    BY DEF HasFiles
  <1>shape. Shape /\ Counted /\ Lifecycle /\ Down
    BY DEF Owned, Counted
  <1>all. \A c \in Placed : disk[c] = "final"
    BY DEF HasFiles
  <1>d. d \in Call
    <2>1. Shape'
      BY <1>shape, ShapeStep
    <2>2. QED
      BY <2>1 DEF Placed, CallsIn, Shape
  <1>1. ASSUME RemoveExpired, d \in entries' \/ phase[d] \in {"renamed", "stamped"}
        PROVE  disk'[d] = "final"
    BY <1>1, <1>all, <1>shape, <1>d, SweepKeeps
  <1>2. ASSUME RemoveExpired, phase' = phase PROVE disk'[d] = "final"
    BY <1>1, <1>2, <1>d DEF Placed, CallsIn
  <1>3. ASSUME UNCHANGED <<phase, entries, disk>> PROVE disk'[d] = "final"
    BY <1>3, <1>all DEF Placed, CallsIn
  <1>4. ASSUME NEW c \in Call, Create(c) PROVE disk'[d] = "final"
    <2> USE DEF Goto, Return
    <2>1. CASE Begin(c) \/ AcquireSlot(c) \/ GiveUp(c) \/ RejectClosed(c) \/ Write(c) \/ EndWrite(c)
               \/ Stamp(c) \/ Unreserve(c) \/ Leave(c) \/ ReleaseSlot(c)
      <3>1. Placed' \subseteq Placed /\ disk' = disk
        BY <2>1, <1>shape DEF Begin, AcquireSlot, GiveUp, RejectClosed, Write, EndWrite, Stamp,
           Unreserve, Leave, ReleaseSlot, Placed, CallsIn, Shape, diskVars, lockVars
      <3>2. QED
        BY <3>1, <1>all
    <2>2. CASE Admit(c) \/ Refuse(c)
      <3>1. phase'[d] \in {"renamed", "stamped"} => phase[d] \in {"renamed", "stamped"}
        BY <2>2, <1>shape, <1>d DEF Admit, Refuse, Shape
      <3>2. RemoveExpired
        BY <2>2 DEF Admit, Refuse
      <3>3. QED
        BY <3>1, <3>2, <1>1 DEF Placed, CallsIn
    <2>3. CASE OpenTemp(c)
      <3>1. c \notin entries
        BY <2>3, <1>shape DEF OpenTemp, Lifecycle, Undecided, Unpublished
      <3>2. d # c /\ d \in Placed
        BY <2>3, <3>1, <1>shape DEF OpenTemp, Placed, CallsIn, Shape, lockVars
      <3>3. QED
        BY <2>3, <3>2, <1>all, <1>shape, <1>d DEF OpenTemp, Shape
    <2>4. CASE Rename(c)
      <3>1. d = c \/ d \in Placed
        BY <2>4, <1>shape DEF Rename, Placed, CallsIn, Shape, lockVars
      <3>2. c \notin entries /\ phase[c] = "complete"
        BY <2>4, <1>shape DEF Rename, Lifecycle, Undecided, Unpublished
      <3>3. CASE d # c
        <4>1. disk[d] = "final"
          BY <3>1, <3>3, <1>all
        <4>2. QED
          BY <2>4, <3>3, <4>1, <1>shape, <1>d DEF Rename, Shape
      <3>4. CASE d = c
        BY <2>4, <3>2, <3>4, <1>shape DEF Rename, Placed, CallsIn, Shape, lockVars
      <3>5. QED
        BY <3>3, <3>4
    <2>5. CASE Publish(c)
      <3>1. PICK F \in SUBSET Overdue : Remove(Overdue, F)
        BY <2>5 DEF Publish
      <3>2. /\ entries' = (entries \ Overdue) \cup {c} /\ phase[c] = "stamped"
            /\ phase'[d] \in {"renamed", "stamped"} => phase[d] \in {"renamed", "stamped"}
        BY <2>5, <1>shape, <1>d DEF Publish, Shape
      <3>3. d \in Placed /\ d \notin Overdue
        BY <3>2, <1>shape, <1>d DEF Placed, CallsIn, Overdue, Lifecycle, Undecided, Unpublished
      <3>4. QED
        BY <3>1, <3>3, <1>all, <1>d DEF Remove
    <2>6. CASE RemoveTemp(c)
      <3> DEFINE temp == IF disk[c] = "partial" THEN {c} ELSE {}
      <3>1. PICK F \in SUBSET temp : Remove(temp, F)
        BY <2>6 DEF RemoveTemp
      <3>2. d \in Placed
        BY <2>6, <1>shape DEF RemoveTemp, Placed, CallsIn, Shape, lockVars
      <3>3. disk[d] = "final"
        BY <3>2, <1>all
      <3>4. QED
        BY <3>1, <3>3, <1>d DEF Remove
    <2>7. QED
      BY <1>4, <2>1, <2>2, <2>3, <2>4, <2>5, <2>6 DEF Create, Proceed
  <1>5. ASSUME NEW c \in Link, Download(c) PROVE disk'[d] = "final"
    BY <1>2, <1>3, <1>5 DEF Download, Lookup, OpenFile, callVars, lockVars, diskVars
  <1>6. CASE Sweep
    BY <1>2, <1>6 DEF Sweep, callVars
  <1>7. CASE JanitorExit \/ CloseFlag \/ CloseStop \/ AwaitJanitor \/ AwaitActive \/ Tick \/ UNCHANGED vars
    BY <1>3, <1>7 DEF JanitorExit, CloseFlag, CloseStop, AwaitJanitor, AwaitActive, Tick, vars,
       callVars, lockVars, diskVars
  \* Close finds no call at work; nor does a new process.
  <1>8. CASE closer \in {"drained", "emptied"} /\ (RemoveAll \/ RemoveRoot)
    <2>1. /\ \A c \in Call : phase[c] \notin {"renamed", "stamped"}
          /\ phase' = phase
      BY <1>8 DEF DrainedStaysDrained, CallsIn, Working, Reserving, Unpublished, RemoveAll, RemoveRoot,
         callVars
    <2>2. entries' = {}
      BY <1>8 DEF RemoveAll, RemoveRoot, Emptied, lockVars
    <2>3. QED
      BY <2>1, <2>2 DEF Placed, CallsIn
  <1>9. CASE Exit \/ Start
    <2>1. \A c \in Call : phase'[c] \notin {"renamed", "stamped"}
      BY <1>9, <1>shape DEF Exit, Start, Down, callVars
    <2>2. entries' = {}
      BY <1>9, <1>shape DEF Exit, Start, Down, lockVars
    <2>3. QED
      BY <2>1, <2>2 DEF Placed, CallsIn
  <1>10. QED
    BY <1>4, <1>5, <1>6, <1>7, <1>8, <1>9 DEF Next, CloseStep, RemoveAll, RemoveRoot, StartOther

\* An ID that the store would serve has its complete file in a directory that
\* no other process uses.
THEOREM EntriesHaveFiles == Spec => []LiveEntryHasFile
  <1>1. CASE SharedRoot
    <2>1. LiveEntryHasFile
      BY <1>1 DEF LiveEntryHasFile
    <2>2. QED
      BY <2>1, PTL
  <1>2. CASE ~SharedRoot
    <2>1. Init => HasFiles
      BY DEF Init, HasFiles, Placed, CallsIn
    <2>2. Owned /\ DrainedStaysDrained /\ Emptied /\ HasFiles /\ [Next]_vars => HasFiles'
      BY <1>2, HasFilesStep
    <2>3. HasFiles => LiveEntryHasFile
      BY DEF HasFiles, LiveEntryHasFile, Placed
    <2>4. QED
      BY <2>1, <2>2, <2>3, OwnedAlways, CloseDrains, EmptiedAlways, PTL DEF Spec
  <1>3. QED
    BY <1>1, <1>2

-----------------------------------------------------------------------------
(* The store implements ExportCapability.                                    *)

Promised == Owned /\ DrainedStaysDrained /\ Emptied /\ LiveEntryHasFile

\* A step that leaves the artifacts, the downloads, the clock and Close alone
\* is a stuttering step of the promise.
LEMMA Stutters ==
  ASSUME UNCHANGED <<entries, expires, fetch, now>>,
         {c \in Call : outcome[c] = "ok"}' = {c \in Call : outcome[c] = "ok"},
         (closer \notin {"emptied", "returned"})' = (closer \notin {"emptied", "returned"})
  PROVE  UNCHANGED Promise!vars
  BY DEF Promise!vars

LEMMA SweepExpires ==
  ASSUME Counted, entries' = entries \ Overdue, UNCHANGED <<expires, fetch, now, closer>>,
         {c \in Call : outcome[c] = "ok"}' = {c \in Call : outcome[c] = "ok"}
  PROVE  Promise!Expire
  BY DEF Promise!Expire, Promise!Keep, Promise!Due, Overdue

LEMMA PromiseStep ==
  ASSUME ~SharedRoot
  PROVE  Promised /\ [Next]_vars => [Promise!Next]_(Promise!vars)
  <1> SUFFICES ASSUME Promised, [Next]_vars PROVE Promise!Next \/ UNCHANGED Promise!vars
    OBVIOUS
  <1>shape. Shape /\ Counted /\ Lifecycle /\ Down
    BY DEF Promised, Owned, Counted
  <1> DEFINE issued == {c \in Call : outcome[c] = "ok"}
  <1>1. ASSUME NEW c \in Call, Create(c) PROVE Promise!Next \/ UNCHANGED Promise!vars
    <2> USE DEF Goto, Return
    <2>1. CASE Begin(c) \/ AcquireSlot(c) \/ Unreserve(c) \/ Leave(c) \/ ReleaseSlot(c) \/ RemoveTemp(c)
      BY <2>1, Stutters DEF Begin, AcquireSlot, Unreserve, Leave, ReleaseSlot, RemoveTemp, lockVars,
         closeVars, worldVars
    <2>2. CASE GiveUp(c) \/ RejectClosed(c) \/ OpenTemp(c) \/ Write(c) \/ EndWrite(c) \/ Rename(c)
      <3>1. outcome[c] = "none"
        BY <2>2, <1>shape DEF GiveUp, RejectClosed, OpenTemp, Write, EndWrite, Rename, Lifecycle,
           Undecided, Unpublished
      <3>2. issued' = issued
        BY <2>2, <3>1, <1>shape DEF GiveUp, RejectClosed, OpenTemp, Write, EndWrite, Rename, Shape
      <3>3. UNCHANGED <<entries, expires, fetch, now, closer>>
        BY <2>2 DEF GiveUp, RejectClosed, OpenTemp, Write, EndWrite, Rename, lockVars, closeVars,
           worldVars
      <3>4. QED
        BY <3>2, <3>3, Stutters
    <2>3. CASE Admit(c) \/ Refuse(c)
      <3>1. outcome[c] = "none"
        BY <2>3, <1>shape DEF Admit, Refuse, Lifecycle, Undecided
      <3>2. issued' = issued
        BY <2>3, <3>1, <1>shape DEF Admit, Refuse, Shape
      <3>3. entries' = entries \ Overdue /\ UNCHANGED <<expires, fetch, now, closer>>
        BY <2>3 DEF Admit, Refuse, RemoveExpired, closeVars, worldVars
      <3>4. QED
        BY <3>2, <3>3, <1>shape, SweepExpires DEF Promise!Next
    <2>4. CASE Stamp(c)
      <3>1. c \notin issued /\ expires' = [expires EXCEPT ![c] = now + TTL]
        BY <2>4, <1>shape DEF Stamp, Lifecycle, Undecided, Unpublished
      <3>2. UNCHANGED <<outcome, entries, closer, fetch, now>>
        BY <2>4 DEF Stamp, lockVars, closeVars, worldVars
      <3>3. Promise!FixDeadline(c)
        BY <3>1, <3>2 DEF Promise!FixDeadline
      <3>4. QED
        BY <3>3 DEF Promise!Next
    <2>5. CASE Publish(c)
      <3>1. phase[c] = "stamped" /\ c \notin issued
        BY <2>5, <1>shape DEF Publish, Lifecycle, Undecided, Unpublished
      <3>2. issued' = issued \cup {c}
        BY <2>5, <1>shape DEF Publish, Shape
      <3>3. entries' = (entries \ Overdue) \cup {c} /\ UNCHANGED <<expires, closer, fetch, now>>
        BY <2>5 DEF Publish, closeVars, worldVars
      <3>4. closer \notin {"emptied", "returned"}
        BY <3>1 DEF Promised, DrainedStaysDrained, CallsIn, Working, Reserving, Unpublished
      <3>5. Promise!Publish(c)
        BY <3>1, <3>2, <3>3, <3>4 DEF Promise!Publish, Promise!Keep, Promise!Due, Overdue
      <3>6. QED
        BY <3>5 DEF Promise!Next
    <2>6. QED
      BY <1>1, <2>1, <2>2, <2>3, <2>4, <2>5 DEF Create, Proceed
  <1>2. ASSUME NEW c \in Link, Lookup(c) PROVE Promise!Next
    <2>1. entries' = entries \ Overdue /\ UNCHANGED <<outcome, expires, closer, now>>
      BY <1>2 DEF Lookup, RemoveExpired, callVars, closeVars, worldVars
    <2>2. Promise!BeginDownload(c)
      BY <1>2, <2>1 DEF Lookup, Promise!BeginDownload, Promise!Due, Overdue
    <2>3. QED
      BY <2>2 DEF Promise!Next
  <1>3. ASSUME NEW c \in Link, OpenFile(c) PROVE Promise!Next
    <2>1. UNCHANGED <<outcome, entries, expires, closer, now>> /\ fetch[c] = "found"
      BY <1>3 DEF OpenFile, callVars, lockVars, closeVars, worldVars
    <2>2. CASE disk[c] = "final"
      BY <1>3, <2>1, <2>2 DEF OpenFile, Promise!Next, Promise!Serve
    <2>3. CASE disk[c] # "final"
      <3>1. c \notin entries
        BY <2>3 DEF Promised, LiveEntryHasFile
      <3>2. QED
        BY <1>3, <2>1, <2>3, <3>1 DEF OpenFile, Promise!Next, Promise!Miss
    <2>4. QED
      BY <2>2, <2>3
  <1>4. CASE Sweep
    <2>1. entries' = entries \ Overdue /\ UNCHANGED <<outcome, expires, fetch, now, closer>>
      BY <1>4 DEF Sweep, RemoveExpired, callVars, closeVars, worldVars
    <2>2. QED
      BY <2>1, <1>shape, SweepExpires DEF Promise!Next
  <1>5. CASE JanitorExit \/ CloseFlag \/ CloseStop \/ AwaitJanitor \/ AwaitActive \/ RemoveRoot
             \/ UNCHANGED vars
    <2>1. UNCHANGED <<entries, expires, fetch, now, outcome>>
      BY <1>5 DEF JanitorExit, CloseFlag, CloseStop, AwaitJanitor, AwaitActive, RemoveRoot, vars, callVars,
         lockVars, worldVars
    <2>2. (closer \notin {"emptied", "returned"})' = (closer \notin {"emptied", "returned"})
      BY <1>5 DEF JanitorExit, CloseFlag, CloseStop, AwaitJanitor, AwaitActive, RemoveRoot, vars, closeVars
    <2>3. QED
      BY <2>1, <2>2, Stutters
  <1>6. CASE RemoveAll
    <2>1. /\ entries' = {} /\ closer' \in {"emptied", "returned"}
          /\ UNCHANGED <<outcome, expires, fetch, now>>
      BY <1>6 DEF RemoveAll, callVars, worldVars
    <2>2. Promise!Close
      BY <2>1 DEF Promise!Close
    <2>3. QED
      BY <2>2 DEF Promise!Next
  <1>7. CASE Exit
    BY <1>7 DEF Exit, Promise!Exit, Promise!Next
  <1>8. CASE Start
    BY <1>8, Stutters DEF Start, callVars, closeVars, lockVars
  <1>9. CASE Tick
    BY <1>9 DEF Tick, Promise!Tick, Promise!Next, callVars, closeVars, lockVars
  <1>10. QED
    BY <1>1, <1>2, <1>3, <1>4, <1>5, <1>6, <1>7, <1>8, <1>9 DEF Next, Download, CloseStep, StartOther

\* In a directory of its own the store keeps the promise of ExportCapability:
\* every artifact goes live once and atomically, leaves only when it is
\* overdue or the store closes, and a download that found its entry is
\* answered 404 only when the entry has gone meanwhile.
THEOREM StoreKeepsPromise ==
  ASSUME ~SharedRoot
  PROVE  Spec => KeepsPromise
  <1>1. Init => Promise!Init
    BY DEF Init, Promise!Init
  <1>2. Promised /\ [Next]_vars => [Promise!Next]_(Promise!vars)
    BY PromiseStep
  <1>3. Spec => []Promised
    BY OwnedAlways, CloseDrains, EmptiedAlways, EntriesHaveFiles, PTL DEF Promised
  <1>4. QED
    BY <1>1, <1>2, <1>3, PTL DEF Spec, KeepsPromise, Promise!Spec
=============================================================================
