----------------------------- MODULE ExportStore -----------------------------
(***************************************************************************)
(* The export store of dbq (internal/artifact/store.go): the Store that    *)
(* turns the output of a streaming query into a file, hands out a random   *)
(* ID for it, serves it over HTTP until it expires and clears its          *)
(* directory when the process shuts down.                                  *)
(*                                                                         *)
(* Goroutines: one per Create call, one per download, the janitor and the  *)
(* one that calls Close.  Each section of code under s.mu is one action    *)
(* (nothing blocks while s.mu is held); every file operation outside the   *)
(* lock, and every deferred function, is an action of its own, because     *)
(* the other goroutines run in between.                                    *)
(*                                                                         *)
(* A call stands for the ID of the artifact it creates: randomID gives     *)
(* every call 24 random bytes, which are taken to be distinct.             *)
(***************************************************************************)
EXTENDS Integers, FiniteSets

CONSTANTS
    Call,            \* Create calls, each of them made at most once
    Link,            \* the artifacts whose download link somebody follows
    Chunk,           \* the sizes a single Write call may have
    MaxBytes,        \* Store.maxBytes: bytes of one artifact
    MaxTotalBytes,   \* Store.maxTotalBytes: bytes of all live artifacts
    MaxFiles,        \* Store.maxFiles: number of live artifacts
    MaxConcurrent,   \* capacity of Store.slots
    TTL,             \* Store.ttl
    MaxTime,         \* bound: the clock stops here
    MaxExits,        \* bound: how often the process may die
    OwnedRoot,       \* Store.ownedRoot: no export_dir configured
    SharedRoot,      \* another dbq process uses the same export_dir
    RemovalMayFail   \* os.Remove may report an error

ASSUME CallAssumption == IsFiniteSet(Call) /\ Link \subseteq Call
ASSUME LimitAssumption ==
    /\ MaxBytes \in Nat \ {0} /\ MaxTotalBytes \in Nat \ {0}
    /\ MaxFiles \in Nat \ {0} /\ MaxConcurrent \in Nat \ {0}
    /\ TTL \in Nat \ {0} /\ Chunk \subseteq Nat \ {0}
ASSUME BoundAssumption == MaxTime \in Nat /\ MaxExits \in Nat
ASSUME RootAssumption ==
    /\ OwnedRoot \in BOOLEAN /\ SharedRoot \in BOOLEAN
    /\ RemovalMayFail \in BOOLEAN
    /\ OwnedRoot => ~SharedRoot   \* os.MkdirTemp makes a fresh directory

VARIABLES
    \* the goroutines
    phase,       \* where each Create call stands
    outcome,     \* what it has decided to return
    written,     \* limitWriter.written; Metadata.Size once it is published
    expires,     \* Metadata.ExpiresAt
    fetch,       \* the download of each link
    janitor,     \* runJanitor: "running" or "done"
    closer,      \* where Close stands
    closeErr,    \* Close has an error to report
    \* the fields of Store that s.mu protects, and its channels
    entries, totalBytes, creating, reserved, active, slots,
    \* the directory and the world
    disk,        \* per artifact: no file, its .partial- file, its final file
    stuck,       \* artifacts whose file os.Remove once failed to remove
    up, exits, now

callVars  == <<phase, outcome, written, expires>>
lockVars  == <<entries, totalBytes, creating, reserved>>
diskVars  == <<disk, stuck>>
closeVars == <<janitor, closer, closeErr>>
worldVars == <<up, exits, now>>
vars == <<callVars, fetch, closeVars, lockVars, active, slots, diskVars, worldVars>>

Phase == {"idle", "waiting", "slotted", "admitted", "writing", "complete",
          "renamed", "stamped", "removing", "unreserving", "leaving",
          "releasing", "returned", "lost"}
Outcome == {"none", "ok", "closed", "cancelled", "capacity", "tooLarge", "failed"}
FetchState == {"none", "found", "served", "missing", "dropped"}
CloserState == {"none", "flagged", "stopping", "draining", "drained", "emptied", "returned"}

\* The calls between creating++ and creating--; those of them that have not
\* yet entered their file in entries; those counted by the WaitGroup; those
\* holding a slot.
Unpublished == {"admitted", "writing", "complete", "renamed", "stamped"}
Reserving   == Unpublished \cup {"removing", "unreserving"}
Working     == Reserving \cup {"leaving"}
Holding     == Working \cup {"slotted", "releasing"}
CallsIn(P)  == {c \in Call : phase[c] \in P}

\* A set of artifacts as the set of its bytes, so that a sum of sizes is a
\* cardinality.
Cells(S, size)  == {cell \in S \X (1..MaxBytes) : cell[2] <= size[cell[1]]}
SizeOf(S)       == Cardinality(Cells(S, written))

Closed  == closer # "none"                       \* Store.closed
Stopped == closer \notin {"none", "flagged"}     \* Store.stop is closed
Overdue == {c \in entries : now >= expires[c]}   \* ~now.Before(ExpiresAt)

Init ==
    /\ phase = [c \in Call |-> "idle"]
    /\ outcome = [c \in Call |-> "none"]
    /\ written = [c \in Call |-> 0]
    /\ expires = [c \in Call |-> 0]
    /\ fetch = [c \in Link |-> "none"]
    /\ janitor = "running" /\ closer = "none" /\ closeErr = FALSE
    /\ entries = {} /\ totalBytes = 0 /\ creating = 0 /\ reserved = 0
    /\ active = 0 /\ slots = 0
    /\ disk = [c \in Call |-> "none"] /\ stuck = {}
    /\ up = TRUE /\ exits = 0 /\ now = 0

-----------------------------------------------------------------------------
(* Files *)

\* os.Remove on the files of S: those of F, which exist, stay where they are.
Remove(S, F) ==
    /\ F \subseteq {c \in S : disk[c] # "none"}
    /\ F # {} => RemovalMayFail
    /\ disk' = [c \in Call |-> IF c \in S \ F THEN "none" ELSE disk[c]]
    /\ stuck' = stuck \cup F

\* removeExpiredLocked: an expired entry is forgotten even when its file
\* could not be removed.
RemoveExpired ==
    /\ \E F \in SUBSET Overdue : Remove(Overdue, F)
    /\ entries' = entries \ Overdue
    /\ totalBytes' = totalBytes - SizeOf(Overdue)

-----------------------------------------------------------------------------
(* Create *)

Goto(c, p) == phase' = [phase EXCEPT ![c] = p]

Return(c, p, result) ==
    /\ Goto(c, p)
    /\ outcome' = [outcome EXCEPT ![c] = result]

Begin(c) ==
    /\ up /\ phase[c] = "idle"
    /\ Goto(c, "waiting")
    /\ UNCHANGED <<outcome, written, expires, fetch, closeVars, lockVars,
                   active, slots, diskVars, worldVars>>

\* The three cases of the select; any of those that are ready may be taken.
AcquireSlot(c) ==
    /\ up /\ phase[c] = "waiting"
    /\ slots < MaxConcurrent
    /\ slots' = slots + 1
    /\ Goto(c, "slotted")
    /\ UNCHANGED <<outcome, written, expires, fetch, closeVars, lockVars,
                   active, diskVars, worldVars>>

GiveUp(c) ==
    /\ up /\ phase[c] = "waiting"
    /\ \/ Return(c, "returned", "cancelled")
       \/ Stopped /\ Return(c, "returned", "closed")
    /\ UNCHANGED <<written, expires, fetch, closeVars, lockVars, active, slots,
                   diskVars, worldVars>>

\* s.mu: the closed check fails.
RejectClosed(c) ==
    /\ up /\ phase[c] = "slotted" /\ Closed
    /\ Return(c, "releasing", "closed")
    /\ UNCHANGED <<written, expires, fetch, closeVars, lockVars, active, slots,
                   diskVars, worldVars>>

\* (mutant) Only the published artifacts are counted.
HasCapacityOfEntries(live, bytes) ==
    /\ Cardinality(live) < MaxFiles
    /\ bytes + reserved + MaxBytes <= MaxTotalBytes

\* The capacity check, on the entries the sweep has left.
HasCapacity(live, bytes) ==
    /\ Cardinality(live) + creating < MaxFiles
    /\ bytes + reserved + MaxBytes <= MaxTotalBytes

\* (mutant) A call that got its slot before Close does not look at closed.
AdmitWhenClosed(c) ==
    /\ up /\ phase[c] = "slotted"
    /\ RemoveExpired
    /\ HasCapacity(entries', totalBytes')
    /\ active' = active + 1
    /\ creating' = creating + 1
    /\ reserved' = reserved + MaxBytes
    /\ Goto(c, "admitted")
    /\ UNCHANGED <<outcome, written, expires, fetch, closeVars, slots, worldVars>>

\* s.mu: active.Add(1), the sweep, then the reservation ...
Admit(c) ==
    /\ up /\ phase[c] = "slotted" /\ ~Closed
    /\ RemoveExpired
    /\ HasCapacity(entries', totalBytes')
    /\ active' = active + 1
    /\ creating' = creating + 1
    /\ reserved' = reserved + MaxBytes
    /\ Goto(c, "admitted")
    /\ UNCHANGED <<outcome, written, expires, fetch, closeVars, slots, worldVars>>

\* ... or ErrCapacity.
Refuse(c) ==
    /\ up /\ phase[c] = "slotted" /\ ~Closed
    /\ RemoveExpired
    /\ ~HasCapacity(entries', totalBytes')
    /\ active' = active + 1
    /\ Return(c, "leaving", "capacity")
    /\ UNCHANGED <<written, expires, fetch, closeVars, creating, reserved,
                   slots, worldVars>>

\* (mutant) The reservation is given back only once the file is open.
OpenTempKeeping(c) ==
    /\ up /\ phase[c] = "admitted"
    /\ \/ /\ disk' = [disk EXCEPT ![c] = "partial"]
          /\ Goto(c, "writing")
          /\ UNCHANGED outcome
       \/ /\ Return(c, "leaving", "failed")
          /\ UNCHANGED disk
    /\ UNCHANGED <<written, expires, fetch, closeVars, lockVars, active, slots,
                   stuck, worldVars>>

\* os.CreateTemp, or randomID or os.CreateTemp failing.
OpenTemp(c) ==
    /\ up /\ phase[c] = "admitted"
    /\ \/ /\ disk' = [disk EXCEPT ![c] = "partial"]
          /\ Goto(c, "writing")
          /\ UNCHANGED outcome
       \/ /\ Return(c, "unreserving", "failed")
          /\ UNCHANGED disk
    /\ UNCHANGED <<written, expires, fetch, closeVars, lockVars, active, slots,
                   stuck, worldVars>>

\* limitWriter.Write of n bytes: a write that would pass the limit writes
\* nothing and ends the callback with ErrTooLarge.
Write(c) ==
    /\ up /\ phase[c] = "writing"
    /\ \E n \in Chunk :
          \/ /\ written[c] + n <= MaxBytes
             /\ written' = [written EXCEPT ![c] = @ + n]
             /\ UNCHANGED <<phase, outcome>>
          \/ /\ written[c] + n > MaxBytes
             /\ Return(c, "removing", "tooLarge")
             /\ UNCHANGED written
    /\ UNCHANGED <<expires, fetch, closeVars, lockVars, active, slots,
                   diskVars, worldVars>>

\* The callback returns nil, or the error of the query or of the file.
EndWrite(c) ==
    /\ up /\ phase[c] = "writing"
    /\ \/ Goto(c, "complete") /\ UNCHANGED outcome
       \/ Return(c, "removing", "failed")
    /\ UNCHANGED <<written, expires, fetch, closeVars, lockVars, active, slots,
                   diskVars, worldVars>>

\* Sync, Close and Rename; each of them may fail, and Rename does when the
\* temporary file is no longer there.
Rename(c) ==
    /\ up /\ phase[c] = "complete"
    /\ \/ /\ disk[c] = "partial"
          /\ disk' = [disk EXCEPT ![c] = "final"]
          /\ Goto(c, "renamed")
          /\ UNCHANGED outcome
       \/ /\ Return(c, "removing", "failed")
          /\ UNCHANGED disk
    /\ UNCHANGED <<written, expires, fetch, closeVars, lockVars, active, slots,
                   stuck, worldVars>>

\* ExpiresAt is read off the clock before s.mu is taken.
Stamp(c) ==
    /\ up /\ phase[c] = "renamed"
    /\ expires' = [expires EXCEPT ![c] = now + TTL]
    /\ Goto(c, "stamped")
    /\ UNCHANGED <<outcome, written, fetch, closeVars, lockVars, active, slots,
                   diskVars, worldVars>>

\* s.mu: the sweep, then the new entry.
Publish(c) ==
    /\ up /\ phase[c] = "stamped"
    /\ \E F \in SUBSET Overdue : Remove(Overdue, F)
    /\ entries' = (entries \ Overdue) \cup {c}
    /\ totalBytes' = totalBytes - SizeOf(Overdue) + written[c]
    /\ Return(c, "removing", "ok")
    /\ UNCHANGED <<written, expires, fetch, closeVars, creating, reserved,
                   active, slots, worldVars>>

\* (mutant) The temporary file of a failed call stays.
RemoveTempNever(c) ==
    /\ up /\ phase[c] = "removing"
    /\ Goto(c, "unreserving")
    /\ UNCHANGED <<outcome, written, expires, fetch, closeVars, lockVars,
                   active, slots, diskVars, worldVars>>

\* The deferred functions, last one first: os.Remove(tempPath), which finds
\* nothing after the rename; the reservation; active.Done; the slot.
RemoveTemp(c) ==
    /\ up /\ phase[c] = "removing"
    /\ LET temp == IF disk[c] = "partial" THEN {c} ELSE {}
       IN  \E F \in SUBSET temp : Remove(temp, F)
    /\ Goto(c, "unreserving")
    /\ UNCHANGED <<outcome, written, expires, fetch, closeVars, lockVars,
                   active, slots, worldVars>>

Unreserve(c) ==
    /\ up /\ phase[c] = "unreserving"
    /\ creating' = creating - 1
    /\ reserved' = reserved - MaxBytes
    /\ Goto(c, "leaving")
    /\ UNCHANGED <<outcome, written, expires, fetch, closeVars, entries,
                   totalBytes, active, slots, diskVars, worldVars>>

Leave(c) ==
    /\ up /\ phase[c] = "leaving"
    /\ active' = active - 1
    /\ Goto(c, "releasing")
    /\ UNCHANGED <<outcome, written, expires, fetch, closeVars, lockVars,
                   slots, diskVars, worldVars>>

\* (mutant) A failed call keeps its slot.
ReleaseSlotOnSuccess(c) ==
    /\ up /\ phase[c] = "releasing"
    /\ slots' = IF outcome[c] = "ok" THEN slots - 1 ELSE slots
    /\ Goto(c, "returned")
    /\ UNCHANGED <<outcome, written, expires, fetch, closeVars, lockVars,
                   active, diskVars, worldVars>>

ReleaseSlot(c) ==
    /\ up /\ phase[c] = "releasing"
    /\ slots' = slots - 1
    /\ Goto(c, "returned")
    /\ UNCHANGED <<outcome, written, expires, fetch, closeVars, lockVars,
                   active, diskVars, worldVars>>

\* What Create does from the slot on, and what every call goes through
\* unless it gives up waiting for one.
Proceed(c) ==
    \/ RejectClosed(c) \/ Admit(c) \/ Refuse(c)
    \/ OpenTemp(c) \/ Write(c) \/ EndWrite(c) \/ Rename(c) \/ Stamp(c) \/ Publish(c)
    \/ RemoveTemp(c) \/ Unreserve(c) \/ Leave(c) \/ ReleaseSlot(c)

Create(c) == Begin(c) \/ AcquireSlot(c) \/ GiveUp(c) \/ Proceed(c)

-----------------------------------------------------------------------------
(* ServeHTTP: the entry is looked up under s.mu, its file opened after. *)

\* (mutant) The entry is looked up without a sweep before.
LookupUnswept(c) ==
    /\ up /\ fetch[c] # "found"
    /\ phase[c] = "returned" /\ outcome[c] = "ok"
    /\ fetch' = [fetch EXCEPT ![c] = IF c \in entries THEN "found" ELSE "missing"]
    /\ UNCHANGED <<callVars, closeVars, lockVars, active, slots, diskVars, worldVars>>

Lookup(c) ==
    /\ up /\ fetch[c] # "found"
    /\ phase[c] = "returned" /\ outcome[c] = "ok"   \* only then is the ID known
    /\ RemoveExpired
    /\ fetch' = [fetch EXCEPT ![c] = IF c \in entries' THEN "found" ELSE "missing"]
    /\ UNCHANGED <<callVars, closeVars, creating, reserved, active, slots, worldVars>>

OpenFile(c) ==
    /\ up /\ fetch[c] = "found"
    /\ fetch' = [fetch EXCEPT ![c] = IF disk[c] = "final" THEN "served" ELSE "missing"]
    /\ UNCHANGED <<callVars, closeVars, lockVars, active, slots, diskVars, worldVars>>

Download(c) == Lookup(c) \/ OpenFile(c)

-----------------------------------------------------------------------------
(* runJanitor: ticks until stop is closed *)

Sweep ==
    /\ up /\ janitor = "running"
    /\ RemoveExpired
    /\ UNCHANGED <<callVars, fetch, closeVars, creating, reserved, active,
                   slots, worldVars>>

\* (mutant) The janitor may leave its loop before stop is closed.
JanitorExitEarly ==
    /\ up /\ janitor = "running"
    /\ janitor' = "done"
    /\ UNCHANGED <<callVars, fetch, closer, closeErr, lockVars, active, slots,
                   diskVars, worldVars>>

JanitorExit ==
    /\ up /\ janitor = "running" /\ Stopped
    /\ janitor' = "done"
    /\ UNCHANGED <<callVars, fetch, closer, closeErr, lockVars, active, slots,
                   diskVars, worldVars>>

-----------------------------------------------------------------------------
(* Close *)

CloseFlag ==      \* s.mu: closed = true
    /\ up /\ closer = "none"
    /\ closer' = "flagged"
    /\ UNCHANGED <<callVars, fetch, janitor, closeErr, lockVars, active, slots,
                   diskVars, worldVars>>

CloseStop ==      \* close(s.stop)
    /\ up /\ closer = "flagged"
    /\ closer' = "stopping"
    /\ UNCHANGED <<callVars, fetch, janitor, closeErr, lockVars, active, slots,
                   diskVars, worldVars>>

AwaitJanitor ==   \* <-s.done
    /\ up /\ closer = "stopping" /\ janitor = "done"
    /\ closer' = "draining"
    /\ UNCHANGED <<callVars, fetch, janitor, closeErr, lockVars, active, slots,
                   diskVars, worldVars>>

\* (mutant) Close does not wait for the calls at work.
AwaitNobody ==
    /\ up /\ closer = "draining"
    /\ closer' = "drained"
    /\ UNCHANGED <<callVars, fetch, janitor, closeErr, lockVars, active, slots,
                   diskVars, worldVars>>

AwaitActive ==    \* s.active.Wait()
    /\ up /\ closer = "draining" /\ active = 0
    /\ closer' = "drained"
    /\ UNCHANGED <<callVars, fetch, janitor, closeErr, lockVars, active, slots,
                   diskVars, worldVars>>

\* s.mu: every entry goes; os.Remove reports the files that would not, or
\* that were not there.
RemoveAll ==
    /\ up /\ closer = "drained"
    /\ \E F \in SUBSET entries :
          /\ Remove(entries, F)
          /\ closeErr' = (F # {} \/ \E c \in entries : disk[c] = "none")
    /\ entries' = {} /\ totalBytes' = 0
    /\ closer' = IF OwnedRoot THEN "emptied" ELSE "returned"
    /\ UNCHANGED <<callVars, fetch, janitor, creating, reserved, active, slots,
                   worldVars>>

RemoveRoot ==     \* os.RemoveAll(s.root)
    /\ up /\ closer = "emptied"
    /\ \E F \in SUBSET Call :
          /\ Remove(Call, F)
          /\ closeErr' = (closeErr \/ F # {})
    /\ closer' = "returned"
    /\ UNCHANGED <<callVars, fetch, janitor, lockVars, active, slots, worldVars>>

CloseStep == CloseStop \/ AwaitJanitor \/ AwaitActive \/ RemoveAll \/ RemoveRoot

-----------------------------------------------------------------------------
(* The process and its surroundings *)

\* The process ends, killed or after Close: memory goes, files stay.  In a
\* private directory they are out of reach of the next process.
Exit ==
    /\ up /\ exits < MaxExits
    /\ up' = FALSE /\ exits' = exits + 1
    /\ phase' = [c \in Call |-> IF phase[c] \in {"idle", "returned"} THEN phase[c] ELSE "lost"]
    /\ fetch' = [c \in Link |-> IF fetch[c] = "found" THEN "dropped" ELSE fetch[c]]
    /\ janitor' = "running" /\ closer' = "none" /\ closeErr' = FALSE
    /\ entries' = {} /\ totalBytes' = 0 /\ creating' = 0 /\ reserved' = 0
    /\ active' = 0 /\ slots' = 0
    /\ UNCHANGED <<outcome, written, expires, diskVars, now>>

\* (mutant) A new process leaves the directory as it is.
StartUncleaned ==
    /\ ~up
    /\ up' = TRUE
    /\ UNCHANGED <<callVars, fetch, closeVars, lockVars, active, slots, diskVars, exits, now>>

\* NewStore: with export_dir configured, removeOrphans clears what earlier
\* processes have left there.  A private directory is a new, empty one.
Start ==
    /\ ~up
    /\ up' = TRUE
    /\ IF OwnedRoot
       THEN disk' = [c \in Call |-> "none"] /\ UNCHANGED stuck
       ELSE \E F \in SUBSET Call : Remove(Call, F)
    /\ UNCHANGED <<callVars, fetch, closeVars, lockVars, active, slots, exits, now>>

\* NewStore of another process on the same export_dir.
StartOther ==
    /\ SharedRoot
    /\ \E F \in SUBSET Call : Remove(Call, F)
    /\ UNCHANGED <<callVars, fetch, closeVars, lockVars, active, slots, worldVars>>

Tick ==
    /\ now < MaxTime
    /\ now' = now + 1
    /\ UNCHANGED <<callVars, fetch, closeVars, lockVars, active, slots, diskVars, up, exits>>

Next ==
    \/ \E c \in Call : Create(c)
    \/ \E c \in Link : Download(c)
    \/ Sweep \/ JanitorExit
    \/ CloseFlag \/ CloseStep
    \/ Exit \/ Start \/ StartOther \/ Tick

Spec == Init /\ [][Next]_vars

\* Every goroutine runs on: Go schedules a runnable goroutine eventually, the
\* write callback is bounded by the query timeout, the ticker keeps ticking
\* and a select does not ignore a ready case for ever.  Clients, the clock and
\* the end of the process owe nothing.
Fairness ==
    /\ \A c \in Call : WF_vars(AcquireSlot(c)) /\ WF_vars(Proceed(c))
    /\ \A c \in Link : WF_vars(OpenFile(c))
    /\ WF_vars(Sweep) /\ WF_vars(JanitorExit) /\ WF_vars(CloseStep)

FairSpec == Spec /\ Fairness

-----------------------------------------------------------------------------
(* Properties *)

TypeOK ==
    /\ phase \in [Call -> Phase] /\ outcome \in [Call -> Outcome]
    /\ written \in [Call -> 0..MaxBytes] /\ expires \in [Call -> Nat]
    /\ fetch \in [Link -> FetchState]
    /\ janitor \in {"running", "done"} /\ closer \in CloserState /\ closeErr \in BOOLEAN
    /\ entries \subseteq Call
    /\ totalBytes \in Nat /\ creating \in Nat /\ reserved \in Nat
    /\ active \in Nat /\ slots \in 0..MaxConcurrent
    /\ disk \in [Call -> {"none", "partial", "final"}] /\ stuck \subseteq Call
    /\ up \in BOOLEAN /\ exits \in 0..MaxExits /\ now \in 0..MaxTime

\* The counters behind the limits say what they count, whichever way the
\* calls end: a reservation, a WaitGroup count or a slot that one exit path
\* of Create forgot would shrink the store, or block Close, for good.
CountersExact ==
    /\ creating = Cardinality(CallsIn(Reserving))
    /\ reserved = Cardinality(CallsIn(Reserving) \X (1..MaxBytes))
    /\ active = Cardinality(CallsIn(Working))
    /\ slots = Cardinality(CallsIn(Holding))
    /\ totalBytes = SizeOf(entries)

\* The calls that may still have, or get, a file outside entries.
Owing == {c \in CallsIn(Reserving) : outcome[c] # "ok"}
Claims == Cells(entries, written) \cup (Owing \X (1..MaxBytes))

\* The limits of the configuration hold for the live artifacts together with
\* all that the admitted calls may still add, although a call is admitted in
\* one critical section, writes without the lock and is entered in another.
FilesWithinLimit == Cardinality(entries \cup Owing) <= MaxFiles
BytesWithinLimit == Cardinality(Claims) <= MaxTotalBytes

AdmittedWithinLimits == FilesWithinLimit /\ BytesWithinLimit

\* Every file in the directory is that of a live entry or of a call still at
\* work, save those os.Remove failed on: no exit path of Create, no expiry
\* and no earlier process leaves one behind.
NoStrayFiles ==
    up => \A c \in Call : disk[c] # "none" => c \in entries \cup Owing \cup stuck

\* So the limit on bytes is one on the bytes in the directory as well.
DiskWithinLimit ==
    up => Cardinality(Cells({c \in Call \ stuck : disk[c] # "none"}, written)) <= MaxTotalBytes

\* An ID that the store would serve has its complete file under its final
\* name, as long as the directory is this process's own.
LiveEntryHasFile == ~SharedRoot => \A c \in entries : disk[c] = "final"

\* Once Close has seen the WaitGroup drained no call is, or gets, between
\* active.Add and active.Done: nothing is published behind its back.
DrainedStaysDrained ==
    closer \in {"drained", "emptied", "returned"} => CallsIn(Working) = {}

\* When Close returns nothing is live and no file is left that os.Remove
\* would have removed.
ClosedStoreIsEmpty ==
    closer = "returned" =>
        /\ entries = {} /\ totalBytes = 0
        /\ \A c \in Call : disk[c] # "none" => c \in stuck

\* store.go:271: Close "removes every artifact created by this process".  So
\* when it reports no error, none is left.
CloseRemovesEveryArtifact ==
    closer = "returned" /\ ~closeErr =>
        \A c \in Call : outcome[c] = "ok" => disk[c] = "none"

\* Every Create call comes back, one that waits for a slot included, and
\* also when Close is waiting for the calls meanwhile.
EveryCallReturns == \A c \in Call : phase[c] = "waiting" ~> phase[c] \in {"returned", "lost"}

\* Close comes back, unless the process dies first.
CloseReturns == closer = "flagged" ~> (closer = "returned" \/ ~up)

\* So no caller waits for ever.
CallsReturn == EveryCallReturns /\ CloseReturns

\* An expired artifact goes without anybody asking for it.
ExpiredIsRemoved == \A c \in Call : c \in Overdue ~> c \notin entries

-----------------------------------------------------------------------------
(* The store keeps the promise of ExportCapability. *)

Promise == INSTANCE ExportCapability WITH
    Id <- Call,
    issued <- {c \in Call : outcome[c] = "ok"},
    live <- entries,
    deadline <- expires,
    open <- closer \notin {"emptied", "returned"},
    clock <- now

\* Locks, files and sweeps included, the store is an ExportCapability: an
\* artifact goes live once and atomically, leaves only when it is overdue or
\* the store is closed, and a download that found its entry is answered 404
\* only if that entry has gone since.
KeepsPromise == Promise!Spec
=============================================================================
