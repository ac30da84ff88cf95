------------------------------ MODULE KeyListing ------------------------------
(***************************************************************************)
(* The listing of the keys of a Redis: redisBackend.ListTables             *)
(* (internal/database/redis.go).                                           *)
(*                                                                         *)
(* SCAN, as the server documents it: the calls together return every key   *)
(* that is there from the first to the last; one that comes or goes in     *)
(* between may be returned or not; any may be returned more than once, and *)
(* a call may return none.  Keys are numbers in the order of their names,  *)
(* and those that match the pattern asked for.                             *)
(***************************************************************************)
EXTENDS Integers, Sequences, SequencesExt, FiniteSets

CONSTANTS
  Key,
  ScanLimit,   \* redisScanLimit
  MaxBatch,    \* the keys of one call, at most
  Patience     \* bound: the calls of a scan after which the server ends it

VARIABLES
  present,    \* the keys there are
  steady,     \* history: those that have been there since the scan began
  expired,    \* the context is done
  pc,         \* "scanning", "typing", "ok" or "error"
  calls,
  keys,       \* what the calls returned
  at,         \* the key whose TYPE is next
  out         \* the listing

vars == <<present, steady, expired, pc, calls, keys, at, out>>

Init ==
  /\ present \in SUBSET Key
  /\ steady = present
  /\ expired = FALSE /\ pc = "scanning" /\ calls = 0
  /\ keys = <<>> /\ at = 1 /\ out = <<>>

Returned == pc \in {"ok", "error"}

Batches == UNION {[1..n -> present] : n \in 0..MaxBatch}

\* After which calls the server may end the scan.
AllReturned(returned) == steady \subseteq ToSet(returned)

\* The loop is over.
Done(cursorIsZero, batch, found) == cursorIsZero \/ Len(found) >= ScanLimit

Cut(found) == SubSeq(found, 1, IF Len(found) > ScanLimit THEN ScanLimit ELSE Len(found))

\* What sort.Strings can make of a sequence.
Sorted(s) ==
  {[i \in 1..Len(s) |-> s[p[i]]] :
     p \in {q \in Bijection(1..Len(s), 1..Len(s)) :
             \A i, j \in 1..Len(s) : i < j => s[q[i]] <= s[q[j]]}}

\* One call of SCAN; after the last the keys are cut and sorted.
Scan ==
  /\ pc = "scanning" /\ ~expired
  /\ \E batch \in Batches, zero \in BOOLEAN :
       LET found == keys \o batch
       IN  /\ zero => AllReturned(found)
           /\ calls + 1 >= Patience => zero
           /\ calls' = calls + 1
           /\ IF Done(zero, batch, found)
              THEN /\ keys' \in Sorted(Cut(found))
                   /\ pc' = IF found = <<>> THEN "ok" ELSE "typing"
              ELSE keys' = found /\ UNCHANGED pc
  /\ UNCHANGED <<present, steady, expired, at, out>>

\* TYPE of the next key; it may be gone by then.
Type ==
  /\ pc = "typing" /\ ~expired
  /\ out' = IF keys[at] \in present THEN Append(out, keys[at]) ELSE out
  /\ at' = at + 1
  /\ pc' = IF at = Len(keys) THEN "ok" ELSE "typing"
  /\ UNCHANGED <<present, steady, expired, calls, keys>>

\* A call fails, or its context is done.
Fail ==
  /\ ~Returned
  /\ pc' = "error"
  /\ UNCHANGED <<present, steady, expired, calls, keys, at, out>>

Expire ==
  /\ ~Returned /\ ~expired
  /\ expired' = TRUE
  /\ UNCHANGED <<present, steady, pc, calls, keys, at, out>>

\* A key is set, deleted or expires.
Change(k) ==
  /\ ~Returned
  /\ present' = IF k \in present THEN present \ {k} ELSE present \cup {k}
  /\ steady' = steady \ {k}
  /\ UNCHANGED <<expired, pc, calls, keys, at, out>>

Proceed == Scan \/ Type \/ Fail

Next == Proceed \/ Expire \/ \E k \in Key : Change(k)

Spec == Init /\ [][Next]_vars

-----------------------------------------------------------------------------
(* Properties. *)

TypeOK ==
  /\ present \in SUBSET Key /\ steady \in SUBSET present
  /\ expired \in BOOLEAN
  /\ pc \in {"scanning", "typing", "ok", "error"}
  /\ calls \in 0..Patience
  /\ keys \in Seq(Key) /\ out \in Seq(Key)
  /\ (pc # "scanning" => Len(keys) <= ScanLimit)
  /\ at \in 1..(Len(keys) + 1) /\ (pc = "typing" => at <= Len(keys))

\* The scan ended at the limit, which counts a key as often as SCAN returned it.
LimitMet == Len(keys) = ScanLimit

\* A key that is there all the time is listed, whatever empty batches,
\* duplicates and vanishing keys come before it, unless the limit was met
\* (redis.go:188-229).  Then one may be missing from a keyspace that is smaller
\* than the limit, as repeated keys count, and the listing does not say so: it
\* is "for orientation, not export" (redis.go:23-24).
SteadyKeysListed ==
  pc = "ok" => steady \subseteq ToSet(out) \/ LimitMet

\* The listing is in the order of the names and no longer than its limit, and
\* a key is in it as often as SCAN returned it while it was there
\* (redis.go:202-229).
ListedInOrder ==
  pc = "ok" =>
    /\ Len(out) <= ScanLimit
    /\ \A i, j \in 1..Len(out) : i < j => out[i] <= out[j]
    /\ \A k \in steady :
         Cardinality({i \in 1..Len(out) : out[i] = k}) = Cardinality({i \in 1..Len(keys) : keys[i] = k})

=============================================================================
