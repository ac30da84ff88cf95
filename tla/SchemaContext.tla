---------------------------- MODULE SchemaContext ----------------------------
(***************************************************************************)
(* Service.SchemaContext (internal/service/service.go): the tables of a    *)
(* connection are listed, and described one after the other while the      *)
(* database changes.  The columns of a table and its foreign keys are two  *)
(* questions (DescribeTable of internal/database/introspect.go).  The      *)
(* database may fail any question or stop answering; then only the         *)
(* deadline ends the wait.                                                 *)
(***************************************************************************)
EXTENDS Integers, Sequences, SequencesExt, FiniteSets

CONSTANTS
  Table,        \* numbers, in the order in which the database lists them
  Name,         \* of a table, without schema and in lower case
  Wanted,       \* the sets of names a caller may ask for, none for all
  MaxTables,    \* the caps it may set
  DefaultMaxSchemaTables

VARIABLES
  exists,     \* the tables there are
  hung,       \* the database does not answer
  expired,    \* the context is done
  request,
  pc,         \* "listing", "columns", "keys", "ok" or "error"
  listed,     \* history: what was listed and asked for
  todo,       \* the tables to describe
  at,         \* which of them is next
  out,        \* the answer so far
  failed      \* history: the tables, and their keys, that failed in time

vars == <<exists, hung, expired, request, pc, listed, todo, at, out, failed>>

Returned == pc \in {"ok", "error"}

Init ==
  /\ exists \in SUBSET Table
  /\ hung = FALSE /\ expired = FALSE
  /\ request \in [wanted : Wanted, max : MaxTables]
  /\ pc = "listing"
  /\ listed = <<>> /\ todo = <<>> /\ at = 1 /\ out = <<>>
  /\ failed = {}

Cap == IF request.max <= 0 THEN DefaultMaxSchemaTables ELSE request.max

\* TableCount and Truncated of the answer.
TableCount == Len(listed)

Truncated == Len(listed) > Cap

Matching == {t \in exists : request.wanted # {} => Name[t] \in request.wanted}

\* What the database lists, as far as it was asked for.
Listings ==
  {l \in [1..Cardinality(Matching) -> Matching] : \A i, j \in DOMAIN l : i < j => l[i] < l[j]}

List ==
  /\ pc = "listing" /\ ~hung /\ ~expired
  /\ \E l \in Listings :
       /\ listed' = l
       /\ todo' = SubSeq(l, 1, IF Len(l) > Cap THEN Cap ELSE Len(l))
       /\ pc' = IF l = <<>> THEN "ok" ELSE "columns"
  /\ UNCHANGED <<exists, hung, expired, request, at, out, failed>>

\* A question may fail, or end with its context.
Fails == ~hung \/ expired

ListFails ==
  /\ pc = "listing" /\ Fails
  /\ pc' = "error"
  /\ UNCHANGED <<exists, hung, expired, request, listed, todo, at, out, failed>>

\* The next round of the loop, or its end.
Continue ==
  /\ at' = at + 1
  /\ pc' = IF at = Len(todo) THEN "ok" ELSE "columns"

Columns ==
  /\ pc = "columns" /\ ~hung /\ ~expired
  /\ todo[at] \in exists
  /\ pc' = "keys"
  /\ UNCHANGED <<exists, hung, expired, request, listed, todo, at, out, failed>>

\* (mutant) what cannot be described is skipped, whatever the reason.
SkipAlways ==
  /\ pc = "columns" /\ Fails
  /\ Continue
  /\ failed' = IF expired THEN failed ELSE failed \cup {<<todo[at], "columns">>}
  /\ UNCHANGED <<exists, hung, expired, request, listed, todo, out>>

\* The table is gone or cannot be read: it is skipped, unless time is up.
Skip ==
  /\ pc = "columns" /\ Fails
  /\ IF expired
     THEN pc' = "error" /\ UNCHANGED <<at, failed>>
     ELSE Continue /\ failed' = failed \cup {<<todo[at], "columns">>}
  /\ UNCHANGED <<exists, hung, expired, request, listed, todo, out>>

\* The answer of a table, with its foreign keys or without.
Describe(keys) ==
  /\ out' = Append(out, [table |-> todo[at], keys |-> keys])
  /\ Continue

Keys ==
  /\ pc = "keys" /\ ~hung /\ ~expired
  /\ Describe(TRUE)
  /\ UNCHANGED <<exists, hung, expired, request, listed, todo, failed>>

\* Keys that cannot be read are left out, for whatever reason.
NoKeys ==
  /\ pc = "keys" /\ Fails
  /\ Describe(FALSE)
  /\ failed' = IF expired THEN failed ELSE failed \cup {<<todo[at], "keys">>}
  /\ UNCHANGED <<exists, hung, expired, request, listed, todo>>

Proceed == List \/ ListFails \/ Columns \/ Skip \/ Keys \/ NoKeys

\* Scope.Timeout has passed.
Expire ==
  /\ ~Returned /\ ~expired
  /\ expired' = TRUE
  /\ UNCHANGED <<exists, hung, request, pc, listed, todo, at, out, failed>>

StopAnswering ==
  /\ ~Returned /\ ~hung
  /\ hung' = TRUE
  /\ UNCHANGED <<exists, expired, request, pc, listed, todo, at, out, failed>>

\* Somebody creates or drops a table.
Change(t) ==
  /\ ~Returned
  /\ exists' = IF t \in exists THEN exists \ {t} ELSE exists \cup {t}
  /\ UNCHANGED <<hung, expired, request, pc, listed, todo, at, out, failed>>

Next ==
  \/ Proceed
  \/ Expire
  \/ StopAnswering
  \/ \E t \in Table : Change(t)

Spec == Init /\ [][Next]_vars

\* The goroutine runs, and the endpoint has a query timeout.
FairSpec == Spec /\ WF_vars(Proceed) /\ WF_vars(Expire)

-----------------------------------------------------------------------------
(* Properties. *)

TypeOK ==
  /\ exists \in SUBSET Table
  /\ hung \in BOOLEAN /\ expired \in BOOLEAN
  /\ request \in [wanted : Wanted, max : MaxTables]
  /\ pc \in {"listing", "columns", "keys", "ok", "error"}
  /\ listed \in Seq(Table)
  /\ todo \in Seq(Table) /\ Len(todo) <= Cap
  /\ at \in 1..(Len(todo) + 1) /\ (pc \in {"columns", "keys"} => at <= Len(todo))
  /\ out \in Seq([table : Table, keys : BOOLEAN])
  /\ failed \subseteq Table \X {"columns", "keys"}

Described == {out[i].table : i \in 1..Len(out)}

\* An answer misses a table it should describe only when describing it failed
\* while there was time, a table that is gone or cannot be read: a deadline in
\* the middle of the loop gives an error and no part (service.go:270-284).
OnlyFailuresSkipped ==
  pc = "ok" => \A i \in 1..Len(todo) : todo[i] \in Described \/ <<todo[i], "columns">> \in failed

\* No word is said of a table that was skipped, but the count of the tables
\* tells: the answer describes as many as it counts exactly when none was cut
\* off and none was skipped (service.go:253-284).
CountTellsSkips ==
  pc = "ok" =>
    (Len(out) = TableCount <=>
       ~Truncated /\ \A i \in 1..Len(listed) : <<listed[i], "columns">> \notin failed)

\* The tables are described once each, in the order of the listing, whatever
\* was skipped in between (service.go:270-284).
DescribedInOrder ==
  \A i, j \in 1..Len(out) :
    i < j => \E k, l \in 1..Len(todo) :
               k < l /\ todo[k] = out[i].table /\ todo[l] = out[j].table

\* The answer says that it was cut exactly when the cap left a table out that
\* was listed and asked for (service.go:253-268).
TruncatedIsTrue ==
  pc = "ok" => (Truncated <=> \E i \in 1..Len(listed) : ~Contains(todo, listed[i]))

\* A deadline takes from an answer no more than the foreign keys of its last
\* table: an earlier one lacks its keys only when reading them failed in time
\* (introspect.go:311-315, service.go:273-275).  Neither is told from a table
\* that has no keys.
KeysLostOnlyAtTheEnd ==
  pc = "ok" =>
    \A i \in 1..Len(out) :
      ~out[i].keys => <<out[i].table, "keys">> \in failed \/ out[i].table = Last(todo)

\* A database that stops answering, at whatever question, does not keep the
\* caller for ever (service.go:218, :273).
ContextReturns == <>Returned

=============================================================================
