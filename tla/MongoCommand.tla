----------------------------- MODULE MongoCommand -----------------------------
(***************************************************************************)
(* The classification of a MongoDB command document                        *)
(* (internal/database/mongo_analyze.go).                                   *)
(*                                                                         *)
(* A document is a sequence of fields, in order; a value is a record whose *)
(* type tells documents, lists, numbers, booleans, null and the smallest   *)
(* and greatest key apart.  Names are in lower case, and of the commands   *)
(* of a kind a few stand for all.  A text that is no document is refused   *)
(* before any of this; so is one whose document is empty.                  *)
(***************************************************************************)
EXTENDS Permission, Sequences, FiniteSetsExt

CONSTANT MaxDepth  \* bound: how deep the analysis looks for documents in lists in documents

Doc(fields) == [type |-> "doc", fields |-> fields]
List(items) == [type |-> "list", items |-> items]
Number(n) == [type |-> "number", n |-> n]
Flag(b) == [type |-> "bool", b |-> b]
Text == [type |-> "text"]
Regex == [type |-> "regex"]  \* an expression as a value, not under $regex
Null == [type |-> "null"]
MinKey == [type |-> "minkey"]
MaxKey == [type |-> "maxkey"]
Absent == [type |-> "absent"]

F(key, value) == [key |-> key, value |-> value]

ReadCommands == {"find", "aggregate", "count", "distinct", "explain"}
WriteCommands == {"insert", "update", "delete", "findandmodify"}
SchemaCommands == {"drop", "createindexes"}
SessionCommands == {"committransaction"}
WriteStages == {"$out", "$merge"}
CodeOperators == {"$where", "$function", "$accumulator"}

FieldOperators ==
  {"$eq", "$ne", "$gt", "$gte", "$lt", "$lte", "$in", "$exists", "$not", "$all"}
IsOperator(key) ==
  key \in FieldOperators \cup CodeOperators \cup WriteStages \cup {"$and", "$or", "$nor", "$expr"}

\* The value of the first field with a name.
Field(doc, key) ==
  IF \E i \in DOMAIN doc.fields : doc.fields[i].key = key
  THEN doc.fields[CHOOSE i \in DOMAIN doc.fields :
         /\ doc.fields[i].key = key
         /\ \A j \in 1..(i - 1) : doc.fields[j].key # key].value
  ELSE Absent

\* A document, or an empty one when the value is none.
AsDoc(v) == IF v.type = "doc" THEN v ELSE Doc(<<>>)

IsTrue(v) == v = Flag(TRUE)

\* What stands directly in a value.
Children(v) ==
  CASE v.type = "doc" -> {v.fields[i].value : i \in DOMAIN v.fields}
    [] v.type = "list" -> {v.items[i] : i \in DOMAIN v.items}
    [] OTHER -> {}

\* A value and what stands in it, down to n levels; last are those at the last.
Within(v, n) ==
  LET down[m \in 0..n] ==
        IF m = 0 THEN [all |-> {v}, last |-> {v}]
        ELSE LET above == down[m - 1]
                 next == UNION {Children(w) : w \in above.last}
             IN  [all |-> above.all \cup next, last |-> next]
  IN  down[n]

Inside(v) == Within(v, 2 * MaxDepth).all

\* Some field anywhere in the tree has one of the names.
HasKey(v, keys) == v.type = "doc" /\ \E i \in DOMAIN v.fields : v.fields[i].key \in keys
FindKey(v, keys) == \E w \in Inside(v) : HasKey(w, keys)

(***************************************************************************)
(* Filters: which of them match every document.                            *)
(***************************************************************************)
\* Whether an operator pins the values of a field.
Pins(op) ==
  CASE op.key = "$eq" -> op.value # Null
    [] op.key \in {"$in", "$all"} -> TRUE
    [] op.key \in {"$gt", "$gte", "$lt", "$lte"} -> op.value \notin {MinKey, MaxKey}
    [] OTHER -> FALSE

\* (mutant) one operator that pins nothing is enough.
SomeOperatorIsLoose(cond) ==
  \E i \in DOMAIN cond.fields : IsOperator(cond.fields[i].key) /\ ~Pins(cond.fields[i])

ConditionIsTautology(cond) ==
  /\ \E i \in DOMAIN cond.fields : IsOperator(cond.fields[i].key)
  /\ \A i \in DOMAIN cond.fields : ~Pins(cond.fields[i])

\* The members of $and and $or are documents in a list.
IsClauses(v) == v.type = "list" /\ \A i \in DOMAIN v.items : v.items[i].type = "doc"

\* Whether a clause matches every document; whole are the filters that do.
ClauseIsTautology(e, whole) ==
  CASE e.key = "$and" ->
         ~IsClauses(e.value) \/ \A k \in DOMAIN e.value.items : e.value.items[k] \in whole
    [] e.key = "$or" ->
         \/ ~IsClauses(e.value) \/ e.value.items = <<>>
         \/ \E k \in DOMAIN e.value.items : e.value.items[k] \in whole
    [] OTHER -> \/ IsOperator(e.key)
                \/ e.value = Null
                \/ e.value.type = "doc" /\ ConditionIsTautology(e.value)

\* The fields of a filter are ANDed; an empty filter matches everything.  Of some
\* filters, those that do as far as n levels of $and and $or tell.
Tautologies(filters, n) ==
  LET whole[m \in 0..n] ==
        IF m = 0 THEN filters
        ELSE LET deeper == whole[m - 1]
             IN  {f \in filters : \A i \in DOMAIN f.fields : ClauseIsTautology(f.fields[i], deeper)}
  IN  whole[n]

FilterIsTautology(filter) ==
  filter \in Tautologies({w \in Inside(filter) : w.type = "doc"}, MaxDepth)

(***************************************************************************)
(* The reach of a write.                                                   *)
(***************************************************************************)
EntryUnbounded(name, item) ==
  \/ item.type # "doc"
  \/ FilterIsTautology(AsDoc(Field(item, "q")))
  \/ name = "update" /\ (IsTrue(Field(item, "upsert")) \/ Field(item, "u").type = "list")

AnyEntryUnbounded(name, list) == list = <<>> \/ \E i \in DOMAIN list : EntryUnbounded(name, list[i])

WriteReach(doc, name) ==
  LET entries == Field(doc, IF name = "update" THEN "updates" ELSE "deletes")
  IN  CASE name = "insert" -> Bounded("write")
        [] name = "findandmodify" ->
             IF \/ FilterIsTautology(AsDoc(Field(doc, "query")))
                \/ ~IsTrue(Field(doc, "remove")) /\ Field(doc, "update").type = "list"
                \/ IsTrue(Field(doc, "upsert"))
             THEN Unbounded("write")
             ELSE Bounded("write")
        [] name \in {"update", "delete"} ->
             IF entries.type # "list" \/ AnyEntryUnbounded(name, entries.items)
             THEN Unbounded("write")
             ELSE Bounded("write")

(***************************************************************************)
(* A command: its name is the key of its first field.                      *)
(***************************************************************************)
Name(doc) == IF doc.fields = <<>> THEN "" ELSE doc.fields[1].key

\* What explain wraps.  It is written out as JSON and read back, which changes
\* none of the values here.
Wrapped(doc) == AsDoc(doc.fields[1].value)

\* What is left when n explains are taken off, or all.
Unwrapped(doc, n) ==
  LET inner[m \in 0..n] ==
        IF m = 0 THEN doc
        ELSE LET outer == inner[m - 1]
             IN  IF Name(outer) = "explain" THEN Wrapped(outer) ELSE outer
  IN  inner[n]

Explained(doc) == Unwrapped(doc, MaxDepth)

AnalyzeCommand(doc, name) ==
  CASE doc.fields = <<>> -> Refused("unknown")
    [] name = "aggregate" ->
         IF FindKey(doc, WriteStages) THEN Unbounded("write") ELSE Bounded("read")
    [] name \in ReadCommands \ {"explain", "aggregate"} -> Bounded("read")
    [] name \in WriteCommands -> WriteReach(doc, name)
    [] name \in SchemaCommands \cup {"mapreduce"} -> Bounded("schema")
    [] name \in SessionCommands -> Refused("session")
    [] OTHER -> Unbounded("unknown")

\* The names of operators that run code are looked for under every explain.
AnalyzeMongo(doc) ==
  IF FindKey(doc, CodeOperators) THEN Bounded("schema")
  ELSE AnalyzeCommand(Explained(doc), Name(Explained(doc)))

-----------------------------------------------------------------------------
(***************************************************************************)
(* The gate of MongoCommand against the documents a command reaches.       *)
(*                                                                         *)
(* A filter is grown from the clauses below, over documents with two       *)
(* fields that may be missing, null, a number or text, and no field "c",   *)
(* and the set of the documents it matches grows with it.  It is then put  *)
(* into a command, which may get entries more and be wrapped in an         *)
(* explain.                                                                *)
(*                                                                         *)
(* null matches a missing field, on its own, in a set of values and as a   *)
(* bound.  The analysis knows the first (mongo_analyze.go:278-281); the    *)
(* clauses with one of the others hide it from the analysis.               *)
(***************************************************************************)
CONSTANT MaxSteps  \* bound: the steps a command is grown by

Documents == [a : {Absent, Null, Number(0), Number(1)}, b : {Absent, Null, Number(0), Text}]
At(d, key) == IF key \in DOMAIN d THEN d[key] ELSE Absent

\* What the server does with one value of a field.
Equals(v, q) ==
  CASE q = Null -> v \in {Absent, Null}
    [] q = Regex -> v = Text
    [] OTHER -> v = q

Satisfies(v, op) ==
  CASE op.key = "$eq" -> Equals(v, op.value)
    [] op.key = "$ne" -> ~Equals(v, op.value)
    [] op.key = "$in" -> \E i \in DOMAIN op.value.items : Equals(v, op.value.items[i])
    [] op.key = "$exists" -> (v # Absent) = op.value.b
    [] op.key = "$gte" -> \/ op.value = MinKey
                          \/ op.value = Null /\ v \in {Absent, Null}
                          \/ /\ op.value \in {Number(0), Number(1)}
                             /\ v \in {Number(0), Number(1)}
                             /\ v.n >= op.value.n
    [] op.key = "$lt" -> v \in {Number(0), Number(1)} /\ v.n < op.value.n

\* null is one of several values, or a bound.
HidesNull(op) ==
  \/ op.key = "$in" /\ \E i \in DOMAIN op.value.items : op.value.items[i] = Null
  \/ op.key \in {"$gte", "$lt"} /\ op.value = Null

\* Clauses: one field, what it matches, whether it pins the values of the field,
\* whether null hides in it, and whether it runs code on the server.
Test(key, ops, pins) ==
  [field |-> F(key, Doc(ops)), pinned |-> pins, code |-> FALSE,
   hides |-> \E i \in DOMAIN ops : HidesNull(ops[i]),
   docs |-> {d \in Documents : \A i \in DOMAIN ops : Satisfies(At(d, key), ops[i])}]

Is(key, v, pins) ==
  [field |-> F(key, v), pinned |-> pins, code |-> FALSE, hides |-> FALSE,
   docs |-> {d \in Documents : Equals(At(d, key), v)}]

Anything(v, runs) ==
  [field |-> F("$expr", v), pinned |-> FALSE, code |-> runs, hides |-> FALSE, docs |-> Documents]

Clauses ==
  { Is("a", Number(1), TRUE),
    Is("a", Null, FALSE),
    Is("b", Regex, TRUE),
    Test("a", <<F("$ne", Number(1))>>, FALSE),
    Test("a", <<F("$lt", Number(0))>>, TRUE),
    Test("a", <<F("$gte", MinKey)>>, FALSE),
    Test("b", <<F("$exists", Flag(FALSE)), F("$eq", Null)>>, FALSE),
    Test("b", <<F("$ne", Null), F("$in", List(<<Number(0), Number(1)>>))>>, TRUE),
    Test("c", <<F("$in", List(<<Null, Number(0)>>))>>, FALSE),
    Test("c", <<F("$gte", Null)>>, FALSE),
    Anything(Flag(TRUE), FALSE),
    Anything(Doc(<<F("$function", Null)>>), TRUE) }

VARIABLES
  doc,      \* the filter, or the command
  phase,    \* "filter", "command"
  matches,  \* the documents the filter, or some entry of the command, reaches
  pinned,   \* every clause pins the values of its field
  hidden,   \* null hides in some clause
  need,     \* the level the command calls for
  seen,     \* that level, but for the reach of filters in which null hides
  floor,    \* the filter was selective before its last step
  joined,   \* how the last step put the filter together
  steps

vars == <<doc, phase, matches, pinned, hidden, need, seen, floor, joined, steps>>

One(c) == Doc(<<c.field>>)

Worst(m, n) == IF m > n THEN m ELSE n

Cost(c) == IF c.code THEN PermissionFull ELSE PermissionReadOnly

Init ==
  /\ phase = "filter" /\ steps = 0
  /\ floor = FALSE /\ joined = "none"
  /\ \/ doc = Doc(<<>>) /\ matches = Documents /\ pinned = FALSE /\ hidden = FALSE
        /\ need = PermissionReadOnly
     \/ \E c \in Clauses :
          /\ doc = One(c) /\ matches = c.docs /\ pinned = c.pinned /\ hidden = c.hides
          /\ need = Cost(c)
  /\ seen = need

Grow == steps < MaxSteps /\ steps' = steps + 1

\* One thing more is done, which calls for a level, or for full access when it
\* reaches every document; the latter may hide.
Asks(level, whole, hides) ==
  /\ need' = Worst(need, IF whole THEN PermissionFull ELSE level)
  /\ seen' = Worst(seen, IF whole /\ ~hides THEN PermissionFull ELSE level)

(***************************************************************************)
(* The filter.                                                             *)
(***************************************************************************)
Combine(how, level, hides) ==
  /\ Grow
  /\ phase = "filter"
  /\ floor' = ~FilterIsTautology(doc)
  /\ joined' = how
  /\ hidden' = (hidden \/ hides)
  /\ Asks(level, FALSE, hides)
  /\ UNCHANGED phase

AddField(c) ==
  /\ Combine("and", Cost(c), c.hides)
  /\ Field(doc, c.field.key) = Absent
  /\ doc' = Doc(Append(doc.fields, c.field))
  /\ matches' = matches \cap c.docs
  /\ pinned' = (c.pinned /\ (pinned \/ doc.fields = <<>>))

AndWith(c) ==
  /\ Combine("and", Cost(c), c.hides)
  /\ doc' = Doc(<<F("$and", List(<<doc, One(c)>>))>>)
  /\ matches' = matches \cap c.docs
  /\ pinned' = (pinned /\ c.pinned)

OrWith(c) ==
  /\ Combine("or", Cost(c), c.hides)
  /\ doc' = Doc(<<F("$or", List(<<One(c), doc>>))>>)
  /\ matches' = matches \cup c.docs
  /\ pinned' = (pinned /\ c.pinned)

Nor ==
  /\ Combine("nor", PermissionReadOnly, FALSE)
  /\ doc' = Doc(<<F("$nor", List(<<doc>>))>>)
  /\ matches' = Documents \ matches
  /\ pinned' = FALSE

(***************************************************************************)
(* The command.                                                            *)
(***************************************************************************)
Submit ==
  /\ Grow
  /\ phase = "filter"
  /\ phase' = "command"
  /\ UNCHANGED <<matches, pinned, hidden, floor, joined>>

Writes == Asks(PermissionSafeWrite, matches = Documents, hidden)
WritesAnything == Asks(PermissionFull, FALSE, FALSE)

Change == Doc(<<F("a", Number(1))>>)
Pipeline == List(<<Doc(<<F("$set", Change)>>)>>)
Entry(more) == List(<<Doc(<<F("q", doc)>> \o more)>>)

FindIt ==
  /\ Submit
  /\ doc' = Doc(<<F("find", Null), F("filter", doc)>>)
  /\ UNCHANGED <<need, seen>>

\* A pipeline that reads, or writes its output from a stage inside a stage.
AggregateIt ==
  /\ Submit
  /\ \E out \in BOOLEAN :
       LET match == Doc(<<F("$match", doc)>>)
           inner == Doc(<<F("$facet", Doc(<<F("x", List(<<Doc(<<F("$out", Null)>>)>>))>>))>>)
       IN  /\ doc' = Doc(<<F("aggregate", Null),
                           F("pipeline", List(IF out THEN <<match, inner>> ELSE <<match>>))>>)
           /\ IF out THEN WritesAnything ELSE UNCHANGED <<need, seen>>

DeleteIt ==
  /\ Submit
  /\ doc' = Doc(<<F("delete", Null), F("deletes", Entry(<<>>))>>)
  /\ Writes

UpdateIt ==
  /\ Submit
  /\ \/ /\ doc' = Doc(<<F("update", Null), F("updates", Entry(<<F("u", Change)>>))>>)
        /\ Writes
     \/ /\ \E more \in {<<F("u", Pipeline)>>, <<F("u", Change), F("upsert", Flag(TRUE))>>} :
             doc' = Doc(<<F("update", Null), F("updates", Entry(more))>>)
        /\ WritesAnything

FindAndModify ==
  /\ Submit
  /\ \/ /\ \E more \in {F("remove", Flag(TRUE)), F("update", Change)} :
             doc' = Doc(<<F("findandmodify", Null), F("query", doc), more>>)
        /\ Writes
     \/ /\ doc' = Doc(<<F("findandmodify", Null), F("query", doc), F("update", Pipeline)>>)
        /\ WritesAnything

\* One more entry of a delete or an update, with a clause as its filter.
AnotherEntry(c) ==
  /\ Grow
  /\ phase = "command"
  /\ doc.fields[1].key \in {"delete", "update"}
  /\ doc' = [doc EXCEPT !.fields[2].value.items =
               Append(@, Doc(<<F("q", One(c)), F("u", Change)>>))]
  /\ Asks(Worst(PermissionSafeWrite, Cost(c)), c.docs = Documents, c.hides)
  /\ pinned' = (pinned /\ c.pinned)
  /\ hidden' = (hidden \/ c.hides)
  /\ UNCHANGED <<phase, matches, floor, joined>>

Explain ==
  /\ Grow
  /\ phase = "command"
  /\ doc' = Doc(<<F("explain", doc)>>)
  /\ UNCHANGED <<phase, matches, pinned, hidden, need, seen, floor, joined>>

Next ==
  /\ steps < MaxSteps
  /\ \/ \E c \in Clauses : AddField(c) \/ AndWith(c) \/ OrWith(c) \/ AnotherEntry(c)
     \/ Nor
     \/ FindIt \/ AggregateIt \/ DeleteIt \/ UpdateIt \/ FindAndModify
     \/ Explain

Spec == Init /\ [][Next]_vars

-----------------------------------------------------------------------------
(* Properties. *)

Level == RequiredPermission(AnalyzeMongo(doc))

\* A command is gated at least at the level its reach calls for: one that
\* changes every document with any of its entries, or writes its output from
\* any stage, or runs code, needs full access, under explain too
\* (mongo_analyze.go:82-105, :147-221).  The one thing missed is the reach of a
\* filter with null in a set of values or as a bound, which the analysis takes
\* for selective although it matches every document without the field
\* (mongo_analyze.go:335-344, against what :278-281 promises).
CoversReach(level) == level >= seen /\ (hidden \/ level >= need)

\* Filters that pin the values of fields, however they are joined, are never
\* taken for filters that match everything: such a command is gated at exactly
\* that level (mongo_analyze.go:223-227, :313-317).
ExactIfPinned(level) == pinned => level = need

GatedAt(level) == CoversReach(level) /\ ExactIfPinned(level)

CommandsAreGated == phase = "command" => GatedAt(Level)

\* One more AND never makes a selective filter match everything for the
\* analysis, and one more branch of an OR never makes another one selective.
NarrowsAndWidens ==
  phase = "filter" =>
    /\ joined = "and" /\ floor => ~FilterIsTautology(doc)
    /\ joined = "or" /\ ~floor => FilterIsTautology(doc)

=============================================================================
