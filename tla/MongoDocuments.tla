---------------------------- MODULE MongoDocuments ----------------------------
(***************************************************************************)
(* How MongoDB documents become a table: documentsToResult, and the fields *)
(* DescribeTable infers from a sample (internal/database/mongodb.go).  A   *)
(* document is a sequence of elements, a field with the type of its value; *)
(* one that cannot be read counts as empty.                                *)
(*                                                                         *)
(* Both read the documents element by element and keep an account of the   *)
(* fields: the order in which they were first seen, and what was seen of   *)
(* each.  The table and the description are made of it.                    *)
(***************************************************************************)
EXTENDS Integers, Sequences, SequencesExt, FiniteSets

CONSTANTS
  Field,
  ValueType,   \* of a value, null among them
  MaxDocs,     \* bound: documents
  MaxElements  \* bound: elements of all of them

Missing == "missing"
Null == "null"

VARIABLES
  docs,    \* the documents, as far as they have been read
  order,   \* the fields, each where it was first seen
  tally    \* of a field: the documents that have it, a null among its values, its types

vars == <<docs, order, tally>>

FieldsOf(doc) == {doc[i].field : i \in 1..Len(doc)}

\* What a document has in a field.
ValueOf(doc, field) ==
  IF field \in FieldsOf(doc)
  THEN doc[CHOOSE i \in 1..Len(doc) : doc[i].field = field].type
  ELSE Missing

NothingSeen == [seen |-> 0, null |-> FALSE, types |-> {}]

Init == docs = <<>> /\ order = <<>> /\ tally = [f \in Field |-> NothingSeen]

NewDocument ==
  /\ Len(docs) < MaxDocs
  /\ docs' = Append(docs, <<>>)
  /\ UNCHANGED <<order, tally>>

Elements == FoldLeft(LAMBDA n, doc : n + Len(doc), 0, docs)

Counted(t, type) ==
  [seen |-> t.seen + 1,
   null |-> t.null \/ type = Null,
   types |-> IF type = Null THEN t.types ELSE t.types \cup {type}]

\* One element of the last document.
NewElement(field, type) ==
  /\ docs # <<>> /\ Elements < MaxElements
  /\ field \notin FieldsOf(docs[Len(docs)])
  /\ docs' = [docs EXCEPT ![Len(docs)] = Append(@, [field |-> field, type |-> type])]
  /\ order' = IF field \in ToSet(order) THEN order ELSE Append(order, field)
  /\ tally' = [tally EXCEPT ![field] = Counted(@, type)]

Next == NewDocument \/ \E field \in Field, type \in ValueType : NewElement(field, type)

Spec == Init /\ [][Next]_vars

-----------------------------------------------------------------------------
(* The table, and the description. *)

\* The columns of both: _id goes to the front.
Columns ==
  [i \in 1..Len(order) |->
     IF ~\E k \in i..Len(order) : order[k] = "_id" THEN order[i]
     ELSE IF i = 1 THEN "_id" ELSE order[i - 1]]

\* (mutant) the values are put one after the other.
RowInOrder(doc) ==
  [i \in 1..Len(Columns) |-> IF i <= Len(doc) THEN doc[i].type ELSE Null]

\* A row of an answer: a field that is missing looks like a null.
Row(doc) ==
  [i \in 1..Len(Columns) |->
     IF ValueOf(doc, Columns[i]) = Missing THEN Null ELSE ValueOf(doc, Columns[i])]

DocumentsToResult == [columns |-> Columns, rows |-> [i \in 1..Len(docs) |-> Row(docs[i])]]

Nullable(t) == t.null \/ t.seen < Len(docs)

\* DescribeTable, of a sample that is not empty.
DescribeSample ==
  [i \in 1..Len(Columns) |->
     [field |-> Columns[i], types |-> tally[Columns[i]].types,
      nullable |-> Nullable(tally[Columns[i]]), key |-> Columns[i] = "_id"]]

-----------------------------------------------------------------------------
(* Properties. *)

\* Every document is a row, every value of it stands under its field, and what
\* stands there is its value or stands for none (mongodb.go:225-275).
LaidOutAsStored ==
  /\ Len(DocumentsToResult.rows) = Len(docs)
  /\ \A i \in 1..Len(docs) :
       /\ Len(Row(docs[i])) = Len(Columns)
       /\ \A e \in 1..Len(docs[i]) :
            \E c \in 1..Len(Columns) :
              Columns[c] = docs[i][e].field /\ Row(docs[i])[c] = docs[i][e].type
       /\ \A c \in 1..Len(Columns) :
            Columns[c] \notin FieldsOf(docs[i]) => Row(docs[i])[c] = Null

\* Field f stands somewhere before every place of field g.
FirstSeenBefore(f, g) ==
  \E i \in 1..Len(docs) : \E d \in 1..Len(docs[i]) :
    /\ docs[i][d].field = f
    /\ \A j \in 1..Len(docs) : \A e \in 1..Len(docs[j]) :
         docs[j][e].field = g => i < j \/ (i = j /\ d < e)

\* "the union of top-level fields, in first-seen order with _id first"
\* (mongodb.go:225-227), in an answer and in a description alike.
IdFirst ==
  /\ \A i, j \in 1..Len(Columns) : Columns[i] = Columns[j] => i = j
  /\ ToSet(Columns) = UNION {FieldsOf(docs[i]) : i \in 1..Len(docs)}
  /\ \A i \in 1..Len(Columns) : Columns[i] = "_id" => i = 1
  /\ \A i, j \in 1..Len(Columns) :
       i < j /\ Columns[i] # "_id" => FirstSeenBefore(Columns[i], Columns[j])

\* "A field is reported nullable when some sampled document lacks it or holds
\* null, and its type lists every BSON type seen" (mongodb.go:345-346).
InferredFromAll ==
  \A i \in 1..Len(DescribeSample) :
    LET described == DescribeSample[i]
        values == {ValueOf(docs[d], described.field) : d \in 1..Len(docs)}
    IN  /\ described.nullable <=> Missing \in values \/ Null \in values
        /\ described.types = values \ {Missing, Null}

=============================================================================
