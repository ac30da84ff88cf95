------------------------------- MODULE Backends -------------------------------
(***************************************************************************)
(* What the backends do with an answer, put together: the rows of a query  *)
(* of each kind (QueryScan, MongoScan, CassandraScan), the keys of a Redis *)
(* (KeyListing), the tables of a connection (SchemaContext) and the        *)
(* documents of a MongoDB as a table (MongoDocuments).  The parts share no *)
(* state: an operation is one of a single backend.                         *)
(***************************************************************************)
EXTENDS QueryScan, SequencesExt, FiniteSets

CONSTANTS
  OwnBatch, MaxBatch,                                    \* MongoScan
  Key, ScanLimit, ScanBatch, Patience,                   \* KeyListing
  Table, Name, Wanted, MaxTables, DefaultMaxSchemaTables,  \* SchemaContext
  Field, ValueType, MaxDocs, MaxElements                 \* MongoDocuments

\* Batch sizes are int32 and not negative (mongodb.go:157-164).
ASSUME BatchAssumption == OwnBatch \subseteq Nat /\ MaxBatch \in Nat \ {0}

\* redisScanLimit is a constant of the code (redis.go:18).
ASSUME ListingAssumption ==
  Key \subseteq Int /\ ScanLimit \in Nat \ {0} /\ ScanBatch \in Nat /\ Patience \in Nat \ {0}

\* A database has finitely many tables; DefaultMaxSchemaTables is a constant of
\* the code (service.go:192).
ASSUME SchemaAssumption ==
  /\ Table \subseteq Int /\ IsFiniteSet(Table)
  /\ MaxTables \subseteq Int /\ DefaultMaxSchemaTables \in Nat \ {0}

\* The word for a field that is missing is not a type.
ASSUME DocumentAssumption == "missing" \notin ValueType

VARIABLES
  mTotal, mFetched, mCursor, mExpired,                              \* MongoScan
  mPc, mLimit, command, batch, shipped, mDocs, mTruncated,
  cTotal, cFetched, cCursor, cExpired,                              \* CassandraScan
  cPc, kind, cLimit, stored, dest, cRows, cTruncated,
  present, steady, kExpired, kPc, calls, keys, kAt, kOut,           \* KeyListing
  exists, hung, sExpired, request, sPc, listed, todo, at, out, sFailed,  \* SchemaContext
  docs, order, tally                                                \* MongoDocuments

mongoVars == <<mTotal, mFetched, mCursor, mExpired,
               mPc, mLimit, command, batch, shipped, mDocs, mTruncated>>
cassandraVars == <<cTotal, cFetched, cCursor, cExpired,
                   cPc, kind, cLimit, stored, dest, cRows, cTruncated>>
keyVars == <<present, steady, kExpired, kPc, calls, keys, kAt, kOut>>
schemaVars == <<exists, hung, sExpired, request, sPc, listed, todo, at, out, sFailed>>
documentVars == <<docs, order, tally>>

M == INSTANCE MongoScan WITH
  total <- mTotal, fetched <- mFetched, cursor <- mCursor, expired <- mExpired,
  pc <- mPc, limit <- mLimit, docs <- mDocs, truncated <- mTruncated
C == INSTANCE CassandraScan WITH
  total <- cTotal, fetched <- cFetched, cursor <- cCursor, expired <- cExpired,
  pc <- cPc, limit <- cLimit, rows <- cRows, truncated <- cTruncated
K == INSTANCE KeyListing WITH
  MaxBatch <- ScanBatch, expired <- kExpired, pc <- kPc, at <- kAt, out <- kOut
T == INSTANCE SchemaContext WITH expired <- sExpired, pc <- sPc, failed <- sFailed
D == INSTANCE MongoDocuments

-----------------------------------------------------------------------------
(* Properties, next to those of QueryScan. *)

\* An answer of a MongoDB or of a Cassandra is whole, or cut and said to be; no
\* server sends what is thrown away, and no value of a row shows in another
\* (mongodb.go:152-177, cassandra.go:186-231).
AnswersAreWhole ==
  /\ M!ScanIsWhole /\ C!ScanIsWhole
  /\ [](M!TypeOK /\ C!TypeOK /\ M!ShipsNoMore /\ C!RowsAsStored)

\* The keys of a Redis that are there all the time are listed, in order, however
\* often SCAN returns them, unless the scan met its limit (redis.go:188-229).
\* The tables of a schema are all described, or fewer than its count gives: those
\* past the cap and those that failed in time are missing, none to a deadline,
\* which takes at most the foreign keys of the last (service.go:218-285,
\* introspect.go:311-315).
ListingsAreWhole ==
  /\ K!TypeOK /\ K!SteadyKeysListed /\ K!ListedInOrder
  /\ T!TypeOK /\ T!OnlyFailuresSkipped /\ T!CountTellsSkips /\ T!DescribedInOrder
  /\ T!TruncatedIsTrue /\ T!KeysLostOnlyAtTheEnd

\* Every value of a document stands in its row, under its field; the columns are
\* the fields as first seen, _id in front, and a field is described from all
\* documents of the sample (mongodb.go:225-275, :345-346).
DocumentsAsRows == D!LaidOutAsStored /\ D!IdFirst /\ D!InferredFromAll

=============================================================================
