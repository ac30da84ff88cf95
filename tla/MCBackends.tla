------------------------------ MODULE MCBackends ------------------------------
(***************************************************************************)
(* Instances for TLC of what the backends do with an answer: the rows of a *)
(* query of each (QueryScan, MongoScan, CassandraScan), the keys of a      *)
(* Redis (KeyListing), the tables of a connection (SchemaContext), the     *)
(* documents of a MongoDB as a table (MongoDocuments); and of the shells   *)
(* in which the commands of Redis and MongoDB are typed (Shell).           *)
(*                                                                         *)
(* The modules share no state.  A behaviour is one of a single part; the   *)
(* variables of the others keep an initial value.                          *)
(***************************************************************************)
EXTENDS Backends

\* Results of up to five rows, limits of up to four rows, and none.
MCTotals == 0..5
MCLimits == {-1} \cup 1..4

\* Four tables, two of one name.
MCName == <<"orders", "users", "orders", "items">>

\* Commands by the line, and documents over lines.
MCSessions ==
  [redis |-> [interactive |-> FALSE, maxPieces |-> 6,
              pieces |-> {<<"x">>, <<" ">>, <<"\n">>}],
   mongodb |-> [interactive |-> TRUE, maxPieces |-> 4,
                pieces |-> {<<"{">>, <<"}">>, <<"\"">>, <<"x">>, <<";">>, <<"\n">>,
                            <<"\\", "\"">>, <<"{", "\"">>}]]

-----------------------------------------------------------------------------
(* The parts. *)

VARIABLES
  part,
  language, pipe, typed, eof, cancelled, phase,    \* Shell
  readErr, buffer, queue, rest, script, ran, failed

shellVars == <<language, pipe, typed, eof, cancelled, phase,
               readErr, buffer, queue, rest, script, ran, failed>>

S == INSTANCE Shell WITH Sessions <- MCSessions

MCInit ==
  /\ part \in {"query", "mongo", "cassandra", "keys", "schema", "documents", "shell"}
  /\ Init
  /\ part # "query" => total = 0 /\ limit = 1
  /\ M!Init
  /\ part # "mongo" => mTotal = 0 /\ mLimit = 1 /\ command = [name |-> "find", own |-> 0]
  /\ C!Init
  /\ part # "cassandra" => cTotal = 0 /\ cLimit = 1 /\ kind = "read"
  /\ K!Init
  /\ part # "keys" => present = {}
  /\ T!Init
  /\ part # "schema" => exists = {} /\ request = [wanted |-> {}, max |-> 0]
  /\ D!Init
  /\ S!Init
  /\ part # "shell" => language = "redis"

\* A step of a part, which changes no variable of another: one that its code
\* takes, one of its deadline, one of the world around it.
Step(Query, Mongo, Cassandra, Listing, Schema, Documents, Typing) ==
  /\ UNCHANGED part
  /\ \/ /\ part = "query" /\ Query
        /\ UNCHANGED <<mongoVars, cassandraVars, keyVars, schemaVars, documentVars, shellVars>>
     \/ /\ part = "mongo" /\ Mongo
        /\ UNCHANGED <<vars, cassandraVars, keyVars, schemaVars, documentVars, shellVars>>
     \/ /\ part = "cassandra" /\ Cassandra
        /\ UNCHANGED <<vars, mongoVars, keyVars, schemaVars, documentVars, shellVars>>
     \/ /\ part = "keys" /\ Listing
        /\ UNCHANGED <<vars, mongoVars, cassandraVars, schemaVars, documentVars, shellVars>>
     \/ /\ part = "schema" /\ Schema
        /\ UNCHANGED <<vars, mongoVars, cassandraVars, keyVars, documentVars, shellVars>>
     \/ /\ part = "documents" /\ Documents
        /\ UNCHANGED <<vars, mongoVars, cassandraVars, keyVars, schemaVars, shellVars>>
     \/ /\ part = "shell" /\ Typing
        /\ UNCHANGED <<vars, mongoVars, cassandraVars, keyVars, schemaVars, documentVars>>

MCNext == Step(Next, M!Next, C!Next, K!Next, T!Next, D!Next, S!Next)

Progress == Step(Proceed, M!Proceed, C!Proceed, FALSE, T!Proceed, FALSE, S!Loop)

Deadline == Step(Expire, M!Expire, C!Expire, FALSE, T!Expire, FALSE, FALSE)

MCVars == <<part, vars, mongoVars, cassandraVars, keyVars, schemaVars, documentVars, shellVars>>

\* The fairness of the parts.
MCSpec == MCInit /\ [][MCNext]_MCVars /\ WF_MCVars(Progress) /\ WF_MCVars(Deadline)

-----------------------------------------------------------------------------
(* Properties, next to those of Backends. *)

\* However the lines cut a script, its commands are those of the whole, a document
\* being handed over when its last brace has closed; an interrupt runs nothing
\* unfinished, and a script stops at the first statement that fails
\* (input.go:64-68, :123-178, split_lang.go:102-105).
CommandsAsTyped ==
  /\ [](part = "shell" => S!LineByLine /\ S!WholeDocuments /\ S!InterruptKeepsRest)
  /\ S!FailsFast

\* A query of a SQL database, a MongoDB or a Cassandra and the description of a
\* schema come back, also when the database stops answering, and a session ends
\* with its text and with its context (service.go:218, input.go:111-141).
EverythingReturns ==
  /\ part = "query" => ScanReturns
  /\ part = "mongo" => M!ScanReturns
  /\ part = "cassandra" => C!ScanReturns
  /\ part = "schema" => T!ContextReturns
  /\ S!Ends

=============================================================================
