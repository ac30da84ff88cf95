------------------------------ MODULE MCCommands ------------------------------
(***************************************************************************)
(* Instances for TLC of the analyses of CQL texts, Redis commands and      *)
(* MongoDB commands (Cql, RedisCommand, MongoCommand).                     *)
(*                                                                         *)
(* The modules share no state.  A behaviour is one of a single part; the   *)
(* variables of the others keep an initial value.                          *)
(***************************************************************************)
EXTENDS Commands

-----------------------------------------------------------------------------
(* CQL: statements of every form the analysis tells apart, with the level the *)
(* work of each calls for, and what may open a batch.                         *)

Statement(words, level) == [text |-> words, need |-> level]

SelectX == <<"select", "x", "from", "t">>
DeleteOne == <<"delete", "from", "t", "where", "x", "=", "3">>

Header(words, ok) == [text |-> words, good |-> ok]

UpdateSet == <<"update", "t", "set", "x", "=", "1">>

MCCqlStatements ==
  { Statement(<<"insert", "into", "t", "values", "(", "1", ")">>, 1),
    Statement(DeleteOne, 1),
    Statement(DeleteOne \o <<"if", "exists">>, 1),
    Statement(<<"delete", "from", "t", "where", "x", "=", "x", "if", "y", "=", "3">>, 2),
    Statement(<<"delete", "from", "t", "where", "x", "=", "3", "if", "y", "=", "y", "or", "y", "=", "1">>, 1),
    Statement(UpdateSet, 2),
    Statement(UpdateSet \o <<"where", "x", "=", "3">>, 1),
    Statement(<<"select", "x", "from", "t">>, 0),
    Statement(<<"list", "roles">>, 0),
    Statement(<<"use", "k">>, 3),
    Statement(<<"drop", "table", "t">>, 2),
    Statement(<<"vacate", "t">>, 2) }

MCHeaders ==
  { Header(<<"begin", "batch">>, TRUE),
    Header(<<"begin", "unlogged", "batch", "using", "timestamp", "1">>, TRUE),
    Header(<<"begin", "batch", "select", "x", "from", "t">>, FALSE) }

-----------------------------------------------------------------------------
(* Redis commands, one of every kind, and arguments that need quotes. *)

Command(words, level) == [args |-> [i \in DOMAIN words |-> <<words[i]>>], need |-> level]

MCCommands ==
  { Command(<<"GET", "k">>, 0), Command(<<"set", "k">>, 1), Command(<<"select">>, 3),
    Command(<<"CONFIG", "GET">>, 0), Command(<<"config", "set">>, 2), Command(<<"config">>, 2),
    Command(<<"slowlog", "len">>, 0), Command(<<"slowlog", "reset">>, 2),
    Command(<<"sort", "k", "STORE">>, 1), Command(<<"sort", "k">>, 0), Command(<<"sort_ro", "k", "store">>, 0),
    Command(<<"keys">>, 2), Command(<<"flushall">>, 2), Command(<<"publish">>, 1),
    Command(<<"ft.create">>, 2), Command(<<"vacate">>, 2) }

MCArguments ==
  { <<>>, <<"k">>, <<" ">>, <<"\"">>, <<"'", "k">>, <<"\\">>, <<"\n", "A">>, <<"store", "k">> }

-----------------------------------------------------------------------------
(* The parts. *)

VARIABLES
  part

MCInit ==
  /\ part \in {"cql", "redis", "mongo"}
  /\ C!Init
  /\ part # "cql" => statements = <<SelectX>>
  /\ Init
  /\ part # "redis" => rest = <<<<"keys">>>>
  /\ M!Init
  /\ part # "mongo" => doc = M!Doc(<<>>)

\* A step of one part, which changes no variable of another.
MCNext ==
  /\ UNCHANGED part
  /\ \/ part = "cql" /\ C!Next /\ UNCHANGED <<vars, mongoVars>>
     \/ part = "redis" /\ Next /\ UNCHANGED <<cqlVars, mongoVars>>
     \/ part = "mongo" /\ M!Next /\ UNCHANGED <<cqlVars, vars>>

MCVars == <<part, cqlVars, vars, mongoVars>>

MCSpec == MCInit /\ [][MCNext]_MCVars

=============================================================================
