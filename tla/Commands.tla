------------------------------- MODULE Commands -------------------------------
(***************************************************************************)
(* The analyses of CQL texts, Redis commands and MongoDB commands, side by *)
(* side (Cql, RedisCommand, MongoCommand).  They share no state: a text is *)
(* one of a single language.                                               *)
(***************************************************************************)
EXTENDS RedisCommand

CONSTANTS
  CqlStatements, CqlHeaders, MaxCqlSteps,  \* Cql
  MaxDepth, MaxMongoSteps                  \* MongoCommand

\* A step adds at most one level to those of a clause and of a command.
ASSUME DepthAssumption ==
  MaxMongoSteps \in Nat /\ MaxDepth \in Nat /\ MaxDepth >= MaxMongoSteps + 2

VARIABLES
  statements, batch, cqlNeed, members, cqlSteps,      \* Cql
  doc, mongoPhase, reached, pinned, hidden, mongoNeed, mongoSeen,
  mongoFloor, joined, mongoSteps                      \* MongoCommand

cqlVars == <<statements, batch, cqlNeed, members, cqlSteps>>
mongoVars ==
  <<doc, mongoPhase, reached, pinned, hidden, mongoNeed, mongoSeen, mongoFloor, joined, mongoSteps>>

C == INSTANCE Cql WITH
  Statements <- CqlStatements, Headers <- CqlHeaders, MaxSteps <- MaxCqlSteps,
  need <- cqlNeed, steps <- cqlSteps
M == INSTANCE MongoCommand WITH
  MaxSteps <- MaxMongoSteps,
  phase <- mongoPhase, matches <- reached, need <- mongoNeed, seen <- mongoSeen,
  floor <- mongoFloor, steps <- mongoSteps

\* A statement of its own needs the level its analysis says.  It does not begin
\* like the header of a batch, and closes none.
ASSUME StatementsAssumption ==
  \A s \in CqlStatements :
    /\ s.text \in Seq(STRING) /\ s.text # <<>>
    /\ s.text[1] \notin C!BatchHeader /\ ~C!AppliesInside(s.text)
    /\ s.need = IF C!AnalyzeCQLStatement(s.text).refused THEN C!Never
                ELSE C!RequiredPermission(C!AnalyzeCQLStatement(s.text))

\* A header opens a batch, and is good when only words of a header are in it.
ASSUME HeadersAssumption ==
  \A h \in CqlHeaders :
    /\ h.text \in Seq(STRING) /\ h.text # <<>> /\ C!OpensBatchText(h.text)
    /\ \A i \in DOMAIN h.text : h.text[i] \notin C!WriteVerbs
    /\ h.good = \A i \in DOMAIN h.text : h.text[i] \in C!BatchHeader

-----------------------------------------------------------------------------
(* Properties, next to those of RedisCommand. *)

\* A CQL text is gated at exactly the level it needs, a batch at that of its
\* worst member (cql_analyze.go:18-33, :138-209).
BatchAsItsWorst == C!BatchAsItsWorst

\* A MongoDB command is gated at least at the level its reach calls for, but for
\* null in a set of values or as a bound, the one thing overlooked; filters
\* that pin values are never taken for ones that match everything, and the rules
\* for $and and $or agree with what they do to the documents
\* (mongo_analyze.go:82-105, :147-227, :313-317).
GatedByReach == M!CommandsAreGated /\ M!NarrowsAndWidens

=============================================================================
