----------------------------- MODULE PoolSettings -----------------------------
(***************************************************************************)
(* The settings of a connection's pool (internal/database/db.go): what a   *)
(* connection says, what the `pool` block says for all of them and what    *)
(* dbq falls back to are merged field by field and handed to database/sql, *)
(* for which zero and negative numbers mean something else.                *)
(*                                                                         *)
(* In a configuration zero inherits and a negative number is no limit.     *)
(* Durations are numbers.                                                  *)
(***************************************************************************)
EXTENDS Integers

CONSTANTS
  Setting,       \* numbers a configuration gives
  DefaultPool    \* the settings nothing else has set

Field == {"MaxOpen", "MaxIdle", "MaxLifetime", "MaxIdleTime"}

ASSUME PoolAssumption ==
  /\ 0 \in Setting /\ Setting \subseteq Int
  /\ DefaultPool \in [Field -> Nat] /\ DefaultPool.MaxIdle > 0
  /\ DefaultPool.MaxOpen > 0

VARIABLES
  global,  \* the pool block
  own      \* that of the connection

poolVars == <<global, own>>

LargerOf(a, b) == IF a > b THEN a ELSE b

\* (mutant) settings of its own replace the fallback as a whole.
MergedAsAWhole(p, fallback) ==
  IF \A f \in Field : p[f] = 0 THEN fallback ELSE p

Merged(p, fallback) == [f \in Field |-> IF p[f] = 0 THEN fallback[f] ELSE p[f]]

\* database/sql cannot keep an unlimited number of idle connections.
Idle(out) ==
  IF out.MaxIdle >= 0 THEN out.MaxIdle
  ELSE IF out.MaxOpen > 0 THEN out.MaxOpen
  ELSE DefaultPool.MaxIdle

WithDefaults(p) ==
  LET out == Merged(p, DefaultPool)
  IN  [f \in Field |-> CASE f = "MaxIdle" -> Idle(out)
                         [] OTHER -> LargerOf(out[f], 0)]

\* ConnectionDefs: what the configuration says of the connection.
Configured == Merged(own, global)

-----------------------------------------------------------------------------
(* What the pool does with it. *)

Unlimited == 0

\* database/sql: zero opens without a limit, keeps no idle connection and never
\* more of them than it may open.
SQLPool ==
  LET pool == WithDefaults(Configured)
  IN  IF pool.MaxOpen > 0 /\ pool.MaxIdle > pool.MaxOpen
      THEN [pool EXCEPT !.MaxIdle = pool.MaxOpen] ELSE pool

-----------------------------------------------------------------------------
(* A configuration is written one setting at a time. *)

Unset == [f \in Field |-> 0]

PoolInit == global = Unset /\ own = Unset

SetGlobal(f, v) ==
  /\ global[f] = 0 /\ global' = [global EXCEPT ![f] = v]
  /\ UNCHANGED own

SetOwn(f, v) ==
  /\ own[f] = 0 /\ own' = [own EXCEPT ![f] = v]
  /\ UNCHANGED global

PoolNext == \E f \in Field, v \in Setting : SetGlobal(f, v) \/ SetOwn(f, v)

PoolSpec == PoolInit /\ [][PoolNext]_poolVars

-----------------------------------------------------------------------------
(* Properties. *)

\* What was asked for a field: by the connection, else by the pool block.
Asked(f) == IF own[f] # 0 THEN own[f] ELSE global[f]

\* Connections are opened without a limit, or kept for ever, only where the
\* configuration asks for it or the default is so; a positive number is the
\* limit database/sql has (config.go:60-61, README.md:206-208).
NoLimitOnlyIfAsked ==
  \A f \in Field \ {"MaxIdle"} :
    /\ SQLPool[f] = Unlimited <=> Asked(f) < 0 \/ (Asked(f) = 0 /\ DefaultPool[f] = 0)
    /\ Asked(f) > 0 => SQLPool[f] = Asked(f)

\* "zero means keep none" to database/sql (db.go:88): no configuration makes a
\* pool close every connection it is given back, and an unlimited number of idle
\* ones follows the number that may be open (README.md:208-209).
SomeStayIdle ==
  /\ SQLPool.MaxIdle > 0
  /\ SQLPool.MaxOpen # Unlimited => SQLPool.MaxIdle <= SQLPool.MaxOpen
  /\ Asked("MaxIdle") < 0 /\ SQLPool.MaxOpen # Unlimited => SQLPool.MaxIdle = SQLPool.MaxOpen

\* A setting of the connection changes no other one of its settings, but for the
\* idle connections a lower limit has no room for (README.md:159).
OthersKept ==
  \A f \in Field :
    own'[f] = own[f] /\ global'[f] = global[f] =>
      \/ SQLPool'[f] = SQLPool[f]
      \/ f = "MaxIdle" /\ SQLPool'.MaxOpen # SQLPool.MaxOpen

FieldByField == [][OthersKept]_poolVars

\* A pool has the settings the configuration gives it, field by field.
PoolsAsConfigured == [](NoLimitOnlyIfAsked /\ SomeStayIdle) /\ FieldByField

=============================================================================
