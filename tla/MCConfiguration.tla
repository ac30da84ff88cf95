---------------------------- MODULE MCConfiguration ----------------------------
(***************************************************************************)
(* Instances for TLC of what is made of a configuration: the settings of a *)
(* pool (PoolSettings), and connections and endpoints (Configuration).     *)
(*                                                                         *)
(* The two share no state.  A behaviour is one of a single part; the       *)
(* variables of the other keep an initial value.  Connections are written  *)
(* together with the usual paths only, and unusual paths without them.     *)
(***************************************************************************)
EXTENDS PoolSettings, Configuration

MCSetting == {-1, 0, 1}

MCDefaultPool ==
  [MaxOpen |-> 3, MaxIdle |-> 3, MaxLifetime |-> 15, MaxIdleTime |-> 0]

\* Written with and without slashes, at the root and below another one.
UsualPath ==
  {<<"/">>, <<"mcp">>, <<"/", "mcp", "/">>, <<"/", "mcp", "/", "abc">>}

\* With slashes next to each other, too.
MCPath ==
  UsualPath \cup
    {<<"/", "/">>, <<"/", "/", "mcp">>, <<"mcp", "/", "/">>, <<"/", "mcp", "/", "/", "/">>,
     <<"/", "mcp", "/", "/", "abc">>}

VARIABLE part

MCInit ==
  /\ part \in {"pool", "endpoints", "paths"}
  /\ PoolInit
  /\ Init
  /\ part = "paths" => adHoc = "none"
  /\ part = "pool" =>
       adHoc = "none" /\ mcp = [enabled |-> FALSE, exportEnabled |-> FALSE, endpoints |-> <<>>]

MCNext ==
  /\ UNCHANGED part
  /\ \/ part = "pool" /\ PoolNext /\ UNCHANGED vars
     \/ /\ part = "endpoints" /\ Next
        /\ \A i \in DOMAIN mcp'.endpoints : mcp'.endpoints[i].path \in UsualPath
        /\ UNCHANGED poolVars
     \/ part = "paths" /\ Next /\ UNCHANGED <<poolVars, profiles>>

MCSpec == MCInit /\ [][MCNext]_<<part, poolVars, vars>>

=============================================================================
