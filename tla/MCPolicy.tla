------------------------------- MODULE MCPolicy -------------------------------
(***************************************************************************)
(* An instance of Policy: connections of two languages and every grant,    *)
(* three endpoints and the shell.                                          *)
(***************************************************************************)
EXTENDS Policy, TLC

CONSTANTS k1, k2, books, users, cache, ghost, nameless, narrow, wide, audit, shell, peek, put, alter

MCLanguage == (books :> "sql") @@ (users :> "sql") @@ (cache :> "redis")
MCGrant == (books :> 2) @@ (users :> 0) @@ (cache :> 1)

\* narrow shows a connection for bounded writes and lists a name that is not
\* configured; wide shows two for reading; audit shows one that nobody may write;
\* the shell shows all.
MCCap == (narrow :> 1) @@ (wide :> 0) @@ (audit :> 2) @@ (shell :> NoCap)
MCAllow == (narrow :> {books, ghost}) @@ (wide :> {books, cache}) @@ (audit :> {users}) @@ (shell :> {})
MCMaxRows == (narrow :> 0) @@ (wide :> 1) @@ (audit :> -1) @@ (shell :> 3)

\* What alters a SQL database is no command that a Redis is sent.
MCVerdict ==
  [l \in Languages |->
     (peek :> Bounded("read")) @@ (put :> Bounded("write"))
       @@ (alter :> IF l = "redis" THEN Refused("session") ELSE Bounded("schema"))]

MCRequests == {-1, 0, 2}

Symmetry == Permutations({k1, k2})

=============================================================================
