----------------------------- MODULE AccessPolicy -----------------------------
(***************************************************************************)
(* What an operator who configures connections and endpoints is promised:  *)
(* a connection is only ever changed as far as its own grant goes, through *)
(* an endpoint that shows it and whose cap goes as far; a connection no    *)
(* such endpoint shows is never changed.                                   *)
(***************************************************************************)
EXTENDS Permission

CONSTANTS
  Connection,  \* the configured connections
  Endpoint,    \* the places calls come from
  Grant,       \* the permission of a connection
  Ceiling,     \* the cap of an endpoint
  Shows(_, _)  \* an endpoint shows a connection

VARIABLE touched  \* how far each endpoint has changed each connection

Effective(e, c) == LeastPermissive(Grant[c], Ceiling[e])

Raise(level, to) == IF to > level THEN to ELSE level

Init == touched = [e \in Endpoint |-> [c \in Connection |-> PermissionReadOnly]]

Change(e, c) ==
  /\ Shows(e, c)
  /\ \E level \in PermissionReadOnly..Effective(e, c) :
       touched' = [touched EXCEPT ![e][c] = Raise(@, level)]

Next == \E e \in Endpoint, c \in Connection : Change(e, c)

Spec == Init /\ [][Next]_touched

=============================================================================
