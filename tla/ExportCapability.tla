-------------------------- MODULE ExportCapability --------------------------
(***************************************************************************)
(* What the export store promises to the holders of download links, free   *)
(* of locks, files and counters.                                           *)
(*                                                                         *)
(* An artifact becomes live at once and at most once.  It stops being live *)
(* only when its time is over, when the store is closed, or when the       *)
(* process ends.  A download begins only while its artifact is live and    *)
(* not overdue, and it fails only if the artifact stops being live before  *)
(* the download gets hold of it.                                           *)
(***************************************************************************)
EXTENDS Naturals

CONSTANTS
    Id,     \* the artifacts
    Link,   \* those of them whose link somebody follows
    TTL     \* how long an artifact can be downloaded, a number

VARIABLES
    issued,    \* every artifact there has ever been
    live,      \* those that can be downloaded
    deadline,  \* when a live artifact is over
    open,      \* FALSE while a close has removed everything
    fetch,     \* the download of each link
    clock

vars == <<issued, live, deadline, open, fetch, clock>>

Due == {i \in live : clock >= deadline[i]}

Init ==
    /\ issued = {} /\ live = {}
    /\ deadline = [i \in Id |-> 0]
    /\ open = TRUE
    /\ fetch = [i \in Link |-> "none"]
    /\ clock = 0

\* Overdue artifacts may go along with any step of the store.
Keep(S) == S \subseteq live /\ live \ S \subseteq Due

Publish(i) ==
    /\ open /\ i \notin issued
    /\ \E S \in SUBSET live : Keep(S) /\ live' = S \cup {i}
    /\ issued' = issued \cup {i}
    /\ UNCHANGED <<deadline, open, fetch, clock>>

\* The lifetime of an artifact is fixed before it goes live.
FixDeadline(i) ==
    /\ i \notin issued
    /\ deadline' = [deadline EXCEPT ![i] = clock + TTL]
    /\ UNCHANGED <<issued, live, open, fetch, clock>>

Expire ==
    /\ \E S \in SUBSET live : Keep(S) /\ live' = S
    /\ UNCHANGED <<issued, deadline, open, fetch, clock>>

BeginDownload(i) ==
    /\ fetch[i] # "found"
    /\ live' = live \ Due
    /\ fetch' = [fetch EXCEPT ![i] = IF i \in live' THEN "found" ELSE "missing"]
    /\ UNCHANGED <<issued, deadline, open, clock>>

Serve(i) ==
    /\ fetch[i] = "found"
    /\ fetch' = [fetch EXCEPT ![i] = "served"]
    /\ UNCHANGED <<issued, live, deadline, open, clock>>

Miss(i) ==
    /\ fetch[i] = "found" /\ i \notin live
    /\ fetch' = [fetch EXCEPT ![i] = "missing"]
    /\ UNCHANGED <<issued, live, deadline, open, clock>>

Close ==
    /\ open' = FALSE /\ live' = {}
    /\ UNCHANGED <<issued, deadline, fetch, clock>>

\* The process ends, taking every link and every download with it; another
\* one may follow.
Exit ==
    /\ live' = {} /\ open' = TRUE
    /\ fetch' = [i \in Link |-> IF fetch[i] = "found" THEN "dropped" ELSE fetch[i]]
    /\ UNCHANGED <<issued, deadline, clock>>

Tick ==
    /\ clock' = clock + 1
    /\ UNCHANGED <<issued, live, deadline, open, fetch>>

Next ==
    \/ \E i \in Id : Publish(i) \/ FixDeadline(i)
    \/ \E i \in Link : BeginDownload(i) \/ Serve(i) \/ Miss(i)
    \/ Expire \/ Close \/ Exit \/ Tick

Spec == Init /\ [][Next]_vars
=============================================================================
