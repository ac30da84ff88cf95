----------------------------- MODULE Configuration -----------------------------
(***************************************************************************)
(* What the commands make of a configuration before they serve anything:   *)
(* the connections (config.ConnectionDefs, the ad-hoc one of the command   *)
(* line, database.NewManager) and the endpoints (config.ResolvedEndpoints),*)
(* mounted by `dbq server` or selected by `dbq mcp`.                       *)
(*                                                                         *)
(* A path is a sequence of names and slashes.  A permission is what is     *)
(* written for it, "" for nothing.  Sources, drivers, limits and the       *)
(* settings Validate refuses are left out.                                 *)
(***************************************************************************)
EXTENDS Permission, SequencesExt

Slash == "/"

\* What may be written for a permission, and its rank; other texts are refused.
Written == [text \in {"", "read-only", "safe-write", "full"} |->
  CASE text = "safe-write" -> PermissionSafeWrite
    [] text = "full" -> PermissionFull
    [] OTHER -> PermissionReadOnly]

ParsePermission(text) == Written[text]

Parses(text) == text \in DOMAIN Written

-----------------------------------------------------------------------------
(* Connections: a function of their names to [disabled, permission]. *)

adHocName == "cli"

\* applyAdHoc: permission "none" stands for a command line without a source.
ApplyAdHoc(profiles, permission) ==
  IF permission = "none" THEN profiles
  ELSE [name \in DOMAIN profiles \cup {adHocName} |->
          IF name = adHocName THEN [disabled |-> FALSE, permission |-> permission]
          ELSE profiles[name]]

\* (mutant) a disabled profile is a connection too.
AllProfiles(profiles) == DOMAIN profiles

Enabled(profiles) == {name \in DOMAIN profiles : ~profiles[name].disabled}

\* ConnectionDefs and NewManager accept them.
ConnectionsAccepted(profiles) ==
  /\ \A name \in Enabled(profiles) : Parses(profiles[name].permission)
  /\ Enabled(profiles) # {}

ConnectionDefs(profiles) ==
  [name \in Enabled(profiles) |-> ParsePermission(profiles[name].permission)]

-----------------------------------------------------------------------------
(* Endpoints: mcp is [enabled, exportEnabled, endpoints]. *)

\* Without endpoints /mcp is mounted, for reading only.
Endpoints(mcp) ==
  IF mcp.endpoints # <<>> THEN mcp.endpoints
  ELSE <<[path |-> <<Slash, "mcp">>, permission |-> "read-only", allow |-> {},
          export |-> mcp.exportEnabled]>>

WithSlash(path) == IF path # <<>> /\ Head(path) = Slash THEN path ELSE <<Slash>> \o path

\* (mutant) the slash at the end is kept.
KeepPath(path) == WithSlash(path)

CleanPath(path) ==
  LET rooted == WithSlash(path)
  IN  IF Last(rooted) = Slash THEN Front(rooted) ELSE rooted

ResolvedEndpoint(endpoint) ==
  [path |-> CleanPath(endpoint.path), permission |-> ParsePermission(endpoint.permission),
   allow |-> endpoint.allow, export |-> endpoint.export]

\* Entry i ends ResolvedEndpoints with an error.
EntryRefused(mcp, i) ==
  LET endpoints == Endpoints(mcp)
      endpoint == endpoints[i]
  IN  \/ endpoint.export /\ ~mcp.exportEnabled
      \/ endpoint.path = <<>>
      \/ ~Parses(endpoint.permission)
      \/ \E j \in 1..(i - 1) : CleanPath(endpoints[j].path) = CleanPath(endpoint.path)

ResolutionFails(mcp) ==
  mcp.enabled /\ \E i \in DOMAIN Endpoints(mcp) : EntryRefused(mcp, i)

\* None without MCP, and none for a caller that is told of the error.
ResolvedEndpoints(mcp) ==
  IF ~mcp.enabled \/ ResolutionFails(mcp) THEN <<>>
  ELSE [i \in DOMAIN Endpoints(mcp) |-> ResolvedEndpoint(Endpoints(mcp)[i])]

\* server.New keeps a store for the endpoints that export.
HasStore(mcp) == mcp.enabled /\ mcp.exportEnabled

\* mountMCP: every endpoint is mounted at its path, with and without a slash.
\* An endpoint that exports is handed the store, if there is one.
Mounted(mcp) ==
  LET resolved == ResolvedEndpoints(mcp)
  IN  [mount \in (DOMAIN resolved) \X {<<>>, <<Slash>>} |->
         [pattern |-> resolved[mount[1]].path \o mount[2],
          handler |-> [endpoint |-> resolved[mount[1]],
                       store |-> resolved[mount[1]].export /\ HasStore(mcp)]]]

\* strings.Trim of the slashes at both ends.
TrimSlashes(path) ==
  LET names == {i \in DOMAIN path : path[i] # Slash}
  IN  IF names = {} THEN <<>> ELSE SubSeq(path, Min(names), Max(names))

\* resolveStdioEndpoint: the endpoint, none if it is refused.
Selected(mcp, requested) ==
  {endpoint \in ToSet(ResolvedEndpoints(mcp)) :
     endpoint.path = <<Slash>> \o TrimSlashes(requested)}

-----------------------------------------------------------------------------
(* What an endpoint may do with a connection. *)

Visible(endpoint, defs) ==
  IF endpoint.allow = {} THEN DOMAIN defs ELSE endpoint.allow \cap DOMAIN defs

Effective(endpoint, defs, name) == LeastPermissive(endpoint.permission, defs[name])

-----------------------------------------------------------------------------
(***************************************************************************)
(* A configuration is written one entry at a time, and what the commands   *)
(* make of it is compared with what is written.                            *)
(***************************************************************************)
CONSTANTS
  Connection,   \* names of profiles
  Text,         \* what is written for a permission
  Path,         \* what is written for a path
  Allow,        \* what is written for a list of connections
  MaxEndpoints  \* bound: endpoints

ASSUME PathAssumption == \A path \in Path : path \in Seq(STRING)

VARIABLES
  mcp,       \* the mcp block
  profiles,  \* the connections block
  adHoc      \* permission of the connection of the command line, or "none"

vars == <<mcp, profiles, adHoc>>

Init ==
  /\ mcp \in [enabled : BOOLEAN, exportEnabled : BOOLEAN, endpoints : {<<>>}]
  /\ profiles = <<>> /\ adHoc \in {"none", "full"}

WriteProfile(name, disabled, text) ==
  /\ mcp.endpoints = <<>> /\ name \notin DOMAIN profiles
  /\ profiles' = [n \in DOMAIN profiles \cup {name} |->
                    IF n = name THEN [disabled |-> disabled, permission |-> text]
                    ELSE profiles[n]]
  /\ UNCHANGED <<mcp, adHoc>>

\* The entries of a block that is not enabled are not looked at.
WriteEndpoint(path, text, allow, export) ==
  /\ mcp.enabled /\ Len(mcp.endpoints) < MaxEndpoints
  /\ mcp' = [mcp EXCEPT !.endpoints =
               Append(@, [path |-> path, permission |-> text, allow |-> allow, export |-> export])]
  /\ UNCHANGED <<profiles, adHoc>>

Next ==
  \/ \E name \in Connection, disabled \in BOOLEAN, text \in Text :
       WriteProfile(name, disabled, text)
  \/ \E path \in Path, text \in Text, allow \in Allow, export \in BOOLEAN :
       WriteEndpoint(path, text, allow, export)

Spec == Init /\ [][Next]_vars

-----------------------------------------------------------------------------
(* Properties. *)

Started == ApplyAdHoc(profiles, adHoc)
Defs == ConnectionDefs(Started)
Serving == ConnectionsAccepted(Started)
Patterns == [mount \in DOMAIN Mounted(mcp) |-> Mounted(mcp)[mount].pattern]
HandlersOf(path) ==
  {Mounted(mcp)[mount].handler : mount \in {m \in DOMAIN Patterns : Patterns[m] = path}}

\* "write access must be configured explicitly" (config.go:259): where an
\* endpoint changes data, both its entry and that of the connection say so, and
\* the connection is enabled, or was given on the command line, and is allowed.
WriteIsConfigured ==
  Serving =>
    \A mount \in DOMAIN Mounted(mcp) :
      LET endpoint == Mounted(mcp)[mount].handler.endpoint
      IN  \A name \in Visible(endpoint, Defs) :
            CanWrite(Effective(endpoint, Defs, name)) =>
              /\ \E e \in ToSet(mcp.endpoints) :
                   /\ e.permission \in {"safe-write", "full"}
                   /\ CleanPath(e.path) = endpoint.path
                   /\ e.allow = {} \/ name \in e.allow
              /\ \/ name = adHocName /\ adHoc # "none"
                 \/ /\ profiles[name].permission \in {"safe-write", "full"}
                    /\ ~profiles[name].disabled

\* One path is the other and a slash, and another: what is left of it when its last
\* slash is cut is the other with a slash at its end.
Overlap(path, other) ==
  LET rooted == WithSlash(path)
      slashed == IF Last(rooted) = Slash THEN rooted ELSE Append(rooted, Slash)
  IN  WithSlash(other) = Append(slashed, Slash)

\* No two endpoints are mounted at one pattern, as no two have the same path when
\* the slash at its end is cut, unless the paths overlap: the code cuts one slash
\* and mounts at one more, so that /a and /a// meet at /a/ (config.go:287-304,
\* server.go:127-129).  But for those, a request to a path as it is written is
\* answered by the endpoint written there and by no other, which creates exports
\* if its entry says so.
MountedAsWritten ==
  mcp.enabled /\ ~ResolutionFails(mcp) =>
    /\ IsInjective(Patterns) <=>
         \A e, f \in ToSet(Endpoints(mcp)) : ~Overlap(e.path, f.path)
    /\ \A e \in ToSet(Endpoints(mcp)) :
         LET handlers == HandlersOf(WithSlash(e.path))
         IN  \/ \E f \in ToSet(Endpoints(mcp)) : Overlap(e.path, f.path) \/ Overlap(f.path, e.path)
             \/ /\ Cardinality(handlers) = 1
                /\ \A h \in handlers :
                     /\ h.endpoint.permission = ParsePermission(e.permission)
                     /\ h.endpoint.allow = e.allow
                     /\ h.store = e.export

\* What the flag is compared with has one slash in front and none at its end; a
\* path is of that form, or ends in one slash more.
SlashedOnce(path) ==
  LET asked == <<Slash>> \o TrimSlashes(path)
  IN  \/ WithSlash(path) = asked /\ asked # <<Slash>>
      \/ WithSlash(path) = Append(asked, Slash)

\* An endpoint is selected over stdio by the path that is written for it, and alone
\* (cli/mcp.go:30-34, :103), but for one whose path begins or ends with slashes
\* next to each other, and the one at the root: "/" is what is looked for, and the
\* path of that endpoint is empty.
FoundOverStdio ==
  mcp.enabled /\ ~ResolutionFails(mcp) =>
    \A e \in ToSet(Endpoints(mcp)) :
      IF SlashedOnce(e.path)
      THEN Selected(mcp, e.path) = {ResolvedEndpoint(e)}
      ELSE ResolvedEndpoint(e) \notin Selected(mcp, e.path)

\* A request is answered by the endpoint its path is written for, over HTTP and
\* over stdio, but for the root and paths with two slashes at one of their ends
\* (server.go:127-129, config.go:287-304, cli/mcp.go:30-34, :103).
AnsweredAsWritten == MountedAsWritten /\ FoundOverStdio

=============================================================================
