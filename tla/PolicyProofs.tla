----------------------------- MODULE PolicyProofs -----------------------------
(***************************************************************************)
(* Theorems about Policy, for any connections, endpoints, scopes and       *)
(* statements, and any number of clients.  What makes the invariants       *)
(* inductive is that the tools offered are those of the scopes, and that a *)
(* call that is past the gate was authorised.                              *)
(***************************************************************************)
EXTENDS Policy, TLAPS

OfferedByScope == offered = [e \in Endpoint |-> Offered(e)]

Authorised(r) ==
  /\ Shows(r.endpoint, r.name)
  /\ r.tool \notin Inspections =>
       /\ r.stmt \in Statement
       /\ Authorize(Verdict[Language[r.name]][r.stmt],
                    PermissionFor(r.endpoint, r.tool, r.name)) = "ok"

CallsAuthorised == \A cl \in Client : call[cl] # Idle => Authorised(call[cl])

\* An answer names what its outcome has it name, and a call that was not resolved
\* says which of the three it was.
Resolved(a) ==
  /\ a.names = Named(a.outcome)
  /\ a.outcome \in Unresolved <=> ~Shows(a.endpoint, a.name)
  /\ a.outcome \in Unresolved => a.outcome = Resolve(a.endpoint, a.name)

AnswersKnown == \A cl \in Client : answer[cl] # Idle => Resolved(answer[cl])

IInv ==
  /\ TypeOK
  /\ OfferedByScope
  /\ CallsAuthorised
  /\ AnswersKnown
  /\ LimitsAsAnnounced
  /\ TouchedWithinGrants

-----------------------------------------------------------------------------
(* The operators. *)

LEMMA CeilingType == Ceiling \in [Endpoint -> Permissions]
BY PolicyAssumption DEF Ceiling, PolicyAssumption, Permissions, PermissionFull, PermissionReadOnly

LEMMA EffectiveType ==
  ASSUME NEW e \in Endpoint, NEW c \in Connection
  PROVE  /\ Effective(e, c) \in Permissions
         /\ Effective(e, c) <= Grant[c]
         /\ Effective(e, c) <= Ceiling[e]
<1>1. Ceiling[e] \in Permissions /\ Grant[c] \in Permissions
  BY CeilingType, PolicyAssumption DEF PolicyAssumption
<1> QED BY <1>1 DEF Effective, LeastPermissive, Permissions, PermissionReadOnly, PermissionFull

LEMMA PermissionForType ==
  ASSUME NEW e \in Endpoint, NEW c \in Connection, NEW tool \in Tools
  PROVE  /\ PermissionFor(e, tool, c) \in Permissions
         /\ PermissionFor(e, tool, c) <= Effective(e, c)
         /\ Reading(tool) => PermissionFor(e, tool, c) = PermissionReadOnly
<1>1. Effective(e, c) \in Permissions
  BY EffectiveType
<1> QED
  BY <1>1 DEF PermissionFor, LeastPermissive, Permissions, PermissionReadOnly, PermissionFull

LEMMA RequiredType ==
  ASSUME NEW a \in Analyses
  PROVE  RequiredPermission(a) \in Permissions
BY DEF RequiredPermission, Permissions, PermissionReadOnly, PermissionFull, PermissionSafeWrite

LEMMA OkIsGranted ==
  ASSUME NEW a \in Analyses, NEW p \in Permissions, Authorize(a, p) = "ok"
  PROVE  RequiredPermission(a) <= p
<1>1. RequiredPermission(a) \in Permissions
  BY RequiredType
<1> QED BY <1>1 DEF Authorize, Permissions, PermissionReadOnly, PermissionFull

LEMMA AuthorizeType ==
  ASSUME NEW a, NEW p
  PROVE  Authorize(a, p) \in {"refused", "denied", "ok"}
BY DEF Authorize

LEMMA EffectBounded ==
  ASSUME NEW r \in Calls, Authorised(r)
  PROVE  /\ Effect(r) \in Permissions
         /\ Effect(r) <= Effective(r.endpoint, r.name)
         /\ r.tool \in ReadTools => Effect(r) = PermissionReadOnly
<1> DEFINE a == Verdict[Language[r.name]][r.stmt]
           p == PermissionFor(r.endpoint, r.tool, r.name)
<1>1. r.endpoint \in Endpoint /\ r.name \in Connection /\ r.tool \in Tools
  BY DEF Calls
<1>2. Effective(r.endpoint, r.name) \in Permissions
  BY <1>1, EffectiveType
<1>3. CASE r.tool \in Inspections
  BY <1>2, <1>3 DEF Effect, Permissions, PermissionReadOnly, PermissionFull
<1>4. CASE r.tool \notin Inspections
  <2>1. r.stmt \in Statement /\ Authorize(a, p) = "ok"
    BY <1>4 DEF Authorised
  <2>2. a \in Analyses
    BY <1>1, <2>1, PolicyAssumption DEF PolicyAssumption
  <2>3. p \in Permissions /\ p <= Effective(r.endpoint, r.name)
        /\ (Reading(r.tool) => p = PermissionReadOnly)
    BY <1>1, PermissionForType
  <2>4. RequiredPermission(a) \in Permissions /\ RequiredPermission(a) <= p
    BY <2>1, <2>2, <2>3, OkIsGranted, RequiredType
  <2>5. Effect(r) = RequiredPermission(a)
    BY <1>4 DEF Effect
  <2>6. r.tool \in ReadTools => Reading(r.tool)
    BY <1>4 DEF ReadTools, Reading
  <2> HIDE DEF a, p
  <2> QED BY <2>3, <2>4, <2>5, <2>6, <1>2 DEF Permissions, PermissionReadOnly, PermissionFull
<1> QED BY <1>3, <1>4

LEMMA LimitType ==
  ASSUME NEW e \in Endpoint, NEW tool \in Tools, NEW requested \in Int
  PROVE  LimitFor(e, tool, requested) \in Int
<1>1. MaxRows[e] \in Int /\ DefaultMaxRows \in Nat /\ MaxExportRows \in Nat
  BY PolicyAssumption DEF PolicyAssumption
<1>2. \A q \in Int : CappedLimit(q, MaxRows[e]) \in Int
  BY <1>1 DEF CappedLimit
<1> QED BY <1>1, <1>2 DEF LimitFor, Tools, ReadTools, Inspections

LEMMA LimitAnnounced ==
  ASSUME NEW e \in Endpoint, NEW requested \in Int, NEW n \in Announced(e)
  PROVE  LimitFor(e, "query", requested) \in 1..n
<1>1. MaxRows[e] \in Int /\ DefaultMaxRows \in Nat \ {0}
  BY PolicyAssumption DEF PolicyAssumption
<1>2. LimitFor(e, "query", requested) = CappedLimit(requested, MaxRows[e])
  BY DEF LimitFor, Inspections
<1>3. n = (IF MaxRows[e] = 0 THEN DefaultMaxRows ELSE MaxRows[e]) /\ MaxRows[e] >= 0
  BY <1>1 DEF Announced
<1> QED BY <1>1, <1>2, <1>3 DEF CappedLimit

LEMMA GateOk ==
  ASSUME NEW e \in Endpoint, NEW tool \in Tools, NEW name, NEW stmt \in StatementsOf(tool),
         Gate(e, tool, name, stmt) = "ok"
  PROVE  /\ Shows(e, name)
         /\ tool \notin Inspections =>
              /\ stmt \in Statement
              /\ Authorize(Verdict[Language[name]][stmt], PermissionFor(e, tool, name)) = "ok"
<1>1. Shows(e, name)
  BY DEF Gate, Resolve
<1>2. Checked(e, tool, name, stmt) = "ok"
  BY <1>1 DEF Gate
<1>3. tool \notin Inspections => stmt \in Statement
  BY <1>2 DEF Checked, StatementsOf
<1>4. tool \notin Inspections => stmt # Empty
  BY <1>3, PolicyAssumption DEF PolicyAssumption
<1>5. ASSUME tool \notin Inspections
      PROVE  Authorize(Verdict[Language[name]][stmt], PermissionFor(e, tool, name)) = "ok"
  BY <1>2, <1>4, <1>5 DEF Checked
<1> QED BY <1>1, <1>3, <1>5

LEMMA ResolveUnseen ==
  ASSUME NEW e, NEW name, ~Shows(e, name)
  PROVE  /\ Resolve(e, name) \in Unresolved
         /\ Resolve(e, name) = "hidden" <=> name \in Connection
         /\ Resolve(e, name) = "unnamed" <=> name = Unnamed
<1>1. Unnamed \notin Connection
  BY PolicyAssumption DEF PolicyAssumption
<1>2. CASE name \in Connection
  <2>1. Resolve(e, name) = "hidden"
    BY <1>1, <1>2 DEF Resolve, Shows
  <2> QED BY <1>1, <1>2, <2>1 DEF Unresolved
<1>3. CASE name \notin Connection
  BY <1>1, <1>3 DEF Resolve, Shows, Unresolved
<1> QED BY <1>2, <1>3

LEMMA GateRefuses ==
  ASSUME NEW e \in Endpoint, NEW tool \in Tools, NEW name \in Name, NEW stmt
  PROVE  /\ Gate(e, tool, name, stmt) \in Outcomes
         /\ Gate(e, tool, name, stmt) \in Unresolved <=> ~Shows(e, name)
         /\ Gate(e, tool, name, stmt) \in Unresolved => Gate(e, tool, name, stmt) = Resolve(e, name)
<1> DEFINE verdict == Authorize(Verdict[Language[name]][stmt], PermissionFor(e, tool, name))
<1>1. verdict \in {"refused", "denied", "ok"}
  BY AuthorizeType
<1> HIDE DEF verdict
<1>2. Checked(e, tool, name, stmt) \in {"ok", "required", "language", verdict}
  BY DEF Checked, verdict
<1>3. Checked(e, tool, name, stmt) \in Outcomes \ Unresolved
  BY <1>1, <1>2 DEF Outcomes, Unresolved
<1>4. CASE Shows(e, name)
  <2>1. Gate(e, tool, name, stmt) = Checked(e, tool, name, stmt)
    BY <1>4 DEF Gate
  <2> QED BY <1>3, <1>4, <2>1
<1>5. CASE ~Shows(e, name)
  <2>1. Resolve(e, name) \in Unresolved
    BY <1>5, ResolveUnseen
  <2>2. Gate(e, tool, name, stmt) = Resolve(e, name)
    BY <1>5 DEF Gate
  <2> QED BY <1>5, <2>1, <2>2 DEF Outcomes
<1> QED BY <1>4, <1>5

LEMMA NamedType ==
  ASSUME NEW e, NEW name, NEW outcome
  PROVE  /\ Named(outcome) \in SUBSET Connection
         /\ Answer(e, name, outcome).names = Named(Answer(e, name, outcome).outcome)
BY DEF Named, Answer

LEMMA CallIsNotIdle ==
  ASSUME NEW r \in Calls
  PROVE  r # Idle
BY DEF Calls, Idle, Tools, ReadTools, Inspections

LEMMA OfferedTools ==
  ASSUME NEW e \in Endpoint
  PROVE  Offered(e) \in SUBSET Tools
BY DEF Offered, Tools, ReadTools, Inspections

-----------------------------------------------------------------------------
(* The invariant. *)

LEMMA PolicyInit == Init => IInv
<1> SUFFICES ASSUME Init PROVE IInv
  OBVIOUS
<1>1. TypeOK
  BY OfferedTools DEF Init, TypeOK, Permissions, PermissionReadOnly, PermissionFull
<1>2. OfferedByScope /\ CallsAuthorised /\ AnswersKnown /\ LimitsAsAnnounced /\ TouchedWithinGrants
  BY DEF Init, OfferedByScope, CallsAuthorised, AnswersKnown, LimitsAsAnnounced, TouchedWithinGrants
<1> QED BY <1>1, <1>2 DEF IInv

LEMMA SubmitInv ==
  ASSUME IInv, NEW cl \in Client, NEW e \in Endpoint, NEW tool \in Tools, NEW name \in Name,
         NEW stmt \in StatementsOf(tool), NEW requested \in RequestsOf(tool),
         Submit(cl, e, tool, name, stmt, requested)
  PROVE  IInv'
<1> DEFINE verdict == Gate(e, tool, name, stmt)
           r == [endpoint |-> e, tool |-> tool, name |-> name, stmt |-> stmt,
                 limit |-> LimitFor(e, tool, requested)]
<1>1. UNCHANGED <<offered, touched>>
  BY DEF Submit
<1>2. requested \in Int
  BY PolicyAssumption DEF PolicyAssumption, RequestsOf
<1>3. TouchedWithinGrants' /\ OfferedByScope'
  BY <1>1 DEF IInv, TouchedWithinGrants, OfferedByScope
<1>4. CASE verdict = "ok"
  <2>1. call' = [call EXCEPT ![cl] = r] /\ answer' = [answer EXCEPT ![cl] = Idle]
    BY <1>4 DEF Submit
  <2>2. Shows(e, name) /\ name \in Connection
    BY <1>4, GateOk DEF Shows
  <2>3. stmt \in Statement \cup {Empty} /\ LimitFor(e, tool, requested) \in Int
    BY <1>2, LimitType DEF StatementsOf
  <2>4. r \in Calls
    BY <2>2, <2>3 DEF Calls
  <2>5. TypeOK'
    BY <1>1, <2>1, <2>4 DEF IInv, TypeOK
  <2>6. Authorised(r)
    BY <1>4, GateOk DEF Authorised
  <2>7. r.tool = "query" => \A n \in Announced(r.endpoint) : r.limit \in 1..n
    BY <1>2, LimitAnnounced
  <2> HIDE DEF r
  <2>8. CallsAuthorised'
    BY <2>1, <2>6 DEF IInv, TypeOK, CallsAuthorised
  <2>9. AnswersKnown'
    BY <2>1 DEF IInv, TypeOK, AnswersKnown
  <2>10. LimitsAsAnnounced'
    BY <2>1, <2>7 DEF IInv, TypeOK, LimitsAsAnnounced
  <2> QED BY <1>3, <2>5, <2>8, <2>9, <2>10 DEF IInv
<1>5. CASE verdict # "ok"
  <2>1. answer' = [answer EXCEPT ![cl] = Answer(e, name, verdict)] /\ call' = call
    BY <1>5 DEF Submit
  <2>2. /\ verdict \in Outcomes /\ (verdict \in Unresolved <=> ~Shows(e, name))
        /\ verdict \in Unresolved => verdict = Resolve(e, name)
    BY GateRefuses
  <2> HIDE DEF verdict
  <2>3. Answer(e, name, verdict) \in Answers /\ Resolved(Answer(e, name, verdict))
    BY <2>2, NamedType DEF Answer, Answers, Resolved
  <2>4. TypeOK'
    BY <1>1, <2>1, <2>3 DEF IInv, TypeOK
  <2>5. AnswersKnown'
    BY <2>1, <2>3 DEF IInv, TypeOK, AnswersKnown
  <2>6. CallsAuthorised' /\ LimitsAsAnnounced'
    BY <2>1 DEF IInv, CallsAuthorised, LimitsAsAnnounced
  <2> QED BY <1>3, <2>4, <2>5, <2>6 DEF IInv
<1> QED BY <1>4, <1>5

LEMMA TouchBounded ==
  ASSUME IInv, NEW cl \in Client, call[cl] # Idle, Touch(call[cl])
  PROVE  /\ touched' \in [Endpoint -> [Connection -> Permissions]]
         /\ TouchedWithinGrants'
         /\ Access!Change(call[cl].endpoint, call[cl].name)
         /\ call[cl].tool \in ReadTools => touched' = touched
<1> DEFINE r == call[cl]
           c == r.name
           effect == Effect(r)
<1>1. r \in Calls /\ Authorised(r) /\ touched \in [Endpoint -> [Connection -> Permissions]]
  BY DEF IInv, TypeOK, CallsAuthorised
<1>2. c \in Connection /\ r.endpoint \in Endpoint /\ Shows(r.endpoint, c)
  BY <1>1 DEF Calls, Authorised
<1>3. /\ effect \in Permissions /\ effect <= Effective(r.endpoint, c)
      /\ r.tool \in ReadTools => effect = PermissionReadOnly
  BY <1>1, EffectBounded
<1>4. /\ Effective(r.endpoint, c) \in Permissions
      /\ Effective(r.endpoint, c) <= Grant[c] /\ Effective(r.endpoint, c) <= Ceiling[r.endpoint]
  BY <1>2, EffectiveType
<1>5. Grant[c] \in Permissions /\ Ceiling[r.endpoint] \in Permissions
  BY <1>2, CeilingType, PolicyAssumption DEF PolicyAssumption
<1>6. touched' = [touched EXCEPT ![r.endpoint][c] = IF effect > @ THEN effect ELSE @]
  BY DEF Touch
<1> HIDE DEF effect
<1>7. touched' \in [Endpoint -> [Connection -> Permissions]]
  BY <1>1, <1>2, <1>3, <1>6
<1>8. TouchedWithinGrants'
  <2> SUFFICES ASSUME NEW e \in Endpoint, NEW d \in Connection,
                      touched'[e][d] # PermissionReadOnly
               PROVE  Shows(e, d) /\ touched'[e][d] <= Grant[d] /\ touched'[e][d] <= Ceiling[e]
    BY DEF TouchedWithinGrants
  <2>1. CASE touched'[e][d] = touched[e][d]
    BY <2>1 DEF IInv, TouchedWithinGrants
  <2>2. CASE touched'[e][d] # touched[e][d]
    <3>1. e = r.endpoint /\ d = c /\ touched'[e][d] = effect
      BY <1>1, <1>2, <1>6, <2>2
    <3>2. effect <= Grant[c] /\ effect <= Ceiling[r.endpoint]
      BY <1>3, <1>4, <1>5 DEF Permissions, PermissionReadOnly, PermissionFull
    <3> QED BY <1>2, <3>1, <3>2
  <2> QED BY <2>1, <2>2
<1>9. Access!Change(r.endpoint, c)
  <2>1. Effective(r.endpoint, c) = Access!Effective(r.endpoint, c)
    BY DEF Effective, Access!Effective, LeastPermissive, Access!LeastPermissive
  <2>2. effect \in Access!PermissionReadOnly..Access!Effective(r.endpoint, c)
    BY <1>3, <1>4, <2>1 DEF Permissions, PermissionReadOnly, PermissionFull, Access!PermissionReadOnly
  <2>3. touched' = [touched EXCEPT ![r.endpoint][c] = Access!Raise(@, effect)]
    BY <1>6 DEF Access!Raise
  <2> QED BY <1>2, <2>2, <2>3 DEF Access!Change
<1>10. r.tool \in ReadTools => touched' = touched
  BY <1>1, <1>2, <1>3, <1>6 DEF Permissions, PermissionReadOnly, PermissionFull
<1> QED BY <1>7, <1>8, <1>9, <1>10

LEMMA FinishInv ==
  ASSUME IInv, NEW cl \in Client, NEW outcome \in Outcomes \ Unresolved, call[cl] # Idle,
         Finish(cl, outcome), touched' \in [Endpoint -> [Connection -> Permissions]],
         TouchedWithinGrants'
  PROVE  IInv'
<1> DEFINE r == call[cl]
           a == Answer(r.endpoint, r.name, outcome)
<1>1. r \in Calls /\ Authorised(r)
  BY DEF IInv, TypeOK, CallsAuthorised
<1>2. /\ r.endpoint \in Endpoint /\ r.name \in Name
      /\ Shows(r.endpoint, r.name)
  BY <1>1, PolicyAssumption DEF PolicyAssumption, Calls, Authorised
<1>3. /\ answer' = [answer EXCEPT ![cl] = a] /\ call' = [call EXCEPT ![cl] = Idle]
      /\ offered' = offered
  BY DEF Finish
<1>4. a \in Answers /\ Resolved(a)
  BY <1>2, NamedType DEF Answer, Answers, Resolved
<1> HIDE DEF a
<1>5. TypeOK'
  BY <1>3, <1>4 DEF IInv, TypeOK
<1>6. OfferedByScope' /\ CallsAuthorised' /\ LimitsAsAnnounced'
  BY <1>3 DEF IInv, TypeOK, OfferedByScope, CallsAuthorised, LimitsAsAnnounced
<1>7. AnswersKnown'
  BY <1>3, <1>4 DEF IInv, TypeOK, AnswersKnown
<1> QED BY <1>5, <1>6, <1>7 DEF IInv

LEMMA PolicyStep == IInv /\ [Next]_vars => IInv'
<1> SUFFICES ASSUME IInv, [Next]_vars PROVE IInv'
  OBVIOUS
<1>1. ASSUME NEW cl \in Client, NEW e \in Endpoint, NEW tool \in Tools, NEW name \in Name,
             NEW stmt \in StatementsOf(tool), NEW requested \in RequestsOf(tool),
             Submit(cl, e, tool, name, stmt, requested)
      PROVE  IInv'
  BY <1>1, SubmitInv
<1>2. ASSUME NEW cl \in Client, Run(cl) PROVE IInv'
  BY <1>2, TouchBounded, FinishInv DEF Run, Outcomes, Unresolved
<1>3. ASSUME NEW cl \in Client, Fail(cl) PROVE IInv'
  <2>1. touched' \in [Endpoint -> [Connection -> Permissions]] /\ TouchedWithinGrants'
    BY <1>3, TouchBounded DEF Fail, IInv, TypeOK, TouchedWithinGrants
  <2> QED BY <1>3, <2>1, FinishInv DEF Fail, Outcomes, Unresolved
<1>4. CASE UNCHANGED vars
  BY <1>4 DEF vars, IInv, TypeOK, OfferedByScope, CallsAuthorised, AnswersKnown,
              LimitsAsAnnounced, TouchedWithinGrants
<1> QED BY <1>1, <1>2, <1>3, <1>4 DEF Next

THEOREM PolicyInvariant == Spec => []IInv
<1>1. Init => IInv
  BY PolicyInit
<1>2. IInv /\ [Next]_vars => IInv'
  BY PolicyStep
<1> QED BY <1>1, <1>2, PTL DEF Spec

-----------------------------------------------------------------------------
(* What the runs of Policy check, for every instance. *)

\* The variables stay in their sets; a call past the gate is of a connection
\* that is configured (service.go:124-139).
THEOREM PolicyTypes == Spec => []TypeOK
<1>1. IInv => TypeOK
  BY DEF IInv
<1> QED BY <1>1, PolicyInvariant, PTL

\* Nothing is changed further than the grant of the connection and the cap of the
\* endpoint allow, and only where it is shown (service.go:36-39, :391-397).
THEOREM ChangesAreGranted == Spec => []TouchedWithinGrants
<1>1. IInv => TouchedWithinGrants
  BY DEF IInv
<1> QED BY <1>1, PolicyInvariant, PTL

\* What answers tell of connections that are not shown: nothing is run on one, a
\* call for one gets no further whatever else is asked, and tells of no other; but a
\* name that is not configured, or none, gets the names of all connections, so that
\* two answers read alike exactly when both names are hidden, both are not configured
\* or both are missing (manager.go:145-153, service.go:124-139).
THEOREM UnseenStaysUnknown == Spec => []UnseenIsUnknown
<1>1. ASSUME IInv, NEW cl \in Client, answer[cl] # Idle
      PROVE  /\ answer[cl] \in Answers /\ Resolved(answer[cl])
             /\ Told(answer[cl]) # {} => answer[cl].name \notin Connection
  <2>1. answer[cl] \in Answers /\ Resolved(answer[cl])
    BY <1>1 DEF IInv, TypeOK, AnswersKnown
  <2>2. ASSUME Told(answer[cl]) # {} PROVE answer[cl].name \notin Connection
    <3>1. answer[cl].outcome \in {"unnamed", "unconfigured"}
      BY <2>1, <2>2 DEF Told, Resolved, Named
    <3>2. Resolve(answer[cl].endpoint, answer[cl].name) \in {"unnamed", "unconfigured"}
      BY <2>1, <3>1 DEF Resolved, Unresolved
    <3>3. ~Shows(answer[cl].endpoint, answer[cl].name)
      BY <2>1, <3>1 DEF Resolved, Unresolved
    <3> QED BY <3>2, <3>3, ResolveUnseen
  <2> QED BY <2>1, <2>2
<1>2. ASSUME IInv, NEW cl \in Client, NEW other \in Client,
             answer[cl] # Idle, answer[other] # Idle,
             answer[cl].outcome \in Unresolved, answer[other].outcome \in Unresolved
      PROVE  Reads(answer[cl]) = Reads(answer[other]) <=>
               \/ answer[cl].name \in Connection /\ answer[other].name \in Connection
               \/ answer[cl].name = Unnamed /\ answer[other].name = Unnamed
               \/ {answer[cl].name, answer[other].name} \cap (Connection \cup {Unnamed}) = {}
  <2> DEFINE Kind(a) == Resolve(a.endpoint, a.name)
  <2>1. ASSUME NEW c \in {cl, other}
        PROVE  /\ Kind(answer[c]) \in Unresolved
               /\ Reads(answer[c]) = <<IF Kind(answer[c]) = "unnamed" THEN "unnamed" ELSE "unknown",
                                       Named(Kind(answer[c]))>>
               /\ Kind(answer[c]) = "hidden" <=> answer[c].name \in Connection
               /\ Kind(answer[c]) = "unnamed" <=> answer[c].name = Unnamed
    <3>1. /\ answer[c].outcome \in Unresolved /\ answer[c].outcome = Kind(answer[c])
          /\ answer[c].names = Named(Kind(answer[c])) /\ ~Shows(answer[c].endpoint, answer[c].name)
      BY <1>1, <1>2 DEF Resolved
    <3>2. Reads(answer[c]) = <<IF Kind(answer[c]) = "unnamed" THEN "unnamed" ELSE "unknown",
                              Named(Kind(answer[c]))>>
      BY <3>1 DEF Reads, Unresolved
    <3>3. /\ Kind(answer[c]) \in Unresolved
          /\ Kind(answer[c]) = "hidden" <=> answer[c].name \in Connection
          /\ Kind(answer[c]) = "unnamed" <=> answer[c].name = Unnamed
      BY <3>1, ResolveUnseen
    <3> QED BY <3>2, <3>3
  <2>2. (\E c \in {cl, other} : answer[c].name \in Connection) => Connection # {}
    OBVIOUS
  <2> HIDE DEF Kind
  <2>3. Reads(answer[cl]) = Reads(answer[other]) <=> Kind(answer[cl]) = Kind(answer[other])
    BY <2>1, <2>2 DEF Named, Unresolved
  <2> QED BY <2>1, <2>3 DEF Unresolved
<1>3. IInv => UnseenIsUnknown
  BY <1>1, <1>2 DEF UnseenIsUnknown, Resolved, IInv, CallsAuthorised, Authorised
<1> QED BY <1>3, PolicyInvariant, PTL

\* A query has at most the rows the instructions announce
\* (mcpserver.go:157-181, service.go:474-494).
THEOREM QueriesAreCapped == Spec => []LimitsAsAnnounced
<1>1. IInv => LimitsAsAnnounced
  BY DEF IInv
<1> QED BY <1>1, PolicyInvariant, PTL

\* The tool for writes is there exactly where some write could succeed
\* (mcpserver.go:558-565).
THEOREM WriteToolIsUseful == Spec => []WriteToolCanSucceed
<1>1. IInv => WriteToolCanSucceed
  <2> SUFFICES ASSUME IInv, NEW e \in Endpoint \ Local
               PROVE  "execute" \in offered[e] <=>
                        \E c \in Connection, a \in Analyses :
                          Shows(e, c) /\ a.kind # "read" /\ Authorize(a, Effective(e, c)) = "ok"
    BY DEF WriteToolCanSucceed
  <2>1. "execute" \in offered[e] <=> CanWriteIn(e)
    BY DEF IInv, OfferedByScope, Offered, Inspections
  <2>2. \A c \in Connection : Effective(e, c) \in Permissions /\ Effective(e, c) <= Ceiling[e]
    BY EffectiveType
  <2>3. Ceiling[e] \in Permissions
    BY CeilingType
  <2>4. ASSUME CanWriteIn(e)
        PROVE  \E c \in Connection, a \in Analyses :
                 Shows(e, c) /\ a.kind # "read" /\ Authorize(a, Effective(e, c)) = "ok"
    <3>1. PICK c \in Connection : Shows(e, c) /\ CanWrite(Effective(e, c))
      BY <2>4 DEF CanWriteIn
    <3>2. /\ Bounded("write") \in Analyses /\ Bounded("write").kind # "read"
          /\ ~Bounded("write").refused
      BY DEF Bounded, Analyses, Kinds
    <3>3. RequiredPermission(Bounded("write")) = PermissionSafeWrite
      BY DEF Bounded, RequiredPermission
    <3>4. Authorize(Bounded("write"), Effective(e, c)) = "ok"
      BY <3>1, <3>2, <3>3 DEF Authorize, CanWrite
    <3> QED BY <3>1, <3>2, <3>4
  <2>5. ASSUME NEW c \in Connection, NEW a \in Analyses,
               Shows(e, c), a.kind # "read", Authorize(a, Effective(e, c)) = "ok"
        PROVE  CanWriteIn(e)
    <3>1. RequiredPermission(a) >= PermissionSafeWrite
      BY <2>5 DEF RequiredPermission, PermissionSafeWrite, PermissionFull
    <3>2. RequiredPermission(a) <= Effective(e, c)
      BY <2>2, <2>5, OkIsGranted
    <3>3. RequiredPermission(a) \in Permissions
      BY RequiredType
    <3>4. CanWrite(Effective(e, c)) /\ CanWrite(Ceiling[e])
      BY <2>2, <2>3, <3>1, <3>2, <3>3
         DEF CanWrite, Permissions, PermissionReadOnly, PermissionSafeWrite, PermissionFull
    <3> QED BY <2>5, <3>4 DEF CanWriteIn
  <2> QED BY <2>1, <2>4, <2>5
<1> QED BY <1>1, PolicyInvariant, PTL

\* A call of a reading tool changes nothing (mcpserver.go:464-465).
THEOREM ReadingIsHarmless == Spec => ReadToolsChangeNothing
<1>1. ASSUME IInv, [Next]_vars, NEW cl \in Client,
             call[cl] # Idle, call[cl].tool \in ReadTools, call'[cl] = Idle
      PROVE  UNCHANGED touched
  <2>1. ASSUME NEW other \in Client, NEW e \in Endpoint, NEW tool \in Tools, NEW name \in Name,
               NEW stmt \in StatementsOf(tool), NEW requested \in RequestsOf(tool),
               Submit(other, e, tool, name, stmt, requested)
        PROVE  UNCHANGED touched
    BY <2>1 DEF Submit
  <2>2. ASSUME NEW other \in Client, Run(other) \/ Fail(other)
        PROVE  UNCHANGED touched
    <3>1. call[other] # Idle /\ call' = [call EXCEPT ![other] = Idle]
          /\ (Touch(call[other]) \/ UNCHANGED touched)
      BY <2>2 DEF Run, Fail, Finish
    <3>2. other = cl
      BY <1>1, <3>1 DEF IInv, TypeOK
    <3> QED BY <1>1, <3>1, <3>2, TouchBounded
  <2>3. CASE UNCHANGED vars
    BY <2>3 DEF vars
  <2> QED BY <1>1, <2>1, <2>2, <2>3 DEF Next
<1>2. IInv /\ [Next]_vars =>
        [\A cl \in Client :
           call[cl] # Idle /\ call[cl].tool \in ReadTools /\ call'[cl] = Idle
             => UNCHANGED touched]_vars
  BY <1>1
<1> QED BY <1>2, PolicyInvariant, PTL DEF Spec, ReadToolsChangeNothing

\* The two together, which is what the run checks.
THEOREM ChangesStayAllowed == Spec => ChangesAreAllowed
BY ChangesAreGranted, ReadingIsHarmless, PTL DEF ChangesAreAllowed

\* The service keeps the operator's promise: every step of it is one that the
\* access policy allows, or changes no connection (service.go:36-39).
THEOREM PolicyImplementsAccess == Spec => Implements
<1>1. Init => Access!Init
  BY DEF Init, Access!Init, PermissionReadOnly, Access!PermissionReadOnly
<1>2. IInv /\ [Next]_vars => [Access!Next]_touched
  <2> SUFFICES ASSUME IInv, [Next]_vars PROVE [Access!Next]_touched
    OBVIOUS
  <2>1. ASSUME NEW cl \in Client, NEW e \in Endpoint, NEW tool \in Tools, NEW name \in Name,
               NEW stmt \in StatementsOf(tool), NEW requested \in RequestsOf(tool),
               Submit(cl, e, tool, name, stmt, requested)
        PROVE  UNCHANGED touched
    BY <2>1 DEF Submit
  <2>2. ASSUME NEW cl \in Client, Run(cl) \/ Fail(cl)
        PROVE  Access!Next \/ UNCHANGED touched
    <3>1. call[cl] # Idle /\ (Touch(call[cl]) \/ UNCHANGED touched)
      BY <2>2 DEF Run, Fail
    <3>2. call[cl].endpoint \in Endpoint /\ call[cl].name \in Connection
      BY <3>1 DEF IInv, TypeOK, Calls
    <3>3. Touch(call[cl]) => Access!Next
      BY <3>1, <3>2, TouchBounded DEF Access!Next
    <3> QED BY <3>1, <3>3
  <2>3. CASE UNCHANGED vars
    BY <2>3 DEF vars
  <2> QED BY <2>1, <2>2, <2>3 DEF Next
<1> QED BY <1>1, <1>2, PolicyInvariant, PTL DEF Spec, Implements, Access!Spec

=============================================================================
