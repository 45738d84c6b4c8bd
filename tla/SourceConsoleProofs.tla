------------------------ MODULE SourceConsoleProofs ------------------------
(***************************************************************************)
(* Theorems about SourceConsole, for any pages, groups, versions and       *)
(* instants: what its versions protect, what its audit tells, and what     *)
(* becomes of the connector form.                                          *)
(***************************************************************************)
EXTENDS SourceConsole, TLAPS

Decisions == {"approved", "restricted", "rejected", "revoked"}
SourceRow ==
  [status : Decisions \cup {"pending"}, group : Groups \cup {None}, version : Nat \ {0}]
TargetRow ==
  [status : {"approved", "specified_pending_approval"}, baseline : Nat, version : Nat \ {0}]

----------------------------------------------------------------------------
(* The properties *)

\* A change that a page makes with success applies to the row it has shown: approving
\* changes the source that was loaded, activating a monitor the target that was loaded,
\* however old the page is and whatever other administrators did since
\* (postgres-repository.ts compares expectedVersion under the row's lock).
PagesActOnWhatTheyShow ==
  [][\A p \in Pages : PageNext(p) =>
       /\ source' # source => cached[p].source = source
       /\ target' # target => cached[p].target = target]_vars

\* Every version of the source since the first has the audit entry of the decision or of the
\* activation that led to it and never both, every version of the target the entry of its
\* activation; and there is no entry of a version that was not reached.  The ids of entries are made
\* of versions (postgres-repository.ts:830).
VersionsAreAudited ==
  /\ \A v \in 2 .. source.version :
       <<"source.approval_decided", v>> \in audit <=> <<"connector.activated", v>> \notin audit
  /\ \A v \in 2 .. target.version : <<"monitor.activated", v>> \in audit
  /\ \A v \in Nat :
       /\ <<"source.approval_decided", v>> \in audit => v \in 2 .. source.version
       /\ <<"connector.activated", v>> \in audit => v \in 2 .. source.version
       /\ <<"monitor.activated", v>> \in audit => v \in 2 .. target.version

\* "Activate connector" changes nothing, whatever was filled in and whoever decided what: the
\* body the page sends has an endpoint where the route wants a recipe_reference
\* (SourceReviewPage.tsx and routes/admin.ts).
ConnectorFormIsRefused ==
  [][\A p \in Pages : ActivateConnector(p) => UNCHANGED <<source, approval, target, audit>>]_vars

----------------------------------------------------------------------------
(* The inductive invariant *)

ConsoleTypeOK ==
  /\ source \in SourceRow /\ target \in TargetRow
  /\ cached \in [Pages -> {None} \cup [source : SourceRow, target : TargetRow]]

\* A copy is no newer than the row it was made of, and of the same version only if it is the row.
OlderCopy(copy, r) == copy.version <= r.version /\ (copy.version = r.version => copy = r)
CopiesAreOld ==
  \A p \in Pages : cached[p] # None =>
    OlderCopy(cached[p].source, source) /\ OlderCopy(cached[p].target, target)

\* What the source is called is what was decided last.
StatusIsDecided == approval # None => source.status = approval.decision

ConsoleInvariant == ConsoleTypeOK /\ CopiesAreOld /\ StatusIsDecided /\ VersionsAreAudited

----------------------------------------------------------------------------
(* The steps, sorted by what they do to the rows *)

\* The body of a page never parses: it has no recipe_reference.
LEMMA BodyNeverParses ==
  ASSUME NEW p \in Pages
  PROVE  ~ConnectorParses(ConnectorBody(p))
<1>1. "recipe_reference" \in ConnectorKeys
  BY DEF ConnectorKeys
<1>2. "recipe_reference" \notin DOMAIN ConnectorBody(p)
  BY DEF ConnectorBody, FormFields
<1> QED
  BY <1>1, <1>2 DEF ConnectorParses

\* What the page is refused changes nothing.
LEMMA ConnectorRefused ==
  ASSUME NEW p \in Pages, ActivateConnector(p)
  PROVE  Nothing /\ cached' = cached
<1>1. ~ConnectorAccepted(ConnectorBody(p), cached[p].source.version)
  BY BodyNeverParses DEF ConnectorAccepted
<1> QED
  BY <1>1 DEF ActivateConnector, Mutation

\* The changes of the rows.
Decides ==
  \E decision \in Decisions, scopes \in SUBSET Scopes, expires \in 1 .. MaxTime :
    Decided(decision, scopes, expires)

\* A page approves only the version it has shown, and activates only that of its target.
LEMMA PageSteps ==
  ASSUME NEW p \in Pages, PageNext(p)
  PROVE  \/ Nothing /\ (cached' = cached \/ Load(p))
         \/ Decides /\ cached' = cached /\ cached[p] # None /\ cached[p].source.version = source.version
         \/ MonitorActivated /\ cached' = cached /\ cached[p] # None
            /\ cached[p].target.version = target.version
<1>1. CASE Load(p)
  BY <1>1 DEF Load, Nothing
<1>2. ASSUME NEW expires \in 1 .. MaxTime, ApproveSource(p, expires)
      PROVE  \/ Nothing /\ cached' = cached
             \/ Decides /\ cached' = cached /\ cached[p] # None /\ cached[p].source.version = source.version
  <2>1. CASE DecisionAccepted(expires, cached[p].source.version)
    <3>1. Decided("approved", Scopes, expires) /\ cached' = cached /\ cached[p] # None
      BY <1>2, <2>1 DEF ApproveSource, Mutation
    <3>2. "approved" \in Decisions
      BY DEF Decisions
    <3> QED
      BY <2>1, <3>1, <3>2 DEF Decides, DecisionAccepted
  <2>2. CASE ~DecisionAccepted(expires, cached[p].source.version)
    BY <1>2, <2>2 DEF ApproveSource, Mutation
  <2> QED
    BY <2>1, <2>2
<1>3. ASSUME NEW values \in [FormFields -> Values], Fill(p, values)
      PROVE  Nothing /\ cached' = cached
  BY <1>3 DEF Fill, Nothing
<1>4. CASE ActivateConnector(p)
  BY <1>4, ConnectorRefused
<1>5. ASSUME NEW shape \in {"not an object", "object", "record of strings"}, ActivateMonitor(p, shape)
      PROVE  \/ Nothing /\ cached' = cached
             \/ MonitorActivated /\ cached' = cached /\ cached[p] # None
                /\ cached[p].target.version = target.version
  <2> DEFINE body == [fields |-> "accepted", shape |-> shape]
             accepted == shape # "not an object" /\ MonitorAccepted(body, cached[p].target.version)
  <2>1. CASE accepted
    BY <1>5, <2>1 DEF ActivateMonitor, Mutation, Offered, MonitorAccepted, MayActivateMonitor
  <2>2. CASE ~accepted
    BY <1>5, <2>2 DEF ActivateMonitor, Mutation
  <2> QED
    BY <2>1, <2>2
<1> QED
  BY <1>1, <1>2, <1>3, <1>4, <1>5 DEF PageNext

\* So do the other callers, whose versions are those they were just given.
LEMMA Steps ==
  ASSUME [Next]_vars
  PROVE  \/ Nothing /\ (cached' = cached \/ \E p \in Pages : Load(p))
         \/ (Decides \/ ConnectorActivated \/ MonitorActivated) /\ cached' = cached
<1>1. CASE \E p \in Pages : PageNext(p)
  BY <1>1, PageSteps
<1>2. ASSUME NEW decision \in {"approved", "restricted", "rejected", "revoked"},
             NEW scopes \in SUBSET Scopes \ {{}}, NEW expires \in 1 .. MaxTime,
             CallDecide(decision, scopes, expires)
      PROVE  Decides /\ cached' = cached
  BY <1>2 DEF CallDecide, Decides, Decisions
<1>3. ASSUME NEW group \in Groups, CallActivateConnector(group)
      PROVE  ConnectorActivated /\ cached' = cached
  BY <1>3 DEF CallActivateConnector
<1>4. CASE CallActivateMonitor
  BY <1>4 DEF CallActivateMonitor
<1>5. CASE Tick
  BY <1>5 DEF Tick, Nothing
<1>6. CASE UNCHANGED vars
  BY <1>6 DEF vars, Nothing
<1> QED
  BY <1>1, <1>2, <1>3, <1>4, <1>5, <1>6 DEF Next

----------------------------------------------------------------------------
(* Preservation, one lemma for each kind of change *)

\* An older copy of a row is one of every later version of it.
LEMMA CopiesStayOld ==
  ASSUME ConsoleTypeOK, CopiesAreOld, cached' = cached,
         source' = source \/ source'.version = source.version + 1,
         target' = target \/ target'.version = target.version + 1
  PROVE  CopiesAreOld'
<1> SUFFICES ASSUME NEW p \in Pages, cached[p] # None
             PROVE  /\ OlderCopy(cached[p].source, source')
                    /\ OlderCopy(cached[p].target, target')
  BY DEF CopiesAreOld, OlderCopy
<1>1. cached[p].source \in SourceRow /\ cached[p].target \in TargetRow
  BY DEF ConsoleTypeOK
<1>2. OlderCopy(cached[p].source, source) /\ OlderCopy(cached[p].target, target)
  BY DEF CopiesAreOld
<1>3. /\ source.version \in Nat /\ target.version \in Nat
      /\ cached[p].source.version \in Nat /\ cached[p].target.version \in Nat
  BY <1>1 DEF ConsoleTypeOK, SourceRow, TargetRow
<1> QED
  BY <1>2, <1>3 DEF OlderCopy

\* A new version of the source with one entry of its own.
LEMMA SourceAudited ==
  ASSUME ConsoleTypeOK, VersionsAreAudited, target' = target,
         source'.version = source.version + 1,
         NEW action \in {"source.approval_decided", "connector.activated"},
         audit' = audit \cup {<<action, source.version + 1>>}
  PROVE  VersionsAreAudited'
<1>1. source.version \in Nat \ {0} /\ target.version \in Nat \ {0}
  BY DEF ConsoleTypeOK, SourceRow, TargetRow
<1>2. ASSUME NEW v \in Nat, NEW a
      PROVE  <<a, v>> \in audit' <=> <<a, v>> \in audit \/ (a = action /\ v = source.version + 1)
  OBVIOUS
<1>3. ASSUME NEW v \in 2 .. source'.version
      PROVE  <<"source.approval_decided", v>> \in audit' <=> <<"connector.activated", v>> \notin audit'
  <2>1. v \in Nat
    BY <1>1, <1>3
  <2>2. CASE v = source.version + 1
    <3>1. /\ <<"source.approval_decided", v>> \notin audit
          /\ <<"connector.activated", v>> \notin audit
      <4>1. v \notin 2 .. source.version
        BY <1>1, <2>2
      <4> QED
        BY <2>1, <4>1 DEF VersionsAreAudited
    <3> QED
      BY <1>2, <2>1, <2>2, <3>1
  <2>3. CASE v # source.version + 1
    <3>1. v \in 2 .. source.version
      BY <1>1, <1>3, <2>3
    <3> QED
      BY <1>2, <2>1, <2>3, <3>1 DEF VersionsAreAudited
  <2> QED
    BY <2>2, <2>3
<1>4. ASSUME NEW v \in 2 .. target'.version
      PROVE  <<"monitor.activated", v>> \in audit'
  BY <1>4 DEF VersionsAreAudited
<1>5. ASSUME NEW v \in Nat
      PROVE  /\ <<"source.approval_decided", v>> \in audit' => v \in 2 .. source'.version
             /\ <<"connector.activated", v>> \in audit' => v \in 2 .. source'.version
             /\ <<"monitor.activated", v>> \in audit' => v \in 2 .. target'.version
  <2>1. source.version + 1 \in 2 .. source'.version /\ (v \in 2 .. source.version => v \in 2 .. source'.version)
    BY <1>1
  <2> QED
    BY <1>2, <2>1 DEF VersionsAreAudited
<1> QED
  BY <1>3, <1>4, <1>5 DEF VersionsAreAudited

\* The two updates of a source make a row of a row.
LEMMA VersionedRow ==
  ASSUME NEW r \in SourceRow
  PROVE  /\ \A status \in Decisions :
              LET s == [r EXCEPT !.status = status, !.version = r.version + 1]
              IN  s \in SourceRow /\ s.version = r.version + 1 /\ s.status = status
         /\ LET s == [r EXCEPT !.version = r.version + 1]
            IN  s \in SourceRow /\ s.version = r.version + 1 /\ s.status = r.status
<1>1. r.version + 1 \in Nat \ {0}
  BY DEF SourceRow
<1> QED
  BY <1>1 DEF SourceRow

LEMMA DecisionKeeps ==
  ASSUME ConsoleInvariant, Decides, cached' = cached
  PROVE  ConsoleInvariant'
<1> PICK decision \in Decisions, scopes \in SUBSET Scopes, expires \in 1 .. MaxTime :
      Decided(decision, scopes, expires)
  BY DEF Decides
<1> USE DEF ConsoleInvariant
<1>1. /\ source' = [source EXCEPT !.status = decision, !.version = source.version + 1]
      /\ approval' = [decision |-> decision, scopes |-> scopes, decided |-> now, expires |-> expires]
      /\ audit' = audit \cup {<<"source.approval_decided", source.version + 1>>}
      /\ target' = target
  BY DEF Decided
<1>2. source' \in SourceRow /\ source'.version = source.version + 1 /\ source'.status = decision
  BY <1>1, VersionedRow DEF ConsoleTypeOK
<1>3. ConsoleTypeOK'
  BY <1>1, <1>2 DEF ConsoleTypeOK
<1>4. CopiesAreOld'
  BY <1>1, <1>2, CopiesStayOld
<1>5. StatusIsDecided'
  BY <1>1, <1>2 DEF StatusIsDecided
<1>6. VersionsAreAudited'
  BY <1>1, <1>2, SourceAudited
<1> QED
  BY <1>3, <1>4, <1>5, <1>6

LEMMA ConnectorKeeps ==
  ASSUME ConsoleInvariant, ConnectorActivated, cached' = cached
  PROVE  ConsoleInvariant'
<1> USE DEF ConsoleInvariant
<1>1. /\ source' = [source EXCEPT !.version = source.version + 1]
      /\ audit' = audit \cup {<<"connector.activated", source.version + 1>>}
      /\ target' = target /\ approval' = approval
  BY DEF ConnectorActivated
<1>2. /\ source' \in SourceRow /\ source'.version = source.version + 1
      /\ source'.status = source.status
  BY <1>1, VersionedRow DEF ConsoleTypeOK
<1>3. ConsoleTypeOK'
  BY <1>1, <1>2 DEF ConsoleTypeOK
<1>4. CopiesAreOld'
  BY <1>1, <1>2, CopiesStayOld
<1>5. StatusIsDecided'
  BY <1>1, <1>2 DEF StatusIsDecided
<1>6. VersionsAreAudited'
  BY <1>1, <1>2, SourceAudited
<1> QED
  BY <1>3, <1>4, <1>5, <1>6

LEMMA MonitorKeeps ==
  ASSUME ConsoleInvariant, MonitorActivated, cached' = cached
  PROVE  ConsoleInvariant'
<1> USE DEF ConsoleInvariant
<1>1. /\ target' = [status |-> "approved", baseline |-> target.baseline + 1, version |-> target.version + 1]
      /\ audit' = audit \cup {<<"monitor.activated", target.version + 1>>}
      /\ source' = source /\ approval' = approval
  BY DEF MonitorActivated
<1>2. target.version \in Nat \ {0} /\ target.baseline \in Nat /\ source.version \in Nat \ {0}
  BY DEF ConsoleTypeOK, TargetRow, SourceRow
<1>3. target' \in TargetRow /\ target'.version = target.version + 1
  BY <1>1, <1>2 DEF TargetRow
<1>4. ConsoleTypeOK'
  BY <1>1, <1>3 DEF ConsoleTypeOK
<1>5. CopiesAreOld'
  BY <1>1, <1>3, CopiesStayOld
<1>6. StatusIsDecided'
  BY <1>1 DEF StatusIsDecided
<1>7. VersionsAreAudited'
  <2>1. ASSUME NEW v \in Nat, NEW a
        PROVE  <<a, v>> \in audit' <=>
                 <<a, v>> \in audit \/ (a = "monitor.activated" /\ v = target.version + 1)
    BY <1>1
  <2>2. ASSUME NEW v \in 2 .. source.version
        PROVE  <<"source.approval_decided", v>> \in audit' <=> <<"connector.activated", v>> \notin audit'
    BY <1>2, <2>1 DEF VersionsAreAudited
  <2>3. ASSUME NEW v \in 2 .. target'.version
        PROVE  <<"monitor.activated", v>> \in audit'
    <3>1. v \in Nat /\ (v = target.version + 1 \/ v \in 2 .. target.version)
      BY <1>2, <1>3
    <3> QED
      BY <2>1, <3>1 DEF VersionsAreAudited
  <2>4. ASSUME NEW v \in Nat
        PROVE  /\ <<"source.approval_decided", v>> \in audit' => v \in 2 .. source.version
               /\ <<"connector.activated", v>> \in audit' => v \in 2 .. source.version
               /\ <<"monitor.activated", v>> \in audit' => v \in 2 .. target'.version
    <3>1. target.version + 1 \in 2 .. target'.version
          /\ (v \in 2 .. target.version => v \in 2 .. target'.version)
      BY <1>2, <1>3
    <3> QED
      BY <2>1, <3>1 DEF VersionsAreAudited
  <2> QED
    BY <1>1, <2>2, <2>3, <2>4 DEF VersionsAreAudited
<1> QED
  BY <1>4, <1>5, <1>6, <1>7

\* A query returns the rows as they are, so its copy is the row.
LEMMA LoadKeeps ==
  ASSUME ConsoleInvariant, Nothing, cached' = cached \/ \E p \in Pages : Load(p)
  PROVE  ConsoleInvariant'
<1> USE DEF ConsoleInvariant
<1>1. source' = source /\ target' = target /\ approval' = approval /\ audit' = audit
  BY DEF Nothing
<1>2. StatusIsDecided' /\ VersionsAreAudited'
  BY <1>1 DEF StatusIsDecided, VersionsAreAudited
<1>3. CASE cached' = cached
  BY <1>1, <1>2, <1>3, CopiesStayOld DEF ConsoleTypeOK
<1>4. ASSUME NEW p \in Pages, Load(p)
      PROVE  ConsoleInvariant'
  <2>1. cached' = [cached EXCEPT ![p] = [source |-> source, target |-> target]]
    BY <1>4 DEF Load
  <2>2. ConsoleTypeOK'
    BY <1>1, <2>1 DEF ConsoleTypeOK
  <2>3. ASSUME NEW q \in Pages, cached'[q] # None
        PROVE  OlderCopy(cached'[q].source, source) /\ OlderCopy(cached'[q].target, target)
    <3>1. CASE q = p
      <4>1. cached'[q] = [source |-> source, target |-> target]
        BY <2>1, <3>1 DEF ConsoleTypeOK
      <4>2. source.version \in Nat /\ target.version \in Nat
        BY DEF ConsoleTypeOK, SourceRow, TargetRow
      <4> QED
        BY <4>1, <4>2 DEF OlderCopy
    <3>2. CASE q # p
      BY <2>1, <2>3, <3>2 DEF ConsoleTypeOK, CopiesAreOld
    <3> QED
      BY <3>1, <3>2
  <2>4. CopiesAreOld'
    BY <1>1, <2>3 DEF CopiesAreOld, OlderCopy
  <2> QED
    BY <1>2, <2>2, <2>4
<1> QED
  BY <1>3, <1>4

----------------------------------------------------------------------------
(* Theorems *)

\* In every state the copies of the pages are old, the status is what was decided last and the
\* audit has one entry for each version.
THEOREM ConsoleCorrect == Spec => []ConsoleInvariant
<1>1. Init => ConsoleInvariant
  <2> SUFFICES ASSUME Init PROVE ConsoleInvariant
    OBVIOUS
  <2>1. source \in SourceRow /\ source.version = 1
    BY DEF Init, SourceRow
  <2>2. target \in TargetRow /\ target.version = 1
    BY DEF Init, TargetRow
  <2>3. cached = [p \in Pages |-> None] /\ approval = None /\ audit = {}
    BY DEF Init
  <2>4. ConsoleTypeOK
    BY <2>1, <2>2, <2>3 DEF ConsoleTypeOK
  <2>5. CopiesAreOld /\ StatusIsDecided
    BY <2>3 DEF CopiesAreOld, StatusIsDecided
  <2>6. VersionsAreAudited
    BY <2>1, <2>2, <2>3 DEF VersionsAreAudited
  <2> QED
    BY <2>4, <2>5, <2>6 DEF ConsoleInvariant
<1>2. ConsoleInvariant /\ [Next]_vars => ConsoleInvariant'
  BY Steps, DecisionKeeps, ConnectorKeeps, MonitorKeeps, LoadKeeps
<1> QED
  BY <1>1, <1>2, PTL DEF Spec

\* Each version of the source and of the target has its audit entry, for any number of them.
THEOREM VersionsHaveTheirAudit == Spec => []VersionsAreAudited
<1>1. ConsoleInvariant => VersionsAreAudited
  BY DEF ConsoleInvariant
<1> QED
  BY <1>1, ConsoleCorrect, PTL

\* However old a page is, what it changes is the row it has shown.
THEOREM StalePagesAreRefused == Spec => PagesActOnWhatTheyShow
<1>1. ASSUME ConsoleInvariant, NEW p \in Pages, PageNext(p)
      PROVE  /\ source' # source => cached[p].source = source
             /\ target' # target => cached[p].target = target
  <2>1. CASE Nothing
    BY <2>1 DEF Nothing
  <2>2. CASE Decides /\ cached[p] # None /\ cached[p].source.version = source.version
    <3>1. target' = target
      BY <2>2 DEF Decides, Decided
    <3> QED
      BY <1>1, <2>2, <3>1 DEF ConsoleInvariant, CopiesAreOld, OlderCopy
  <2>3. CASE MonitorActivated /\ cached[p] # None /\ cached[p].target.version = target.version
    <3>1. source' = source
      BY <2>3 DEF MonitorActivated
    <3> QED
      BY <1>1, <2>3, <3>1 DEF ConsoleInvariant, CopiesAreOld, OlderCopy
  <2> QED
    BY <1>1, <2>1, <2>2, <2>3, PageSteps
<1>2. ConsoleInvariant =>
        [\A p \in Pages : PageNext(p) =>
           /\ source' # source => cached[p].source = source
           /\ target' # target => cached[p].target = target]_vars
  BY <1>1
<1> QED
  BY <1>2, ConsoleCorrect, PTL DEF Spec, PagesActOnWhatTheyShow

\* No connector can be activated with the form of the review page.
THEOREM ConnectorFormsAreRefused == Spec => ConnectorFormIsRefused
<1>1. [\A p \in Pages : ActivateConnector(p) => UNCHANGED <<source, approval, target, audit>>]_vars
  BY ConnectorRefused DEF Nothing
<1> QED
  BY <1>1, PTL DEF ConnectorFormIsRefused

=============================================================================
