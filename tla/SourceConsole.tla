---------------------------- MODULE SourceConsole ----------------------------
(***************************************************************************)
(* The administration of one source and its monitor: the review and target  *)
(* pages of the admin console, the routes they call, and the repository     *)
(* behind them.  Other administrators call the same routes with the SDK.    *)
(*                                                                          *)
(* A form is what each of its fields holds: nothing, something the route    *)
(* would refuse, or something it accepts.  The page's own checks and the    *)
(* route's are separate operators, since nothing makes them agree.          *)
(***************************************************************************)
EXTENDS Naturals

CONSTANTS Pages, Groups, MaxVersion, MaxTime, None

VARIABLES
  now,
  source,    \* source_definition: status, group and version
  approval,  \* the latest decision: scope and validity, None before the first
  target,    \* monitor_target: activation, baseline and version
  cached,    \* what each page's queries returned last: [source, target]
  form,      \* each review page's connector form
  answer,    \* what the last mutation of each page came to
  audit      \* the actions of audit_entry with the version they led to

vars == <<now, source, approval, target, cached, form, answer, audit>>

Scopes == {"connector-observation", "quality-monitoring"}
Values == {"empty", "refused", "accepted"}
FormFields == {"connector_id", "code_version", "endpoint", "cadence_seconds",
               "fixture_evidence_url", "live_probe_evidence_url", "reason"}
Blank == [f \in FormFields |-> "empty"]

Init ==
  /\ now = 0 /\ approval = None /\ audit = {}
  /\ source \in [status : {"pending"}, group : Groups \cup {None}, version : {1}]
  /\ target = [status |-> "specified_pending_approval", baseline |-> 0, version |-> 1]
  /\ cached = [p \in Pages |-> None]
  /\ form = [p \in Pages |-> Blank] /\ answer = [p \in Pages |-> None]

-----------------------------------------------------------------------------
(* The repository; where the two differ, PostgreSQL's *)

Effective(scope) ==
  /\ approval # None /\ approval.decision \in {"approved", "restricted"}
  /\ scope \in approval.scopes /\ approval.decided <= now /\ now < approval.expires

\* A decision; the source then lists the uses it allows.
Decided(decision, scopes, expires) ==
  /\ approval' = [decision |-> decision, scopes |-> scopes, decided |-> now, expires |-> expires]
  /\ source' = [source EXCEPT !.status = decision, !.version = source.version + 1]
  /\ audit' = audit \cup {<<"source.approval_decided", source.version + 1>>}
  /\ UNCHANGED target

MayActivateMonitor(version) == version = target.version /\ Effective("quality-monitoring")
MonitorActivated ==
  /\ target' = [status |-> "approved", baseline |-> target.baseline + 1, version |-> target.version + 1]
  /\ audit' = audit \cup {<<"monitor.activated", target.version + 1>>}
  /\ UNCHANGED <<source, approval>>

MayActivateConnector(group, version) ==
  version = source.version /\ source.group = group /\ Effective("connector-observation")
ConnectorActivated ==
  /\ source' = [source EXCEPT !.version = source.version + 1]
  /\ audit' = audit \cup {<<"connector.activated", source.version + 1>>}
  /\ UNCHANGED <<approval, target>>

Nothing == UNCHANGED <<source, approval, target, audit>>

-----------------------------------------------------------------------------
(* The routes: a body is parsed, keys it does not know are dropped, and the  *)
(* repository is called; a body that does not parse is answered 400.         *)

DecisionParses(expires) == expires > now
MonitorParses(body) == body.fields = "accepted" /\ body.shape = "record of strings"

ConnectorKeys ==
  {"connector_id", "source_group_id", "code_version", "recipe_reference", "cadence_seconds",
   "fixture_evidence_url", "live_probe_evidence_url", "reason"}
\* An accepted recipe_reference is the source's own identifier and names a recipe of the registry
\* that can be executed and declares the parameters given (the form's fields hold none).
ConnectorParses(body) == \A k \in ConnectorKeys : k \in DOMAIN body /\ body[k] \notin {"empty", "refused"}

DecisionAccepted(expires, version) == DecisionParses(expires) /\ version = source.version
MonitorAccepted(body, version) == MonitorParses(body) /\ MayActivateMonitor(version)
ConnectorAccepted(body, version) ==
  ConnectorParses(body) /\ MayActivateConnector(body["source_group_id"], version)

Bounded == source.version < MaxVersion /\ target.version < MaxVersion

\* A mutation of a page does what its route does, or fails and changes nothing.
Mutation(p, name, accepted, Effect) ==
  /\ Bounded
  /\ IF accepted THEN Effect ELSE Nothing
  /\ answer' = [answer EXCEPT ![p] = <<name, IF accepted THEN "success" ELSE "error">>]
  /\ UNCHANGED <<now, cached, form>>

-----------------------------------------------------------------------------
(* The pages *)

Load(p) ==
  /\ cached' = [cached EXCEPT ![p] = [source |-> source, target |-> target]]
  /\ UNCHANGED <<now, source, approval, target, form, answer, audit>>

SourceApproved(p) == cached[p].source.status \in {"approved", "restricted"}

\* "Approve source" asks for both uses, to the end of the day chosen.
ApproveSource(p, expires) ==
  /\ cached[p] # None
  /\ Mutation(p, "approval", DecisionAccepted(expires, cached[p].source.version),
              Decided("approved", Scopes, expires))

\* The section is there when the source is approved and has a group.
ConnectorSection(p) == cached[p] # None /\ SourceApproved(p) /\ cached[p].source.group # None

\* Nothing reads the form while it is being filled in, so that is one step.
Fill(p, values) ==
  /\ ConnectorSection(p) /\ form[p] = Blank
  /\ form' = [form EXCEPT ![p] = values]
  /\ UNCHANGED <<now, source, approval, target, cached, answer, audit>>

\* The button: an endpoint must be HTTPS and a cadence positive, the rest only given.
ConnectorComplete(p) ==
  /\ \A f \in FormFields : form[p][f] # "empty"
  /\ form[p]["endpoint"] = "accepted"

ConnectorBody(p) ==
  [k \in FormFields \cup {"source_group_id"} |->
     IF k = "source_group_id" THEN cached[p].source.group ELSE form[p][k]]

ActivateConnector(p) ==
  /\ ConnectorSection(p) /\ ConnectorComplete(p)
  /\ Mutation(p, "connector", ConnectorAccepted(ConnectorBody(p), cached[p].source.version),
              ConnectorActivated)

\* The target page offers targets that are not approved, of sources that are.
Offered(p) == cached[p] # None /\ SourceApproved(p) /\ cached[p].target.status # "approved"

\* Its shape is any JSON object, where the route wants a record of strings.
ActivateMonitor(p, shape) ==
  /\ Offered(p)
  /\ LET body == [fields |-> "accepted", shape |-> shape]
         accepted == shape # "not an object" /\ MonitorAccepted(body, cached[p].target.version)
     IN  Mutation(p, "monitor", accepted, MonitorActivated)

-----------------------------------------------------------------------------
(* Other callers *)

CallDecide(decision, scopes, expires) ==
  /\ Bounded /\ DecisionAccepted(expires, source.version)
  /\ Decided(decision, scopes, expires)
  /\ UNCHANGED <<now, cached, form, answer>>

CallActivateConnector(group) ==
  LET body == [k \in ConnectorKeys |-> IF k = "source_group_id" THEN group ELSE "accepted"] IN
  /\ Bounded /\ ConnectorAccepted(body, source.version)
  /\ ConnectorActivated
  /\ UNCHANGED <<now, cached, form, answer>>

CallActivateMonitor ==
  /\ Bounded /\ MonitorAccepted([fields |-> "accepted", shape |-> "record of strings"], target.version)
  /\ MonitorActivated
  /\ UNCHANGED <<now, cached, form, answer>>

Tick == now < MaxTime /\ now' = now + 1
        /\ UNCHANGED <<source, approval, target, cached, form, answer, audit>>

PageNext(p) ==
  \/ Load(p)
  \/ \E expires \in 1 .. MaxTime : ApproveSource(p, expires)
  \/ \E values \in [FormFields -> Values] : Fill(p, values)
  \/ ActivateConnector(p)
  \/ \E shape \in {"not an object", "object", "record of strings"} : ActivateMonitor(p, shape)

Next ==
  \/ \E p \in Pages : PageNext(p)
  \/ \E decision \in {"approved", "restricted", "rejected", "revoked"},
        scopes \in SUBSET Scopes \ {{}}, expires \in 1 .. MaxTime : CallDecide(decision, scopes, expires)
  \/ \E group \in Groups : CallActivateConnector(group)
  \/ CallActivateMonitor
  \/ Tick
Spec == Init /\ [][Next]_vars

-----------------------------------------------------------------------------
\* When "Activate connector" fails, one of the four things the page tells the administrator
\* to recheck is the cause: the approval, the group, the evidence or the version.  Asked of
\* forms whose other fields the route accepts.
ActivationFailsAsTold ==
  [][\A p \in Pages :
       /\ answer'[p] = <<"connector", "error">> /\ answer' # answer
       /\ \A f \in FormFields : form[p][f] = "accepted"
       => \/ ~Effective("connector-observation")
          \/ source.group # cached[p].source.group
          \/ source.version # cached[p].source.version]_vars

=============================================================================
