------------------------------ MODULE Incidents ------------------------------
(***************************************************************************)
(* Incidents from observation to public wording: workers that file failing  *)
(* checks, administrators who acknowledge, suppress, resolve, publish and   *)
(* correct through versioned requests, and the incident page of the admin   *)
(* console, which acts on the first row of a list it fetched earlier.       *)
(*                                                                          *)
(* The monitors share one source and fail the same check: the worker's      *)
(* lookup keeps other sources and categories apart.  A worker's lookup and  *)
(* its write are two statements of one transaction, and nothing locks the   *)
(* incident between them; an administrator's transition is one step because *)
(* it holds the row from its SELECT FOR UPDATE to its commit.  A request    *)
(* carries what the list said when it was sent, and a list only grows older *)
(* until it is fetched again, so sending and serving it are one step too.   *)
(***************************************************************************)
EXTENDS Naturals, FiniteSets, FiniteSetsExt

CONSTANTS
  Ids,             \* incident ids, in the order lists are sorted by
  Monitors, Workers, Operators,
  Wordings,        \* bilingual wordings an operator may type
  MaxObservations, MaxVersion,
  None             \* no row, no request, no wording

Statuses == {"candidate", "open", "acknowledged", "suppressed", "resolved"}
Rows == [status : Statuses, monitors : SUBSET Monitors, observations : SUBSET (1 .. MaxObservations),
         last : 1 .. MaxObservations, version : Nat \ {0},
         public : {"review_required", "published", "corrected"}, wording : Wordings \cup {None}]

IncidentsAssumption ==
  /\ MaxObservations \in Nat /\ MaxVersion \in Nat
  /\ None \notin Ids /\ None \notin Wordings /\ None \notin Rows
ASSUME IncidentsAssumption

VARIABLES
  passed,   \* [monitor_observation id -> its monitor] for outcome = 'pass'
  clock,    \* ids of observations count up with the time they were made at
  row,      \* incident
  audit,    \* audit_entry rows of incidents
  work,     \* what each worker's open transaction has read
  list,     \* each operator's cached list of incidents
  shown,    \* history: <<incident, wording>> that have been public
  replaced, \* history: <<incident, corrected wording>> that a caller published anew over
  filed,    \* history: <<observation, incident>> a worker has written
  raced     \* history: some worker wrote what it had read before a change

observed == <<passed, clock>>
vars == <<observed, row, audit, work, list, shown, replaced, filed, raced>>

Init ==
  /\ passed = <<>> /\ clock = 0
  /\ row = [i \in Ids |-> None] /\ audit = {}
  /\ work = [w \in Workers |-> None]
  /\ list = [p \in Operators |-> row]
  /\ shown = {} /\ replaced = {} /\ filed = {} /\ raced = FALSE

Known(rows) == {i \in DOMAIN rows : rows[i] # None}
With(f, x, y) == [z \in DOMAIN f \cup {x} |-> IF z = x THEN y ELSE f[z]]

-----------------------------------------------------------------------------
(* The worker *)

Live == {"candidate", "open", "acknowledged", "monitoring"}
LiveUnlessOwned == Live \ {"acknowledged"}
Active(rows, states) == {i \in Known(rows) : rows[i].status \in states}
LatestOf(rows, ids) == IF ids = {} THEN None ELSE CHOOSE i \in ids : \A j \in ids : rows[j].last <= rows[i].last

\* The latest incident that is not settled; one mutant of it forgets the acknowledged.
LookupUnowned(rows) == LatestOf(rows, Active(rows, LiveUnlessOwned))
Lookup(rows) == LatestOf(rows, Active(rows, Live))

\* A check that passes leaves an observation only: nothing here resolves an incident.
Pass(w, m) ==
  /\ work[w] = None /\ clock < MaxObservations
  /\ clock' = clock + 1
  /\ passed' = With(passed, clock', m)
  /\ UNCHANGED <<row, audit, work, list, shown, replaced, filed, raced>>

\* A failing check: the observation is inserted and the incident looked up.
Fail(w, m, critical) ==
  /\ work[w] = None /\ clock < MaxObservations
  /\ clock' = clock + 1
  /\ work' = [work EXCEPT ![w] =
       [observation |-> clock', monitor |-> m, critical |-> critical, found |-> Lookup(row),
        seen |-> IF Lookup(row) = None THEN None ELSE row[Lookup(row)]]]
  /\ UNCHANGED <<passed, row, audit, list, shown, replaced, filed, raced>>

Opened(t) ==
  [status |-> IF t.critical THEN "open" ELSE "candidate", monitors |-> {t.monitor},
   observations |-> {t.observation}, last |-> t.observation, version |-> 1,
   public |-> "review_required", wording |-> None]

\* Status and version are computed from the row as it is when the UPDATE runs, the list of
\* observations from the row as it was read.
ExtendedAfresh(r, t) == [r EXCEPT !.observations = {t.observation}, !.version = r.version + 1]
ExtendedSilently(r, t) == [r EXCEPT !.observations = t.seen.observations \cup {t.observation},
                                    !.last = t.observation]
Extended(r, t) ==
  [r EXCEPT !.status = IF r.status = "candidate" THEN "open" ELSE r.status,
            !.observations = t.seen.observations \cup {t.observation},
            !.last = t.observation, !.version = r.version + 1]

\* The rest of the transaction: an incident is inserted under a random id, or the one that
\* was found is updated, whatever has become of it.
File(w, i) ==
  LET t == work[w] IN
  /\ t # None
  /\ IF t.found = None THEN row[i] = None ELSE i = t.found
  /\ row' = [row EXCEPT ![i] = IF t.found = None THEN Opened(t) ELSE Extended(row[i], t)]
  /\ filed' = filed \cup {<<t.observation, i>>}
  /\ raced' = (raced \/ Lookup(row) # t.found \/ (t.found # None /\ row[i] # t.seen))
  /\ work' = [work EXCEPT ![w] = None]
  /\ UNCHANGED <<passed, clock, audit, list, shown, replaced>>

\* The job breaks or its worker dies: the transaction is rolled back.
RollBack(w) ==
  /\ work[w] # None
  /\ work' = [work EXCEPT ![w] = None]
  /\ UNCHANGED <<observed, row, audit, list, shown, replaced, filed, raced>>

-----------------------------------------------------------------------------
(* The administrator's transitions *)

MayAcknowledge(r) == r.status \in {"open", "candidate"}
Acknowledged(r) == [r EXCEPT !.status = "acknowledged", !.version = r.version + 1]

MaySuppress(r) == r.status # "resolved"
Suppressed(r) == [r EXCEPT !.status = "suppressed", !.version = r.version + 1]

\* Two passing observations of the incident's own monitors.
Healthy(r, evidence) ==
  /\ Cardinality(evidence) >= 2 /\ evidence \subseteq DOMAIN passed
  /\ \A o \in evidence : passed[o] \in r.monitors
MayResolve(r, evidence) == r.status # "resolved" /\ Healthy(r, evidence)
Resolved(r, evidence) ==
  [r EXCEPT !.status = "resolved", !.observations = r.observations \cup evidence,
            !.version = r.version + 1]

MayPublishAnything(r) == TRUE
MayPublish(r) == r.status # "candidate"
Published(r, text) == [r EXCEPT !.public = "published", !.wording = text, !.version = r.version + 1]

MayCorrect(r) == r.public \in {"published", "corrected"}
Corrected(r, text) == [r EXCEPT !.public = "corrected", !.wording = text, !.version = r.version + 1]

Allowed(r, q) ==
  CASE q.action = "acknowledge" -> MayAcknowledge(r)
    [] q.action = "suppress"    -> MaySuppress(r)
    [] q.action = "resolve"     -> MayResolve(r, q.evidence)
    [] q.action = "publish"     -> MayPublish(r)
    [] q.action = "correct"     -> MayCorrect(r)

Updated(r, q) ==
  CASE q.action = "acknowledge" -> Acknowledged(r)
    [] q.action = "suppress"    -> Suppressed(r)
    [] q.action = "resolve"     -> Resolved(r, q.evidence)
    [] q.action = "publish"     -> Published(r, q.wording)
    [] q.action = "correct"     -> Corrected(r, q.wording)

\* If-Match carries the version that was listed.
AnyVersion(r, listed) == TRUE
Matches(r, listed) == r.version = listed.version

\* The wording an entry keeps: the new one of a publication, the prior one of a correction.
Kept(r, q) == CASE q.action = "publish" -> q.wording [] q.action = "correct" -> r.wording [] OTHER -> None
Entry(r, p, q) ==
  [id |-> q.id, actor |-> p, version |-> Updated(r, q).version, kept |-> Kept(r, q)]

\* A request, with the version its sender's list has: the incident is locked, checked,
\* updated, audited and committed, or nothing is written.
Transition(p, q) ==
  LET r == row[q.id] IN
  /\ q.id \in Known(list[p]) /\ list[p][q.id].version < MaxVersion
  /\ Matches(r, list[p][q.id]) /\ Allowed(r, q)
  /\ row' = [row EXCEPT ![q.id] = Updated(r, q)]
  /\ audit' = audit \cup {Entry(r, p, q)}
  /\ shown' = IF q.wording = None THEN shown ELSE shown \cup {<<q.id, q.wording>>}
  /\ UNCHANGED <<observed, work, list, filed, raced>>

-----------------------------------------------------------------------------
(* The console and the client *)

\* The list is fetched on mount, on focus and after each mutation that succeeded.
Load(p) ==
  /\ list' = [list EXCEPT ![p] = row]
  /\ UNCHANGED <<observed, row, audit, work, shown, replaced, filed, raced>>

First(p) == Min(Known(list[p]))
Request(i, action, text, evidence) ==
  [id |-> i, action |-> action, wording |-> text, evidence |-> evidence]

\* The page's buttons act on the first incident of its list.
SubmitAcknowledgement(p) ==
  /\ Known(list[p]) # {}
  /\ Transition(p, Request(First(p), "acknowledge", None, {}))
  /\ UNCHANGED replaced

SubmitWording(p, text) ==
  /\ Known(list[p]) # {}
  /\ LET correcting == list[p][First(p)].public \in {"published", "corrected"} IN
       Transition(p, Request(First(p), IF correcting THEN "correct" ELSE "publish", text, {}))
  /\ UNCHANGED replaced

\* A client of the SDK sends any of the five for any incident it has listed, and may publish
\* what is published or corrected already.
Call(p, i, action, text, evidence) ==
  /\ Transition(p, Request(i, action, text, evidence))
  /\ replaced' = IF action = "publish" /\ row[i].public = "corrected"
                 THEN replaced \cup {<<i, row[i].wording>>} ELSE replaced

-----------------------------------------------------------------------------
WorkerNext(w) ==
  \/ \E m \in Monitors : Pass(w, m)
  \/ \E m \in Monitors, critical \in BOOLEAN : Fail(w, m, critical)
  \/ \E i \in Ids : File(w, i)
  \/ RollBack(w)

OperatorNext(p) ==
  \/ Load(p)
  \/ SubmitAcknowledgement(p)
  \/ \E text \in Wordings : SubmitWording(p, text)
  \/ \E i \in Ids, action \in {"acknowledge", "suppress"} : Call(p, i, action, None, {})
  \/ \E i \in Ids, evidence \in SUBSET DOMAIN passed : Call(p, i, "resolve", None, evidence)
  \/ \E i \in Ids, action \in {"publish", "correct"}, text \in Wordings : Call(p, i, action, text, {})

Next == (\E w \in Workers : WorkerNext(w)) \/ (\E p \in Operators : OperatorNext(p))
Spec == Init /\ [][Next]_vars

-----------------------------------------------------------------------------
(* Properties *)

\* Rows have their types, what a worker found existed when it looked, and a candidate has
\* no public wording: no status ever goes back to candidate.
IncidentsTypeOK ==
  /\ \A i \in Known(row) : row[i] \in Rows /\ (row[i].status = "candidate" => row[i].wording = None)
  /\ \A w \in Workers : work[w] # None /\ work[w].found # None => work[w].found \in Known(row)
  /\ \A f \in filed : f[1] \in 1 .. clock \ DOMAIN passed

\* No public wording is lost without a trace: whatever was public of an incident is public
\* still or in its audit entries, except for a correction that a client of the API knowingly
\* published over, which the code keeps nowhere.  The page, which corrects what its list calls
\* published, never does that, however old its list is.
PublicWordingRetained ==
  \A s \in shown :
    \/ row[s[1]].wording = s[2] \/ s \in replaced
    \/ \E a \in audit : a.id = s[1] /\ a.kept = s[2]

\* The failures of a source are gathered in one incident until it is settled, except where
\* two writers overlapped.
OneActiveIncident == raced \/ Cardinality(Active(row, Live)) <= 1

\* A failure that was filed stays among the observations of its incident, and a resolved
\* incident names the two passing observations it was resolved on, with the same exception.
EvidenceIsKept ==
  \/ raced
  \/ /\ \A f \in filed : f[1] \in row[f[2]].observations
     /\ \A i \in Active(row, {"resolved"}) :
          Healthy(row[i], row[i].observations \cap DOMAIN passed)

\* The expected version works: an administrator's change applies to the incident as its
\* author has seen it, though workers write to it unasked.
ActedOnAsSeen ==
  [][\A e \in audit' \ audit : row[e.id] = list[e.actor][e.id]]_vars

=============================================================================
