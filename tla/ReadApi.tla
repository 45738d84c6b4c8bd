------------------------------- MODULE ReadApi -------------------------------
(***************************************************************************)
(* The read side of the platform: a client (the SDK's listAllSources, an    *)
(* agent that follows next_cursor of an MCP tool, a console) walks a list   *)
(* page by page, reads the detail of a monitor, or asks for the status      *)
(* summary, while workers and administrators write and time passes.         *)
(*                                                                          *)
(* A page of sources, records, events or incidents is one SELECT.  Pages of *)
(* monitor targets, details and summaries are several statements without a  *)
(* transaction, so writes come in between; the memory repository answers    *)
(* each in one step, and the registries of access recipes and provider      *)
(* resources are in the memory of the API whatever the backend.             *)
(* Reads change nothing: one client at a time stands for all of them.       *)
(* Keys are numbers, in the order of the ids they stand for.                *)
(***************************************************************************)
EXTENDS Naturals, FiniteSets, SequencesExt

CONSTANTS
  SourceIds, Restricted,  \* sources, and those whose visibility is not public
  Project,                \* the sources of the project a summary may ask for
  Monitors, SourceOf,     \* monitors with their source
  IncidentIds,
  RecordIds, EventIds,    \* source records and canonical events
  RecipeIds, ResourceIds, \* the registries the API was started with
  PageMax,                \* most rows a page may have: 200
  MaxWrites,
  None

\* An incident the workers have filed.
Incident ==
  [monitor : Monitors, observations : SUBSET Nat, status : {"open", "resolved"},
   severity : {"minor", "major"}, public : BOOLEAN]

\* Lists are finite.  The first incident of an instance has the number of its monitor.
ASSUME ReadAssumption ==
  /\ \A ids \in {SourceIds, Monitors, IncidentIds, RecordIds, EventIds, RecipeIds, ResourceIds, Project} :
       ids \in SUBSET Nat /\ IsFiniteSet(ids)
  /\ Min(Monitors) \in Monitors \cap IncidentIds /\ PageMax \in Nat
  /\ None \notin Nat /\ None \notin Incident /\ None # "complete"

VARIABLES
  backend,  \* "memory" or "postgres"
  db,       \* the tables
  token,    \* whether the bearer token of a client that has one is valid
  read,     \* the read under way, with what it has fetched
  writes

vars == <<backend, db, token, read, writes>>

Filed(m, number, severity) ==
  [monitor |-> m, observations |-> {number}, status |-> "open", severity |-> severity, public |-> FALSE]

Views == {"public", "private"}
Principals == {"anonymous", "reader"}
Lists == {"sources", "records", "events", "targets", "incidents", "audit"}
Registries == {"recipes", "resources"}

\* An entry of the audit trail is of a source, an incident or a monitor.  Its id ends in the
\* version it led to, or in the memory repository it is the number of the entry.
IdRank == [source |-> 0, incident |-> 1, monitor |-> 2]
Width == 10  \* above the ids and versions of an instance
EntryKey(of, version) == (IdRank[of[1]] * Width + of[2]) * Width + version
Audited(audit, of) ==
  LET version == Cardinality({e \in audit : e[2] = of}) + 1
      key     == IF backend = "memory" THEN Cardinality(audit) + 1 ELSE EntryKey(of, version)
  IN  audit \cup {<<key, of>>}

\* The entries of a set of first decisions.
Trail(decided) ==
  {<<IF backend = "memory" THEN Cardinality({o \in decided : EntryKey(o, 1) <= EntryKey(of, 1)})
     ELSE EntryKey(of, 1), of>> : of \in decided}

\* What a deployment has behind it: nothing, or everything decided and activated, and a
\* failing check with its incident, published or not, or none.
Init ==
  /\ backend \in {"memory", "postgres"}
  /\ \E activated \in BOOLEAN, filed \in SUBSET {Min(Monitors)} : \E published \in SUBSET filed :
      LET decided == {"source"} \X SourceIds \cup {"monitor"} \X Monitors \cup {"incident"} \X published IN
      /\ filed # {} => activated
      /\ db = [source |-> [s \in SourceIds |-> IF activated THEN "approved" ELSE "pending"],
             public |-> IF activated THEN Monitors ELSE {},
             observed |-> [m \in Monitors |-> IF m \in filed THEN <<"fail">> ELSE <<>>],
             incident |-> [i \in IncidentIds |->
               IF i \in filed THEN [Filed(i, 1, "minor") EXCEPT !.public = i \in published] ELSE None],
             record |-> [r \in RecordIds |-> IF r \in filed THEN "undated" ELSE None],
             verified |-> [k \in RecipeIds |-> "current"],
             audit |-> Trail(IF activated THEN decided ELSE {})]
  /\ token = "valid" /\ read = None /\ writes = 0

Opened(d) == {i \in IncidentIds : d.incident[i] # None}
Published(d) == {i \in Opened(d) : d.incident[i].public}
Current(d) == {i \in Opened(d) : d.incident[i].status # "resolved"}

\* The latest observation by its start; "unknown" before the first.
Outcome(d, m) == IF d.observed[m] = <<>> THEN "unknown" ELSE Last(d.observed[m])

-----------------------------------------------------------------------------
(* Filters and pages *)

\* A record was observed in the range asked for, or at no time its payload tells: then the
\* memory repository goes by the time it was retrieved.
InRange(d, r) ==
  d.record[r] = "recent" \/ (backend = "memory" /\ d.record[r] = "undated")

Collected(d) == {r \in RecordIds : d.record[r] # None}
Records(d, filter) == {r \in Collected(d) : filter = None \/ InRange(d, r)}

\* No code of the platform writes canonical events.
Events == EventIds

\* The registries are fixed; only the freshness of a verification depends on the time.
Recipes(d, filter) == {k \in RecipeIds : filter \in {None, d.verified[k]}}
ProviderResources == ResourceIds

Entries(d, filter) == {e[1] : e \in {a \in d.audit : filter \in {None, a[2]}}}

VisibleSources(d, view) ==
  {s \in SourceIds : view = "private" \/ (s \notin Restricted /\ d.source[s] = "approved")}
VisibleTargets(d, view) == IF view = "private" THEN Monitors ELSE d.public
VisibleIncidents(d, view) == IF view = "private" THEN Opened(d) ELSE Published(d)

Matching(d, list, view, filter) ==
  CASE list = "sources" ->
         {s \in VisibleSources(d, view) : filter \in {None, d.source[s]}}
    [] list = "targets" ->
         {m \in VisibleTargets(d, view) : filter \in {None, Outcome(d, m)}}
    [] list = "incidents" ->
         {i \in VisibleIncidents(d, view) : filter \in {None, d.incident[i].status}}
    [] list = "records" -> Records(d, filter)
    [] list = "events" -> Events
    [] list = "audit" -> Entries(d, filter)
    [] list = "recipes" -> Recipes(d, filter)
    [] list = "resources" -> ProviderResources

Beyond(keys, after) == {k \in keys : after = None \/ k > after}
Least(keys, n) == {k \in keys : Cardinality({j \in keys : j < k}) < n}

\* All that is eligible is counted.
PageInMemory(keys, limit, after) ==
  LET eligible == Beyond(keys, after)
      selected == Least(eligible, limit)
  IN  [items |-> selected,
       next |-> IF Cardinality(selected) < Cardinality(eligible) /\ selected # {}
                THEN Max(selected) ELSE None]

\* One row more than asked for is fetched, to see whether there is one.
PageExactly(keys, limit, after) ==
  LET fetched == Least(Beyond(keys, after), limit)
  IN  [items |-> fetched, next |-> IF Cardinality(fetched) = limit THEN Max(fetched) ELSE None]
PageInPostgres(keys, limit, after) ==
  LET fetched == Least(Beyond(keys, after), limit + 1)
      selected == Least(fetched, limit)
  IN  [items |-> selected,
       next |-> IF Cardinality(fetched) > limit THEN Max(selected) ELSE None]

\* The registries look the cursor up among the rows that match: if it no longer does, they
\* begin again.
PageInRegistry(keys, limit, after) ==
  LET rest == IF after \in keys THEN Beyond(keys, after) ELSE keys
      selected == Least(rest, limit)
  IN  [items |-> selected,
       next |-> IF Cardinality(selected) < Cardinality(rest) THEN Max(selected) ELSE None]

Page(list, keys, limit, after) ==
  CASE list \in Registries -> PageInRegistry(keys, limit, after)
    [] list \in Lists /\ backend = "memory" -> PageInMemory(keys, limit, after)
    [] list \in Lists /\ backend = "postgres" -> PageInPostgres(keys, limit, after)

-----------------------------------------------------------------------------
(* Authentication: without a token a client reads the public view, where     *)
(* there is one; a token that does not verify is an error and never the      *)
(* public view.  The registries ask for none.                                *)

Guarded == {"records", "events", "audit"}
Answering(list, public) == IF list \in Guarded THEN "refused" ELSE public
AuthenticatedLeniently(principal, list) ==
  IF list \in Registries THEN "public"
  ELSE IF principal = "reader" /\ token = "valid" THEN "private" ELSE Answering(list, "public")
Authenticated(principal, list) ==
  IF list \in Registries THEN "public"
  ELSE IF principal = "anonymous" THEN Answering(list, "public")
  ELSE IF token = "valid" THEN "private" ELSE "refused"

Reading(call) == read # None /\ read.call = call /\ read.result = None
Unchanged == UNCHANGED <<backend, db, token, writes>>

-----------------------------------------------------------------------------
(* Walks *)

ViewOf(principal) == IF principal = "anonymous" THEN "public" ELSE "private"

\* The keys that may be in a page: a target is filtered after it was selected.
Possible(d, list, view, filter) == Matching(d, list, view, IF list = "targets" THEN None ELSE filter)

\* "steady", "ever" and "lost" are history: the keys that matched all the time, those that
\* could be returned at some time, and whether a page was asked for after a row that no
\* longer matched.
WalkOf(list, filter, principal, limit) ==
  [call |-> "walk", list |-> list, filter |-> filter, principal |-> principal,
   limit |-> limit, after |-> None, got |-> <<>>, rows |-> None, lost |-> FALSE,
   steady |-> Matching(db, list, ViewOf(principal), filter),
   ever |-> Possible(db, list, ViewOf(principal), filter), result |-> None]

BeginWalk(list, filter, principal, limit) ==
  /\ read = None
  /\ read' = WalkOf(list, filter, principal, limit)
  /\ Unchanged

\* Items in key order, after those of the pages before.
Ascending(keys) == CHOOSE q \in [1 .. Cardinality(keys) -> keys] :
                     \A i \in DOMAIN q, j \in DOMAIN q : i < j => q[i] < q[j]
WithPage(keys) ==
  LET page == Page(read.list, keys, read.limit, read.after) IN
  [read EXCEPT !.got = read.got \o Ascending(page.items), !.after = page.next, !.rows = None,
               !.lost = read.lost \/ (read.after # None /\ read.after \notin keys),
               !.result = IF page.next = None THEN "complete" ELSE None]

NextPage ==
  LET view == Authenticated(read.principal, read.list) IN
  /\ Reading("walk") /\ view # "refused"
  /\ backend = "memory" \/ read.list # "targets"
  /\ read' = WithPage(Matching(db, read.list, view, read.filter))
  /\ Unchanged

\* A page that is too large for a tool's answer: the agent asks for fewer rows after the same
\* cursor.
Reduce ==
  /\ Reading("walk") /\ read.rows = None /\ read.limit > 1
  /\ read' = [read EXCEPT !.limit = read.limit - 1]
  /\ Unchanged

\* Targets are selected first and filtered by their latest outcome afterwards.
SelectTargets ==
  LET view == Authenticated(read.principal, "targets") IN
  /\ Reading("walk") /\ view # "refused" /\ backend = "postgres"
  /\ read.list = "targets" /\ read.rows = None
  /\ read' = [read EXCEPT !.rows = VisibleTargets(db, view)]
  /\ Unchanged

FilterTargets ==
  /\ Reading("walk") /\ read.rows # None
  /\ read' = WithPage({m \in read.rows : read.filter \in {None, Outcome(db, m)}})
  /\ Unchanged

-----------------------------------------------------------------------------
(* Details and summaries: a row or a set of rows per statement.  The memory   *)
(* repository takes all the steps at once.                                    *)

\* The newest observations, by number, newest first.
Newest(m, limit) ==
  LET n == Len(db.observed[m]) IN
  [k \in 1 .. (IF n < limit THEN n ELSE limit) |-> n + 1 - k]
IncidentsOf(m, view) ==
  {[id |-> i, observations |-> db.incident[i].observations] :
     i \in {j \in VisibleIncidents(db, view) : db.incident[j].monitor = m}}

DetailOf(m, view, limit) ==
  [call |-> "detail", monitor |-> m, view |-> view, limit |-> limit, at |-> "observations",
   observations |-> <<>>, incidents |-> {}, latest |-> 0, result |-> None]

\* The observations are read before the incidents they belong to, and the outcome last.
DetailStepLatestFirst(r) ==
  CASE r.at = "observations" -> [r EXCEPT !.latest = Len(db.observed[r.monitor]), !.at = "incidents"]
    [] r.at = "incidents" -> [r EXCEPT !.incidents = IncidentsOf(r.monitor, r.view), !.at = "latest"]
    [] r.at = "latest" -> [r EXCEPT !.observations = Newest(r.monitor, r.limit), !.result = "complete"]
DetailStep(r) ==
  CASE r.at = "observations" ->
         [r EXCEPT !.observations = Newest(r.monitor, r.limit), !.at = "incidents"]
    [] r.at = "incidents" ->
         [r EXCEPT !.incidents = IncidentsOf(r.monitor, r.view), !.at = "latest"]
    [] r.at = "latest" ->
         [r EXCEPT !.latest = Len(db.observed[r.monitor]), !.result = "complete"]

\* Incidents that are current and public, and sources with a public target.
PublicNow(d) == Published(d) \cap Current(d)
SourcesShown(d, project) ==
  {s \in {SourceOf[m] : m \in d.public} : project = None \/ s \in project}
Lasting(d, project) ==
  {i \in PublicNow(d) : SourceOf[d.incident[i].monitor] \in SourcesShown(d, project)}

\* A summary has no cursor: PostgreSQL leaves out what is beyond the first page of each list.
Fits(d, project) ==
  \/ backend = "memory"
  \/ /\ Cardinality(d.public) <= PageMax /\ Cardinality(Published(d)) <= PageMax
     /\ project = None \/ Cardinality(project) <= PageMax
FirstPage(keys) == IF backend = "memory" THEN keys ELSE Least(keys, PageMax)

SummaryOf(project) ==
  [call |-> "summary", project |-> project, at |-> "targets", targets |-> {}, outcomes |-> {},
   incidents |-> {}, overall |-> None, result |-> None, fits |-> Fits(db, project),
   steady |-> Lasting(db, project), ever |-> PublicNow(db), shown |-> SourcesShown(db, project)]

OverallOfTargets(outcomes, severities) ==
  IF "major" \in severities THEN "major_outage"
  ELSE IF "fail" \in outcomes THEN "degraded"
  ELSE IF outcomes = {} THEN "unknown" ELSE "operational"
Overall(outcomes, severities) ==
  IF "major" \in severities THEN "major_outage"
  ELSE IF severities # {} \/ "fail" \in outcomes THEN "degraded"
  ELSE IF outcomes = {} THEN "unknown" ELSE "operational"

SummaryStep(r) ==
  CASE r.at = "targets" ->
         [r EXCEPT !.at = "outcomes",
           !.targets = {m \in FirstPage(db.public) : r.project = None
                          \/ SourceOf[m] \in FirstPage(r.project)}]
    [] r.at = "outcomes" ->
         [r EXCEPT !.at = "incidents", !.outcomes = {Outcome(db, m) : m \in r.targets}]
    [] r.at = "incidents" ->
         LET current == {i \in FirstPage(Published(db)) \cap Current(db) :
                           SourceOf[db.incident[i].monitor] \in {SourceOf[m] : m \in r.targets}}
         IN [r EXCEPT !.incidents = current, !.result = "complete",
                      !.overall = Overall(r.outcomes, {db.incident[i].severity : i \in current})]

ReadStep(r) == IF r.call = "detail" THEN DetailStep(r) ELSE SummaryStep(r)
Begun(r) == IF backend = "memory" THEN ReadStep(ReadStep(ReadStep(r))) ELSE r

BeginDetail(m, principal, limit) ==
  LET view == Authenticated(principal, "targets") IN
  /\ read = None /\ view # "refused" /\ m \in VisibleTargets(db, view)
  /\ read' = Begun(DetailOf(m, view, limit))
  /\ Unchanged

BeginSummary(project) ==
  /\ read = None
  /\ read' = Begun(SummaryOf(project))
  /\ Unchanged

Continue ==
  /\ Reading("detail") \/ Reading("summary")
  /\ read' = ReadStep(read)
  /\ Unchanged

\* The client has its answer, or a request was refused (its token, the rate limit, a
\* timeout) and the whole read throws.
EndRead ==
  /\ read # None
  /\ read' = None
  /\ Unchanged

-----------------------------------------------------------------------------
(* Writers; the memory repository has no workers *)

\* What a write does to the history of a read under way.
Watched(d) ==
  IF read = None \/ read.result # None \/ read.call = "detail" THEN read
  ELSE IF read.call = "walk"
  THEN LET view == ViewOf(read.principal) IN
       [read EXCEPT !.steady = read.steady \cap Matching(d, read.list, view, read.filter),
                    !.ever = read.ever \cup Possible(d, read.list, view, read.filter)]
  ELSE [read EXCEPT !.steady = read.steady \cap Lasting(d, read.project),
                    !.ever = read.ever \cup PublicNow(d),
                    !.shown = read.shown \cup SourcesShown(d, read.project),
                    !.fits = read.fits /\ Fits(d, read.project)]

Write(d) ==
  /\ writes < MaxWrites
  /\ db' = d /\ read' = Watched(d) /\ writes' = writes + 1
  /\ UNCHANGED <<backend, token>>

\* What an administrator does is audited in the same transaction.
Decide(s, decision) ==
  Write([db EXCEPT !.source[s] = decision, !.audit = Audited(db.audit, <<"source", s>>)])
ActivateTarget(m, public) ==
  Write([db EXCEPT !.public = IF public THEN db.public \cup {m} ELSE db.public \ {m},
                   !.audit = Audited(db.audit, <<"monitor", m>>)])
Publish(i) ==
  /\ i \in Opened(db)
  /\ Write([db EXCEPT !.incident[i].public = TRUE, !.audit = Audited(db.audit, <<"incident", i>>)])
Resolve(i) ==
  /\ i \in Current(db)
  /\ Write([db EXCEPT !.incident[i].status = "resolved", !.audit = Audited(db.audit, <<"incident", i>>)])

\* An observation and the incident it opens or joins are one transaction.
Passed(m) == backend = "postgres" /\ Write([db EXCEPT !.observed[m] = Append(db.observed[m], "pass")])
Failed(m, i, severity) ==
  LET active == {j \in Current(db) : db.incident[j].monitor = m}
      number == Len(db.observed[m]) + 1
      entry  == IF active = {}
                THEN Filed(m, number, severity)
                ELSE [db.incident[i] EXCEPT !.observations = db.incident[i].observations \cup {number}]
  IN  /\ backend = "postgres"
      /\ IF active = {} THEN db.incident[i] = None ELSE i \in active
      /\ Write([db EXCEPT !.observed[m] = Append(db.observed[m], "fail"), !.incident[i] = entry])

\* A connector publishes a record; the time it was observed at may be in the payload or not.
Collect(r, observed) ==
  backend = "postgres" /\ db.record[r] = None /\ Write([db EXCEPT !.record[r] = observed])

\* Time passes the end of a verification's validity.
Lapse(k) == db.verified[k] = "current" /\ Write([db EXCEPT !.verified[k] = "stale"])

Expire ==
  /\ token = "valid" /\ token' = "expired"
  /\ UNCHANGED <<backend, db, read, writes>>

-----------------------------------------------------------------------------
Filters(list) ==
  {None} \cup CASE list = "sources" -> {"approved"} [] list = "targets" -> {"fail"}
                [] list = "incidents" -> {"open"} [] list = "records" -> {"recent"}
                [] list = "recipes" -> {"current", "stale"}
                [] list = "audit" -> {<<"source", Min(SourceIds)>>} [] OTHER -> {}

ClientNext ==
  \/ \E list \in Lists \cup Registries, principal \in Principals, limit \in 1 .. PageMax :
       \E filter \in Filters(list) : BeginWalk(list, filter, principal, limit)
  \/ NextPage \/ Reduce \/ SelectTargets \/ FilterTargets
  \/ \E m \in Monitors, principal \in Principals, limit \in 1 .. PageMax :
       BeginDetail(m, principal, limit)
  \/ \E project \in {None, Project} : BeginSummary(project)
  \/ Continue
  \/ EndRead

WriterNext ==
  \/ \E s \in SourceIds, decision \in {"approved", "revoked"} : Decide(s, decision)
  \/ \E m \in Monitors, public \in BOOLEAN : ActivateTarget(m, public)
  \/ \E i \in IncidentIds : Publish(i) \/ Resolve(i)
  \/ \E m \in Monitors : Passed(m)
  \/ \E m \in Monitors, i \in IncidentIds, severity \in {"minor", "major"} : Failed(m, i, severity)
  \/ \E r \in RecordIds, observed \in {"recent", "undated"} : Collect(r, observed)
  \/ \E k \in RecipeIds : Lapse(k)
  \/ Expire

Next == ClientNext \/ WriterNext
Spec == Init /\ [][Next]_vars

-----------------------------------------------------------------------------
(* Properties *)

Done(call) == read # None /\ read.call = call /\ read.result = "complete"

\* A walk that ends has returned every row that matched from its first page to its last,
\* none twice, in order, and none that this caller could never see, whatever was written
\* meanwhile; only a registry may begin again, if the recipe a page ended with no longer
\* matches the filter (access-registry.ts).
WalkIsExact ==
  Done("walk") =>
    /\ read.steady \subseteq {read.got[k] : k \in DOMAIN read.got}
    /\ {read.got[k] : k \in DOMAIN read.got} \subseteq read.ever
    /\ (read.list = "recipes" /\ read.lost) \/ \A j, k \in DOMAIN read.got : j < k => read.got[j] < read.got[k]

\* The two repositories cut the same rows into the same pages; asked between reads, which
\* leave the tables alone.
BackendsAgree ==
  read = None => \A list \in Lists, view \in Views, limit \in 1 .. PageMax :
    LET keys == Matching(db, list, view, None) IN
    \A after \in {None} \cup keys : PageInMemory(keys, limit, after) = PageInPostgres(keys, limit, after)

\* A detail is of one piece: its observations are consecutive, its outcome is not older than
\* they are, and a caller who may see incidents finds each failure in one.
DetailIsCoherent ==
  Done("detail") =>
    /\ \A k \in DOMAIN read.observations : read.observations[k] = read.observations[1] + 1 - k
    /\ read.observations # <<>> => read.observations[1] <= read.latest
    /\ \A k \in DOMAIN read.observations :
         read.view = "private" /\ db.observed[read.monitor][read.observations[k]] = "fail"
           => \E i \in read.incidents : read.observations[k] \in i.observations

\* As long as everything fits in a page, if there are pages, a public incident that was current all along is in
\* the summary, what is in the summary was current and public at some time and its source
\* had a public target at some time, if not at the same, and the summary never reports
\* better than the worst of what it lists.
SummaryIsCurrent ==
  Done("summary") /\ read.fits =>
    /\ read.steady \subseteq read.incidents /\ read.incidents \subseteq read.ever
    /\ \A i \in read.incidents : SourceOf[db.incident[i].monitor] \in read.shown
    /\ read.incidents # {} => read.overall \in {"degraded", "major_outage"}

=============================================================================
