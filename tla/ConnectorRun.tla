---------------------------- MODULE ConnectorRun ----------------------------
(***************************************************************************)
(* The execution of a connector job inside the leased queue:               *)
(* DatabaseJobExecutor._execute_connector, _persist_raw and                *)
(* _finish_connector of services/worker/hk_data_worker/execution.py, over  *)
(* the evidence store of storage.py.                                       *)
(*                                                                         *)
(* Scheduler's one step from Start to Finish is opened up here: the run    *)
(* row is inserted, the provider is asked, the payload is put into the     *)
(* store, parsed, and everything but the store's object commits together   *)
(* with the job.  The store is not part of the transaction.                *)
(***************************************************************************)
EXTENDS Scheduler

CONSTANTS
  Bodies,    \* the payloads a provider may answer with
  Malformed, \* those the connector cannot normalise
  RecordsOf  \* [Bodies -> sets of record contents], what parsing yields

Outcomes == {"success", "quarantined", "failed"}

ASSUME BodiesAssumption ==
  /\ Malformed \subseteq Bodies
  /\ DOMAIN RecordsOf = Bodies
  /\ None \notin Bodies \cup Outcomes

VARIABLES
  store,   \* the bodies in the content-addressed evidence store
  rawRows, \* the bodies with a committed raw_object row
  runs,    \* the committed connector_run rows
  records, \* the committed source_record rows
  work     \* [Workers -> what the open execution has done so far]

runVars == <<store, rawRows, runs, records, work>>

----------------------------------------------------------------------------
\* connector_run_id: a hash of job, target, due date and code version.
RunId(c) == [job |-> c.job, due |-> c.due]

\* mine: this transaction inserted the run row and nobody else can see it yet.
NoWork == [stage |-> "none", mine |-> FALSE, body |-> None, raws |-> {}, outcome |-> None]

InsertedWork(mine) == [NoWork EXCEPT !.stage = "inserted", !.mine = mine]
FetchedWork(k, b) == [k EXCEPT !.stage = "fetched", !.body = b]
SettledWork(k, raws, outcome) == [k EXCEPT !.stage = "settled", !.raws = raws, !.outcome = outcome]

Executing(w, c) == pc[w] = "running" /\ c \in current[w] /\ KindOf[c.job] = "connector"

InRun(w) == \E c \in current[w] : Executing(w, c)

Committed(id) == \E r \in runs : r.id = id

\* INSERT ... ON CONFLICT (connector_run_id) DO NOTHING waits for an open transaction
\* that has inserted the same id.
InsertBlocked(w, id) ==
  \E v \in Workers \ {w} : work[v].mine /\ \E d \in current[v] : RunId(d) = id

InsertRun(w) ==
  /\ work[w].stage = "none"
  /\ \E c \in current[w] :
       /\ Executing(w, c)
       /\ ~InsertBlocked(w, RunId(c))
       /\ work' = [work EXCEPT ![w] = InsertedWork(~Committed(RunId(c)))]
  /\ UNCHANGED <<vars, store, rawRows, runs, records>>

Settle(w, raws, outcome) == work' = [work EXCEPT ![w] = SettledWork(work[w], raws, outcome)]

\* The one request of the plan is answered, refused (AccessFailure) or lost.
Fetch(w) ==
  /\ work[w].stage = "inserted"
  /\ \/ \E b \in Bodies : work' = [work EXCEPT ![w] = FetchedWork(work[w], b)]
     \/ \E o \in {"quarantined", "failed"} : Settle(w, {}, o)
  /\ UNCHANGED <<vars, store, rawRows, runs, records>>

\* Mutant of Persist: the payload is parsed without having been stored.
PersistNothing(w) ==
  LET b == work[w].body
  IN  /\ \E o \in IF b \in Malformed THEN {"quarantined", "failed"} ELSE {"success"} :
           Settle(w, {b}, o)
      /\ store' = store

\* _persist_raw, then parse: the object is in the store whatever becomes of the run.
Persist(w) ==
  LET b == work[w].body
  IN  \/ /\ store' = store \cup {b}
         /\ \E o \in IF b \in Malformed THEN {"quarantined", "failed"} ELSE {"success"} :
              Settle(w, {b}, o)
      \/ store' = store /\ Settle(w, {}, "failed")

StoreAndParse(w) ==
  /\ work[w].stage = "fetched"
  /\ Persist(w)
  /\ UNCHANGED <<vars, rawRows, runs, records>>

\* Mutant of Published: a record is published for the first body only.
PublishedAtMostOne(w, c) ==
  LET known == {r.content : r \in records}
      new   == (IF work[w].outcome = "success" THEN RecordsOf[work[w].body] ELSE {}) \ known
  IN  records \cup {[content |-> x, raw |-> work[w].body, run |-> RunId(c)] :
                      x \in IF Cardinality(new) > 1 THEN {CHOOSE y \in new : TRUE} ELSE new}

\* INSERT INTO source_record ... ON CONFLICT DO NOTHING: a record's id is the hash of its
\* content, and the row that was there first keeps its run and its raw object.
Published(w, c) ==
  IF work[w].outcome # "success" THEN records
  ELSE LET known == {r.content : r \in records}
       IN  records \cup {[content |-> x, raw |-> work[w].body, run |-> RunId(c)] :
                           x \in RecordsOf[work[w].body] \ known}

\* _finish_connector updates the row of that id, whoever inserted it.
Recorded(w, c) ==
  {r \in runs : r.id # RunId(c)}
    \cup {[id |-> RunId(c), status |-> work[w].outcome, raws |-> work[w].raws]}

CommitRun(w) ==
  /\ work[w].stage = "settled"
  /\ \E c \in current[w] :
       /\ runs' = Recorded(w, c)
       /\ records' = Published(w, c)
  /\ rawRows' = rawRows \cup work[w].raws
  /\ work' = [work EXCEPT ![w] = NoWork]
  /\ Finish(w)
  /\ UNCHANGED store

\* Monitors and failed attempts end as Scheduler has it.
FinishOther(w) == ~InRun(w) /\ Finish(w) /\ UNCHANGED runVars

\* Mutants of RollBack: the open work is not forgotten; a failure is swallowed and the
\* job never finished.
RollBackKeepingWork(w) == (Break(w) \/ Crash(w)) /\ UNCHANGED runVars

RollBackSwallowed(w) ==
  /\ pc[w] = "running"
  /\ pc' = [pc EXCEPT ![w] = "idle"]
  /\ current' = [current EXCEPT ![w] = {}]
  /\ work' = [work EXCEPT ![w] = NoWork]
  /\ UNCHANGED <<now, dbVars, pollAt, claims, failure, crashes, store, rawRows, runs, records>>

\* The execution's transaction is gone; what it put into the store stays.
RollBack(w) ==
  /\ Break(w) \/ Crash(w)
  /\ work' = [work EXCEPT ![w] = NoWork]
  /\ UNCHANGED <<store, rawRows, runs, records>>

RunStep(w) ==
  InsertRun(w) \/ Fetch(w) \/ StoreAndParse(w) \/ CommitRun(w) \/ FinishOther(w) \/ RollBack(w)

\* The row a run inserts refers to its source and so holds the source's row by FOR KEY
\* SHARE until the run ends; decideSourceApproval and activateConnector take it FOR UPDATE.
SourceLocked(s) == \E w \in Workers : work[w].mine /\ \E c \in current[w] : SourceOf[c.job] = s

Outside ==
  /\ \/ Tick
     \/ \E w \in Workers : Poll(w) \/ ClaimDue(w) \/ Start(w) \/ Restart(w)
     \/ \E s \in Sources : ~SourceLocked(s) /\ Decide(s)
     \/ \E j \in Jobs : ~SourceLocked(SourceOf[j]) /\ ActivateConnector(j)
     \/ \E j \in Jobs : BeginActivation(j) \/ CommitActivation(j) \/ AbortActivation(j)
     \/ \E j \in Jobs : DisableTarget(j)
  /\ UNCHANGED runVars

RunInit ==
  /\ Init
  /\ store = {} /\ rawRows = {} /\ runs = {} /\ records = {}
  /\ work = [w \in Workers |-> NoWork]

RunNext == Outside \/ \E w \in Workers : RunStep(w)

RunSpec == RunInit /\ [][RunNext]_<<vars, runVars>>

----------------------------------------------------------------------------
RunIds == [job : Jobs, due : Nat]

RunTypeOK ==
  /\ store \subseteq Bodies
  /\ rawRows \subseteq Bodies
  /\ runs \subseteq [id : RunIds, status : Outcomes, raws : SUBSET Bodies]
  /\ records \subseteq [content : UNION {RecordsOf[b] : b \in Bodies}, raw : Bodies, run : RunIds]
  /\ work \in [Workers -> [stage : {"none", "inserted", "fetched", "settled"}, mine : BOOLEAN,
                           body : Bodies \cup {None}, raws : SUBSET Bodies,
                           outcome : Outcomes \cup {None}]]
  /\ \A w \in Workers : work[w].stage # "none" => InRun(w)

\* What an open execution is about to commit is in the store, and a success is about the
\* payload that was fetched.
WorkFollowsStore ==
  \A w \in Workers :
    /\ work[w].raws \subseteq store
    /\ work[w].stage = "fetched" => work[w].body # None
    /\ work[w].stage = "settled" <=> work[w].outcome # None
    /\ work[w].outcome = "success" => work[w].raws = {work[w].body}

\* Opening up the executions changes nothing for the queue: all that is proved of
\* Scheduler holds of the composed system.
ImplementsScheduler == Spec

\* No record without the row of its payload, no row without the payload in the store,
\* though the store is written outside the transaction and workers break and crash
\* between the two ("Successful provider bytes are content-addressed and stored before
\* parsing").
EvidenceBeforeRecords ==
  /\ \A r \in records : r.raw \in rawRows
  /\ \A r \in runs : r.raws \subseteq rawRows
  /\ rawRows \subseteq store

\* A run that reports success has every record of its payload published, by itself or by
\* whoever published the same content first.
SuccessPublishesAll ==
  \A r \in runs : r.status = "success" =>
    \A b \in r.raws : \A x \in RecordsOf[b] : \E s \in records : s.content = x

\* Every attempt counted against a connector left its run or its audit entry behind, even
\* when stale workers of an earlier lease commit in between.
AttemptsLeaveTraces ==
  \A j \in Jobs : KindOf[j] = "connector" =>
    row[j].attempt <= Cardinality({r \in runs : r.id.job = j})
                      + Cardinality({b \in blocked : b.job = j})

\* The runs of one connector are at least a cadence apart (docs/runbooks/stale-source.md:
\* "no retry loop exceeds the configured cadence").
RunsKeepCadence ==
  \A q, r \in runs : q.id.job = r.id.job /\ q.id.due < r.id.due =>
    q.id.due + Cadence[q.id.job] <= r.id.due

=============================================================================
