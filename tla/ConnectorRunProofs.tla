------------------------- MODULE ConnectorRunProofs -------------------------
(***************************************************************************)
(* What holds of connector runs for any workers, jobs and payloads.        *)
(* First, the composed system is a Scheduler, so that the theorems of      *)
(* SchedulerProofs hold of it.  Then RunInvariant, which says of the open  *)
(* work what it says of the committed rows, is preserved by every step.    *)
(* Last, what runs and audit entries say of the attempts rests on due      *)
(* dates: those of a connector's runs and claims are the row's own or at   *)
(* least a cadence behind it, so that an attempt that counts has a run.    *)
(***************************************************************************)
EXTENDS ConnectorRun, SchedulerProofs, FiniteSetTheorems

----------------------------------------------------------------------------
(* The composed system implements the queue *)

LEMMA RunStepIsSchedulerStep == RunNext => [Next]_vars
<1> SUFFICES ASSUME RunNext PROVE [Next]_vars
  OBVIOUS
<1>1. CASE Outside
  BY <1>1 DEF Outside, Next, WorkerStep, AdminStep
<1>2. ASSUME NEW w \in Workers, RunStep(w) PROVE [Next]_vars
  <2>1. CASE InsertRun(w) \/ Fetch(w) \/ StoreAndParse(w)
    <3>1. UNCHANGED vars
      BY <2>1 DEF InsertRun, Fetch, StoreAndParse
    <3> QED BY <3>1
  <2>2. CASE CommitRun(w) \/ FinishOther(w)
    BY <2>2 DEF CommitRun, FinishOther, Next, WorkerStep
  <2>3. CASE RollBack(w)
    BY <2>3 DEF RollBack, Next, WorkerStep
  <2> QED BY <1>2, <2>1, <2>2, <2>3 DEF RunStep
<1> QED BY <1>1, <1>2 DEF RunNext

\* Opening up the executions of connector jobs changes nothing for the queue: every step
\* of the composed system is a step of Scheduler or leaves it alone.
THEOREM ConnectorRunsImplementScheduler == RunSpec => ImplementsScheduler
<1>1. RunInit => Init
  BY DEF RunInit
<1>2. [RunNext]_<<vars, runVars>> => [Next]_vars
  BY RunStepIsSchedulerStep
<1> QED
  BY <1>1, <1>2, PTL DEF RunSpec, ImplementsScheduler, Spec

----------------------------------------------------------------------------
(* The inductive invariant *)

RunInvariant == RunTypeOK /\ WorkFollowsStore /\ EvidenceBeforeRecords /\ SuccessPublishesAll

Work == [stage : {"none", "inserted", "fetched", "settled"}, mine : BOOLEAN,
         body : Bodies \cup {None}, raws : SUBSET Bodies, outcome : Outcomes \cup {None}]

\* The state of one worker's open execution.
WorkSound(k, kept) ==
  /\ k \in Work
  /\ k.raws \subseteq kept
  /\ k.stage = "fetched" => k.body # None
  /\ k.stage = "settled" <=> k.outcome # None
  /\ k.outcome = "success" => k.raws = {k.body}

LEMMA NoWorkSound == \A kept : WorkSound(NoWork, kept)
BY BodiesAssumption DEF WorkSound, NoWork, Work, BodiesAssumption, Outcomes

LEMMA InsertedSound == \A kept : \A m \in BOOLEAN : WorkSound(InsertedWork(m), kept)
BY BodiesAssumption DEF WorkSound, InsertedWork, NoWork, Work, BodiesAssumption, Outcomes

LEMMA FetchedSound ==
  ASSUME NEW kept, NEW k, WorkSound(k, kept), k.stage = "inserted", NEW b \in Bodies
  PROVE  WorkSound(FetchedWork(k, b), kept)
<1>1. /\ FetchedWork(k, b).stage = "fetched" /\ FetchedWork(k, b).body = b
      /\ FetchedWork(k, b).raws = k.raws /\ FetchedWork(k, b).outcome = k.outcome
  BY DEF WorkSound, Work, FetchedWork
<1>2. FetchedWork(k, b) \in Work
  BY DEF WorkSound, Work, FetchedWork
<1>3. k.outcome = None /\ None # "success" /\ b # None
  BY BodiesAssumption DEF WorkSound, BodiesAssumption, Outcomes
<1> QED
  BY <1>1, <1>2, <1>3 DEF WorkSound

LEMMA SettledSound ==
  ASSUME NEW kept, NEW k, WorkSound(k, kept), NEW raws \in SUBSET Bodies,
         NEW o \in Outcomes, raws \subseteq kept, o = "success" => raws = {k.body}
  PROVE  WorkSound(SettledWork(k, raws, o), kept)
<1>1. /\ SettledWork(k, raws, o).stage = "settled" /\ SettledWork(k, raws, o).body = k.body
      /\ SettledWork(k, raws, o).raws = raws /\ SettledWork(k, raws, o).outcome = o
  BY DEF WorkSound, Work, SettledWork
<1>2. SettledWork(k, raws, o) \in Work
  BY DEF WorkSound, Work, SettledWork
<1>3. o # None
  BY BodiesAssumption DEF BodiesAssumption
<1> QED
  BY <1>1, <1>2, <1>3 DEF WorkSound

AllSound == work \in [Workers -> Work] /\ \A w \in Workers : WorkSound(work[w], store)

RowsSound ==
  /\ store \subseteq Bodies
  /\ rawRows \subseteq Bodies
  /\ runs \subseteq [id : RunIds, status : Outcomes, raws : SUBSET Bodies]
  /\ records \subseteq [content : UNION {RecordsOf[b] : b \in Bodies}, raw : Bodies, run : RunIds]

LEMMA InvariantParts ==
  RunInvariant <=> /\ RowsSound /\ AllSound /\ EvidenceBeforeRecords /\ SuccessPublishesAll
                   /\ \A w \in Workers : work[w].stage # "none" => InRun(w)
BY DEF RunInvariant, RunTypeOK, WorkFollowsStore, RowsSound, AllSound, WorkSound, Work

LEMMA WorkReplaced ==
  ASSUME AllSound, store \subseteq store', NEW w \in Workers, NEW k, WorkSound(k, store'),
         work' = [work EXCEPT ![w] = k]
  PROVE  AllSound'
<1>1. \A v \in Workers : work'[v] = IF v = w THEN k ELSE work[v]
  BY DEF AllSound
<1>2. \A v \in Workers : WorkSound(work'[v], store')
  BY <1>1 DEF AllSound, WorkSound
<1> QED
  BY <1>2 DEF AllSound, WorkSound

\* What is not a worker's own step leaves its execution open.
LEMMA OutsideKeepsRun ==
  ASSUME TypeOK, Outside, NEW w \in Workers, InRun(w)
  PROVE  InRun(w)'
<1>1. PICK c \in current[w] : Executing(w, c)
  BY DEF InRun
<1>2. pc'[w] = pc[w] /\ current'[w] = current[w]
  <2>1. CASE Tick \/ (\E s \in Sources : Decide(s)) \/ (\E j \in Jobs : AdminStep(j))
    <3>1. UNCHANGED workerVars
      BY <2>1 DEF Tick, Decide, AdminStep, ActivateConnector, BeginActivation, CommitActivation,
                  AbortActivation, DisableTarget
    <3> QED BY <3>1 DEF workerVars
  <2>2. ASSUME NEW v \in Workers, Poll(v) \/ ClaimDue(v) \/ Start(v) \/ Restart(v)
        PROVE  pc'[w] = pc[w] /\ current'[w] = current[w]
    <3>1. pc[v] # "running" /\ pc[w] = "running"
      BY <1>1, <2>2 DEF Executing, Poll, ClaimDue, Start, Restart
    <3>2. v # w
      BY <3>1
    <3>3. CASE Poll(v)
      BY <3>2, <3>3 DEF Poll, TypeOK
    <3>4. CASE ClaimDue(v)
      BY <3>2, <3>4 DEF ClaimDue, TypeOK
    <3>5. CASE Start(v)
      BY <3>2, <3>5 DEF Start, TypeOK
    <3>6. CASE Restart(v)
      BY <3>2, <3>6 DEF Restart, TypeOK
    <3> QED BY <2>2, <3>3, <3>4, <3>5, <3>6
  <2> QED BY <2>1, <2>2 DEF Outside, AdminStep
<1> QED
  BY <1>1, <1>2 DEF InRun, Executing

LEMMA OtherRunsKept ==
  ASSUME TypeOK, NEW w \in Workers, Finish(w) \/ Break(w) \/ Crash(w),
         NEW v \in Workers \ {w}, InRun(v)
  PROVE  InRun(v)'
<1>1. PICK c \in current[v] : Executing(v, c)
  BY DEF InRun
<1>2. pc'[v] = pc[v] /\ current'[v] = current[v]
  BY DEF Finish, Break, Crash, TypeOK
<1> QED
  BY <1>1, <1>2 DEF InRun, Executing

LEMMA InvariantPartsPrimed ==
  RunInvariant' <=> /\ RowsSound' /\ AllSound' /\ EvidenceBeforeRecords' /\ SuccessPublishesAll'
                    /\ \A w \in Workers : work'[w].stage # "none" => InRun(w)'
BY DEF RunInvariant, RunTypeOK, WorkFollowsStore, RowsSound, AllSound, WorkSound, Work

\* InsertRun, Fetch and StoreAndParse touch the store and the worker's own work only.
LEMMA OpenStep ==
  ASSUME RunInvariant, UNCHANGED <<vars, rawRows, runs, records>>, NEW w \in Workers, InRun(w),
         store \subseteq store', store' \subseteq Bodies, NEW k, WorkSound(k, store'),
         work' = [work EXCEPT ![w] = k]
  PROVE  RunInvariant'
<1>1. RowsSound' /\ EvidenceBeforeRecords' /\ SuccessPublishesAll'
  BY InvariantParts DEF RowsSound, EvidenceBeforeRecords, SuccessPublishesAll
<1>2. AllSound'
  BY InvariantParts, WorkReplaced
<1>3. ASSUME NEW v \in Workers, work'[v].stage # "none" PROVE InRun(v)'
  <2>1. InRun(v)
    BY <1>3, InvariantParts DEF AllSound
  <2> QED BY <2>1 DEF InRun, Executing, vars, workerVars
<1> QED
  BY <1>1, <1>2, <1>3, InvariantPartsPrimed

LEMMA ClosedWorkStep ==
  ASSUME TypeOK, RunInvariant, NEW w \in Workers, Finish(w) \/ Break(w) \/ Crash(w),
         store' = store, work' = [work EXCEPT ![w] = NoWork]
  PROVE  AllSound' /\ \A v \in Workers : work'[v].stage # "none" => InRun(v)'
<1>1. AllSound'
  BY InvariantParts, WorkReplaced, NoWorkSound
<1>2. ASSUME NEW v \in Workers, work'[v].stage # "none" PROVE InRun(v)'
  <2>1. v # w /\ InRun(v)
    BY <1>2, InvariantParts DEF AllSound, NoWork
  <2> QED BY <2>1, OtherRunsKept
<1> QED
  BY <1>1, <1>2

LEMMA CommitStep ==
  ASSUME TypeOK, RunInvariant, NEW w \in Workers, CommitRun(w)
  PROVE  RunInvariant'
<1>1. PICK c \in current[w] : runs' = Recorded(w, c) /\ records' = Published(w, c)
  BY DEF CommitRun
<1>2. /\ rawRows' = rawRows \cup work[w].raws /\ store' = store
      /\ work' = [work EXCEPT ![w] = NoWork] /\ Finish(w) /\ work[w].stage = "settled"
  BY DEF CommitRun
<1>3. RunId(c) \in RunIds
  BY DEF TypeOK, Claim, RunId, RunIds
<1>4. /\ work[w].raws \subseteq store /\ work[w].raws \subseteq Bodies /\ work[w].outcome \in Outcomes
      /\ work[w].outcome = "success" => work[w].raws = {work[w].body} /\ work[w].body \in Bodies
  BY <1>2, InvariantParts DEF AllSound, WorkSound, Work
<1>5. records \subseteq records'
  BY <1>1 DEF Published
<1>6. \A r \in records' \ records : /\ work[w].outcome = "success" /\ r.raw = work[w].body
                                   /\ r \in [content : RecordsOf[work[w].body],
                                            raw : {work[w].body}, run : RunIds]
  BY <1>1, <1>3 DEF Published
<1>7. \A r \in runs' : \/ r \in runs
                       \/ r = [id |-> RunId(c), status |-> work[w].outcome, raws |-> work[w].raws]
  BY <1>1 DEF Recorded
<1>8. RowsSound'
  <2>1. runs' \subseteq [id : RunIds, status : Outcomes, raws : SUBSET Bodies]
    BY <1>3, <1>4, <1>7, InvariantParts DEF RowsSound
  <2>2. records' \subseteq [content : UNION {RecordsOf[b] : b \in Bodies}, raw : Bodies, run : RunIds]
    BY <1>4, <1>6, InvariantParts DEF RowsSound
  <2> QED BY <1>2, <1>4, <2>1, <2>2, InvariantParts DEF RowsSound
<1>9. EvidenceBeforeRecords'
  <2>1. \A r \in records' : r.raw \in rawRows'
    BY <1>2, <1>4, <1>6, InvariantParts DEF EvidenceBeforeRecords
  <2>2. \A r \in runs' : r.raws \subseteq rawRows'
    BY <1>2, <1>7, InvariantParts DEF EvidenceBeforeRecords
  <2>3. rawRows' \subseteq store'
    BY <1>2, <1>4, InvariantParts DEF EvidenceBeforeRecords
  <2> QED BY <2>1, <2>2, <2>3 DEF EvidenceBeforeRecords
<1>10. SuccessPublishesAll'
  <2> SUFFICES ASSUME NEW r \in runs', r.status = "success", NEW b \in r.raws,
                      NEW x \in RecordsOf[b]
               PROVE  \E s \in records' : s.content = x
    BY DEF SuccessPublishesAll
  <2>1. CASE r \in runs
    BY <1>5, <2>1, InvariantParts DEF SuccessPublishesAll
  <2>2. CASE r = [id |-> RunId(c), status |-> work[w].outcome, raws |-> work[w].raws]
    <3>1. work[w].outcome = "success" /\ b = work[w].body
      BY <1>4, <2>2
    <3>2. CASE x \in {q.content : q \in records}
      BY <1>5, <3>2
    <3>3. CASE x \notin {q.content : q \in records}
      <4>1. [content |-> x, raw |-> work[w].body, run |-> RunId(c)] \in records'
        BY <1>1, <3>1, <3>3 DEF Published
      <4> QED BY <4>1
    <3> QED BY <3>2, <3>3
  <2> QED BY <1>7, <2>1, <2>2
<1> QED
  BY <1>2, <1>8, <1>9, <1>10, ClosedWorkStep, InvariantPartsPrimed

LEMMA StoreAndParseStep ==
  ASSUME RunInvariant, NEW w \in Workers, StoreAndParse(w)
  PROVE  RunInvariant'
<1>1. /\ work[w].stage = "fetched" /\ work[w].body \in Bodies /\ InRun(w)
      /\ WorkSound(work[w], store)
  BY InvariantParts DEF StoreAndParse, AllSound, WorkSound, Work
<1>2. PICK raws \in SUBSET Bodies, o \in Outcomes :
        /\ raws \subseteq store' /\ (o = "success" => raws = {work[w].body})
        /\ work' = [work EXCEPT ![w] = SettledWork(work[w], raws, o)]
        /\ store' \in {store, store \cup {work[w].body}}
  <2>1. PICK raws \in {{}, {work[w].body}}, o \in Outcomes :
          /\ raws \subseteq store' /\ (o = "success" => raws = {work[w].body})
          /\ Settle(w, raws, o)
          /\ store' \in {store, store \cup {work[w].body}}
    BY DEF StoreAndParse, Persist, Outcomes
  <2> QED BY <1>1, <2>1 DEF Settle
<1>3. store \subseteq store' /\ store' \subseteq Bodies
  BY <1>1, <1>2, InvariantParts DEF RowsSound
<1>4. WorkSound(work[w], store')
  BY <1>1, <1>3 DEF WorkSound
<1>5. WorkSound(SettledWork(work[w], raws, o), store')
  BY <1>2, <1>4, SettledSound
<1>6. UNCHANGED <<vars, rawRows, runs, records>>
  BY DEF StoreAndParse
<1> QED
  BY <1>1, <1>2, <1>3, <1>5, <1>6, OpenStep

LEMMA FetchStep ==
  ASSUME RunInvariant, NEW w \in Workers, Fetch(w)
  PROVE  RunInvariant'
<1>1. /\ work[w].stage = "inserted" /\ InRun(w) /\ WorkSound(work[w], store)
      /\ store' = store /\ store \subseteq Bodies /\ UNCHANGED <<vars, rawRows, runs, records>>
  BY InvariantParts DEF Fetch, AllSound, RowsSound
<1>2. CASE \E b \in Bodies : work' = [work EXCEPT ![w] = FetchedWork(work[w], b)]
  BY <1>1, <1>2, FetchedSound, OpenStep
<1>3. CASE \E o \in {"quarantined", "failed"} : Settle(w, {}, o)
  <2>1. PICK o \in {"quarantined", "failed"} :
          work' = [work EXCEPT ![w] = SettledWork(work[w], {}, o)]
    BY <1>3 DEF Settle
  <2>2. WorkSound(SettledWork(work[w], {}, o), store)
    BY <1>1, SettledSound DEF Outcomes
  <2> QED BY <1>1, <2>1, <2>2, OpenStep
<1> QED
  BY <1>2, <1>3 DEF Fetch

LEMMA RunInvariantStep ==
  ASSUME TypeOK, RunInvariant, [RunNext]_<<vars, runVars>>
  PROVE  RunInvariant'
<1>1. CASE UNCHANGED <<vars, runVars>>
  BY <1>1, InvariantParts, InvariantPartsPrimed
  DEF runVars, vars, workerVars, RowsSound, AllSound, WorkSound, EvidenceBeforeRecords,
      SuccessPublishesAll, InRun, Executing
<1>2. CASE Outside
  <2>1. UNCHANGED runVars
    BY <1>2 DEF Outside
  <2>2. \A w \in Workers : work'[w].stage # "none" => InRun(w)'
    BY <1>2, <2>1, InvariantParts, OutsideKeepsRun DEF runVars
  <2> QED
    BY <2>1, <2>2, InvariantParts, InvariantPartsPrimed
    DEF runVars, RowsSound, AllSound, WorkSound, EvidenceBeforeRecords, SuccessPublishesAll
<1>3. ASSUME NEW w \in Workers, InsertRun(w) PROVE RunInvariant'
  <2>1. PICK c \in current[w] : /\ Executing(w, c)
                               /\ work' = [work EXCEPT ![w] = InsertedWork(~Committed(RunId(c)))]
    BY <1>3 DEF InsertRun
  <2>2. WorkSound(InsertedWork(~Committed(RunId(c))), store)
    BY InsertedSound
  <2>3. InRun(w) /\ store' = store /\ UNCHANGED <<vars, rawRows, runs, records>>
    BY <1>3, <2>1 DEF InsertRun, InRun
  <2> QED BY <2>1, <2>2, <2>3, InvariantParts, OpenStep DEF RowsSound
<1>4. ASSUME NEW w \in Workers, FinishOther(w) PROVE RunInvariant'
  <2>1. UNCHANGED runVars /\ Finish(w) /\ work[w].stage = "none"
    BY <1>4, InvariantParts DEF FinishOther
  <2>2. \A v \in Workers : work'[v].stage # "none" => InRun(v)'
    BY <2>1, InvariantParts, OtherRunsKept DEF runVars
  <2> QED
    BY <2>1, <2>2, InvariantParts, InvariantPartsPrimed
    DEF runVars, RowsSound, AllSound, WorkSound, EvidenceBeforeRecords, SuccessPublishesAll
<1>5. ASSUME NEW w \in Workers, RollBack(w) PROVE RunInvariant'
  <2>1. UNCHANGED <<store, rawRows, runs, records>>
    BY <1>5 DEF RollBack
  <2>2. AllSound' /\ \A v \in Workers : work'[v].stage # "none" => InRun(v)'
    BY <1>5, <2>1, ClosedWorkStep DEF RollBack
  <2> QED
    BY <2>1, <2>2, InvariantParts, InvariantPartsPrimed
    DEF RowsSound, EvidenceBeforeRecords, SuccessPublishesAll
<1> QED
  BY <1>1, <1>2, <1>3, <1>4, <1>5, FetchStep, StoreAndParseStep, CommitStep DEF RunNext, RunStep

----------------------------------------------------------------------------
LEMMA RunInvariantHolds == RunSpec => []RunInvariant
<1>1. RunInit => RunInvariant
  <2> SUFFICES ASSUME RunInit PROVE RunInvariant
    OBVIOUS
  <2>1. AllSound
    BY NoWorkSound DEF RunInit, AllSound, WorkSound
  <2> QED
    BY <2>1, InvariantParts
    DEF RunInit, RowsSound, EvidenceBeforeRecords, SuccessPublishesAll, NoWork
<1>2. RunSpec => []TypeOK
  BY ConnectorRunsImplementScheduler, TypeCorrect, PTL DEF ImplementsScheduler
<1>3. TypeOK /\ RunInvariant /\ [RunNext]_<<vars, runVars>> => RunInvariant'
  BY RunInvariantStep
<1> QED
  BY <1>1, <1>2, <1>3, PTL DEF RunSpec

\* The rows, the store and the open work of every execution are of their types, and only a
\* running connector job has work.
THEOREM RunTypeCorrect == RunSpec => []RunTypeOK
BY RunInvariantHolds, PTL DEF RunInvariant

\* Whatever breaks or crashes between the store and the database, a committed record's
\* payload has its row and a row's payload is in the store.
THEOREM EvidencePrecedesRecords == RunSpec => []EvidenceBeforeRecords
BY RunInvariantHolds, PTL DEF RunInvariant

\* A run that reports success has all its records published, also those that another run
\* published first.
THEOREM SuccessesArePublished == RunSpec => []SuccessPublishesAll
BY RunInvariantHolds, PTL DEF RunInvariant

-----------------------------------------------------------------------------
(* Due dates and attempts *)

IsConnector(j) == KindOf[j] = "connector"

\* Claims are of the past, and the owner's claim has the due date of its row.
ClaimsWereDue ==
  \A w \in Workers : \A c \in Held(w) : IsConnector(c.job) =>
    /\ c.due <= now
    /\ row[c.job].owner = w => c.due = row[c.job].due

FailuresHaveCodes == \A w \in Workers : pc[w] = "failing" => failure[w] # None

----------------------------------------------------------------------------
(* What the steps of the queue do to the row of a connector *)

\* Every step but the end of an attempt.
Quiet ==
  \/ Tick \/ UNCHANGED vars
  \/ \E w \in Workers : Poll(w) \/ ClaimDue(w) \/ Start(w) \/ Break(w) \/ Crash(w) \/ Restart(w)
  \/ \E s \in Sources : Decide(s)
  \/ \E j \in Jobs : AdminStep(j)

LEMMA RowFields ==
  ASSUME NEW r \in JobRow
  PROVE  /\ \A code : /\ Paused(r, code).due = r.due /\ Paused(r, code).attempt = r.attempt
                      /\ Paused(r, code).owner = None
         /\ \A w, ends : /\ Leased(r, w, ends).due = r.due /\ Leased(r, w, ends).attempt = r.attempt
                         /\ Leased(r, w, ends).owner = w
         /\ \A due, code : /\ Ended(r, due, code).due = due /\ Ended(r, due, code).owner = None
                           /\ Ended(r, due, code).attempt = r.attempt + 1
         /\ \A t : Activated(r, t).attempt = r.attempt /\ Activated(r, t).owner = None
BY DEF JobRow, Paused, Leased, Ended, Activated

LEMMA PausedRowsFields ==
  ASSUME TypeOK, NEW D, NEW code, NEW j \in Jobs
  PROVE  /\ PausedRows(D, code)[j].due = row[j].due /\ PausedRows(D, code)[j].attempt = row[j].attempt
         /\ PausedRows(D, code)[j].owner \in {None, row[j].owner}
<1>1. row[j] \in JobRow
  BY DEF TypeOK
<1>2. PausedRows(D, code)[j] \in {row[j], Paused(row[j], code)}
  BY DEF PausedRows
<1> QED BY <1>1, <1>2, RowFields

\* A claim that was not held before is made of a row that is due.
LEMMA ClaimedWasDue ==
  ASSUME TypeOK, LeaseInvariant, NEW w \in Workers, ClaimDue(w), NEW c \in claims'[w]
  PROVE  /\ c.job \in scheduled /\ c.job \in Jobs /\ c.due <= now
         /\ c.due = row[c.job].due /\ row'[c.job].due = row[c.job].due
<1> DEFINE t == pollAt[w]
           ends == t + LeaseSeconds
           after == PausedRows(Unauthorised(t), "APPROVAL_NOT_EFFECTIVE")
<1>1. PICK B \in Earliest(after, Claimable(after, t)) :
         /\ row' = [j \in Jobs |-> IF j \in B THEN Leased(after[j], w, ends) ELSE after[j]]
         /\ claims' = [claims EXCEPT ![w] = {ClaimOf(after[j], j, ends) : j \in B}]
  BY DEF ClaimDue
<1>2. t <= now /\ t \in Nat /\ now \in Nat
  BY DEF LeaseInvariant, ClaimsFollowControl, TypeOK
<1>3. \A j \in Jobs : after[j].due = row[j].due /\ after[j] \in JobRow
  <2>1. RowsOK /\ "APPROVAL_NOT_EFFECTIVE" \in ErrorCodes
    BY RowsFromType DEF ErrorCodes
  <2>2. after \in [Jobs -> JobRow]
    BY <2>1, PausedRowsType, ConstantsAssumption
  <2>3. \A j \in Jobs : after[j].due = row[j].due
    BY PausedRowsFields
  <2> QED BY <2>2, <2>3
<1>4. \A j \in Jobs : row[j].due \in Nat
  BY DEF TypeOK, JobRow
<1> HIDE DEF after, t, ends
<1>5. PICK j \in B : c = ClaimOf(after[j], j, ends)
  BY <1>1 DEF TypeOK
<1>6. j \in scheduled /\ j \in Jobs /\ after[j].due <= t
  BY <1>1, <1>5 DEF Earliest, Claimable, TypeOK
<1>7. c.job = j /\ c.due = after[j].due
  BY <1>5 DEF ClaimOf
<1>8. row'[j].due = after[j].due
  BY <1>1, <1>3, <1>5, <1>6, RowFields
<1> QED BY <1>2, <1>3, <1>4, <1>6, <1>7, <1>8

LEMMA QuietClaims ==
  ASSUME TypeOK, LeaseInvariant, Quiet, NEW w \in Workers, NEW c \in Held(w)', c \notin Held(w)
  PROVE  /\ c.job \in scheduled /\ c.job \in Jobs /\ c.due <= now
         /\ c.due = row[c.job].due /\ row'[c.job].due = row[c.job].due
<1>1. ASSUME NEW v \in Workers, ClaimDue(v) PROVE v = w /\ c \in claims'[w]
  <2>1. \A u \in Workers \ {v} : Held(u)' = Held(u)
    BY <1>1, ClaimDueFrame
  <2>2. v = w
    BY <2>1
  <2>3. current'[w] = {}
    BY <1>1, <2>2, ClaimDueFrame
  <2> QED BY <2>2, <2>3 DEF Held
<1>2. ASSUME NEW v \in Workers, Poll(v) \/ Start(v) \/ Break(v) \/ Crash(v) \/ Restart(v)
      PROVE  Held(w)' \subseteq Held(w)
  <2>1. CASE v # w
    <3>1. claims'[w] = claims[w] /\ current'[w] = current[w]
      BY <1>2, <2>1 DEF Poll, Start, Break, Crash, Restart, TypeOK
    <3> QED BY <3>1 DEF Held
  <2>2. CASE v = w /\ Start(v)
    <3>1. PICK d \in claims[w] : claims' = [claims EXCEPT ![w] = claims[w] \ {d}]
                                 /\ current' = [current EXCEPT ![w] = {d}]
      BY <2>2 DEF Start
    <3> QED BY <3>1 DEF Held, TypeOK
  <2>3. CASE v = w /\ Crash(v)
    BY <2>3 DEF Crash, Held, TypeOK
  <2>4. CASE Poll(v) \/ Break(v) \/ Restart(v)
    BY <2>4 DEF Poll, Break, Restart, Held
  <2> QED BY <1>2, <2>1, <2>2, <2>3, <2>4
<1>3. CASE Tick \/ UNCHANGED vars \/ (\E s \in Sources : Decide(s)) \/ \E j \in Jobs : AdminStep(j)
  <2>1. claims' = claims /\ current' = current
    BY <1>3 DEF Tick, vars, workerVars, Decide, AdminStep, ActivateConnector, BeginActivation,
                CommitActivation, AbortActivation, DisableTarget
  <2> QED BY <2>1 DEF Held
<1> QED BY <1>1, <1>2, <1>3, ClaimedWasDue DEF Quiet

LEMMA QuietRow ==
  ASSUME TypeOK, LeaseInvariant, Quiet, NEW j \in Jobs, IsConnector(j)
  PROVE  \/ /\ row'[j].due = row[j].due /\ row'[j].attempt = row[j].attempt
            /\ \A w \in Workers : row'[j].owner = w => row[j].owner = w \/ ClaimDue(w)
         \/ j \notin scheduled /\ row'[j].attempt = 0 /\ row'[j].owner = None
<1> DEFINE Kept == /\ row'[j].due = row[j].due /\ row'[j].attempt = row[j].attempt
                   /\ \A w \in Workers : row'[j].owner = w => row[j].owner = w \/ ClaimDue(w)
<1>0. None \notin Workers /\ row[j] \in JobRow
  BY ConstantsAssumption DEF ConstantsAssumption, TypeOK
<1>1. CASE row' = row
  BY <1>1
<1>2. ASSUME NEW v \in Workers, ClaimDue(v) PROVE Kept
  <2>1. PICK B \in SUBSET scheduled, t \in Nat :
          /\ \A k \in B : row'[k] = Leased(row[k], v, t + LeaseSeconds)
          /\ \A k \in Jobs \ B : row'[k] = row[k] \/ \E code : row'[k] = Paused(row[k], code)
    BY <1>2, ClaimDueEffect
  <2>2. CASE j \in B
    BY <1>0, <1>2, <2>1, <2>2, RowFields
  <2>3. CASE j \notin B
    BY <1>0, <2>1, <2>3, RowFields
  <2> QED BY <2>2, <2>3
<1>3. ASSUME NEW D, NEW code, row' = PausedRows(D, code) PROVE Kept
  BY <1>0, <1>3, PausedRowsFields
<1>4. ASSUME NEW k \in Jobs, ActivateConnector(k)
      PROVE  Kept \/ (j \notin scheduled /\ row'[j].attempt = 0 /\ row'[j].owner = None)
  <2>1. row' = [row EXCEPT ![k] = Activated(NoRow, now)] /\ target[k] = "absent"
    BY <1>4 DEF ActivateConnector
  <2>2. CASE k # j
    BY <2>1, <2>2 DEF TypeOK
  <2>3. CASE k = j
    <3>1. j \notin scheduled
      BY <2>1, <2>3 DEF LeaseInvariant, RowsFollowSchedule
    <3>2. row'[j] = Activated(NoRow, now)
      BY <2>1, <2>3 DEF TypeOK
    <3>3. Activated(NoRow, now).attempt = 0 /\ Activated(NoRow, now).owner = None
      BY DEF Activated, NoRow
    <3> QED BY <3>1, <3>2, <3>3
  <2> QED BY <2>2, <2>3
<1>5. ASSUME NEW k \in Jobs, CommitActivation(k) PROVE Kept
  <2>1. PICK t \in pending[k] : row' = [row EXCEPT ![k] = Activated(row[k], t)]
    BY <1>5 DEF CommitActivation
  <2>2. KindOf[k] = "monitor"
    BY <2>1 DEF LeaseInvariant, RowsFollowSchedule
  <2>3. k # j
    BY <2>2 DEF IsConnector
  <2> QED BY <2>1, <2>3 DEF TypeOK
<1>6. ASSUME NEW v \in Workers, Poll(v) \/ Start(v) \/ Break(v) \/ Crash(v) \/ Restart(v) PROVE row' = row
  BY <1>6 DEF Poll, Start, Break, Crash, Restart, dbVars
<1>7. ASSUME NEW s \in Sources, Decide(s) PROVE Kept
  <2>1. row' = row \/ row' = PausedRows(JobsOf(s), "APPROVAL_NOT_EFFECTIVE")
    BY <1>7 DEF Decide
  <2> QED BY <1>1, <1>3, <2>1
<1>8. ASSUME NEW k \in Jobs, DisableTarget(k) PROVE Kept
  BY <1>3, <1>8 DEF DisableTarget
<1>9. CASE Tick \/ UNCHANGED vars \/ \E k \in Jobs : BeginActivation(k) \/ AbortActivation(k)
  BY <1>1, <1>9 DEF Tick, vars, dbVars, BeginActivation, AbortActivation
<1> HIDE DEF Kept
<1>10. Kept \/ (j \notin scheduled /\ row'[j].attempt = 0 /\ row'[j].owner = None)
  BY <1>1, <1>2, <1>4, <1>5, <1>6, <1>7, <1>8, <1>9 DEF Quiet, AdminStep, Kept
<1> QED BY <1>10 DEF Kept

LEMMA QuietFrame ==
  ASSUME TypeOK, LeaseInvariant, Quiet
  PROVE  now <= now' /\ blocked' = blocked /\ scheduled \subseteq scheduled'
<1>1. now \in Nat
  BY DEF TypeOK
<1>2. CASE Tick
  BY <1>1, <1>2, ConstantsAssumption DEF ConstantsAssumption, Tick, dbVars
<1>3. CASE UNCHANGED vars
  BY <1>1, <1>3 DEF vars, dbVars
<1>4. ASSUME NEW w \in Workers, Poll(w) \/ ClaimDue(w) \/ Start(w) \/ Break(w) \/ Crash(w) \/ Restart(w)
      PROVE  now' = now /\ blocked' = blocked /\ scheduled' = scheduled
  BY <1>4 DEF Poll, ClaimDue, Start, Break, Crash, Restart, dbVars
<1>5. ASSUME NEW s \in Sources, Decide(s)
      PROVE  now' = now /\ blocked' = blocked /\ scheduled' = scheduled
  BY <1>5 DEF Decide
<1>6. ASSUME NEW j \in Jobs, AdminStep(j)
      PROVE  now' = now /\ blocked' = blocked /\ scheduled \subseteq scheduled'
  BY <1>6 DEF AdminStep, ActivateConnector, BeginActivation, CommitActivation, AbortActivation, DisableTarget
<1> QED BY <1>1, <1>2, <1>3, <1>4, <1>5, <1>6 DEF Quiet

\* The end of an attempt: what it does to the row depends on who owns it.
LEMMA FinishEffect ==
  ASSUME TypeOK, LeaseInvariant, NEW w \in Workers, Finish(w)
  PROVE  \E c \in current[w] :
           /\ c \in Held(w) /\ c.job \in Jobs /\ \A d \in current[w] : d = c
           /\ now' = now /\ scheduled' = scheduled /\ \A v \in Workers : Held(v)' \subseteq Held(v)
           /\ blocked' = blocked \/ \E b : blocked' = blocked \cup {b}
           /\ failure[w] # None => \E b \in blocked' : b.job = c.job /\ b.attempt = c.attempt + 1
           /\ \A j \in Jobs : (j = c.job /\ row[j].owner = w) \/ row'[j] = row[j]
           /\ row[c.job].owner = w =>
                /\ row'[c.job].due = NextDue(c.job, now) /\ row'[c.job].owner = None
                /\ row'[c.job].attempt = row[c.job].attempt + 1 /\ c.attempt = row[c.job].attempt
<1>1. PICK c \in current[w] : FinishJob(w, c, failure[w])
  BY DEF Finish
<1>2. c \in Held(w) /\ c.job \in Jobs /\ \A d \in current[w] : d = c
  BY <1>1, HeldType DEF Held, LeaseInvariant, ClaimsFollowControl
<1>3. now' = now /\ scheduled' = scheduled /\ \A v \in Workers : Held(v)' \subseteq Held(v)
  BY DEF Finish, Held, TypeOK
<1>4. /\ blocked' = blocked \/ \E b : blocked' = blocked \cup {b}
      /\ failure[w] # None => \E b \in blocked' : b.job = c.job /\ b.attempt = c.attempt + 1
  <2> DEFINE e == [job |-> c.job, attempt |-> c.attempt + 1, code |-> failure[w]]
  <2>1. IF failure[w] = None \/ \E b \in blocked : b.job = c.job /\ b.attempt = c.attempt + 1
        THEN blocked' = blocked ELSE blocked' = blocked \cup {e}
    BY <1>1 DEF FinishJob, WithAudit
  <2>2. e.job = c.job /\ e.attempt = c.attempt + 1
    OBVIOUS
  <2> HIDE DEF e
  <2>3. blocked' = blocked \/ \E b : blocked' = blocked \cup {b}
    BY <2>1
  <2>4. failure[w] # None => \E b \in blocked' : b.job = c.job /\ b.attempt = c.attempt + 1
    BY <2>1, <2>2
  <2> QED BY <2>3, <2>4
<1>5. \A j \in Jobs : (j = c.job /\ row[j].owner = w) \/ row'[j] = row[j]
  BY <1>1, <1>2 DEF FinishJob, FinishedRow, TypeOK
<1>6. ASSUME row[c.job].owner = w
      PROVE  /\ row'[c.job].due = NextDue(c.job, now) /\ row'[c.job].owner = None
             /\ row'[c.job].attempt = row[c.job].attempt + 1 /\ c.attempt = row[c.job].attempt
  <2>1. row'[c.job] = Ended(row[c.job], NextDue(c.job, now), failure[w]) /\ row[c.job] \in JobRow
    BY <1>1, <1>2, <1>6 DEF FinishJob, FinishedRow, TypeOK
  <2>2. c.attempt = row[c.job].attempt
    BY <1>2, <1>6 DEF LeaseInvariant, ClaimsMatchRows
  <2> QED BY <2>1, <2>2, RowFields
<1> QED BY <1>1, <1>2, <1>3, <1>4, <1>5, <1>6

----------------------------------------------------------------------------
(* Due dates are a cadence apart *)

\* The due dates of a connector's runs and of the claims on it.
Past(j, d) ==
  \/ \E r \in runs : r.id.job = j /\ r.id.due = d
  \/ \E w \in Workers : \E c \in Held(w) : c.job = j /\ c.due = d

Spaced(j) ==
  /\ \A d \in Nat : Past(j, d) => d = row[j].due \/ d + Cadence[j] <= row[j].due
  /\ \A d, e \in Nat : Past(j, d) /\ Past(j, e) /\ d < e => d + Cadence[j] <= e

RunsAreOfConnectors == \A r \in runs : r.id.job \in scheduled /\ IsConnector(r.id.job)

DueInvariant ==
  /\ ClaimsWereDue /\ FailuresHaveCodes /\ RunsAreOfConnectors
  /\ \A j \in Jobs : IsConnector(j) => Spaced(j)

LEMMA Numbers ==
  ASSUME TypeOK, NEW j \in Jobs
  PROVE  /\ row[j].due \in Nat /\ row[j].attempt \in Nat /\ now \in Nat /\ Cadence[j] \in Nat \ {0}
         /\ NextDue(j, now) \in Nat /\ NextDue(j, now) >= now + Cadence[j]
<1>1. row[j].due \in Nat /\ row[j].attempt \in Nat /\ now \in Nat
  BY DEF TypeOK, JobRow
<1>2. Cadence[j] \in Nat \ {0} /\ Jitter[j] \in 0 .. 29
  BY ConstantsAssumption DEF ConstantsAssumption
<1> QED BY <1>1, <1>2 DEF NextDue

\* A step that leaves the row's due date as it is and adds no other.
LEMMA SpacedKept ==
  ASSUME TypeOK, NEW j \in Jobs, Spaced(j), row'[j].due = row[j].due,
         \A d \in Nat : Past(j, d)' => Past(j, d) \/ d = row[j].due
  PROVE  Spaced(j)'
<1>1. row[j].due \in Nat /\ Cadence[j] \in Nat \ {0}
  BY Numbers
<1>2. ASSUME NEW d \in Nat, Past(j, d)' PROVE d = row[j].due \/ d + Cadence[j] <= row[j].due
  BY <1>2 DEF Spaced
<1>3. ASSUME NEW d \in Nat, NEW e \in Nat, Past(j, d)', Past(j, e)', d < e PROVE d + Cadence[j] <= e
  <2>1. CASE Past(j, d) /\ Past(j, e)
    BY <1>3, <2>1 DEF Spaced
  <2>2. CASE e = row[j].due
    BY <1>1, <1>2, <1>3, <2>2
  <2>3. CASE d = row[j].due
    BY <1>1, <1>2, <1>3, <2>3
  <2> QED BY <1>3, <2>1, <2>2, <2>3
<1> QED BY <1>2, <1>3 DEF Spaced

\* The end of the owner's attempt moves the row a cadence beyond all that was due.
LEMMA SpacedEnded ==
  ASSUME TypeOK, NEW j \in Jobs, Spaced(j), row'[j].due = NextDue(j, now), row[j].due <= now,
         \A d \in Nat : Past(j, d)' => Past(j, d) \/ d = row[j].due
  PROVE  Spaced(j)'
<1>1. /\ row[j].due \in Nat /\ Cadence[j] \in Nat \ {0} /\ now \in Nat
      /\ row'[j].due \in Nat /\ row'[j].due >= now + Cadence[j]
  BY Numbers
<1>2. ASSUME NEW d \in Nat, Past(j, d)' PROVE d = row[j].due \/ d + Cadence[j] <= row[j].due
  BY <1>2 DEF Spaced
<1>3. ASSUME NEW d \in Nat, Past(j, d)' PROVE d + Cadence[j] <= row'[j].due
  BY <1>1, <1>2, <1>3
<1>4. ASSUME NEW d \in Nat, NEW e \in Nat, Past(j, d)', Past(j, e)', d < e PROVE d + Cadence[j] <= e
  <2>1. CASE Past(j, d) /\ Past(j, e)
    BY <1>4, <2>1 DEF Spaced
  <2>2. CASE e = row[j].due
    BY <1>1, <1>2, <1>4, <2>2
  <2>3. CASE d = row[j].due
    BY <1>1, <1>2, <1>4, <2>3
  <2> QED BY <1>4, <2>1, <2>2, <2>3
<1> QED BY <1>3, <1>4 DEF Spaced

LEMMA QuietFailures ==
  ASSUME TypeOK, FailuresHaveCodes, Quiet
  PROVE  FailuresHaveCodes'
<1>1. ASSUME NEW v \in Workers, Start(v) PROVE FailuresHaveCodes'
  <2>1. PICK c \in claims[v] : /\ failure' = [failure EXCEPT ![v] = Gate(v, c)]
                               /\ pc' = [pc EXCEPT ![v] = IF Gate(v, c) = None THEN "running" ELSE "failing"]
    BY <1>1 DEF Start
  <2> QED BY <2>1 DEF FailuresHaveCodes, TypeOK
<1>2. ASSUME NEW v \in Workers, Break(v) PROVE FailuresHaveCodes'
  <2>1. "JOB_EXECUTION_FAILED" # None
    BY NoneAssumption DEF ErrorCodes
  <2> QED BY <1>2, <2>1 DEF Break, FailuresHaveCodes, TypeOK
<1>3. ASSUME NEW v \in Workers, ClaimDue(v) PROVE FailuresHaveCodes'
  <2>1. PICK q \in {"idle", "ready"} : pc' = [pc EXCEPT ![v] = q]
    BY <1>3 DEF ClaimDue
  <2> QED BY <1>3, <2>1 DEF ClaimDue, FailuresHaveCodes, TypeOK
<1>4. ASSUME NEW v \in Workers, Poll(v) \/ Crash(v) \/ Restart(v) PROVE FailuresHaveCodes'
  BY <1>4 DEF Poll, Crash, Restart, FailuresHaveCodes, TypeOK
<1>5. CASE Tick \/ UNCHANGED vars \/ (\E s \in Sources : Decide(s)) \/ \E j \in Jobs : AdminStep(j)
  <2>1. pc' = pc /\ failure' = failure
    BY <1>5 DEF Tick, vars, workerVars, Decide, AdminStep, ActivateConnector, BeginActivation,
                CommitActivation, AbortActivation, DisableTarget
  <2> QED BY <2>1 DEF FailuresHaveCodes
<1> QED BY <1>1, <1>2, <1>3, <1>4, <1>5 DEF Quiet

LEMMA QuietDue ==
  ASSUME TypeOK, TypeOK', LeaseInvariant, RunInvariant, DueInvariant, Quiet, runs' = runs
  PROVE  DueInvariant'
<1>1. now <= now' /\ scheduled \subseteq scheduled' /\ now \in Nat /\ now' \in Nat
  BY QuietFrame DEF TypeOK
<1>2. RunsAreOfConnectors'
  BY <1>1 DEF DueInvariant, RunsAreOfConnectors
<1>3. FailuresHaveCodes'
  BY QuietFailures DEF DueInvariant
\* A claim is an old one, or of the row's due date.
<1>4. ASSUME NEW w \in Workers, NEW c \in Held(w)'
      PROVE  /\ c.job \in Jobs /\ c.job \in scheduled /\ c.due \in Nat
             /\ c \in Held(w) \/ (c.due <= now /\ c.due = row[c.job].due /\ row'[c.job].due = c.due)
  <2>1. CASE c \in Held(w)
    BY <2>1 DEF TypeOK, Held, Claim, LeaseInvariant, RowsFollowSchedule
  <2>2. CASE c \notin Held(w)
    BY <1>4, <2>2, QuietClaims, Numbers
  <2> QED BY <2>1, <2>2
<1>5. ASSUME NEW w \in Workers, NEW c \in Held(w)', IsConnector(c.job)
      PROVE  c.due <= now' /\ (row'[c.job].owner = w => c.due = row'[c.job].due)
  <2>1. c.job \in Jobs /\ c.job \in scheduled /\ c.due \in Nat
    BY <1>4
  <2>2. CASE c \notin Held(w)
    BY <1>1, <1>4, <2>1, <2>2
  <2>3. CASE c \in Held(w)
    <3>1. c.due <= now /\ (row[c.job].owner = w => c.due = row[c.job].due)
      BY <1>5, <2>3 DEF DueInvariant, ClaimsWereDue
    <3>2. ASSUME row'[c.job].owner = w PROVE row[c.job].owner = w /\ row'[c.job].due = row[c.job].due
      <4>1. ~ ClaimDue(w)
        BY <2>3, ClaimDueFrame
      <4>2. w # None
        BY ConstantsAssumption DEF ConstantsAssumption
      <4> QED BY <1>5, <2>1, <3>2, <4>1, <4>2, QuietRow
    <3> QED BY <1>1, <2>1, <3>1, <3>2
  <2> QED BY <2>2, <2>3
<1>6. ASSUME NEW j \in Jobs, IsConnector(j) PROVE Spaced(j)'
  <2>1. CASE row'[j].due = row[j].due
    <3>1. ASSUME NEW d \in Nat, Past(j, d)' PROVE Past(j, d) \/ d = row[j].due
      <4>1. CASE \E r \in runs : r.id.job = j /\ r.id.due = d
        BY <4>1 DEF Past
      <4>2. ASSUME NEW w \in Workers, NEW c \in Held(w)', c.job = j, c.due = d
            PROVE  Past(j, d) \/ d = row[j].due
        BY <1>4, <4>2 DEF Past
      <4> QED BY <3>1, <4>1, <4>2 DEF Past
    <3> QED BY <1>6, <2>1, <3>1, SpacedKept DEF DueInvariant
  <2>2. CASE j \notin scheduled
    <3>1. ASSUME NEW d, Past(j, d)' PROVE FALSE
      <4>1. ~ \E r \in runs' : r.id.job = j
        BY <2>2 DEF DueInvariant, RunsAreOfConnectors
      <4>2. ~ \E w \in Workers : \E c \in Held(w)' : c.job = j
        BY <1>4, <2>2
      <4> QED BY <3>1, <4>1, <4>2 DEF Past
    <3> QED BY <3>1 DEF Spaced
  <2> QED BY <1>6, <2>1, <2>2, QuietRow
<1> QED BY <1>2, <1>3, <1>5, <1>6 DEF DueInvariant, ClaimsWereDue

\* The end of an attempt, with or without a run.
LEMMA FinishDue ==
  ASSUME TypeOK, LeaseInvariant, RunInvariant, DueInvariant, NEW w \in Workers, Finish(w),
         runs' = runs \/ \E c \in current[w] : /\ IsConnector(c.job)
                                             /\ \A r \in runs' : r \in runs \/ r.id = RunId(c)
  PROVE  DueInvariant'
<1>1. PICK c \in current[w] :
        /\ c \in Held(w) /\ c.job \in Jobs /\ \A d \in current[w] : d = c
        /\ now' = now /\ scheduled' = scheduled /\ \A v \in Workers : Held(v)' \subseteq Held(v)
        /\ \A j \in Jobs : (j = c.job /\ row[j].owner = w) \/ row'[j] = row[j]
        /\ row[c.job].owner = w => row'[c.job].due = NextDue(c.job, now) /\ row'[c.job].owner = None
  BY FinishEffect
<1>2. \A r \in runs' : r \in runs \/ (IsConnector(c.job) /\ r.id.job = c.job /\ r.id.due = c.due)
  <2>1. CASE runs' = runs
    BY <2>1
  <2>2. ASSUME NEW e \in current[w], IsConnector(e.job), \A r \in runs' : r \in runs \/ r.id = RunId(e)
        PROVE  \A r \in runs' : r \in runs \/ (IsConnector(c.job) /\ r.id.job = c.job /\ r.id.due = c.due)
    <3>1. e = c
      BY <1>1
    <3>2. RunId(c).job = c.job /\ RunId(c).due = c.due
      BY DEF RunId
    <3> QED BY <2>2, <3>1, <3>2
  <2> QED BY <2>1, <2>2
<1>3. c.job \in scheduled
  BY <1>1 DEF LeaseInvariant, RowsFollowSchedule
<1>4. RunsAreOfConnectors'
  BY <1>1, <1>2, <1>3 DEF DueInvariant, RunsAreOfConnectors
<1>5. FailuresHaveCodes'
  <2>1. PICK q \in {"idle", "ready"} : pc' = [pc EXCEPT ![w] = q]
    BY DEF Finish
  <2> QED BY <2>1 DEF Finish, FailuresHaveCodes, DueInvariant, TypeOK
<1>6. ClaimsWereDue'
  <2> SUFFICES ASSUME NEW v \in Workers, NEW d \in Held(v)', IsConnector(d.job)
               PROVE  d.due <= now' /\ (row'[d.job].owner = v => d.due = row'[d.job].due)
    BY DEF ClaimsWereDue
  <2>1. d \in Held(v) /\ d.job \in Jobs
    BY <1>1, HeldType
  <2>2. d.due <= now /\ (row[d.job].owner = v => d.due = row[d.job].due)
    BY <2>1 DEF DueInvariant, ClaimsWereDue
  <2>3. v # None
    BY ConstantsAssumption DEF ConstantsAssumption
  <2> QED BY <1>1, <2>1, <2>2, <2>3
<1>7. ASSUME NEW j \in Jobs, NEW d, Past(j, d)' PROVE Past(j, d)
  <2>1. CASE \E r \in runs' : r.id.job = j /\ r.id.due = d
    BY <1>1, <1>2, <2>1 DEF Past
  <2>2. CASE \E v \in Workers : \E e \in Held(v)' : e.job = j /\ e.due = d
    BY <1>1, <2>2 DEF Past
  <2> QED BY <1>7, <2>1, <2>2 DEF Past
<1>8. ASSUME NEW j \in Jobs, IsConnector(j) PROVE Spaced(j)'
  <2>1. CASE row'[j] = row[j]
    BY <1>7, <1>8, <2>1, SpacedKept DEF DueInvariant
  <2>2. CASE j = c.job /\ row[j].owner = w
    <3>1. row[j].due <= now
      BY <1>1, <1>8, <2>2 DEF DueInvariant, ClaimsWereDue
    <3> QED BY <1>1, <1>7, <1>8, <2>2, <3>1, SpacedEnded DEF DueInvariant
  <2> QED BY <1>1, <2>1, <2>2
<1> QED BY <1>4, <1>5, <1>6, <1>8 DEF DueInvariant

----------------------------------------------------------------------------
(* The steps of a run *)

LEMMA RunSteps ==
  ASSUME TypeOK, RunInvariant, [RunNext]_<<vars, runVars>>
  PROVE  \/ Quiet /\ runs' = runs
         \/ \E w \in Workers : FinishOther(w) \/ CommitRun(w)
<1>1. CASE UNCHANGED <<vars, runVars>>
  BY <1>1 DEF Quiet, runVars
<1>2. CASE Outside
  <2>1. runs' = runs
    BY <1>2 DEF Outside, runVars
  <2> QED BY <1>2, <2>1 DEF Outside, Quiet, AdminStep
<1>3. ASSUME NEW w \in Workers, InsertRun(w) \/ Fetch(w) \/ StoreAndParse(w) PROVE Quiet /\ runs' = runs
  <2>1. UNCHANGED vars /\ runs' = runs
    BY <1>3 DEF InsertRun, Fetch, StoreAndParse
  <2> QED BY <2>1 DEF Quiet
<1>4. ASSUME NEW w \in Workers, RollBack(w) PROVE Quiet /\ runs' = runs
  BY <1>4 DEF RollBack, Quiet
<1> QED BY <1>1, <1>2, <1>3, <1>4 DEF RunNext, RunStep

\* A run is committed for the one claim in execution, a connector's.
LEMMA CommittedRun ==
  ASSUME TypeOK, LeaseInvariant, RunInvariant, NEW w \in Workers, CommitRun(w)
  PROVE  \E c \in current[w] :
           /\ IsConnector(c.job) /\ \A d \in current[w] : d = c
           /\ runs' = Recorded(w, c) /\ Finish(w)
           /\ \A r \in runs' : r \in runs \/ r.id = RunId(c)
           /\ \A r \in runs : \E q \in runs' : q.id = r.id
           /\ \E q \in runs' : q.id = RunId(c)
<1>1. PICK c \in current[w] : runs' = Recorded(w, c)
  BY DEF CommitRun
<1>2. Finish(w) /\ InRun(w) /\ \A d \in current[w] : d = c
  BY <1>1, InvariantParts DEF CommitRun, LeaseInvariant, ClaimsFollowControl
<1>3. IsConnector(c.job)
  BY <1>2 DEF InRun, Executing, IsConnector
<1> DEFINE x == [id |-> RunId(c), status |-> work[w].outcome, raws |-> work[w].raws]
<1>4. x.id = RunId(c) /\ runs' = {r \in runs : r.id # RunId(c)} \cup {x}
  BY <1>1 DEF Recorded
<1> HIDE DEF x
<1>5. \A r \in runs' : r \in runs \/ r.id = RunId(c)
  BY <1>4
<1>6. x \in runs' /\ \A r \in runs : r \in runs' \/ x.id = r.id
  BY <1>4
<1>7. \A r \in runs : \E q \in runs' : q.id = r.id
  BY <1>6
<1>8. \E q \in runs' : q.id = RunId(c)
  BY <1>4, <1>6
<1> QED BY <1>1, <1>2, <1>3, <1>5, <1>7, <1>8

LEMMA DueStep ==
  ASSUME TypeOK, TypeOK', LeaseInvariant, RunInvariant, DueInvariant, [RunNext]_<<vars, runVars>>
  PROVE  DueInvariant'
<1>1. ASSUME NEW w \in Workers, FinishOther(w) PROVE DueInvariant'
  BY <1>1, FinishDue DEF FinishOther, runVars
<1>2. ASSUME NEW w \in Workers, CommitRun(w) PROVE DueInvariant'
  BY <1>2, CommittedRun, FinishDue
<1> QED BY <1>1, <1>2, RunSteps, QuietDue

LEMMA RunsAreLeased == RunSpec => []TypeOK /\ []LeaseInvariant
BY ConnectorRunsImplementScheduler, TypeCorrect, LeasesCorrect, PTL DEF ImplementsScheduler

LEMMA DueInit == RunInit => DueInvariant
<1> SUFFICES ASSUME RunInit PROVE DueInvariant
  OBVIOUS
<1>1. runs = {} /\ (\A w \in Workers : Held(w) = {} /\ pc[w] = "idle")
  BY DEF RunInit, Init, WorkerInit, Held
<1>2. \A j, d : ~ Past(j, d)
  BY <1>1 DEF Past
<1> QED BY <1>1, <1>2 DEF DueInvariant, ClaimsWereDue, FailuresHaveCodes, RunsAreOfConnectors, Spaced

\* The due dates of a connector's runs and claims are its row's or a cadence behind.
THEOREM DuesCorrect == RunSpec => []DueInvariant
<1>1. RunInit => DueInvariant
  BY DueInit
<1>2. TypeOK /\ TypeOK' /\ LeaseInvariant /\ RunInvariant /\ DueInvariant /\ [RunNext]_<<vars, runVars>>
      => DueInvariant'
  BY DueStep
<1> QED BY <1>1, <1>2, RunsAreLeased, RunInvariantHolds, PTL DEF RunSpec

\* The runs of one connector are a cadence apart, whatever leases lapse and whichever
\* worker commits late ("no retry loop exceeds the configured cadence").
THEOREM RunsAreACadenceApart == RunSpec => []RunsKeepCadence
<1>1. ASSUME RunInvariant, DueInvariant PROVE RunsKeepCadence
  <2> SUFFICES ASSUME NEW q \in runs, NEW r \in runs, q.id.job = r.id.job, q.id.due < r.id.due
               PROVE  q.id.due + Cadence[q.id.job] <= r.id.due
    BY DEF RunsKeepCadence
  <2>1. q.id \in RunIds /\ r.id \in RunIds
    BY <1>1, InvariantParts DEF RowsSound
  <2>2. q.id.job \in Jobs /\ q.id.due \in Nat /\ r.id.due \in Nat
    BY <2>1 DEF RunIds
  <2>3. Past(q.id.job, q.id.due) /\ Past(q.id.job, r.id.due)
    BY DEF Past
  <2>4. Spaced(q.id.job)
    BY <1>1, <2>2 DEF DueInvariant, RunsAreOfConnectors
  <2> QED BY <2>2, <2>3, <2>4 DEF Spaced
<1> QED BY <1>1, DuesCorrect, RunInvariantHolds, PTL

----------------------------------------------------------------------------
(* Counting attempts *)

RunsOf(j) == {r \in runs : r.id.job = j}
DuesOf(j) == {r.id.due : r \in RunsOf(j)}
EntriesOf(j) == {b \in blocked : b.job = j}

\* The attempts that left no audit entry, and the due dates of the runs of earlier ones.
Missing(j) == {n \in 1 .. row[j].attempt : ~ \E b \in blocked : b.job = j /\ b.attempt = n}
Behind(j) == {d \in DuesOf(j) : d < row[j].due}

AttemptsCounted ==
  /\ IsFiniteSet(runs) /\ IsFiniteSet(blocked)
  /\ \A j \in Jobs : IsConnector(j) => Cardinality(Missing(j)) <= Cardinality(Behind(j))

HistoryInvariant == DueInvariant /\ AttemptsCounted

LEMMA FinitePart ==
  ASSUME NEW S, IsFiniteSet(S), NEW T \in SUBSET S
  PROVE  IsFiniteSet(T) /\ Cardinality(T) \in Nat /\ Cardinality(S) \in Nat /\ Cardinality(T) <= Cardinality(S)
<1>1. IsFiniteSet(T) /\ Cardinality(T) <= Cardinality(S)
  BY FS_Subset
<1> QED BY <1>1, FS_CardinalityType

\* No more due dates than runs, and no more attempts than entries.
LEMMA DuesOfRuns ==
  ASSUME NEW S, IsFiniteSet(S)
  PROVE  IsFiniteSet({r.id.due : r \in S}) /\ Cardinality({r.id.due : r \in S}) <= Cardinality(S)
<1> DEFINE T == {r.id.due : r \in S}
           f == [r \in S |-> r.id.due]
<1>1. f \in Surjection(S, T)
  BY DEF Surjection
<1> HIDE DEF f, T
<1>2. IsFiniteSet(T) /\ Cardinality(T) <= Cardinality(S)
  BY <1>1, FS_Surjection
<1> QED BY <1>2 DEF T

LEMMA AttemptsOfEntries ==
  ASSUME NEW S, IsFiniteSet(S)
  PROVE  IsFiniteSet({b.attempt : b \in S}) /\ Cardinality({b.attempt : b \in S}) <= Cardinality(S)
<1> DEFINE T == {b.attempt : b \in S}
           f == [b \in S |-> b.attempt]
<1>1. f \in Surjection(S, T)
  BY DEF Surjection
<1> HIDE DEF f, T
<1>2. IsFiniteSet(T) /\ Cardinality(T) <= Cardinality(S)
  BY <1>1, FS_Surjection
<1> QED BY <1>2 DEF T

LEMMA BehindFinite ==
  ASSUME IsFiniteSet(runs), NEW j
  PROVE  /\ IsFiniteSet(Behind(j)) /\ Cardinality(Behind(j)) \in Nat /\ Cardinality(RunsOf(j)) \in Nat
         /\ Cardinality(Behind(j)) <= Cardinality(RunsOf(j))
<1>1. IsFiniteSet(RunsOf(j)) /\ Cardinality(RunsOf(j)) \in Nat
  BY FinitePart DEF RunsOf
<1>2. IsFiniteSet(DuesOf(j)) /\ Cardinality(DuesOf(j)) <= Cardinality(RunsOf(j))
  BY <1>1, DuesOfRuns DEF DuesOf
<1>3. Behind(j) \in SUBSET DuesOf(j)
  BY DEF Behind
<1>4. /\ IsFiniteSet(Behind(j)) /\ Cardinality(Behind(j)) \in Nat /\ Cardinality(DuesOf(j)) \in Nat
      /\ Cardinality(Behind(j)) <= Cardinality(DuesOf(j))
  BY <1>2, <1>3, FinitePart
<1> QED BY <1>1, <1>2, <1>4

LEMMA BehindFinitePrimed ==
  ASSUME IsFiniteSet(runs'), NEW j
  PROVE  IsFiniteSet(Behind(j)') /\ Cardinality(Behind(j)') \in Nat
<1>1. IsFiniteSet(RunsOf(j)')
  BY FinitePart DEF RunsOf
<1>2. IsFiniteSet(DuesOf(j)')
  BY <1>1, DuesOfRuns DEF DuesOf
<1>3. Behind(j)' \in SUBSET DuesOf(j)'
  BY DEF Behind
<1> QED BY <1>2, <1>3, FinitePart

LEMMA MissingFinite ==
  ASSUME TypeOK, NEW j \in Jobs
  PROVE  IsFiniteSet(Missing(j)) /\ Cardinality(Missing(j)) \in Nat
<1>1. row[j].attempt \in Nat
  BY Numbers
<1>2. IsFiniteSet(1 .. row[j].attempt)
  BY <1>1, FS_Interval
<1>3. Missing(j) \in SUBSET (1 .. row[j].attempt)
  BY DEF Missing
<1> QED BY <1>2, <1>3, FinitePart

\* Runs that are only added to keep the due dates that are behind.
LEMMA BehindKept ==
  ASSUME NEW j, \A r \in runs : \E q \in runs' : q.id = r.id,
         \A d \in DuesOf(j) : d < row[j].due => d < row'[j].due
  PROVE  Behind(j) \subseteq Behind(j)'
<1>1. DuesOf(j) \subseteq DuesOf(j)'
  BY DEF DuesOf, RunsOf
<1> QED BY <1>1 DEF Behind

\* The attempts of j are counted when a step leaves no further one without an entry.
LEMMA CountKept ==
  ASSUME TypeOK, IsFiniteSet(runs), IsFiniteSet(runs'), NEW j \in Jobs,
         Cardinality(Missing(j)) <= Cardinality(Behind(j)),
         Missing(j)' \subseteq Missing(j), Behind(j) \subseteq Behind(j)'
  PROVE  Cardinality(Missing(j)') <= Cardinality(Behind(j)')
<1>1. IsFiniteSet(Missing(j)) /\ Cardinality(Missing(j)) \in Nat
  BY MissingFinite
<1>2. Cardinality(Missing(j)') <= Cardinality(Missing(j)) /\ Cardinality(Missing(j)') \in Nat
  BY <1>1, FinitePart
<1>3. IsFiniteSet(Behind(j)') /\ Cardinality(Behind(j)') \in Nat
  BY BehindFinitePrimed
<1>4. Cardinality(Behind(j)) <= Cardinality(Behind(j)') /\ Cardinality(Behind(j)) \in Nat
  BY <1>3, FinitePart
<1> QED BY <1>1, <1>2, <1>3, <1>4

\* One more attempt has no entry, and one more due date is behind.
LEMMA CountRaised ==
  ASSUME TypeOK, IsFiniteSet(runs), IsFiniteSet(runs'), NEW j \in Jobs,
         Cardinality(Missing(j)) <= Cardinality(Behind(j)), NEW n, NEW d,
         Missing(j)' \subseteq Missing(j) \cup {n},
         d \notin Behind(j), Behind(j) \cup {d} \subseteq Behind(j)'
  PROVE  Cardinality(Missing(j)') <= Cardinality(Behind(j)')
<1>1. IsFiniteSet(Missing(j)) /\ Cardinality(Missing(j)) \in Nat
  BY MissingFinite
<1>2. /\ IsFiniteSet(Missing(j) \cup {n}) /\ Cardinality(Missing(j) \cup {n}) <= Cardinality(Missing(j)) + 1
  <2> DEFINE S == Missing(j)
  <2> HIDE DEF S
  <2>1. IsFiniteSet(S) /\ Cardinality(S) \in Nat
    BY <1>1 DEF S
  <2>2. /\ IsFiniteSet(S \cup {n})
        /\ Cardinality(S \cup {n}) = IF n \in S THEN Cardinality(S) ELSE Cardinality(S) + 1
    BY <2>1, FS_AddElement
  <2>3. IsFiniteSet(S \cup {n}) /\ Cardinality(S \cup {n}) <= Cardinality(S) + 1
    BY <2>1, <2>2
  <2> QED BY <2>3 DEF S
<1>3. /\ Cardinality(Missing(j)') <= Cardinality(Missing(j) \cup {n}) /\ Cardinality(Missing(j)') \in Nat
      /\ Cardinality(Missing(j) \cup {n}) \in Nat
  BY <1>2, FinitePart
<1>4. IsFiniteSet(Behind(j)) /\ Cardinality(Behind(j)) \in Nat
  BY BehindFinite
<1>5. Cardinality(Behind(j) \cup {d}) = Cardinality(Behind(j)) + 1
  BY <1>4, FS_AddElement
<1>6. IsFiniteSet(Behind(j)') /\ Cardinality(Behind(j)') \in Nat
  BY BehindFinitePrimed
<1>7. Cardinality(Behind(j) \cup {d}) <= Cardinality(Behind(j)')
  BY <1>6, FinitePart
<1> QED BY <1>1, <1>2, <1>3, <1>4, <1>5, <1>6, <1>7

LEMMA QuietCount ==
  ASSUME TypeOK, LeaseInvariant, RunInvariant, AttemptsCounted, Quiet, runs' = runs
  PROVE  AttemptsCounted'
<1>1. blocked' = blocked
  BY QuietFrame
<1>2. ASSUME NEW j \in Jobs, IsConnector(j) PROVE Cardinality(Missing(j)') <= Cardinality(Behind(j)')
  <2>1. CASE row'[j].due = row[j].due /\ row'[j].attempt = row[j].attempt
    <3>1. Missing(j)' = Missing(j) /\ Behind(j)' = Behind(j)
      BY <1>1, <2>1 DEF Missing, Behind, DuesOf, RunsOf
    <3> QED BY <1>2, <3>1 DEF AttemptsCounted
  <2>2. CASE row'[j].attempt = 0
    <3>1. Missing(j)' = {}
      BY <2>2 DEF Missing
    <3>2. Cardinality(Missing(j)') = 0
      BY <3>1, FS_EmptySet
    <3>3. Cardinality(Behind(j)') \in Nat
      BY BehindFinitePrimed DEF AttemptsCounted
    <3> QED BY <3>2, <3>3
  <2> QED BY <1>2, <2>1, <2>2, QuietRow
<1> QED BY <1>1, <1>2 DEF AttemptsCounted

\* A run's id goes in if the claim's attempt succeeded, an entry if it failed.
LEMMA FinishCount ==
  ASSUME TypeOK, TypeOK', LeaseInvariant, RunInvariant, DueInvariant, AttemptsCounted,
         NEW w \in Workers, Finish(w), IsFiniteSet(runs'),
         \A r \in runs : \E q \in runs' : q.id = r.id,
         NEW e \in current[w],
         \/ ~ IsConnector(e.job)
         \/ failure[w] # None
         \/ \E q \in runs' : q.id = RunId(e)
  PROVE  AttemptsCounted'
<1>1. PICK c \in current[w] :
        /\ c \in Held(w) /\ c.job \in Jobs /\ \A d \in current[w] : d = c
        /\ blocked' = blocked \/ \E b : blocked' = blocked \cup {b}
        /\ failure[w] # None => \E b \in blocked' : b.job = c.job /\ b.attempt = c.attempt + 1
        /\ \A j \in Jobs : (j = c.job /\ row[j].owner = w) \/ row'[j] = row[j]
        /\ row[c.job].owner = w =>
             /\ row'[c.job].due = NextDue(c.job, now)
             /\ row'[c.job].attempt = row[c.job].attempt + 1 /\ c.attempt = row[c.job].attempt
  BY FinishEffect
<1>2. e = c
  BY <1>1
<1>3. blocked \subseteq blocked' /\ IsFiniteSet(blocked')
  <2>1. IsFiniteSet(blocked)
    BY DEF AttemptsCounted
  <2>2. \A b : IsFiniteSet(blocked \cup {b})
    BY <2>1, FS_AddElement
  <2> QED BY <1>1, <2>1, <2>2
<1>4. ASSUME NEW j \in Jobs, IsConnector(j) PROVE Cardinality(Missing(j)') <= Cardinality(Behind(j)')
  <2>1. Cardinality(Missing(j)) <= Cardinality(Behind(j)) /\ IsFiniteSet(runs)
    BY <1>4 DEF AttemptsCounted
  <2>2. CASE row'[j] = row[j]
    <3>1. Missing(j)' \subseteq Missing(j)
      BY <1>3, <2>2 DEF Missing
    <3>2. Behind(j) \subseteq Behind(j)'
      BY <2>2, BehindKept
    <3> QED BY <2>1, <3>1, <3>2, CountKept
  <2>3. CASE j = c.job /\ row[j].owner = w
    <3>1. /\ row[j].due \in Nat /\ row[j].attempt \in Nat /\ row[j].due < row'[j].due /\ row'[j].due \in Nat
          /\ row'[j].attempt = row[j].attempt + 1 /\ c.attempt = row[j].attempt /\ c.due = row[j].due
      <4>1. c.due <= now /\ c.due = row[j].due
        BY <1>1, <1>4, <2>3 DEF DueInvariant, ClaimsWereDue
      <4>2. row'[j].due = NextDue(j, now) /\ row'[j].attempt = row[j].attempt + 1 /\ c.attempt = row[j].attempt
        BY <1>1, <2>3
      <4> QED BY <4>1, <4>2, Numbers
    <3>2. DuesOf(j) \subseteq Nat
      <4>1. \A r \in runs : r.id.due \in Nat
        BY InvariantParts DEF RowsSound, RunIds
      <4> QED BY <4>1 DEF DuesOf, RunsOf
    <3>3. Behind(j) \subseteq Behind(j)'
      BY <3>1, <3>2, BehindKept
    <3>4. Missing(j)' \subseteq Missing(j) \cup {row[j].attempt + 1}
      BY <1>3, <3>1 DEF Missing
    <3>5. CASE failure[w] # None
      <4>1. row[j].attempt + 1 \notin Missing(j)'
        BY <1>1, <2>3, <3>1, <3>5 DEF Missing
      <4>2. Missing(j)' \subseteq Missing(j)
        BY <3>4, <4>1
      <4> QED BY <2>1, <3>3, <4>2, CountKept
    <3>6. CASE \E q \in runs' : q.id = RunId(e)
      <4>1. row[j].due \in DuesOf(j)'
        <5>1. PICK q \in runs' : q.id = RunId(c)
          BY <1>2, <3>6
        <5>2. q.id.job = j /\ q.id.due = row[j].due
          BY <2>3, <3>1, <5>1 DEF RunId
        <5> QED BY <5>1, <5>2 DEF DuesOf, RunsOf
      <4>2. row[j].due \in Behind(j)' /\ row[j].due \notin Behind(j)
        BY <3>1, <4>1 DEF Behind
      <4>3. Behind(j) \cup {row[j].due} \subseteq Behind(j)'
        BY <3>3, <4>2
      <4>4. IsFiniteSet(runs')
        OBVIOUS
      <4> QED BY <2>1, <3>4, <4>2, <4>3, <4>4, CountRaised
    <3> QED BY <1>2, <1>4, <2>3, <3>5, <3>6
  <2> QED BY <1>1, <2>2, <2>3
<1> QED BY <1>3, <1>4 DEF AttemptsCounted

LEMMA CountStep ==
  ASSUME TypeOK, TypeOK', LeaseInvariant, RunInvariant, HistoryInvariant, [RunNext]_<<vars, runVars>>
  PROVE  HistoryInvariant'
<1>1. DueInvariant'
  BY DueStep DEF HistoryInvariant
<1>2. ASSUME NEW w \in Workers, FinishOther(w) PROVE AttemptsCounted'
  <2>1. Finish(w) /\ ~ InRun(w) /\ runs' = runs
    BY <1>2 DEF FinishOther, runVars
  <2>2. PICK c \in current[w] : TRUE
    BY <2>1 DEF Finish
  <2>3. ~ IsConnector(c.job) \/ failure[w] # None
    <3>1. pc[w] = "running" \/ pc[w] = "failing"
      BY <2>1 DEF Finish
    <3>2. pc[w] = "failing" => failure[w] # None
      BY DEF HistoryInvariant, DueInvariant, FailuresHaveCodes
    <3> QED BY <2>1, <2>2, <3>1, <3>2 DEF InRun, Executing, IsConnector
  <2>4. IsFiniteSet(runs')
    BY <2>1 DEF HistoryInvariant, AttemptsCounted
  <2> QED BY <2>1, <2>3, <2>4, FinishCount DEF HistoryInvariant
<1>3. ASSUME NEW w \in Workers, CommitRun(w) PROVE AttemptsCounted'
  <2>1. PICK c \in current[w] :
          /\ runs' = Recorded(w, c) /\ Finish(w)
          /\ \A r \in runs : \E q \in runs' : q.id = r.id
          /\ \E q \in runs' : q.id = RunId(c)
    BY <1>3, CommittedRun
  <2>2. IsFiniteSet(runs')
    <3> DEFINE S == {r \in runs : r.id # RunId(c)}
               x == [id |-> RunId(c), status |-> work[w].outcome, raws |-> work[w].raws]
    <3>1. IsFiniteSet(S)
      BY FinitePart DEF HistoryInvariant, AttemptsCounted
    <3>2. runs' = S \cup {x}
      BY <2>1 DEF Recorded
    <3> HIDE DEF S, x
    <3> QED BY <3>1, <3>2, FS_AddElement
  <2> QED BY <2>1, <2>2, FinishCount DEF HistoryInvariant
<1> QED BY <1>1, <1>2, <1>3, RunSteps, QuietCount DEF HistoryInvariant

\* An attempt of a connector that left no audit entry left a run whose due date is behind the row's.
THEOREM HistoryCorrect == RunSpec => []HistoryInvariant
<1>1. RunInit => AttemptsCounted
  <2> SUFFICES ASSUME RunInit PROVE AttemptsCounted
    OBVIOUS
  <2>1. runs = {} /\ blocked = {} /\ \A j \in Jobs : row[j].attempt = 0
    BY DEF RunInit, Init, NoRow
  <2>2. IsFiniteSet(runs) /\ IsFiniteSet(blocked)
    BY <2>1, FS_EmptySet
  <2>3. \A j \in Jobs : Missing(j) = {} /\ Cardinality(Behind(j)) \in Nat
    BY <2>1, <2>2, BehindFinite DEF Missing
  <2>4. Cardinality({}) = 0
    BY FS_EmptySet
  <2> QED BY <2>2, <2>3, <2>4 DEF AttemptsCounted
<1>2. TypeOK /\ TypeOK' /\ LeaseInvariant /\ RunInvariant /\ HistoryInvariant /\ [RunNext]_<<vars, runVars>>
      => HistoryInvariant'
  BY CountStep
<1>3. RunInit => HistoryInvariant
  <2>1. RunInit => DueInvariant
    BY DueInit
  <2> QED BY <1>1, <2>1 DEF HistoryInvariant
<1> QED BY <1>2, <1>3, RunsAreLeased, RunInvariantHolds, PTL DEF RunSpec

\* Every attempt counted against a connector left its run or its audit entry behind,
\* though a stale worker may write either first, under the same key.
THEOREM AttemptsAreTraced == RunSpec => []AttemptsLeaveTraces
<1>1. ASSUME TypeOK, HistoryInvariant PROVE AttemptsLeaveTraces
  <2> SUFFICES ASSUME NEW j \in Jobs, IsConnector(j)
               PROVE  row[j].attempt <= Cardinality(RunsOf(j)) + Cardinality(EntriesOf(j))
    BY DEF AttemptsLeaveTraces, IsConnector, RunsOf, EntriesOf
  <2> DEFINE all == 1 .. row[j].attempt
             named == {b.attempt : b \in EntriesOf(j)}
  <2>1. IsFiniteSet(runs) /\ IsFiniteSet(blocked) /\ Cardinality(Missing(j)) <= Cardinality(Behind(j))
    BY <1>1 DEF HistoryInvariant, AttemptsCounted
  <2>2. row[j].attempt \in Nat
    BY <1>1, Numbers
  <2>3. IsFiniteSet(all) /\ Cardinality(all) = row[j].attempt
    <3>1. IsFiniteSet(1 .. row[j].attempt)
      BY <2>2, FS_Interval
    <3>2. Cardinality(1 .. row[j].attempt) = IF 1 > row[j].attempt THEN 0 ELSE row[j].attempt - 1 + 1
      BY <2>2, FS_Interval
    <3> QED BY <2>2, <3>1, <3>2
  <2>4. IsFiniteSet(EntriesOf(j)) /\ Cardinality(EntriesOf(j)) \in Nat
    BY <2>1, FinitePart DEF EntriesOf
  <2>5. IsFiniteSet(named) /\ Cardinality(named) <= Cardinality(EntriesOf(j))
    BY <2>4, AttemptsOfEntries
  <2>6. all \subseteq Missing(j) \cup named
    BY DEF Missing, EntriesOf
  <2> HIDE DEF all, named
  <2>7. IsFiniteSet(Missing(j)) /\ Cardinality(Missing(j)) \in Nat
    BY <1>1, MissingFinite
  <2>8. /\ IsFiniteSet(Missing(j) \cup named)
        /\ Cardinality(Missing(j) \cup named)
             = Cardinality(Missing(j)) + Cardinality(named) - Cardinality(Missing(j) \cap named)
    BY <2>5, <2>7, FS_Union
  <2>9. Cardinality(Missing(j) \cap named) \in Nat /\ Cardinality(named) \in Nat
    BY <2>5, FinitePart
  <2>10. Cardinality(all) <= Cardinality(Missing(j) \cup named)
    BY <2>6, <2>8, FinitePart
  <2>11. Cardinality(Behind(j)) \in Nat /\ Cardinality(RunsOf(j)) \in Nat
         /\ Cardinality(Behind(j)) <= Cardinality(RunsOf(j))
    BY <2>1, BehindFinite
  <2> QED BY <2>1, <2>2, <2>3, <2>4, <2>5, <2>7, <2>8, <2>9, <2>10, <2>11
<1> QED BY <1>1, HistoryCorrect, RunsAreLeased, PTL

=============================================================================
