----------------------------- MODULE Scheduler -----------------------------
(***************************************************************************)
(* The leased job queue of the worker and the approval gate in front of    *)
(* it: services/worker/hk_data_worker/{scheduler,service}.py, the gate at  *)
(* the start of execution.py, the approval and activation transactions of  *)
(* services/api/src/postgres-repository.ts and the triggers of             *)
(* services/api/migrations/{004,006,008}.                                  *)
(*                                                                         *)
(* Shared state is what PostgreSQL holds: one scheduler_job row per job,   *)
(* the approvals of each source in the order they were committed, and the  *)
(* activation of each target.  A worker is a single-threaded loop: it      *)
(* reads the clock, runs one transaction that pauses unauthorised jobs and *)
(* leases due ones, then executes its claims one after the other from the  *)
(* snapshots the claim returned.  Each `with connection.transaction()`     *)
(* block is one action here (the connection is idle when run_once is       *)
(* called; WorkerSession.tla is about the connection main() passes).       *)
(* Times are seconds; the clock takes its values in the finite Instants.   *)
(***************************************************************************)
EXTENDS Naturals, Sequences, FiniteSets

CONSTANTS
  Workers,        \* worker identities, hostname-pid
  RawWorkers,     \* the workers that run with evidence_mode "raw"
  Jobs,           \* scheduler_job.job_id, one per activated target
  Sources,
  SourceOf,       \* [Jobs -> Sources]
  KindOf,         \* [Jobs -> Kinds], scheduler_job.job_type
  Cadence,        \* [Jobs -> Nat], scheduler_job.cadence_seconds
  Jitter,         \* [Jobs -> Nat], hash of the job id
  None,
  LeaseSeconds,   \* 60 in run_once
  ClaimLimit,     \* 20 in run_once
  Instants,       \* the instants at which the clock may be read
  Offers,         \* the decisions an administrator may take: [decision, scope, expiresAt]
  MaxDecisions,   \* bound: approval decisions per source
  MaxActivations, \* bound: activation requests per monitor
  MaxCrashes      \* bound: worker crashes altogether

Kinds    == {"connector", "monitor"}
Granting == {"approved", "restricted"}
Revoking == {"rejected", "revoked"}

ASSUME ConstantsAssumption ==
  /\ RawWorkers \subseteq Workers
  /\ SourceOf \in [Jobs -> Sources]
  /\ KindOf \in [Jobs -> Kinds]
  /\ Cadence \in [Jobs -> Nat \ {0}]
  /\ Jitter \in [Jobs -> 0 .. 29]
  /\ None \notin Workers
  /\ LeaseSeconds \in Nat \ {0}
  /\ ClaimLimit \in Nat \ {0}
  /\ Instants \subseteq Nat
  /\ 0 \in Instants
  /\ Offers \subseteq [decision : Granting \cup Revoking, scope : SUBSET Kinds, expiresAt : Nat]

VARIABLES
  now,         \* the clock every process reads
  approvals,   \* [Sources -> Seq(approval)]: source_approval, oldest first
  target,      \* [Jobs -> {"absent", "off", "on"}]: connector_definition.enabled
               \* or monitor_target.activation_status = 'approved'
  scheduled,   \* the jobs that have a scheduler_job row
  row,         \* [Jobs -> scheduler_job row]
  blocked,     \* the scheduler.blocked audit entries of failed attempts
  pending,     \* [Jobs -> SUBSET Instants]: occurredAt of the activation
               \* transaction that has read the approval and not committed
  activations, \* [Jobs -> Nat]: activation requests so far
  pc,          \* [Workers -> control state of the loop]
  pollAt,      \* [Workers -> instant run_once started at]
  claims,      \* [Workers -> claims not started yet]
  current,     \* [Workers -> set of at most one claim, the one in execution]
  failure,     \* [Workers -> the error code to record]
  crashes

dbVars     == <<approvals, target, scheduled, row, blocked, pending, activations>>
workerVars == <<pc, pollAt, claims, current, failure>>
vars       == <<now, dbVars, workerVars, crashes>>

----------------------------------------------------------------------------
(* Approvals *)

Approval == [decision : Granting \cup Revoking, scope : SUBSET Kinds,
             decidedAt : Nat, expiresAt : Nat]

\* A kind stands for its (project, purpose) pair: P01/connector-observation for
\* connectors, P14/quality-monitoring for monitors.
Authorizes(a, kind, t) ==
  /\ a.decision \in Granting
  /\ kind \in a.scope
  /\ a.decidedAt <= t /\ t < a.expiresAt

\* ORDER BY decided_at DESC, approval_id DESC LIMIT 1
Latest(s) == approvals[s][Len(approvals[s])]

Effective(j, t) ==
  /\ approvals[SourceOf[j]] # <<>>
  /\ Authorizes(Latest(SourceOf[j]), KindOf[j], t)

Authorised(j, t) == target[j] = "on" /\ Effective(j, t)

----------------------------------------------------------------------------
(* Job rows and claims *)

\* TARGET_NOT_ACTIVE stands for CONNECTOR_NOT_ACTIVE and MONITOR_NOT_ACTIVE.
ErrorCodes ==
  {"SCHEDULER_START_LATE", "FABRIC_PROFILE_REQUIRED", "TARGET_NOT_ACTIVE",
   "APPROVAL_NOT_EFFECTIVE", "JOB_EXECUTION_FAILED"}

ASSUME NoneAssumption == None \notin ErrorCodes

\* leaseEnds is 0 where the column is NULL, that is, where owner is None.
JobRow == [active : BOOLEAN, due : Nat, owner : Workers \cup {None}, leaseEnds : Nat,
           attempt : Nat, error : ErrorCodes \cup {None}]

Claim == [job : Jobs, due : Nat, attempt : Nat, leaseEnds : Nat]

NoRow == [active |-> FALSE, due |-> 0, owner |-> None, leaseEnds |-> 0,
          attempt |-> 0, error |-> None]

\* Mutants of Paused: the lease survives the switch, in part or whole.
PausedKeepingExpiry(r, code) == [r EXCEPT !.active = FALSE, !.owner = None, !.error = code]
PausedKeepingLease(r, code)  == [r EXCEPT !.active = FALSE, !.error = code]

\* What the UPDATEs do to a row: a switch, a claim, the end of an attempt, an activation.
Paused(r, code) == [r EXCEPT !.active = FALSE, !.owner = None, !.leaseEnds = 0, !.error = code]

Leased(r, w, ends) == [r EXCEPT !.owner = w, !.leaseEnds = ends]

Ended(r, due, code) == [r EXCEPT !.due = due, !.owner = None, !.leaseEnds = 0, !.error = code,
                                 !.attempt = r.attempt + 1]

Activated(r, t) == [r EXCEPT !.active = TRUE, !.due = t, !.owner = None, !.leaseEnds = 0,
                             !.error = None]

\* Mutants of LeaseFree: claims ignore leases; leases never run out.
LeaseIgnored(r, t)      == TRUE
LeaseNeverLapses(r, t)  == r.owner = None

LeaseFree(r, t) == r.owner = None \/ r.leaseEnds <= t

Claimable(rows, t) ==
  {j \in scheduled : rows[j].active /\ rows[j].due <= t /\ LeaseFree(rows[j], t)}

\* Any choice of at most ClaimLimit claimable jobs with the earliest due dates.
Earliest(rows, S) ==
  {B \in SUBSET S :
     /\ Cardinality(B) <= ClaimLimit
     /\ B # S => Cardinality(B) = ClaimLimit
     /\ \A b \in B, j \in S \ B : rows[b].due <= rows[j].due}

AllowedDelay(j) ==
  LET tenth == Cadence[j] \div 10
      floor == IF tenth > 30 THEN tenth ELSE 30
  IN  IF floor < 300 THEN floor ELSE 300

StartLate(c, t) == t > c.due + AllowedDelay(c.job)

\* Mutant of NextDue: a job is due again as soon as it has ended.
NextDueAtOnce(j, t) == t + Jitter[j]

NextDue(j, t) == t + Cadence[j] + Jitter[j]

----------------------------------------------------------------------------
(* The worker loop: main and run_once *)

WorkerInit ==
  /\ pc = [w \in Workers |-> "idle"]
  /\ pollAt = [w \in Workers |-> 0]
  /\ claims = [w \in Workers |-> {}]
  /\ current = [w \in Workers |-> {}]
  /\ failure = [w \in Workers |-> None]

\* now = datetime.now(UTC), before the claim transaction begins.
Poll(w) ==
  /\ pc[w] = "idle"
  /\ pc' = [pc EXCEPT ![w] = "polled"]
  /\ pollAt' = [pollAt EXCEPT ![w] = now]
  /\ UNCHANGED <<now, dbVars, claims, current, failure, crashes>>

\* Mutant of Unauthorised: any approval that has not ended will do.
UnauthorisedByNoApproval(t) ==
  {j \in scheduled : row[j].active /\
     ~ (target[j] = "on" /\ \E i \in DOMAIN approvals[SourceOf[j]] :
                              Authorizes(approvals[SourceOf[j]][i], KindOf[j], t))}

\* deactivate_unauthorized_jobs: the rows it pauses.
Unauthorised(t) == {j \in scheduled : row[j].active /\ ~Authorised(j, t)}

PausedRows(D, code) == [j \in Jobs |-> IF j \in D THEN Paused(row[j], code) ELSE row[j]]

ClaimOf(r, j, ends) == [job |-> j, due |-> r.due, attempt |-> r.attempt, leaseEnds |-> ends]

\* The first transaction of run_once.  The audit entries of the paused jobs are
\* inserted in the same transaction under a key made of the poll's clock reading.
ClaimDue(w) ==
  LET t     == pollAt[w]
      ends  == t + LeaseSeconds
      after == PausedRows(Unauthorised(t), "APPROVAL_NOT_EFFECTIVE")
  IN  /\ pc[w] = "polled"
      /\ \E B \in Earliest(after, Claimable(after, t)) :
           /\ row' = [j \in Jobs |-> IF j \in B THEN Leased(after[j], w, ends) ELSE after[j]]
           /\ claims' = [claims EXCEPT ![w] = {ClaimOf(after[j], j, ends) : j \in B}]
           /\ pc' = [pc EXCEPT ![w] = IF B = {} THEN "idle" ELSE "ready"]
      /\ pollAt' = [pollAt EXCEPT ![w] = 0]  \* not read again
      /\ UNCHANGED <<now, approvals, target, scheduled, blocked, pending, activations,
                     current, failure, crashes>>

\* The gates in front of provider access, in their order; None lets the job run.
Gate(w, c) ==
  IF StartLate(c, now) THEN "SCHEDULER_START_LATE"
  ELSE IF KindOf[c.job] = "connector" /\ w \notin RawWorkers THEN "FABRIC_PROFILE_REQUIRED"
  ELSE IF target[c.job] # "on" THEN "TARGET_NOT_ACTIVE"
  ELSE IF ~Effective(c.job, now) THEN "APPROVAL_NOT_EFFECTIVE"
  ELSE None

\* The second transaction of run_once opens for one of the claims.
Start(w) ==
  /\ pc[w] = "ready"
  /\ \E c \in claims[w] :
       /\ claims' = [claims EXCEPT ![w] = @ \ {c}]
       /\ current' = [current EXCEPT ![w] = {c}]
       /\ failure' = [failure EXCEPT ![w] = Gate(w, c)]
       /\ pc' = [pc EXCEPT ![w] = IF Gate(w, c) = None THEN "running" ELSE "failing"]
  /\ UNCHANGED <<now, dbVars, pollAt, crashes>>

\* The execution raises (or is blocked by a configuration code): it rolls back.
Break(w) ==
  /\ pc[w] = "running"
  /\ failure' = [failure EXCEPT ![w] = "JOB_EXECUTION_FAILED"]
  /\ pc' = [pc EXCEPT ![w] = "failing"]
  /\ UNCHANGED <<now, dbVars, pollAt, claims, current, crashes>>

\* Mutant of FinishedRow: whoever ends an attempt writes the row.
FinishedRowAnyOwner(w, c, code) ==
  [row EXCEPT ![c.job] = Ended(@, NextDue(c.job, now), code)]

\* _finish_job: the UPDATE of the row, conditional on the lease ...
FinishedRow(w, c, code) ==
  IF row[c.job].owner = w
  THEN [row EXCEPT ![c.job] = Ended(@, NextDue(c.job, now), code)]
  ELSE row

\* ... and the audit entry AUD-<job>-<attempt + 1>, unconditional, first one kept.
WithAudit(c, code) ==
  IF code = None \/ \E b \in blocked : b.job = c.job /\ b.attempt = c.attempt + 1
  THEN blocked
  ELSE blocked \cup {[job |-> c.job, attempt |-> c.attempt + 1, code |-> code]}

FinishJob(w, c, code) ==
  /\ row' = FinishedRow(w, c, code)
  /\ blocked' = WithAudit(c, code)

\* The transaction that ends a job commits: the execution's own when failure[w]
\* is None, else the one the exception handler opens.
Finish(w) ==
  /\ pc[w] \in {"running", "failing"}
  /\ \E c \in current[w] : FinishJob(w, c, failure[w])
  /\ current' = [current EXCEPT ![w] = {}]
  /\ failure' = [failure EXCEPT ![w] = None]
  /\ pc' = [pc EXCEPT ![w] = IF claims[w] = {} THEN "idle" ELSE "ready"]
  /\ UNCHANGED <<now, approvals, target, scheduled, pending, activations, pollAt, claims,
                 crashes>>

\* The process dies: its claims are forgotten and its open transaction rolls back.
Crash(w) ==
  /\ crashes < MaxCrashes /\ pc[w] # "down"
  /\ crashes' = crashes + 1
  /\ pc' = [pc EXCEPT ![w] = "down"]
  /\ claims' = [claims EXCEPT ![w] = {}]
  /\ current' = [current EXCEPT ![w] = {}]
  /\ failure' = [failure EXCEPT ![w] = None]
  /\ pollAt' = [pollAt EXCEPT ![w] = 0]
  /\ UNCHANGED <<now, dbVars>>

Restart(w) ==
  /\ pc[w] = "down"
  /\ pc' = [pc EXCEPT ![w] = "idle"]
  /\ UNCHANGED <<now, dbVars, pollAt, claims, current, failure, crashes>>

WorkerStep(w) ==
  Poll(w) \/ ClaimDue(w) \/ Start(w) \/ Break(w) \/ Finish(w) \/ Crash(w) \/ Restart(w)

----------------------------------------------------------------------------
(* The administrator's transactions and the triggers they fire *)

JobsOf(s) == {j \in scheduled : SourceOf[j] = s}

\* decideSourceApproval.  The version check and the row lock serialise the decisions
\* on a source; source_kill_switch pauses its jobs in the same transaction.
Decide(s) ==
  /\ Len(approvals[s]) < MaxDecisions
  /\ \E o \in Offers :
       /\ o.expiresAt > now
       /\ approvals' = [approvals EXCEPT ![s] =
            Append(@, [decision |-> o.decision, scope |-> o.scope,
                       decidedAt |-> now, expiresAt |-> o.expiresAt])]
       /\ row' = IF o.decision \in Revoking
                 THEN PausedRows(JobsOf(s), "APPROVAL_NOT_EFFECTIVE") ELSE row
  /\ UNCHANGED <<now, target, scheduled, blocked, pending, activations, workerVars, crashes>>

\* activateConnector: one transaction under the lock of the source row.  The
\* connector_definition row is new, so a connector is activated once.
ActivateConnector(j) ==
  /\ KindOf[j] = "connector" /\ target[j] = "absent"
  /\ Effective(j, now)
  /\ target' = [target EXCEPT ![j] = "on"]
  /\ scheduled' = scheduled \cup {j}
  /\ row' = [row EXCEPT ![j] = Activated(NoRow, now)]
  /\ UNCHANGED <<now, approvals, blocked, pending, activations, workerVars, crashes>>

\* activateMonitorTarget up to its read of the latest approval.  It locks the
\* monitor_target row, not the source row: a decision may still commit before it does.
BeginActivation(j) ==
  /\ KindOf[j] = "monitor" /\ pending[j] = {} /\ activations[j] < MaxActivations
  /\ Effective(j, now)
  /\ pending' = [pending EXCEPT ![j] = {now}]
  /\ activations' = [activations EXCEPT ![j] = @ + 1]
  /\ UNCHANGED <<now, approvals, target, scheduled, row, blocked, workerVars, crashes>>

\* enforce_monitor_activation: any effective approval will do, not only the latest.
ActivationAllowed(j) ==
  \/ target[j] = "on"
  \/ \E i \in DOMAIN approvals[SourceOf[j]] :
       Authorizes(approvals[SourceOf[j]][i], KindOf[j], now)

\* activateMonitorTarget from its first write: the target, then the job's upsert,
\* which keeps the attempt counter of an existing row.
CommitActivation(j) ==
  /\ ActivationAllowed(j)
  /\ \E t \in pending[j] : row' = [row EXCEPT ![j] = Activated(@, t)]
  /\ target' = [target EXCEPT ![j] = "on"]
  /\ scheduled' = scheduled \cup {j}
  /\ pending' = [pending EXCEPT ![j] = {}]
  /\ UNCHANGED <<now, approvals, blocked, activations, workerVars, crashes>>

\* The trigger raises, or the request is lost, and the transaction rolls back.
AbortActivation(j) ==
  /\ pending[j] # {}
  /\ pending' = [pending EXCEPT ![j] = {}]
  /\ UNCHANGED <<now, approvals, target, scheduled, row, blocked, activations, workerVars,
                 crashes>>

\* The operator pauses the connector or monitor (docs/runbooks/provider-outage.md):
\* connector_kill_switch and monitor_kill_switch.
DisableTarget(j) ==
  /\ target[j] = "on" /\ pending[j] = {}
  /\ target' = [target EXCEPT ![j] = "off"]
  /\ row' = PausedRows({j} \cap scheduled, "TARGET_NOT_ACTIVE")
  /\ UNCHANGED <<now, approvals, scheduled, blocked, pending, activations, workerVars, crashes>>

AdminStep(j) ==
  \/ ActivateConnector(j) \/ BeginActivation(j) \/ CommitActivation(j) \/ AbortActivation(j)
  \/ DisableTarget(j)

----------------------------------------------------------------------------
Tick ==
  /\ now' \in {t \in Instants : t > now}
  /\ UNCHANGED <<dbVars, workerVars, crashes>>

Init ==
  /\ now = 0
  /\ approvals = [s \in Sources |-> <<>>]
  /\ target = [j \in Jobs |-> IF KindOf[j] = "connector" THEN "absent" ELSE "off"]
  /\ scheduled = {}
  /\ row = [j \in Jobs |-> NoRow]
  /\ blocked = {}
  /\ pending = [j \in Jobs |-> {}]
  /\ activations = [j \in Jobs |-> 0]
  /\ WorkerInit
  /\ crashes = 0

Next ==
  \/ Tick
  \/ \E w \in Workers : WorkerStep(w)
  \/ \E s \in Sources : Decide(s)
  \/ \E j \in Jobs : AdminStep(j)

Spec == Init /\ [][Next]_vars

----------------------------------------------------------------------------
TypeOK ==
  /\ now \in Nat
  /\ approvals \in [Sources -> Seq(Approval)]
  /\ target \in [Jobs -> {"absent", "off", "on"}]
  /\ scheduled \in SUBSET Jobs
  /\ row \in [Jobs -> JobRow]
  /\ blocked \in SUBSET [job : Jobs, attempt : Nat, code : ErrorCodes]
  /\ pending \in [Jobs -> SUBSET Nat]
  /\ activations \in [Jobs -> Nat]
  /\ pc \in [Workers -> {"idle", "polled", "ready", "running", "failing", "down"}]
  /\ pollAt \in [Workers -> Nat]
  /\ claims \in [Workers -> SUBSET Claim]
  /\ current \in [Workers -> SUBSET Claim]
  /\ failure \in [Workers -> ErrorCodes \cup {None}]
  /\ crashes \in Nat
  /\ \A j \in Jobs : row[j].leaseEnds = 0 <=> row[j].owner = None

----------------------------------------------------------------------------
(* Safety *)

Held(w) == claims[w] \cup current[w]

\* A paused job holds no lease: whichever of the three kill switches, the claim
\* transaction and the activation upsert wrote last, owner and active agree
\* ("Runtime kill switches continue to invalidate active leases").
PausedJobHoldsNoLease ==
  \A j \in Jobs : row[j].owner # None => row[j].active /\ j \in scheduled

\* While a worker's lease on a connector job has time left, no other worker holds a
\* claim with time left on it, even though claims outlive the rows they were read from
\* and finishes of workers that lost their lease arrive in between.
ExclusiveConnectorClaim ==
  \A v, w \in Workers : \A c \in Held(v), d \in Held(w) :
    /\ v # w /\ c.job = d.job /\ KindOf[c.job] = "connector"
    => c.leaseEnds <= now \/ d.leaseEnds <= now

\* A job that carries the error of its last attempt has the audit entry of that very
\* attempt, although entries are keyed by the attempt number of a possibly stale claim
\* and a second entry under the same key is dropped.
FailedAttemptIsAudited ==
  \A j \in Jobs :
    row[j].active /\ row[j].error # None =>
      \E b \in blocked : b.job = j /\ b.attempt = row[j].attempt

\* An approval covered the job at the instant t, and was not superseded before t.
WasInForce(j, t) ==
  LET a == approvals[SourceOf[j]]
  IN  \E k \in DOMAIN a : /\ Authorizes(a[k], KindOf[j], t)
                         /\ \A m \in DOMAIN a : m > k => t <= a[m].decidedAt

\* What a kill switch or a sweep has paused stays as it is, though claims of it outlive the
\* switch and are executed, and failed, long after it: no end of theirs moves its due date,
\* its attempts or its lease.  Only an activation starts it again, and only one that saw an
\* approval in force, however many decisions have committed before the activation does.
KillSwitchesHold ==
  [][\A j \in Jobs : ~row[j].active =>
       \/ row'[j] = [row[j] EXCEPT !.error = row'[j].error]
       \/ row'[j] = Activated(row[j], row'[j].due) /\ WasInForce(j, row'[j].due)]_vars

\* A job whose approval is in force is not paused by a worker's own sweep
\* (deactivate_unauthorized_jobs: "Disable schedules whose latest approval or activation
\* is no longer effective").
RenewalKeepsSchedule ==
  [][\A j \in Jobs : row[j].active /\ ~row'[j].active => ~Authorised(j, now)']_vars

----------------------------------------------------------------------------
(* What the safety properties rest on *)

\* A worker holds claims only between a claim transaction and the end of the batch, at
\* most one per job and one in execution, and its clock reading is not from the future.
ClaimsFollowControl ==
  \A w \in Workers :
    /\ pollAt[w] <= now
    /\ pc[w] \in {"idle", "polled", "ready", "down"} => current[w] = {}
    /\ pc[w] \in {"idle", "polled", "down"} => claims[w] = {}
    /\ \A c, d \in Held(w) : c.job = d.job => c = d
    /\ \A c, d \in current[w] : c = d
    /\ claims[w] \cap current[w] = {}

\* Only scheduled jobs have rows and claims, a connector is scheduled only once it has
\* been activated, and only monitors are activated in two steps.
RowsFollowSchedule ==
  /\ \A j \in Jobs : j \notin scheduled => row[j] = NoRow
  /\ \A j \in scheduled : target[j] # "absent"
  /\ \A j \in Jobs : pending[j] # {} => KindOf[j] = "monitor"
  /\ \A w \in Workers : \A c \in Held(w) : c.job \in scheduled

\* An activation that is under way has seen an approval in force, at an instant in the past.
ActivationsSawApproval ==
  /\ \A s \in Sources : \A k \in DOMAIN approvals[s] : approvals[s][k].decidedAt <= now
  /\ \A j \in Jobs : \A t \in pending[j] : t <= now /\ WasInForce(j, t)

\* A row that names a worker as the owner of its lease agrees with that worker's claim,
\* and the row of an active connector still names the worker of every claim with time left.
ClaimsMatchRows ==
  \A w \in Workers : \A c \in Held(w) :
    /\ row[c.job].owner = w => c.attempt = row[c.job].attempt /\ c.leaseEnds = row[c.job].leaseEnds
    /\ KindOf[c.job] = "connector" /\ c.leaseEnds > now /\ row[c.job].active
         => row[c.job].owner = w

\* The inductive invariant of the proofs about leases; ActivationsSawApproval is one by itself.
LeaseInvariant ==
  /\ ClaimsFollowControl
  /\ RowsFollowSchedule
  /\ ClaimsMatchRows
  /\ PausedJobHoldsNoLease
  /\ ExclusiveConnectorClaim
  /\ FailedAttemptIsAudited

----------------------------------------------------------------------------
(* Refinement *)

Holders(j) == {w \in Workers : \E c \in Held(w) : c.job = j}

LedgerEntry(j) ==
  [on      |-> row[j].active,
   owner   |-> row[j].owner,
   lapsed  |-> row[j].owner # None /\ row[j].leaseEnds <= now,
   holders |-> Holders(j),
   done    |-> row[j].attempt]

Ledger == INSTANCE LeaseLedger WITH ledger <- [j \in Jobs |-> LedgerEntry(j)]

\* The rows, the claims in the workers' memories and the clock implement the ledger:
\* only the owner completes an attempt, a lease changes hands only after it ran out,
\* and a worker that lost its lease changes nothing when it ends.
ImplementsLedger == Ledger!Spec

----------------------------------------------------------------------------
(* Liveness *)

\* Every process that is up keeps taking its next step: the loop never exits by itself,
\* every provider request has a timeout, and PostgreSQL answers.  Nothing is assumed of
\* the clock, the administrator, crashes or restarts.
Fairness ==
  \A w \in Workers :
    WF_vars(Poll(w)) /\ WF_vars(ClaimDue(w)) /\ WF_vars(Start(w)) /\ WF_vars(Finish(w))

FairSpec == Spec /\ Fairness

\* An active job whose approval or activation has ended is paused, also when the
\* activation committed after the revocation and so undid its kill switch.
UnauthorisedJobIsPaused ==
  \A j \in Jobs :
    row[j].active /\ ~Authorised(j, now) ~> ~row[j].active \/ Authorised(j, now)

\* The lease runs, and no worker knows of it any more.
Orphaned(j) == row[j].owner # None /\ row[j].leaseEnds > now /\ row[j].owner \notin Holders(j)

\* A due job is attempted and rescheduled, though workers crash with claims in hand: all
\* that can hold it up is the lease of a crashed worker, until it runs out.
DueJobIsRescheduled ==
  \A j \in Jobs :
    row[j].active /\ row[j].due <= now ~>
      ~row[j].active \/ row[j].due > now \/ Orphaned(j)

=============================================================================
