--------------------------- MODULE WorkerSession ---------------------------
(***************************************************************************)
(* The database session a worker runs on: main and run_once of             *)
(* services/worker/hk_data_worker/service.py over psycopg's transaction    *)
(* contexts and PostgreSQL's row locks.                                    *)
(*                                                                         *)
(* psycopg's `with connection.transaction()` sends BEGIN ... COMMIT on an  *)
(* idle connection and SAVEPOINT ... RELEASE on one that is already in a   *)
(* transaction.  A statement executed outside any block puts a connection  *)
(* without autocommit into a transaction, which lasts until the connection *)
(* is closed: main executes SELECT 1 before its loop.  Warmed names the    *)
(* workers whose connection was used that way; the others run run_once on  *)
(* an idle connection, which is what Scheduler.tla takes for granted.      *)
(*                                                                         *)
(* Leases and due dates carry no time here: any job may be due, and any    *)
(* lease may have run out.                                                 *)
(***************************************************************************)
EXTENDS Naturals

CONSTANTS
  Workers,
  Warmed,      \* the workers whose connection is in a transaction before the loop
  Jobs,
  None,
  MaxAttempts  \* bound: attempts per job

Row == [active : BOOLEAN, owner : Workers \cup {None}, attempt : Nat]

SessionClaim == [job : Jobs, attempt : Nat]

ASSUME SessionAssumption ==
  /\ Warmed \subseteq Workers
  /\ None \notin Workers /\ None \notin Row
  /\ MaxAttempts \in Nat

VARIABLES
  committed, \* [Jobs -> row]: what every session reads
  written,   \* [Workers -> [Jobs -> row or None]]: the rows the worker's open
             \* transaction has written between two blocks, and therefore locks
  at,        \* [Workers -> where the loop is]
  batch,     \* [Workers -> the claims that have not ended]
  logged,    \* history: the attempts each worker has printed as job.completed since it
             \* connected last
  approval   \* the approval of the jobs' source

sessionVars == <<committed, written, at, batch, logged, approval>>

----------------------------------------------------------------------------
Untouched == [j \in Jobs |-> None]

View(w, j) == IF written[w][j] # None THEN written[w][j] ELSE committed[j]

LockedElsewhere(w, j) == \E v \in Workers \ {w} : written[v][j] # None

Merged(new, old) == [j \in Jobs |-> IF new[j] # None THEN new[j] ELSE old[j]]

\* Mutant of BlockEnds: the block is a savepoint whoever opens it.
BlockReleases(w, writes) ==
  /\ written' = [written EXCEPT ![w] = Merged(writes, written[w])]
  /\ committed' = committed

\* Mutant of BlockEnds: every connection is idle between two blocks, as with autocommit.
BlockCommits(w, writes) ==
  /\ committed' = Merged(writes, committed)
  /\ written' = written

\* `with connection.transaction()` exits without an exception after these writes.
BlockEnds(w, writes) ==
  IF w \in Warmed
  THEN /\ written' = [written EXCEPT ![w] = Merged(writes, written[w])]
       /\ committed' = committed
  ELSE /\ committed' = Merged(writes, committed)
       /\ written' = written

----------------------------------------------------------------------------
Connect(w) ==
  /\ at[w] = "down"
  /\ at' = [at EXCEPT ![w] = "idle"]
  /\ logged' = [logged EXCEPT ![w] = {}]
  /\ UNCHANGED <<committed, written, batch, approval>>

\* deactivate_unauthorized_jobs and claim_jobs: the first waits for row locks, the second
\* skips locked rows.
Claim(w) ==
  LET stale == {j \in Jobs : approval \in {"revoked", "expired"} /\ View(w, j).active}
      free  == {j \in Jobs \ stale : /\ View(w, j).active /\ ~LockedElsewhere(w, j)
                                     /\ View(w, j).attempt < MaxAttempts}
  IN  /\ at[w] = "idle"
      /\ \A j \in stale : ~LockedElsewhere(w, j)
      /\ \E B \in SUBSET free :
           /\ BlockEnds(w, [j \in Jobs |->
                IF j \in stale THEN [View(w, j) EXCEPT !.active = FALSE, !.owner = None]
                ELSE IF j \in B THEN [View(w, j) EXCEPT !.owner = w]
                ELSE None])
           /\ batch' = [batch EXCEPT ![w] = {[job |-> j, attempt |-> View(w, j).attempt] : j \in B}]
           /\ at' = [at EXCEPT ![w] = IF B = {} THEN "idle" ELSE "busy"]
      /\ UNCHANGED <<logged, approval>>

\* Mutant of Ended: the row is written from the claim, whoever owns it.
EndedAsClaimed(w, c) == [View(w, c.job) EXCEPT !.owner = None, !.attempt = c.attempt + 1]

\* The UPDATE of _finish_job: the new version of the row, or none if its lease_owner is another.
Ended(w, c) ==
  LET r == View(w, c.job)
  IN  IF r.owner = w THEN [active |-> r.active, owner |-> None, attempt |-> r.attempt + 1] ELSE None

\* One job of the batch ends, completed or failed: _finish_job, whose UPDATE waits for the
\* lock of a row it would match, the end of its block, then the log line, which is printed
\* whether the UPDATE matched a row or none.
EndJob(w) ==
  /\ at[w] = "busy"
  /\ \E c \in batch[w], completed \in BOOLEAN :
       /\ View(w, c.job).owner = w => ~LockedElsewhere(w, c.job)
       /\ BlockEnds(w, [Untouched EXCEPT ![c.job] = Ended(w, c)])
       /\ batch' = [batch EXCEPT ![w] = @ \ {c}]
       /\ at' = [at EXCEPT ![w] = IF batch[w] = {c} THEN "idle" ELSE "busy"]
       /\ logged' = IF completed
                    THEN [logged EXCEPT ![w] = @ \cup {[job |-> c.job, attempt |-> c.attempt + 1]}]
                    ELSE logged
  /\ UNCHANGED approval

\* Mutant of Stop: the connection is closed without a commit.
StopUncommitted(w) ==
  /\ at[w] = "idle"
  /\ written' = [written EXCEPT ![w] = Untouched]
  /\ at' = [at EXCEPT ![w] = "down"]
  /\ UNCHANGED <<committed, batch, logged, approval>>

\* SIGTERM or SIGINT: the loop ends after run_once and the connection's context commits.
Stop(w) ==
  /\ at[w] = "idle"
  /\ committed' = Merged(written[w], committed)
  /\ written' = [written EXCEPT ![w] = Untouched]
  /\ at' = [at EXCEPT ![w] = "down"]
  /\ UNCHANGED <<batch, logged, approval>>

\* The process is killed, or an exception leaves run_once: the transaction rolls back.
Die(w) ==
  /\ at[w] # "down"
  /\ written' = [written EXCEPT ![w] = Untouched]
  /\ batch' = [batch EXCEPT ![w] = {}]
  /\ at' = [at EXCEPT ![w] = "down"]
  /\ UNCHANGED <<committed, logged, approval>>

\* decideSourceApproval has been called with a revocation ...
Revoke ==
  /\ approval = "effective"
  /\ approval' = "revoking"
  /\ UNCHANGED <<committed, written, at, batch, logged>>

\* ... and commits when apply_source_kill_switch has locked and paused every job.
CommitRevocation ==
  /\ approval = "revoking"
  /\ \A w \in Workers : written[w] = Untouched
  /\ approval' = "revoked"
  /\ committed' = [j \in Jobs |-> [committed[j] EXCEPT !.active = FALSE, !.owner = None]]
  /\ UNCHANGED <<written, at, batch, logged>>

\* The approval runs out: no trigger fires, the workers pause the jobs.
Expire ==
  /\ approval = "effective"
  /\ approval' = "expired"
  /\ UNCHANGED <<committed, written, at, batch, logged>>

SessionInit ==
  /\ committed = [j \in Jobs |-> [active |-> TRUE, owner |-> None, attempt |-> 0]]
  /\ written = [w \in Workers |-> Untouched]
  /\ at = [w \in Workers |-> "down"]
  /\ batch = [w \in Workers |-> {}]
  /\ logged = [w \in Workers |-> {}]
  /\ approval = "effective"

SessionStep(w) == Connect(w) \/ Claim(w) \/ EndJob(w) \/ Stop(w) \/ Die(w)

SessionNext == Revoke \/ CommitRevocation \/ Expire \/ \E w \in Workers : SessionStep(w)

\* The worker loops on, and PostgreSQL, which queues for a row lock in order of arrival,
\* lets a waiting revocation through whenever its locks are released time and again.
\* Nothing makes a worker stop or die.
SessionFairness ==
  /\ SF_sessionVars(CommitRevocation)
  /\ \A w \in Workers : WF_sessionVars(Claim(w)) /\ WF_sessionVars(EndJob(w))

SessionSpec == SessionInit /\ [][SessionNext]_sessionVars /\ SessionFairness

----------------------------------------------------------------------------
SessionTypeOK ==
  /\ committed \in [Jobs -> Row]
  /\ written \in [Workers -> [Jobs -> Row \cup {None}]]
  /\ at \in [Workers -> {"down", "idle", "busy"}]
  /\ batch \in [Workers -> SUBSET SessionClaim]
  /\ logged \in [Workers -> SUBSET SessionClaim]
  /\ approval \in {"effective", "revoking", "revoked", "expired"}
  /\ \A w \in Workers :
       /\ at[w] = "busy" <=> batch[w] # {}
       /\ at[w] = "down" \/ w \notin Warmed => written[w] = Untouched

\* One session at a time holds a row, and its version is not older than the committed one.
RowLocks ==
  \A w \in Workers, j \in Jobs : written[w][j] # None =>
    /\ \A v \in Workers \ {w} : written[v][j] = None
    /\ committed[j].attempt <= written[w][j].attempt

\* The row of a claim of a worker main runs is in the worker's own transaction, and so is
\* the row of every completion of its session, which the database has not seen.
MainsRows(w) ==
  /\ \A c \in batch[w] : /\ written[w][c.job] # None
                         /\ written[w][c.job].owner = w /\ written[w][c.job].attempt = c.attempt
  /\ at[w] # "down" => \A l \in logged[w] : /\ written[w][l.job] # None
                                           /\ committed[l.job].attempt < l.attempt
                                           /\ l.attempt <= written[w][l.job].attempt

\* Workers that main runs never work on one job at the same time, though leases lapse while
\* their holders work on, and whatever workers on idle connections do in between: the row of a
\* claim still names its worker in the worker's own eyes (FOR UPDATE SKIP LOCKED).
MainsLeasesAreSafe ==
  \A w \in Warmed : \A c \in batch[w] :
    /\ View(w, c.job).owner = w /\ View(w, c.job).attempt = c.attempt
    /\ \A v \in Warmed \ {w} : \A d \in batch[v] : d.job # c.job

\* The attempts that a worker main runs prints as job.completed stand or fall together: its
\* orderly stop brings every one of them into the database, its death not a single one.
CompletionsEndWhole ==
  [][\A w \in Warmed :
       /\ Stop(w) => \A l \in logged[w] : l.attempt <= committed'[l.job].attempt
       /\ Die(w)  => \A l \in logged[w] : committed'[l.job].attempt < l.attempt]_sessionVars

\* A row version that a worker read before others committed never overwrites what they
\* committed: attempts are counted up one at a time, however late a transaction ends.
AttemptsNeverRegress ==
  [][\A j \in Jobs : committed[j].attempt <= committed'[j].attempt]_sessionVars

\* docs/superpowers/specs/2026-09-01-source-access-toolkit-design.md: "Runtime kill switches
\* continue to invalidate active leases".
KillSwitchTakesEffect == approval = "revoking" ~> approval = "revoked"

=============================================================================
