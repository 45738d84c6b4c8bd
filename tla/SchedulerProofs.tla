-------------------------- MODULE SchedulerProofs --------------------------
(***************************************************************************)
(* Theorems about Scheduler, for every set of workers, jobs, offers and    *)
(* instants: its invariants, what its kill switches are good for, and that *)
(* it implements LeaseLedger.                                              *)
(***************************************************************************)
EXTENDS Scheduler, TLAPS

----------------------------------------------------------------------------
(* Type correctness *)

\* Each UPDATE makes a row of a row, and keeps owner and lease end together.
WellFormed(r) == r \in JobRow /\ (r.leaseEnds = 0 <=> r.owner = None)

LEMMA RowUpdates ==
  ASSUME ConstantsAssumption, NEW r, WellFormed(r)
  PROVE  /\ \A code \in ErrorCodes : WellFormed(Paused(r, code))
         /\ \A w \in Workers, ends \in Nat \ {0} : WellFormed(Leased(r, w, ends))
         /\ \A due \in Nat, code \in ErrorCodes \cup {None} : WellFormed(Ended(r, due, code))
         /\ \A t \in Nat : WellFormed(Activated(r, t))
<1>1. ASSUME NEW code \in ErrorCodes PROVE WellFormed(Paused(r, code))
  BY DEF WellFormed, Paused, JobRow
<1>2. ASSUME NEW w \in Workers, NEW ends \in Nat \ {0} PROVE WellFormed(Leased(r, w, ends))
  BY DEF WellFormed, Leased, JobRow, ConstantsAssumption
<1>3. ASSUME NEW due \in Nat, NEW code \in ErrorCodes \cup {None}
      PROVE  WellFormed(Ended(r, due, code))
  <2>1. r.attempt + 1 \in Nat
    BY DEF WellFormed, JobRow
  <2> QED
    BY <2>1 DEF WellFormed, Ended, JobRow
<1>4. ASSUME NEW t \in Nat PROVE WellFormed(Activated(r, t))
  BY DEF WellFormed, Activated, JobRow
<1> QED
  BY <1>1, <1>2, <1>3, <1>4

\* The conjuncts of TypeOK about the rows, in one formula.
RowsOK == row \in [Jobs -> JobRow] /\ \A j \in Jobs : WellFormed(row[j])

LEMMA RowsFromType == TypeOK => RowsOK
BY DEF TypeOK, RowsOK, WellFormed

LEMMA RowsToType ==
  RowsOK => row \in [Jobs -> JobRow] /\ \A j \in Jobs : row[j].leaseEnds = 0 <=> row[j].owner = None
BY DEF RowsOK, WellFormed

LEMMA PausedRowsType ==
  ASSUME RowsOK, ConstantsAssumption, NEW D, NEW code \in ErrorCodes
  PROVE  /\ PausedRows(D, code) \in [Jobs -> JobRow]
         /\ \A j \in Jobs : WellFormed(PausedRows(D, code)[j])
<1>1. ASSUME NEW j \in Jobs PROVE WellFormed(PausedRows(D, code)[j])
  BY RowUpdates DEF PausedRows, RowsOK
<1> QED
  BY <1>1 DEF PausedRows, WellFormed

LEMMA NextDueType ==
  ASSUME ConstantsAssumption, now \in Nat, NEW j \in Jobs
  PROVE  NextDue(j, now) \in Nat
<1>1. Cadence[j] \in Nat
  BY DEF ConstantsAssumption
<1>2. Jitter[j] \in 0 .. 29
  BY DEF ConstantsAssumption
<1> QED
  BY <1>1, <1>2 DEF NextDue

\* Writing one well-formed row keeps all rows well formed.
LEMMA RowsExcept ==
  ASSUME RowsOK, NEW j \in Jobs, NEW r, WellFormed(r), row' = [row EXCEPT ![j] = r]
  PROVE  RowsOK'
BY DEF RowsOK, WellFormed

LEMMA TypeStep == TypeOK /\ [Next]_vars => TypeOK'
<1> USE ConstantsAssumption
<1> SUFFICES ASSUME TypeOK, [Next]_vars
             PROVE  TypeOK'
  OBVIOUS
<1>0. RowsOK
  BY RowsFromType
<1>1. CASE Tick
  BY <1>1 DEF TypeOK, Tick, dbVars, workerVars, ConstantsAssumption
<1>2. ASSUME NEW w \in Workers, Poll(w) PROVE TypeOK'
  BY <1>2 DEF TypeOK, Poll, dbVars
<1>3. ASSUME NEW w \in Workers, ClaimDue(w) PROVE TypeOK'
  <2> DEFINE t == pollAt[w]
             ends == t + LeaseSeconds
             after == PausedRows(Unauthorised(t), "APPROVAL_NOT_EFFECTIVE")
  <2>1. PICK B \in Earliest(after, Claimable(after, t)) :
           /\ row' = [j \in Jobs |-> IF j \in B THEN Leased(after[j], w, ends) ELSE after[j]]
           /\ claims' = [claims EXCEPT ![w] = {ClaimOf(after[j], j, ends) : j \in B}]
           /\ pc' = [pc EXCEPT ![w] = IF B = {} THEN "idle" ELSE "ready"]
    BY <1>3 DEF ClaimDue
  <2>2. /\ after \in [Jobs -> JobRow]
        /\ \A j \in Jobs : WellFormed(after[j])
    BY <1>0, PausedRowsType DEF ErrorCodes
  <2>3. t \in Nat /\ ends \in Nat \ {0}
    BY DEF TypeOK, ConstantsAssumption
  <2>4. B \subseteq Jobs
    BY <2>1 DEF Earliest, Claimable, TypeOK
  <2>5. RowsOK'
    <3> HIDE DEF t, ends, after
    <3>1. \A j \in Jobs : WellFormed(Leased(after[j], w, ends))
      BY <2>2, <2>3, RowUpdates
    <3> QED
      BY <2>1, <2>2, <3>1 DEF RowsOK, WellFormed
  <2>6. {ClaimOf(after[j], j, ends) : j \in B} \in SUBSET Claim
    <3> HIDE DEF t, ends, after
    <3>1. \A j \in Jobs : after[j].due \in Nat /\ after[j].attempt \in Nat
      BY <2>2 DEF JobRow
    <3> QED
      BY <2>3, <2>4, <3>1 DEF ClaimOf, Claim
  <2> HIDE DEF t, ends, after
  <2>7. claims' \in [Workers -> SUBSET Claim]
    BY <2>1, <2>6 DEF TypeOK
  <2>8. pc' \in [Workers -> {"idle", "polled", "ready", "running", "failing", "down"}]
    BY <2>1 DEF TypeOK
  <2>9. pollAt' \in [Workers -> Nat]
    BY <1>3 DEF TypeOK, ClaimDue
  <2> QED
    BY <1>3, <2>5, <2>7, <2>8, <2>9, RowsToType DEF TypeOK, ClaimDue, RowsOK, WellFormed
<1>4. ASSUME NEW w \in Workers, Start(w) PROVE TypeOK'
  <2>1. \A c : Gate(w, c) \in ErrorCodes \cup {None}
    BY DEF Gate, ErrorCodes
  <2> QED
    BY <1>4, <2>1 DEF TypeOK, Start, dbVars
<1>5. ASSUME NEW w \in Workers, Break(w) PROVE TypeOK'
  BY <1>5 DEF TypeOK, Break, dbVars, ErrorCodes
<1>6. ASSUME NEW w \in Workers, Finish(w) PROVE TypeOK'
  <2>1. PICK c \in current[w] : FinishJob(w, c, failure[w])
    BY <1>6 DEF Finish
  <2>2. c \in Claim /\ failure[w] \in ErrorCodes \cup {None} /\ c.job \in Jobs
    BY DEF TypeOK, Claim
  <2>3. RowsOK'
    <3>1. WellFormed(Ended(row[c.job], NextDue(c.job, now), failure[w]))
      BY <1>0, <2>2, NextDueType, RowUpdates DEF RowsOK, TypeOK
    <3>2. CASE row[c.job].owner = w
      BY <1>0, <2>1, <2>2, <3>1, <3>2, RowsExcept DEF FinishJob, FinishedRow
    <3>3. CASE row[c.job].owner # w
      BY <1>0, <2>1, <3>3 DEF FinishJob, FinishedRow, RowsOK
    <3> QED
      BY <3>2, <3>3
  <2>4. blocked' \in SUBSET [job : Jobs, attempt : Nat, code : ErrorCodes]
    BY <2>1, <2>2 DEF FinishJob, WithAudit, TypeOK, Claim
  <2> QED
    BY <1>6, <2>3, <2>4 DEF TypeOK, Finish, RowsOK, WellFormed
<1>7. ASSUME NEW w \in Workers, Crash(w) PROVE TypeOK'
  BY <1>7 DEF TypeOK, Crash, dbVars
<1>8. ASSUME NEW w \in Workers, Restart(w) PROVE TypeOK'
  BY <1>8 DEF TypeOK, Restart, dbVars
<1>9. ASSUME NEW s \in Sources, Decide(s) PROVE TypeOK'
  <2>1. PICK o \in Offers :
          /\ approvals' = [approvals EXCEPT ![s] =
               Append(@, [decision |-> o.decision, scope |-> o.scope,
                          decidedAt |-> now, expiresAt |-> o.expiresAt])]
          /\ row' = IF o.decision \in Revoking
                    THEN PausedRows(JobsOf(s), "APPROVAL_NOT_EFFECTIVE") ELSE row
    BY <1>9 DEF Decide
  <2>2. [decision |-> o.decision, scope |-> o.scope,
         decidedAt |-> now, expiresAt |-> o.expiresAt] \in Approval
    BY DEF ConstantsAssumption, Approval, TypeOK
  <2>3. approvals' \in [Sources -> Seq(Approval)]
    BY <2>1, <2>2 DEF TypeOK
  <2>4. RowsOK'
    <3>1. CASE o.decision \in Revoking
      BY <1>0, <2>1, <3>1, PausedRowsType DEF ErrorCodes, RowsOK
    <3>2. CASE o.decision \notin Revoking
      BY <1>0, <2>1, <3>2 DEF RowsOK
    <3> QED
      BY <3>1, <3>2
  <2> QED
    BY <1>9, <2>3, <2>4 DEF TypeOK, Decide, workerVars, RowsOK, WellFormed
<1>10. ASSUME NEW j \in Jobs, ActivateConnector(j) PROVE TypeOK'
  <2>1. RowsOK'
    <3>1. WellFormed(NoRow)
      BY DEF WellFormed, NoRow, JobRow
    <3>2. WellFormed(Activated(NoRow, now))
      BY <3>1, RowUpdates DEF TypeOK
    <3> QED
      BY <1>0, <1>10, <3>2, RowsExcept DEF ActivateConnector
  <2> QED
    BY <1>10, <2>1 DEF TypeOK, ActivateConnector, workerVars, RowsOK, WellFormed
<1>11. ASSUME NEW j \in Jobs, BeginActivation(j) PROVE TypeOK'
  BY <1>11 DEF TypeOK, BeginActivation, workerVars
<1>12. ASSUME NEW j \in Jobs, CommitActivation(j) PROVE TypeOK'
  <2>1. RowsOK'
    <3>1. PICK t \in pending[j] : row' = [row EXCEPT ![j] = Activated(row[j], t)]
      BY <1>12 DEF CommitActivation
    <3>2. WellFormed(Activated(row[j], t))
      BY <1>0, RowUpdates DEF TypeOK, RowsOK
    <3> QED
      BY <1>0, <3>1, <3>2, RowsExcept
  <2> QED
    BY <1>12, <2>1 DEF TypeOK, CommitActivation, workerVars, RowsOK, WellFormed
<1>13. ASSUME NEW j \in Jobs, AbortActivation(j) PROVE TypeOK'
  BY <1>13 DEF TypeOK, AbortActivation, workerVars
<1>14. ASSUME NEW j \in Jobs, DisableTarget(j) PROVE TypeOK'
  <2>1. RowsOK'
    BY <1>0, <1>14, PausedRowsType DEF DisableTarget, ErrorCodes, RowsOK
  <2> QED
    BY <1>14, <2>1 DEF TypeOK, DisableTarget, workerVars, RowsOK, WellFormed
<1>15. CASE UNCHANGED vars
  BY <1>15 DEF TypeOK, vars, dbVars, workerVars
<1> QED
  BY <1>1, <1>2, <1>3, <1>4, <1>5, <1>6, <1>7, <1>8, <1>9, <1>10, <1>11, <1>12, <1>13,
     <1>14, <1>15 DEF Next, WorkerStep, AdminStep

\* Every reachable state is well typed, and a row has a lease end exactly when it has
\* an owner (lease_owner and lease_expires_at are always written together).
THEOREM TypeCorrect == Spec => []TypeOK
<1>1. Init => TypeOK
  BY ConstantsAssumption DEF Init, TypeOK, WorkerInit, NoRow, JobRow, ConstantsAssumption
<1> QED
  BY <1>1, TypeStep, PTL DEF Spec

----------------------------------------------------------------------------
(* The lease invariant *)

\* Claims and lease ends are what the arithmetic needs them to be.
LEMMA HeldType ==
  ASSUME TypeOK, NEW w \in Workers, NEW c \in Held(w)
  PROVE  c \in Claim /\ c.job \in Jobs /\ c.leaseEnds \in Nat /\ c.attempt \in Nat
BY DEF TypeOK, Held, Claim

\* A row without an owner that was just written: its job is paused, or its error is
\* audited and no worker holds a claim with time left on it if it is a connector's.
Settled(j) ==
  /\ j \in scheduled
  /\ row[j].owner = None
  /\ row[j].active /\ row[j].error # None =>
       \E b \in blocked : b.job = j /\ b.attempt = row[j].attempt
  /\ row[j].active /\ KindOf[j] = "connector" =>
       \A w \in Workers : \A c \in Held(w) : c.job = j => c.leaseEnds <= now

\* A step that leases nothing and leaves every row as it is or settled keeps the
\* invariant.
LEMMA SettlingStep ==
  ASSUME TypeOK, TypeOK', LeaseInvariant, ClaimsFollowControl',
         now <= now', scheduled \subseteq scheduled', blocked \subseteq blocked',
         \A j \in scheduled' : target'[j] # "absent",
         \A j \in Jobs : pending'[j] # {} => KindOf[j] = "monitor",
         \A w \in Workers : Held(w)' \subseteq Held(w),
         \A j \in Jobs : row'[j] = row[j] \/ Settled(j)'
  PROVE  LeaseInvariant'
<1>1. RowsFollowSchedule'
  <2>1. \A j \in Jobs : j \notin scheduled' => row'[j] = NoRow
    BY DEF LeaseInvariant, RowsFollowSchedule, Settled
  <2> QED
    BY <2>1 DEF LeaseInvariant, RowsFollowSchedule
<1>2. ClaimsMatchRows'
  <2> SUFFICES ASSUME NEW w \in Workers, NEW c \in Held(w)'
               PROVE  /\ row'[c.job].owner = w => /\ c.attempt = row'[c.job].attempt
                                                  /\ c.leaseEnds = row'[c.job].leaseEnds
                      /\ /\ KindOf[c.job] = "connector"
                         /\ c.leaseEnds > now'
                         /\ row'[c.job].active
                         => row'[c.job].owner = w
    BY DEF ClaimsMatchRows
  <2>1. c \in Held(w) /\ c.job \in Jobs /\ c.leaseEnds \in Nat
    BY HeldType
  <2>2. w # None
    BY ConstantsAssumption DEF ConstantsAssumption
  <2>3. c.leaseEnds > now' => c.leaseEnds > now
    BY <2>1 DEF TypeOK
  <2>4. CASE row'[c.job] = row[c.job]
    BY <2>1, <2>3, <2>4 DEF LeaseInvariant, ClaimsMatchRows
  <2>5. CASE Settled(c.job)'
    <3>1. row'[c.job].owner # w
      BY <2>2, <2>5 DEF Settled
    <3>2. KindOf[c.job] = "connector" /\ row'[c.job].active => c.leaseEnds <= now'
      BY <2>5 DEF Settled
    <3> QED
      BY <2>1, <3>1, <3>2 DEF TypeOK
  <2> QED
    BY <2>1, <2>4, <2>5
<1>3. PausedJobHoldsNoLease'
  BY DEF LeaseInvariant, PausedJobHoldsNoLease, Settled
<1>4. ExclusiveConnectorClaim'
  <2> SUFFICES ASSUME NEW v \in Workers, NEW w \in Workers,
                      NEW c \in Held(v)', NEW d \in Held(w)',
                      v # w, c.job = d.job, KindOf[c.job] = "connector"
               PROVE  c.leaseEnds <= now' \/ d.leaseEnds <= now'
    BY DEF ExclusiveConnectorClaim
  <2>1. c \in Held(v) /\ d \in Held(w) /\ c.leaseEnds \in Nat /\ d.leaseEnds \in Nat
    BY HeldType
  <2>2. c.leaseEnds <= now \/ d.leaseEnds <= now
    BY <2>1 DEF LeaseInvariant, ExclusiveConnectorClaim
  <2> QED
    BY <2>1, <2>2 DEF TypeOK
<1>5. FailedAttemptIsAudited'
  <2> SUFFICES ASSUME NEW j \in Jobs, row'[j].active, row'[j].error # None
               PROVE  \E b \in blocked' : b.job = j /\ b.attempt = row'[j].attempt
    BY DEF FailedAttemptIsAudited
  <2>1. CASE row'[j] = row[j]
    BY <2>1 DEF LeaseInvariant, FailedAttemptIsAudited
  <2>2. CASE Settled(j)'
    BY <2>2 DEF Settled
  <2> QED
    BY <2>1, <2>2
<1> QED
  BY <1>1, <1>2, <1>3, <1>4, <1>5 DEF LeaseInvariant

\* What the switches write is settled.
LEMMA PausedIsSettled ==
  ASSUME TypeOK, NEW D, NEW code, D \subseteq scheduled', row' = PausedRows(D, code)
  PROVE  \A j \in Jobs : row'[j] = row[j] \/ Settled(j)'
<1> SUFFICES ASSUME NEW j \in Jobs, row'[j] # row[j]
             PROVE  Settled(j)'
  OBVIOUS
<1>1. j \in D /\ row'[j] = Paused(row[j], code)
  BY DEF PausedRows
<1>2. row[j] \in JobRow
  BY DEF TypeOK
<1>3. row'[j].active = FALSE /\ row'[j].owner = None
  BY <1>1, <1>2 DEF Paused, JobRow
<1> QED
  BY <1>1, <1>3 DEF Settled

\* The claim transaction: the jobs it leases were free at an instant in the past, the
\* others stay or are paused.
LEMMA ClaimDueEffect ==
  ASSUME TypeOK, LeaseInvariant, NEW w \in Workers, ClaimDue(w)
  PROVE  \E B \in SUBSET scheduled, t \in Nat :
           /\ t <= now
           /\ \A j \in B : /\ row[j].active
                           /\ row[j].owner = None \/ row[j].leaseEnds <= t
                           /\ row'[j] = Leased(row[j], w, t + LeaseSeconds)
           /\ \A j \in Jobs \ B : \/ row'[j] = row[j]
                                  \/ j \in scheduled /\ \E code : row'[j] = Paused(row[j], code)
           /\ claims'[w] = {ClaimOf(row[j], j, t + LeaseSeconds) : j \in B}
           /\ pc'[w] = IF B = {} THEN "idle" ELSE "ready"
<1> DEFINE t == pollAt[w]
           ends == t + LeaseSeconds
           after == PausedRows(Unauthorised(t), "APPROVAL_NOT_EFFECTIVE")
<1>1. PICK B \in Earliest(after, Claimable(after, t)) :
         /\ row' = [j \in Jobs |-> IF j \in B THEN Leased(after[j], w, ends) ELSE after[j]]
         /\ claims' = [claims EXCEPT ![w] = {ClaimOf(after[j], j, ends) : j \in B}]
         /\ pc' = [pc EXCEPT ![w] = IF B = {} THEN "idle" ELSE "ready"]
  BY DEF ClaimDue
<1>2. t <= now /\ t \in Nat
  BY DEF LeaseInvariant, ClaimsFollowControl, TypeOK
\* A leased row was active and free, and was not paused by this transaction.
<1>3. \A j \in B : /\ j \in scheduled /\ j \in Jobs
                   /\ after[j] = row[j]
                   /\ row[j].active
                   /\ row[j].owner = None \/ row[j].leaseEnds <= t
  <2> SUFFICES ASSUME NEW j \in B
               PROVE  /\ j \in scheduled /\ j \in Jobs
                      /\ after[j] = row[j]
                      /\ row[j].active
                      /\ row[j].owner = None \/ row[j].leaseEnds <= t
    OBVIOUS
  <2>1. j \in scheduled /\ j \in Jobs /\ after[j].active /\ LeaseFree(after[j], t)
    BY <1>1 DEF Earliest, Claimable, TypeOK
  <2>2. j \notin Unauthorised(t)
    <3> SUFFICES ASSUME j \in Unauthorised(t) PROVE FALSE
      OBVIOUS
    <3>1. after[j] = Paused(row[j], "APPROVAL_NOT_EFFECTIVE")
      BY <2>1 DEF PausedRows
    <3>2. row[j] \in JobRow
      BY <2>1 DEF TypeOK
    <3>3. after[j].active = FALSE
      BY <3>1, <3>2 DEF Paused, JobRow
    <3> QED
      BY <2>1, <3>3
  <2>3. after[j] = row[j]
    BY <2>1, <2>2 DEF PausedRows
  <2> QED
    BY <2>1, <2>3 DEF LeaseFree
<1>4. \A j \in B : row'[j] = Leased(row[j], w, t + LeaseSeconds)
  BY <1>1, <1>3
<1>5. \A j \in Jobs \ B : \/ row'[j] = row[j]
                          \/ j \in scheduled /\ \E code : row'[j] = Paused(row[j], code)
  <2> SUFFICES ASSUME NEW j \in Jobs \ B, row'[j] # row[j]
               PROVE  j \in scheduled /\ row'[j] = Paused(row[j], "APPROVAL_NOT_EFFECTIVE")
    OBVIOUS
  <2>1. row'[j] = after[j]
    BY <1>1
  <2> QED
    BY <2>1 DEF PausedRows, Unauthorised
<1>6. claims'[w] = {ClaimOf(row[j], j, t + LeaseSeconds) : j \in B}
  <2>1. claims'[w] = {ClaimOf(after[j], j, ends) : j \in B}
    BY <1>1 DEF TypeOK
  <2> HIDE DEF after
  <2> QED
    BY <1>3, <2>1
<1>7. pc'[w] = IF B = {} THEN "idle" ELSE "ready"
  BY <1>1 DEF TypeOK
<1>8. B \in SUBSET scheduled
  BY <1>3
<1> HIDE DEF t, after
<1> QED
  BY <1>2, <1>3, <1>4, <1>5, <1>6, <1>7, <1>8

\* What the other variables do in that transaction, and the memories of the workers.
LEMMA ClaimDueFrame ==
  ASSUME TypeOK, LeaseInvariant, NEW w \in Workers, ClaimDue(w)
  PROVE  /\ now' = now /\ scheduled' = scheduled /\ target' = target /\ blocked' = blocked
         /\ pending' = pending /\ pollAt'[w] = 0
         /\ Held(w) = {} /\ current'[w] = {}
         /\ \A v \in Workers \ {w} : /\ Held(v)' = Held(v) /\ pc'[v] = pc[v]
                                     /\ pollAt'[v] = pollAt[v] /\ claims'[v] = claims[v]
                                     /\ current'[v] = current[v]
<1>1. /\ pc[w] = "polled" /\ current' = current /\ pollAt' = [pollAt EXCEPT ![w] = 0]
      /\ \E S, q : claims' = [claims EXCEPT ![w] = S] /\ pc' = [pc EXCEPT ![w] = q]
  BY DEF ClaimDue
<1>2. claims[w] = {} /\ current[w] = {}
  BY <1>1 DEF LeaseInvariant, ClaimsFollowControl
<1> QED
  BY <1>1, <1>2 DEF ClaimDue, Held, TypeOK

LEMMA ClaimDueStep ==
  ASSUME TypeOK, TypeOK', LeaseInvariant, NEW w \in Workers, ClaimDue(w)
  PROVE  LeaseInvariant'
<1> USE ConstantsAssumption
<1>1. PICK B \in SUBSET scheduled, t \in Nat :
         /\ t <= now
         /\ \A j \in B : /\ row[j].active
                         /\ row[j].owner = None \/ row[j].leaseEnds <= t
                         /\ row'[j] = Leased(row[j], w, t + LeaseSeconds)
         /\ \A j \in Jobs \ B : \/ row'[j] = row[j]
                                \/ j \in scheduled /\ \E code : row'[j] = Paused(row[j], code)
         /\ claims'[w] = {ClaimOf(row[j], j, t + LeaseSeconds) : j \in B}
         /\ pc'[w] = IF B = {} THEN "idle" ELSE "ready"
  BY ClaimDueEffect
<1>2. /\ now' = now /\ scheduled' = scheduled /\ target' = target /\ blocked' = blocked
      /\ pending' = pending /\ pollAt'[w] = 0 /\ Held(w) = {} /\ current'[w] = {}
  BY ClaimDueFrame
<1> DEFINE ends == t + LeaseSeconds
<1>4. B \subseteq Jobs
  BY DEF TypeOK
<1>5. \A j \in Jobs \ B : \/ row'[j] = row[j]
                          \/ j \in scheduled /\ ~row'[j].active /\ row'[j].owner = None
  <2> SUFFICES ASSUME NEW j \in Jobs \ B, row'[j] # row[j]
               PROVE  j \in scheduled /\ ~row'[j].active /\ row'[j].owner = None
    OBVIOUS
  <2>1. PICK code : j \in scheduled /\ row'[j] = Paused(row[j], code)
    BY <1>1
  <2>2. row[j] \in JobRow
    BY DEF TypeOK
  <2> QED
    BY <2>1, <2>2 DEF Paused, JobRow
<1>6. \A j \in B : /\ row'[j].owner = w /\ row'[j].leaseEnds = ends
                   /\ row'[j].attempt = row[j].attempt /\ row'[j].active
                   /\ row'[j].error = row[j].error
  <2> SUFFICES ASSUME NEW j \in B
               PROVE  /\ row'[j].owner = w /\ row'[j].leaseEnds = ends
                      /\ row'[j].attempt = row[j].attempt /\ row'[j].active
                      /\ row'[j].error = row[j].error
    OBVIOUS
  <2>1. row'[j] = Leased(row[j], w, ends) /\ row[j] \in JobRow /\ row[j].active
    BY <1>1, <1>4 DEF TypeOK
  <2> HIDE DEF ends
  <2> QED
    BY <2>1 DEF Leased, JobRow
<1>7. /\ \A c \in Held(w)' : c.job \in B /\ c.attempt = row[c.job].attempt /\ c.leaseEnds = ends
      /\ \A c, d \in Held(w)' : c.job = d.job => c = d
  <2>1. Held(w)' = {ClaimOf(row[j], j, ends) : j \in B}
    BY <1>1, <1>2 DEF Held
  <2> HIDE DEF ends
  <2> QED
    BY <2>1 DEF ClaimOf
<1>8. \A v \in Workers \ {w} : /\ Held(v)' = Held(v) /\ pc'[v] = pc[v] /\ pollAt'[v] = pollAt[v]
                               /\ claims'[v] = claims[v] /\ current'[v] = current[v]
  BY ClaimDueFrame
<1> HIDE DEF ends
<1>9. ClaimsFollowControl'
  <2> SUFFICES ASSUME NEW v \in Workers
               PROVE  /\ pollAt'[v] <= now'
                      /\ pc'[v] \in {"idle", "polled", "ready", "down"} => current'[v] = {}
                      /\ pc'[v] \in {"idle", "polled", "down"} => claims'[v] = {}
                      /\ \A c, d \in Held(v)' : c.job = d.job => c = d
                      /\ \A c, d \in current'[v] : c = d
                      /\ claims'[v] \cap current'[v] = {}
    BY DEF ClaimsFollowControl
  <2>1. CASE v # w
    BY <1>2, <1>8, <2>1 DEF LeaseInvariant, ClaimsFollowControl
  <2>2. CASE v = w
    <3>1. pc'[w] = IF B = {} THEN "idle" ELSE "ready"
      BY <1>1
    <3>2. B = {} => claims'[w] = {}
      BY <1>1
    <3> QED
      BY <1>2, <1>7, <2>2, <3>1, <3>2 DEF TypeOK
  <2> QED
    BY <2>1, <2>2
<1>10. RowsFollowSchedule'
  <2>1. \A j \in Jobs : j \notin scheduled' => row'[j] = NoRow
    BY <1>2, <1>4, <1>5 DEF LeaseInvariant, RowsFollowSchedule
  <2>2. \A v \in Workers : \A c \in Held(v)' : c.job \in scheduled'
    BY <1>2, <1>4, <1>7, <1>8 DEF LeaseInvariant, RowsFollowSchedule
  <2> QED
    BY <1>2, <2>1, <2>2 DEF LeaseInvariant, RowsFollowSchedule
<1>11. ClaimsMatchRows'
  <2> SUFFICES ASSUME NEW v \in Workers, NEW c \in Held(v)'
               PROVE  /\ row'[c.job].owner = v => /\ c.attempt = row'[c.job].attempt
                                                  /\ c.leaseEnds = row'[c.job].leaseEnds
                      /\ /\ KindOf[c.job] = "connector"
                         /\ c.leaseEnds > now'
                         /\ row'[c.job].active
                         => row'[c.job].owner = v
    BY DEF ClaimsMatchRows
  <2>1. CASE v = w
    BY <1>6, <1>7, <2>1
  <2>2. CASE v # w
    <3>1. c \in Held(v) /\ c.job \in Jobs /\ c.leaseEnds \in Nat /\ v # None
      BY <1>8, <2>2, HeldType DEF ConstantsAssumption
    <3>2. CASE c.job \in B
      <4>1. row'[c.job].owner # v
        BY <1>6, <2>2, <3>2
      <4>2. ~(KindOf[c.job] = "connector" /\ c.leaseEnds > now')
        <5> SUFFICES ASSUME KindOf[c.job] = "connector", c.leaseEnds > now PROVE FALSE
          BY <1>2
        <5>1. row[c.job].owner = v /\ c.leaseEnds = row[c.job].leaseEnds
          BY <1>1, <3>1, <3>2 DEF LeaseInvariant, ClaimsMatchRows
        <5>2. c.leaseEnds <= t
          BY <1>1, <3>1, <3>2, <5>1
        <5> QED
          BY <1>1, <3>1, <5>2 DEF TypeOK
      <4> QED
        BY <4>1, <4>2
    <3>3. CASE c.job \notin B
      BY <1>2, <1>5, <3>1, <3>3 DEF LeaseInvariant, ClaimsMatchRows
    <3> QED
      BY <3>2, <3>3
  <2> QED
    BY <2>1, <2>2
<1>12. PausedJobHoldsNoLease'
  BY <1>2, <1>4, <1>5, <1>6 DEF LeaseInvariant, PausedJobHoldsNoLease
<1>13. ExclusiveConnectorClaim'
  <2> SUFFICES ASSUME NEW u \in Workers, NEW v \in Workers,
                      NEW c \in Held(u)', NEW d \in Held(v)',
                      u # v, c.job = d.job, KindOf[c.job] = "connector"
               PROVE  c.leaseEnds <= now' \/ d.leaseEnds <= now'
    BY DEF ExclusiveConnectorClaim
  <2>0. c.leaseEnds \in Nat /\ d.leaseEnds \in Nat /\ now' \in Nat
    <3>1. claims' \in [Workers -> SUBSET Claim] /\ current' \in [Workers -> SUBSET Claim]
      BY DEF TypeOK
    <3>2. c \in Claim /\ d \in Claim
      BY <3>1 DEF Held
    <3> QED
      BY <3>2 DEF Claim, TypeOK
  <2> SUFFICES ASSUME c.leaseEnds > now', d.leaseEnds > now'
               PROVE  FALSE
    BY <2>0
  <2>1. CASE u # w /\ v # w
    <3>1. c \in Held(u) /\ d \in Held(v)
      BY <1>8, <2>1
    <3>2. c.leaseEnds <= now \/ d.leaseEnds <= now
      BY <3>1 DEF LeaseInvariant, ExclusiveConnectorClaim
    <3>3. c.leaseEnds \in Nat /\ d.leaseEnds \in Nat
      BY <3>1, HeldType
    <3> QED
      BY <1>2, <3>2, <3>3 DEF TypeOK
  \* The row of a freshly leased job names w, not the other worker.
  <2>2. CASE u = w
    <3>1. row'[c.job].owner = w /\ row'[d.job].active
      BY <1>6, <1>7, <2>2
    <3>2. row'[d.job].owner = v
      BY <1>11, <3>1 DEF ClaimsMatchRows
    <3> QED
      BY <2>2, <3>1, <3>2
  <2>3. CASE v = w
    <3>1. row'[d.job].owner = w /\ row'[c.job].active
      BY <1>6, <1>7, <2>3
    <3>2. row'[c.job].owner = u
      BY <1>11, <3>1 DEF ClaimsMatchRows
    <3> QED
      BY <2>3, <3>1, <3>2
  <2> QED
    BY <2>1, <2>2, <2>3
<1>14. FailedAttemptIsAudited'
  BY <1>1, <1>2, <1>5, <1>6 DEF LeaseInvariant, FailedAttemptIsAudited
<1> QED
  BY <1>9, <1>10, <1>11, <1>12, <1>13, <1>14 DEF LeaseInvariant

\* The end of an attempt: only the owner of the lease writes the row, and the audit
\* entry that goes with it bears the attempt number of the row.
LEMMA FinishStep ==
  ASSUME TypeOK, TypeOK', LeaseInvariant, NEW w \in Workers, Finish(w)
  PROVE  LeaseInvariant'
<1> USE ConstantsAssumption
<1>1. PICK e \in current[w] : FinishJob(w, e, failure[w])
  BY DEF Finish
<1>2. /\ now' = now /\ scheduled' = scheduled /\ target' = target /\ pollAt' = pollAt
      /\ claims' = claims /\ current' = [current EXCEPT ![w] = {}] /\ pending' = pending
      /\ pc' = [pc EXCEPT ![w] = IF claims[w] = {} THEN "idle" ELSE "ready"]
  BY DEF Finish
<1>3. /\ e \in Held(w) /\ e.job \in Jobs /\ e \in Claim /\ e.attempt \in Nat
      /\ e \notin claims[w]
  BY <1>1, HeldType DEF Held, LeaseInvariant, ClaimsFollowControl
<1>4. \A v \in Workers : Held(v)' \subseteq Held(v)
  BY <1>2 DEF Held, TypeOK
<1>5. blocked \subseteq blocked'
  BY <1>1 DEF FinishJob, WithAudit
<1>6. ClaimsFollowControl'
  <2> SUFFICES ASSUME NEW v \in Workers
               PROVE  /\ pollAt'[v] <= now'
                      /\ pc'[v] \in {"idle", "polled", "ready", "down"} => current'[v] = {}
                      /\ pc'[v] \in {"idle", "polled", "down"} => claims'[v] = {}
                      /\ \A c, d \in Held(v)' : c.job = d.job => c = d
                      /\ \A c, d \in current'[v] : c = d
                      /\ claims'[v] \cap current'[v] = {}
    BY DEF ClaimsFollowControl
  <2>1. CASE v # w
    <3>1. pc'[v] = pc[v] /\ current'[v] = current[v] /\ Held(v)' = Held(v)
      BY <1>2, <2>1 DEF TypeOK, Held
    <3> QED
      BY <1>2, <3>1 DEF LeaseInvariant, ClaimsFollowControl
  <2>2. CASE v = w
    <3>1. current'[w] = {} /\ pc'[w] = IF claims[w] = {} THEN "idle" ELSE "ready"
      BY <1>2 DEF TypeOK
    <3>2. \A c, d \in Held(w)' : c.job = d.job => c = d
      BY <1>4 DEF LeaseInvariant, ClaimsFollowControl
    <3> QED
      BY <1>2, <2>2, <3>1, <3>2 DEF LeaseInvariant, ClaimsFollowControl
  <2> QED
    BY <2>1, <2>2
<1>7. \A j \in Jobs : row'[j] = row[j] \/ Settled(j)'
  <2>1. CASE row[e.job].owner # w
    BY <1>1, <2>1 DEF FinishJob, FinishedRow
  <2>2. CASE row[e.job].owner = w
    <3>1. row' = [row EXCEPT ![e.job] = Ended(row[e.job], NextDue(e.job, now), failure[w])]
      BY <1>1, <2>2 DEF FinishJob, FinishedRow
    <3>2. row'[e.job] = Ended(row[e.job], NextDue(e.job, now), failure[w]) /\ row[e.job] \in JobRow
      BY <1>3, <3>1 DEF TypeOK
    <3>3. /\ row'[e.job].owner = None /\ row'[e.job].active = row[e.job].active
          /\ row'[e.job].error = failure[w] /\ row'[e.job].attempt = row[e.job].attempt + 1
      BY <3>2 DEF Ended, JobRow
    <3>4. e.job \in scheduled /\ row[e.job].attempt = e.attempt
      BY <1>3, <2>2 DEF LeaseInvariant, RowsFollowSchedule, ClaimsMatchRows
    <3>5. failure[w] # None => \E b \in blocked' : b.job = e.job /\ b.attempt = e.attempt + 1
      <4> SUFFICES ASSUME failure[w] # None,
                          ~ \E b \in blocked : b.job = e.job /\ b.attempt = e.attempt + 1
                   PROVE  \E b \in blocked' : b.job = e.job /\ b.attempt = e.attempt + 1
        BY <1>5
      <4> DEFINE entry == [job |-> e.job, attempt |-> e.attempt + 1, code |-> failure[w]]
      <4>1. blocked' = blocked \cup {entry}
        BY <1>1 DEF FinishJob, WithAudit
      <4>2. entry \in blocked' /\ entry.job = e.job /\ entry.attempt = e.attempt + 1
        BY <4>1
      <4> QED
        BY <4>2
    \* Another worker's claim with time left would be named by the row.
    <3>6. ASSUME row[e.job].active, KindOf[e.job] = "connector",
                 NEW v \in Workers, NEW c \in Held(v)', c.job = e.job
          PROVE  c.leaseEnds <= now'
      <4>1. c \in Held(v) /\ c.leaseEnds \in Nat
        BY <1>4, HeldType
      <4>2. CASE v # w
        <5>1. ~(c.leaseEnds > now)
          BY <2>2, <3>6, <4>1, <4>2 DEF LeaseInvariant, ClaimsMatchRows
        <5> QED
          BY <1>2, <4>1, <5>1 DEF TypeOK
      <4>3. CASE v = w
        <5>1. c = e
          BY <1>3, <3>6, <4>1, <4>3 DEF LeaseInvariant, ClaimsFollowControl
        <5>2. Held(w)' = claims[w]
          BY <1>2 DEF Held, TypeOK
        <5> QED
          BY <1>3, <3>6, <4>3, <5>1, <5>2
      <4> QED
        BY <4>2, <4>3
    <3>7. Settled(e.job)'
      BY <1>2, <3>3, <3>4, <3>5, <3>6 DEF Settled
    <3> QED
      BY <3>1, <3>7 DEF TypeOK
  <2> QED
    BY <2>1, <2>2
<1>8. /\ now <= now' /\ scheduled \subseteq scheduled'
      /\ \A j \in scheduled' : target'[j] # "absent"
      /\ \A j \in Jobs : pending'[j] # {} => KindOf[j] = "monitor"
  BY <1>2 DEF LeaseInvariant, RowsFollowSchedule, TypeOK
<1> QED
  BY <1>4, <1>5, <1>6, <1>7, <1>8, SettlingStep

\* An activation: the row it writes has no error, and nobody holds a claim on a
\* connector that has never been activated.
LEMMA ActivationStep ==
  ASSUME TypeOK, TypeOK', LeaseInvariant, NEW j \in Jobs,
         ActivateConnector(j) \/ CommitActivation(j)
  PROVE  LeaseInvariant'
<1>1. /\ now' = now /\ blocked' = blocked /\ pc' = pc /\ pollAt' = pollAt
      /\ claims' = claims /\ current' = current /\ scheduled' = scheduled \cup {j}
      /\ target' = [target EXCEPT ![j] = "on"]
      /\ pending' = pending \/ pending' = [pending EXCEPT ![j] = {}]
  BY DEF ActivateConnector, CommitActivation, workerVars
<1>2. PICK r \in {NoRow, row[j]}, t \in Nat : row' = [row EXCEPT ![j] = Activated(r, t)]
  BY DEF ActivateConnector, CommitActivation, TypeOK
<1>3. KindOf[j] = "connector" => \A w \in Workers : \A c \in Held(w) : c.job # j
  BY DEF LeaseInvariant, RowsFollowSchedule, ActivateConnector, CommitActivation
<1>4. Settled(j)'
  <2>1. r \in JobRow
    <3>1. NoRow \in JobRow
      BY DEF NoRow, JobRow
    <3>2. row[j] \in JobRow
      BY DEF TypeOK
    <3> QED
      BY <1>2, <3>1, <3>2
  <2>2. row'[j] = Activated(r, t)
    BY <1>2 DEF TypeOK
  <2>3. row'[j].owner = None /\ row'[j].error = None
    BY <2>1, <2>2 DEF Activated, JobRow
  <2>4. \A w \in Workers : Held(w)' = Held(w)
    BY <1>1 DEF Held
  <2> QED
    BY <1>1, <1>3, <2>3, <2>4 DEF Settled
<1>5. \A k \in Jobs : row'[k] = row[k] \/ Settled(k)'
  BY <1>2, <1>4 DEF TypeOK
<1>6. ClaimsFollowControl'
  BY <1>1 DEF LeaseInvariant, ClaimsFollowControl, Held
<1>7. /\ \A k \in scheduled' : target'[k] # "absent"
      /\ \A k \in Jobs : pending'[k] # {} => KindOf[k] = "monitor"
  <2>1. \A k \in scheduled' : target'[k] # "absent"
    BY <1>1 DEF LeaseInvariant, RowsFollowSchedule, TypeOK
  <2>2. \A k \in Jobs : pending'[k] = pending[k] \/ pending'[k] = {}
    BY <1>1 DEF TypeOK
  <2> QED
    BY <2>1, <2>2 DEF LeaseInvariant, RowsFollowSchedule
<1>8. /\ now <= now' /\ scheduled \subseteq scheduled' /\ blocked \subseteq blocked'
      /\ \A w \in Workers : Held(w)' \subseteq Held(w)
  BY <1>1 DEF TypeOK, Held
<1> QED
  BY <1>5, <1>6, <1>7, <1>8, SettlingStep

\* A kill switch, thrown by a decision or by the operator.
LEMMA SwitchStep ==
  ASSUME TypeOK, TypeOK', LeaseInvariant,
         (\E s \in Sources : Decide(s)) \/ (\E j \in Jobs : DisableTarget(j))
  PROVE  LeaseInvariant'
<1>1. /\ now' = now /\ blocked' = blocked /\ pc' = pc /\ pollAt' = pollAt
      /\ claims' = claims /\ current' = current /\ scheduled' = scheduled /\ pending' = pending
  BY DEF Decide, DisableTarget, workerVars
<1>2. \A j \in Jobs : row'[j] = row[j] \/ Settled(j)'
  <2>1. CASE row' = row
    BY <2>1
  <2>2. CASE \E D \in SUBSET scheduled, code \in ErrorCodes : row' = PausedRows(D, code)
    BY <1>1, <2>2, PausedIsSettled
  <2>3. row' = row \/ \E D \in SUBSET scheduled, code \in ErrorCodes : row' = PausedRows(D, code)
    <3>1. "APPROVAL_NOT_EFFECTIVE" \in ErrorCodes /\ "TARGET_NOT_ACTIVE" \in ErrorCodes
      BY DEF ErrorCodes
    <3>2. \A s : JobsOf(s) \subseteq scheduled
      BY DEF JobsOf
    <3>3. \A j : {j} \cap scheduled \subseteq scheduled
      OBVIOUS
    <3> QED
      BY <3>1, <3>2, <3>3 DEF Decide, DisableTarget
  <2> QED
    BY <2>1, <2>2, <2>3
<1>3. \A j \in scheduled' : target'[j] # "absent"
  <2>1. target' = target \/ \E j \in Jobs : target' = [target EXCEPT ![j] = "off"]
    BY DEF Decide, DisableTarget
  <2> QED
    BY <1>1, <2>1 DEF LeaseInvariant, RowsFollowSchedule, TypeOK
<1>4. ClaimsFollowControl'
  BY <1>1 DEF LeaseInvariant, ClaimsFollowControl, Held
<1>5. /\ now <= now' /\ scheduled \subseteq scheduled' /\ blocked \subseteq blocked'
      /\ \A w \in Workers : Held(w)' \subseteq Held(w)
      /\ \A j \in Jobs : pending'[j] # {} => KindOf[j] = "monitor"
  BY <1>1 DEF TypeOK, Held, LeaseInvariant, RowsFollowSchedule
<1> QED
  BY <1>2, <1>3, <1>4, <1>5, SettlingStep

\* A worker's step that writes nothing to the database.
LEMMA MemoryStep ==
  ASSUME TypeOK, TypeOK', LeaseInvariant, NEW w \in Workers,
         Poll(w) \/ Start(w) \/ Break(w) \/ Crash(w) \/ Restart(w)
  PROVE  LeaseInvariant'
<1>1. /\ now' = now /\ blocked' = blocked /\ row' = row /\ scheduled' = scheduled
      /\ target' = target /\ pending' = pending
  BY DEF Poll, Start, Break, Crash, Restart, dbVars
<1>2. \A v \in Workers \ {w} : /\ claims'[v] = claims[v] /\ current'[v] = current[v]
                               /\ pc'[v] = pc[v] /\ pollAt'[v] = pollAt[v]
  BY DEF Poll, Start, Break, Crash, Restart, TypeOK
\* What the step does to the memory of w, action by action.
<1>3. /\ pollAt'[w] <= now
      /\ pc'[w] \in {"idle", "polled", "ready", "down"} => current'[w] = {}
      /\ pc'[w] \in {"idle", "polled", "down"} => claims'[w] = {}
      /\ claims'[w] \cap current'[w] = {}
      /\ \A c, d \in current'[w] : c = d
      /\ claims'[w] \cup current'[w] \subseteq Held(w)
  <2>1. CASE Poll(w)
    BY <2>1 DEF Poll, Held, TypeOK, LeaseInvariant, ClaimsFollowControl
  <2>2. CASE Start(w)
    <3>1. PICK c \in claims[w] : /\ claims' = [claims EXCEPT ![w] = claims[w] \ {c}]
                                 /\ current' = [current EXCEPT ![w] = {c}]
                                 /\ pc' = [pc EXCEPT ![w] = IF Gate(w, c) = None
                                                            THEN "running" ELSE "failing"]
                                 /\ pollAt' = pollAt
      BY <2>2 DEF Start
    <3>2. pc'[w] \in {"running", "failing"} /\ claims'[w] = claims[w] \ {c} /\ current'[w] = {c}
      BY <3>1 DEF TypeOK
    <3> QED
      BY <3>1, <3>2 DEF Held, LeaseInvariant, ClaimsFollowControl
  <2>3. CASE Break(w)
    BY <2>3 DEF Break, Held, TypeOK, LeaseInvariant, ClaimsFollowControl
  <2>4. CASE Crash(w)
    BY <2>4 DEF Crash, Held, TypeOK, LeaseInvariant, ClaimsFollowControl
  <2>5. CASE Restart(w)
    BY <2>5 DEF Restart, Held, TypeOK, LeaseInvariant, ClaimsFollowControl
  <2> QED
    BY <2>1, <2>2, <2>3, <2>4, <2>5
<1>4. \A v \in Workers : Held(v)' \subseteq Held(v)
  BY <1>2, <1>3 DEF Held
<1>5. ClaimsFollowControl'
  <2>1. ASSUME NEW v \in Workers
        PROVE  /\ pollAt'[v] <= now'
               /\ pc'[v] \in {"idle", "polled", "ready", "down"} => current'[v] = {}
               /\ pc'[v] \in {"idle", "polled", "down"} => claims'[v] = {}
               /\ claims'[v] \cap current'[v] = {}
               /\ \A c, d \in current'[v] : c = d
    BY <1>1, <1>2, <1>3 DEF LeaseInvariant, ClaimsFollowControl
  <2>2. \A v \in Workers : \A c, d \in Held(v)' : c.job = d.job => c = d
    BY <1>4 DEF LeaseInvariant, ClaimsFollowControl
  <2> QED
    BY <2>1, <2>2 DEF ClaimsFollowControl
<1>6. /\ now <= now' /\ scheduled \subseteq scheduled' /\ blocked \subseteq blocked'
      /\ \A j \in scheduled' : target'[j] # "absent"
      /\ \A j \in Jobs : pending'[j] # {} => KindOf[j] = "monitor"
      /\ \A j \in Jobs : row'[j] = row[j]
  BY <1>1 DEF TypeOK, LeaseInvariant, RowsFollowSchedule
<1> QED
  BY <1>4, <1>5, <1>6, SettlingStep

\* The clock, and the half of an activation that only reads.
LEMMA OutsideStep ==
  ASSUME TypeOK, TypeOK', LeaseInvariant,
         \/ Tick \/ UNCHANGED vars
         \/ \E j \in Jobs : BeginActivation(j) \/ AbortActivation(j)
  PROVE  LeaseInvariant'
<1>1. /\ blocked' = blocked /\ row' = row /\ scheduled' = scheduled /\ target' = target
      /\ claims' = claims /\ current' = current /\ pc' = pc /\ pollAt' = pollAt
  BY DEF Tick, BeginActivation, AbortActivation, vars, dbVars, workerVars
<1>2. now <= now'
  BY ConstantsAssumption
     DEF ConstantsAssumption, Tick, BeginActivation, AbortActivation, vars, TypeOK
<1>3. \A j \in Jobs : pending'[j] # {} => KindOf[j] = "monitor"
  BY DEF Tick, BeginActivation, AbortActivation, vars, dbVars, TypeOK, LeaseInvariant,
         RowsFollowSchedule
<1>4. ClaimsFollowControl'
  BY <1>1, <1>2 DEF LeaseInvariant, ClaimsFollowControl, Held, TypeOK
<1>5. /\ scheduled \subseteq scheduled' /\ blocked \subseteq blocked'
      /\ \A j \in scheduled' : target'[j] # "absent"
      /\ \A j \in Jobs : row'[j] = row[j]
      /\ \A w \in Workers : Held(w)' \subseteq Held(w)
  BY <1>1 DEF LeaseInvariant, RowsFollowSchedule, Held
<1> QED
  BY <1>2, <1>3, <1>4, <1>5, SettlingStep

LEMMA LeaseStep == TypeOK /\ TypeOK' /\ LeaseInvariant /\ [Next]_vars => LeaseInvariant'
BY ClaimDueStep, FinishStep, ActivationStep, SwitchStep, MemoryStep, OutsideStep
   DEF Next, WorkerStep, AdminStep

LEMMA LeaseInit == Init => LeaseInvariant
<1> USE DEF Init, WorkerInit, NoRow, Held
<1> SUFFICES ASSUME Init PROVE LeaseInvariant
  OBVIOUS
<1>1. ClaimsFollowControl
  BY DEF ClaimsFollowControl
<1>2. RowsFollowSchedule
  BY DEF RowsFollowSchedule
<1>3. ClaimsMatchRows
  BY DEF ClaimsMatchRows
<1>4. PausedJobHoldsNoLease /\ ExclusiveConnectorClaim /\ FailedAttemptIsAudited
  BY DEF PausedJobHoldsNoLease, ExclusiveConnectorClaim, FailedAttemptIsAudited
<1> QED
  BY <1>1, <1>2, <1>3, <1>4 DEF LeaseInvariant

\* The rows and the workers' memories agree as LeaseInvariant says, in every reachable
\* state.
THEOREM LeasesCorrect == Spec => []LeaseInvariant
BY LeaseInit, LeaseStep, TypeCorrect, PTL DEF Spec

\* A paused job holds no lease.
THEOREM PausedJobsHoldNoLease == Spec => []PausedJobHoldsNoLease
<1>1. LeaseInvariant => PausedJobHoldsNoLease
  BY DEF LeaseInvariant
<1> QED
  BY <1>1, LeasesCorrect, PTL

\* While a claim on a connector has time left no other worker's claim on it has, for any
\* number of workers and jobs and any instants at which the clock is read.
THEOREM ConnectorClaimsAreExclusive == Spec => []ExclusiveConnectorClaim
<1>1. LeaseInvariant => ExclusiveConnectorClaim
  BY DEF LeaseInvariant
<1> QED
  BY <1>1, LeasesCorrect, PTL

\* The error of an active job's last attempt has the audit entry of that attempt.
THEOREM FailedAttemptsAreAudited == Spec => []FailedAttemptIsAudited
<1>1. LeaseInvariant => FailedAttemptIsAudited
  BY DEF LeaseInvariant
<1> QED
  BY <1>1, LeasesCorrect, PTL

----------------------------------------------------------------------------
(* The kill switches *)

\* The latest approval is in force when it covers the job, whatever preceded it.
LEMMA EffectiveIsInForce ==
  ASSUME TypeOK, NEW j \in Jobs, NEW t, Effective(j, t)
  PROVE  WasInForce(j, t)
<1> DEFINE a == approvals[SourceOf[j]]
<1>1. a \in Seq(Approval) /\ a # <<>>
  BY ConstantsAssumption DEF TypeOK, Effective, ConstantsAssumption
<1>2. /\ Len(a) \in DOMAIN a /\ Authorizes(a[Len(a)], KindOf[j], t)
      /\ \A m \in DOMAIN a : ~(m > Len(a))
  BY <1>1 DEF Effective, Latest
<1> QED
  BY <1>2 DEF WasInForce

\* A decision does not take back that another was in force at an instant in the past.
LEMMA InForceStays ==
  ASSUME TypeOK, NEW j \in Jobs, NEW t \in Nat, t <= now, WasInForce(j, t), NEW s \in Sources, Decide(s)
  PROVE  WasInForce(j, t)'
<1> DEFINE a == approvals[SourceOf[j]]
<1>1. PICK o \in Offers : approvals' = [approvals EXCEPT ![s] =
            Append(@, [decision |-> o.decision, scope |-> o.scope,
                       decidedAt |-> now, expiresAt |-> o.expiresAt])]
  BY DEF Decide
<1> DEFINE new == [decision |-> o.decision, scope |-> o.scope, decidedAt |-> now, expiresAt |-> o.expiresAt]
<1>2. a \in Seq(Approval) /\ new.decidedAt = now
  BY ConstantsAssumption DEF TypeOK, ConstantsAssumption
<1>3. approvals'[SourceOf[j]] = a \/ approvals'[SourceOf[j]] = Append(a, new)
  BY <1>1, ConstantsAssumption DEF TypeOK, ConstantsAssumption
<1>4. PICK k \in DOMAIN a : /\ Authorizes(a[k], KindOf[j], t)
                            /\ \A m \in DOMAIN a : m > k => t <= a[m].decidedAt
  BY DEF WasInForce
<1>5. CASE approvals'[SourceOf[j]] = a
  BY <1>4, <1>5 DEF WasInForce
<1>6. CASE approvals'[SourceOf[j]] = Append(a, new)
  <2> HIDE DEF a, new
  <2>1. /\ k \in DOMAIN Append(a, new) /\ Append(a, new)[k] = a[k]
        /\ \A m \in DOMAIN Append(a, new) :
             \/ m \in DOMAIN a /\ Append(a, new)[m] = a[m]
             \/ Append(a, new)[m] = new
    BY <1>2, <1>4
  <2>2. \A m \in DOMAIN Append(a, new) : m > k => t <= Append(a, new)[m].decidedAt
    BY <1>2, <1>4, <2>1
  <2> QED BY <1>4, <1>6, <2>1, <2>2 DEF WasInForce
<1> QED
  BY <1>3, <1>5, <1>6

\* An instant that was approved stays so as long as no decision is added.
LEMMA InForceFrame ==
  ASSUME approvals' = approvals, NEW j, NEW t, WasInForce(j, t)
  PROVE  WasInForce(j, t)'
BY DEF WasInForce, Authorizes

LEMMA ActivationsStep ==
  ASSUME TypeOK, ActivationsSawApproval, [Next]_vars
  PROVE  ActivationsSawApproval'
<1>1. CASE /\ approvals' = approvals /\ now' \in Nat /\ now <= now'
           /\ \A j \in Jobs : pending'[j] \subseteq pending[j]
  <2>1. ASSUME NEW s \in Sources, NEW k \in DOMAIN approvals[s]
        PROVE  approvals[s][k].decidedAt <= now'
    <3>1. approvals[s] \in Seq(Approval) /\ now \in Nat
      BY DEF TypeOK
    <3>2. approvals[s][k] \in Approval
      BY <3>1
    <3>3. approvals[s][k].decidedAt \in Nat
      BY <3>2 DEF Approval
    <3> QED BY <1>1, <3>1, <3>3 DEF ActivationsSawApproval
  <2>2. ASSUME NEW j \in Jobs, NEW t \in pending'[j]
        PROVE  t <= now' /\ WasInForce(j, t)'
    <3>1. t \in pending[j] /\ t \in Nat /\ now \in Nat
      BY <1>1 DEF TypeOK
    <3>2. t <= now /\ WasInForce(j, t)
      BY <3>1 DEF ActivationsSawApproval
    <3> QED BY <1>1, <3>1, <3>2, InForceFrame
  <2> QED BY <1>1, <2>1, <2>2 DEF ActivationsSawApproval
<1>2. ASSUME NEW s \in Sources, Decide(s) PROVE ActivationsSawApproval'
  <2>0. now' = now /\ pending' = pending /\ now \in Nat
    BY <1>2 DEF Decide, TypeOK
  <2>1. ASSUME NEW j \in Jobs, NEW t \in pending'[j] PROVE t <= now' /\ WasInForce(j, t)'
    <3>1. t \in pending[j] /\ t \in Nat
      BY <2>0 DEF TypeOK
    <3>2. t <= now /\ WasInForce(j, t)
      BY <3>1 DEF ActivationsSawApproval
    <3> QED BY <1>2, <2>0, <3>1, <3>2, InForceStays
  <2>2. \A r \in Sources : \A k \in DOMAIN approvals'[r] : approvals'[r][k].decidedAt <= now'
    <3>1. PICK o \in Offers : approvals' = [approvals EXCEPT ![s] =
              Append(@, [decision |-> o.decision, scope |-> o.scope,
                         decidedAt |-> now, expiresAt |-> o.expiresAt])]
      BY <1>2 DEF Decide
    <3> DEFINE new == [decision |-> o.decision, scope |-> o.scope, decidedAt |-> now,
                       expiresAt |-> o.expiresAt]
    <3>2. new.decidedAt <= now
      BY <2>0
    <3>3. approvals'[s] = Append(approvals[s], new) /\ approvals[s] \in Seq(Approval)
      BY <3>1 DEF TypeOK
    <3> HIDE DEF new
    <3>4. ASSUME NEW k \in DOMAIN approvals'[s] PROVE approvals'[s][k].decidedAt <= now
      <4>1. \/ k \in DOMAIN approvals[s] /\ approvals'[s][k] = approvals[s][k]
            \/ approvals'[s][k] = new
        BY <3>3
      <4> QED BY <3>2, <4>1 DEF ActivationsSawApproval
    <3>5. \A r \in Sources \ {s} : approvals'[r] = approvals[r]
      BY <3>1 DEF TypeOK
    <3> QED BY <2>0, <3>4, <3>5 DEF ActivationsSawApproval
  <2> QED BY <2>1, <2>2 DEF ActivationsSawApproval
<1>3. ASSUME NEW j \in Jobs, BeginActivation(j) PROVE ActivationsSawApproval'
  <2>1. /\ now' = now /\ now \in Nat /\ approvals' = approvals /\ Effective(j, now)
        /\ pending' = [pending EXCEPT ![j] = {now}]
    BY <1>3 DEF BeginActivation, TypeOK
  <2>2. WasInForce(j, now)
    BY <2>1, EffectiveIsInForce
  <2>3. ASSUME NEW i \in Jobs, NEW t \in pending'[i] PROVE t <= now' /\ WasInForce(i, t)'
    <3>1. CASE i = j
      <4>1. t = now
        BY <2>1, <3>1 DEF TypeOK
      <4> QED BY <2>1, <2>2, <3>1, <4>1, InForceFrame
    <3>2. CASE i # j
      <4>1. t \in pending[i]
        BY <2>1, <3>2 DEF TypeOK
      <4>2. t <= now /\ WasInForce(i, t)
        BY <4>1 DEF ActivationsSawApproval
      <4> QED BY <2>1, <4>2, InForceFrame
    <3> QED BY <3>1, <3>2
  <2> QED BY <2>1, <2>3 DEF ActivationsSawApproval
<1>4. CASE UNCHANGED vars \/ Tick \/ \E w \in Workers : WorkerStep(w)
  <2>1. approvals' = approvals /\ pending' = pending
    BY <1>4 DEF vars, dbVars, Tick, WorkerStep, Poll, ClaimDue, Start, Break, Finish, Crash, Restart
  <2>2. CASE Tick
    <3>1. now' \in Nat /\ now <= now'
      BY <2>2, ConstantsAssumption DEF Tick, ConstantsAssumption, TypeOK
    <3> QED BY <1>1, <2>1, <3>1
  <2>3. CASE ~Tick
    <3>1. now' = now
      BY <1>4, <2>3 DEF vars, WorkerStep, Poll, ClaimDue, Start, Break, Finish, Crash, Restart
    <3> QED BY <1>1, <2>1, <3>1 DEF TypeOK
  <2> QED BY <2>2, <2>3
<1>5. ASSUME NEW j \in Jobs, AdminStep(j), ~BeginActivation(j) PROVE ActivationsSawApproval'
  <2>1. approvals' = approvals /\ now' = now
    BY <1>5 DEF AdminStep, ActivateConnector, CommitActivation, AbortActivation, DisableTarget
  <2>2. pending' = pending \/ pending' = [pending EXCEPT ![j] = {}]
    BY <1>5 DEF AdminStep, ActivateConnector, CommitActivation, AbortActivation, DisableTarget
  <2> QED BY <1>1, <2>1, <2>2 DEF TypeOK
<1> QED
  BY <1>2, <1>3, <1>4, <1>5 DEF Next

\* Switching off what is off changes nothing but the error code.
LEMMA PausedTwice ==
  ASSUME NEW r \in JobRow, ~r.active, r.owner = None, r.leaseEnds = 0, NEW code
  PROVE  Paused(r, code) = [r EXCEPT !.error = Paused(r, code).error]
BY DEF Paused, JobRow

LEMMA SwitchesHoldStep ==
  ASSUME TypeOK, LeaseInvariant, ActivationsSawApproval, [Next]_vars, NEW j \in Jobs, ~row[j].active
  PROVE  \/ row'[j] = [row[j] EXCEPT !.error = row'[j].error]
         \/ row'[j] = Activated(row[j], row'[j].due) /\ WasInForce(j, row'[j].due)
<1>1. row[j] \in JobRow /\ row[j].owner = None /\ row[j].leaseEnds = 0
  BY DEF TypeOK, LeaseInvariant, PausedJobHoldsNoLease
<1>2. CASE row'[j] = row[j]
  BY <1>1, <1>2 DEF JobRow
<1>3. CASE \E code : row'[j] = Paused(row[j], code)
  BY <1>1, <1>3, PausedTwice
<1>4. ASSUME NEW w \in Workers, ClaimDue(w)
      PROVE  row'[j] = row[j] \/ \E code : row'[j] = Paused(row[j], code)
  BY <1>4, ClaimDueEffect
<1>5. ASSUME NEW w \in Workers, Finish(w) PROVE row'[j] = row[j]
  <2>1. PICK c \in current[w] : row' = FinishedRow(w, c, failure[w])
    BY <1>5 DEF Finish, FinishJob
  <2> QED BY <1>1, <2>1, ConstantsAssumption DEF FinishedRow, ConstantsAssumption, TypeOK
<1>6. ASSUME NEW s \in Sources, Decide(s)
      PROVE  row'[j] = row[j] \/ \E code : row'[j] = Paused(row[j], code)
  BY <1>6 DEF Decide, PausedRows
<1>7. ASSUME NEW i \in Jobs, DisableTarget(i)
      PROVE  row'[j] = row[j] \/ \E code : row'[j] = Paused(row[j], code)
  BY <1>7 DEF DisableTarget, PausedRows
<1>8. ASSUME NEW i \in Jobs, ActivateConnector(i), row'[j] # row[j]
      PROVE  row'[j] = Activated(row[j], row'[j].due) /\ WasInForce(j, row'[j].due)
  <2>1. i = j /\ row'[j] = Activated(NoRow, now) /\ Effective(j, now) /\ target[j] = "absent"
    BY <1>8 DEF ActivateConnector, TypeOK
  <2>2. row[j] = NoRow
    BY <2>1 DEF LeaseInvariant, RowsFollowSchedule
  <2>3. row'[j].due = now
    BY <1>1, <2>1, <2>2 DEF Activated, JobRow
  <2> QED BY <2>1, <2>2, <2>3, EffectiveIsInForce
<1>9. ASSUME NEW i \in Jobs, CommitActivation(i), row'[j] # row[j]
      PROVE  row'[j] = Activated(row[j], row'[j].due) /\ WasInForce(j, row'[j].due)
  <2>1. PICK t \in pending[j] : row'[j] = Activated(row[j], t)
    BY <1>9 DEF CommitActivation, TypeOK
  <2>2. row'[j].due = t
    BY <1>1, <2>1 DEF Activated, JobRow
  <2> QED BY <2>1, <2>2 DEF ActivationsSawApproval
<1>10. CASE UNCHANGED row
  BY <1>2, <1>10
<1>11. CASE \E w \in Workers : WorkerStep(w) /\ ~ClaimDue(w) /\ ~Finish(w)
  BY <1>10, <1>11 DEF WorkerStep, Poll, Start, Break, Crash, Restart, dbVars
<1>12. CASE \E i \in Jobs : BeginActivation(i) \/ AbortActivation(i)
  BY <1>10, <1>12 DEF BeginActivation, AbortActivation
<1>13. CASE Tick \/ UNCHANGED vars
  BY <1>10, <1>13 DEF Tick, vars, dbVars
<1> QED
  BY <1>2, <1>3, <1>4, <1>5, <1>6, <1>7, <1>8, <1>9, <1>11, <1>12, <1>13
  DEF Next, WorkerStep, AdminStep

\* Every activation under way has seen an approval in force, whatever is decided meanwhile.
THEOREM ActivationsAreApproved == Spec => []ActivationsSawApproval
<1>1. Init => ActivationsSawApproval
  BY DEF Init, ActivationsSawApproval
<1>2. TypeOK /\ ActivationsSawApproval /\ [Next]_vars => ActivationsSawApproval'
  BY ActivationsStep
<1> QED
  BY <1>1, <1>2, TypeCorrect, PTL DEF Spec

\* Whatever the claims that outlive a kill switch come to, they leave the paused row alone,
\* and only an activation that saw an approval in force starts the job again.
THEOREM PausedJobsStayPaused == Spec => KillSwitchesHold
<1> DEFINE Holds == \A j \in Jobs : ~row[j].active =>
             \/ row'[j] = [row[j] EXCEPT !.error = row'[j].error]
             \/ row'[j] = Activated(row[j], row'[j].due) /\ WasInForce(j, row'[j].due)
<1>1. TypeOK /\ LeaseInvariant /\ ActivationsSawApproval /\ [Next]_vars => [Holds]_vars
  BY SwitchesHoldStep
<1> QED
  BY <1>1, TypeCorrect, LeasesCorrect, ActivationsAreApproved, PTL DEF Spec, KillSwitchesHold

----------------------------------------------------------------------------
(* The refinement of the lease ledger *)

\* The fields of a job's entry, now and after a step.
LEMMA EntryFields ==
  ASSUME NEW j \in Jobs
  PROVE  /\ LedgerEntry(j).on = row[j].active /\ LedgerEntry(j)'.on = row'[j].active
         /\ LedgerEntry(j).owner = row[j].owner /\ LedgerEntry(j)'.owner = row'[j].owner
         /\ LedgerEntry(j).holders = Holders(j) /\ LedgerEntry(j)'.holders = Holders(j)'
         /\ LedgerEntry(j).done = row[j].attempt /\ LedgerEntry(j)'.done = row'[j].attempt
         /\ LedgerEntry(j).lapsed <=> row[j].owner # None /\ row[j].leaseEnds <= now
         /\ LedgerEntry(j)'.lapsed <=> row'[j].owner # None /\ row'[j].leaseEnds <= now'
BY DEF LedgerEntry

\* A job whose row and holders stay: at most its lease lapses.
LEMMA EntryWaits ==
  ASSUME TypeOK, TypeOK', NEW j \in Jobs, row'[j] = row[j], Holders(j)' = Holders(j), now <= now'
  PROVE  Ledger!Step(LedgerEntry(j), LedgerEntry(j)')
<1>1. row[j].leaseEnds \in Nat /\ now \in Nat /\ now' \in Nat
  BY DEF TypeOK, JobRow
<1> DEFINE lapsed(t) == row[j].owner # None /\ row[j].leaseEnds <= t
<1>2. CASE lapsed(now) <=> lapsed(now')
  <2>1. lapsed(now) = lapsed(now')
    BY <1>2
  <2>2. LedgerEntry(j)' = LedgerEntry(j)
    BY <2>1 DEF LedgerEntry
  <2> QED
    BY <2>2 DEF Ledger!Step
<1>3. CASE ~lapsed(now) /\ lapsed(now')
  BY <1>3, EntryFields DEF Ledger!Step, Ledger!Lapsed
<1> QED
  BY <1>1, <1>2, <1>3

\* A job whose row stays while one of its holders ends or dies.
LEMMA EntryDropped ==
  ASSUME NEW j \in Jobs, row'[j] = row[j], now' = now,
         NEW w \in Holders(j), Holders(j)' = Holders(j) \ {w}
  PROVE  Ledger!Step(LedgerEntry(j), LedgerEntry(j)')
<1>1. LedgerEntry(j)'.lapsed = LedgerEntry(j).lapsed
  BY DEF LedgerEntry
<1> QED
  BY <1>1, EntryFields DEF Ledger!Step, Ledger!Dropped

\* A row that was paused or activated.
LEMMA EntrySwitched ==
  ASSUME NEW j \in Jobs, row'[j].owner = None, row'[j].attempt = row[j].attempt,
         Holders(j)' = Holders(j)
  PROVE  Ledger!Step(LedgerEntry(j), LedgerEntry(j)')
BY EntryFields DEF Ledger!Step, Ledger!Switched

\* A row that was leased.
LEMMA EntryTaken ==
  ASSUME NEW j \in Jobs, NEW w \in Workers, w \notin Holders(j),
         row[j].active, row[j].owner = None \/ row[j].leaseEnds <= now,
         row'[j].active = row[j].active, row'[j].owner = w, row'[j].attempt = row[j].attempt,
         Holders(j)' = Holders(j) \cup {w}
  PROVE  Ledger!Step(LedgerEntry(j), LedgerEntry(j)')
BY EntryFields DEF Ledger!Step, Ledger!Taken

\* A row whose attempt its owner ended.
LEMMA EntryCompleted ==
  ASSUME NEW j \in Jobs, NEW w \in Workers, w \in Holders(j), row[j].owner = w,
         row'[j].active = row[j].active, row'[j].owner = None,
         row'[j].attempt = row[j].attempt + 1, Holders(j)' = Holders(j) \ {w}
  PROVE  Ledger!Step(LedgerEntry(j), LedgerEntry(j)')
BY EntryFields DEF Ledger!Step, Ledger!Completed

----------------------------------------------------------------------------
(* Every step of Scheduler is a step of the ledger, job by job *)

\* Workers whose claims stay keep every job's holders.
LEMMA HoldersStay ==
  ASSUME \A v \in Workers : Held(v)' = Held(v)
  PROVE  \A j \in Jobs : Holders(j)' = Holders(j)
BY DEF Holders

\* The claim transaction takes the leased jobs and switches the unauthorised ones off.
LEMMA ClaimDueImplements ==
  ASSUME TypeOK, TypeOK', LeaseInvariant, NEW w \in Workers, ClaimDue(w), NEW j \in Jobs
  PROVE  Ledger!Step(LedgerEntry(j), LedgerEntry(j)')
<1>1. PICK B \in SUBSET scheduled, t \in Nat :
         /\ t <= now
         /\ \A k \in B : /\ row[k].active
                         /\ row[k].owner = None \/ row[k].leaseEnds <= t
                         /\ row'[k] = Leased(row[k], w, t + LeaseSeconds)
         /\ \A k \in Jobs \ B : \/ row'[k] = row[k]
                                \/ k \in scheduled /\ \E code : row'[k] = Paused(row[k], code)
         /\ claims'[w] = {ClaimOf(row[k], k, t + LeaseSeconds) : k \in B}
         /\ pc'[w] = IF B = {} THEN "idle" ELSE "ready"
  BY ClaimDueEffect
<1>2. /\ now' = now /\ Held(w) = {} /\ current'[w] = {}
      /\ \A v \in Workers \ {w} : Held(v)' = Held(v)
  BY ClaimDueFrame
<1>3. row[j] \in JobRow /\ now \in Nat
  BY DEF TypeOK
<1> DEFINE ends == t + LeaseSeconds
<1>4. \A c \in Held(w)' : c.job \in B
  BY <1>1, <1>2 DEF Held, ClaimOf
<1>5. j \in B => \E c \in Held(w)' : c.job = j
  <2> SUFFICES ASSUME j \in B PROVE \E c \in Held(w)' : c.job = j
    OBVIOUS
  <2>1. ClaimOf(row[j], j, ends) \in Held(w)'
    BY <1>1 DEF Held
  <2> QED
    BY <2>1 DEF ClaimOf
<1> HIDE DEF ends
<1>6. CASE j \in B
  <2>1. w \notin Holders(j) /\ Holders(j)' = Holders(j) \cup {w}
    BY <1>2, <1>5, <1>6 DEF Holders
  <2>2. row[j].active /\ (row[j].owner = None \/ row[j].leaseEnds <= now)
    BY <1>1, <1>3, <1>6 DEF JobRow
  <2>3. row'[j] = Leased(row[j], w, t + LeaseSeconds)
    BY <1>1, <1>6
  <2>4. row'[j].active = row[j].active /\ row'[j].owner = w /\ row'[j].attempt = row[j].attempt
    BY <1>3, <2>3 DEF Leased, JobRow
  <2> QED
    BY <2>1, <2>2, <2>4, EntryTaken
<1>7. CASE j \notin B
  <2>1. Holders(j)' = Holders(j)
    BY <1>2, <1>4, <1>7 DEF Holders
  <2>2. CASE row'[j] = row[j]
    BY <1>2, <1>3, <2>1, <2>2, EntryWaits
  <2>3. CASE \E code : row'[j] = Paused(row[j], code)
    <3>1. PICK code : row'[j] = Paused(row[j], code)
      BY <2>3
    <3>2. row'[j].owner = None /\ row'[j].attempt = row[j].attempt
      BY <1>3, <3>1 DEF Paused, JobRow
    <3> QED
      BY <2>1, <3>2, EntrySwitched
  <2> QED
    BY <1>1, <1>7, <2>2, <2>3
<1> QED
  BY <1>6, <1>7

\* The end of an attempt completes it if the worker still owns the lease.
LEMMA FinishImplements ==
  ASSUME TypeOK, TypeOK', LeaseInvariant, NEW w \in Workers, Finish(w), NEW j \in Jobs
  PROVE  Ledger!Step(LedgerEntry(j), LedgerEntry(j)')
<1>1. PICK e \in current[w] : FinishJob(w, e, failure[w])
  BY DEF Finish
<1>2. now' = now /\ claims' = claims /\ current' = [current EXCEPT ![w] = {}] /\ now \in Nat
  BY DEF Finish, TypeOK
<1>3. e \in Held(w) /\ e.job \in Jobs
  BY <1>1, HeldType DEF Held
<1>4. Held(w)' \subseteq Held(w) \ {e}
  BY <1>1, <1>2 DEF Held, TypeOK, LeaseInvariant, ClaimsFollowControl
<1>5. \A v \in Workers \ {w} : Held(v)' = Held(v)
  BY <1>2 DEF Held, TypeOK
<1>6. \A c \in Held(w) : c # e => c.job # e.job
  BY <1>3 DEF LeaseInvariant, ClaimsFollowControl
<1>7. row'[j] = row[j] \/ (j = e.job /\ row[j].owner = w
                             /\ row'[j] = Ended(row[j], NextDue(j, now), failure[w]))
  BY <1>1 DEF FinishJob, FinishedRow, TypeOK
<1>8. CASE j = e.job
  <2>1. w \in Holders(j) /\ Holders(j)' = Holders(j) \ {w}
    BY <1>3, <1>4, <1>5, <1>6, <1>8 DEF Holders
  <2>2. CASE row'[j] = row[j]
    BY <1>2, <2>1, <2>2, EntryDropped
  <2>3. CASE row[j].owner = w /\ row'[j] = Ended(row[j], NextDue(j, now), failure[w])
    <3>1. row[j] \in JobRow
      BY DEF TypeOK
    <3>2. /\ row'[j].active = row[j].active /\ row'[j].owner = None
          /\ row'[j].attempt = row[j].attempt + 1
      BY <2>3, <3>1 DEF Ended, JobRow
    <3> QED
      BY <2>1, <2>3, <3>2, EntryCompleted
  <2> QED
    BY <1>7, <2>2, <2>3
<1>9. CASE j # e.job
  <2>1. \A c \in Held(w) : c.job = j => c \in Held(w)'
    BY <1>1, <1>2, <1>9 DEF Held, TypeOK, LeaseInvariant, ClaimsFollowControl
  <2>2. Holders(j)' = Holders(j)
    BY <1>4, <1>5, <2>1 DEF Holders
  <2> QED
    BY <1>2, <1>7, <1>9, <2>2, EntryWaits
<1> QED
  BY <1>8, <1>9

\* The administrator's steps switch a job on or off, or touch no row.
LEMMA AdminImplements ==
  ASSUME TypeOK, TypeOK', LeaseInvariant, NEW j \in Jobs,
         \/ \E s \in Sources : Decide(s)
         \/ \E k \in Jobs : AdminStep(k)
  PROVE  Ledger!Step(LedgerEntry(j), LedgerEntry(j)')
<1>1. now' = now /\ claims' = claims /\ current' = current
  BY DEF Decide, AdminStep, ActivateConnector, BeginActivation, CommitActivation,
         AbortActivation, DisableTarget, workerVars
<1>2. Holders(j)' = Holders(j)
  BY <1>1, HoldersStay DEF Held
<1>3. row[j] \in JobRow /\ now \in Nat
  BY DEF TypeOK
\* A connector that was never activated has never been attempted.
<1>4. row'[j] = row[j] \/ (row'[j].owner = None /\ row'[j].attempt = row[j].attempt)
  <2>1. ASSUME NEW D, NEW code, row' = PausedRows(D, code)
        PROVE  row'[j] = row[j] \/ (row'[j].owner = None /\ row'[j].attempt = row[j].attempt)
    <3>1. row'[j] = row[j] \/ row'[j] = Paused(row[j], code)
      BY <2>1 DEF PausedRows
    <3> QED
      BY <1>3, <3>1 DEF Paused, JobRow
  <2>2. ASSUME NEW s \in Sources, Decide(s)
        PROVE  row'[j] = row[j] \/ (row'[j].owner = None /\ row'[j].attempt = row[j].attempt)
    BY <2>1, <2>2 DEF Decide
  <2>3. ASSUME NEW k \in Jobs, DisableTarget(k)
        PROVE  row'[j] = row[j] \/ (row'[j].owner = None /\ row'[j].attempt = row[j].attempt)
    BY <2>1, <2>3 DEF DisableTarget
  <2>4. ASSUME NEW k \in Jobs, ActivateConnector(k)
        PROVE  row'[j] = row[j] \/ (row'[j].owner = None /\ row'[j].attempt = row[j].attempt)
    <3>1. row' = [row EXCEPT ![k] = Activated(NoRow, now)] /\ row[k] = NoRow
      BY <2>4 DEF ActivateConnector, LeaseInvariant, RowsFollowSchedule
    <3>2. Activated(NoRow, now).owner = None /\ Activated(NoRow, now).attempt = NoRow.attempt
      BY DEF Activated, NoRow
    <3> QED
      BY <3>1, <3>2 DEF TypeOK
  <2>5. ASSUME NEW k \in Jobs, CommitActivation(k)
        PROVE  row'[j] = row[j] \/ (row'[j].owner = None /\ row'[j].attempt = row[j].attempt)
    <3>1. PICK t : row' = [row EXCEPT ![k] = Activated(row[k], t)]
      BY <2>5 DEF CommitActivation
    <3>2. row'[j] = row[j] \/ row'[j] = Activated(row[j], t)
      BY <3>1 DEF TypeOK
    <3> QED
      BY <1>3, <3>2 DEF Activated, JobRow
  <2>6. ASSUME NEW k \in Jobs, BeginActivation(k) \/ AbortActivation(k)
        PROVE  row'[j] = row[j]
    BY <2>6 DEF BeginActivation, AbortActivation
  <2> QED
    BY <2>2, <2>3, <2>4, <2>5, <2>6 DEF AdminStep
<1> QED
  BY <1>1, <1>2, <1>3, <1>4, EntryWaits, EntrySwitched

\* A worker's step in its own memory drops a claim or none; the clock lapses leases.
LEMMA QuietImplements ==
  ASSUME TypeOK, TypeOK', LeaseInvariant, NEW j \in Jobs,
         \/ Tick \/ UNCHANGED vars
         \/ \E w \in Workers : Poll(w) \/ Start(w) \/ Break(w) \/ Crash(w) \/ Restart(w)
  PROVE  Ledger!Step(LedgerEntry(j), LedgerEntry(j)')
<1>1. row' = row
  BY DEF Tick, Poll, Start, Break, Crash, Restart, vars, dbVars
<1>2. now <= now'
  BY ConstantsAssumption
     DEF ConstantsAssumption, Tick, Poll, Start, Break, Crash, Restart, vars, dbVars, TypeOK
<1>3. CASE \E w \in Workers : Crash(w)
  <2>1. PICK w \in Workers : Crash(w)
    BY <1>3
  <2>2. Held(w)' = {} /\ \A v \in Workers \ {w} : Held(v)' = Held(v)
    BY <2>1 DEF Crash, Held, TypeOK
  <2>3. CASE w \in Holders(j)
    <3>1. Holders(j)' = Holders(j) \ {w}
      BY <2>2 DEF Holders
    <3> QED
      BY <1>1, <2>1, <2>3, <3>1, EntryDropped DEF Crash
  <2>4. CASE w \notin Holders(j)
    <3>1. Holders(j)' = Holders(j)
      BY <2>2, <2>4 DEF Holders
    <3> QED
      BY <1>1, <1>2, <3>1, EntryWaits
  <2> QED
    BY <2>3, <2>4
<1>4. CASE ~ \E w \in Workers : Crash(w)
  <2>1. \A v \in Workers : Held(v)' = Held(v)
    <3>1. ASSUME NEW w \in Workers, Start(w) PROVE \A v \in Workers : Held(v)' = Held(v)
      <4>1. PICK c \in claims[w] : /\ claims' = [claims EXCEPT ![w] = claims[w] \ {c}]
                                   /\ current' = [current EXCEPT ![w] = {c}]
        BY <3>1 DEF Start
      <4>2. current[w] = {}
        BY <3>1 DEF Start, LeaseInvariant, ClaimsFollowControl
      <4> QED
        BY <4>1, <4>2 DEF Held, TypeOK
    <3>2. CASE Tick \/ UNCHANGED vars \/ \E w \in Workers : Poll(w) \/ Break(w) \/ Restart(w)
      BY <3>2 DEF Tick, Poll, Break, Restart, vars, workerVars, Held
    <3> QED
      BY <1>4, <3>1, <3>2
  <2> QED
    BY <1>1, <1>2, <2>1, EntryWaits, HoldersStay
<1> QED
  BY <1>3, <1>4

\* The entries are the ledger's.
LEMMA EntryType == ASSUME TypeOK', NEW j \in Jobs PROVE LedgerEntry(j)' \in Ledger!Entry
<1>1. row'[j] \in JobRow /\ Holders(j)' \in SUBSET Workers
  BY DEF TypeOK, Holders
<1> QED
  BY <1>1 DEF LedgerEntry, Ledger!Entry, JobRow

\* The queue implements the ledger: a lease changes hands only after it ran out, only its
\* owner completes an attempt, and a worker that lost it changes nothing.
THEOREM SchedulerImplementsLedger == Spec => ImplementsLedger
<1>1. Init => Ledger!Init
  <2> SUFFICES ASSUME Init, NEW j \in Jobs PROVE LedgerEntry(j) = Ledger!Idle
    BY DEF Ledger!Init
  <2>1. Holders(j) = {}
    BY DEF Init, WorkerInit, Holders, Held
  <2>2. row[j] = NoRow /\ (row[j].owner # None /\ row[j].leaseEnds <= now) = FALSE
    BY DEF Init, NoRow
  <2>3. row[j].active = FALSE /\ row[j].owner = None /\ row[j].attempt = 0
    BY <2>2 DEF NoRow
  <2>4. LedgerEntry(j) = [on |-> FALSE, owner |-> None, lapsed |-> FALSE, holders |-> {},
                          done |-> 0]
    BY <2>1, <2>2, <2>3 DEF LedgerEntry
  <2> QED
    BY <2>4 DEF Ledger!Idle
<1>2. TypeOK /\ TypeOK' /\ LeaseInvariant /\ [Next]_vars
        => [Ledger!Next]_([j \in Jobs |-> LedgerEntry(j)])
  <2> SUFFICES ASSUME TypeOK, TypeOK', LeaseInvariant, [Next]_vars
               PROVE  Ledger!Next
    OBVIOUS
  <2>1. \A j \in Jobs : LedgerEntry(j)' \in Ledger!Entry
    BY EntryType
  <2>2. \A j \in Jobs : Ledger!Step(LedgerEntry(j), LedgerEntry(j)')
    BY ClaimDueImplements, FinishImplements, AdminImplements, QuietImplements
       DEF Next, WorkerStep
  <2> QED
    BY <2>1, <2>2 DEF Ledger!Next
<1> QED
  BY <1>1, <1>2, TypeCorrect, LeasesCorrect, PTL DEF Spec, ImplementsLedger, Ledger!Spec

=============================================================================
