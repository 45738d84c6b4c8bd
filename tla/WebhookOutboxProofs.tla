------------------------- MODULE WebhookOutboxProofs -------------------------
(***************************************************************************)
(* The safety of the outbox for any subscriptions, events, senders, clock   *)
(* readings and batch sizes.  The invariant says what a sender's memory has *)
(* to do with the rows: as long as nobody has overrun the lease, the rows   *)
(* of its batch are leased to it, since the instant its batch began.        *)
(***************************************************************************)
EXTENDS WebhookOutbox, FiniteSetTheorems, TLAPS

\* What a sender holds is stored: nothing deletes a row.
HeldExists == \A p \in Senders : \A d \in Held(p) : row[d] # NoDelivery

\* A batch has one claim of a delivery.
ClaimsAreDistinct ==
  \A p \in Senders : \A b, c \in batch[p] : b.delivery = c.delivery => b = c

\* The in-memory store belongs to one process.
OneMemorySender ==
  backend = "memory" => \A p, q \in Senders : p # q => pc[p] = "idle" \/ pc[q] = "idle"

\* In the database the row of a claim is leased since the batch began; in memory it still waits.
LeaseHeld ==
  \A p \in Senders : \A d \in Held(p) :
    IF backend = "memory" THEN row[d].status \in {"pending", "retry"}
    ELSE d \notin overran => row[d].status = "processing" /\ row[d].updated = batchAt[p]

\* Nobody holds a claim for two minutes unnoticed.
OverrunNoted == \A p \in Senders : batchAt[p] <= now - LeaseSeconds => Held(p) \subseteq overran

LeaseInvariant ==
  /\ HeldExists /\ ClaimsAreDistinct /\ OneMemorySender
  /\ LeaseHeld /\ OverrunNoted /\ ExclusiveUnlessOverrun

VerifiedInvariant ==
  OnlyVerifiedReceive /\ \A s \in Subs : sub[s] = "active" => s \in echoed

AcceptedInvariant ==
  /\ DeliveredWasAccepted
  /\ \A p \in Senders :
       pc[p] = "answered" /\ answer[p] = "accepted" => current[p].delivery \in accepted

OutboxInvariant == OutboxTypeOK /\ LeaseInvariant /\ VerifiedInvariant /\ AcceptedInvariant

-----------------------------------------------------------------------------
(* Rows *)

LEMMA DelayType == ASSUME NEW n \in Nat \ {0} PROVE Delay(n) \in Nat
<1> DEFINE k == Least(n, 11)
<1>1. k \in Nat /\ k >= 1
  BY DEF Least
<1>2. IsFiniteSet(1 .. k) /\ Cardinality(1 .. k) = k
  BY <1>1, FS_Interval
<1>3. IsFiniteSet(SUBSET (1 .. k)) /\ Cardinality(SUBSET (1 .. k)) = 2 ^ k
  BY <1>2, FS_SUBSET
<1>4. 2 ^ k \in Nat
  BY <1>3, FS_CardinalityType
<1> QED BY <1>4 DEF Delay, Least

LEMMA NoDeliveryIsNoRow == NoDelivery \notin Rows
BY OutboxAssumption DEF OutboxAssumption

LEMMA NewRowType == ASSUME OutboxTypeOK PROVE NewRow \in Rows /\ NewRow.status = "pending"
BY OutboxAssumption DEF OutboxAssumption, OutboxTypeOK, NewRow, Row, Rows

LEMMA TakenType ==
  ASSUME NEW r \in Rows, NEW t \in Instants
  PROVE  /\ Taken(r, t) \in Rows
         /\ Taken(r, t).status = "processing" /\ Taken(r, t).updated = t
BY OutboxAssumption DEF OutboxAssumption, Taken, Row, Rows

LEMMA MarkedType ==
  ASSUME NEW r \in Rows, NEW c \in Claims, NEW a \in Answers, NEW t \in Instants
  PROVE  /\ Marked(r, c, a, t) \in Rows
         /\ Marked(r, c, a, t).status = "delivered" => a = "accepted"
<1>1. /\ t \in Nat /\ Delay(c.attempt) \in Nat /\ t + Delay(c.attempt) \in Nat
  BY DelayType, OutboxAssumption DEF OutboxAssumption, Claims
<1>2. ASSUME NEW status \in {"delivered", "dead_letter"}
      PROVE  Settled(r, status, t) \in Rows /\ Settled(r, status, t).status = status
  BY <1>1 DEF Settled, Row, Rows
<1>3. /\ Retried(r, t + Delay(c.attempt)) \in Rows
      /\ Retried(r, t + Delay(c.attempt)).status = "retry"
  BY <1>1 DEF Retried, RetriedInMemory, Row, Rows
<1>4. Marked(r, c, a, t) \in {Settled(r, "delivered", t), Retried(r, t + Delay(c.attempt)),
                              Settled(r, "dead_letter", t)}
  BY DEF Marked, Outcome
<1>5. a # "accepted" => Marked(r, c, a, t) # Settled(r, "delivered", t)
  BY <1>2, <1>3 DEF Marked, Outcome
<1> QED BY <1>2, <1>3, <1>4, <1>5

-----------------------------------------------------------------------------
(* Types *)

LEMMA HeldIsStored ==
  ASSUME OutboxTypeOK, NEW p \in Senders
  PROVE  Held(p) \subseteq Deliveries
BY DEF OutboxTypeOK, Held, Claims

LEMMA DueIsStored ==
  ASSUME OutboxTypeOK, NEW p \in Senders, NEW chosen \in OldestDue(p)
  PROVE  /\ chosen \subseteq Deliveries
         /\ \A d \in chosen : /\ row[d] \in Rows /\ Due(d, batchAt[p])
                             /\ row[d].status \notin {"delivered", "dead_letter"}
<1>1. chosen \subseteq {d \in Deliveries : Due(d, batchAt[p])}
  BY DEF OldestDue
<1>2. \A d \in chosen : row[d] \in Rows
  BY <1>1 DEF OutboxTypeOK, Due
<1> QED BY <1>1, <1>2 DEF Due, DueInMemory, DueInPostgres, Waiting, Abandoned, LeaseLapsed

LEMMA ClaimOfType ==
  ASSUME NEW d \in Deliveries, row[d] \in Rows
  PROVE  ClaimOf(d) \in Claims /\ ClaimOf(d).delivery = d
BY OutboxAssumption DEF OutboxAssumption, ClaimOf, Claims, Rows

LEMMA TypeInit == Init => OutboxTypeOK
BY OutboxAssumption DEF Init, OutboxTypeOK, OutboxAssumption, Answers

LEMMA TypeSubscription ==
  ASSUME OutboxTypeOK, NEW s \in Subs,
         CreateSubscription(s) \/ BeginVerify(s) \/ \E echo \in BOOLEAN : FinishVerify(s, echo)
  PROVE  OutboxTypeOK'
BY DEF OutboxTypeOK, CreateSubscription, Created, BeginVerify, FinishVerify, Activated,
       PendingChallenge, senderVars, history

LEMMA TypePublish ==
  ASSUME OutboxTypeOK, NEW e \in Events, Publish(e)
  PROVE  OutboxTypeOK'
BY NewRowType DEF OutboxTypeOK, Publish, senderVars, history

LEMMA TypeEnqueue ==
  ASSUME OutboxTypeOK, NEW s \in Subs, NEW e \in Events, Enqueue(s, e)
  PROVE  OutboxTypeOK'
BY NewRowType DEF OutboxTypeOK, Enqueue, Deliveries, senderVars, history

LEMMA TypeWake ==
  ASSUME OutboxTypeOK, NEW p \in Senders, Wake(p)
  PROVE  OutboxTypeOK'
BY OutboxAssumption DEF OutboxAssumption, OutboxTypeOK, Wake, history

LEMMA TypeClaim ==
  ASSUME OutboxTypeOK, NEW p \in Senders, Claim(p)
  PROVE  OutboxTypeOK'
<1>1. PICK chosen \in OldestDue(p) :
        LET readable == chosen # {} /\ Revealed(chosen)
        IN /\ row' = IF backend = "memory" THEN row
                     ELSE [d \in Deliveries |-> IF d \in chosen THEN Taken(row[d], batchAt[p]) ELSE row[d]]
           /\ batch' = [batch EXCEPT ![p] = IF readable THEN {ClaimOf(d) : d \in chosen} ELSE {}]
           /\ pc' = [pc EXCEPT ![p] = IF readable THEN "sending" ELSE "idle"]
           /\ overran' = IF batchAt[p] <= now - LeaseSeconds THEN overran \cup chosen ELSE overran
  BY DEF Claim
<1>2. chosen \subseteq Deliveries /\ \A d \in chosen : row[d] \in Rows
  BY DueIsStored
<1>3. row' \in [Deliveries -> Rows \cup {NoDelivery}]
  BY <1>1, <1>2, TakenType DEF OutboxTypeOK
<1>4. {ClaimOf(d) : d \in chosen} \subseteq Claims
  BY <1>2, ClaimOfType
<1>5. \A q \in Senders :
        /\ (batch'[q] = {}) <=> (pc'[q] \in {"idle", "woken", "down"})
        /\ current'[q] \in IF pc'[q] = "answered" THEN batch'[q] ELSE {NoDelivery}
  BY <1>1, <1>4 DEF OutboxTypeOK, Claim
<1>6. overran' \subseteq Deliveries
  BY <1>1, <1>2 DEF OutboxTypeOK
<1>7. pc' \in [Senders -> {"idle", "woken", "sending", "answered", "down"}]
  BY <1>1 DEF OutboxTypeOK
<1>8. /\ batch' \in [Senders -> SUBSET Claims]
      /\ current' \in [Senders -> Claims \cup {NoDelivery}]
  BY <1>1, <1>4 DEF OutboxTypeOK, Claim
<1> QED BY <1>3, <1>5, <1>6, <1>7, <1>8 DEF OutboxTypeOK, Claim

LEMMA TypeSend ==
  ASSUME OutboxTypeOK, NEW p \in Senders, Send(p)
  PROVE  OutboxTypeOK'
<1>1. PICK c \in batch[p], a \in Answers :
        /\ current' = [current EXCEPT ![p] = c]
        /\ answer' = [answer EXCEPT ![p] = a]
        /\ accepted' = IF a = "accepted" THEN accepted \cup {c.delivery} ELSE accepted
  BY DEF Send
<1>2. c.delivery \in Deliveries
  BY DEF OutboxTypeOK, Claims
<1> QED BY <1>1, <1>2 DEF OutboxTypeOK, Send

LEMMA CurrentClaim ==
  ASSUME OutboxTypeOK, NEW p \in Senders, pc[p] = "answered"
  PROVE  /\ current[p] \in batch[p] /\ current[p] \in Claims
         /\ current[p].delivery \in Held(p) /\ current[p].delivery \in Deliveries
BY DEF OutboxTypeOK, Held, Claims

LEMMA TypeMark ==
  ASSUME OutboxTypeOK, HeldExists, NEW p \in Senders, Mark(p)
  PROVE  OutboxTypeOK'
<1> DEFINE c == current[p]
           left == batch[p] \ {c}
<1>1. /\ row' = [row EXCEPT ![c.delivery] = Marked(row[c.delivery], c, answer[p], batchAt[p])]
      /\ batch' = [batch EXCEPT ![p] = left]
      /\ current' = [current EXCEPT ![p] = NoDelivery]
      /\ answer' = [answer EXCEPT ![p] = "busy"]
      /\ pc' = [pc EXCEPT ![p] = IF left = {} THEN "idle" ELSE "sending"]
  BY DEF Mark
<1>2. c \in batch[p] /\ c \in Claims /\ c.delivery \in Held(p) /\ c.delivery \in Deliveries
  BY CurrentClaim DEF Mark
<1>3. row[c.delivery] \in Rows
  BY <1>2 DEF HeldExists, OutboxTypeOK
<1>4. Marked(row[c.delivery], c, answer[p], batchAt[p]) \in Rows
  BY <1>2, <1>3, MarkedType DEF OutboxTypeOK
<1>5. row' \in [Deliveries -> Rows \cup {NoDelivery}]
  BY <1>1, <1>4 DEF OutboxTypeOK
<1>6. \A q \in Senders :
        /\ (batch'[q] = {}) <=> (pc'[q] \in {"idle", "woken", "down"})
        /\ current'[q] \in IF pc'[q] = "answered" THEN batch'[q] ELSE {NoDelivery}
  BY <1>1 DEF OutboxTypeOK
<1>7. /\ pc' \in [Senders -> {"idle", "woken", "sending", "answered", "down"}]
      /\ answer' \in [Senders -> Answers]
      /\ batch' \in [Senders -> SUBSET Claims]
      /\ current' \in [Senders -> Claims \cup {NoDelivery}]
  BY <1>1 DEF OutboxTypeOK, Answers
<1> QED BY <1>5, <1>6, <1>7 DEF OutboxTypeOK, Mark, history

LEMMA TypeRelease ==
  ASSUME OutboxTypeOK, NEW p \in Senders, AbortBatch(p) \/ Crash(p) \/ Restart(p)
  PROVE  OutboxTypeOK'
BY OutboxAssumption DEF OutboxAssumption, OutboxTypeOK, AbortBatch, Crash, Restart, Released, Answers, history

LEMMA TypeTick == ASSUME OutboxTypeOK, Tick PROVE OutboxTypeOK'
<1>1. \A t : OverrunAt(t) \subseteq Deliveries
  BY HeldIsStored DEF OverrunAt
<1>2. now' \in Instants /\ now <= now' /\ now \in Nat /\ now' \in Nat
  BY OutboxAssumption DEF OutboxAssumption, OutboxTypeOK, Tick
<1>3. overran' \subseteq Deliveries
  BY <1>1 DEF OutboxTypeOK, Tick
<1>4. /\ UNCHANGED <<backend, sealed, sub, verifying, row, crashes, accepted, echoed>>
      /\ UNCHANGED <<pc, batchAt, batch, current, answer>>
  BY DEF Tick, senderVars
<1>5. ASSUME NEW q \in Senders PROVE batchAt'[q] <= now'
  <2>1. batchAt[q] \in Nat /\ batchAt[q] <= now
    BY OutboxAssumption DEF OutboxAssumption, OutboxTypeOK
  <2> QED BY <1>2, <1>4, <2>1
<1> QED BY <1>2, <1>3, <1>4, <1>5 DEF OutboxTypeOK

LEMMA TypeStep ==
  ASSUME OutboxTypeOK, HeldExists, [Next]_vars
  PROVE  OutboxTypeOK'
<1>1. CASE UNCHANGED vars
  <2>1. /\ UNCHANGED <<backend, sealed, now, sub, verifying, row, crashes>>
        /\ UNCHANGED <<pc, batchAt, batch, current, answer>>
        /\ UNCHANGED <<accepted, echoed, overran>>
    BY <1>1 DEF vars, senderVars, history
  <2> QED BY <2>1 DEF OutboxTypeOK
<1>2. CASE Next
  BY <1>2, TypeSubscription, TypePublish, TypeEnqueue, TypeWake, TypeClaim, TypeSend, TypeMark,
     TypeRelease, TypeTick DEF Next, Sender
<1> QED BY <1>1, <1>2

-----------------------------------------------------------------------------
(* What senders hold *)

\* A step that leaves the stored rows alone, and from each batch takes all or nothing.
LEMMA LeaseKept ==
  ASSUME OutboxTypeOK, LeaseInvariant, OneMemorySender',
         backend' = backend, now' = now, overran' = overran,
         \A d \in Deliveries : row[d] # NoDelivery => row'[d] = row[d],
         \A q \in Senders : \/ batch'[q] = {}
                            \/ batch'[q] = batch[q] /\ batchAt'[q] = batchAt[q]
  PROVE  LeaseInvariant'
<1>1. \A q \in Senders : Held(q)' = {} \/ (Held(q)' = Held(q) /\ batchAt'[q] = batchAt[q])
  BY DEF Held
<1>2. \A q \in Senders : Held(q) \subseteq Deliveries
  BY HeldIsStored
<1>3. \A q \in Senders : \A d \in Held(q) : row'[d] = row[d] /\ row[d] # NoDelivery
  BY <1>2 DEF LeaseInvariant, HeldExists
<1>4. HeldExists'
  BY <1>1, <1>3 DEF HeldExists
<1>5. ClaimsAreDistinct'
  BY DEF LeaseInvariant, ClaimsAreDistinct
<1>6. LeaseHeld'
  BY <1>1, <1>3 DEF LeaseInvariant, LeaseHeld
<1>7. OverrunNoted'
  BY <1>1 DEF LeaseInvariant, OverrunNoted
<1>8. ExclusiveUnlessOverrun'
  BY <1>1 DEF LeaseInvariant, ExclusiveUnlessOverrun
<1> QED BY <1>4, <1>5, <1>6, <1>7, <1>8 DEF LeaseInvariant

LEMMA LeaseSubscription ==
  ASSUME OutboxTypeOK, LeaseInvariant, NEW s \in Subs,
         CreateSubscription(s) \/ BeginVerify(s) \/ \E echo \in BOOLEAN : FinishVerify(s, echo)
  PROVE  LeaseInvariant'
<1>1. /\ backend' = backend /\ now' = now /\ overran' = overran /\ row' = row
      /\ pc' = pc /\ batch' = batch /\ batchAt' = batchAt
  BY DEF CreateSubscription, BeginVerify, FinishVerify, senderVars, history
<1>2. OneMemorySender'
  BY <1>1 DEF LeaseInvariant, OneMemorySender
<1> QED BY <1>1, <1>2, LeaseKept

LEMMA StoredIsKept ==
  ASSUME OutboxTypeOK, NEW d \in Deliveries, row[d] # NoDelivery,
         \/ \E e \in Events : Publish(e)
         \/ \E s \in Subs, e \in Events : Enqueue(s, e)
  PROVE  row'[d] = row[d]
<1>1. PICK s \in Subs, e \in Events : d = <<s, e>>
  BY DEF Deliveries
<1>2. CASE \E f \in Events : Publish(f)
  <2>1. PICK f \in Events : Publish(f)
    BY <1>2
  <2>2. f # e
    BY <1>1, <2>1 DEF Publish
  <2>3. d[2] # f
    BY <1>1, <2>2
  <2> QED BY <2>1, <2>3 DEF Publish
<1>3. CASE \E t \in Subs, f \in Events : Enqueue(t, f)
  <2>1. PICK t \in Subs, f \in Events : row[<<t, f>>] = NoDelivery /\ row' = [row EXCEPT ![<<t, f>>] = NewRow]
    BY <1>3 DEF Enqueue
  <2>2. <<t, f>> # d
    BY <2>1
  <2> QED BY <2>1, <2>2 DEF OutboxTypeOK
<1> QED BY <1>2, <1>3

LEMMA LeaseEvent ==
  ASSUME OutboxTypeOK, LeaseInvariant,
         \/ \E e \in Events : Publish(e)
         \/ \E s \in Subs, e \in Events : Enqueue(s, e)
  PROVE  LeaseInvariant'
<1>1. /\ backend' = backend /\ now' = now /\ overran' = overran
      /\ pc' = pc /\ batch' = batch /\ batchAt' = batchAt
  BY DEF Publish, Enqueue, senderVars, history
<1>2. \A d \in Deliveries : row[d] # NoDelivery => row'[d] = row[d]
  BY StoredIsKept
<1>3. OneMemorySender'
  BY <1>1 DEF LeaseInvariant, OneMemorySender
<1> QED BY <1>1, <1>2, <1>3, LeaseKept

LEMMA LeaseWake ==
  ASSUME OutboxTypeOK, LeaseInvariant, NEW p \in Senders, Wake(p)
  PROVE  LeaseInvariant'
<1>1. /\ backend' = backend /\ now' = now /\ overran' = overran /\ row' = row /\ batch' = batch
      /\ pc' = [pc EXCEPT ![p] = "woken"] /\ batchAt' = [batchAt EXCEPT ![p] = now]
  BY DEF Wake, history
<1>2. batch[p] = {}
  BY DEF OutboxTypeOK, Wake
<1>3. OneMemorySender'
  BY <1>1 DEF LeaseInvariant, OneMemorySender, Wake, OutboxTypeOK
<1>4. \A q \in Senders : batch'[q] = {} \/ (batch'[q] = batch[q] /\ batchAt'[q] = batchAt[q])
  BY <1>1, <1>2 DEF OutboxTypeOK
<1> QED BY <1>1, <1>3, <1>4, LeaseKept

LEMMA LeaseSend ==
  ASSUME OutboxTypeOK, LeaseInvariant, NEW p \in Senders, Send(p)
  PROVE  LeaseInvariant'
<1>1. /\ backend' = backend /\ now' = now /\ overran' = overran /\ row' = row /\ batch' = batch
      /\ batchAt' = batchAt /\ pc[p] = "sending" /\ pc' = [pc EXCEPT ![p] = "answered"]
  BY DEF Send
<1>2. OneMemorySender'
  BY <1>1 DEF LeaseInvariant, OneMemorySender, OutboxTypeOK
<1> QED BY <1>1, <1>2, LeaseKept

LEMMA LeaseRelease ==
  ASSUME OutboxTypeOK, LeaseInvariant, NEW p \in Senders, AbortBatch(p) \/ Crash(p) \/ Restart(p)
  PROVE  LeaseInvariant'
<1>1. /\ backend' = backend /\ now' = now /\ overran' = overran /\ row' = row /\ batchAt' = batchAt
      /\ batch' = [batch EXCEPT ![p] = {}] \/ batch' = batch
  BY DEF AbortBatch, Crash, Restart, Released, history
<1>2. OneMemorySender'
  BY DEF LeaseInvariant, OneMemorySender, AbortBatch, Crash, Restart, Released, OutboxTypeOK
<1>3. \A q \in Senders : batch'[q] = {} \/ (batch'[q] = batch[q] /\ batchAt'[q] = batchAt[q])
  BY <1>1 DEF OutboxTypeOK
<1> QED BY <1>1, <1>2, <1>3, LeaseKept

LEMMA LeaseTick == ASSUME OutboxTypeOK, LeaseInvariant, Tick PROVE LeaseInvariant'
<1>1. /\ backend' = backend /\ row' = row /\ batch' = batch /\ batchAt' = batchAt /\ pc' = pc
      /\ overran' = overran \cup OverrunAt(now')
  BY DEF Tick, senderVars
<1>2. \A q \in Senders : Held(q)' = Held(q)
  BY <1>1 DEF Held
<1>3. HeldExists' /\ ClaimsAreDistinct' /\ OneMemorySender'
  BY <1>1, <1>2 DEF LeaseInvariant, HeldExists, ClaimsAreDistinct, OneMemorySender
<1>4. LeaseHeld'
  BY <1>1, <1>2 DEF LeaseInvariant, LeaseHeld
<1>5. OverrunNoted'
  BY <1>1, <1>2 DEF OverrunNoted, OverrunAt
<1>6. ExclusiveUnlessOverrun'
  BY <1>1, <1>2 DEF LeaseInvariant, ExclusiveUnlessOverrun
<1> QED BY <1>3, <1>4, <1>5, <1>6 DEF LeaseInvariant

\* A due delivery that another sender holds has been held for two minutes.
LEMMA DueIsOverrun ==
  ASSUME OutboxTypeOK, LeaseInvariant, NEW p \in Senders, NEW q \in Senders, p # q,
         pc[p] = "woken", NEW d \in Held(q), Due(d, batchAt[p])
  PROVE  d \in overran
<1>1. batch[q] # {} /\ pc[q] # "idle"
  BY DEF Held, OutboxTypeOK
<1>2. backend = "postgres"
  BY <1>1 DEF LeaseInvariant, OneMemorySender, OutboxTypeOK
<1> SUFFICES ASSUME d \notin overran PROVE FALSE
  OBVIOUS
<1>3. row[d].status = "processing" /\ row[d].updated = batchAt[q]
  BY <1>2 DEF LeaseInvariant, LeaseHeld
<1>4. batchAt[q] <= batchAt[p] - LeaseSeconds
  BY <1>2, <1>3 DEF Due, DueInMemory, DueInPostgres, Waiting, Abandoned, LeaseLapsed
<1>5. batchAt[q] \in Nat /\ batchAt[p] \in Nat /\ now \in Nat /\ batchAt[p] <= now
  BY OutboxAssumption DEF OutboxAssumption, OutboxTypeOK
<1>6. batchAt[q] <= now - LeaseSeconds
  BY <1>4, <1>5 DEF LeaseSeconds
<1> QED BY <1>6 DEF LeaseInvariant, OverrunNoted

LEMMA LeaseClaim ==
  ASSUME OutboxTypeOK, LeaseInvariant, NEW p \in Senders, Claim(p)
  PROVE  LeaseInvariant'
<1>1. PICK chosen \in OldestDue(p) :
        LET readable == chosen # {} /\ Revealed(chosen)
        IN /\ row' = IF backend = "memory" THEN row
                     ELSE [d \in Deliveries |-> IF d \in chosen THEN Taken(row[d], batchAt[p]) ELSE row[d]]
           /\ batch' = [batch EXCEPT ![p] = IF readable THEN {ClaimOf(d) : d \in chosen} ELSE {}]
           /\ pc' = [pc EXCEPT ![p] = IF readable THEN "sending" ELSE "idle"]
           /\ overran' = IF batchAt[p] <= now - LeaseSeconds THEN overran \cup chosen ELSE overran
  BY DEF Claim
<1>2. pc[p] = "woken" /\ backend' = backend /\ now' = now /\ batchAt' = batchAt
  BY DEF Claim
<1>3. chosen \subseteq Deliveries
      /\ \A d \in chosen : row[d] \in Rows /\ Due(d, batchAt[p])
  BY DueIsStored
<1>4. \A d \in chosen : ClaimOf(d).delivery = d
  BY <1>3, ClaimOfType
<1>5. Held(p)' \subseteq chosen /\ \A q \in Senders \ {p} : batch'[q] = batch[q] /\ Held(q)' = Held(q)
  <2>1. batch'[p] = {} \/ batch'[p] = {ClaimOf(d) : d \in chosen}
    BY <1>1 DEF OutboxTypeOK
  <2>2. \A q \in Senders \ {p} : batch'[q] = batch[q]
    BY <1>1 DEF OutboxTypeOK
  <2> QED BY <1>4, <2>1, <2>2 DEF Held
<1>6. \A q \in Senders \ {p} : \A d \in Held(q) : d \in chosen => d \in overran
  BY <1>2, <1>3, DueIsOverrun
<1>7. \A d \in chosen : row'[d] # NoDelivery
  BY <1>1, <1>3, TakenType, NoDeliveryIsNoRow DEF OutboxTypeOK
<1>8. \A d \in Deliveries \ chosen : row'[d] = row[d]
  BY <1>1
<1>9. overran \subseteq overran'
  BY <1>1
<1>10. \A q \in Senders : Held(q) \subseteq Deliveries
  BY HeldIsStored
<1>11. HeldExists'
  BY <1>5, <1>7, <1>8, <1>10 DEF HeldExists, LeaseInvariant
<1>12. ClaimsAreDistinct'
  <2>1. batch'[p] = {} \/ batch'[p] = {ClaimOf(d) : d \in chosen}
    BY <1>1 DEF OutboxTypeOK
  <2>2. \A b, c \in batch'[p] : b.delivery = c.delivery => b = c
    BY <1>4, <2>1
  <2> QED BY <1>5, <2>2 DEF ClaimsAreDistinct, LeaseInvariant
<1>13. OneMemorySender'
  BY <1>1, <1>2 DEF OneMemorySender, LeaseInvariant, OutboxTypeOK
<1>14. LeaseHeld'
  <2>1. CASE backend = "memory"
    <3>1. \A d \in chosen : row'[d].status \in {"pending", "retry"}
      BY <1>1, <1>3, <2>1 DEF Due, DueInMemory, DueInPostgres, Waiting
    <3>2. \A q \in Senders \ {p} : \A d \in Held(q) : row'[d].status \in {"pending", "retry"}
      BY <1>1, <2>1 DEF LeaseInvariant, LeaseHeld
    <3> QED BY <1>2, <1>5, <2>1, <3>1, <3>2 DEF LeaseHeld
  <2>2. CASE backend # "memory"
    <3>1. \A d \in chosen : row'[d].status = "processing" /\ row'[d].updated = batchAt[p]
      BY <1>1, <1>3, <2>2, TakenType DEF OutboxTypeOK
    <3>2. ASSUME NEW q \in Senders \ {p}, NEW d \in Held(q), d \notin overran'
          PROVE  row'[d].status = "processing" /\ row'[d].updated = batchAt[q]
      <4>1. d \notin chosen /\ d \in Deliveries /\ d \notin overran
        BY <1>6, <1>9, <1>10, <3>2
      <4> QED BY <1>8, <2>2, <4>1 DEF LeaseInvariant, LeaseHeld
    <3> QED BY <1>2, <1>5, <2>2, <3>1, <3>2 DEF LeaseHeld
  <2> QED BY <2>1, <2>2
<1>15. OverrunNoted'
  BY <1>1, <1>2, <1>5, <1>9 DEF OverrunNoted, LeaseInvariant
<1>16. ExclusiveUnlessOverrun'
  BY <1>5, <1>6, <1>9 DEF ExclusiveUnlessOverrun, LeaseInvariant
<1> QED BY <1>11, <1>12, <1>13, <1>14, <1>15, <1>16 DEF LeaseInvariant

\* A mark touches the row of the claim it drops, and no other.
LEMMA MarkEffect ==
  ASSUME OutboxTypeOK, LeaseInvariant, NEW p \in Senders, Mark(p)
  PROVE  /\ current[p].delivery \in Held(p) /\ current[p].delivery \in Deliveries
         /\ row[current[p].delivery] \in Rows
         /\ row'[current[p].delivery]
              = Marked(row[current[p].delivery], current[p], answer[p], batchAt[p])
         /\ row'[current[p].delivery] \in Rows
         /\ row'[current[p].delivery].status = "delivered" => answer[p] = "accepted"
         /\ \A d \in Deliveries : d # current[p].delivery => row'[d] = row[d]
         /\ batch'[p] = batch[p] \ {current[p]}
         /\ Held(p)' = Held(p) \ {current[p].delivery}
         /\ \A q \in Senders \ {p} : batch'[q] = batch[q] /\ Held(q)' = Held(q)
<1> DEFINE c == current[p]
<1>1. /\ row' = [row EXCEPT ![c.delivery] = Marked(row[c.delivery], c, answer[p], batchAt[p])]
      /\ batch' = [batch EXCEPT ![p] = batch[p] \ {c}]
  BY DEF Mark
<1>2. c \in batch[p] /\ c \in Claims /\ c.delivery \in Held(p) /\ c.delivery \in Deliveries
  BY CurrentClaim DEF Mark
<1>3. row[c.delivery] \in Rows
  BY <1>2 DEF LeaseInvariant, HeldExists, OutboxTypeOK
<1>4. row'[c.delivery] = Marked(row[c.delivery], c, answer[p], batchAt[p])
  BY <1>1, <1>2 DEF OutboxTypeOK
<1>5. /\ Marked(row[c.delivery], c, answer[p], batchAt[p]) \in Rows
      /\ Marked(row[c.delivery], c, answer[p], batchAt[p]).status = "delivered"
           => answer[p] = "accepted"
  BY <1>2, <1>3, MarkedType DEF OutboxTypeOK
<1>6. \A d \in Deliveries : d # c.delivery => row'[d] = row[d]
  BY <1>1 DEF OutboxTypeOK
<1>7. batch'[p] = batch[p] \ {c} /\ \A q \in Senders \ {p} : batch'[q] = batch[q]
  BY <1>1 DEF OutboxTypeOK
<1>8. \A b \in batch[p] : b.delivery = c.delivery => b = c
  BY <1>2 DEF LeaseInvariant, ClaimsAreDistinct
<1>9. Held(p)' = Held(p) \ {c.delivery}
  BY <1>7, <1>8 DEF Held
<1> QED BY <1>2, <1>3, <1>4, <1>5, <1>6, <1>7, <1>9 DEF Held

LEMMA LeaseMark ==
  ASSUME OutboxTypeOK, LeaseInvariant, NEW p \in Senders, Mark(p)
  PROVE  LeaseInvariant'
<1> DEFINE c == current[p]
<1>1. /\ backend' = backend /\ now' = now /\ overran' = overran /\ batchAt' = batchAt
      /\ pc[p] = "answered"
      /\ pc' = [pc EXCEPT ![p] = IF batch[p] \ {c} = {} THEN "idle" ELSE "sending"]
  BY DEF Mark, history
<1>2. /\ c.delivery \in Held(p) /\ row'[c.delivery] \in Rows
      /\ \A d \in Deliveries : d # c.delivery => row'[d] = row[d]
      /\ batch'[p] = batch[p] \ {c} /\ Held(p)' = Held(p) \ {c.delivery}
      /\ \A q \in Senders \ {p} : batch'[q] = batch[q] /\ Held(q)' = Held(q)
  BY MarkEffect
<1>3. \A q \in Senders : Held(q)' \subseteq Held(q) /\ Held(q) \subseteq Deliveries
  BY <1>2, HeldIsStored
<1>4. HeldExists'
  BY <1>2, <1>3, NoDeliveryIsNoRow DEF HeldExists, LeaseInvariant
<1>5. ClaimsAreDistinct'
  BY <1>2 DEF ClaimsAreDistinct, LeaseInvariant
<1>6. OneMemorySender'
  BY <1>1 DEF OneMemorySender, LeaseInvariant, OutboxTypeOK
<1>7. LeaseHeld'
  <2>1. ASSUME NEW q \in Senders, NEW d \in Held(q)', d # c.delivery
        PROVE  row'[d] = row[d] /\ d \in Held(q)
    BY <1>2, <1>3, <2>1
  <2>2. ASSUME NEW q \in Senders, c.delivery \in Held(q)'
        PROVE  backend # "memory" /\ c.delivery \in overran
    <3>1. q # p /\ c.delivery \in Held(q)
      BY <1>2, <2>2
    <3>2. pc[q] # "idle"
      BY <3>1 DEF Held, OutboxTypeOK
    <3> QED BY <1>1, <1>2, <3>1, <3>2 DEF LeaseInvariant, OneMemorySender, ExclusiveUnlessOverrun
  <2> QED BY <1>1, <2>1, <2>2 DEF LeaseHeld, LeaseInvariant
<1>8. OverrunNoted'
  BY <1>1, <1>3 DEF OverrunNoted, LeaseInvariant
<1>9. ExclusiveUnlessOverrun'
  BY <1>1, <1>3 DEF ExclusiveUnlessOverrun, LeaseInvariant
<1> QED BY <1>4, <1>5, <1>6, <1>7, <1>8, <1>9 DEF LeaseInvariant

LEMMA LeaseInit == Init => LeaseInvariant
BY DEF Init, LeaseInvariant, HeldExists, ClaimsAreDistinct, OneMemorySender, LeaseHeld,
       OverrunNoted, ExclusiveUnlessOverrun, Held

LEMMA LeaseStep ==
  ASSUME OutboxTypeOK, LeaseInvariant, [Next]_vars
  PROVE  LeaseInvariant'
<1>1. CASE UNCHANGED vars
  <2>1. /\ backend' = backend /\ now' = now /\ overran' = overran /\ row' = row
        /\ pc' = pc /\ batch' = batch /\ batchAt' = batchAt
    BY <1>1 DEF vars, senderVars, history
  <2>2. OneMemorySender'
    BY <2>1 DEF LeaseInvariant, OneMemorySender
  <2> QED BY <2>1, <2>2, LeaseKept
<1>2. CASE Next
  BY <1>2, LeaseSubscription, LeaseEvent, LeaseWake, LeaseClaim, LeaseSend, LeaseMark,
     LeaseRelease, LeaseTick DEF Next, Sender
<1> QED BY <1>1, <1>2

-----------------------------------------------------------------------------
(* Whom the events reach, and what was answered *)

\* A row that a step creates is for a subscription that is active.
LEMMA CreatedForActive ==
  ASSUME OutboxTypeOK, LeaseInvariant, Next,
         NEW s \in Subs, NEW e \in Events, row[<<s, e>>] = NoDelivery, row'[<<s, e>>] # NoDelivery
  PROVE  sub[s] = "active" /\ echoed' = echoed
<1> DEFINE d == <<s, e>>
<1>1. d \in Deliveries /\ row' # row
  BY DEF Deliveries
<1>2. ASSUME NEW p \in Senders, Claim(p) PROVE FALSE
  <2>1. PICK chosen \in OldestDue(p) :
          row' = IF backend = "memory" THEN row
                 ELSE [b \in Deliveries |-> IF b \in chosen THEN Taken(row[b], batchAt[p]) ELSE row[b]]
    BY <1>2 DEF Claim
  <2>2. d \notin chosen
    BY DueIsStored, NoDeliveryIsNoRow
  <2> QED BY <1>1, <2>1, <2>2
<1>3. ASSUME NEW p \in Senders, Mark(p) PROVE FALSE
  BY <1>1, <1>3, MarkEffect, NoDeliveryIsNoRow
<1>4. \/ \E f \in Events : Publish(f)
      \/ \E t \in Subs, f \in Events : Enqueue(t, f)
  BY <1>1, <1>2, <1>3 DEF Next, Sender, CreateSubscription, BeginVerify, FinishVerify, Wake, Send,
     AbortBatch, Crash, Restart, Tick
<1>5. echoed' = echoed
  BY <1>4 DEF Publish, Enqueue, history
<1>6. CASE \E f \in Events : Publish(f)
  <2>1. PICK f \in Events :
          row' = [b \in Deliveries |-> IF b[2] = f /\ Matching(b[1], f) THEN NewRow ELSE row[b]]
    BY <1>6 DEF Publish
  <2>2. Matching(d[1], f) /\ d[1] = s
    BY <1>1, <2>1
  <2> QED BY <1>5, <2>2 DEF Matching, Receives
<1>7. CASE \E t \in Subs, f \in Events : Enqueue(t, f)
  <2>1. PICK t \in Subs, f \in Events :
          sub[t] = "active" /\ row' = [row EXCEPT ![<<t, f>>] = NewRow]
    BY <1>7 DEF Enqueue, EnqueuedInMemory, EnqueuedInPostgres
  <2>2. <<t, f>> = d
    BY <2>1 DEF OutboxTypeOK
  <2>3. t = s
    BY <2>2
  <2> QED BY <1>5, <2>1, <2>3
<1> QED BY <1>4, <1>6, <1>7

\* Only an echo makes a subscription active.
LEMMA ActivatedByEcho ==
  ASSUME OutboxTypeOK, Next, NEW s \in Subs
  PROVE  /\ echoed \subseteq echoed'
         /\ sub'[s] = "active" => sub[s] = "active" \/ s \in echoed'
<1>1. ASSUME NEW t \in Subs, CreateSubscription(t) PROVE sub'[s] = "active" => sub[s] = "active"
  BY <1>1 DEF CreateSubscription, Created, OutboxTypeOK
<1>2. ASSUME NEW t \in Subs, NEW echo \in BOOLEAN, FinishVerify(t, echo)
      PROVE  /\ echoed \subseteq echoed'
             /\ sub'[s] = "active" => sub[s] = "active" \/ s \in echoed'
  BY <1>2 DEF FinishVerify, OutboxTypeOK
<1>3. ASSUME ~ \E t \in Subs : CreateSubscription(t) \/ \E echo \in BOOLEAN : FinishVerify(t, echo)
      PROVE  sub' = sub /\ echoed' = echoed
  BY <1>3 DEF Next, Sender, BeginVerify, Publish, Enqueue, Wake, Claim, Send, Mark, AbortBatch, Crash,
     Restart, Tick, history
<1>4. ASSUME NEW t \in Subs, CreateSubscription(t) PROVE echoed' = echoed
  BY <1>4 DEF CreateSubscription, history
<1> QED BY <1>1, <1>2, <1>3, <1>4

LEMMA VerifiedStep ==
  ASSUME OutboxTypeOK, LeaseInvariant, VerifiedInvariant, [Next]_vars
  PROVE  VerifiedInvariant'
<1>1. CASE UNCHANGED vars
  BY <1>1 DEF vars, history, VerifiedInvariant, OnlyVerifiedReceive
<1>2. CASE Next
  <2>1. \A s \in Subs : sub'[s] = "active" => s \in echoed'
    BY <1>2, ActivatedByEcho DEF VerifiedInvariant
  <2>2. ASSUME NEW s \in Subs, NEW e \in Events, row'[<<s, e>>] # NoDelivery
        PROVE  s \in echoed'
    BY <1>2, <2>2, CreatedForActive, ActivatedByEcho DEF VerifiedInvariant, OnlyVerifiedReceive
  <2> QED BY <2>1, <2>2 DEF VerifiedInvariant, OnlyVerifiedReceive
<1> QED BY <1>1, <1>2

\* Only a mark after a 2xx makes a row say delivered.
LEMMA DeliveredByMark ==
  ASSUME OutboxTypeOK, LeaseInvariant, AcceptedInvariant, Next, NEW d \in Deliveries,
         row'[d] # NoDelivery, row'[d].status = "delivered"
  PROVE  d \in accepted
<1>1. CASE row'[d] = row[d]
  BY <1>1 DEF AcceptedInvariant, DeliveredWasAccepted
<1>2. CASE row'[d] # row[d]
  <2>1. ASSUME NEW p \in Senders, Mark(p) PROVE d \in accepted
    BY <1>2, <2>1, MarkEffect DEF AcceptedInvariant, Mark
  <2>2. ASSUME NEW p \in Senders, Claim(p) PROVE FALSE
    <3>1. PICK chosen \in OldestDue(p) :
            row' = IF backend = "memory" THEN row
                   ELSE [b \in Deliveries |-> IF b \in chosen THEN Taken(row[b], batchAt[p]) ELSE row[b]]
      BY <2>2 DEF Claim
    <3>2. d \in chosen => row'[d].status = "processing" \/ row'[d] = row[d]
      BY <3>1, DueIsStored, TakenType DEF OutboxTypeOK
    <3> QED BY <1>2, <3>1, <3>2
  <2>3. ASSUME NEW e \in Events, Publish(e) PROVE FALSE
    BY <1>2, <2>3, NewRowType DEF Publish
  <2>4. ASSUME NEW s \in Subs, NEW e \in Events, Enqueue(s, e) PROVE FALSE
    BY <1>2, <2>4, NewRowType DEF Enqueue, OutboxTypeOK
  <2> QED BY <1>2, <2>1, <2>2, <2>3, <2>4 DEF Next, Sender, CreateSubscription, BeginVerify,
          FinishVerify, Wake, Send, AbortBatch, Crash, Restart, Tick
<1> QED BY <1>1, <1>2

LEMMA AnswerStep ==
  ASSUME OutboxTypeOK, Next, NEW q \in Senders, pc'[q] = "answered", answer'[q] = "accepted",
         pc[q] = "answered" /\ answer[q] = "accepted" => current[q].delivery \in accepted
  PROVE  current'[q].delivery \in accepted'
<1>1. ASSUME NEW p \in Senders, Send(p) PROVE current'[q].delivery \in accepted'
  <2>1. PICK c \in batch[p], a \in Answers :
          /\ current' = [current EXCEPT ![p] = c]
          /\ answer' = [answer EXCEPT ![p] = a]
          /\ accepted' = IF a = "accepted" THEN accepted \cup {c.delivery} ELSE accepted
    BY <1>1 DEF Send
  <2>2. pc' = [pc EXCEPT ![p] = "answered"]
    BY <1>1 DEF Send
  <2>3. CASE q = p
    BY <2>1, <2>3 DEF OutboxTypeOK
  <2>4. CASE q # p
    BY <2>1, <2>2, <2>4 DEF OutboxTypeOK
  <2> QED BY <2>3, <2>4
<1>2. ASSUME NEW p \in Senders, Mark(p) PROVE current'[q].delivery \in accepted'
  <2>1. pc'[p] # "answered"
    BY <1>2 DEF Mark, OutboxTypeOK
  <2>2. q # p /\ pc'[q] = pc[q] /\ answer'[q] = answer[q] /\ current'[q] = current[q]
    BY <1>2, <2>1 DEF Mark, OutboxTypeOK
  <2> QED BY <1>2, <2>2 DEF Mark, history
<1>3. ASSUME NEW p \in Senders, AbortBatch(p) \/ Crash(p) \/ Restart(p)
      PROVE  current'[q].delivery \in accepted'
  <2>1. pc'[p] # "answered" /\ accepted' = accepted
    BY <1>3 DEF AbortBatch, Crash, Restart, Released, OutboxTypeOK, history
  <2>2. q # p /\ pc'[q] = pc[q] /\ answer'[q] = answer[q] /\ current'[q] = current[q]
    BY <1>3, <2>1 DEF AbortBatch, Crash, Restart, Released, OutboxTypeOK
  <2> QED BY <2>1, <2>2
<1>4. ASSUME NEW p \in Senders, Wake(p) \/ Claim(p) PROVE current'[q].delivery \in accepted'
  <2>1. pc'[p] # "answered" /\ accepted' = accepted /\ current' = current /\ answer' = answer
    BY <1>4 DEF Wake, Claim, OutboxTypeOK, history
  <2>2. q # p /\ pc'[q] = pc[q]
    BY <1>4, <2>1 DEF Wake, Claim, OutboxTypeOK
  <2> QED BY <2>1, <2>2
<1>5. ASSUME \/ \E s \in Subs : CreateSubscription(s) \/ BeginVerify(s)
             \/ \E s \in Subs, echo \in BOOLEAN : FinishVerify(s, echo)
             \/ \E e \in Events : Publish(e)
             \/ \E s \in Subs, e \in Events : Enqueue(s, e)
             \/ Tick
      PROVE  pc' = pc /\ current' = current /\ answer' = answer /\ accepted' = accepted
  BY <1>5 DEF CreateSubscription, BeginVerify, FinishVerify, Publish, Enqueue, Tick, senderVars, history
<1> QED BY <1>1, <1>2, <1>3, <1>4, <1>5 DEF Next, Sender

LEMMA AcceptedStep ==
  ASSUME OutboxTypeOK, LeaseInvariant, AcceptedInvariant, [Next]_vars
  PROVE  AcceptedInvariant'
<1>1. CASE UNCHANGED vars
  BY <1>1 DEF vars, senderVars, history, AcceptedInvariant, DeliveredWasAccepted
<1>2. CASE Next
  <2>1. accepted \subseteq accepted'
    BY <1>2 DEF Next, Sender, CreateSubscription, BeginVerify, FinishVerify, Publish, Enqueue, Wake, Claim,
       Send, Mark, AbortBatch, Crash, Restart, Tick, history
  <2>2. DeliveredWasAccepted'
    BY <1>2, <2>1, DeliveredByMark DEF DeliveredWasAccepted
  <2> QED BY <1>2, <2>2, AnswerStep DEF AcceptedInvariant
<1> QED BY <1>1, <1>2

LEMMA InvariantInit == Init => OutboxInvariant
<1>1. Init => VerifiedInvariant /\ AcceptedInvariant
  BY DEF Init, VerifiedInvariant, OnlyVerifiedReceive, AcceptedInvariant, DeliveredWasAccepted, Deliveries
<1> QED BY <1>1, TypeInit, LeaseInit DEF OutboxInvariant

LEMMA InvariantStep == OutboxInvariant /\ [Next]_vars => OutboxInvariant'
BY TypeStep, LeaseStep, VerifiedStep, AcceptedStep DEF OutboxInvariant, LeaseInvariant

\* The strengthened invariant of the outbox, which the theorems below draw on:
\* as long as nobody overruns the lease, a sender's claims and the rows agree.
THEOREM OutboxCorrect == Spec => []OutboxInvariant
BY InvariantInit, InvariantStep, PTL DEF Spec

\* Every variable keeps its type, and a sender has claims exactly while it
\* works on a batch (postgres-store.ts, delivery.ts).
THEOREM OutboxTypeCorrect == Spec => []OutboxTypeOK
<1>1. OutboxInvariant => OutboxTypeOK
  BY DEF OutboxInvariant
<1> QED BY <1>1, OutboxCorrect, PTL

\* No event is stored for an endpoint that has not echoed its challenge
\* (005_webhook_outbox.sql, activateSubscription).
THEOREM OnlyVerifiedReceiveCorrect == Spec => []OnlyVerifiedReceive
<1>1. OutboxInvariant => OnlyVerifiedReceive
  BY DEF OutboxInvariant, VerifiedInvariant
<1> QED BY <1>1, OutboxCorrect, PTL

\* What the store calls delivered, an endpoint has answered with 2xx
\* (delivery.ts: deliverDueBatch).
THEOREM DeliveredWasAcceptedCorrect == Spec => []DeliveredWasAccepted
<1>1. OutboxInvariant => DeliveredWasAccepted
  BY DEF OutboxInvariant, AcceptedInvariant
<1> QED BY <1>1, OutboxCorrect, PTL

\* Any number of API processes share the outbox without sending a delivery
\* twice at once, as long as none holds its batch for two minutes (claimDue).
THEOREM SendersAreExclusive == Spec => []ExclusiveUnlessOverrun
<1>1. OutboxInvariant => ExclusiveUnlessOverrun
  BY DEF OutboxInvariant, LeaseInvariant
<1> QED BY <1>1, OutboxCorrect, PTL

LEMMA SettledStep ==
  ASSUME OutboxInvariant, [Next]_vars, NEW d \in Deliveries,
         row[d] # NoDelivery, row[d].status \in {"delivered", "dead_letter"}
  PROVE  row'[d].status = row[d].status \/ d \in overran
<1>1. OutboxTypeOK /\ LeaseInvariant
  BY DEF OutboxInvariant
<1>2. CASE row'[d] = row[d]
  BY <1>2
<1>3. ASSUME NEW p \in Senders, Claim(p) PROVE row'[d] = row[d]
  <2>1. PICK chosen \in OldestDue(p) :
          row' = IF backend = "memory" THEN row
                 ELSE [b \in Deliveries |-> IF b \in chosen THEN Taken(row[b], batchAt[p]) ELSE row[b]]
    BY <1>3 DEF Claim
  <2>2. d \notin chosen
    BY <1>1, DueIsStored
  <2> QED BY <2>1, <2>2
<1>4. ASSUME NEW p \in Senders, Mark(p) PROVE row'[d] = row[d] \/ d \in overran
  <2>1. CASE d # current[p].delivery
    BY <1>1, <1>4, <2>1, MarkEffect
  <2>2. CASE d \in Held(p)
    BY <1>1, <2>2 DEF LeaseInvariant, LeaseHeld
  <2> QED BY <1>1, <1>4, <2>1, <2>2, MarkEffect
<1>5. ASSUME \/ \E e \in Events : Publish(e)
             \/ \E s \in Subs, e \in Events : Enqueue(s, e)
      PROVE  row'[d] = row[d]
  BY <1>1, <1>5, StoredIsKept
<1>6. CASE row' # row
  BY <1>3, <1>4, <1>5, <1>6 DEF Next, Sender, CreateSubscription, BeginVerify, FinishVerify, Wake, Send,
     AbortBatch, Crash, Restart, Tick, vars
<1> QED BY <1>2, <1>6

\* A settled delivery is never sent back to the queue: only a sender that has
\* overrun its lease can still change what its row says (markDelivered,
\* markRetry and markDeadLetter name the id only).
THEOREM SettledRowsStay == Spec => SettledStaysSettled
<1>1. OutboxInvariant /\ [Next]_vars
      => [\A d \in Deliveries :
            row[d] # NoDelivery /\ row[d].status \in {"delivered", "dead_letter"}
              => row'[d].status = row[d].status \/ d \in overran]_vars
  BY SettledStep
<1> QED BY <1>1, OutboxCorrect, PTL DEF Spec, SettledStaysSettled
=============================================================================
