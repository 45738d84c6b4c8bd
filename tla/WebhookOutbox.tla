---------------------------- MODULE WebhookOutbox ----------------------------
(***************************************************************************)
(* The webhook outbox of the API: subscriptions proved by a challenge, the  *)
(* trigger that turns a decision into one delivery per matching             *)
(* subscription, and the API processes that claim due deliveries under a    *)
(* two-minute lease, send them one after the other and write down what the  *)
(* endpoint answered.                                                       *)
(*                                                                          *)
(* A delivery is a pair <<subscription, event>> (its id is a hash of both). *)
(* `backend` is the WebhookStore a process was built with: the PostgreSQL   *)
(* store, shared by all senders, or the in-memory store of one process.     *)
(* Payloads, signatures and the listing routes' layout are left out.        *)
(***************************************************************************)
EXTENDS Integers, FiniteSets

CONSTANTS
  Subs,        \* subscriptions, one per tenant and idempotency key
  Events,      \* event ids
  Senders,     \* API processes with a delivery timer
  Instants,    \* the finite set of clock readings, in seconds
  BatchLimit,  \* deliveries claimed at once (100 in the code)
  MaxCrashes,
  EventType, EventSource,  \* of each event
  Topics, Scope,           \* event_types and source_ids of each subscription
  MayBeSealed, \* subscriptions that may date from an earlier encryption key
  NoDelivery

LeaseSeconds == 120
DaySeconds == 86400
Deliveries == Subs \X Events

Row(status, next, updated, attempt, first) ==
  [status |-> status, next |-> next, updated |-> updated, attempt |-> attempt, first |-> first]
Rows == [status : {"pending", "processing", "retry", "delivered", "dead_letter"},
         next : Nat, updated : Nat, attempt : Nat \ {0}, first : Instants]

OutboxAssumption ==
  /\ Instants \subseteq Nat /\ Instants # {}
  /\ BatchLimit \in Nat \ {0} /\ MaxCrashes \in Nat
  /\ MayBeSealed \subseteq Subs /\ DOMAIN EventType = Events /\ DOMAIN EventSource = Events
  /\ DOMAIN Topics = Subs /\ DOMAIN Scope = Subs
  /\ NoDelivery \notin Rows
ASSUME OutboxAssumption

VARIABLES
  backend,    \* "postgres" or "memory"
  sealed,     \* subscriptions whose secret the deployment's key cannot reveal
  now,        \* the clock
  sub,        \* subscription.status
  verifying,  \* subscriptions with a challenge under way
  row,        \* delivery_attempt
  pc,         \* what each sender's timer callback is doing
  batchAt,    \* `now` of its deliverDueBatch
  batch,      \* the claims it has not marked yet, as it read them
  current,    \* the claim being sent
  answer,     \* what its endpoint answered
  crashes,
  accepted,   \* history: deliveries some endpoint answered with 2xx
  echoed,     \* history: subscriptions whose endpoint echoed the challenge
  overran     \* history: deliveries held for two minutes or longer

senderVars == <<pc, batchAt, batch, current, answer>>
history == <<accepted, echoed, overran>>
vars == <<backend, sealed, now, sub, verifying, row, senderVars, crashes, history>>

Least(a, b) == IF a <= b THEN a ELSE b

Answers == {"accepted", "busy", "refused"}
Claims == [delivery : Deliveries, attempt : Nat \ {0}, first : Instants, next : Nat]

Init ==
  /\ backend \in {"postgres", "memory"}
  /\ sealed \in SUBSET MayBeSealed /\ (backend = "memory" => sealed = {})
  /\ now \in Instants /\ \A t \in Instants : now <= t
  /\ sub = [s \in Subs |-> "absent"] /\ verifying = {}
  /\ row = [d \in Deliveries |-> NoDelivery]
  /\ pc = [p \in Senders |-> "idle"] /\ batchAt = [p \in Senders |-> now]
  /\ batch = [p \in Senders |-> {}] /\ current = [p \in Senders |-> NoDelivery]
  /\ answer = [p \in Senders |-> "busy"]
  /\ crashes = 0 /\ accepted = {} /\ echoed = {} /\ overran = {}

-----------------------------------------------------------------------------
(* Subscriptions *)

\* The store inserts a subscription; a replay of its idempotency key finds the
\* row and changes nothing.
Created(s) == IF sub[s] = "absent" THEN "pending_challenge" ELSE sub[s]

CreateSubscription(s) ==
  /\ sub' = [sub EXCEPT ![s] = Created(s)]
  /\ UNCHANGED <<backend, sealed, now, verifying, row, senderVars, crashes, history>>

PendingChallenge(s) == sub[s] = "pending_challenge"

\* The verify route reads the pending challenge and posts it to the endpoint.
BeginVerify(s) ==
  /\ PendingChallenge(s)
  /\ verifying' = verifying \cup {s}
  /\ UNCHANGED <<backend, sealed, now, sub, row, senderVars, crashes, history>>

\* activateSubscription: the challenge is gone once the subscription is active.
Activated(s) == IF PendingChallenge(s) THEN "active" ELSE sub[s]

\* Only an echo of the challenge activates.
FinishVerify(s, echo) ==
  /\ s \in verifying
  /\ verifying' = verifying \ {s}
  /\ sub' = IF echo THEN [sub EXCEPT ![s] = Activated(s)] ELSE sub
  /\ echoed' = IF echo THEN echoed \cup {s} ELSE echoed
  /\ UNCHANGED <<backend, sealed, now, row, senderVars, crashes, accepted, overran>>

-----------------------------------------------------------------------------
(* Events *)

Wants(s, e) ==
  /\ EventType[e] \in Topics[s]
  /\ Scope[s] = {} \/ EventSource[e] \in Scope[s]

NewRow == Row("pending", now, now, 1, now)

Receives(s, e) == sub[s] = "active" /\ Wants(s, e)
ReceivesUnverified(s, e) == sub[s] # "absent" /\ Wants(s, e)  \* Mutant of Matching
Matching(s, e) == Receives(s, e)

\* The trigger inserts a fresh event for every matching subscription, in the
\* transaction that records the decision or moves the incident.
Publish(e) ==
  /\ \A s \in Subs : row[<<s, e>>] = NoDelivery
  /\ row' = [d \in Deliveries |->
               IF d[2] = e /\ Matching(d[1], e) THEN NewRow ELSE row[d]]
  /\ UNCHANGED <<backend, sealed, now, sub, verifying, senderVars, crashes, history>>

\* enqueue of an event its caller names: a second call with it does nothing. The
\* memory store does not ask whether the subscription wants it.
EnqueuedInMemory(s, e) == backend = "memory" /\ sub[s] = "active"
EnqueuedInPostgres(s, e) == backend = "postgres" /\ sub[s] = "active" /\ Wants(s, e)

Enqueue(s, e) ==
  /\ EnqueuedInMemory(s, e) \/ EnqueuedInPostgres(s, e)
  /\ row[<<s, e>>] = NoDelivery
  /\ row' = [row EXCEPT ![<<s, e>>] = NewRow]
  /\ UNCHANGED <<backend, sealed, now, sub, verifying, senderVars, crashes, history>>

-----------------------------------------------------------------------------
(* Senders *)

Held(p) == {c.delivery : c \in batch[p]}
OverrunAt(t) == UNION {Held(p) : p \in {q \in Senders : batchAt[q] <= t - LeaseSeconds}}

\* The timer fires while no batch is under way: the one clock reading of a batch.
Wake(p) ==
  /\ pc[p] = "idle"
  /\ backend = "memory" => \A q \in Senders \ {p} : pc[q] = "idle"
  /\ pc' = [pc EXCEPT ![p] = "woken"]
  /\ batchAt' = [batchAt EXCEPT ![p] = now]
  /\ UNCHANGED <<backend, sealed, now, sub, verifying, row, batch, current, answer, crashes, history>>

Waiting(r, t) == r.status \in {"pending", "retry"} /\ r.next <= t
LeaseLapsed(r, t) == r.status = "processing" /\ r.updated <= t - LeaseSeconds
LeaseLapsedAtOnce(r, t) == r.status = "processing" /\ r.updated <= t  \* Mutant of Abandoned
LeaseNeverLapses(r, t) == FALSE  \* Mutant of Abandoned
Abandoned(r, t) == LeaseLapsed(r, t)

DueInMemory(r, t) == backend = "memory" /\ Waiting(r, t)
DueInPostgres(r, t) == backend = "postgres" /\ (Waiting(r, t) \/ Abandoned(r, t))

Due(d, t) == row[d] # NoDelivery /\ (DueInMemory(row[d], t) \/ DueInPostgres(row[d], t))

\* ORDER BY next_attempt_at LIMIT: the oldest of what is due.
OldestDue(p) ==
  LET due == {d \in Deliveries : Due(d, batchAt[p])}
  IN {chosen \in SUBSET due :
        /\ Cardinality(chosen) = Least(BatchLimit, Cardinality(due))
        /\ \A d \in chosen, e \in due \ chosen : row[d].next <= row[e].next}

ClaimOf(d) == [delivery |-> d, attempt |-> row[d].attempt, first |-> row[d].first,
               next |-> row[d].next]

Taken(r, t) == Row("processing", r.next, t, r.attempt, r.first)

\* AES-GCM refuses what another key has sealed.
Revealed(chosen) == \A d \in chosen : d[1] \notin sealed

\* The claim commits before the secrets are revealed: one that cannot be
\* revealed ends the whole batch and leaves its rows in processing.
Claim(p) ==
  /\ pc[p] = "woken"
  /\ \E chosen \in OldestDue(p) :
       LET readable == chosen # {} /\ Revealed(chosen)
       IN /\ row' = IF backend = "memory" THEN row
                    ELSE [d \in Deliveries |->
                            IF d \in chosen THEN Taken(row[d], batchAt[p]) ELSE row[d]]
          /\ batch' = [batch EXCEPT ![p] = IF readable THEN {ClaimOf(d) : d \in chosen} ELSE {}]
          /\ pc' = [pc EXCEPT ![p] = IF readable THEN "sending" ELSE "idle"]
          /\ overran' = IF batchAt[p] <= now - LeaseSeconds THEN overran \cup chosen ELSE overran
  /\ UNCHANGED <<backend, sealed, now, sub, verifying, batchAt, current, answer, crashes, accepted, echoed>>

\* "busy" stands for 408, 429, 5xx and for 599, the status of any exception.
Send(p) ==
  /\ pc[p] = "sending"
  /\ \E c \in batch[p], a \in Answers :
       /\ \A other \in batch[p] : c.next <= other.next
       /\ current' = [current EXCEPT ![p] = c]
       /\ answer' = [answer EXCEPT ![p] = a]
       /\ accepted' = IF a = "accepted" THEN accepted \cup {c.delivery} ELSE accepted
  /\ pc' = [pc EXCEPT ![p] = "answered"]
  /\ UNCHANGED <<backend, sealed, now, sub, verifying, row, batchAt, batch, crashes, echoed, overran>>

Delay(attempt) == Least(3600, 2 ^ Least(attempt, 11))

\* #update of the two stores. The memory store leaves the times of what it
\* settles alone; it has no updated_at.
Settled(r, status, t) ==
  IF backend = "memory" THEN Row(status, r.next, r.updated, r.attempt, r.first)
  ELSE Row(status, t, t, r.attempt, r.first)
RetriedInMemory(r, t) == Row("retry", t, r.updated, r.attempt + 1, r.first)
Retried(r, t) ==
  IF backend = "memory" THEN RetriedInMemory(r, t)
  ELSE Row("retry", t, t, r.attempt + 1, r.first)

\* deliverDueBatch on an answer.
Outcome(r, c, a, t) ==
  CASE a = "accepted" -> Settled(r, "delivered", t)
    [] a = "busy" /\ t - c.first < DaySeconds -> Retried(r, t + Delay(c.attempt))
    [] OTHER -> Settled(r, "dead_letter", t)

\* Mutant of Marked: every answer below 500 counts as delivered.
MarkedByAnyAnswer(r, c, a, t) ==
  IF a = "refused" THEN Settled(r, "delivered", t) ELSE Outcome(r, c, a, t)
\* Mutant of Marked: a retry starts the count of attempts again, from zero.
MarkedAfresh(r, c, a, t) ==
  IF a = "busy" THEN [Retried(r, t + Delay(c.attempt)) EXCEPT !.attempt = 0] ELSE Outcome(r, c, a, t)
Marked(r, c, a, t) == Outcome(r, c, a, t)

\* The mark names the delivery only: whatever the row says by now is overwritten.
Mark(p) ==
  /\ pc[p] = "answered"
  /\ LET c == current[p]
         left == batch[p] \ {c}
     IN /\ row' = [row EXCEPT ![c.delivery] = Marked(@, c, answer[p], batchAt[p])]
        /\ batch' = [batch EXCEPT ![p] = left]
        /\ current' = [current EXCEPT ![p] = NoDelivery]
        /\ answer' = [answer EXCEPT ![p] = "busy"]
        /\ pc' = [pc EXCEPT ![p] = IF left = {} THEN "idle" ELSE "sending"]
  /\ UNCHANGED <<backend, sealed, now, sub, verifying, batchAt, crashes, history>>

Released(p, state) ==
  /\ pc' = [pc EXCEPT ![p] = state]
  /\ batch' = [batch EXCEPT ![p] = {}]
  /\ current' = [current EXCEPT ![p] = NoDelivery]
  /\ answer' = [answer EXCEPT ![p] = "busy"]

\* A query that throws ends the batch; the timer logs it and goes on.
AbortBatch(p) ==
  /\ backend = "postgres" /\ pc[p] \in {"woken", "answered"}
  /\ Released(p, "idle")
  /\ UNCHANGED <<backend, sealed, now, sub, verifying, row, batchAt, crashes, history>>

\* A process ends: its batch is forgotten, its rows stay in processing.
Crash(p) ==
  /\ backend = "postgres" /\ pc[p] # "down" /\ crashes < MaxCrashes
  /\ crashes' = crashes + 1
  /\ Released(p, "down")
  /\ UNCHANGED <<backend, sealed, now, sub, verifying, row, batchAt, history>>

Restart(p) ==
  /\ pc[p] = "down"
  /\ pc' = [pc EXCEPT ![p] = "idle"]
  /\ UNCHANGED <<backend, sealed, now, sub, verifying, row, batchAt, batch, current, answer, crashes, history>>

Tick ==
  \E t \in Instants :
    /\ t > now /\ \A u \in Instants : u > now => t <= u
    /\ now' = t
    /\ overran' = overran \cup OverrunAt(t)
    /\ UNCHANGED <<backend, sealed, sub, verifying, row, senderVars, crashes, accepted, echoed>>

Sender(p) ==
  \/ Wake(p)
  \/ Claim(p)
  \/ Send(p)
  \/ Mark(p)

Next ==
  \/ \E s \in Subs : CreateSubscription(s) \/ BeginVerify(s)
  \/ \E s \in Subs, echo \in BOOLEAN : FinishVerify(s, echo)
  \/ \E e \in Events : Publish(e)
  \/ \E s \in Subs, e \in Events : Enqueue(s, e)
  \/ \E p \in Senders : Sender(p) \/ AbortBatch(p) \/ Crash(p) \/ Restart(p)
  \/ Tick

Spec == Init /\ [][Next]_vars

\* The interval fires, every request has a timeout, the database answers, and
\* of claim queries that are tried again and again not every one fails.
Fairness ==
  \A p \in Senders :
    WF_vars(Wake(p)) /\ SF_vars(Claim(p)) /\ WF_vars(Send(p)) /\ WF_vars(Mark(p))
FairSpec == Spec /\ Fairness

-----------------------------------------------------------------------------
(* Properties *)

\* Every variable has its type, and a sender keeps claims only while it works
\* on a batch (postgres-store.ts, delivery.ts).
OutboxTypeOK ==
  /\ backend \in {"postgres", "memory"} /\ sealed \subseteq MayBeSealed /\ now \in Instants
  /\ sub \in [Subs -> {"absent", "pending_challenge", "active"}] /\ verifying \subseteq Subs
  /\ row \in [Deliveries -> Rows \cup {NoDelivery}]
  /\ pc \in [Senders -> {"idle", "woken", "sending", "answered", "down"}]
  /\ batchAt \in [Senders -> Instants] /\ \A p \in Senders : batchAt[p] <= now
  /\ batch \in [Senders -> SUBSET Claims] /\ current \in [Senders -> Claims \cup {NoDelivery}]
  /\ \A p \in Senders :
       /\ (batch[p] = {}) <=> (pc[p] \in {"idle", "woken", "down"})
       /\ current[p] \in IF pc[p] = "answered" THEN batch[p] ELSE {NoDelivery}
  /\ answer \in [Senders -> Answers] /\ crashes \in 0 .. MaxCrashes
  /\ accepted \subseteq Deliveries /\ echoed \subseteq Subs /\ overran \subseteq Deliveries

\* Events are stored for an endpoint only after it has echoed its challenge,
\* however verification and decisions interleave (005_webhook_outbox.sql).
OnlyVerifiedReceive ==
  \A s \in Subs, e \in Events : row[<<s, e>>] # NoDelivery => s \in echoed

\* A delivery recorded as delivered was answered with 2xx, whoever sent it last
\* (delivery.ts: deliverDueBatch).
DeliveredWasAccepted ==
  \A d \in Deliveries :
    row[d] # NoDelivery /\ row[d].status = "delivered" => d \in accepted

\* Two processes send the same delivery at once only if somebody has held it
\* for two minutes: the lease of claimDue covers everything that is faster.
ExclusiveUnlessOverrun ==
  \A p, q \in Senders : p # q => Held(p) \cap Held(q) \subseteq overran

\* A delivered or dead-lettered row stays what it is, unless a sender that held
\* it past its lease marks it late (the marks of postgres-store.ts are unconditional).
SettledStaysSettled ==
  [][\A d \in Deliveries :
       row[d] # NoDelivery /\ row[d].status \in {"delivered", "dead_letter"}
         => row'[d].status = row[d].status \/ d \in overran]_vars

\* At rest: settled, scheduled for later, or left by a dead batch whose lease runs.
AtRest(d) ==
  /\ row[d] # NoDelivery
  /\ \/ row[d].status \in {"delivered", "dead_letter"}
     \/ row[d].status = "retry" /\ row[d].next > now
     \/ /\ row[d].status = "processing" /\ row[d].updated > now - LeaseSeconds
        /\ \A p \in Senders : d \notin Held(p)

Poisoned == \E d \in Deliveries : row[d] # NoDelivery /\ d[1] \in sealed

\* A stored delivery comes to rest again and again: it is sent whenever it is due,
\* also after its sender died. One whose secret cannot be revealed holds up all.
DueIsAttempted ==
  \A d \in Deliveries : (row[d] # NoDelivery) ~> (AtRest(d) \/ Poisoned)
=============================================================================
