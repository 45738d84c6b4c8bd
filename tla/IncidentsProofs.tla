---------------------------- MODULE IncidentsProofs ----------------------------
(***************************************************************************)
(* The safety of incidents for any number of workers, administrators,       *)
(* monitors and wordings.  Two facts carry it: a row changes its version    *)
(* with every change, so that an older copy of the same version is the row; *)
(* and an incident is public exactly when it has a wording.                 *)
(***************************************************************************)
EXTENDS Incidents, FiniteSetTheorems, TLAPS

Works == [observation : 1 .. MaxObservations, monitor : Monitors, critical : BOOLEAN,
          found : Ids \cup {None}, seen : Rows \cup {None}]

Typed ==
  /\ clock \in 0 .. MaxObservations /\ DOMAIN passed \subseteq 1 .. clock
  /\ row \in [Ids -> Rows \cup {None}]
  /\ work \in [Workers -> Works \cup {None}]
  /\ list \in [Operators -> [Ids -> Rows \cup {None}]]
  /\ raced \in BOOLEAN

\* An incident is public when it has a wording, and a candidate has none.
WordingMatches ==
  \A i \in Known(row) :
    /\ row[i].wording = None <=> row[i].public = "review_required"
    /\ row[i].status = "candidate" => row[i].wording = None

\* What is under way or filed is a failure, of an incident that is there.
Failures(observation) == observation \in 1 .. clock \ DOMAIN passed
WorkIsSound ==
  \A w \in Workers : work[w] # None =>
    /\ Failures(work[w].observation)
    /\ work[w].found # None => work[w].found \in Known(row) /\ work[w].seen \in Rows
FiledIsSound == \A f \in filed : Failures(f[1]) /\ f[2] \in Known(row)

\* A list holds older copies of the rows, and one of the same version is no older.
ListsAreOld ==
  \A p \in Operators : \A i \in Known(list[p]) :
    /\ i \in Known(row) /\ list[p][i].version <= row[i].version
    /\ list[p][i].version = row[i].version => list[p][i] = row[i]

IncidentsInvariant == Typed /\ WordingMatches /\ WorkIsSound /\ FiledIsSound /\ ListsAreOld

-----------------------------------------------------------------------------
(* Rows: a record of Rows with one field set, and the records of transitions *)

Is(s, status, monitors, observations, last, version, public, wording) ==
  /\ s \in Rows
  /\ s.status = status /\ s.monitors = monitors /\ s.observations = observations
  /\ s.last = last /\ s.version = version /\ s.public = public /\ s.wording = wording

LEMMA SetStatus ==
  ASSUME NEW r \in Rows, NEW x \in Statuses
  PROVE  Is([r EXCEPT !.status = x], x, r.monitors, r.observations, r.last, r.version, r.public, r.wording)
BY DEF Is, Rows

LEMMA SetObservations ==
  ASSUME NEW r \in Rows, NEW x \in SUBSET (1 .. MaxObservations)
  PROVE  Is([r EXCEPT !.observations = x], r.status, r.monitors, x, r.last, r.version, r.public, r.wording)
BY DEF Is, Rows

LEMMA SetLast ==
  ASSUME NEW r \in Rows, NEW x \in 1 .. MaxObservations
  PROVE  Is([r EXCEPT !.last = x], r.status, r.monitors, r.observations, x, r.version, r.public, r.wording)
BY DEF Is, Rows

LEMMA SetVersion ==
  ASSUME NEW r \in Rows, NEW x \in Nat \ {0}
  PROVE  Is([r EXCEPT !.version = x], r.status, r.monitors, r.observations, r.last, x, r.public, r.wording)
BY DEF Is, Rows

LEMMA SetPublic ==
  ASSUME NEW r \in Rows, NEW x \in {"review_required", "published", "corrected"}
  PROVE  Is([r EXCEPT !.public = x], r.status, r.monitors, r.observations, r.last, r.version, x, r.wording)
BY DEF Is, Rows

LEMMA SetWording ==
  ASSUME NEW r \in Rows, NEW x \in Wordings \cup {None}
  PROVE  Is([r EXCEPT !.wording = x], r.status, r.monitors, r.observations, r.last, r.version, r.public, x)
BY DEF Is, Rows

LEMMA NextVersion == ASSUME NEW r \in Rows PROVE r.version + 1 \in Nat \ {0} /\ r.version \in Nat
BY DEF Rows

LEMMA ToStatus ==
  ASSUME NEW r \in Rows, NEW x \in Statuses
  PROVE  Is([r EXCEPT !.status = x, !.version = r.version + 1],
            x, r.monitors, r.observations, r.last, r.version + 1, r.public, r.wording)
<1> DEFINE a == [r EXCEPT !.status = x]
           b == [a EXCEPT !.version = r.version + 1]
<1>1. Is(a, x, r.monitors, r.observations, r.last, r.version, r.public, r.wording)
  BY SetStatus
<1> HIDE DEF a
<1>2. Is(b, x, r.monitors, r.observations, r.last, r.version + 1, r.public, r.wording)
  BY <1>1, SetVersion, NextVersion DEF Is
<1>3. b = [r EXCEPT !.status = x, !.version = r.version + 1]
  BY Zenon DEF a
<1> QED BY <1>2, <1>3, Zenon

LEMMA AcknowledgedRow ==
  ASSUME NEW r \in Rows
  PROVE  Is(Acknowledged(r), "acknowledged", r.monitors, r.observations, r.last, r.version + 1,
            r.public, r.wording)
<1>1. "acknowledged" \in Statuses
  BY DEF Statuses
<1> QED BY <1>1, ToStatus, Zenon DEF Acknowledged

LEMMA SuppressedRow ==
  ASSUME NEW r \in Rows
  PROVE  Is(Suppressed(r), "suppressed", r.monitors, r.observations, r.last, r.version + 1,
            r.public, r.wording)
<1>1. "suppressed" \in Statuses
  BY DEF Statuses
<1> QED BY <1>1, ToStatus, Zenon DEF Suppressed

LEMMA ResolvedRow ==
  ASSUME NEW r \in Rows, NEW evidence \in SUBSET (1 .. MaxObservations)
  PROVE  Is(Resolved(r, evidence), "resolved", r.monitors, r.observations \cup evidence, r.last,
            r.version + 1, r.public, r.wording)
<1> DEFINE both == r.observations \cup evidence
           a == [r EXCEPT !.status = "resolved"]
           b == [a EXCEPT !.observations = both]
           c == [b EXCEPT !.version = r.version + 1]
<1>1. Is(a, "resolved", r.monitors, r.observations, r.last, r.version, r.public, r.wording)
  BY SetStatus DEF Statuses
<1>2. both \in SUBSET (1 .. MaxObservations)
  BY DEF Rows
<1> HIDE DEF a, both
<1>3. Is(b, "resolved", r.monitors, both, r.last, r.version, r.public, r.wording)
  BY <1>1, <1>2, SetObservations DEF Is
<1> HIDE DEF b
<1>4. Is(c, "resolved", r.monitors, both, r.last, r.version + 1, r.public, r.wording)
  BY <1>3, SetVersion, NextVersion DEF Is
<1>5. c = Resolved(r, evidence)
  BY Zenon DEF a, b, both, Resolved
<1> QED BY <1>4, <1>5, Zenon DEF both

LEMMA WordedRow ==
  ASSUME NEW r \in Rows, NEW x \in {"published", "corrected"}, NEW text \in Wordings
  PROVE  Is([r EXCEPT !.public = x, !.wording = text, !.version = r.version + 1],
            r.status, r.monitors, r.observations, r.last, r.version + 1, x, text)
<1> DEFINE a == [r EXCEPT !.public = x]
           b == [a EXCEPT !.wording = text]
           c == [b EXCEPT !.version = r.version + 1]
<1>1. Is(a, r.status, r.monitors, r.observations, r.last, r.version, x, r.wording)
  BY SetPublic
<1> HIDE DEF a
<1>2. Is(b, r.status, r.monitors, r.observations, r.last, r.version, x, text)
  BY <1>1, SetWording DEF Is
<1> HIDE DEF b
<1>3. Is(c, r.status, r.monitors, r.observations, r.last, r.version + 1, x, text)
  BY <1>2, SetVersion, NextVersion DEF Is
<1>4. c = [r EXCEPT !.public = x, !.wording = text, !.version = r.version + 1]
  BY Zenon DEF a, b
<1> QED BY <1>3, <1>4, Zenon

LEMMA PublishedRow ==
  ASSUME NEW r \in Rows, NEW text \in Wordings
  PROVE  Is(Published(r, text), r.status, r.monitors, r.observations, r.last, r.version + 1,
            "published", text)
BY WordedRow, Zenon DEF Published

LEMMA CorrectedRow ==
  ASSUME NEW r \in Rows, NEW text \in Wordings
  PROVE  Is(Corrected(r, text), r.status, r.monitors, r.observations, r.last, r.version + 1,
            "corrected", text)
BY WordedRow, Zenon DEF Corrected

LEMMA ExtendedRow ==
  ASSUME NEW r \in Rows, NEW t \in Works, t.seen \in Rows
  PROVE  Is(Extended(r, t), IF r.status = "candidate" THEN "open" ELSE r.status, r.monitors,
            t.seen.observations \cup {t.observation}, t.observation, r.version + 1, r.public, r.wording)
<1> DEFINE status == IF r.status = "candidate" THEN "open" ELSE r.status
           both == t.seen.observations \cup {t.observation}
           a == [r EXCEPT !.status = status]
           b == [a EXCEPT !.observations = both]
           c == [b EXCEPT !.last = t.observation]
           d == [c EXCEPT !.version = r.version + 1]
<1>1. status \in Statuses
  BY DEF Rows, Statuses
<1>2. both \in SUBSET (1 .. MaxObservations) /\ t.observation \in 1 .. MaxObservations
  BY DEF Rows, Works
<1> HIDE DEF status, both
<1>3. Is(a, status, r.monitors, r.observations, r.last, r.version, r.public, r.wording)
  BY <1>1, SetStatus
<1> HIDE DEF a
<1>4. Is(b, status, r.monitors, both, r.last, r.version, r.public, r.wording)
  BY <1>2, <1>3, SetObservations DEF Is
<1> HIDE DEF b
<1>5. Is(c, status, r.monitors, both, t.observation, r.version, r.public, r.wording)
  BY <1>2, <1>4, SetLast DEF Is
<1> HIDE DEF c
<1>6. Is(d, status, r.monitors, both, t.observation, r.version + 1, r.public, r.wording)
  BY <1>5, SetVersion, NextVersion DEF Is
<1>7. d = Extended(r, t)
  BY Zenon DEF a, b, c, status, both, Extended
<1> QED BY <1>6, <1>7, Zenon DEF status, both

LEMMA OpenedRow ==
  ASSUME NEW t \in Works
  PROVE  Is(Opened(t), IF t.critical THEN "open" ELSE "candidate", {t.monitor}, {t.observation},
            t.observation, 1, "review_required", None)
BY DEF Opened, Works, Rows, Statuses, Is

-----------------------------------------------------------------------------
(* Requests *)

\* What an administrator sends: the console publishes only what its list calls unpublished,
\* and who else publishes over a correction replaces it.
Sent(p, q) ==
  /\ q.action \in {"acknowledge", "suppress", "resolve", "publish", "correct"}
  /\ q.evidence \in SUBSET DOMAIN passed
  /\ IF q.action \in {"publish", "correct"} THEN q.wording \in Wordings ELSE q.wording = None
  /\ replaced \subseteq replaced'
  /\ q.action = "publish" =>
       \/ list[p][q.id].public \notin {"published", "corrected"}
       \/ row[q.id].public = "corrected" => <<q.id, row[q.id].wording>> \in replaced'

LEMMA CallersSend ==
  ASSUME NEW p \in Operators, NEW i \in Ids, NEW action, NEW text, NEW evidence \in SUBSET DOMAIN passed,
         \/ action \in {"acknowledge", "suppress", "resolve"} /\ text = None
         \/ action \in {"publish", "correct"} /\ text \in Wordings,
         Call(p, i, action, text, evidence)
  PROVE  \E q : Sent(p, q) /\ Transition(p, q)
<1> DEFINE q == Request(i, action, text, evidence)
<1>1. Transition(p, q)
  BY DEF Call
<1>2. /\ replaced \subseteq replaced'
      /\ action = "publish" /\ row[i].public = "corrected" => <<i, row[i].wording>> \in replaced'
  BY DEF Call
<1>3. Sent(p, q)
  BY <1>2 DEF Sent, Request
<1> QED BY <1>1, <1>3

LEMMA OperatorsSend ==
  ASSUME NEW p \in Operators, OperatorNext(p)
  PROVE  Load(p) \/ \E q : Sent(p, q) /\ Transition(p, q)
<1>1. ASSUME SubmitAcknowledgement(p) PROVE \E q : Sent(p, q) /\ Transition(p, q)
  <2> DEFINE q == Request(First(p), "acknowledge", None, {})
  <2>1. Transition(p, q) /\ replaced' = replaced
    BY <1>1 DEF SubmitAcknowledgement
  <2>2. Sent(p, q)
    BY <2>1 DEF Sent, Request
  <2> QED BY <2>1, <2>2
<1>2. ASSUME NEW text \in Wordings, SubmitWording(p, text) PROVE \E q : Sent(p, q) /\ Transition(p, q)
  <2> DEFINE correcting == list[p][First(p)].public \in {"published", "corrected"}
             q == Request(First(p), IF correcting THEN "correct" ELSE "publish", text, {})
  <2>1. Transition(p, q) /\ replaced' = replaced
    BY <1>2 DEF SubmitWording
  <2>2. Sent(p, q)
    BY <2>1 DEF Sent, Request
  <2> QED BY <2>1, <2>2
<1>3. ASSUME NEW i \in Ids, NEW action \in {"acknowledge", "suppress"}, Call(p, i, action, None, {})
      PROVE  \E q : Sent(p, q) /\ Transition(p, q)
  BY <1>3, CallersSend
<1>4. ASSUME NEW i \in Ids, NEW evidence \in SUBSET DOMAIN passed, Call(p, i, "resolve", None, evidence)
      PROVE  \E q : Sent(p, q) /\ Transition(p, q)
  BY <1>4, CallersSend
<1>5. ASSUME NEW i \in Ids, NEW action \in {"publish", "correct"}, NEW text \in Wordings,
             Call(p, i, action, text, {})
      PROVE  \E q : Sent(p, q) /\ Transition(p, q)
  BY <1>5, CallersSend
<1> QED BY <1>1, <1>2, <1>3, <1>4, <1>5 DEF OperatorNext

LEMMA KnownRows ==
  ASSUME Typed
  PROVE  /\ Known(row) = {i \in Ids : row[i] # None} /\ \A i \in Known(row) : row[i] \in Rows
         /\ \A p \in Operators :
              Known(list[p]) = {i \in Ids : list[p][i] # None} /\ \A i \in Known(list[p]) : list[p][i] \in Rows
BY DEF Typed, Known

\* The row a transition locks is the one its sender has listed.
LEMMA ListedIsRow ==
  ASSUME IncidentsInvariant, NEW p \in Operators, NEW q, Transition(p, q)
  PROVE  /\ q.id \in Known(row) /\ q.id \in Ids /\ row[q.id] \in Rows
         /\ row[q.id] = list[p][q.id]
BY KnownRows DEF IncidentsInvariant, ListsAreOld, Transition, Matches

\* What a transition makes of its row.
LEMMA UpdatedRow ==
  ASSUME IncidentsInvariant, NEW p \in Operators, NEW q, Sent(p, q), Transition(p, q)
  PROVE  LET r == row[q.id]
             s == Updated(r, q)
         IN  /\ s \in Rows /\ s.version = r.version + 1 /\ s.monitors = r.monitors
             /\ s.status = CASE q.action = "acknowledge" -> "acknowledged"
                             [] q.action = "suppress"    -> "suppressed"
                             [] q.action = "resolve"     -> "resolved"
                             [] OTHER -> r.status
             /\ s.observations = IF q.action = "resolve" THEN r.observations \cup q.evidence
                                 ELSE r.observations
             /\ s.public = CASE q.action = "publish" -> "published"
                             [] q.action = "correct" -> "corrected"
                             [] OTHER -> r.public
             /\ s.wording = IF q.action \in {"publish", "correct"} THEN q.wording ELSE r.wording
<1> DEFINE r == row[q.id]
<1>1. r \in Rows
  BY ListedIsRow
<1>2. q.evidence \in SUBSET (1 .. MaxObservations)
  BY IncidentsAssumption DEF Sent, IncidentsInvariant, Typed, IncidentsAssumption
<1> HIDE DEF r
<1>3. CASE q.action = "acknowledge"
  BY <1>1, <1>3, AcknowledgedRow DEF Updated, Is, r
<1>4. CASE q.action = "suppress"
  BY <1>1, <1>4, SuppressedRow DEF Updated, Is, r
<1>5. CASE q.action = "resolve"
  BY <1>1, <1>2, <1>5, ResolvedRow DEF Updated, Is, r
<1>6. CASE q.action = "publish"
  BY <1>1, <1>6, PublishedRow DEF Updated, Is, Sent, r
<1>7. CASE q.action = "correct"
  BY <1>1, <1>7, CorrectedRow DEF Updated, Is, Sent, r
<1> QED BY <1>3, <1>4, <1>5, <1>6, <1>7 DEF Sent

\* Transitions touch one row and nothing the workers use.
LEMMA TransitionEffect ==
  ASSUME IncidentsInvariant, NEW p \in Operators, NEW q, Transition(p, q)
  PROVE  /\ UNCHANGED <<passed, clock, work, list, filed, raced>>
         /\ row' = [row EXCEPT ![q.id] = Updated(row[q.id], q)]
         /\ row'[q.id] = Updated(row[q.id], q)
         /\ \A i \in Ids \ {q.id} : row'[i] = row[i]
         /\ Allowed(row[q.id], q)
         /\ audit' = audit \cup {Entry(row[q.id], p, q)}
<1>1. q.id \in Ids
  BY ListedIsRow
<1> QED BY <1>1 DEF Transition, observed, IncidentsInvariant, Typed

\* The row that a worker files in, and nothing else of the table.
LEMMA FileEffect ==
  ASSUME IncidentsInvariant, NEW w \in Workers, NEW i \in Ids, File(w, i)
  PROVE  /\ work[w] \in Works /\ work[w] # None /\ Failures(work[w].observation)
         /\ work[w].found = None =>
              row[i] = None /\ Is(row'[i], IF work[w].critical THEN "open" ELSE "candidate",
                                  {work[w].monitor}, {work[w].observation}, work[w].observation, 1,
                                  "review_required", None)
         /\ work[w].found # None =>
              /\ i = work[w].found /\ i \in Known(row) /\ row[i] \in Rows /\ work[w].seen \in Rows
              /\ Is(row'[i], IF row[i].status = "candidate" THEN "open" ELSE row[i].status,
                    row[i].monitors, work[w].seen.observations \cup {work[w].observation},
                    work[w].observation, row[i].version + 1, row[i].public, row[i].wording)
         /\ row'[i] \in Rows
         /\ row' \in [Ids -> Rows \cup {None}]
         /\ \A j \in Ids \ {i} : row'[j] = row[j]
         /\ work' = [work EXCEPT ![w] = None]
         /\ filed' = filed \cup {<<work[w].observation, i>>}
         /\ UNCHANGED <<passed, clock, audit, list, shown, replaced>>
<1> DEFINE t == work[w]
<1>1. /\ t # None /\ (IF t.found = None THEN row[i] = None ELSE i = t.found)
      /\ row' = [row EXCEPT ![i] = IF t.found = None THEN Opened(t) ELSE Extended(row[i], t)]
  BY DEF File
<1>2. t \in Works /\ Failures(t.observation)
  BY <1>1 DEF IncidentsInvariant, Typed, WorkIsSound
<1>3. t.found # None => i \in Known(row) /\ t.seen \in Rows /\ row[i] \in Rows
  BY <1>1, KnownRows DEF IncidentsInvariant, WorkIsSound
<1>4. row'[i] = IF t.found = None THEN Opened(t) ELSE Extended(row[i], t)
  BY <1>1 DEF IncidentsInvariant, Typed
<1>5. \A j \in Ids \ {i} : row'[j] = row[j]
  BY <1>1 DEF IncidentsInvariant, Typed
<1>6. t.found = None =>
        Is(row'[i], IF t.critical THEN "open" ELSE "candidate", {t.monitor}, {t.observation},
           t.observation, 1, "review_required", None)
  BY <1>2, <1>4, OpenedRow
<1>7. t.found # None =>
        Is(row'[i], IF row[i].status = "candidate" THEN "open" ELSE row[i].status, row[i].monitors,
           t.seen.observations \cup {t.observation}, t.observation, row[i].version + 1,
           row[i].public, row[i].wording)
  BY <1>2, <1>3, <1>4, ExtendedRow
<1>8. row'[i] \in Rows
  BY <1>6, <1>7 DEF Is
<1>9. row' \in [Ids -> Rows \cup {None}]
  BY <1>1, <1>4, <1>8 DEF IncidentsInvariant, Typed
<1>10. /\ work' = [work EXCEPT ![w] = None] /\ filed' = filed \cup {<<t.observation, i>>}
       /\ UNCHANGED <<passed, clock, audit, list, shown, replaced>>
  BY DEF File
<1> QED BY <1>1, <1>2, <1>3, <1>5, <1>6, <1>7, <1>8, <1>9, <1>10

-----------------------------------------------------------------------------
(* The invariant, action by action *)

LEMMA InvariantInit == Init => IncidentsInvariant
<1> SUFFICES ASSUME Init PROVE IncidentsInvariant
  OBVIOUS
<1>1. clock = 0 /\ DOMAIN passed = {}
  BY DEF Init
<1>2. clock \in 0 .. MaxObservations /\ DOMAIN passed \subseteq 1 .. clock
  BY <1>1, IncidentsAssumption DEF IncidentsAssumption
<1>3. Known(row) = {} /\ \A p \in Operators : Known(list[p]) = {}
  BY DEF Init, Known
<1>4. Typed
  BY <1>2 DEF Init, Typed
<1>5. WordingMatches /\ WorkIsSound /\ FiledIsSound /\ ListsAreOld
  BY <1>3 DEF Init, WordingMatches, WorkIsSound, FiledIsSound, ListsAreOld
<1> QED BY <1>4, <1>5 DEF IncidentsInvariant

\* An observation that is made leaves the earlier failures failures.
LEMMA ObservationMade ==
  ASSUME IncidentsInvariant, NEW w \in Workers,
         \/ \E m \in Monitors : Pass(w, m)
         \/ \E m \in Monitors, critical \in BOOLEAN : Fail(w, m, critical)
  PROVE  /\ clock' = clock + 1 /\ clock' \in 1 .. MaxObservations /\ DOMAIN passed' \subseteq 1 .. clock'
         /\ DOMAIN passed \subseteq DOMAIN passed' /\ DOMAIN passed' \subseteq DOMAIN passed \cup {clock'}
         /\ \A o \in DOMAIN passed : passed'[o] = passed[o]
         /\ \A o : Failures(o) => Failures(o)'
         /\ UNCHANGED <<row, audit, list, shown, replaced, filed, raced>>
<1>1. clock \in Nat /\ clock < MaxObservations /\ clock' = clock + 1 /\ MaxObservations \in Nat
      /\ DOMAIN passed \subseteq 1 .. clock
  BY IncidentsAssumption DEF IncidentsAssumption, IncidentsInvariant, Typed, Pass, Fail
<1>2. /\ DOMAIN passed' \in {DOMAIN passed, DOMAIN passed \cup {clock'}}
      /\ \A o \in DOMAIN passed : passed'[o] = passed[o]
  <2>1. CASE \E m \in Monitors : Pass(w, m)
    <3>1. PICK m \in Monitors : passed' = With(passed, clock', m)
      BY <2>1 DEF Pass
    <3>2. clock' \notin DOMAIN passed
      BY <1>1
    <3> QED BY <3>1, <3>2 DEF With
  <2>2. CASE \E m \in Monitors, critical \in BOOLEAN : Fail(w, m, critical)
    BY <2>2 DEF Fail
  <2> QED BY <2>1, <2>2
<1>3. UNCHANGED <<row, audit, list, shown, replaced, filed, raced>>
  BY DEF Pass, Fail
<1>4. ASSUME NEW o, Failures(o) PROVE Failures(o)'
  BY <1>1, <1>2, <1>4 DEF Failures
<1> QED BY <1>1, <1>2, <1>3, <1>4

LEMMA InvariantPass ==
  ASSUME IncidentsInvariant, NEW w \in Workers, NEW m \in Monitors, Pass(w, m)
  PROVE  IncidentsInvariant'
<1>1. /\ clock' \in 1 .. MaxObservations /\ DOMAIN passed' \subseteq 1 .. clock'
      /\ \A o : Failures(o) => Failures(o)'
      /\ UNCHANGED <<row, list, filed, raced>>
  BY ObservationMade
<1>2. work' = work
  BY DEF Pass
<1>3. Typed'
  BY <1>1, <1>2 DEF IncidentsInvariant, Typed
<1>4. WorkIsSound' /\ FiledIsSound'
  BY <1>1, <1>2 DEF IncidentsInvariant, WorkIsSound, FiledIsSound, Known
<1>5. WordingMatches' /\ ListsAreOld'
  BY <1>1 DEF IncidentsInvariant, WordingMatches, ListsAreOld, Known
<1> QED BY <1>3, <1>4, <1>5 DEF IncidentsInvariant

\* Among rows there is one with the latest observation, since those are bounded.
LEMMA LatestExists ==
  ASSUME NEW f, NEW ids, ids # {}, \A i \in ids : f[i] \in Rows
  PROVE  \E i \in ids : \A j \in ids : f[j].last <= f[i].last
<1> DEFINE S == 1 .. MaxObservations
           After(i) == f[i].last + 1 .. MaxObservations
           T == {After(i) : i \in ids}
<1>1. MaxObservations \in Nat /\ \A i \in ids : f[i].last \in S
  BY IncidentsAssumption DEF IncidentsAssumption, Rows
<1>2. IsFiniteSet(S) /\ FiniteSubsetsOf(S) = SUBSET S
  <2>1. IsFiniteSet(S)
    BY <1>1, FS_Interval
  <2> QED BY <2>1, FS_FiniteSubsetsOfFinite, Zenon
<1>3. IsWellFoundedOn(StrictSubsetOrdering(S), SUBSET S)
  BY <1>2, FS_StrictSubsetOrderingWellFounded
<1>4. \A i \in ids : After(i) \in SUBSET S
  BY <1>1
<1>5. T \subseteq SUBSET S /\ T # {}
  BY <1>4
<1>6. PICK x \in T : \A y \in T : ~ (<<y, x>> \in StrictSubsetOrdering(S))
  BY <1>3, <1>5, WFMin
<1>7. PICK i \in ids : x = After(i)
  BY <1>6
<1>8. ASSUME NEW j \in ids, ~ (f[j].last <= f[i].last) PROVE FALSE
  <2>1. f[i].last \in S /\ f[j].last \in S /\ f[j].last > f[i].last
    BY <1>1, <1>8
  <2>2. After(j) \subseteq After(i)
    BY <1>1, <2>1
  <2>3. f[j].last \in After(i) /\ f[j].last \notin After(j)
    BY <1>1, <2>1
  <2>4. <<After(j), After(i)>> \in (SUBSET S) \X (SUBSET S) /\ After(j) # After(i)
    BY <1>4, <2>3
  <2>5. <<After(j), After(i)>> \in StrictSubsetOrdering(S)
    BY <2>2, <2>4 DEF StrictSubsetOrdering
  <2> QED BY <1>6, <1>7, <2>5
<1> QED BY <1>8

\* The lookup finds an active incident if there is one.
LEMMA LookupFinds ==
  ASSUME Typed
  PROVE  IF Active(row, Live) = {} THEN Lookup(row) = None ELSE Lookup(row) \in Active(row, Live)
<1> DEFINE ids == Active(row, Live)
<1>1. \A i \in ids : row[i] \in Rows
  BY KnownRows DEF Active
<1>2. CASE ids = {}
  BY <1>2 DEF Lookup, LatestOf
<1>3. CASE ids # {}
  <2>1. \E i \in ids : \A j \in ids : row[j].last <= row[i].last
    BY <1>1, <1>3, LatestExists
  <2> HIDE DEF ids
  <2>2. LatestOf(row, ids) \in ids
    BY <1>3, <2>1 DEF LatestOf
  <2> QED BY <1>3, <2>2 DEF Lookup, ids
<1> QED BY <1>2, <1>3

LEMMA InvariantFail ==
  ASSUME IncidentsInvariant, NEW w \in Workers, NEW m \in Monitors, NEW critical \in BOOLEAN,
         Fail(w, m, critical)
  PROVE  IncidentsInvariant'
<1>1. /\ clock' \in 1 .. MaxObservations /\ DOMAIN passed' \subseteq 1 .. clock'
      /\ clock' = clock + 1
      /\ \A o : Failures(o) => Failures(o)'
      /\ UNCHANGED <<row, list, filed, raced>>
  BY ObservationMade
<1> DEFINE t == [observation |-> clock', monitor |-> m, critical |-> critical, found |-> Lookup(row),
                 seen |-> IF Lookup(row) = None THEN None ELSE row[Lookup(row)]]
<1>2. work' = [work EXCEPT ![w] = t] /\ passed' = passed
  BY DEF Fail
<1>3. Lookup(row) # None => Lookup(row) \in Known(row) /\ Lookup(row) \in Ids /\ row[Lookup(row)] \in Rows
  BY LookupFinds, KnownRows DEF IncidentsInvariant, Active
<1>4. t \in Works
  BY <1>1, <1>3 DEF Works
<1>5. Typed'
  BY <1>1, <1>2, <1>4 DEF IncidentsInvariant, Typed
<1>6. clock' \in 1 .. clock' \ DOMAIN passed'
  BY <1>1, <1>2 DEF IncidentsInvariant, Typed
<1>7. WorkIsSound'
  <2> SUFFICES ASSUME NEW v \in Workers, work'[v] # None
               PROVE  /\ work'[v].observation \in 1 .. clock' \ DOMAIN passed'
                      /\ work'[v].found # None => work'[v].found \in Known(row) /\ work'[v].seen \in Rows
    BY <1>1 DEF WorkIsSound, Known, Failures
  <2>1. CASE v = w
    <3>1. work'[v] = t
      BY <1>2, <2>1 DEF IncidentsInvariant, Typed
    <3> QED BY <1>3, <1>6, <3>1
  <2>2. CASE v # w
    <3>1. work'[v] = work[v] /\ work[v] # None
      BY <1>2, <2>2 DEF IncidentsInvariant, Typed
    <3>2. Failures(work[v].observation)
      BY <3>1 DEF IncidentsInvariant, WorkIsSound
    <3>3. work[v].observation \in 1 .. clock' \ DOMAIN passed'
      BY <1>1, <1>2, <3>2 DEF Failures, IncidentsInvariant, Typed
    <3> QED BY <3>1, <3>3 DEF IncidentsInvariant, WorkIsSound
  <2> QED BY <2>1, <2>2
<1>8. FiledIsSound' /\ WordingMatches' /\ ListsAreOld'
  BY <1>1 DEF IncidentsInvariant, FiledIsSound, WordingMatches, ListsAreOld, Known
<1> QED BY <1>5, <1>7, <1>8 DEF IncidentsInvariant

LEMMA InvariantRollBack ==
  ASSUME IncidentsInvariant, NEW w \in Workers, RollBack(w)
  PROVE  IncidentsInvariant'
<1>1. work' = [work EXCEPT ![w] = None] /\ UNCHANGED <<passed, clock, row, list, filed, raced>>
  BY DEF RollBack, observed
<1>2. Typed'
  BY <1>1 DEF IncidentsInvariant, Typed
<1>3. WorkIsSound'
  BY <1>1 DEF IncidentsInvariant, Typed, WorkIsSound, Failures, Known
<1>4. FiledIsSound' /\ WordingMatches' /\ ListsAreOld'
  BY <1>1 DEF IncidentsInvariant, FiledIsSound, Failures, WordingMatches, ListsAreOld, Known
<1> QED BY <1>2, <1>3, <1>4 DEF IncidentsInvariant

LEMMA InvariantLoad ==
  ASSUME IncidentsInvariant, NEW p \in Operators, Load(p)
  PROVE  IncidentsInvariant'
<1>1. list' = [list EXCEPT ![p] = row] /\ UNCHANGED <<passed, clock, row, work, filed, raced>>
  BY DEF Load, observed
<1>2. Typed'
  BY <1>1 DEF IncidentsInvariant, Typed
<1>3. WorkIsSound' /\ FiledIsSound' /\ WordingMatches'
  BY <1>1 DEF IncidentsInvariant, WorkIsSound, FiledIsSound, Failures, WordingMatches, Known
<1>4. ListsAreOld'
  <2>1. \A i \in Known(row) : row[i].version \in Nat
    BY KnownRows, NextVersion DEF IncidentsInvariant
  <2>2. \A o \in Operators : list'[o] = IF o = p THEN row ELSE list[o]
    BY <1>1 DEF IncidentsInvariant, Typed
  <2> QED BY <1>1, <2>1, <2>2 DEF IncidentsInvariant, ListsAreOld, Known
<1> QED BY <1>2, <1>3, <1>4 DEF IncidentsInvariant

LEMMA InvariantFile ==
  ASSUME IncidentsInvariant, NEW w \in Workers, NEW i \in Ids, File(w, i)
  PROVE  IncidentsInvariant'
<1> DEFINE t == work[w]
<1>1. /\ t # None /\ Failures(t.observation)
      /\ row'[i] \in Rows /\ row' \in [Ids -> Rows \cup {None}]
      /\ \A j \in Ids \ {i} : row'[j] = row[j]
      /\ work' = [work EXCEPT ![w] = None]
      /\ filed' = filed \cup {<<t.observation, i>>}
      /\ UNCHANGED <<passed, clock, list>>
  BY FileEffect
<1>2. t.found = None => row[i] = None /\ row'[i].status \in {"open", "candidate"}
                        /\ row'[i].public = "review_required" /\ row'[i].wording = None
  BY FileEffect DEF Is
<1>3. t.found # None => /\ i \in Known(row) /\ row[i] \in Rows /\ row'[i].version = row[i].version + 1
                        /\ row'[i].status # "candidate"
                        /\ row'[i].public = row[i].public /\ row'[i].wording = row[i].wording
  BY FileEffect DEF Is
<1>4. raced' \in BOOLEAN
  BY DEF File, IncidentsInvariant, Typed
<1>5. Typed'
  BY <1>1, <1>4 DEF IncidentsInvariant, Typed
<1>6. /\ Known(row) = {j \in Ids : row[j] # None} /\ Known(row)' = {j \in Ids : row'[j] # None}
      /\ row'[i] # None
  BY <1>1, IncidentsAssumption, KnownRows DEF IncidentsInvariant, IncidentsAssumption, Known
<1>7. Known(row)' = Known(row) \cup {i}
  BY <1>1, <1>6
<1>8. WordingMatches'
  BY <1>1, <1>2, <1>3, <1>6, <1>7 DEF IncidentsInvariant, WordingMatches
<1>9. WorkIsSound'
  BY <1>1, <1>7 DEF IncidentsInvariant, Typed, WorkIsSound, Failures
<1>10. FiledIsSound'
  BY <1>1, <1>7 DEF IncidentsInvariant, FiledIsSound, Failures
<1>11. ListsAreOld'
  <2> SUFFICES ASSUME NEW p \in Operators, NEW j \in Known(list[p])
               PROVE  /\ j \in Known(row)' /\ list[p][j].version <= row'[j].version
                      /\ list[p][j].version = row'[j].version => list[p][j] = row'[j]
    BY <1>1 DEF ListsAreOld, Known
  <2>1. /\ j \in Known(row) /\ list[p][j].version <= row[j].version
        /\ list[p][j].version = row[j].version => list[p][j] = row[j]
    BY DEF IncidentsInvariant, ListsAreOld
  <2>2. CASE j # i
    BY <1>1, <1>6, <1>7, <2>1, <2>2
  <2>3. CASE j = i
    <3>1. t.found # None
      BY <1>2, <1>6, <2>1, <2>3
    <3>2. list[p][j].version \in Nat /\ row[j].version \in Nat
      BY <2>1, KnownRows, NextVersion DEF IncidentsInvariant
    <3> QED BY <1>3, <1>7, <2>1, <2>3, <3>1, <3>2
  <2> QED BY <2>2, <2>3
<1> QED BY <1>5, <1>8, <1>9, <1>10, <1>11 DEF IncidentsInvariant

LEMMA InvariantTransition ==
  ASSUME IncidentsInvariant, NEW p \in Operators, NEW q, Sent(p, q), Transition(p, q)
  PROVE  IncidentsInvariant'
<1> DEFINE i == q.id
           r == row[i]
           s == Updated(r, q)
<1>1. /\ i \in Known(row) /\ i \in Ids /\ r \in Rows
  BY ListedIsRow
<1>2. /\ UNCHANGED <<passed, clock, work, list, filed, raced>>
      /\ row' = [row EXCEPT ![i] = s] /\ row'[i] = s
      /\ \A j \in Ids \ {i} : row'[j] = row[j]
      /\ Allowed(r, q)
  BY TransitionEffect
<1>3. s \in Rows /\ s.version = r.version + 1
  BY UpdatedRow
<1>4. Typed'
  BY <1>2, <1>3 DEF IncidentsInvariant, Typed
<1>5. Known(row)' = Known(row)
  BY <1>1, <1>2, <1>3, IncidentsAssumption DEF IncidentsInvariant, Typed, IncidentsAssumption, Known
<1>6. /\ s.wording = None <=> s.public = "review_required"
      /\ s.status = "candidate" => s.wording = None
  <2>1. /\ r.wording = None <=> r.public = "review_required"
        /\ r.status = "candidate" => r.wording = None
    BY <1>1 DEF IncidentsInvariant, WordingMatches
  <2>2. CASE q.action \in {"acknowledge", "suppress", "resolve"}
    BY <2>1, <2>2, UpdatedRow
  <2>3. CASE q.action \in {"publish", "correct"}
    <3>1. q.wording # None
      BY <2>3, IncidentsAssumption DEF Sent, IncidentsAssumption
    <3>2. r.status # "candidate"
      BY <1>2, <2>1, <2>3 DEF Allowed, MayPublish, MayCorrect
    <3> QED BY <2>3, <3>1, <3>2, UpdatedRow
  <2> QED BY <2>2, <2>3 DEF Sent
<1>7. WordingMatches'
  BY <1>2, <1>5, <1>6, KnownRows DEF IncidentsInvariant, WordingMatches
<1>8. WorkIsSound' /\ FiledIsSound'
  BY <1>2, <1>5 DEF IncidentsInvariant, WorkIsSound, FiledIsSound, Failures
<1>9. ListsAreOld'
  <2> SUFFICES ASSUME NEW o \in Operators, NEW j \in Known(list[o])
               PROVE  /\ j \in Known(row)' /\ list[o][j].version <= row'[j].version
                      /\ list[o][j].version = row'[j].version => list[o][j] = row'[j]
    BY <1>2 DEF ListsAreOld, Known
  <2>1. /\ j \in Known(row) /\ list[o][j].version <= row[j].version
        /\ list[o][j].version = row[j].version => list[o][j] = row[j]
    BY DEF IncidentsInvariant, ListsAreOld
  <2>2. list[o][j].version \in Nat /\ row[j].version \in Nat /\ j \in Ids
    BY <2>1, KnownRows, NextVersion DEF IncidentsInvariant
  <2>3. CASE j # i
    BY <1>2, <1>5, <2>1, <2>2, <2>3
  <2>4. CASE j = i
    BY <1>2, <1>3, <1>5, <2>1, <2>2, <2>4
  <2> QED BY <2>3, <2>4
<1> QED BY <1>4, <1>7, <1>8, <1>9 DEF IncidentsInvariant

LEMMA InvariantStep == IncidentsInvariant /\ [Next]_vars => IncidentsInvariant'
<1> SUFFICES ASSUME IncidentsInvariant, [Next]_vars PROVE IncidentsInvariant'
  OBVIOUS
<1>1. CASE UNCHANGED vars
  BY <1>1 DEF vars, observed, IncidentsInvariant, Typed, WordingMatches, WorkIsSound, FiledIsSound,
     ListsAreOld, Failures, Known
<1>2. ASSUME NEW w \in Workers, WorkerNext(w) PROVE IncidentsInvariant'
  BY <1>2, InvariantPass, InvariantFail, InvariantFile, InvariantRollBack DEF WorkerNext
<1>3. ASSUME NEW p \in Operators, OperatorNext(p) PROVE IncidentsInvariant'
  BY <1>3, OperatorsSend, InvariantLoad, InvariantTransition
<1> QED BY <1>1, <1>2, <1>3 DEF Next

\* The invariant of the incidents: types, lists that hold older copies of the
\* rows, work and filings that name incidents that are there.
THEOREM IncidentsCorrect == Spec => []IncidentsInvariant
BY InvariantInit, InvariantStep, PTL DEF Spec

\* Rows keep their types, no candidate is public, and whatever was filed is
\* the observation of a failed check (execution.py, postgres-repository.ts).
THEOREM IncidentsTypeCorrect == Spec => []IncidentsTypeOK
<1>1. IncidentsInvariant => IncidentsTypeOK
  BY KnownRows DEF IncidentsInvariant, IncidentsTypeOK, WordingMatches, WorkIsSound, FiledIsSound, Failures
<1> QED BY <1>1, IncidentsCorrect, PTL

-----------------------------------------------------------------------------
(* Administrators *)

LEMMA OnlyTransitionsAudit ==
  ASSUME IncidentsInvariant, Next
  PROVE  \/ audit' = audit /\ shown' = shown /\ replaced' = replaced
         \/ \E p \in Operators : \E q : Sent(p, q) /\ Transition(p, q)
<1>1. ASSUME NEW w \in Workers, WorkerNext(w) PROVE UNCHANGED <<audit, shown, replaced>>
  BY <1>1 DEF WorkerNext, Pass, Fail, File, RollBack
<1>2. ASSUME NEW p \in Operators, Load(p) PROVE UNCHANGED <<audit, shown, replaced>>
  BY <1>2 DEF Load
<1> QED BY <1>1, <1>2, OperatorsSend DEF Next

\* An administrator's change meets the incident its author has seen: a request
\* whose version matches was made from the row itself, whatever workers and other
\* administrators did since the list was fetched.
THEOREM ChangesApplyAsSeen == Spec => ActedOnAsSeen
<1>1. ASSUME IncidentsInvariant, Next, NEW e \in audit' \ audit
      PROVE  row[e.id] = list[e.actor][e.id]
  <2>0. PICK p \in Operators : \E q : Sent(p, q) /\ Transition(p, q)
    BY <1>1, OnlyTransitionsAudit
  <2>1. PICK q : Sent(p, q) /\ Transition(p, q)
    BY <2>0
  <2>2. e = Entry(row[q.id], p, q)
    BY <1>1, <2>1, TransitionEffect
  <2>3. e.id = q.id /\ e.actor = p
    BY <2>2 DEF Entry
  <2> QED BY <1>1, <2>1, <2>3, ListedIsRow
<1>2. IncidentsInvariant /\ [Next]_vars
      => [\A e \in audit' \ audit : row[e.id] = list[e.actor][e.id]]_vars
  BY <1>1
<1> QED BY <1>2, IncidentsCorrect, PTL DEF Spec, ActedOnAsSeen

\* What was public was an incident's wording, and what is published is in its audit entries;
\* only the wording of a correction may be nowhere else.
PublishedIsKept ==
  \A i \in Known(row) : row[i].public = "published" =>
    \E a \in audit : a.id = i /\ a.kept = row[i].wording

WordingInvariant ==
  /\ PublicWordingRetained
  /\ PublishedIsKept
  /\ \A s \in shown : s \in Known(row) \X Wordings

LEMMA WordingTransition ==
  ASSUME IncidentsInvariant, WordingInvariant, NEW p \in Operators, NEW q, Sent(p, q), Transition(p, q)
  PROVE  WordingInvariant'
<1> DEFINE i == q.id
           e == Entry(row[i], p, q)
<1>1. i \in Known(row) /\ i \in Ids /\ row[i] \in Rows /\ row[i] = list[p][i]
  BY ListedIsRow
<1>2. /\ row'[i] = Updated(row[i], q) /\ \A j \in Ids \ {i} : row'[j] = row[j]
      /\ audit' = audit \cup {e} /\ list' = list
  BY TransitionEffect
<1>3. /\ row'[i].wording = IF q.action \in {"publish", "correct"} THEN q.wording ELSE row[i].wording
      /\ row'[i].public = CASE q.action = "publish" -> "published"
                            [] q.action = "correct" -> "corrected"
                            [] OTHER -> row[i].public
  BY <1>2, UpdatedRow
<1>4. Known(row)' = Known(row) /\ Known(row) \subseteq Ids
  <2>1. IncidentsInvariant'
    BY InvariantTransition
  <2>2. Updated(row[i], q) \in Rows
    BY UpdatedRow
  <2>3. row'[i] # None
    BY <1>2, <2>2, IncidentsAssumption DEF IncidentsAssumption
  <2>4. Known(row) = {j \in Ids : row[j] # None} /\ Known(row)' = {j \in Ids : row'[j] # None}
    BY <2>1 DEF IncidentsInvariant, Typed, Known
  <2> QED BY <1>1, <1>2, <2>3, <2>4
<1>5. shown' = IF q.wording = None THEN shown ELSE shown \cup {<<i, q.wording>>}
  BY DEF Transition
<1>6. /\ e.id = i /\ (q.action = "correct" => e.kept = row[i].wording)
      /\ q.action = "publish" => e.kept = q.wording
  BY DEF Entry, Kept
<1> HIDE DEF e
<1>7. q.action = "publish" =>
        \/ row[i].wording = None
        \/ row[i].public = "published" /\ \E a \in audit : a.id = i /\ a.kept = row[i].wording
        \/ <<i, row[i].wording>> \in replaced'
  <2>1. row[i].public \in {"review_required", "published", "corrected"}
    BY <1>1 DEF Rows
  <2>2. row[i].public = "review_required" => row[i].wording = None
    BY <1>1 DEF IncidentsInvariant, WordingMatches
  <2>3. row[i].public = "published" => \E a \in audit : a.id = i /\ a.kept = row[i].wording
    BY <1>1 DEF WordingInvariant, PublishedIsKept
  <2>4. q.action = "publish" /\ row[i].public = "corrected" => <<i, row[i].wording>> \in replaced'
    BY <1>1 DEF Sent
  <2> QED BY <2>1, <2>2, <2>3, <2>4
<1>8. ASSUME NEW s \in shown
      PROVE  \/ row'[s[1]].wording = s[2] \/ s \in replaced'
             \/ \E a \in audit' : a.id = s[1] /\ a.kept = s[2]
  <2>1. /\ \/ row[s[1]].wording = s[2] \/ s \in replaced
           \/ \E a \in audit : a.id = s[1] /\ a.kept = s[2]
        /\ s[1] \in Ids /\ s[2] \in Wordings /\ s[2] # None
    BY <1>4, IncidentsAssumption DEF WordingInvariant, PublicWordingRetained, IncidentsAssumption
  <2>2. CASE (\E a \in audit : a.id = s[1] /\ a.kept = s[2]) \/ s \in replaced
    BY <1>2, <2>2 DEF Sent
  <2>3. CASE row[s[1]].wording = s[2] /\ s[1] # i
    BY <1>2, <2>1, <2>3
  <2>4. CASE row[s[1]].wording = s[2] /\ s[1] = i
    <3>1. CASE q.action \notin {"publish", "correct"}
      BY <1>3, <2>4, <3>1
    <3>2. CASE q.action = "correct"
      BY <1>2, <1>6, <2>4, <3>2
    <3>3. CASE q.action = "publish"
      <4>1. s = <<i, row[i].wording>>
        BY <2>4 DEF WordingInvariant
      <4> QED BY <1>2, <1>7, <2>1, <2>4, <3>3, <4>1
    <3> QED BY <3>1, <3>2, <3>3
  <2> QED BY <2>1, <2>2, <2>3, <2>4
<1>9. ASSUME q.wording # None
      PROVE  row'[i].wording = q.wording /\ q.wording \in Wordings
  BY <1>3, <1>9 DEF Sent
<1>10. PublicWordingRetained'
  BY <1>5, <1>8, <1>9 DEF PublicWordingRetained
<1>11. PublishedIsKept'
  <2> SUFFICES ASSUME NEW j \in Known(row), row'[j].public = "published"
               PROVE  \E a \in audit' : a.id = j /\ a.kept = row'[j].wording
    BY <1>4 DEF PublishedIsKept
  <2>1. CASE j = i /\ q.action = "publish"
    BY <1>2, <1>3, <1>6, <2>1
  <2>2. CASE j # i \/ q.action # "publish"
    <3>1. row[j].public = "published" /\ row'[j].wording = row[j].wording
      BY <1>2, <1>3, <1>4, <2>2
    <3> QED BY <1>2, <3>1 DEF WordingInvariant, PublishedIsKept
  <2> QED BY <2>1, <2>2
<1>12. (\A s \in shown : s \in Known(row) \X Wordings)'
  BY <1>1, <1>4, <1>5, <1>9 DEF WordingInvariant
<1> QED BY <1>10, <1>11, <1>12 DEF WordingInvariant

LEMMA WordingFile ==
  ASSUME IncidentsInvariant, WordingInvariant, NEW w \in Workers, NEW i \in Ids, File(w, i)
  PROVE  WordingInvariant'
<1>1. /\ \A j \in Ids \ {i} : row'[j] = row[j]
      /\ row'[i] \in Rows /\ row' \in [Ids -> Rows \cup {None}] /\ UNCHANGED <<audit, shown, replaced>>
  BY FileEffect
<1>2. IF i \in Known(row) THEN row'[i].wording = row[i].wording /\ row'[i].public = row[i].public
      ELSE row'[i].public = "review_required"
  <2>1. CASE work[w].found = None
    BY <2>1, FileEffect DEF Known, Is
  <2>2. CASE work[w].found # None
    BY <2>2, FileEffect DEF Is
  <2> QED BY <2>1, <2>2
<1>3. Known(row) = {j \in Ids : row[j] # None} /\ Known(row)' = {j \in Ids : row'[j] # None}
  BY <1>1, KnownRows DEF IncidentsInvariant, Known
<1>4. Known(row) \subseteq Known(row)' /\ Known(row)' \subseteq Known(row) \cup {i}
  BY <1>1, <1>3, IncidentsAssumption DEF IncidentsAssumption
<1>5. \A j \in Known(row) : row'[j].wording = row[j].wording /\ row'[j].public = row[j].public
  BY <1>1, <1>2, <1>3
<1>6. \A s \in shown : s \in Known(row) \X Wordings /\ s[1] \in Known(row)
  BY DEF WordingInvariant
<1>7. PublicWordingRetained'
  BY <1>1, <1>5, <1>6 DEF WordingInvariant, PublicWordingRetained
<1>8. PublishedIsKept'
  BY <1>1, <1>2, <1>4, <1>5 DEF WordingInvariant, PublishedIsKept
<1>9. (\A s \in shown : s \in Known(row) \X Wordings)'
  BY <1>1, <1>4, <1>6
<1> QED BY <1>7, <1>8, <1>9 DEF WordingInvariant

LEMMA WordingStep ==
  ASSUME IncidentsInvariant, WordingInvariant, [Next]_vars
  PROVE  WordingInvariant'
<1>1. ASSUME UNCHANGED <<row, audit, shown, replaced>> PROVE WordingInvariant'
  BY <1>1 DEF WordingInvariant, PublicWordingRetained, PublishedIsKept, Known
<1>2. CASE UNCHANGED vars
  BY <1>1, <1>2 DEF vars
<1>3. ASSUME NEW w \in Workers, WorkerNext(w) PROVE WordingInvariant'
  <2>1. CASE \E i \in Ids : File(w, i)
    BY <2>1, WordingFile
  <2>2. CASE ~ \E i \in Ids : File(w, i)
    BY <1>1, <1>3, <2>2 DEF WorkerNext, Pass, Fail, RollBack
  <2> QED BY <2>1, <2>2
<1>4. ASSUME NEW p \in Operators, Load(p) PROVE WordingInvariant'
  BY <1>1, <1>4 DEF Load
<1> QED BY <1>2, <1>3, <1>4, WordingTransition, OperatorsSend DEF Next

\* The console loses no public wording, whatever lists, workers and callers it meets: each is
\* the incident's own or kept by one of its audit entries, or was a correction over which a
\* caller of the API, and never the page, published anew (postgres-repository.ts, IncidentsPage.tsx).
THEOREM PublicWordingIsRetained == Spec => []PublicWordingRetained
<1>1. Init => WordingInvariant
  BY DEF Init, WordingInvariant, PublicWordingRetained, PublishedIsKept, Known
<1>2. IncidentsInvariant /\ WordingInvariant /\ [Next]_vars => WordingInvariant'
  BY WordingStep
<1>3. WordingInvariant => PublicWordingRetained
  BY DEF WordingInvariant
<1> QED BY <1>1, <1>2, <1>3, IncidentsCorrect, PTL DEF Spec

-----------------------------------------------------------------------------
(* Without overlapping writers: one active incident, and its evidence *)

ActiveAgree == \A i, j \in Active(row, Live) : i = j

\* Incidents and what workers have read of them name observations already made.
ObservationsMade ==
  /\ \A i \in Known(row) : row[i].observations \subseteq 1 .. clock
  /\ \A w \in Workers : work[w] # None /\ work[w].found # None => work[w].seen.observations \subseteq 1 .. clock

\* Until it is resolved an incident names failures only.
EvidenceSound ==
  /\ \A f \in filed : f[1] \in row[f[2]].observations
  /\ \A i \in Known(row) :
       IF row[i].status = "resolved" THEN Healthy(row[i], row[i].observations \cap DOMAIN passed)
       ELSE row[i].observations \cap DOMAIN passed = {}

Unraced == ActiveAgree /\ EvidenceSound
EvidenceInvariant == ObservationsMade /\ (raced \/ Unraced)

\* What a worker files in when it did not overlap: a new incident if none is active, or the
\* active one, as it was read.
LEMMA FileUnraced ==
  ASSUME IncidentsInvariant, NEW w \in Workers, NEW i \in Ids, File(w, i), ~ raced'
  PROVE  /\ ~ raced
         /\ work[w].found = None => Active(row, Live) = {}
         /\ work[w].found # None => i \in Active(row, Live) /\ row[i] = work[w].seen
<1>1. /\ ~ raced /\ Lookup(row) = work[w].found
      /\ work[w].found # None => row[i] = work[w].seen /\ i = work[w].found
  BY DEF File, IncidentsInvariant, Typed
<1>2. Active(row, Live) \subseteq Ids
  BY KnownRows DEF IncidentsInvariant, Active
<1>3. IF Active(row, Live) = {} THEN Lookup(row) = None ELSE Lookup(row) \in Active(row, Live)
  BY LookupFinds DEF IncidentsInvariant
<1> QED BY <1>1, <1>2, <1>3, IncidentsAssumption DEF IncidentsAssumption

LEMMA KnownAfterFile ==
  ASSUME IncidentsInvariant, NEW w \in Workers, NEW i \in Ids, File(w, i)
  PROVE  Known(row)' = Known(row) \cup {i} /\ Known(row) \subseteq Ids
<1>1. row'[i] # None /\ row' \in [Ids -> Rows \cup {None}] /\ \A j \in Ids \ {i} : row'[j] = row[j]
  BY FileEffect, IncidentsAssumption DEF IncidentsAssumption
<1>2. Known(row) = {j \in Ids : row[j] # None} /\ Known(row)' = {j \in Ids : row'[j] # None}
  BY <1>1, KnownRows DEF IncidentsInvariant, Known
<1> QED BY <1>1, <1>2

LEMMA UnracedFile ==
  ASSUME IncidentsInvariant, EvidenceInvariant, NEW w \in Workers, NEW i \in Ids, File(w, i), ~ raced'
  PROVE  Unraced'
<1> DEFINE t == work[w]
<1>1. /\ Unraced
      /\ t.found = None => Active(row, Live) = {}
      /\ t.found # None => i \in Active(row, Live) /\ row[i] = t.seen
  BY FileUnraced DEF EvidenceInvariant
<1>2. /\ \A j \in Ids \ {i} : row'[j] = row[j]
      /\ Known(row)' = Known(row) \cup {i} /\ Known(row) \subseteq Ids
      /\ filed' = filed \cup {<<t.observation, i>>} /\ passed' = passed
      /\ t.observation \notin DOMAIN passed
      /\ t.found = None => row[i] = None
  BY FileEffect, KnownAfterFile DEF Failures
<1>3. /\ row'[i].status \in Live /\ row'[i].status # "resolved"
      /\ t.found = None => row'[i].observations = {t.observation}
      /\ t.found # None => row'[i].observations = row[i].observations \cup {t.observation}
  <2>1. CASE t.found = None
    BY <2>1, FileEffect DEF Is, Live
  <2>2. CASE t.found # None
    <3>1. /\ row'[i].status = IF row[i].status = "candidate" THEN "open" ELSE row[i].status
          /\ row'[i].observations = row[i].observations \cup {t.observation}
      BY <1>1, <2>2, FileEffect DEF Is
    <3>2. row[i].status \in Live
      BY <1>1, <2>2 DEF Active
    <3> QED BY <2>2, <3>1, <3>2 DEF Live
  <2> QED BY <2>1, <2>2
<1>4. Active(row, Live)' = {j \in Known(row)' : row'[j].status \in Live}
  BY DEF Active
<1>5. Active(row, Live)' \subseteq Active(row, Live) \cup {i}
  BY <1>2, <1>4 DEF Active
<1>6. ActiveAgree'
  BY <1>1, <1>5 DEF Unraced, ActiveAgree
<1>7. (\A f \in filed : f[1] \in row[f[2]].observations)'
  <2> SUFFICES ASSUME NEW f \in filed' PROVE f[1] \in row'[f[2]].observations
    OBVIOUS
  <2>1. CASE f = <<t.observation, i>>
    BY <1>3, <2>1
  <2>2. CASE f \in filed
    <3>1. f[1] \in row[f[2]].observations /\ f[2] \in Known(row)
      BY <1>1, <2>2 DEF Unraced, EvidenceSound, IncidentsInvariant, FiledIsSound
    <3>2. f[2] = i => t.found # None
      BY <1>2, <3>1 DEF Known
    <3> QED BY <1>2, <1>3, <3>1, <3>2
  <2> QED BY <1>2, <2>1, <2>2
<1>8. ASSUME NEW j \in Known(row)'
      PROVE  IF row'[j].status = "resolved" THEN Healthy(row'[j], row'[j].observations \cap DOMAIN passed)
             ELSE row'[j].observations \cap DOMAIN passed = {}
  <2>1. CASE j # i
    BY <1>1, <1>2, <2>1 DEF Unraced, EvidenceSound
  <2>2. CASE j = i
    <3>1. t.found # None => row[i].observations \cap DOMAIN passed = {}
      BY <1>1 DEF Unraced, EvidenceSound, Active, Live
    <3> QED BY <1>2, <1>3, <2>2, <3>1
  <2> QED BY <2>1, <2>2
<1>9. EvidenceSound'
  BY <1>2, <1>7, <1>8 DEF EvidenceSound, Healthy
<1> QED BY <1>6, <1>9 DEF Unraced

LEMMA EvidenceFile ==
  ASSUME IncidentsInvariant, EvidenceInvariant, NEW w \in Workers, NEW i \in Ids, File(w, i)
  PROVE  EvidenceInvariant'
<1> DEFINE t == work[w]
<1>1. /\ \A j \in Ids \ {i} : row'[j] = row[j]
      /\ Known(row)' = Known(row) \cup {i} /\ Known(row) \subseteq Ids
      /\ t # None /\ t.observation \in 1 .. clock /\ clock' = clock
      /\ work' = [work EXCEPT ![w] = None]
  BY FileEffect, KnownAfterFile DEF Failures
<1>2. row'[i].observations \subseteq 1 .. clock
  <2>1. CASE t.found = None
    BY <1>1, <2>1, FileEffect DEF Is
  <2>2. CASE t.found # None
    BY <1>1, <2>2, FileEffect DEF Is, EvidenceInvariant, ObservationsMade
  <2> QED BY <2>1, <2>2
<1>3. ObservationsMade'
  BY <1>1, <1>2 DEF EvidenceInvariant, ObservationsMade, IncidentsInvariant, Typed
<1> QED BY <1>3, UnracedFile DEF EvidenceInvariant

LEMMA EvidenceTransition ==
  ASSUME IncidentsInvariant, EvidenceInvariant, NEW p \in Operators, NEW q, Sent(p, q), Transition(p, q)
  PROVE  EvidenceInvariant'
<1> DEFINE i == q.id
           r == row[i]
           s == row'[i]
<1>1. i \in Known(row) /\ i \in Ids
  BY ListedIsRow
<1>2. /\ UNCHANGED <<passed, clock, work, filed, raced>>
      /\ s = Updated(r, q) /\ \A j \in Ids \ {i} : row'[j] = row[j]
      /\ Allowed(r, q)
  BY TransitionEffect
<1>3. /\ s \in Rows /\ s.monitors = r.monitors
      /\ s.status = CASE q.action = "acknowledge" -> "acknowledged"
                      [] q.action = "suppress"    -> "suppressed"
                      [] q.action = "resolve"     -> "resolved"
                      [] OTHER -> r.status
      /\ s.observations = IF q.action = "resolve" THEN r.observations \cup q.evidence ELSE r.observations
  BY <1>2, UpdatedRow
<1>4. Known(row)' = Known(row) /\ Known(row) \subseteq Ids
  <2>1. IncidentsInvariant'
    BY InvariantTransition
  <2>2. s # None
    BY <1>3, IncidentsAssumption DEF IncidentsAssumption
  <2>3. Known(row) = {j \in Ids : row[j] # None} /\ Known(row)' = {j \in Ids : row'[j] # None}
    BY <2>1 DEF IncidentsInvariant, Typed, Known
  <2> QED BY <1>1, <1>2, <2>2, <2>3
<1>5. q.evidence \subseteq DOMAIN passed /\ DOMAIN passed \subseteq 1 .. clock
  BY DEF Sent, IncidentsInvariant, Typed
<1>6. ObservationsMade'
  <2>1. s.observations \subseteq 1 .. clock
    BY <1>1, <1>3, <1>5 DEF EvidenceInvariant, ObservationsMade
  <2> QED BY <1>2, <1>4, <2>1 DEF EvidenceInvariant, ObservationsMade
<1>7. ASSUME Unraced PROVE Unraced'
  <2>1. s.status \in Live => r.status \in Live
    BY <1>2, <1>3 DEF Allowed, MayAcknowledge, Live, Sent
  <2>2. Active(row, Live)' \subseteq Active(row, Live)
    BY <1>1, <1>2, <1>4, <2>1 DEF Active
  <2>3. ActiveAgree'
    BY <1>7, <2>2 DEF Unraced, ActiveAgree
  <2>4. (\A f \in filed : f[1] \in row[f[2]].observations)'
    <3>1. r.observations \subseteq s.observations
      BY <1>3
    <3>2. \A f \in filed : f[1] \in row[f[2]].observations /\ f[2] \in Ids
      BY <1>4, <1>7 DEF Unraced, EvidenceSound, IncidentsInvariant, FiledIsSound
    <3> QED BY <1>2, <3>1, <3>2
  <2>5. IF s.status = "resolved" THEN Healthy(s, s.observations \cap DOMAIN passed)
        ELSE s.observations \cap DOMAIN passed = {}
    <3>1. IF r.status = "resolved" THEN Healthy(r, r.observations \cap DOMAIN passed)
          ELSE r.observations \cap DOMAIN passed = {}
      BY <1>1, <1>7 DEF Unraced, EvidenceSound
    <3>2. CASE q.action = "resolve"
      <4>1. r.status # "resolved" /\ Healthy(r, q.evidence)
        BY <1>2, <3>2 DEF Allowed, MayResolve
      <4>2. s.observations \cap DOMAIN passed = q.evidence /\ s.status = "resolved"
        BY <1>3, <1>5, <3>1, <3>2, <4>1
      <4>3. Healthy(s, q.evidence)
        BY <1>3, <4>1 DEF Healthy
      <4> QED BY <4>2, <4>3
    <3>3. CASE q.action \in {"acknowledge", "suppress"}
      <4>1. r.status # "resolved" /\ s.status # "resolved"
        BY <1>2, <1>3, <3>3 DEF Allowed, MayAcknowledge, MaySuppress
      <4> QED BY <1>3, <3>1, <3>3, <4>1
    <3>4. CASE q.action \in {"publish", "correct"}
      BY <1>3, <3>1, <3>4 DEF Healthy
    <3> QED BY <3>2, <3>3, <3>4 DEF Sent
  <2>6. EvidenceSound'
    <3>1. \A j \in Known(row) \ {i} : row'[j] = row[j]
      BY <1>2, <1>4
    <3>2. \A j \in Known(row) :
            IF row[j].status = "resolved" THEN Healthy(row[j], row[j].observations \cap DOMAIN passed)
            ELSE row[j].observations \cap DOMAIN passed = {}
      BY <1>7 DEF Unraced, EvidenceSound
    <3> QED BY <1>2, <1>4, <2>4, <2>5, <3>1, <3>2 DEF EvidenceSound, Healthy
  <2> QED BY <2>3, <2>6 DEF Unraced
<1> QED BY <1>2, <1>6, <1>7 DEF EvidenceInvariant

LEMMA EvidenceObserved ==
  ASSUME IncidentsInvariant, EvidenceInvariant, NEW w \in Workers,
         \/ \E m \in Monitors : Pass(w, m)
         \/ \E m \in Monitors, critical \in BOOLEAN : Fail(w, m, critical)
  PROVE  EvidenceInvariant'
<1>1. /\ clock \in Nat /\ clock' = clock + 1
      /\ DOMAIN passed \subseteq DOMAIN passed' /\ DOMAIN passed' \subseteq DOMAIN passed \cup {clock'}
      /\ \A o \in DOMAIN passed : passed'[o] = passed[o]
      /\ UNCHANGED <<row, filed, raced>>
  BY ObservationMade, IncidentsAssumption DEF IncidentsAssumption, IncidentsInvariant, Typed
<1>2. \A i \in Known(row) : row[i].observations \subseteq 1 .. clock
  BY DEF EvidenceInvariant, ObservationsMade
<1>3. \A v \in Workers : work'[v] # None /\ work'[v].found # None
        => work'[v].seen.observations \subseteq 1 .. clock
  <2>1. CASE work' = work
    BY <2>1 DEF EvidenceInvariant, ObservationsMade
  <2>2. ASSUME NEW m \in Monitors, NEW critical \in BOOLEAN, Fail(w, m, critical),
               NEW v \in Workers, work'[v] # None, work'[v].found # None
        PROVE  work'[v].seen.observations \subseteq 1 .. clock
    <3> DEFINE t == [observation |-> clock', monitor |-> m, critical |-> critical, found |-> Lookup(row),
                     seen |-> IF Lookup(row) = None THEN None ELSE row[Lookup(row)]]
    <3>1. work' = [work EXCEPT ![w] = t]
      BY <2>2 DEF Fail
    <3>2. CASE v # w
      <4>1. work'[v] = work[v]
        BY <3>1, <3>2 DEF IncidentsInvariant, Typed
      <4> QED BY <2>2, <4>1 DEF EvidenceInvariant, ObservationsMade
    <3>3. CASE v = w
      <4>1. work'[v] = t
        BY <3>1, <3>3 DEF IncidentsInvariant, Typed
      <4>2. Lookup(row) # None /\ t.seen = row[Lookup(row)]
        BY <2>2, <4>1
      <4>3. Lookup(row) \in Known(row)
        BY <4>2, LookupFinds DEF IncidentsInvariant, Active
      <4> QED BY <1>2, <4>1, <4>2, <4>3
    <3> QED BY <3>2, <3>3
  <2> QED BY <2>1, <2>2 DEF Pass
<1>4. 1 .. clock \subseteq 1 .. clock' /\ clock' \notin 1 .. clock
  BY <1>1
<1>5. ObservationsMade'
  BY <1>1, <1>2, <1>3, <1>4 DEF ObservationsMade, Known
<1>6. \A i \in Known(row) : row[i].observations \cap DOMAIN passed' = row[i].observations \cap DOMAIN passed
  BY <1>1, <1>2, <1>4
<1>7. ASSUME Unraced PROVE Unraced'
  <2>1. ActiveAgree'
    BY <1>1, <1>7 DEF Unraced, ActiveAgree, Active, Known
  <2>2. \A i \in Known(row) :
          IF row[i].status = "resolved" THEN Healthy(row[i], row[i].observations \cap DOMAIN passed)
          ELSE row[i].observations \cap DOMAIN passed = {}
    BY <1>7 DEF Unraced, EvidenceSound
  <2>3. (\A i \in Known(row) :
          IF row[i].status = "resolved" THEN Healthy(row[i], row[i].observations \cap DOMAIN passed)
          ELSE row[i].observations \cap DOMAIN passed = {})'
    BY <1>1, <1>6, <2>2 DEF Known, Healthy
  <2> QED BY <1>1, <1>7, <2>1, <2>3 DEF Unraced, EvidenceSound
<1> QED BY <1>1, <1>5, <1>7 DEF EvidenceInvariant

LEMMA EvidenceStep ==
  ASSUME IncidentsInvariant, EvidenceInvariant, [Next]_vars
  PROVE  EvidenceInvariant'
<1>1. ASSUME UNCHANGED <<passed, clock, row, filed, raced>>,
             \A v \in Workers : work'[v] = work[v] \/ work'[v] = None
      PROVE  EvidenceInvariant'
  BY <1>1 DEF EvidenceInvariant, ObservationsMade, Unraced, ActiveAgree, EvidenceSound, Healthy, Active, Known
<1>2. CASE UNCHANGED vars
  BY <1>1, <1>2 DEF vars, observed
<1>3. ASSUME NEW w \in Workers, RollBack(w) PROVE EvidenceInvariant'
  BY <1>1, <1>3 DEF RollBack, observed, IncidentsInvariant, Typed
<1>4. ASSUME NEW w \in Workers, WorkerNext(w) PROVE EvidenceInvariant'
  BY <1>3, <1>4, EvidenceObserved, EvidenceFile DEF WorkerNext
<1>5. ASSUME NEW p \in Operators, Load(p) PROVE EvidenceInvariant'
  BY <1>1, <1>5 DEF Load, observed
<1> QED BY <1>2, <1>4, <1>5, EvidenceTransition, OperatorsSend DEF Next

\* A resolved incident names what it was resolved on, and one that is not names
\* failures only, for as long as no two writers of an incident overlapped.
THEOREM EvidenceCorrect == Spec => []EvidenceInvariant
<1>1. Init => EvidenceInvariant
  BY DEF Init, EvidenceInvariant, ObservationsMade, Unraced, ActiveAgree, EvidenceSound, Active, Known
<1>2. IncidentsInvariant /\ EvidenceInvariant /\ [Next]_vars => EvidenceInvariant'
  BY EvidenceStep
<1> QED BY <1>1, <1>2, IncidentsCorrect, PTL DEF Spec

\* The failures of a source are gathered in one incident until it is settled
\* (execution.py's lookup before it inserts), except where two writers overlapped.
THEOREM FailuresAreGathered == Spec => []OneActiveIncident
<1>1. ASSUME EvidenceInvariant PROVE OneActiveIncident
  <2>1. CASE raced
    BY <2>1 DEF OneActiveIncident
  <2>2. CASE ActiveAgree
    <3> DEFINE S == Active(row, Live)
    <3>1. S = {} \/ \E x : S = {x}
      BY <2>2 DEF ActiveAgree
    <3> HIDE DEF S
    <3>2. CASE S = {}
      <4>1. Cardinality(S) = 0
        BY <3>2, FS_EmptySet
      <4> QED BY <4>1 DEF OneActiveIncident, S
    <3>3. ASSUME NEW x, S = {x} PROVE OneActiveIncident
      <4>1. Cardinality(S) = 1
        BY <3>3, FS_Singleton
      <4> QED BY <4>1 DEF OneActiveIncident, S
    <3> QED BY <3>1, <3>2, <3>3
  <2> QED BY <1>1, <2>1, <2>2 DEF EvidenceInvariant, Unraced
<1> QED BY <1>1, EvidenceCorrect, PTL

\* A filed failure stays among its incident's observations and a resolved incident
\* keeps its two passing observations, with the same exception.
THEOREM FiledEvidenceIsKept == Spec => []EvidenceIsKept
<1>1. ASSUME EvidenceInvariant PROVE EvidenceIsKept
  BY <1>1 DEF EvidenceInvariant, Unraced, EvidenceSound, EvidenceIsKept, Active
<1> QED BY <1>1, EvidenceCorrect, PTL
=============================================================================
