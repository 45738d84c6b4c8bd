------------------------ MODULE WorkerSessionProofs ------------------------
(***************************************************************************)
(* Sessions of both kinds together, for any workers and jobs.  Row locks   *)
(* make the open transactions' versions exclusive and never older than the *)
(* committed rows (RowLocks), and what a worker main runs has claimed or   *)
(* logged is in its own transaction (MainsRows).                           *)
(***************************************************************************)
EXTENDS WorkerSession, TLAPS

SessionInvariant == SessionTypeOK /\ RowLocks /\ \A w \in Warmed : MainsRows(w)

\* Writes of one block by w: to rows nobody else has locked, counting no attempt back.
Lawful(w, writes) ==
  /\ writes \in [Jobs -> Row \cup {None}]
  /\ \A j \in Jobs : writes[j] # None =>
       /\ \A v \in Workers \ {w} : written[v][j] = None
       /\ View(w, j).attempt <= writes[j].attempt

LEMMA ViewType ==
  ASSUME SessionTypeOK, NEW w \in Workers, NEW j \in Jobs
  PROVE  View(w, j) \in Row
BY DEF SessionTypeOK, View

LEMMA UntouchedType == Untouched \in [Jobs -> Row \cup {None}]
BY DEF Untouched

LEMMA MergedType ==
  ASSUME NEW old \in [Jobs -> Row \cup {None}], NEW new \in [Jobs -> Row \cup {None}]
  PROVE  Merged(new, old) \in [Jobs -> Row \cup {None}]
BY DEF Merged

LEMMA MergedCommitted ==
  ASSUME NEW old \in [Jobs -> Row], NEW new \in [Jobs -> Row \cup {None}]
  PROVE  Merged(new, old) \in [Jobs -> Row]
BY DEF Merged

\* What the end of a lawful block does to both versions of the rows.
BlockDone ==
  /\ committed' \in [Jobs -> Row]
  /\ written' \in [Workers -> [Jobs -> Row \cup {None}]]
  /\ \A j \in Jobs : committed[j].attempt <= committed'[j].attempt
  /\ \A v \in Workers \ Warmed : written'[v] = Untouched
  /\ RowLocks'

LEMMA BlockEffect ==
  ASSUME SessionTypeOK, RowLocks, NEW w \in Workers, NEW writes, Lawful(w, writes),
         BlockEnds(w, writes)
  PROVE  BlockDone /\ \A v \in Workers \ {w} : written'[v] = written[v]
<1>1. CASE w \in Warmed
  <2>1. /\ committed' = committed
        /\ written' = [written EXCEPT ![w] = Merged(writes, written[w])]
    BY <1>1 DEF BlockEnds
  <2>2. written' \in [Workers -> [Jobs -> Row \cup {None}]]
    BY <2>1, MergedType DEF SessionTypeOK, Lawful
  <2>3. \A v \in Workers \ {w} : written'[v] = written[v]
    BY <2>1 DEF SessionTypeOK
  <2>4. \A j \in Jobs : written'[w][j] = IF writes[j] # None THEN writes[j] ELSE written[w][j]
    BY <2>1 DEF SessionTypeOK, Merged
  <2>5. ASSUME NEW v \in Workers, NEW j \in Jobs, written'[v][j] # None
        PROVE  /\ \A u \in Workers \ {v} : written'[u][j] = None
               /\ committed'[j].attempt <= written'[v][j].attempt
    <3>1. CASE v # w
      BY <2>1, <2>3, <2>4, <2>5, <3>1 DEF RowLocks, Lawful
    <3>2. CASE v = w /\ writes[j] = None
      BY <2>1, <2>3, <2>4, <2>5, <3>2 DEF RowLocks
    <3>3. CASE v = w /\ writes[j] # None
      <4>1. \A u \in Workers \ {w} : written[u][j] = None
        BY <3>3 DEF Lawful
      <4>2. committed[j].attempt <= View(w, j).attempt
        BY DEF View, RowLocks, SessionTypeOK, Row
      <4>3. /\ View(w, j).attempt <= writes[j].attempt
            /\ committed[j].attempt \in Nat /\ View(w, j).attempt \in Nat
            /\ writes[j].attempt \in Nat
        BY <3>3, ViewType DEF Lawful, SessionTypeOK, Row
      <4>4. committed[j].attempt <= writes[j].attempt
        BY <4>2, <4>3
      <4> QED BY <2>1, <2>3, <2>4, <3>3, <4>1, <4>4
    <3> QED BY <3>1, <3>2, <3>3
  <2> QED
    BY <1>1, <2>1, <2>2, <2>3, <2>5 DEF BlockDone, RowLocks, SessionTypeOK, Row
<1>2. CASE w \notin Warmed
  <2>1. committed' = Merged(writes, committed) /\ written' = written
    BY <1>2 DEF BlockEnds
  <2>2. committed' \in [Jobs -> Row]
    BY <2>1, MergedCommitted DEF SessionTypeOK, Lawful
  <2>3. \A j \in Jobs : committed'[j] = IF writes[j] # None THEN writes[j] ELSE committed[j]
    BY <2>1 DEF Merged
  <2>4. \A j \in Jobs : View(w, j) = committed[j] /\ written[w][j] = None
    BY <1>2 DEF View, SessionTypeOK, Untouched
  <2>5. \A j \in Jobs : committed[j].attempt <= committed'[j].attempt
    BY <2>3, <2>4 DEF Lawful, SessionTypeOK, Row
  <2>6. ASSUME NEW v \in Workers, NEW j \in Jobs, written'[v][j] # None
        PROVE  /\ \A u \in Workers \ {v} : written'[u][j] = None
               /\ committed'[j].attempt <= written'[v][j].attempt
    <3>1. v # w /\ writes[j] = None
      BY <2>1, <2>4, <2>6 DEF Lawful
    <3> QED BY <2>1, <2>3, <2>6, <3>1 DEF RowLocks
  <2> QED
    BY <2>1, <2>2, <2>5, <2>6 DEF BlockDone, RowLocks, SessionTypeOK
<1> QED
  BY <1>1, <1>2

\* What other sessions have written stays theirs, unseen, and w's own rows stay written.
KeptBy(w) ==
  \A v \in Workers, j \in Jobs : written[v][j] # None =>
    /\ committed'[j] = committed[j]
    /\ written'[v][j] # None /\ written[v][j].attempt <= written'[v][j].attempt

LEMMA BlockKeeps ==
  ASSUME SessionTypeOK, NEW w \in Workers, NEW writes, Lawful(w, writes), BlockEnds(w, writes)
  PROVE  KeptBy(w)
<1> SUFFICES ASSUME NEW v \in Workers, NEW j \in Jobs, written[v][j] # None
             PROVE  /\ committed'[j] = committed[j]
                    /\ written'[v][j] # None /\ written[v][j].attempt <= written'[v][j].attempt
  BY DEF KeptBy
<1>1. written[v][j] \in Row /\ written[v][j].attempt <= written[v][j].attempt
  BY DEF SessionTypeOK, Row
<1>2. CASE w \notin Warmed
  <2>1. v # w
    BY <1>2 DEF SessionTypeOK, Untouched
  <2>2. writes[j] = None
    BY <2>1 DEF Lawful
  <2> QED BY <1>1, <1>2, <2>2 DEF BlockEnds, Merged
<1>3. CASE w \in Warmed /\ v # w
  BY <1>1, <1>3 DEF BlockEnds, SessionTypeOK
<1>4. CASE w \in Warmed /\ v = w /\ writes[j] = None
  BY <1>1, <1>4 DEF BlockEnds, SessionTypeOK, Merged
<1>5. CASE w \in Warmed /\ v = w /\ writes[j] # None
  <2>1. written[w][j].attempt <= writes[j].attempt
    BY <1>5 DEF Lawful, View
  <2>2. committed' = committed /\ written'[w][j] = writes[j]
    BY <1>5 DEF BlockEnds, SessionTypeOK, Merged
  <2> QED BY <1>5, <2>1, <2>2
<1> QED
  BY <1>2, <1>3, <1>4, <1>5

\* Workers that take no part in a step keep their rows.
LEMMA OthersKept ==
  ASSUME SessionInvariant, NEW v \in Warmed,
         batch'[v] = batch[v], logged'[v] = logged[v], at'[v] = at[v], written'[v] = written[v],
         \A j \in Jobs : written[v][j] # None => committed'[j] = committed[j]
  PROVE  MainsRows(v)'
<1>1. MainsRows(v) /\ v \in Workers
  BY SessionAssumption DEF SessionInvariant, SessionAssumption
<1>2. \A c \in batch[v] \cup logged[v] : c.job \in Jobs
  BY <1>1 DEF SessionInvariant, SessionTypeOK, SessionClaim
<1> QED
  BY <1>1, <1>2 DEF MainsRows

NoRegress == \A j \in Jobs : committed[j].attempt <= committed'[j].attempt

LEMMA ClaimStep ==
  ASSUME SessionInvariant, NEW w \in Workers, Claim(w)
  PROVE  SessionInvariant' /\ NoRegress
<1> DEFINE stale == {j \in Jobs : approval \in {"revoked", "expired"} /\ View(w, j).active}
           writes(B) == [j \in Jobs |->
                IF j \in stale THEN [View(w, j) EXCEPT !.active = FALSE, !.owner = None]
                ELSE IF j \in B THEN [View(w, j) EXCEPT !.owner = w]
                ELSE None]
<1>0. SessionTypeOK /\ RowLocks /\ \A v \in Warmed : MainsRows(v)
  BY DEF SessionInvariant
<1>1. PICK B \in SUBSET Jobs :
        /\ \A j \in B \cup stale : ~LockedElsewhere(w, j)
        /\ BlockEnds(w, writes(B))
        /\ B \cap stale = {}
        /\ batch' = [batch EXCEPT ![w] = {[job |-> j, attempt |-> View(w, j).attempt] : j \in B}]
        /\ at' = [at EXCEPT ![w] = IF B = {} THEN "idle" ELSE "busy"]
  BY DEF Claim
<1>2. Lawful(w, writes(B))
  <2>1. writes(B) \in [Jobs -> Row \cup {None}]
    BY ViewType, <1>0 DEF Row
  <2>2. ASSUME NEW j \in Jobs, writes(B)[j] # None
        PROVE  /\ \A v \in Workers \ {w} : written[v][j] = None
               /\ View(w, j).attempt <= writes(B)[j].attempt
    <3>1. j \in B \cup stale
      BY <2>2
    <3>2. \A v \in Workers \ {w} : written[v][j] = None
      BY <1>1, <3>1 DEF LockedElsewhere
    <3>3. View(w, j) \in Row
      BY ViewType, <1>0
    <3>4. writes(B)[j].attempt = View(w, j).attempt /\ View(w, j).attempt \in Nat
      BY <2>2, <3>3 DEF Row
    <3> QED BY <3>2, <3>4
  <2> HIDE DEF writes
  <2> QED BY <2>1, <2>2 DEF Lawful
<1>21. \A j \in B : /\ j \in Jobs /\ View(w, j) \in Row /\ View(w, j).attempt \in Nat
                    /\ writes(B)[j] # None
                    /\ writes(B)[j].owner = w /\ writes(B)[j].attempt = View(w, j).attempt
  <2> SUFFICES ASSUME NEW j \in B
               PROVE  /\ j \in Jobs /\ View(w, j) \in Row /\ View(w, j).attempt \in Nat
                      /\ writes(B)[j] # None
                      /\ writes(B)[j].owner = w /\ writes(B)[j].attempt = View(w, j).attempt
    OBVIOUS
  <2>1. View(w, j) \in Row /\ View(w, j).attempt \in Nat
    BY ViewType, <1>0 DEF Row
  <2>2. writes(B)[j] = [View(w, j) EXCEPT !.owner = w]
    BY <1>1
  <2>3. writes(B)[j] \in Row /\ None \notin Row
    BY <2>1, <2>2, SessionAssumption DEF Row, SessionAssumption
  <2> QED BY <2>1, <2>2, <2>3 DEF Row
<1> HIDE DEF writes, stale
<1>3. BlockDone /\ (\A v \in Workers \ {w} : written'[v] = written[v]) /\ KeptBy(w)
  BY <1>0, <1>1, <1>2, BlockEffect, BlockKeeps
<1>4. logged' = logged /\ approval' = approval
  BY DEF Claim
<1>5. at[w] = "idle"
  BY DEF Claim
<1>6. SessionTypeOK'
  <2>1. {[job |-> j, attempt |-> View(w, j).attempt] : j \in B} \in SUBSET SessionClaim
    BY <1>21 DEF SessionClaim
  <2>2. batch' \in [Workers -> SUBSET SessionClaim] /\ (at'[w] = "busy" <=> batch'[w] # {})
    <3> DEFINE new == {[job |-> j, attempt |-> View(w, j).attempt] : j \in B}
    <3>1. B = {} <=> new = {}
      OBVIOUS
    <3>2. batch' = [batch EXCEPT ![w] = new] /\ new \in SUBSET SessionClaim
      BY <1>1, <2>1
    <3> HIDE DEF new
    <3> QED BY <1>0, <1>1, <3>1, <3>2 DEF SessionTypeOK
  <2> QED BY <1>0, <1>1, <1>3, <1>4, <1>5, <2>2 DEF SessionTypeOK, BlockDone
<1>7. ASSUME NEW v \in Warmed PROVE MainsRows(v)'
  <2>0. v \in Workers
    BY SessionAssumption DEF SessionAssumption
  <2>1. CASE v # w
    BY <1>1, <1>3, <1>4, <2>0, <2>1, OthersKept DEF KeptBy, SessionInvariant, SessionTypeOK
  <2>2. CASE v = w
    <3>1. \A j \in B : written'[w][j] = writes(B)[j]
      BY <1>0, <1>1, <1>21, <2>2 DEF BlockEnds, Merged, SessionTypeOK
    <3>2. \A c \in batch'[w] : /\ written'[w][c.job] # None /\ written'[w][c.job].owner = w
                               /\ written'[w][c.job].attempt = c.attempt
      BY <1>0, <1>1, <1>21, <3>1 DEF SessionTypeOK
    <3>3. ASSUME NEW l \in logged'[w]
          PROVE  /\ written'[w][l.job] # None /\ committed'[l.job].attempt < l.attempt
                 /\ l.attempt <= written'[w][l.job].attempt
      <4>1. l.job \in Jobs /\ l.attempt \in Nat
        BY <1>0, <1>4 DEF SessionTypeOK, SessionClaim
      <4>2. /\ written[w][l.job] # None /\ committed[l.job].attempt < l.attempt
            /\ l.attempt <= written[w][l.job].attempt
        BY <1>0, <1>4, <1>5, <2>2 DEF MainsRows
      <4>3. /\ committed'[l.job] = committed[l.job] /\ written'[w][l.job] # None
            /\ written[w][l.job].attempt <= written'[w][l.job].attempt
        BY <1>3, <4>1, <4>2 DEF KeptBy
      <4>4. written[w][l.job].attempt \in Nat /\ written'[w][l.job].attempt \in Nat
        BY <1>0, <1>3, <4>1, <4>2, <4>3 DEF SessionTypeOK, BlockDone, Row
      <4> QED BY <4>1, <4>2, <4>3, <4>4
    <3> QED BY <2>2, <3>2, <3>3 DEF MainsRows
  <2> QED BY <2>1, <2>2
<1> QED
  BY <1>3, <1>6, <1>7 DEF SessionInvariant, BlockDone, NoRegress

LEMMA EndedRow ==
  ASSUME SessionTypeOK, NEW w \in Workers, NEW c \in SessionClaim
  PROVE  /\ View(w, c.job) \in Row /\ View(w, c.job).attempt \in Nat
         /\ View(w, c.job).owner # w => Ended(w, c) = None
         /\ View(w, c.job).owner = w => /\ Ended(w, c) \in Row /\ Ended(w, c) # None
                                        /\ Ended(w, c).attempt = View(w, c.job).attempt + 1
<1> DEFINE r == View(w, c.job)
           e == [active |-> r.active, owner |-> None, attempt |-> r.attempt + 1]
<1>1. r \in Row /\ r.attempt \in Nat
  BY ViewType DEF SessionClaim, Row
<1>2. Ended(w, c) = IF r.owner = w THEN e ELSE None
  BY DEF Ended
<1> HIDE DEF r
<1>3. e \in Row /\ e.attempt = r.attempt + 1
  BY <1>1 DEF Row
<1> HIDE DEF e
<1>4. /\ r.owner # w => Ended(w, c) = None
      /\ r.owner = w => Ended(w, c) \in Row /\ Ended(w, c) # None /\ Ended(w, c).attempt = r.attempt + 1
  BY <1>2, <1>3, SessionAssumption DEF SessionAssumption
<1> QED
  BY <1>1, <1>4 DEF r

LEMMA EndJobStep ==
  ASSUME SessionInvariant, NEW w \in Workers, EndJob(w)
  PROVE  SessionInvariant' /\ NoRegress
<1> DEFINE writes(c) == [Untouched EXCEPT ![c.job] = Ended(w, c)]
           line(c) == [job |-> c.job, attempt |-> c.attempt + 1]
<1>0. SessionTypeOK /\ RowLocks /\ \A v \in Warmed : MainsRows(v)
  BY DEF SessionInvariant
<1>1. PICK c \in batch[w] :
        /\ View(w, c.job).owner = w => ~LockedElsewhere(w, c.job)
        /\ BlockEnds(w, writes(c))
        /\ batch' = [batch EXCEPT ![w] = @ \ {c}]
        /\ at' = [at EXCEPT ![w] = IF batch[w] = {c} THEN "idle" ELSE "busy"]
        /\ logged' \in {logged, [logged EXCEPT ![w] = @ \cup {line(c)}]}
  BY DEF EndJob
<1>2. c \in SessionClaim /\ c.job \in Jobs /\ c.attempt \in Nat /\ line(c) \in SessionClaim
  BY <1>0 DEF SessionTypeOK, SessionClaim
<1>3. writes(c) \in [Jobs -> Row \cup {None}]
  BY <1>0, <1>2, UntouchedType, EndedRow
<1>4. writes(c)[c.job] = Ended(w, c) /\ \A i \in Jobs : writes(c)[i] # None => i = c.job
  BY <1>2, UntouchedType DEF Untouched
<1> HIDE DEF writes
<1>5. Lawful(w, writes(c))
  <2>1. ASSUME NEW i \in Jobs, writes(c)[i] # None
        PROVE  /\ \A v \in Workers \ {w} : written[v][i] = None
               /\ View(w, i).attempt <= writes(c)[i].attempt
    <3>1. i = c.job /\ View(w, c.job).owner = w
      BY <1>0, <1>2, <1>4, <2>1, EndedRow
    <3>2. View(w, c.job).attempt \in Nat /\ writes(c)[c.job].attempt = View(w, c.job).attempt + 1
      BY <1>0, <1>2, <1>4, <3>1, EndedRow
    <3> QED BY <1>1, <3>1, <3>2 DEF LockedElsewhere
  <2> QED BY <1>3, <2>1 DEF Lawful
<1>6. BlockDone /\ (\A v \in Workers \ {w} : written'[v] = written[v]) /\ KeptBy(w)
  BY <1>0, <1>1, <1>5, BlockEffect, BlockKeeps
<1>7. approval' = approval /\ at[w] = "busy"
  BY DEF EndJob
<1>8. SessionTypeOK'
  <2>1. logged' \in [Workers -> SUBSET SessionClaim]
    BY <1>0, <1>1, <1>2 DEF SessionTypeOK
  <2>2. \A v \in Workers : at'[v] = "busy" <=> batch'[v] # {}
    BY <1>0, <1>1 DEF SessionTypeOK
  <2>3. /\ batch' \in [Workers -> SUBSET SessionClaim]
        /\ at' \in [Workers -> {"down", "idle", "busy"}]
    BY <1>0, <1>1 DEF SessionTypeOK
  <2>4. \A v \in Workers : at'[v] = "down" \/ v \notin Warmed => written'[v] = Untouched
    BY <1>0, <1>1, <1>6, <1>7 DEF SessionTypeOK, BlockDone
  <2> QED BY <1>0, <1>6, <1>7, <2>1, <2>2, <2>3, <2>4 DEF SessionTypeOK, BlockDone
<1>9. ASSUME NEW v \in Warmed PROVE MainsRows(v)'
  <2>0. v \in Workers
    BY SessionAssumption DEF SessionAssumption
  <2>1. CASE v # w
    BY <1>0, <1>1, <1>6, <2>0, <2>1, OthersKept DEF KeptBy, SessionTypeOK
  <2>2. CASE v = w
    <3>1. /\ written[w][c.job] # None
          /\ written[w][c.job].owner = w /\ written[w][c.job].attempt = c.attempt
      BY <1>0, <1>1, <2>2 DEF MainsRows
    <3>2. \A i \in Jobs : written'[w][i] = IF writes(c)[i] # None THEN writes(c)[i] ELSE written[w][i]
      BY <1>0, <1>1, <2>2 DEF BlockEnds, Merged, SessionTypeOK
    <3>3. \A d \in batch'[w] : d \in batch[w] /\ d \in SessionClaim /\ d.job \in Jobs /\ d.job # c.job
      <4> SUFFICES ASSUME NEW d \in batch'[w]
                   PROVE  d \in batch[w] /\ d \in SessionClaim /\ d.job \in Jobs /\ d.job # c.job
        OBVIOUS
      <4>1. d \in batch[w] /\ d # c
        BY <1>0, <1>1 DEF SessionTypeOK
      <4>2. d \in SessionClaim /\ d.job \in Jobs /\ d.attempt = written[w][d.job].attempt
        BY <1>0, <2>2, <4>1 DEF SessionTypeOK, SessionClaim, MainsRows
      <4> QED BY <1>2, <3>1, <4>1, <4>2 DEF SessionClaim
    <3>4. \A d \in batch'[w] : /\ written'[w][d.job] # None /\ written'[w][d.job].owner = w
                               /\ written'[w][d.job].attempt = d.attempt
      BY <1>0, <1>4, <2>2, <3>2, <3>3 DEF MainsRows
    <3>5. ASSUME NEW l \in logged'[w]
          PROVE  /\ written'[w][l.job] # None /\ committed'[l.job].attempt < l.attempt
                 /\ l.attempt <= written'[w][l.job].attempt
      <4>1. CASE l \in logged[w]
        <5>1. l.job \in Jobs /\ l.attempt \in Nat
          BY <1>0, <4>1 DEF SessionTypeOK, SessionClaim
        <5>2. /\ written[w][l.job] # None /\ committed[l.job].attempt < l.attempt
              /\ l.attempt <= written[w][l.job].attempt
          BY <1>0, <1>7, <2>2, <4>1 DEF MainsRows
        <5>3. /\ committed'[l.job] = committed[l.job] /\ written'[w][l.job] # None
              /\ written[w][l.job].attempt <= written'[w][l.job].attempt
          BY <1>6, <5>1, <5>2 DEF KeptBy
        <5>4. written[w][l.job].attempt \in Nat /\ written'[w][l.job].attempt \in Nat
          BY <1>0, <1>6, <5>1, <5>2, <5>3 DEF SessionTypeOK, BlockDone, Row
        <5> QED BY <5>1, <5>2, <5>3, <5>4
      <4>2. CASE l \notin logged[w]
        <5>1. l.job = c.job /\ l.attempt = c.attempt + 1
          BY <1>0, <1>1, <4>2 DEF SessionTypeOK
        <5>2. View(w, c.job).owner = w /\ View(w, c.job).attempt = c.attempt
          BY <3>1 DEF View
        <5>3. written'[w][c.job] # None /\ written'[w][c.job].attempt = c.attempt + 1
          BY <1>0, <1>2, <1>4, <3>2, <5>2, EndedRow
        <5>4. committed'[c.job] = committed[c.job]
          BY <1>2, <1>6, <3>1 DEF KeptBy
        <5>5. committed[c.job].attempt <= c.attempt /\ committed[c.job].attempt \in Nat
          BY <1>0, <1>2, <3>1 DEF RowLocks, SessionTypeOK, Row
        <5> QED BY <1>2, <5>1, <5>3, <5>4, <5>5
      <4> QED BY <4>1, <4>2
    <3> QED BY <2>2, <3>4, <3>5 DEF MainsRows
  <2> QED BY <2>1, <2>2
<1> QED
  BY <1>6, <1>8, <1>9 DEF SessionInvariant, BlockDone, NoRegress

\* A worker's transaction ends for good: its rows are committed or forgotten.
LEMMA CloseStep ==
  ASSUME SessionInvariant, NEW w \in Workers, Stop(w) \/ Die(w)
  PROVE  SessionInvariant' /\ NoRegress
<1>0. SessionTypeOK /\ RowLocks /\ \A v \in Warmed : MainsRows(v)
  BY DEF SessionInvariant
<1>1. /\ written' = [written EXCEPT ![w] = Untouched] /\ at' = [at EXCEPT ![w] = "down"]
      /\ logged' = logged /\ approval' = approval
  BY DEF Stop, Die
<1>2. \A j \in Jobs : committed'[j] \in {committed[j], View(w, j)}
  BY DEF Stop, Die, Merged, View
<1>3. committed' \in [Jobs -> Row]
  BY <1>0, MergedCommitted DEF Stop, Die, SessionTypeOK
<1>4. batch' \in [Workers -> SUBSET SessionClaim] /\ batch'[w] = {} /\ \A v \in Workers \ {w} : batch'[v] = batch[v]
  BY <1>0 DEF Stop, Die, SessionTypeOK
<1>5. NoRegress
  BY <1>0, <1>2 DEF NoRegress, View, RowLocks, SessionTypeOK, Row
<1>6. SessionTypeOK'
  BY <1>0, <1>1, <1>3, <1>4, UntouchedType DEF SessionTypeOK
<1>7. RowLocks'
  <2> SUFFICES ASSUME NEW v \in Workers, NEW j \in Jobs, written'[v][j] # None
               PROVE  /\ \A u \in Workers \ {v} : written'[u][j] = None
                      /\ committed'[j].attempt <= written'[v][j].attempt
    BY DEF RowLocks
  <2>1. v # w /\ written[v][j] # None
    BY <1>0, <1>1 DEF SessionTypeOK, Untouched
  <2>2. \A u \in Workers \ {v} : written[u][j] = None
    BY <1>0, <2>1 DEF RowLocks
  <2>3. committed'[j] = committed[j]
    BY <1>2, <2>1, <2>2 DEF View
  <2> QED
    BY <1>0, <1>1, <2>1, <2>2, <2>3 DEF RowLocks, SessionTypeOK, Untouched
<1>8. ASSUME NEW v \in Warmed PROVE MainsRows(v)'
  <2>0. v \in Workers
    BY SessionAssumption DEF SessionAssumption
  <2>1. CASE v = w
    BY <1>0, <1>1, <1>4, <2>1 DEF MainsRows, SessionTypeOK
  <2>2. CASE v # w
    <3>1. \A j \in Jobs : written[v][j] # None => committed'[j] = committed[j]
      BY <1>0, <1>2, <2>0, <2>2 DEF RowLocks, View
    <3> QED BY <1>0, <1>1, <1>4, <2>0, <2>2, <3>1, OthersKept DEF SessionTypeOK
  <2> QED BY <2>1, <2>2
<1> QED
  BY <1>5, <1>6, <1>7, <1>8 DEF SessionInvariant

LEMMA RevocationStep ==
  ASSUME SessionInvariant, CommitRevocation
  PROVE  SessionInvariant' /\ NoRegress
<1>0. SessionTypeOK /\ RowLocks /\ \A v \in Warmed : MainsRows(v)
  BY DEF SessionInvariant
<1>1. \A j \in Jobs : committed'[j] \in Row /\ committed'[j].attempt = committed[j].attempt
  BY <1>0 DEF CommitRevocation, SessionTypeOK, Row
<1>2. committed' \in [Jobs -> Row]
  BY <1>1 DEF CommitRevocation
<1>3. NoRegress
  BY <1>0, <1>1 DEF NoRegress, SessionTypeOK, Row
<1>4. SessionTypeOK' /\ RowLocks'
  BY <1>0, <1>1, <1>2 DEF SessionTypeOK, RowLocks, CommitRevocation
<1>5. ASSUME NEW v \in Warmed PROVE MainsRows(v)'
  <2>1. v \in Workers /\ written[v] = Untouched
    BY SessionAssumption DEF SessionAssumption, CommitRevocation
  <2> QED BY <2>1, OthersKept DEF CommitRevocation, Untouched
<1> QED
  BY <1>3, <1>4, <1>5 DEF SessionInvariant

LEMMA ConnectStep ==
  ASSUME SessionInvariant, NEW w \in Workers, Connect(w)
  PROVE  SessionInvariant' /\ NoRegress
<1>0. SessionTypeOK /\ RowLocks /\ \A v \in Warmed : MainsRows(v)
  BY DEF SessionInvariant
<1>1. /\ at' = [at EXCEPT ![w] = "idle"] /\ logged' = [logged EXCEPT ![w] = {}] /\ at[w] = "down"
      /\ committed' = committed /\ written' = written /\ batch' = batch /\ approval' = approval
  BY DEF Connect
<1>2. SessionTypeOK' /\ RowLocks'
  BY <1>0, <1>1 DEF SessionTypeOK, RowLocks
<1>3. NoRegress
  BY <1>0, <1>1 DEF NoRegress, SessionTypeOK, Row
<1>4. ASSUME NEW v \in Warmed PROVE MainsRows(v)'
  <2>1. v \in Workers
    BY SessionAssumption DEF SessionAssumption
  <2>2. CASE v = w
    BY <1>0, <1>1, <2>1, <2>2 DEF MainsRows, SessionTypeOK
  <2>3. CASE v # w
    BY <1>0, <1>1, <2>1, <2>3, OthersKept DEF SessionTypeOK
  <2> QED BY <2>2, <2>3
<1> QED
  BY <1>2, <1>3, <1>4 DEF SessionInvariant

LEMMA SessionInvariantStep ==
  ASSUME SessionInvariant, [SessionNext]_sessionVars
  PROVE  SessionInvariant' /\ NoRegress
<1>1. CASE UNCHANGED sessionVars \/ Revoke \/ Expire
  <2>1. /\ UNCHANGED <<committed, written, at, batch, logged>>
        /\ approval' \in {"effective", "revoking", "revoked", "expired"}
    BY <1>1 DEF sessionVars, Revoke, Expire, SessionInvariant, SessionTypeOK
  <2>2. SessionTypeOK' /\ RowLocks' /\ \A w \in Warmed : MainsRows(w)'
    BY <2>1 DEF SessionInvariant, SessionTypeOK, RowLocks, MainsRows
  <2>3. NoRegress
    BY <2>1 DEF NoRegress, SessionInvariant, SessionTypeOK, Row
  <2> QED BY <2>2, <2>3 DEF SessionInvariant
<1> QED
  BY <1>1, ConnectStep, ClaimStep, EndJobStep, CloseStep, RevocationStep
  DEF SessionNext, SessionStep

----------------------------------------------------------------------------
LEMMA SessionInvariantHolds == SessionSpec => []SessionInvariant
<1>1. SessionInit => SessionInvariant
  BY UntouchedType, SessionAssumption
  DEF SessionInit, SessionInvariant, SessionTypeOK, RowLocks, MainsRows, Untouched, Row,
      SessionAssumption
<1>2. SessionInvariant /\ [SessionNext]_sessionVars => SessionInvariant'
  BY SessionInvariantStep
<1> QED
  BY <1>1, <1>2, PTL DEF SessionSpec

\* Both versions of every row are rows, and only a worker main runs keeps one between blocks.
THEOREM SessionTypeCorrect == SessionSpec => []SessionTypeOK
BY SessionInvariantHolds, PTL DEF SessionInvariant

\* Any number of workers that main runs, beside any others, never have one job between two
\* of them, and the row of each claim stays their own.
THEOREM MainsNeverShareAJob == SessionSpec => []MainsLeasesAreSafe
<1>1. SessionInvariant => MainsLeasesAreSafe
  <2> SUFFICES ASSUME SessionInvariant, NEW w \in Warmed, NEW c \in batch[w]
               PROVE  /\ View(w, c.job).owner = w /\ View(w, c.job).attempt = c.attempt
                      /\ \A v \in Warmed \ {w} : \A d \in batch[v] : d.job # c.job
    BY DEF MainsLeasesAreSafe
  <2>1. Warmed \subseteq Workers /\ c.job \in Jobs
    BY SessionAssumption DEF SessionAssumption, SessionInvariant, SessionTypeOK, SessionClaim
  <2>2. /\ written[w][c.job] # None /\ written[w][c.job].owner = w
        /\ written[w][c.job].attempt = c.attempt
    BY DEF SessionInvariant, MainsRows
  <2>3. \A v \in Warmed \ {w} : \A d \in batch[v] : written[v][d.job] # None
    BY DEF SessionInvariant, MainsRows
  <2> QED BY <2>1, <2>2, <2>3 DEF View, SessionInvariant, RowLocks
<1> QED
  BY <1>1, SessionInvariantHolds, PTL

\* What a worker main runs has logged in one session is all committed by its stop and all
\* taken back by its death.
THEOREM SessionsEndWhole == SessionSpec => CompletionsEndWhole
<1> DEFINE Whole == \A w \in Warmed :
             /\ Stop(w) => \A l \in logged[w] : l.attempt <= committed'[l.job].attempt
             /\ Die(w)  => \A l \in logged[w] : committed'[l.job].attempt < l.attempt
<1>1. SessionInvariant => Whole
  <2> SUFFICES ASSUME SessionInvariant, NEW w \in Warmed, NEW l \in logged[w], Stop(w) \/ Die(w)
               PROVE  /\ Stop(w) => l.attempt <= committed'[l.job].attempt
                      /\ Die(w)  => committed'[l.job].attempt < l.attempt
    OBVIOUS
  <2>1. l.job \in Jobs /\ at[w] # "down"
    BY SessionAssumption
    DEF SessionAssumption, SessionInvariant, SessionTypeOK, SessionClaim, Stop, Die
  <2>2. /\ written[w][l.job] # None /\ committed[l.job].attempt < l.attempt
        /\ l.attempt <= written[w][l.job].attempt
    BY <2>1 DEF SessionInvariant, MainsRows
  <2> QED BY <2>1, <2>2 DEF Stop, Die, Merged
<1>2. SessionInvariant /\ [SessionNext]_sessionVars => [Whole]_sessionVars
  BY <1>1
<1> QED
  BY <1>2, SessionInvariantHolds, PTL DEF SessionSpec, CompletionsEndWhole

\* No transaction, however old its view of a row, takes back an attempt others committed.
THEOREM NoAttemptIsLost == SessionSpec => AttemptsNeverRegress
<1>1. SessionInvariant /\ [SessionNext]_sessionVars
        => [\A j \in Jobs : committed[j].attempt <= committed'[j].attempt]_sessionVars
  BY SessionInvariantStep DEF NoRegress
<1> QED
  BY <1>1, SessionInvariantHolds, PTL DEF SessionSpec, AttemptsNeverRegress

=============================================================================
