---------------------------- MODULE LeaseLedger ----------------------------
(***************************************************************************)
(* What the leased queue promises about one job at a time, without clocks, *)
(* snapshots or transactions: the WHERE clauses of claim_jobs and          *)
(* _finish_job read as a protocol.  Scheduler implements it.               *)
(***************************************************************************)
EXTENDS Naturals

CONSTANTS Workers, Jobs, None

VARIABLE ledger  \* [Jobs -> Entry]

\* on: the job may be taken.  owner: who its lease names.  lapsed: the lease has run
\* out.  holders: the workers that believe they have the job.  done: attempts credited.
Entry == [on : BOOLEAN, owner : Workers \cup {None}, lapsed : BOOLEAN,
          holders : SUBSET Workers, done : Nat]

Idle == [on |-> FALSE, owner |-> None, lapsed |-> FALSE, holders |-> {}, done |-> 0]

\* A worker takes a job that nobody owns or whose lease has lapsed.
Taken(e, f) ==
  /\ e.on /\ (e.owner = None \/ e.lapsed)
  /\ f.owner \in Workers \ e.holders
  /\ f.holders = e.holders \cup {f.owner}
  /\ f.on = e.on /\ f.done = e.done

Lapsed(e, f) ==
  /\ e.owner # None /\ f.lapsed
  /\ f.on = e.on /\ f.owner = e.owner /\ f.holders = e.holders /\ f.done = e.done

\* The owner, and nobody else, completes an attempt.
Completed(e, f) ==
  /\ e.owner \in e.holders /\ f.holders = e.holders \ {e.owner}
  /\ f.done = e.done + 1
  /\ f.owner = None /\ ~f.lapsed
  /\ f.on = e.on

\* A worker that lost its lease ends, or a worker dies: nothing else changes.
Dropped(e, f) ==
  /\ \E w \in e.holders : f.holders = e.holders \ {w}
  /\ f.on = e.on /\ f.owner = e.owner /\ f.lapsed = e.lapsed /\ f.done = e.done

\* A switch takes the lease away from whoever owns it.
Switched(e, f) ==
  /\ f.owner = None /\ ~f.lapsed
  /\ f.holders = e.holders /\ f.done = e.done

Step(e, f) ==
  Taken(e, f) \/ Lapsed(e, f) \/ Completed(e, f) \/ Dropped(e, f) \/ Switched(e, f) \/ f = e

Init == ledger = [j \in Jobs |-> Idle]
Next == /\ ledger' \in [Jobs -> Entry]
        /\ \A j \in Jobs : Step(ledger[j], ledger'[j])
Spec == Init /\ [][Next]_ledger

=============================================================================
