---------------------------- MODULE MCScheduler ----------------------------
(* The instances of Scheduler that TLC checks: two workers, one source, and a *)
(* connector job, a monitor job or both.                                      *)
EXTENDS Scheduler, TLC

CONSTANTS w1, w2, con, mon, src

MCSourceOf == [j \in Jobs |-> src]
MCKindOf   == [j \in Jobs |-> IF j = con THEN "connector" ELSE "monitor"]
MCCadence  == [j \in Jobs |-> IF j = con THEN 30 ELSE 600]
MCJitter   == [j \in Jobs |-> IF j = con THEN 0 ELSE 7]

Offer(decision, scope, t) == [decision |-> decision, scope |-> scope, expiresAt |-> t]

\* An approval that outlives the run and its revocation; for some runs also one that
\* expires on the way and, in the first of them, covers the monitor only.
MCOffers         == {Offer("approved", Kinds, 900), Offer("revoked", Kinds, 900)}
MCNarrowOffers   == MCOffers \cup {Offer("restricted", {"monitor"}, 60)}
MCExpiringOffers == {Offer("approved", Kinds, 660), Offer("revoked", Kinds, 900)}

Symmetry == Permutations({w1, w2})

=============================================================================
