--------------------------- MODULE MCConnectorRun ---------------------------
(* The instance of ConnectorRun that TLC checks: two workers and one connector *)
(* whose provider may answer with either of two payloads or a malformed one.  *)
EXTENDS ConnectorRun, TLC

CONSTANTS w1, w2, con, src, small, large, broken

MCSourceOf == [j \in Jobs |-> src]
MCKindOf   == [j \in Jobs |-> "connector"]
MCCadence  == [j \in Jobs |-> 600]
MCJitter   == [j \in Jobs |-> 0]

MCOffers == [decision : {"approved", "revoked"}, scope : {Kinds}, expiresAt : {900}]

\* The large payload repeats the record of the small one.
MCRecordsOf == (small :> {"x"}) @@ (large :> {"x", "y"}) @@ (broken :> {})

Symmetry == Permutations({w1, w2})

=============================================================================
