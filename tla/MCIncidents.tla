----------------------------- MODULE MCIncidents -----------------------------
(* The instances of Incidents that TLC checks: two administrators beside two   *)
(* workers on one monitor (Incidents.cfg), and beside one worker for as many   *)
(* versions as publishing, correcting and publishing anew take (Wording.cfg). *)
EXTENDS Incidents, TLC

CONSTANTS w1, w2, m1, p1, p2, a, b, c

Symmetry == Permutations(Workers) \cup Permutations(Operators) \cup Permutations(Wordings)
=============================================================================
