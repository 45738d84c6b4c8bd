------------------------------ MODULE MCReadApi ------------------------------
(* The instance of ReadApi that TLC checks: pages of at most two rows, three   *)
(* sources and two monitors.                                                  *)
EXTENDS ReadApi

Source == <<1, 2>>
=============================================================================
