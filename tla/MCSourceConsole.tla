--------------------------- MODULE MCSourceConsole ---------------------------
(* The instance of SourceConsole that TLC checks: one administrator's pages    *)
(* and callers of the SDK.                                                    *)
EXTENDS SourceConsole

CONSTANTS p1, g1, g2
=============================================================================
