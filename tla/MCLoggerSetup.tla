--------------------------- MODULE MCLoggerSetup ---------------------------
(***************************************************************************)
(* Instance of LoggerSetup for TLC.                                        *)
(***************************************************************************)
EXTENDS LoggerSetup

\* Two of the four severities: the one that depends on the level and another.
TwoSeverities == <<"debug", "info">>
============================================================================
