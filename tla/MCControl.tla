----------------------------- MODULE MCControl -----------------------------
(***************************************************************************)
(* Instance of Control for TLC.                                            *)
(***************************************************************************)
EXTENDS Control
============================================================================
