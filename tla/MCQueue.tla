------------------------------ MODULE MCQueue ------------------------------
(***************************************************************************)
(* Instance of Queue for TLC: four goroutines over two keys, so that one   *)
(* can push in every window of another's done while a third waits.         *)
(***************************************************************************)
EXTENDS Queue
============================================================================
