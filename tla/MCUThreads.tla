---------------------------- MODULE MCUThreads ----------------------------
(***************************************************************************)
(* Instances of UThreads for TLC.                                          *)
(***************************************************************************)
EXTENDS UThreads

CONSTANTS t1, t2, t3, t4
=============================================================================
