---------------------------- MODULE MCPlateSync ----------------------------
(***************************************************************************)
(* Instances of PlateSync for TLC.  The PlateSync*.cfg files give the      *)
(* constants their values; one process of the worker stands for any number *)
(* of them, of which the safety theorems speak.                            *)
(***************************************************************************)
EXTENDS PlateSync
=============================================================================
