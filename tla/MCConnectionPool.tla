-------------------------- MODULE MCConnectionPool --------------------------
(***************************************************************************)
(* An instance of ConnectionPool for TLC: three requests of any kind over  *)
(* two connections, two further attempts of the guard, and the statements  *)
(* of SubmitRepository.                                                    *)
(***************************************************************************)
EXTENDS ConnectionPool
=============================================================================
