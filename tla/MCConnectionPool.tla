-------------------------- MODULE MCConnectionPool --------------------------
(***************************************************************************)
(* Instances of ConnectionPool.  Threads and connections are              *)
(* interchangeable in every safety property.                               *)
(***************************************************************************)
EXTENDS ConnectionPool, TLC

Symmetry == Permutations(Threads) \cup Permutations(Conns)
=============================================================================
