------------------------ MODULE MCConnectionPoolLive ------------------------
(***************************************************************************)
(* Instances of ConnectionPool for liveness.  Connections are numbered and *)
(* allocated in that order: every other behaviour is one of these with the *)
(* numbers permuted.  Behaviours in which two threads collide in the       *)
(* registry are cut off at the collision: anything may happen after it.    *)
(***************************************************************************)
EXTENDS ConnectionPool

Explored ==
  /\ ~registryTorn
  /\ \A c, d \in Conns : c < d /\ mem[d] # "unborn" => mem[c] # "unborn"
=============================================================================
