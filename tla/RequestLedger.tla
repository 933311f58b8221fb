--------------------------- MODULE RequestLedger ---------------------------
(***************************************************************************)
(* What ServerStatus promises to the connections that report to it and to  *)
(* the status page that reads it: logging a request is one indivisible     *)
(* step, and a snapshot shows exactly the requests logged at one instant.  *)
(***************************************************************************)

CONSTANTS
  Threads,        \* the threads that run io_service.run()
  Requests,       \* the calls of LogRequest, one for each response written
  SnapshotOf(_)   \* the snapshot that shows a given set of calls

VARIABLES
  logged,  \* the calls that have taken effect
  view     \* for each thread, the last snapshot it obtained

vars == <<logged, view>>

Init ==
  /\ logged = {}
  /\ view = [t \in Threads |-> SnapshotOf({})]

LogRequest(r) ==
  /\ r \notin logged
  /\ logged' = logged \cup {r}
  /\ UNCHANGED view

GetSnapshot(t) ==
  /\ view' = [view EXCEPT ![t] = SnapshotOf(logged)]
  /\ UNCHANGED logged

Next ==
  \/ \E r \in Requests : LogRequest(r)
  \/ \E t \in Threads : GetSnapshot(t)

Spec == Init /\ [][Next]_vars
=============================================================================
