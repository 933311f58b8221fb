---------------------------- MODULE ServerStatus ----------------------------
(***************************************************************************)
(* class ServerStatus (server.h, server.cc): the statistics shared by all  *)
(* connections.  LogRequest updates three members of sharedState_ one      *)
(* after the other and GetSnapshot copies them one after the other, both   *)
(* under sharedStateLock_.  A step of this module is one member access, so *)
(* that an update and a copy that were not excluded from each other would  *)
(* show up as a torn snapshot.                                             *)
(***************************************************************************)
EXTENDS Naturals, FiniteSets

CONSTANTS Threads, Requests, PrefixOf, UrlOf, CodeOf

CONSTANTS
  NoThread,   \* sharedStateLock_ is free
  NoRequest   \* the thread is not in LogRequest

ASSUME ThreadsAssumption  == NoThread \notin Threads
ASSUME RequestsAssumption == IsFiniteSet(Requests) /\ NoRequest \notin Requests

VARIABLES
  sharedStateLock_,      \* the thread that holds the mutex, or NoThread
  totalRequests_,
  requestCountByURL_,    \* prefix -> url -> count
  responseCountByCode_,  \* code -> count
  pc,                    \* what each thread does next
  call,                  \* the call of LogRequest a thread is executing
  snapshot,              \* the local variable of GetSnapshot, member by member
  returned,              \* the last snapshot GetSnapshot returned to a thread
  logged                 \* the calls of LogRequest that have returned

vars == <<sharedStateLock_, totalRequests_, requestCountByURL_,
          responseCountByCode_, pc, call, snapshot, returned, logged>>

shared == <<totalRequests_, requestCountByURL_, responseCountByCode_>>

-----------------------------------------------------------------------------

EmptyMap == [k \in {} |-> 0]

\* map.insert({k, 1}), and an increment when the key was already there.
Bump(map, k) ==
  [x \in DOMAIN map \cup {k} |->
     IF x # k THEN map[x] ELSE IF k \in DOMAIN map THEN map[k] + 1 ELSE 1]

\* The same one level down; a prefix that is missing gets the map {{url, 1}}.
BumpNested(map, p, u) ==
  [x \in DOMAIN map \cup {p} |->
     IF x # p THEN map[x] ELSE Bump(IF p \in DOMAIN map THEN map[p] ELSE EmptyMap, u)]

\* How often each value of key occurs in the calls of S: a std::map that
\* holds the keys that occur and no others.
Tally(S, key) ==
  [k \in {key[r] : r \in S} |-> Cardinality({r \in S : key[r] = k})]

\* The two-level map: prefix, then url.
TallyByPrefix(S) ==
  [p \in {PrefixOf[r] : r \in S} |-> Tally({r \in S : PrefixOf[r] = p}, UrlOf)]

\* The copiable members of struct Snapshot.
Snapshot(total, byUrl, byCode) ==
  [totalRequests_       |-> total,
   requestCountByURL_   |-> byUrl,
   responseCountByCode_ |-> byCode]

\* The snapshot that describes the calls of S.
SnapshotOf(S) == Snapshot(Cardinality(S), TallyByPrefix(S), Tally(S, CodeOf))

EmptySnapshot == Snapshot(0, EmptyMap, EmptyMap)

Logging == {"countByCode", "countByUrl", "countTotal"}
Copying == {"copyTotal", "copyByUrl", "copyByCode"}

\* The constructor of Server clears the counters before any thread runs.
Init ==
  /\ sharedStateLock_ = NoThread
  /\ totalRequests_ = 0
  /\ requestCountByURL_ = EmptyMap
  /\ responseCountByCode_ = EmptyMap
  /\ pc = [t \in Threads |-> "idle"]
  /\ call = [t \in Threads |-> NoRequest]
  /\ snapshot = [t \in Threads |-> EmptySnapshot]
  /\ returned = [t \in Threads |-> EmptySnapshot]
  /\ logged = {}

Goto(t, from, to) == pc[t] = from /\ pc' = [pc EXCEPT ![t] = to]

Lock(t) == sharedStateLock_ = NoThread /\ sharedStateLock_' = t
Unlock  == sharedStateLock_' = NoThread

-----------------------------------------------------------------------------
\* LogRequest

\* One connection makes each call, once, from one thread.
InProgress == {call[t] : t \in Threads}

\* Variant: LogRequest without its lock_guard.
BeginLogRequest_NoLock(t, r) ==
  /\ Goto(t, "idle", "countByCode")
  /\ r \notin logged \cup InProgress
  /\ call' = [call EXCEPT ![t] = r]
  /\ UNCHANGED <<sharedStateLock_, shared, snapshot, returned, logged>>

BeginLogRequest(t, r) ==
  /\ Goto(t, "idle", "countByCode")
  /\ r \notin logged \cup InProgress
  /\ Lock(t)
  /\ call' = [call EXCEPT ![t] = r]
  /\ UNCHANGED <<shared, snapshot, returned, logged>>

CountByCode(t) ==
  /\ Goto(t, "countByCode", "countByUrl")
  /\ responseCountByCode_' = Bump(responseCountByCode_, CodeOf[call[t]])
  /\ UNCHANGED <<sharedStateLock_, totalRequests_, requestCountByURL_, call,
                 snapshot, returned, logged>>

CountByUrl(t) ==
  /\ Goto(t, "countByUrl", "countTotal")
  /\ requestCountByURL_' =
       BumpNested(requestCountByURL_, PrefixOf[call[t]], UrlOf[call[t]])
  /\ UNCHANGED <<sharedStateLock_, totalRequests_, responseCountByCode_, call,
                 snapshot, returned, logged>>

\* The last statement, after which the lock_guard releases the mutex.
CountTotal(t) ==
  /\ Goto(t, "countTotal", "idle")
  /\ totalRequests_' = totalRequests_ + 1
  /\ Unlock
  /\ logged' = logged \cup {call[t]}
  /\ call' = [call EXCEPT ![t] = NoRequest]
  /\ UNCHANGED <<requestCountByURL_, responseCountByCode_, snapshot, returned>>

-----------------------------------------------------------------------------
\* GetSnapshot.  snapshot = sharedState_ assigns the members in the order in
\* which struct Snapshot declares them.

\* Variant: GetSnapshot without its lock_guard.
BeginGetSnapshot_NoLock(t) ==
  /\ Goto(t, "idle", "copyTotal")
  /\ UNCHANGED <<sharedStateLock_, shared, call, snapshot, returned, logged>>

BeginGetSnapshot(t) ==
  /\ Goto(t, "idle", "copyTotal")
  /\ Lock(t)
  /\ UNCHANGED <<shared, call, snapshot, returned, logged>>

CopyTotal(t) ==
  /\ Goto(t, "copyTotal", "copyByUrl")
  /\ snapshot' = [snapshot EXCEPT ![t].totalRequests_ = totalRequests_]
  /\ UNCHANGED <<sharedStateLock_, shared, call, returned, logged>>

CopyByUrl(t) ==
  /\ Goto(t, "copyByUrl", "copyByCode")
  /\ snapshot' = [snapshot EXCEPT ![t].requestCountByURL_ = requestCountByURL_]
  /\ UNCHANGED <<sharedStateLock_, shared, call, returned, logged>>

CopyByCode(t) ==
  /\ Goto(t, "copyByCode", "return")
  /\ snapshot' = [snapshot EXCEPT ![t].responseCountByCode_ = responseCountByCode_]
  /\ Unlock
  /\ UNCHANGED <<shared, call, returned, logged>>

\* The copy is returned by value, the mutex being free by then.
ReturnSnapshot(t) ==
  /\ Goto(t, "return", "idle")
  /\ returned' = [returned EXCEPT ![t] = snapshot[t]]
  /\ UNCHANGED <<sharedStateLock_, shared, call, snapshot, logged>>

Next ==
  \E t \in Threads :
    \/ \E r \in Requests : BeginLogRequest(t, r)
    \/ CountByCode(t) \/ CountByUrl(t) \/ CountTotal(t)
    \/ BeginGetSnapshot(t)
    \/ CopyTotal(t) \/ CopyByUrl(t) \/ CopyByCode(t) \/ ReturnSnapshot(t)

Spec == Init /\ [][Next]_vars

-----------------------------------------------------------------------------
\* The abstract view of a thread changes when GetSnapshot releases the mutex
\* with its copy complete, not when the copy reaches the caller: by then other
\* threads may have logged more.
ViewOf(t) == IF pc[t] = "return" THEN snapshot[t] ELSE returned[t]

Ledger == INSTANCE RequestLedger WITH view <- [t \in Threads |-> ViewOf(t)]

\* ServerStatus implements RequestLedger: LogRequest is one indivisible step
\* and every snapshot GetSnapshot returns shows the requests logged at one
\* instant, although both touch the members one by one.
RefinesLedger == Ledger!Spec

\* The values each variable can have; the maps hold positive counts.
TypeOK ==
  /\ sharedStateLock_ \in Threads \cup {NoThread}
  /\ totalRequests_ \in Nat
  /\ pc \in [Threads -> {"idle", "return"} \cup Logging \cup Copying]
  /\ call \in [Threads -> Requests \cup {NoRequest}]
  /\ logged \subseteq Requests
  /\ DOMAIN snapshot = Threads
  /\ DOMAIN returned = Threads

\* The mutex excludes: a thread is between lock and unlock exactly when the
\* mutex names it.
MutexHeld ==
  \A t \in Threads : sharedStateLock_ = t <=> pc[t] \in Logging \cup Copying

\* A call in progress is one that has not been logged before.
CallsFresh ==
  \A t \in Threads :
    /\ pc[t] \in Logging <=> call[t] # NoRequest
    /\ call[t] \notin logged

\* The calls whose thread has passed one of the given steps.
CallsAt(steps) == {call[t] : t \in {u \in Threads : pc[u] \in steps}}

\* The three members tally the same calls, up to the one that a thread holding
\* the mutex has counted in some members and not yet in the others.
TalliesExact ==
  /\ totalRequests_ = Cardinality(logged)
  /\ requestCountByURL_ = TallyByPrefix(logged \cup CallsAt({"countTotal"}))
  /\ responseCountByCode_ =
       Tally(logged \cup CallsAt({"countByUrl", "countTotal"}), CodeOf)

\* What GetSnapshot has copied so far is what the ledger shows now.
CopiesExact ==
  \A t \in Threads :
    /\ snapshot[t] = Snapshot(snapshot[t].totalRequests_,
                              snapshot[t].requestCountByURL_,
                              snapshot[t].responseCountByCode_)
    /\ pc[t] \in {"copyByUrl", "copyByCode"}
         => snapshot[t].totalRequests_ = Cardinality(logged)
    /\ pc[t] = "copyByCode"
         => snapshot[t].requestCountByURL_ = TallyByPrefix(logged)

\* The inductive invariant behind the refinement.
IInv == TypeOK /\ MutexHeld /\ CallsFresh /\ TalliesExact /\ CopiesExact
=============================================================================
