------------------------- MODULE ServerStatusProofs -------------------------
(***************************************************************************)
(* ServerStatus implements RequestLedger for every set of threads, every   *)
(* finite set of calls and every labelling of the calls.                   *)
(***************************************************************************)
EXTENDS ServerStatus, FiniteSetTheorems, TLAPS

\* Logging one more call adds one to the tally of its key, and inserts the key
\* with count one when no logged call has it: what insert-or-increment does.
LEMMA TallyBump ==
  ASSUME NEW S, IsFiniteSet(S), NEW r, r \notin S, NEW key
  PROVE  Bump(Tally(S, key), key[r]) = Tally(S \cup {r}, key)
<1> DEFINE Same(k) == {x \in S : key[x] = k}
           More(k) == {x \in S \cup {r} : key[x] = k}
           K == {key[x] : x \in S}
           KK == {key[x] : x \in S \cup {r}}
<1>1. KK = K \cup {key[r]}
  OBVIOUS
<1>2. ASSUME NEW k, k # key[r]
      PROVE  More(k) = Same(k)
  BY <1>2
<1>3. More(key[r]) = Same(key[r]) \cup {r}
  OBVIOUS
<1>4. ASSUME NEW k
      PROVE  IsFiniteSet(Same(k)) /\ r \notin Same(k)
  BY FS_Subset
<1>5. /\ Cardinality(Same(key[r])) \in Nat
      /\ Cardinality(More(key[r])) = Cardinality(Same(key[r])) + 1
  <2>1. IsFiniteSet(Same(key[r])) /\ r \notin Same(key[r])
    BY <1>4
  <2> HIDE DEF Same, More
  <2> QED
    BY <1>3, <2>1, FS_AddElement, FS_CardinalityType
<1>6. key[r] \notin K => Cardinality(More(key[r])) = 1
  <2>1. SUFFICES ASSUME key[r] \notin K PROVE Cardinality(More(key[r])) = 1
    OBVIOUS
  <2>2. Same(key[r]) = {}
    BY <2>1
  <2>3. Cardinality(Same(key[r])) = 0
    BY <2>2, FS_EmptySet
  <2> QED
    BY <1>5, <2>3
<1> DEFINE T == [k \in K |-> Cardinality(Same(k))]
           TT == [k \in KK |-> Cardinality(More(k))]
<1>7. Tally(S, key) = T /\ Tally(S \cup {r}, key) = TT
  BY DEF Tally
<1>8. ASSUME NEW k \in KK
      PROVE  TT[k] = IF k # key[r] THEN T[k] ELSE IF key[r] \in DOMAIN T THEN T[key[r]] + 1 ELSE 1
  <2>1. CASE k # key[r]
    <3>1. k \in K
      BY <1>1, <2>1
    <3> QED
      BY <1>2, <2>1, <3>1
  <2>2. CASE k = key[r] /\ key[r] \in K
    BY <1>5, <2>2
  <2>3. CASE k = key[r] /\ key[r] \notin K
    BY <1>6, <2>3
  <2> HIDE DEF T, TT
  <2>4. DOMAIN T = K
    BY DEF T
  <2> QED
    BY <2>1, <2>2, <2>3, <2>4
<1>9. DOMAIN T \cup {key[r]} = KK
  BY <1>1
<1> HIDE DEF T, TT
<1>10. TT = [k \in KK |-> TT[k]]
  BY DEF TT
<1>11. Bump(T, key[r]) = TT
  BY <1>8, <1>9, <1>10 DEF Bump
<1> QED
  BY <1>7, <1>11

\* The same for the two-level map.
LEMMA TallyBumpNested ==
  ASSUME NEW S, IsFiniteSet(S), NEW r, r \notin S
  PROVE  BumpNested(TallyByPrefix(S), PrefixOf[r], UrlOf[r]) = TallyByPrefix(S \cup {r})
<1> DEFINE p == PrefixOf[r]
           Same(k) == {x \in S : PrefixOf[x] = k}
           More(k) == {x \in S \cup {r} : PrefixOf[x] = k}
           K == {PrefixOf[x] : x \in S}
           KK == {PrefixOf[x] : x \in S \cup {r}}
           T == [k \in K |-> Tally(Same(k), UrlOf)]
           TT == [k \in KK |-> Tally(More(k), UrlOf)]
           Old == IF p \in DOMAIN T THEN T[p] ELSE EmptyMap
<1>1. KK = K \cup {p}
  OBVIOUS
<1>2. ASSUME NEW k, k # p
      PROVE  More(k) = Same(k)
  BY <1>2
<1>3. More(p) = Same(p) \cup {r}
  OBVIOUS
<1>4. IsFiniteSet(Same(p)) /\ r \notin Same(p)
  BY FS_Subset
<1>5. Old = Tally(Same(p), UrlOf)
  <2>1. CASE p \in K
    BY <2>1
  <2>2. CASE p \notin K
    <3>1. Same(p) = {}
      BY <2>2
    <3>2. Tally({}, UrlOf) = EmptyMap
      BY DEF Tally, EmptyMap
    <3> QED
      BY <2>2, <3>1, <3>2
  <2> QED
    BY <2>1, <2>2
<1>6. Bump(Old, UrlOf[r]) = Tally(More(p), UrlOf)
  <2> HIDE DEF Old, Same, More
  <2> QED
    BY <1>3, <1>4, <1>5, TallyBump
<1>7. TallyByPrefix(S) = T /\ TallyByPrefix(S \cup {r}) = TT
  BY DEF TallyByPrefix
<1>8. ASSUME NEW k \in KK
      PROVE  TT[k] = IF k # p THEN T[k] ELSE Bump(Old, UrlOf[r])
  <2>1. CASE k # p
    <3>1. k \in K
      BY <1>1, <2>1
    <3> QED
      BY <1>2, <2>1, <3>1
  <2>2. CASE k = p
    BY <1>6, <2>2
  <2> QED
    BY <2>1, <2>2
<1>9. DOMAIN T \cup {p} = KK
  BY <1>1
<1>10. TT = [k \in KK |-> TT[k]]
  OBVIOUS
<1>11. BumpNested(T, p, UrlOf[r]) = TT
  <2> HIDE DEF T, TT, KK
  <2> QED
    BY <1>8, <1>9, <1>10 DEF BumpNested
<1> QED
  BY <1>7, <1>11

\* A snapshot of no calls is the empty snapshot the server starts with.
LEMMA EmptyTallies ==
  /\ Cardinality({}) = 0
  /\ TallyByPrefix({}) = EmptyMap
  /\ Tally({}, CodeOf) = EmptyMap
<1>1. Cardinality({}) = 0
  BY FS_EmptySet
<1>2. TallyByPrefix({}) = EmptyMap
  BY DEF TallyByPrefix, EmptyMap
<1>3. Tally({}, CodeOf) = EmptyMap
  BY DEF Tally, EmptyMap
<1> QED
  BY <1>1, <1>2, <1>3

-----------------------------------------------------------------------------

LEMMA InitIInv == Init => IInv
<1> SUFFICES ASSUME Init PROVE IInv
  OBVIOUS
<1>1. TypeOK
  BY DEF Init, TypeOK
<1>2. MutexHeld
  BY ThreadsAssumption DEF Init, MutexHeld, Logging, Copying
<1>3. CallsFresh
  BY DEF Init, CallsFresh, Logging
<1>4. TalliesExact
  <2>1. CallsAt({"countTotal"}) = {} /\ CallsAt({"countByUrl", "countTotal"}) = {}
    BY DEF Init, CallsAt
  <2> QED
    BY <2>1, EmptyTallies DEF Init, TalliesExact
<1>5. CopiesExact
  BY DEF Init, CopiesExact, EmptySnapshot, Snapshot
<1> QED
  BY <1>1, <1>2, <1>3, <1>4, <1>5 DEF IInv

\* Whoever holds the mutex is the only thread inside a critical section, so
\* the calls counted in part are the one it is executing.
LEMMA HolderAlone ==
  ASSUME IInv, NEW t \in Threads, pc[t] \in Logging \cup Copying, NEW steps,
         steps \subseteq Logging
  PROVE  CallsAt(steps) = IF pc[t] \in steps THEN {call[t]} ELSE {}
<1>1. ASSUME NEW u \in Threads, pc[u] \in steps
      PROVE  u = t
  BY <1>1 DEF IInv, MutexHeld
<1> QED
  BY <1>1 DEF CallsAt

\* While the mutex is free no call is counted in part.
LEMMA FreeMutexNoCalls ==
  ASSUME IInv, sharedStateLock_ = NoThread, NEW steps, steps \subseteq Logging
  PROVE  CallsAt(steps) = {}
BY ThreadsAssumption DEF CallsAt, IInv, MutexHeld

\* The control part of the invariant, which the mutex protocol keeps by itself.
LEMMA ControlStep ==
  ASSUME IInv, [Next]_vars
  PROVE  TypeOK' /\ MutexHeld' /\ CallsFresh'
<1> USE ThreadsAssumption, RequestsAssumption
<1> USE DEF IInv, TypeOK, MutexHeld, CallsFresh, Logging, Copying, Goto, shared
<1>1. ASSUME NEW t \in Threads, NEW r \in Requests, BeginLogRequest(t, r)
      PROVE  TypeOK' /\ MutexHeld' /\ CallsFresh'
  BY <1>1 DEF BeginLogRequest, Lock, InProgress
<1>2. ASSUME NEW t \in Threads, CountByCode(t)
      PROVE  TypeOK' /\ MutexHeld' /\ CallsFresh'
  BY <1>2 DEF CountByCode
<1>3. ASSUME NEW t \in Threads, CountByUrl(t)
      PROVE  TypeOK' /\ MutexHeld' /\ CallsFresh'
  BY <1>3 DEF CountByUrl
<1>4. ASSUME NEW t \in Threads, CountTotal(t)
      PROVE  TypeOK' /\ MutexHeld' /\ CallsFresh'
  BY <1>4 DEF CountTotal, Unlock
<1>5. ASSUME NEW t \in Threads, BeginGetSnapshot(t)
      PROVE  TypeOK' /\ MutexHeld' /\ CallsFresh'
  BY <1>5 DEF BeginGetSnapshot, Lock
<1>6. ASSUME NEW t \in Threads, CopyTotal(t)
      PROVE  TypeOK' /\ MutexHeld' /\ CallsFresh'
  BY <1>6 DEF CopyTotal
<1>7. ASSUME NEW t \in Threads, CopyByUrl(t)
      PROVE  TypeOK' /\ MutexHeld' /\ CallsFresh'
  BY <1>7 DEF CopyByUrl
<1>8. ASSUME NEW t \in Threads, CopyByCode(t)
      PROVE  TypeOK' /\ MutexHeld' /\ CallsFresh'
  BY <1>8 DEF CopyByCode, Unlock
<1>9. ASSUME NEW t \in Threads, ReturnSnapshot(t)
      PROVE  TypeOK' /\ MutexHeld' /\ CallsFresh'
  BY <1>9 DEF ReturnSnapshot
<1>10. CASE UNCHANGED vars
  BY <1>10 DEF vars
<1> QED
  BY <1>1, <1>2, <1>3, <1>4, <1>5, <1>6, <1>7, <1>8, <1>9, <1>10 DEF Next

-----------------------------------------------------------------------------
\* The data part.  Each fact below is about one kind of step of a thread t that
\* is inside its critical section, so that HolderAlone gives CallsAt before and
\* after.

LEMMA LoggedFinite ==
  ASSUME IInv, NEW t \in Threads, pc[t] \in Logging
  PROVE  /\ IsFiniteSet(logged)
         /\ call[t] \notin logged
         /\ IsFiniteSet(logged \cup {call[t]})
<1>1. IsFiniteSet(logged)
  BY RequestsAssumption, FS_Subset DEF IInv, TypeOK
<1>2. call[t] \notin logged
  BY DEF IInv, CallsFresh
<1> QED
  BY <1>1, <1>2, FS_AddElement

LEMMA TalliesStep ==
  ASSUME IInv, [Next]_vars, IInv => TypeOK' /\ MutexHeld' /\ CallsFresh'
  PROVE  TalliesExact'
<1> DEFINE Url == {"countTotal"}
           Code == {"countByUrl", "countTotal"}
<1> USE DEF TalliesExact
<1>1. IInv => TalliesExact /\ TypeOK /\ MutexHeld
  BY DEF IInv
<1>2. ASSUME NEW t \in Threads, NEW r \in Requests, BeginLogRequest(t, r)
      PROVE  TalliesExact'
  <2>1. CallsAt(Url)' = {} /\ CallsAt(Url) = {} /\ CallsAt(Code)' = {} /\ CallsAt(Code) = {}
    <3>1. CallsAt(Url) = {} /\ CallsAt(Code) = {}
      BY <1>2, FreeMutexNoCalls DEF BeginLogRequest, Lock, Logging
    <3>2. \A u \in Threads : pc'[u] = IF u = t THEN "countByCode" ELSE pc[u]
      BY <1>1, <1>2 DEF BeginLogRequest, Goto, TypeOK
    <3>3. \A u \in Threads : pc[u] \notin Url \cup Code
      BY <3>1 DEF CallsAt
    <3> QED
      BY <3>1, <3>2, <3>3 DEF CallsAt
  <2> QED
    BY <1>1, <1>2, <2>1 DEF BeginLogRequest, shared
<1>3. ASSUME NEW t \in Threads, CountByCode(t)
      PROVE  TalliesExact'
  <2>1. CallsAt(Url) = {} /\ CallsAt(Code) = {}
    BY <1>3, HolderAlone DEF CountByCode, Goto, Logging
  <2>2. \A u \in Threads : pc'[u] = IF u = t THEN "countByUrl" ELSE pc[u]
    BY <1>1, <1>3 DEF CountByCode, Goto, TypeOK
  <2>3. \A u \in Threads : pc[u] \notin Code
    BY <2>1 DEF CallsAt
  <2>4. CallsAt(Url)' = {} /\ CallsAt(Code)' = {call[t]}
    BY <1>3, <2>2, <2>3 DEF CallsAt, CountByCode
  <2>5. Bump(Tally(logged, CodeOf), CodeOf[call[t]]) = Tally(logged \cup {call[t]}, CodeOf)
    BY <1>3, LoggedFinite, TallyBump DEF CountByCode, Goto, Logging
  <2> QED
    BY <1>1, <1>3, <2>1, <2>4, <2>5 DEF CountByCode
<1>4. ASSUME NEW t \in Threads, CountByUrl(t)
      PROVE  TalliesExact'
  <2>1. CallsAt(Url) = {} /\ CallsAt(Code) = {call[t]}
    BY <1>4, HolderAlone DEF CountByUrl, Goto, Logging
  <2>2. \A u \in Threads : pc'[u] = IF u = t THEN "countTotal" ELSE pc[u]
    BY <1>1, <1>4 DEF CountByUrl, Goto, TypeOK
  <2>3. \A u \in Threads : pc[u] \in Code => u = t
    BY <1>1, <1>4 DEF CountByUrl, Goto, MutexHeld, Logging
  <2>4. CallsAt(Url)' = {call[t]} /\ CallsAt(Code)' = {call[t]}
    BY <1>4, <2>2, <2>3 DEF CallsAt, CountByUrl
  <2>5. BumpNested(TallyByPrefix(logged), PrefixOf[call[t]], UrlOf[call[t]])
          = TallyByPrefix(logged \cup {call[t]})
    BY <1>4, LoggedFinite, TallyBumpNested DEF CountByUrl, Goto, Logging
  <2> QED
    BY <1>1, <1>4, <2>1, <2>4, <2>5 DEF CountByUrl
<1>5. ASSUME NEW t \in Threads, CountTotal(t)
      PROVE  TalliesExact'
  <2>1. CallsAt(Url) = {call[t]} /\ CallsAt(Code) = {call[t]}
    BY <1>5, HolderAlone DEF CountTotal, Goto, Logging
  <2>2. \A u \in Threads : pc'[u] = IF u = t THEN "idle" ELSE pc[u]
    BY <1>1, <1>5 DEF CountTotal, Goto, TypeOK
  <2>3. \A u \in Threads : pc[u] \in Code => u = t
    BY <1>1, <1>5 DEF CountTotal, Goto, MutexHeld, Logging
  <2>4. CallsAt(Url)' = {} /\ CallsAt(Code)' = {}
    BY <2>2, <2>3 DEF CallsAt
  <2>5. Cardinality(logged \cup {call[t]}) = Cardinality(logged) + 1
    BY <1>5, LoggedFinite, FS_AddElement DEF CountTotal, Goto, Logging
  <2> QED
    BY <1>1, <1>5, <2>1, <2>4, <2>5 DEF CountTotal
<1>6. ASSUME NEW t \in Threads, BeginGetSnapshot(t) \/ CopyTotal(t) \/ CopyByUrl(t)
                                  \/ CopyByCode(t) \/ ReturnSnapshot(t)
      PROVE  TalliesExact'
  <2>1. UNCHANGED <<shared, call, logged>>
    BY <1>6 DEF BeginGetSnapshot, CopyTotal, CopyByUrl, CopyByCode, ReturnSnapshot, shared
  <2>2. \A u \in Threads : pc'[u] = pc[u] \/ {pc[u], pc'[u]} \cap Code = {}
    BY <1>1, <1>6
    DEF BeginGetSnapshot, CopyTotal, CopyByUrl, CopyByCode, ReturnSnapshot, Goto, TypeOK
  <2>3. CallsAt(Url)' = CallsAt(Url) /\ CallsAt(Code)' = CallsAt(Code)
    BY <2>1, <2>2 DEF CallsAt
  <2> QED
    BY <1>1, <2>1, <2>3 DEF shared
<1>7. CASE UNCHANGED vars
  BY <1>1, <1>7 DEF vars, CallsAt
<1> QED
  BY <1>2, <1>3, <1>4, <1>5, <1>6, <1>7 DEF Next

LEMMA CopiesStep ==
  ASSUME IInv, [Next]_vars
  PROVE  CopiesExact'
<1> USE DEF CopiesExact, Snapshot
<1>1. CopiesExact /\ TypeOK /\ MutexHeld /\ TalliesExact
  BY DEF IInv
<1>2. ASSUME NEW t \in Threads, NEW r \in Requests, BeginLogRequest(t, r)
      PROVE  CopiesExact'
  BY <1>1, <1>2 DEF BeginLogRequest, Goto, TypeOK
<1>3. ASSUME NEW t \in Threads, CountByCode(t) \/ CountByUrl(t)
      PROVE  CopiesExact'
  BY <1>1, <1>3 DEF CountByCode, CountByUrl, Goto, TypeOK
<1>4. ASSUME NEW t \in Threads, CountTotal(t)
      PROVE  CopiesExact'
  <2>1. \A u \in Threads : pc[u] \notin Copying
    BY <1>1, <1>4 DEF CountTotal, Goto, MutexHeld, Logging, Copying
  <2>2. \A u \in Threads : pc'[u] \notin Copying /\ snapshot'[u] = snapshot[u]
    BY <1>1, <1>4, <2>1 DEF CountTotal, Goto, TypeOK, Copying
  <2> QED
    BY <1>1, <2>2 DEF Copying
<1>5. ASSUME NEW t \in Threads, BeginGetSnapshot(t)
      PROVE  CopiesExact'
  BY <1>1, <1>5 DEF BeginGetSnapshot, Goto, TypeOK
<1>6. ASSUME NEW t \in Threads, CopyTotal(t)
      PROVE  CopiesExact'
  <2>1. \A u \in Threads : snapshot'[u] =
          IF u = t THEN Snapshot(totalRequests_, snapshot[t].requestCountByURL_,
                                 snapshot[t].responseCountByCode_)
          ELSE snapshot[u]
    <3>1. snapshot[t] = Snapshot(snapshot[t].totalRequests_, snapshot[t].requestCountByURL_,
                                 snapshot[t].responseCountByCode_)
      BY <1>1
    <3> QED
      BY <1>1, <1>6, <3>1 DEF CopyTotal, TypeOK
  <2>2. \A u \in Threads : pc'[u] = IF u = t THEN "copyByUrl" ELSE pc[u]
    BY <1>1, <1>6 DEF CopyTotal, Goto, TypeOK
  <2>3. totalRequests_ = Cardinality(logged) /\ logged' = logged
    BY <1>1, <1>6 DEF TalliesExact, CopyTotal
  <2> QED
    BY <1>1, <2>1, <2>2, <2>3
<1>7. ASSUME NEW t \in Threads, CopyByUrl(t)
      PROVE  CopiesExact'
  <2>1. \A u \in Threads : snapshot'[u] =
          IF u = t THEN Snapshot(snapshot[t].totalRequests_, requestCountByURL_,
                                 snapshot[t].responseCountByCode_)
          ELSE snapshot[u]
    <3>1. snapshot[t] = Snapshot(snapshot[t].totalRequests_, snapshot[t].requestCountByURL_,
                                 snapshot[t].responseCountByCode_)
      BY <1>1
    <3> QED
      BY <1>1, <1>7, <3>1 DEF CopyByUrl, TypeOK
  <2>2. \A u \in Threads : pc'[u] = IF u = t THEN "copyByCode" ELSE pc[u]
    BY <1>1, <1>7 DEF CopyByUrl, Goto, TypeOK
  <2>3. CallsAt({"countTotal"}) = {}
    BY <1>7, HolderAlone DEF CopyByUrl, Goto, Copying, Logging
  <2>4. requestCountByURL_ = TallyByPrefix(logged) /\ logged' = logged
    BY <1>1, <1>7, <2>3 DEF TalliesExact, CopyByUrl
  <2>5. pc[t] = "copyByUrl"
    BY <1>7 DEF CopyByUrl, Goto
  <2>6. /\ snapshot'[t].totalRequests_ = Cardinality(logged)
        /\ snapshot'[t].requestCountByURL_ = TallyByPrefix(logged)
    <3>1. snapshot[t].totalRequests_ = Cardinality(logged)
      BY <1>1, <2>5
    <3>2. snapshot'[t] = Snapshot(Cardinality(logged), TallyByPrefix(logged),
                                  snapshot[t].responseCountByCode_)
      BY <2>1, <2>4, <3>1
    <3> QED
      BY <3>2
  <2> QED
    BY <1>1, <2>1, <2>2, <2>4, <2>6
<1>8. ASSUME NEW t \in Threads, CopyByCode(t)
      PROVE  CopiesExact'
  <2>1. \A u \in Threads : snapshot'[u] =
          IF u = t THEN Snapshot(snapshot[t].totalRequests_, snapshot[t].requestCountByURL_,
                                 responseCountByCode_)
          ELSE snapshot[u]
    <3>1. snapshot[t] = Snapshot(snapshot[t].totalRequests_, snapshot[t].requestCountByURL_,
                                 snapshot[t].responseCountByCode_)
      BY <1>1
    <3> QED
      BY <1>1, <1>8, <3>1 DEF CopyByCode, TypeOK
  <2>2. \A u \in Threads : pc'[u] = IF u = t THEN "return" ELSE pc[u]
    BY <1>1, <1>8 DEF CopyByCode, Goto, TypeOK
  <2>3. logged' = logged
    BY <1>8 DEF CopyByCode
  <2> QED
    BY <1>1, <2>1, <2>2, <2>3
<1>9. ASSUME NEW t \in Threads, ReturnSnapshot(t)
      PROVE  CopiesExact'
  BY <1>1, <1>9 DEF ReturnSnapshot, Goto, TypeOK
<1>10. CASE UNCHANGED vars
  BY <1>1, <1>10 DEF vars
<1> QED
  BY <1>2, <1>3, <1>4, <1>5, <1>6, <1>7, <1>8, <1>9, <1>10 DEF Next

-----------------------------------------------------------------------------

\* ServerStatus::LogRequest and GetSnapshot keep the mutex protocol and the
\* exact tallies, for any number of threads and any finite number of calls.
THEOREM Invariance == Spec => []IInv
<1>1. IInv /\ [Next]_vars => IInv'
  BY ControlStep, TalliesStep, CopiesStep DEF IInv
<1> QED
  BY InitIInv, <1>1, PTL DEF Spec

LEMMA RefinesInit == Init => Ledger!Init
BY EmptyTallies DEF Init, Ledger!Init, ViewOf, EmptySnapshot, SnapshotOf

LEMMA RefinesNext ==
  ASSUME IInv, IInv', [Next]_vars
  PROVE  [Ledger!Next]_Ledger!vars
<1> DEFINE view == [t \in Threads |-> ViewOf(t)]
<1> USE DEF Ledger!vars
<1>1. TypeOK /\ CopiesExact /\ TalliesExact
  BY DEF IInv
<1>2. ASSUME NEW t \in Threads,
             (\E r \in Requests : BeginLogRequest(t, r)) \/ CountByCode(t) \/ CountByUrl(t)
             \/ BeginGetSnapshot(t) \/ CopyTotal(t) \/ CopyByUrl(t)
      PROVE  UNCHANGED Ledger!vars
  <2>1. ASSUME NEW u \in Threads
        PROVE  ViewOf(u)' = ViewOf(u)
    BY <1>1, <1>2
    DEF BeginLogRequest, CountByCode, CountByUrl, BeginGetSnapshot, CopyTotal, CopyByUrl,
        Goto, TypeOK, ViewOf
  <2>2. logged' = logged
    BY <1>2
    DEF BeginLogRequest, CountByCode, CountByUrl, BeginGetSnapshot, CopyTotal, CopyByUrl
  <2> QED
    BY <2>1, <2>2
<1>3. ASSUME NEW t \in Threads, CountTotal(t)
      PROVE  Ledger!LogRequest(call[t])
  <2>1. ASSUME NEW u \in Threads
        PROVE  ViewOf(u)' = ViewOf(u)
    BY <1>1, <1>3 DEF CountTotal, Goto, TypeOK, ViewOf
  <2>2. call[t] \notin logged
    BY <1>3, LoggedFinite DEF CountTotal, Goto, Logging
  <2> QED
    BY <1>3, <2>1, <2>2 DEF CountTotal, Ledger!LogRequest
<1>4. ASSUME NEW t \in Threads, CopyByCode(t)
      PROVE  Ledger!GetSnapshot(t)
  <2>1. ASSUME NEW u \in Threads, u # t
        PROVE  ViewOf(u)' = ViewOf(u)
    BY <1>1, <1>4, <2>1 DEF CopyByCode, Goto, TypeOK, ViewOf
  <2>2. ViewOf(t)' = SnapshotOf(logged)
    <3>1. CallsAt({"countByUrl", "countTotal"}) = {}
      BY <1>4, HolderAlone DEF CopyByCode, Goto, Copying, Logging
    <3>2. responseCountByCode_ = Tally(logged, CodeOf)
      BY <1>1, <3>1 DEF TalliesExact
    <3>3. snapshot[t] = Snapshot(Cardinality(logged), TallyByPrefix(logged),
                                 snapshot[t].responseCountByCode_)
      BY <1>1, <1>4 DEF CopiesExact, CopyByCode, Goto, Snapshot
    <3>4. snapshot'[t] = Snapshot(Cardinality(logged), TallyByPrefix(logged),
                                  responseCountByCode_)
      BY <1>1, <1>4, <3>3 DEF CopyByCode, TypeOK, Snapshot
    <3>5. pc'[t] = "return"
      BY <1>1, <1>4 DEF CopyByCode, Goto, TypeOK
    <3> QED
      BY <3>2, <3>4, <3>5 DEF ViewOf, SnapshotOf
  <2>3. logged' = logged
    BY <1>4 DEF CopyByCode
  <2>4. view' = [view EXCEPT ![t] = SnapshotOf(logged)]
    <3> HIDE DEF view
    <3>1. view' = [u \in Threads |-> ViewOf(u)'] /\ view = [u \in Threads |-> ViewOf(u)]
      BY DEF view
    <3> QED
      BY <2>1, <2>2, <3>1
  <2> QED
    BY <2>3, <2>4 DEF Ledger!GetSnapshot
<1>5. ASSUME NEW t \in Threads, ReturnSnapshot(t)
      PROVE  UNCHANGED Ledger!vars
  <2>1. ASSUME NEW u \in Threads
        PROVE  ViewOf(u)' = ViewOf(u)
    BY <1>1, <1>5 DEF ReturnSnapshot, Goto, TypeOK, ViewOf
  <2> QED
    BY <1>5, <2>1 DEF ReturnSnapshot
<1>6. CASE UNCHANGED vars
  BY <1>6 DEF vars, ViewOf
<1>7. ASSUME NEW t \in Threads, CountTotal(t)
      PROVE  call[t] \in Requests
  BY <1>7 DEF IInv, TypeOK, CallsFresh, CountTotal, Goto, Logging
<1> QED
  BY <1>2, <1>3, <1>4, <1>5, <1>6, <1>7 DEF Next, Ledger!Next

\* ServerStatus (server.cc) implements RequestLedger: each LogRequest takes
\* effect at one instant, and each GetSnapshot returns the tallies of exactly
\* the calls that had taken effect at one instant.
THEOREM Refinement == Spec => RefinesLedger
<1>1. IInv /\ IInv' /\ [Next]_vars => [Ledger!Next]_Ledger!vars
  BY RefinesNext
<1> QED
  BY RefinesInit, Invariance, <1>1, PTL DEF Spec, Ledger!Spec, RefinesLedger
=============================================================================
