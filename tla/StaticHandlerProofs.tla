------------------------ MODULE StaticHandlerProofs -------------------------
(***************************************************************************)
(* For any number of threads, the types of the sessions, and that cookies  *)
(* and login forms of any length are read as the browser meant them; with  *)
(* one thread, that the sessions of StaticHandler mean what they should,   *)
(* for any cookies, timeouts and length of run.                            *)
(***************************************************************************)
EXTENDS StaticHandler, SequenceLemmas

OneThread == \A t, u \in Threads : t = u

\* The map says when each of its cookies was issued, and has every cookie whose
\* session lasts.
MapExact ==
  /\ \A c \in Sessions :
       issued[c] # -1 /\ cookie_expiration_map_[c] = issued[c] + timeout_
  /\ \A c \in Cookies : issued[c] # -1 /\ issued[c] + timeout_ > now => c \in Sessions

\* Nothing happens before Init.
FreshUntilInit ==
  configured = "no" =>
    /\ \A t \in Threads : pc[t] = "idle"
    /\ \A c \in Cookies : issued[c] = -1

\* What the purge has visited was alive when the request came.
Purged(t) ==
  /\ pc[t] \in {"purging", "lookup"} => \A c \in Cookies : issued[c] <= started[t]
  /\ pc[t] = "purging" =>
       \A c \in Sessions \ unseen[t] : cookie_expiration_map_[c] > started[t]
  /\ pc[t] = "lookup" =>
       \A c \in Sessions : cookie_expiration_map_[c] > started[t]
  /\ pc[t] = "insert" => cookie[t] \notin Sessions

SInv ==
  /\ SessionTypeOK
  /\ MapExact
  /\ FreshUntilInit
  /\ \A t \in Threads : Purged(t)
  /\ AdmittedInSession

\* The types, one by one.
LEMMA Types ==
  ASSUME SInv
  PROVE  /\ now \in 0..MaxTime /\ now \in Nat /\ timeout_ \in Int
         /\ Sessions \subseteq Cookies
         /\ \A c \in Cookies : issued[c] \in Int /\ issued[c] >= -1 /\ issued[c] <= now
         /\ \A t \in Threads : started[t] \in Int /\ started[t] >= 0 /\ started[t] <= now
         /\ \A c \in Sessions : cookie_expiration_map_[c] \in Int
<1>1. /\ now \in 0..MaxTime
      /\ timeout_ \in Timeouts \cup {-1}
      /\ Sessions \subseteq Cookies
      /\ started \in [Threads -> 0..now]
      /\ issued \in [Cookies -> -1..now]
      /\ cookie_expiration_map_ \in [Sessions -> Int]
  BY Zenon DEF SInv, SessionTypeOK
<1>2. now \in Nat
  BY <1>1, SessionAssumption
<1>3. timeout_ \in Int
  BY <1>1, SessionAssumption
<1>4. \A c \in Cookies : issued[c] \in -1..now
  BY <1>1
<1>5. \A t \in Threads : started[t] \in 0..now
  BY <1>1
<1>6. \A c \in Sessions : cookie_expiration_map_[c] \in Int
  BY <1>1
<1> QED BY <1>1, <1>2, <1>3, <1>4, <1>5, <1>6

LEMMA TickStep ==
  ASSUME SInv, Tick
  PROVE  SInv'
<1>1. /\ now \in 0..MaxTime /\ now' = now + 1 /\ now' \in 0..MaxTime
      /\ Sessions' = Sessions
      /\ UNCHANGED <<configured, authentication_map_, timeout_, cookie_expiration_map_, issued>>
      /\ UNCHANGED <<pc, cookie, unseen, started, sent, answer>>
  BY Types, SessionAssumption DEF Tick, settings, request, Sessions
<1>2. timeout_ \in Int
  BY Types
<1>3. issued' \in [Cookies -> -1..now'] /\ started' \in [Threads -> 0..now']
  <2>1. -1..now \subseteq -1..now' /\ 0..now \subseteq 0..now'
    BY <1>1
  <2>2. issued \in [Cookies -> -1..now] /\ started \in [Threads -> 0..now]
    BY DEF SInv, SessionTypeOK
  <2>3. (\A c \in Cookies : issued[c] \in -1..now') /\ (\A t \in Threads : started[t] \in 0..now')
    BY <2>1, <2>2
  <2> QED BY <1>1, <2>2, <2>3
<1>4. SessionTypeOK'
  BY <1>1, <1>3 DEF SInv, SessionTypeOK
<1>5. MapExact'
  <2>1. \A c \in Cookies : issued[c] + timeout_ > now' => issued[c] + timeout_ > now
    BY <1>1, <1>2, Types
  <2> QED BY <1>1, <2>1 DEF SInv, MapExact
<1>6. FreshUntilInit' /\ (\A t \in Threads : Purged(t)') /\ AdmittedInSession'
  BY <1>1 DEF SInv, FreshUntilInit, Purged, AdmittedInSession
<1> QED BY <1>4, <1>5, <1>6 DEF SInv

LEMMA InitStep ==
  ASSUME SInv, Init
  PROVE  SInv'
<1>1. \A t \in Threads : pc[t] = "idle"
  BY DEF Init, SInv, FreshUntilInit
<1>2. Sessions = {}
  BY DEF Init, SInv, FreshUntilInit, MapExact, SessionTypeOK
<1> QED
  BY <1>1, <1>2
     DEF SInv, Init, SessionTypeOK, MapExact, FreshUntilInit, Purged, AdmittedInSession,
         request, Sessions

\* Whatever the header, what comes of it is a cookie or none.
LEMMA CookieKnown == \A header : RequestCookie(header) \in Cookies \cup {NoCookie}
BY DEF RequestCookie

\* Whatever the body, the login goes one of three ways.
LEMMA OutcomeKnown == \A body : LoginOutcome(body) \in {"bad form", "failed login", "login"}
BY DEF LoginOutcome

\* The steps that leave the map, the clock and the settings alone.
LEMMA RequestStep ==
  ASSUME SInv, OneThread, NEW t \in Threads,
         \/ \E list \in CookieLists : BeginGet(t, list)
         \/ \E form \in Forms : BeginPost(t, form)
         \/ BeginUnguarded(t)
         \/ EndPurge(t) \/ Refuse(t) \/ Admit(t) \/ ServeFile(t)
         \/ RejectLogin(t) \/ DrawCookie(t)
  PROVE  SInv'
<1>1. /\ UNCHANGED <<now, configured, authentication_map_, timeout_, cookie_expiration_map_, issued>>
      /\ Sessions' = Sessions
      /\ configured # "no"
  BY DEF BeginGet, BeginPost, BeginUnguarded, Begin, EndPurge, Refuse, Admit, ServeFile,
         RejectLogin, Finish, DrawCookie, Goto, settings, Sessions, SInv, FreshUntilInit
<1>2. \A u \in Threads : u = t
  BY DEF OneThread
<1>3. MapExact' /\ FreshUntilInit'
  BY <1>1 DEF SInv, MapExact, FreshUntilInit
<1>4. SUFFICES SessionTypeOK' /\ Purged(t)' /\ AdmittedInSession'
  BY <1>2, <1>3 DEF SInv
<1>5. now \in 0..now /\ \A c \in Cookies : issued[c] <= now
  BY Types
<1>6. CASE \E list \in CookieLists : BeginGet(t, list)
  <2>1. PICK list \in CookieLists : BeginGet(t, list)
    BY <1>6
  <2>2. /\ pc' = [pc EXCEPT ![t] = "purging"]
        /\ unseen' = [unseen EXCEPT ![t] = Sessions]
        /\ started' = [started EXCEPT ![t] = now]
        /\ cookie' = [cookie EXCEPT ![t] = RequestCookie(CookieText(list))]
        /\ answer' = [answer EXCEPT ![t] = "none"]
    BY <2>1 DEF BeginGet, Begin, Goto
  <2>3. RequestCookie(CookieText(list)) \in Cookies \cup {NoCookie}
    BY CookieKnown
  <2>4. SessionTypeOK'
    BY <1>1, <1>5, <2>2, <2>3 DEF SInv, SessionTypeOK
  <2>5. Purged(t)' /\ AdmittedInSession'
    BY <1>1, <1>2, <1>5, <2>2 DEF SInv, SessionTypeOK, Purged, AdmittedInSession
  <2> QED BY <2>4, <2>5
<1>7. CASE (\E form \in Forms : BeginPost(t, form)) \/ BeginUnguarded(t)
  <2>1. PICK to \in {"bad form", "failed login", "login", "file"} :
          pc' = [pc EXCEPT ![t] = to]
    <3>1. CASE BeginUnguarded(t)
      BY <3>1 DEF BeginUnguarded, Begin, Goto
    <3>2. CASE \E form \in Forms : BeginPost(t, form)
      <4>1. PICK form \in Forms : BeginPost(t, form)
        BY <3>2
      <4>2. pc' = [pc EXCEPT ![t] = LoginOutcome(FormText(form))]
        BY <4>1 DEF BeginPost, Begin, Goto
      <4> QED BY <4>2, OutcomeKnown
    <3> QED BY <1>7, <3>1, <3>2
  <2>2. /\ UNCHANGED unseen
        /\ started' = [started EXCEPT ![t] = now]
        /\ cookie' = [cookie EXCEPT ![t] = NoCookie]
        /\ answer' = [answer EXCEPT ![t] = "none"]
    BY <1>7 DEF BeginPost, BeginUnguarded, Begin, Goto
  <2>3. SessionTypeOK'
    BY <1>1, <1>5, <2>1, <2>2 DEF SInv, SessionTypeOK
  <2>4. Purged(t)' /\ AdmittedInSession'
    BY <1>1, <1>2, <2>1, <2>2 DEF SInv, SessionTypeOK, Purged, AdmittedInSession
  <2> QED BY <2>3, <2>4
<1>8. CASE EndPurge(t)
  BY <1>1, <1>2, <1>8
     DEF SInv, SessionTypeOK, Purged, AdmittedInSession, EndPurge, Goto
<1>9. CASE Admit(t)
  <2>1. /\ cookie[t] \in Sessions /\ cookie[t] # NoCookie /\ pc[t] = "lookup"
        /\ pc' = [pc EXCEPT ![t] = "guarded file"]
        /\ UNCHANGED <<cookie, unseen, started, answer>>
    BY <1>9 DEF Admit, Goto
  <2>2. SessionTypeOK' /\ Purged(t)'
    BY <1>1, <2>1 DEF SInv, SessionTypeOK, Purged
  <2>3. /\ issued[cookie[t]] \in 0..started[t]
        /\ issued[cookie[t]] + timeout_ > started[t]
    <3>1. cookie[t] \in Cookies
      BY <2>1, Types
    <3>2. issued[cookie[t]] # -1 /\ issued[cookie[t]] + timeout_ > started[t]
      BY <2>1 DEF SInv, MapExact, Purged
    <3>3. issued[cookie[t]] <= started[t]
      BY <2>1, <3>1 DEF SInv, Purged
    <3>4. /\ issued[cookie[t]] \in Int /\ issued[cookie[t]] >= -1
          /\ started[t] \in Int
      BY <3>1, Types
    <3> QED BY <3>2, <3>3, <3>4
  <2> QED BY <1>1, <1>2, <2>1, <2>2, <2>3 DEF AdmittedInSession
<1>10. CASE Refuse(t) \/ ServeFile(t) \/ RejectLogin(t)
  <2>1. PICK how \in {"unauthorized", "admitted", "unguarded", "bad_request", "found"} :
          answer' = [answer EXCEPT ![t] = how]
    BY <1>10 DEF Refuse, ServeFile, RejectLogin, Finish
  <2>2. pc' = [pc EXCEPT ![t] = "idle"] /\ UNCHANGED <<cookie, unseen, started>>
    BY <1>10 DEF Refuse, ServeFile, RejectLogin, Finish, Goto
  <2> QED
    BY <1>1, <1>2, <2>1, <2>2 DEF SInv, SessionTypeOK, Purged, AdmittedInSession
<1>11. CASE DrawCookie(t)
  <2>1. PICK c \in Cookies \ Sessions : cookie' = [cookie EXCEPT ![t] = c]
    BY <1>11 DEF DrawCookie
  <2>2. pc' = [pc EXCEPT ![t] = "insert"] /\ UNCHANGED <<unseen, started, answer>>
    BY <1>11 DEF DrawCookie, Goto
  <2> QED
    BY <1>1, <1>2, <2>1, <2>2 DEF SInv, SessionTypeOK, Purged, AdmittedInSession
<1> QED BY <1>6, <1>7, <1>8, <1>9, <1>10, <1>11

LEMMA PurgeStep ==
  ASSUME SInv, OneThread, NEW t \in Threads, NEW c \in Cookies, PurgeOne(t, c)
  PROVE  SInv'
<1>1. \A u \in Threads : u = t
  BY DEF OneThread
<1>2. /\ Sessions' = Sessions \ {e \in {c} : Expired(e)}
      /\ \A d \in Sessions' : cookie_expiration_map_'[d] = cookie_expiration_map_[d]
      /\ pc[t] = "purging" /\ pc' = pc
      /\ UNCHANGED <<now, configured, authentication_map_, timeout_, cookie, started, answer, issued>>
      /\ unseen' = [unseen EXCEPT ![t] = @ \ {c}]
  BY DEF PurgeOne, Goto, Sessions, SInv, SessionTypeOK, settings
<1>7. cookie_expiration_map_' \in [Sessions' -> Int]
  BY DEF PurgeOne, Sessions, SInv, SessionTypeOK
<1>3. SessionTypeOK'
  BY <1>2, <1>7 DEF SInv, SessionTypeOK, settings
<1>4. MapExact' /\ FreshUntilInit'
  BY <1>2, Types DEF SInv, MapExact, FreshUntilInit, Expired, settings
<1>5. Purged(t)'
  <2>1. unseen[t] \subseteq Cookies /\ unseen'[t] = unseen[t] \ {c}
    BY <1>2 DEF SInv, SessionTypeOK
  <2>2. \A d \in Sessions' \ unseen'[t] : cookie_expiration_map_[d] > started[t]
    BY <1>2, <2>1, Types DEF SInv, Purged, Expired
  <2> QED BY <1>2, <2>2 DEF SInv, Purged
<1>6. AdmittedInSession'
  BY <1>2 DEF SInv, AdmittedInSession, settings
<1> QED BY <1>1, <1>3, <1>4, <1>5, <1>6 DEF SInv

LEMMA InsertStep ==
  ASSUME SInv, OneThread, NEW t \in Threads, InsertCookie(t)
  PROVE  SInv'
<1> DEFINE c == cookie[t]
<1>1. \A u \in Threads : u = t
  BY DEF OneThread
<1>2. c \in Cookies /\ c \notin Sessions /\ pc[t] = "insert"
  BY DEF InsertCookie, Finish, Goto, SInv, SessionTypeOK, Purged
<1>3. /\ Sessions' = Sessions \cup {c}
      /\ \A d \in Sessions : cookie_expiration_map_'[d] = cookie_expiration_map_[d]
      /\ cookie_expiration_map_'[c] = now + timeout_
      /\ issued' = [issued EXCEPT ![c] = now]
      /\ pc' = [pc EXCEPT ![t] = "idle"]
      /\ answer' = [answer EXCEPT ![t] = "logged in"]
      /\ UNCHANGED <<now, configured, authentication_map_, timeout_, cookie, unseen, started>>
  BY <1>2 DEF InsertCookie, Expiring, settings, Finish, Goto, Sessions, SInv, SessionTypeOK
<1> HIDE DEF c
<1>4. now + timeout_ \in Int /\ now \in Nat
  BY Types
<1>5. SessionTypeOK'
  <2>1. cookie_expiration_map_' \in [Sessions' -> Int]
    <3>1. cookie_expiration_map_' = Expiring(t, now + timeout_)
      BY DEF InsertCookie
    <3> QED BY <1>2, <1>4, <3>1, Types DEF Expiring, Sessions, c
  <2>2. issued' \in [Cookies -> -1..now']
    <3>1. now' = now /\ issued' = [issued EXCEPT ![c] = now]
      BY <1>3
    <3>2. issued \in [Cookies -> -1..now]
      BY Zenon DEF SInv, SessionTypeOK
    <3>3. now \in -1..now
      BY <1>4
    <3> QED BY <3>1, <3>2, <3>3
  <2> QED BY <1>2, <1>3, <2>1, <2>2 DEF SInv, SessionTypeOK, settings
<1>6. MapExact'
  <2>1. issued \in [Cookies -> -1..now]
    BY Zenon DEF SInv, SessionTypeOK
  <2>2. \A d \in Cookies : issued'[d] = IF d = c THEN now ELSE issued[d]
    BY <1>3, <2>1
  <2>3. now # -1
    BY <1>4
  <2>4. ASSUME NEW d \in Sessions'
        PROVE  issued'[d] # -1 /\ cookie_expiration_map_'[d] = issued'[d] + timeout_
    <3>1. CASE d = c
      BY <1>2, <1>3, <2>2, <2>3, <3>1
    <3>2. CASE d # c
      <4>1. d \in Sessions /\ d \in Cookies
        BY <1>3, <2>4, <3>2, Types
      <4>2. issued[d] # -1 /\ cookie_expiration_map_[d] = issued[d] + timeout_
        BY <4>1 DEF SInv, MapExact
      <4> QED BY <1>3, <2>2, <3>2, <4>1, <4>2
    <3> QED BY <3>1, <3>2
  <2>5. ASSUME NEW d \in Cookies, issued'[d] # -1, issued'[d] + timeout_ > now
        PROVE  d \in Sessions'
    <3>1. CASE d = c
      BY <1>3, <3>1
    <3>2. CASE d # c
      <4>1. issued[d] # -1 /\ issued[d] + timeout_ > now
        BY <2>2, <2>5, <3>2
      <4> QED BY <1>3, <4>1 DEF SInv, MapExact
    <3> QED BY <3>1, <3>2
  <2>6. timeout_' = timeout_ /\ now' = now
    BY <1>3
  <2> QED BY <2>4, <2>5, <2>6 DEF MapExact
<1>7. FreshUntilInit'
  BY <1>2, <1>3 DEF SInv, FreshUntilInit, settings
<1>8. Purged(t)' /\ AdmittedInSession'
  BY <1>1, <1>3 DEF SInv, SessionTypeOK, Purged, AdmittedInSession
<1> QED BY <1>1, <1>5, <1>6, <1>7, <1>8 DEF SInv

\* A live session is left alone.
LEMMA ApartStep ==
  ASSUME SInv, [SessionNext]_sessionVars
  PROVE  \A c \in Sessions : ~ Expired(c) =>
           c \in Sessions' /\ cookie_expiration_map_'[c] = cookie_expiration_map_[c]
<1>1. CASE UNCHANGED cookie_expiration_map_
  BY <1>1 DEF Sessions
<1>2. CASE \E t \in Threads, c \in Cookies : PurgeOne(t, c)
  BY <1>2 DEF PurgeOne, Sessions
<1>3. CASE \E t \in Threads : InsertCookie(t)
  BY <1>3 DEF InsertCookie, Expiring, Finish, Goto, Sessions, SInv, Purged
<1> QED
  BY <1>1, <1>2, <1>3
     DEF SessionNext, sessionVars, Tick, Init, SessionEnd, BeginGet, BeginPost, BeginUnguarded,
         Begin, EndPurge, Refuse, Admit, ServeFile, RejectLogin, Finish, DrawCookie

LEMMA SessionInvariance == ASSUME OneThread PROVE SessionSpec => []SInv
<1>1. SessionInit => SInv
  <2> SUFFICES ASSUME SessionInit PROVE SInv
    OBVIOUS
  <2>1. Sessions = {} /\ cookie_expiration_map_ \in [{} -> Int]
    BY DEF SessionInit, Sessions
  <2>2. now = 0 /\ 0 \in 0..MaxTime
    BY SessionAssumption DEF SessionInit
  <2>3. SessionTypeOK
    <3>1. issued \in [Cookies -> -1..now]
      BY <2>2 DEF SessionInit
    <3>2. started \in [Threads -> 0..now]
      BY <2>2 DEF SessionInit
    <3> QED BY <2>1, <2>2, <3>1, <3>2 DEF SessionInit, SessionTypeOK
  <2> QED
    BY <2>1, <2>3 DEF SessionInit, SInv, MapExact, FreshUntilInit, Purged, AdmittedInSession
<1>2. SInv /\ [SessionNext]_sessionVars => SInv'
  <2> SUFFICES ASSUME SInv, [SessionNext]_sessionVars
               PROVE  SInv'
    OBVIOUS
  <2>1. CASE UNCHANGED sessionVars
    BY <2>1 DEF sessionVars, settings, request, SInv, SessionTypeOK, MapExact, FreshUntilInit,
       Purged, AdmittedInSession, Sessions
  <2> QED
    BY <2>1, TickStep, InitStep, RequestStep, PurgeStep, InsertStep, OneThread
       DEF SessionNext, SessionEnd
<1> QED BY <1>1, <1>2, PTL DEF SessionSpec

\* A guarded file is served only in a session (static_handler.cc:118-134).
THEOREM SessionsHold ==
  ASSUME OneThread
  PROVE  SessionSpec => []AdmittedInSession
<1>1. SInv => AdmittedInSession
  BY DEF SInv
<1> QED BY <1>1, SessionInvariance, PTL

\* Nobody who has logged in is sent back to the login page before the timeout
\* (static_handler.cc:123).
THEOREM SessionsLast ==
  ASSUME OneThread
  PROVE  SessionSpec => []SessionKept
<1>1. SInv => SessionKept
  BY DEF SInv, SessionKept, MapExact
<1> QED BY <1>1, SessionInvariance, PTL

\* No step ends or moves a session that lasts (static_handler.cc:193-207,
\* 312-323).
THEOREM SessionsStayApart ==
  ASSUME OneThread
  PROVE  SessionSpec => SessionsApart
<1>1. SInv /\ [SessionNext]_sessionVars
        => [\A c \in Sessions : ~ Expired(c) =>
              c \in Sessions' /\ cookie_expiration_map_'[c] = cookie_expiration_map_[c]]_sessionVars
  BY ApartStep
<1> QED BY <1>1, SessionInvariance, PTL DEF SessionSpec, SessionsApart

\* The types hold with any number of threads.
LEMMA ClockTypes ==
  ASSUME SessionTypeOK
  PROVE  /\ now \in 0..MaxTime /\ now \in 0..now /\ now \in -1..now
         /\ now + timeout_ \in Int /\ Sessions \subseteq Cookies
<1>1. now \in 0..MaxTime /\ timeout_ \in Timeouts \cup {-1} /\ Sessions \subseteq Cookies
  BY Zenon DEF SessionTypeOK
<1> QED BY <1>1, SessionAssumption

LEMMA ClockOrInitTypes ==
  ASSUME SessionTypeOK, Tick \/ Init
  PROVE  SessionTypeOK'
<1>1. CASE Init
  BY <1>1 DEF Init, SessionTypeOK, request, Sessions
<1>2. CASE Tick
  <2>1. /\ now \in 0..MaxTime /\ now' = now + 1 /\ now' \in 0..MaxTime
        /\ UNCHANGED <<settings, cookie_expiration_map_, request, issued>>
    <3>1. now < MaxTime /\ now' = now + 1
      BY <1>2, Zenon DEF Tick
    <3>2. UNCHANGED <<settings, cookie_expiration_map_, request, issued>>
      BY <1>2, Zenon DEF Tick
    <3> QED BY <3>1, <3>2, ClockTypes, SessionAssumption
  <2>2. -1..now \subseteq -1..now' /\ 0..now \subseteq 0..now'
    BY <2>1
  <2>3. issued \in [Cookies -> -1..now] /\ started \in [Threads -> 0..now]
    BY DEF SessionTypeOK
  <2>4. issued' \in [Cookies -> -1..now'] /\ started' \in [Threads -> 0..now']
    <3>1. (\A c \in Cookies : issued[c] \in -1..now') /\ (\A t \in Threads : started[t] \in 0..now')
      BY <2>2, <2>3
    <3> QED BY <2>1, <2>3, <3>1 DEF request
  <2> QED BY <2>1, <2>4 DEF SessionTypeOK, settings, request, Sessions
<1> QED BY <1>1, <1>2

LEMMA BeginTypes ==
  ASSUME SessionTypeOK, NEW t \in Threads,
         NEW list, NEW c \in Cookies \cup {NoCookie},
         NEW to \in {"purging", "bad form", "failed login", "login", "file"},
         Begin(t, list, c, to), unseen' = unseen \/ unseen' = [unseen EXCEPT ![t] = Sessions]
  PROVE  SessionTypeOK'
<1>1. /\ now' = now /\ timeout_' = timeout_ /\ configured' = configured /\ issued' = issued
      /\ cookie_expiration_map_' = cookie_expiration_map_ /\ Sessions' = Sessions
      /\ pc' = [pc EXCEPT ![t] = to] /\ cookie' = [cookie EXCEPT ![t] = c]
      /\ started' = [started EXCEPT ![t] = now] /\ answer' = [answer EXCEPT ![t] = "none"]
  BY DEF Begin, Goto, settings, Sessions
<1>2. now \in 0..now /\ Sessions \subseteq Cookies
  BY ClockTypes
<1>3. unseen' \in [Threads -> SUBSET Cookies]
  BY <1>2 DEF SessionTypeOK
<1>4. started' \in [Threads -> 0..now']
  BY <1>1, <1>2 DEF SessionTypeOK
<1> QED BY <1>1, <1>2, <1>3, <1>4 DEF SessionTypeOK

LEMMA FinishTypes ==
  ASSUME SessionTypeOK, NEW t \in Threads, NEW from,
         NEW how \in {"unauthorized", "admitted", "unguarded", "bad_request", "found"},
         Finish(t, from, how), UNCHANGED <<cookie_expiration_map_, issued>>
  PROVE  SessionTypeOK'
BY DEF SessionTypeOK, Finish, Goto, settings, Sessions

LEMMA RequestTypes ==
  ASSUME SessionTypeOK, NEW t \in Threads,
         \/ \E list \in CookieLists : BeginGet(t, list)
         \/ \E form \in Forms : BeginPost(t, form)
         \/ BeginUnguarded(t)
         \/ EndPurge(t) \/ Refuse(t) \/ Admit(t) \/ ServeFile(t)
         \/ RejectLogin(t) \/ DrawCookie(t)
  PROVE  SessionTypeOK'
<1>1. CASE \E list \in CookieLists : BeginGet(t, list)
  BY <1>1, CookieKnown, BeginTypes DEF BeginGet
<1>2. CASE \E form \in Forms : BeginPost(t, form)
  BY <1>2, OutcomeKnown, BeginTypes DEF BeginPost
<1>3. CASE BeginUnguarded(t)
  BY <1>3, BeginTypes DEF BeginUnguarded
<1>4. CASE EndPurge(t) \/ Admit(t) \/ DrawCookie(t)
  <2>1. PICK to \in {"lookup", "guarded file", "insert"} : pc' = [pc EXCEPT ![t] = to]
    BY <1>4 DEF EndPurge, Admit, DrawCookie, Goto
  <2>2. /\ UNCHANGED <<now, configured, timeout_, cookie_expiration_map_, unseen, started, answer, issued>>
        /\ Sessions' = Sessions
    BY <1>4 DEF EndPurge, Admit, DrawCookie, Sessions, settings
  <2>3. \/ cookie' = cookie /\ to # "insert"
        \/ \E c \in Cookies : cookie' = [cookie EXCEPT ![t] = c]
    BY <1>4, <2>1 DEF EndPurge, Admit, DrawCookie, Goto, SessionTypeOK
  <2> QED BY <2>1, <2>2, <2>3 DEF SessionTypeOK
<1>5. CASE Refuse(t) \/ ServeFile(t) \/ RejectLogin(t)
  BY <1>5, FinishTypes DEF Refuse, ServeFile, RejectLogin
<1> QED BY <1>1, <1>2, <1>3, <1>4, <1>5

LEMMA MapTypes ==
  ASSUME SessionTypeOK, NEW t \in Threads,
         InsertCookie(t) \/ \E c \in Cookies : PurgeOne(t, c)
  PROVE  SessionTypeOK'
<1>1. CASE \E c \in Cookies : PurgeOne(t, c)
  <2>1. PICK c \in Cookies : PurgeOne(t, c)
    BY <1>1
  <2>2. /\ Sessions' \subseteq Sessions
        /\ cookie_expiration_map_' \in [Sessions' -> Int]
        /\ UNCHANGED <<now, configured, timeout_, cookie, started, answer, issued>>
        /\ pc' = [pc EXCEPT ![t] = "purging"]
        /\ unseen' = [unseen EXCEPT ![t] = @ \ {c}]
    BY <2>1 DEF PurgeOne, Goto, Sessions, SessionTypeOK, settings
  <2> QED BY <2>2 DEF SessionTypeOK
<1>2. CASE InsertCookie(t)
  <2>1. cookie[t] \in Cookies
    BY <1>2 DEF InsertCookie, Finish, Goto, SessionTypeOK
  <2>2. now + timeout_ \in Int /\ now \in -1..now
    BY ClockTypes
  <2>3. /\ Sessions' = Sessions \cup {cookie[t]}
        /\ cookie_expiration_map_' \in [Sessions' -> Int]
        /\ issued' = [issued EXCEPT ![cookie[t]] = now]
        /\ pc' = [pc EXCEPT ![t] = "idle"] /\ answer' = [answer EXCEPT ![t] = "logged in"]
        /\ UNCHANGED <<now, configured, timeout_, cookie, unseen, started>>
    BY <1>2, <2>2 DEF InsertCookie, Expiring, Finish, Goto, Sessions, SessionTypeOK, settings
  <2>4. issued' \in [Cookies -> -1..now']
    BY <2>1, <2>2, <2>3 DEF SessionTypeOK
  <2> QED BY <2>1, <2>3, <2>4 DEF SessionTypeOK
<1> QED BY <1>1, <1>2

\* However many threads call the handler, what it and they keep has its types.
THEOREM SessionTypes == SessionSpec => []SessionTypeOK
<1>1. SessionInit => SessionTypeOK
  BY SessionAssumption DEF SessionInit, SessionTypeOK, Sessions
<1>2. SessionTypeOK /\ [SessionNext]_sessionVars => SessionTypeOK'
  <2> SUFFICES ASSUME SessionTypeOK, [SessionNext]_sessionVars
               PROVE  SessionTypeOK'
    OBVIOUS
  <2>1. CASE UNCHANGED sessionVars
    BY <2>1 DEF sessionVars, settings, request, SessionTypeOK, Sessions
  <2> QED
    BY <2>1, ClockOrInitTypes, RequestTypes, MapTypes DEF SessionNext, SessionEnd
<1> QED BY <1>1, <1>2, PTL DEF SessionSpec

-----------------------------------------------------------------------------
\* Where the pairs of a list stand in its text

Piece(list, k, sep) == (IF k = 1 THEN <<>> ELSE sep) \o list[k].key \o <<"=">> \o list[k].value

TextOf(list, sep) == FlattenSeq([k \in DOMAIN list |-> Piece(list, k, sep)])

Equals(list, at, k) == at[k] + Len(list[k].key)

EndOf(list, at, k) == at[k] + Len(list[k].key) + Len(list[k].value)

\* at[k] is the place where the k-th pair begins.
LaidOut(s, list, sep, at) ==
  /\ \A k \in DOMAIN list :
       /\ at[k] \in Nat \ {0} /\ EndOf(list, at, k) <= Len(s)
       /\ \A i \in 1..Len(list[k].key) : s[at[k] - 1 + i] = list[k].key[i]
       /\ s[Equals(list, at, k)] = "="
       /\ \A i \in 1..Len(list[k].value) : s[Equals(list, at, k) + i] = list[k].value[i]
  /\ \A k \in 1..(Len(list) - 1) :
       s[EndOf(list, at, k) + 1] = sep[1] /\ at[k + 1] = EndOf(list, at, k) + Len(sep) + 1
  /\ IF list = <<>> THEN s = <<>>
     ELSE at[1] = 1 /\ EndOf(list, at, Len(list)) = Len(s)

LEMMA PairTexts ==
  ASSUME NEW p \in Pairs
  PROVE  p.key \in Seq(Tokens) /\ p.value \in Seq(Tokens) /\ p = Pair(p.key, p.value)
BY DEF Pairs, Pair

\* u is s followed by t.
IsCat(u, s, t) ==
  /\ u = s \o t /\ Len(u) = Len(s) + Len(t) /\ Len(s) \in Nat /\ Len(t) \in Nat
  /\ \A i \in 1..Len(s) : u[i] = s[i]
  /\ \A i \in 1..Len(t) : u[Len(s) + i] = t[i]

LEMMA ConcatOf ==
  ASSUME NEW S, NEW s \in Seq(S), NEW t \in Seq(S)
  PROVE  \E u \in Seq(S) : IsCat(u, s, t)
<1>1. /\ s \o t \in Seq(S) /\ Len(s \o t) = Len(s) + Len(t) /\ Len(s) \in Nat /\ Len(t) \in Nat
      /\ \A k \in 1..Len(s) : (s \o t)[k] = s[k]
      /\ \A k \in 1..Len(t) : (s \o t)[Len(s) + k] = t[k]
  BY ConcatElements
<1>2. IsCat(s \o t, s, t)
  BY <1>1, Zenon DEF IsCat
<1> QED
  BY <1>1, <1>2, Zenon

\* What a pair and the separator before it look like.
IsPiece(piece, lead, key, val) ==
  /\ piece = lead \o key \o <<"=">> \o val
  /\ Len(lead) \in Nat /\ Len(key) \in Nat /\ Len(val) \in Nat
  /\ Len(piece) = Len(lead) + Len(key) + Len(val) + 1
  /\ \A i \in 1..Len(lead) : piece[i] = lead[i]
  /\ \A i \in 1..Len(key) : piece[Len(lead) + i] = key[i]
  /\ piece[Len(lead) + Len(key) + 1] = "="
  /\ \A i \in 1..Len(val) : piece[Len(lead) + Len(key) + 1 + i] = val[i]

LEMMA PieceElements ==
  ASSUME NEW lead \in Seq(Tokens), NEW key \in Seq(Tokens), NEW val \in Seq(Tokens)
  PROVE  \E piece \in Seq(Tokens) : IsPiece(piece, lead, key, val)
<1>1. PICK one \in Seq(Tokens) : one = <<"=">> /\ Len(one) = 1 /\ one[1] = "="
  <2>1. "=" \in Tokens
    BY BrowserAssumption
  <2>2. <<"=">> \in Seq(Tokens) /\ Len(<<"=">>) = 1 /\ <<"=">>[1] = "="
    BY <2>1
  <2> QED BY <2>2, Zenon
<1>2. PICK a \in Seq(Tokens) : IsCat(a, lead, key)
  BY ConcatOf, Zenon
<1>3. PICK b \in Seq(Tokens) : IsCat(b, a, one)
  BY ConcatOf, Zenon
<1>4. PICK piece \in Seq(Tokens) : IsCat(piece, b, val)
  BY ConcatOf, Zenon
<1>5. piece = lead \o key \o <<"=">> \o val
  BY <1>1, <1>2, <1>3, <1>4, Zenon DEF IsCat
<1>6. /\ Len(lead) \in Nat /\ Len(key) \in Nat /\ Len(val) \in Nat
      /\ Len(a) = Len(lead) + Len(key) /\ Len(b) = Len(lead) + Len(key) + 1
      /\ Len(piece) = Len(lead) + Len(key) + Len(val) + 1
  <2>1. /\ Len(lead) \in Nat /\ Len(key) \in Nat /\ Len(val) \in Nat
        /\ Len(a) = Len(lead) + Len(key) /\ Len(b) = Len(a) + 1 /\ Len(piece) = Len(b) + Len(val)
    BY <1>1, <1>2, <1>3, <1>4, Zenon DEF IsCat
  <2> QED BY <2>1
<1>7. /\ \A i \in 1..Len(lead) : a[i] = lead[i]
      /\ \A i \in 1..Len(key) : a[Len(lead) + i] = key[i]
      /\ \A i \in 1..Len(a) : b[i] = a[i]
      /\ b[Len(a) + 1] = "="
      /\ \A i \in 1..Len(b) : piece[i] = b[i]
      /\ \A i \in 1..Len(val) : piece[Len(b) + i] = val[i]
  <2>1. \A i \in 1..1 : b[Len(a) + i] = one[i]
    BY <1>1, <1>3, Zenon DEF IsCat
  <2>2. b[Len(a) + 1] = one[1]
    BY <2>1
  <2> QED BY <1>1, <1>2, <1>3, <1>4, <2>2, Zenon DEF IsCat
<1>8. ASSUME NEW i \in 1..Len(lead)
      PROVE  piece[i] = lead[i]
  <2>1. i \in 1..Len(a) /\ i \in 1..Len(b)
    BY <1>6
  <2> QED BY <1>7, <2>1, Zenon
<1>9. ASSUME NEW i \in 1..Len(key)
      PROVE  piece[Len(lead) + i] = key[i]
  <2>1. Len(lead) + i \in 1..Len(a) /\ Len(lead) + i \in 1..Len(b)
    BY <1>6
  <2> QED BY <1>7, <2>1, Zenon
<1>10. piece[Len(lead) + Len(key) + 1] = "="
  <2>1. Len(a) + 1 = Len(b) /\ Len(b) \in 1..Len(b) /\ Len(b) = Len(lead) + Len(key) + 1
    BY <1>6
  <2> QED BY <1>7, <2>1, Zenon
<1>11. ASSUME NEW i \in 1..Len(val)
       PROVE  piece[Len(lead) + Len(key) + 1 + i] = val[i]
  <2>1. Len(b) = Len(lead) + Len(key) + 1
    BY <1>6
  <2> QED BY <1>7, <2>1, Zenon
<1> QED
  BY <1>5, <1>6, <1>8, <1>9, <1>10, <1>11, Zenon DEF IsPiece

LEMMA TextAppend ==
  ASSUME NEW front \in Seq(Pairs), NEW last \in Pairs, NEW sep \in Seq(Tokens)
  PROVE  /\ TextOf(front, sep) \in Seq(Tokens)
         /\ \E piece \in Seq(Tokens), lead \in Seq(Tokens) :
              /\ lead = IF front = <<>> THEN <<>> ELSE sep
              /\ IsPiece(piece, lead, last.key, last.value)
              /\ TextOf(Append(front, last), sep) = TextOf(front, sep) \o piece
<1>1. PICK list \in Seq(Pairs), n \in Nat :
        /\ list = Append(front, last) /\ n = Len(front) /\ Len(list) = n + 1 /\ list[n + 1] = last
        /\ \A k \in 1..n : list[k] = front[k]
  <2>1. /\ Append(front, last) \in Seq(Pairs) /\ Len(Append(front, last)) = Len(front) + 1
        /\ Append(front, last)[Len(front) + 1] = last /\ Len(front) \in Nat
        /\ \A k \in 1..Len(front) : Append(front, last)[k] = front[k]
    BY AppendProperties
  <2> QED BY <2>1, Zenon
<1>2. ASSUME NEW l \in Seq(Pairs), NEW k \in DOMAIN l
      PROVE  \E piece \in Seq(Tokens), lead \in Seq(Tokens) :
               /\ lead = IF k = 1 THEN <<>> ELSE sep
               /\ piece = Piece(l, k, sep) /\ IsPiece(piece, lead, l[k].key, l[k].value)
  <2>1. l[k].key \in Seq(Tokens) /\ l[k].value \in Seq(Tokens)
    BY PairTexts
  <2>2. PICK lead \in Seq(Tokens) : lead = IF k = 1 THEN <<>> ELSE sep
    <3>1. <<>> \in Seq(Tokens)
      OBVIOUS
    <3> QED BY <3>1, Zenon
  <2>3. PICK piece \in Seq(Tokens) : IsPiece(piece, lead, l[k].key, l[k].value)
    BY <2>1, PieceElements, Zenon
  <2>4. piece = Piece(l, k, sep)
    BY <2>2, <2>3, Zenon DEF Piece, IsPiece
  <2> QED BY <2>2, <2>3, <2>4, Zenon
<1>3. PICK pieces \in Seq(Seq(Tokens)) :
        /\ pieces = [k \in DOMAIN front |-> Piece(front, k, sep)] /\ Len(pieces) = n
        /\ \A k \in 1..n : pieces[k] = Piece(front, k, sep)
  <2>1. DOMAIN front = 1..n
    BY <1>1
  <2>4. \A k \in DOMAIN front : Piece(front, k, sep) \in Seq(Tokens)
    BY <1>2, Zenon
  <2> DEFINE mine == [k \in 1..n |-> Piece(front, k, sep)]
  <2>2. mine \in Seq(Seq(Tokens)) /\ Len(mine) = n /\ \A k \in 1..n : mine[k] = Piece(front, k, sep)
    BY <2>1, <2>4
  <2> HIDE DEF mine
  <2>3. mine = [k \in DOMAIN front |-> Piece(front, k, sep)]
    BY <2>1 DEF mine
  <2> QED BY <2>2, <2>3, Zenon
<1>4. PICK piece \in Seq(Tokens), lead \in Seq(Tokens) :
        /\ lead = IF n + 1 = 1 THEN <<>> ELSE sep
        /\ piece = Piece(list, n + 1, sep) /\ IsPiece(piece, lead, last.key, last.value)
  <2>1. n + 1 \in DOMAIN list
    BY <1>1
  <2> QED BY <1>1, <1>2, <2>1, Zenon
<1>5. [k \in DOMAIN list |-> Piece(list, k, sep)] = Append(pieces, piece)
  <2>1. DOMAIN list = 1..(n + 1)
    BY <1>1
  <2>2. \A k \in 1..n : Piece(list, k, sep) = pieces[k]
    BY <1>1, <1>3, Zenon DEF Piece
  <2>3. /\ DOMAIN Append(pieces, piece) = 1..(n + 1) /\ Append(pieces, piece)[n + 1] = piece
        /\ \A k \in 1..n : Append(pieces, piece)[k] = pieces[k]
        /\ Append(pieces, piece) = [k \in DOMAIN Append(pieces, piece) |-> Append(pieces, piece)[k]]
    BY <1>3, AppendProperties
  <2>4. \A k \in 1..(n + 1) : k \in 1..n \/ k = n + 1
    OBVIOUS
  <2>5. \A k \in 1..(n + 1) : Append(pieces, piece)[k] = Piece(list, k, sep)
    BY <1>4, <2>2, <2>3, <2>4, Zenon
  <2> QED BY <2>1, <2>3, <2>5, Zenon
<1>6. FlattenSeq(Append(pieces, piece)) = FlattenSeq(pieces) \o piece
  BY FlattenAppend, Zenon
<1>7. TextOf(front, sep) = FlattenSeq(pieces) /\ TextOf(list, sep) = FlattenSeq(pieces) \o piece
  BY <1>3, <1>5, <1>6, Zenon DEF TextOf
<1>8. FlattenSeq(pieces) \in Seq(Tokens)
  BY FlattenType, Zenon
<1>9. (n + 1 = 1) <=> (front = <<>>)
  BY <1>1
<1>10. lead = IF front = <<>> THEN <<>> ELSE sep
  BY <1>4, <1>9, Zenon
<1> QED
  BY <1>1, <1>4, <1>7, <1>8, <1>10, Zenon

\* One pair more.
LEMMA LaidOutGrows ==
  ASSUME NEW front \in Seq(Pairs), NEW last \in Pairs, NEW sep \in Seq(Tokens), sep # <<>>,
         NEW at, LaidOut(TextOf(front, sep), front, sep, at)
  PROVE  \E on : LaidOut(TextOf(Append(front, last), sep), Append(front, last), sep, on)
<1>1. PICK list \in Seq(Pairs), n \in Nat :
        /\ list = Append(front, last) /\ n = Len(front) /\ Len(list) = n + 1 /\ list[n + 1] = last
        /\ \A k \in 1..n : list[k] = front[k]
  <2>1. /\ Append(front, last) \in Seq(Pairs) /\ Len(Append(front, last)) = Len(front) + 1
        /\ Append(front, last)[Len(front) + 1] = last /\ Len(front) \in Nat
        /\ \A k \in 1..Len(front) : Append(front, last)[k] = front[k]
    BY AppendProperties
  <2> QED BY <2>1, Zenon
<1>20. n = Len(front) /\ Len(list) = n + 1 /\ list[n + 1] = last /\ \A k \in 1..n : list[k] = front[k]
  BY <1>1, Zenon
<1>21. PICK s \in Seq(Tokens) : s = TextOf(front, sep)
  BY TextAppend, Zenon
<1>2. PICK piece \in Seq(Tokens), lead \in Seq(Tokens) :
        /\ lead = IF front = <<>> THEN <<>> ELSE sep
        /\ IsPiece(piece, lead, last.key, last.value)
        /\ TextOf(list, sep) = s \o piece
  <2>1. PICK piece \in Seq(Tokens), lead \in Seq(Tokens) :
          /\ lead = IF front = <<>> THEN <<>> ELSE sep
          /\ IsPiece(piece, lead, last.key, last.value)
          /\ TextOf(Append(front, last), sep) = TextOf(front, sep) \o piece
    BY TextAppend
  <2> QED BY <1>1, <1>21, <2>1, Zenon
<1>3. PICK u \in Seq(Tokens) : IsCat(u, s, piece)
  BY ConcatOf, Zenon
<1>4. TextOf(list, sep) = u
  BY <1>2, <1>3, Zenon DEF IsCat
<1>5. LaidOut(s, front, sep, at)
  BY <1>21, Zenon
<1>22. PICK m \in Nat, l \in Nat, kl \in Nat, vl \in Nat :
         m = Len(s) /\ l = Len(lead) /\ kl = Len(last.key) /\ vl = Len(last.value)
  BY <1>2, <1>3, Zenon DEF IsPiece, IsCat
<1>23. PICK end \in Nat : end = m + l + kl + vl + 1
  OBVIOUS
<1>6. /\ Len(u) = end
      /\ \A i \in 1..m : u[i] = s[i]
      /\ \A i \in 1..(l + kl + vl + 1) : u[m + i] = piece[i]
      /\ \A i \in 1..l : piece[i] = lead[i]
      /\ \A i \in 1..kl : piece[l + i] = last.key[i]
      /\ piece[l + kl + 1] = "="
      /\ \A i \in 1..vl : piece[l + kl + 1 + i] = last.value[i]
  <2>1. Len(piece) = l + kl + vl + 1 /\ Len(u) = m + Len(piece)
    BY <1>2, <1>3, <1>22, Zenon DEF IsPiece, IsCat
  <2>2. Len(u) = end
    BY <1>23, <2>1
  <2> QED BY <1>2, <1>3, <1>22, <2>1, <2>2, Zenon DEF IsPiece, IsCat
<1>24. Len(u) = end
  BY <1>6, Zenon
<1>7. /\ DOMAIN front = 1..n /\ DOMAIN list = 1..(n + 1)
      /\ front = <<>> <=> n = 0
      /\ sep[1] \in Tokens /\ Len(sep) \in Nat \ {0}
  BY <1>20
<1> DEFINE on == [k \in 1..(n + 1) |-> IF k = n + 1 THEN m + l + 1 ELSE at[k]]
<1>8. /\ on[n + 1] = m + l + 1 /\ \A k \in 1..n : on[k] = at[k]
  OBVIOUS
<1> HIDE DEF on
<1>9. /\ Equals(list, on, n + 1) = m + l + 1 + kl
      /\ EndOf(list, on, n + 1) = m + l + 1 + kl + vl
      /\ \A k \in 1..n : Equals(list, on, k) = Equals(front, at, k) /\ EndOf(list, on, k) = EndOf(front, at, k)
  BY <1>20, <1>22, <1>8, Zenon DEF Equals, EndOf
<1>10. n = 0 => m = 0 /\ l = 0
  <2>1. n = 0 => s = <<>> /\ lead = <<>>
    BY <1>2, <1>5, <1>7, Zenon DEF LaidOut
  <2> QED BY <1>22, <2>1
<1>11. n # 0 => EndOf(front, at, n) = m /\ at[1] = 1 /\ lead = sep
  BY <1>20, <1>2, <1>5, <1>22, <1>7, Zenon DEF LaidOut
<1>12. ASSUME NEW k \in DOMAIN list
       PROVE  /\ on[k] \in Nat \ {0} /\ EndOf(list, on, k) <= Len(u)
              /\ \A i \in 1..Len(list[k].key) : u[on[k] - 1 + i] = list[k].key[i]
              /\ u[Equals(list, on, k)] = "="
              /\ \A i \in 1..Len(list[k].value) : u[Equals(list, on, k) + i] = list[k].value[i]
  <2>1. CASE k = n + 1
    <3>1. on[k] \in Nat \ {0} /\ EndOf(list, on, k) <= Len(u)
      BY <1>23, <1>24, <1>8, <1>9, <2>1
    <3>2. ASSUME NEW i \in 1..kl
          PROVE  u[on[k] - 1 + i] = list[k].key[i]
      <4>1. l + i \in 1..(l + kl + vl + 1) /\ on[k] - 1 + i = m + (l + i)
        BY <1>8, <2>1
      <4> QED BY <1>20, <1>6, <2>1, <4>1, Zenon
    <3>3. u[Equals(list, on, k)] = "="
      <4>1. l + kl + 1 \in 1..(l + kl + vl + 1) /\ Equals(list, on, k) = m + (l + kl + 1)
        BY <1>9, <2>1
      <4> QED BY <1>6, <4>1, Zenon
    <3>4. ASSUME NEW i \in 1..vl
          PROVE  u[Equals(list, on, k) + i] = list[k].value[i]
      <4>1. l + kl + 1 + i \in 1..(l + kl + vl + 1) /\ Equals(list, on, k) + i = m + (l + kl + 1 + i)
        BY <1>9, <2>1
      <4> QED BY <1>20, <1>6, <2>1, <4>1, Zenon
    <3> QED BY <1>20, <1>22, <2>1, <3>1, <3>2, <3>3, <3>4, Zenon
  <2>2. CASE k \in 1..n
    <3>1. /\ at[k] \in Nat \ {0} /\ EndOf(front, at, k) <= m
          /\ \A i \in 1..Len(front[k].key) : s[at[k] - 1 + i] = front[k].key[i]
          /\ s[Equals(front, at, k)] = "="
          /\ \A i \in 1..Len(front[k].value) : s[Equals(front, at, k) + i] = front[k].value[i]
      BY <1>5, <1>22, <1>7, <2>2, Zenon DEF LaidOut
    <3>2. PICK a \in Nat, b \in Nat : a = Len(front[k].key) /\ b = Len(front[k].value)
      BY <1>7, <2>2, PairTexts
    <3>8. PICK start \in Nat \ {0} : start = at[k]
      BY <3>1, Zenon
    <3>3. Equals(front, at, k) = start + a /\ EndOf(front, at, k) = start + a + b /\ EndOf(front, at, k) <= m
      BY <3>1, <3>2, <3>8, Zenon DEF Equals, EndOf
    <3>9. start + a + b <= m
      BY <3>3, Zenon
    <3>10. \A i \in 1..a : start - 1 + i \in 1..m
      BY <3>9
    <3>4. \A i \in 1..a : at[k] - 1 + i \in 1..m
      BY <3>8, <3>10, Zenon
    <3>5. \A i \in 1..b : Equals(front, at, k) + i \in 1..m
      BY <3>3, <3>9
    <3>6. Equals(front, at, k) \in 1..m /\ EndOf(front, at, k) <= Len(u)
      BY <1>23, <1>24, <3>3, <3>9
    <3>7. on[k] = at[k] /\ list[k] = front[k]
      BY <1>20, <1>8, <2>2, Zenon
    <3> QED BY <1>6, <1>9, <2>2, <3>1, <3>2, <3>4, <3>5, <3>6, <3>7, Zenon
  <2> QED BY <1>7, <2>1, <2>2
<1>13. ASSUME NEW k \in 1..n
       PROVE  u[EndOf(list, on, k) + 1] = sep[1] /\ on[k + 1] = EndOf(list, on, k) + Len(sep) + 1
  <2>1. CASE k = n
    <3>1. EndOf(list, on, k) = m /\ lead = sep /\ l = Len(sep)
      BY <1>22, <1>9, <1>11, <2>1
    <3>2. 1 \in 1..l /\ 1 \in 1..(l + kl + vl + 1)
      BY <1>7, <3>1
    <3>3. u[m + 1] = sep[1]
      BY <1>6, <3>1, <3>2, Zenon
    <3> QED BY <1>8, <2>1, <3>1, <3>3
  <2>2. CASE k # n
    <3>1. k \in 1..(n - 1) /\ k + 1 \in 1..n /\ k \in 1..n
      BY <2>2
    <3>2. s[EndOf(front, at, k) + 1] = sep[1] /\ at[k + 1] = EndOf(front, at, k) + Len(sep) + 1
      BY <1>20, <1>5, <3>1, Zenon DEF LaidOut
    <3>3. /\ at[k] \in Nat \ {0} /\ at[k + 1] \in Nat \ {0} /\ EndOf(front, at, k + 1) <= m
      BY <1>5, <1>22, <1>7, <3>1, Zenon DEF LaidOut
    <3>4. PICK a \in Nat, b \in Nat, c \in Nat, d \in Nat :
            /\ a = Len(front[k].key) /\ b = Len(front[k].value)
            /\ c = Len(front[k + 1].key) /\ d = Len(front[k + 1].value)
      <4>1. front[k] \in Pairs /\ front[k + 1] \in Pairs
        BY <1>7, <3>1
      <4>2. /\ Len(front[k].key) \in Nat /\ Len(front[k].value) \in Nat
            /\ Len(front[k + 1].key) \in Nat /\ Len(front[k + 1].value) \in Nat
        <5>1. ASSUME NEW p \in Pairs
              PROVE  Len(p.key) \in Nat /\ Len(p.value) \in Nat
          BY PairTexts
        <5> QED BY <4>1, <5>1, Zenon
      <4> QED BY <4>2, Zenon
    <3>5. EndOf(front, at, k) = at[k] + a + b /\ EndOf(front, at, k + 1) = at[k + 1] + c + d
      BY <3>4, Zenon DEF EndOf
    <3>7. PICK x \in Nat \ {0}, y \in Nat \ {0}, z \in Nat : x = at[k] /\ y = at[k + 1] /\ z = Len(sep)
      BY <1>7, <3>3, Zenon
    <3>8. /\ y = x + a + b + z + 1 /\ y + c + d <= m /\ EndOf(front, at, k) = x + a + b
      BY <3>2, <3>3, <3>5, <3>7, Zenon
    <3>6. EndOf(front, at, k) + 1 \in 1..m
      BY <3>8
    <3>9. on[k + 1] = at[k + 1] /\ EndOf(list, on, k) = EndOf(front, at, k)
      BY <1>8, <1>9, <3>1, Zenon
    <3>10. u[EndOf(front, at, k) + 1] = s[EndOf(front, at, k) + 1]
      BY <1>6, <3>6, Zenon
    <3> QED BY <3>2, <3>9, <3>10, Zenon
  <2> QED BY <2>1, <2>2
<1>14. on[1] = 1 /\ EndOf(list, on, n + 1) = Len(u)
  <2>1. CASE n = 0
    BY <1>23, <1>24, <1>8, <1>9, <1>10, <2>1
  <2>2. CASE n # 0
    BY <1>23, <1>24, <1>8, <1>9, <1>11, <2>2
  <2> QED BY <2>1, <2>2
<1>15. Len(list) - 1 = n /\ Len(list) = n + 1 /\ list # <<>>
  BY <1>20
<1>16. LaidOut(u, list, sep, on)
  BY <1>12, <1>13, <1>14, <1>15, Zenon DEF LaidOut
<1> QED
  BY <1>1, <1>4, <1>16, Zenon

\* Every list of pairs has such places.
LEMMA PlacesExist ==
  ASSUME NEW list \in Seq(Pairs), NEW sep \in Seq(Tokens), sep # <<>>
  PROVE  \E at : LaidOut(TextOf(list, sep), list, sep, at)
<1> DEFINE Placed(l) == \E at : LaidOut(TextOf(l, sep), l, sep, at)
           Without == {n \in Nat : \E l \in Seq(Pairs) : Len(l) = n /\ ~ Placed(l)}
           least == Min(Without)
<1>1. ASSUME Without # {}
      PROVE  FALSE
  <2>1. least \in Without /\ \A n \in Without : least <= n
    <3>1. Without \in SUBSET Nat
      OBVIOUS
    <3> HIDE DEF Without
    <3> QED BY <1>1, <3>1, MinIsLeast
  <2>2. PICK l \in Seq(Pairs) : Len(l) = least /\ ~ Placed(l)
    BY <2>1
  <2>3. least \in Nat
    BY <2>1
  <2>4. CASE l = <<>>
    <3>1. [k \in DOMAIN l |-> Piece(l, k, sep)] = <<>>
      BY <2>4
    <3>2. TextOf(l, sep) = <<>>
      BY <3>1, FlattenEmpty DEF TextOf
    <3>3. DOMAIN l = {} /\ 1..(Len(l) - 1) = {}
      BY <2>4
    <3>4. LaidOut(TextOf(l, sep), l, sep, <<>>)
      BY <2>4, <3>2, <3>3, Zenon DEF LaidOut
    <3> QED BY <2>2, <3>4, Zenon
  <2>5. CASE l # <<>>
    <3>1. PICK front \in Seq(Pairs), last \in Pairs : l = Append(front, last)
      BY <2>5, SequenceEmptyOrAppend, Zenon
    <3>2. Len(front) = least - 1 /\ Len(front) \in Nat
      BY <2>2, <3>1, AppendProperties
    <3>3. Len(front) \notin Without
      <4> HIDE DEF Without, least
      <4>1. ~ (least <= Len(front))
        BY <2>3, <3>2
      <4> QED BY <2>1, <4>1, Zenon
    <3>4. Placed(front)
      BY <3>2, <3>3
    <3>5. Placed(l)
      BY <3>1, <3>4, LaidOutGrows, Zenon
    <3> QED BY <2>2, <3>5, Zenon
  <2> QED BY <2>4, <2>5
<1>2. Len(list) \in Nat
  OBVIOUS
<1> QED
  BY <1>1, <1>2

-----------------------------------------------------------------------------
\* What std::string::find finds in it

\* n is the first place from start on where a c stands, or behind the end.
IsFirst(s, c, start, n) ==
  /\ n \in Nat
  /\ n = Len(s) + 1 \/ (n \in start..Len(s) /\ s[n] = c)
  /\ \A i \in start..Len(s) : s[i] = c => n <= i

LEMMA NextInFinds ==
  ASSUME NEW s, Len(s) \in Nat, NEW c, NEW start \in Nat \ {0}
  PROVE  IsFirst(s, c, start, NextIn(s, c, start))
<1> DEFINE found == {k \in start..Len(s) : s[k] = c} \cup {Len(s) + 1}
<1>1. found \in SUBSET Nat /\ found # {}
  OBVIOUS
<1>2. Min(found) \in found /\ \A k \in found : Min(found) <= k
  <2> HIDE DEF found
  <2> QED BY <1>1, MinIsLeast
<1>3. NextIn(s, c, start) = Min(found)
  BY Zenon DEF NextIn
<1>4. NextIn(s, c, start) \in found /\ \A k \in found : NextIn(s, c, start) <= k
  BY <1>2, <1>3, Zenon
<1>5. \A i \in start..Len(s) : s[i] = c => i \in found
  OBVIOUS
<1>6. NextIn(s, c, start) \in Nat
  BY <1>1, <1>4
<1>7. NextIn(s, c, start) = Len(s) + 1 \/ (NextIn(s, c, start) \in start..Len(s) /\ s[NextIn(s, c, start)] = c)
  BY <1>4, Zenon
<1> HIDE DEF found
<1> QED
  BY <1>4, <1>5, <1>6, <1>7, Zenon DEF IsFirst

LEMMA NextInIs ==
  ASSUME NEW s, Len(s) \in Nat, NEW c, NEW start \in Nat \ {0}, NEW e \in Nat,
         start <= e, e <= Len(s) + 1, e <= Len(s) => s[e] = c,
         \A i \in start..(e - 1) : s[i] # c
  PROVE  NextIn(s, c, start) = e
<1>1. PICK n \in Nat : n = NextIn(s, c, start) /\ IsFirst(s, c, start, n)
  BY NextInFinds, Zenon DEF IsFirst
<1>2. /\ n = Len(s) + 1 \/ (n \in start..Len(s) /\ s[n] = c)
      /\ \A i \in start..Len(s) : s[i] = c => n <= i
  BY <1>1, Zenon DEF IsFirst
<1>3. CASE e = Len(s) + 1
  BY <1>1, <1>2, <1>3
<1>4. CASE e # Len(s) + 1
  <2>1. e \in start..Len(s) /\ s[e] = c
    BY <1>4
  <2>2. n <= e
    BY <1>2, <2>1
  <2>3. n \in start..Len(s) /\ s[n] = c
    BY <1>2, <2>1, <2>2
  <2>4. ~ (n \in start..(e - 1))
    BY <2>3
  <2> QED BY <1>1, <2>2, <2>3, <2>4
<1> QED BY <1>3, <1>4

\* The same part of a text.
LEMMA PartIs ==
  ASSUME NEW S, NEW s \in Seq(S), NEW t \in Seq(S), NEW m \in Nat \ {0}, NEW n \in Nat,
         n = m - 1 + Len(t), n <= Len(s), \A i \in 1..Len(t) : s[m - 1 + i] = t[i]
  PROVE  SubSeq(s, m, n) = t
<1>1. Len(t) \in Nat /\ Len(s) \in Nat
  OBVIOUS
<1>2. m \in 1..(Len(s) + 1) /\ n \in (m - 1)..Len(s) /\ n - m + 1 = Len(t)
  BY <1>1
<1>3. PICK part \in Seq(S) :
        /\ part = SubSeq(s, m, n) /\ Len(part) = n - m + 1
        /\ \A k \in 1..(n - m + 1) : part[k] = s[m + k - 1]
  <2>1. /\ SubSeq(s, m, n) \in Seq(S) /\ Len(SubSeq(s, m, n)) = n - m + 1
        /\ \A k \in 1..(n - m + 1) : SubSeq(s, m, n)[k] = s[m + k - 1]
    BY <1>2, PartElements
  <2> QED BY <2>1, Zenon
<1>4. ASSUME NEW i \in 1..Len(t)
      PROVE  part[i] = t[i]
  <2>1. i \in 1..(n - m + 1) /\ m + i - 1 = m - 1 + i
    BY <1>2
  <2> QED BY <1>3, <2>1, Zenon
<1>5. Len(part) = Len(t)
  BY <1>2, <1>3
<1>6. part = t
  BY <1>4, <1>5
<1> QED BY <1>3, <1>6

Lacks(t, c) == \A i \in 1..Len(t) : t[i] # c

\* A pair is read as it was written: its name goes to the first '=', its value to
\* what separates it from the next, or the end.
IsRead(s, list, at, k) ==
  /\ at[k] \in Nat \ {0} /\ Equals(list, at, k) \in Nat /\ EndOf(list, at, k) \in Nat
  /\ at[k] <= Equals(list, at, k) /\ Equals(list, at, k) <= EndOf(list, at, k)
  /\ EndOf(list, at, k) <= Len(s) /\ Len(s) \in Nat
  /\ s[Equals(list, at, k)] = "="
  /\ \A i \in at[k]..(Equals(list, at, k) - 1) : \E j \in 1..Len(list[k].key) : s[i] = list[k].key[j]
  /\ \A i \in (Equals(list, at, k) + 1)..EndOf(list, at, k) :
       \E j \in 1..Len(list[k].value) : s[i] = list[k].value[j]
  /\ SubSeq(s, at[k], Equals(list, at, k) - 1) = list[k].key
  /\ SubSeq(s, Equals(list, at, k) + 1, EndOf(list, at, k)) = list[k].value

LEMMA PairRead ==
  ASSUME NEW list \in Seq(Pairs), NEW sep, NEW s \in Seq(Tokens), NEW at,
         LaidOut(s, list, sep, at), NEW k \in DOMAIN list
  PROVE  IsRead(s, list, at, k)
<1>1. /\ at[k] \in Nat \ {0} /\ EndOf(list, at, k) <= Len(s)
      /\ \A i \in 1..Len(list[k].key) : s[at[k] - 1 + i] = list[k].key[i]
      /\ s[Equals(list, at, k)] = "="
      /\ \A i \in 1..Len(list[k].value) : s[Equals(list, at, k) + i] = list[k].value[i]
  BY Zenon DEF LaidOut
<1>2. PICK key \in Seq(Tokens), val \in Seq(Tokens) : key = list[k].key /\ val = list[k].value
  <2>1. list[k] \in Pairs
    OBVIOUS
  <2> QED BY <2>1, PairTexts
<1>3. PICK a \in Nat, b \in Nat, n \in Nat : a = Len(key) /\ b = Len(val) /\ n = Len(s)
  OBVIOUS
<1>4. PICK start \in Nat \ {0} : start = at[k]
  BY <1>1, Zenon
<1>5. PICK eq \in Nat, end \in Nat : eq = start + a /\ end = start + a + b
  OBVIOUS
<1>6. Equals(list, at, k) = eq /\ EndOf(list, at, k) = end
  BY <1>2, <1>3, <1>4, <1>5, Zenon DEF Equals, EndOf
<1>7. end <= n
  BY <1>1, <1>3, <1>6, Zenon
<1>8. /\ \A i \in 1..a : s[start - 1 + i] = key[i]
      /\ \A i \in 1..b : s[eq + i] = val[i]
  BY <1>1, <1>2, <1>3, <1>4, <1>6, Zenon
<1>9. SubSeq(s, start, eq - 1) = key
  <2>1. eq - 1 \in Nat /\ eq - 1 = start - 1 + Len(key) /\ eq - 1 <= Len(s)
    BY <1>3, <1>5, <1>7
  <2>2. \A i \in 1..Len(key) : s[start - 1 + i] = key[i]
    BY <1>3, <1>8, Zenon
  <2> QED BY <2>1, <2>2, PartIs
<1>10. SubSeq(s, eq + 1, end) = val
  <2>1. /\ eq + 1 \in Nat \ {0} /\ end = (eq + 1) - 1 + Len(val) /\ end <= Len(s)
        /\ \A i \in 1..b : (eq + 1) - 1 + i = eq + i
    BY <1>3, <1>5, <1>7
  <2>2. \A i \in 1..Len(val) : s[(eq + 1) - 1 + i] = val[i]
    BY <1>3, <1>8, <2>1, Zenon
  <2> QED BY <2>1, <2>2, PartIs
<1>11. ASSUME NEW i \in start..(eq - 1)
       PROVE  \E j \in 1..a : s[i] = key[j]
  <2>1. i - start + 1 \in 1..a /\ start - 1 + (i - start + 1) = i
    BY <1>5
  <2> QED BY <1>8, <2>1, Zenon
<1>12. ASSUME NEW i \in (eq + 1)..end
       PROVE  \E j \in 1..b : s[i] = val[j]
  <2>1. i - eq \in 1..b /\ eq + (i - eq) = i
    BY <1>5
  <2> QED BY <1>8, <2>1, Zenon
<1>13. start <= eq /\ eq <= end
  BY <1>5
<1>14. /\ at[k] \in Nat \ {0} /\ Equals(list, at, k) \in Nat /\ EndOf(list, at, k) \in Nat
       /\ at[k] <= Equals(list, at, k) /\ Equals(list, at, k) <= EndOf(list, at, k)
       /\ EndOf(list, at, k) <= Len(s) /\ Len(s) \in Nat
       /\ s[Equals(list, at, k)] = "="
  BY <1>1, <1>3, <1>4, <1>6, <1>7, <1>13, Zenon
<1>15. \A i \in at[k]..(Equals(list, at, k) - 1) : \E j \in 1..Len(list[k].key) : s[i] = list[k].key[j]
  BY <1>2, <1>3, <1>4, <1>6, <1>11, Zenon
<1>16. \A i \in (Equals(list, at, k) + 1)..EndOf(list, at, k) :
         \E j \in 1..Len(list[k].value) : s[i] = list[k].value[j]
  BY <1>2, <1>3, <1>6, <1>12, Zenon
<1>17. /\ SubSeq(s, at[k], Equals(list, at, k) - 1) = list[k].key
       /\ SubSeq(s, Equals(list, at, k) + 1, EndOf(list, at, k)) = list[k].value
  BY <1>2, <1>4, <1>6, <1>9, <1>10, Zenon
<1> QED
  BY <1>14, <1>15, <1>16, <1>17, Zenon DEF IsRead

\* The first '=' from the beginning of a pair on.
LEMMA EqualsFound ==
  ASSUME NEW s, NEW list, NEW at, NEW k, IsRead(s, list, at, k), Lacks(list[k].key, "=")
  PROVE  NextIn(s, "=", at[k]) = Equals(list, at, k)
<1>1. PICK start \in Nat \ {0}, eq \in Nat, n \in Nat :
        start = at[k] /\ eq = Equals(list, at, k) /\ n = Len(s)
  BY Zenon DEF IsRead
<1>2. start <= eq /\ eq <= n
  <2>1. PICK end \in Nat : end = EndOf(list, at, k)
    BY Zenon DEF IsRead
  <2>2. start <= eq /\ eq <= end /\ end <= n
    BY <1>1, <2>1, Zenon DEF IsRead
  <2> QED BY <2>2
<1>3. \A i \in start..(eq - 1) : s[i] # "="
  BY <1>1, Zenon DEF IsRead, Lacks
<1>4. s[eq] = "="
  BY <1>1, Zenon DEF IsRead
<1>5. NextIn(s, "=", start) = eq
  BY <1>1, <1>2, <1>3, <1>4, NextInIs
<1> QED BY <1>1, <1>5, Zenon

\* What is neither in the name nor a '=' comes later.
LEMMA NotInName ==
  ASSUME NEW s, NEW list, NEW at, NEW k, IsRead(s, list, at, k),
         NEW c, c # "=", Lacks(list[k].key, c), NEW from \in Nat \ {0}, at[k] <= from
  PROVE  Equals(list, at, k) < NextIn(s, c, from)
<1>1. PICK start \in Nat \ {0}, eq \in Nat, end \in Nat, n \in Nat :
        start = at[k] /\ eq = Equals(list, at, k) /\ end = EndOf(list, at, k) /\ n = Len(s)
  BY Zenon DEF IsRead
<1>2. eq <= end /\ end <= n /\ start <= from
  BY <1>1, Zenon DEF IsRead
<1>3. PICK found \in Nat : found = NextIn(s, c, from) /\ IsFirst(s, c, from, found)
  <2>1. Len(s) \in Nat
    BY <1>1
  <2>2. IsFirst(s, c, from, NextIn(s, c, from))
    BY <2>1, NextInFinds
  <2> QED BY <2>2, Zenon DEF IsFirst
<1>4. found = n + 1 \/ (found \in from..n /\ s[found] = c)
  BY <1>1, <1>3, Zenon DEF IsFirst
<1>5. \A i \in start..(eq - 1) : s[i] # c
  BY <1>1, Zenon DEF IsRead, Lacks
<1>6. s[eq] = "="
  BY <1>1, Zenon DEF IsRead
<1>7. CASE found = n + 1
  BY <1>1, <1>2, <1>3, <1>7
<1>8. CASE found \in from..n /\ s[found] = c
  <2>1. found # eq /\ ~ (found \in start..(eq - 1))
    BY <1>5, <1>6, <1>8, Zenon
  <2> QED BY <1>1, <1>2, <1>3, <1>8, <2>1
<1> QED BY <1>4, <1>7, <1>8

\* The separator behind a pair, or the end, from any place in the pair on.
LEMMA EndFound ==
  ASSUME NEW list \in Seq(Pairs), NEW sep, NEW s \in Seq(Tokens), NEW at,
         LaidOut(s, list, sep, at), Len(sep) \in Nat \ {0}, NEW k \in DOMAIN list, NEW c, c = sep[1], c # "=",
         Lacks(list[k].key, c), Lacks(list[k].value, c),
         NEW from \in Nat \ {0}, at[k] <= from, from <= EndOf(list, at, k) + 1
  PROVE  /\ NextIn(s, c, from) = EndOf(list, at, k) + 1
         /\ IF k = Len(list) THEN EndOf(list, at, k) = Len(s)
            ELSE at[k + 1] = EndOf(list, at, k) + 1 + Len(sep) /\ EndOf(list, at, k) < Len(s)
<1>1. IsRead(s, list, at, k)
  BY PairRead, Zenon
<1>2. PICK start \in Nat \ {0}, eq \in Nat, end \in Nat, n \in Nat :
        start = at[k] /\ eq = Equals(list, at, k) /\ end = EndOf(list, at, k) /\ n = Len(s)
  BY <1>1, Zenon DEF IsRead
<1>3. start <= eq /\ eq <= end /\ end <= n /\ start <= from /\ from <= end + 1
  BY <1>1, <1>2, Zenon DEF IsRead
<1>4. /\ \A i \in start..(eq - 1) : s[i] # c
      /\ \A i \in (eq + 1)..end : s[i] # c
      /\ s[eq] # c
  <2>1. \A i \in start..(eq - 1) : s[i] # c
    BY <1>1, <1>2, Zenon DEF IsRead, Lacks
  <2>2. \A i \in (eq + 1)..end : s[i] # c
    BY <1>1, <1>2, Zenon DEF IsRead, Lacks
  <2>3. s[eq] # c
    BY <1>1, <1>2, Zenon DEF IsRead
  <2> QED BY <2>1, <2>2, <2>3, Zenon
<1>5. \A i \in from..((end + 1) - 1) : s[i] # c
  <2>1. ASSUME NEW i \in from..((end + 1) - 1)
        PROVE  i \in start..(eq - 1) \/ i \in (eq + 1)..end \/ i = eq
    BY <1>3
  <2> QED BY <1>4, <2>1, Zenon
<1>6. CASE k = Len(list)
  <2>1. end = n
    <3>1. list # <<>>
      OBVIOUS
    <3> QED BY <1>2, <1>6, <3>1, Zenon DEF LaidOut
  <2>2. NextIn(s, c, from) = end + 1
    BY <1>2, <1>3, <1>5, <2>1, NextInIs
  <2> QED BY <1>2, <1>6, <2>1, <2>2, Zenon
<1>7. CASE k # Len(list)
  <2>1. k \in 1..(Len(list) - 1) /\ k + 1 \in DOMAIN list
    BY <1>7
  <2>2. s[end + 1] = c /\ at[k + 1] = end + Len(sep) + 1
    BY <1>2, <2>1, Zenon DEF LaidOut
  <2>3. IsRead(s, list, at, k + 1)
    BY <2>1, PairRead, Zenon
  <2>4. PICK x \in Nat, y \in Nat, z \in Nat : x = at[k + 1] /\ y = Equals(list, at, k + 1) /\ z = EndOf(list, at, k + 1)
    BY <2>3, Zenon DEF IsRead
  <2>5. x <= y /\ y <= z /\ z <= n
    BY <1>2, <2>3, <2>4, Zenon DEF IsRead
  <2>7. end + 1 <= n
    BY <2>2, <2>4, <2>5
  <2>8. NextIn(s, c, from) = end + 1
    <3>1. PICK e \in Nat : e = end + 1
      OBVIOUS
    <3>2. from <= e /\ e <= Len(s) + 1 /\ s[e] = c /\ Len(s) \in Nat
      BY <1>2, <1>3, <2>2, <2>7, <3>1
    <3>3. \A i \in from..(e - 1) : s[i] # c
      BY <1>5, <3>1, Zenon
    <3>4. NextIn(s, c, from) = e
      BY <3>2, <3>3, NextInIs
    <3> QED BY <3>1, <3>4, Zenon
  <2>9. at[k + 1] = end + 1 + Len(sep) /\ end < n
    BY <2>2, <2>7
  <2> QED BY <1>2, <1>7, <2>8, <2>9, Zenon
<1> QED BY <1>6, <1>7

-----------------------------------------------------------------------------
\* The loops over a text, which are written as recursive functions

Rest(f, next, p) == IF next[p] = 0 THEN <<>> ELSE f[next[p]]

\* What is read from place p on: a pair and what comes behind it, only that, or
\* only the pair.
Turn(f, next, here, joins, skips, p) ==
  IF p \in joins THEN here[p] \o Rest(f, next, p)
  ELSE IF p \in skips THEN Rest(f, next, p)
  ELSE here[p]

IsLoop(f, next, here, joins, skips, from, last) ==
  f = [p \in from..last |-> Turn(f, next, here, joins, skips, p)]

LEMMA TurnLocal ==
  ASSUME NEW f, NEW g, NEW next, NEW here, NEW joins, NEW skips, NEW p,
         next[p] = 0 \/ f[next[p]] = g[next[p]]
  PROVE  Turn(f, next, here, joins, skips, p) = Turn(g, next, here, joins, skips, p)
<1>1. Rest(f, next, p) = Rest(g, next, p)
  BY Zenon DEF Rest
<1> QED
  BY <1>1, Zenon DEF Turn

\* A loop that goes forward is well defined.
LEMMA LoopExists ==
  ASSUME NEW last \in Nat, NEW next, NEW here, NEW joins, NEW skips,
         \A p \in 1..last : next[p] = 0 \/ next[p] \in (p + 1)..last
  PROVE  \E f : IsLoop(f, next, here, joins, skips, 1, last)
<1> DEFINE Without == {n \in Nat : n <= last /\ ~ \E f : IsLoop(f, next, here, joins, skips, last + 1 - n, last)}
           least == Min(Without)
<1>1. ASSUME Without # {}
      PROVE  FALSE
  <2>1. Without \in SUBSET Nat
    OBVIOUS
  <2>2. least \in Without /\ \A k \in Without : least <= k
    <3> HIDE DEF Without
    <3> QED BY <1>1, <2>1, MinIsLeast
  <2>3. least \in Nat /\ least <= last /\ ~ \E f : IsLoop(f, next, here, joins, skips, last + 1 - least, last)
    BY <2>2
  <2> HIDE DEF least
  <2>4. PICK b \in Nat \ {0} : b = last + 1 - least /\ b <= last + 1
    BY <2>3
  <2>5. \E f : \A p \in (b + 1)..last : f[p] = Turn(f, next, here, joins, skips, p)
    <3>1. CASE least = 0
      <4>1. (b + 1)..last = {}
        BY <2>3, <2>4, <3>1
      <4> QED BY <4>1
    <3>2. CASE least # 0
      <4>1. least - 1 \in Nat /\ ~ (least <= least - 1) /\ least - 1 <= last
            /\ last + 1 - (least - 1) = b + 1
        BY <2>3, <2>4, <3>2
      <4>2. PICK f : IsLoop(f, next, here, joins, skips, last + 1 - (least - 1), last)
        BY <2>2, <4>1
      <4>3. IsLoop(f, next, here, joins, skips, b + 1, last)
        BY <4>1, <4>2
      <4>4. \A p \in (b + 1)..last : f[p] = Turn(f, next, here, joins, skips, p)
        BY <4>3, Zenon DEF IsLoop
      <4> QED BY <4>4
    <3> QED BY <3>1, <3>2
  <2>6. PICK f : \A p \in (b + 1)..last : f[p] = Turn(f, next, here, joins, skips, p)
    BY <2>5
  <2> DEFINE g == [p \in b..last |-> IF p = b THEN Turn(f, next, here, joins, skips, b) ELSE f[p]]
  <2>7. \A p \in (b + 1)..last : g[p] = f[p]
    <3>1. \A p \in (b + 1)..last : p \in b..last /\ p # b
      BY <2>4
    <3> QED BY <3>1, Zenon
  <2>8. ASSUME NEW p \in b..last
        PROVE  g[p] = Turn(g, next, here, joins, skips, p)
    <3>1. next[p] = 0 \/ next[p] \in (b + 1)..last
      <4>1. p \in 1..last /\ (p + 1)..last \subseteq (b + 1)..last
        BY <2>4
      <4> QED BY <4>1
    <3>2. next[p] = 0 \/ f[next[p]] = g[next[p]]
      <4> HIDE DEF g
      <4> QED BY <2>7, <3>1, Zenon
    <3>3. Turn(f, next, here, joins, skips, p) = Turn(g, next, here, joins, skips, p)
      <4> HIDE DEF g
      <4> QED BY <3>2, TurnLocal
    <3>4. CASE p = b
      <4>1. g[p] = Turn(f, next, here, joins, skips, p)
        BY <3>4, Zenon
      <4> HIDE DEF g
      <4> QED BY <3>3, <4>1, Zenon
    <3>5. CASE p # b
      <4>1. p \in (b + 1)..last
        BY <2>4, <3>5
      <4> HIDE DEF g
      <4> QED BY <2>6, <2>7, <3>3, <4>1, Zenon
    <3> QED BY <3>4, <3>5
  <2>9. g = [p \in b..last |-> g[p]]
    OBVIOUS
  <2>10. IsLoop(g, next, here, joins, skips, b, last)
    <3> HIDE DEF g
    <3> QED BY <2>8, <2>9, Zenon DEF IsLoop
  <2> HIDE DEF g
  <2> QED BY <2>3, <2>4, <2>10, Zenon
<1>2. last \in Nat /\ last <= last /\ last + 1 - last = 1
  OBVIOUS
<1> QED
  BY <1>1, <1>2

\* Where a search from place p starts, after the first one that starts there.
StartAt(prev) == IF prev = 1 THEN 1 ELSE prev + 1

\* What LoginCookie reads from place prev on.
LoginTurn(s, login, prev) ==
  LET separation == NextIn(s, ";", StartAt(prev))
      equal == NextIn(s, "=", prev)
  IN  IF equal < separation /\ SubSeq(s, prev, equal - 1) = <<"login">>
      THEN SubSeq(s, equal + 1, separation - 1)
      ELSE IF separation = Npos(s) THEN <<>> ELSE login[separation + 2]

LEMMA SearchGoesOn ==
  ASSUME NEW s, Len(s) \in Nat, NEW c, NEW start \in Nat \ {0}
  PROVE  NextIn(s, c, start) = Npos(s) \/ NextIn(s, c, start) \in start..Len(s)
<1>1. IsFirst(s, c, start, NextIn(s, c, start))
  BY NextInFinds
<1> QED BY <1>1, Zenon DEF IsFirst, Npos

LEMMA LoginLoop ==
  ASSUME NEW s, Len(s) \in Nat
  PROVE  \E login : /\ LoginCookie(s) = login[1]
                    /\ \A prev \in 1..(Len(s) + 2) : login[prev] = LoginTurn(s, login, prev)
<1> DEFINE separation(prev) == NextIn(s, ";", StartAt(prev))
           equal(prev) == NextIn(s, "=", prev)
           matches(prev) == equal(prev) < separation(prev) /\ SubSeq(s, prev, equal(prev) - 1) = <<"login">>
           next == [prev \in 1..(Len(s) + 2) |-> IF separation(prev) = Npos(s) THEN 0 ELSE separation(prev) + 2]
           here == [prev \in 1..(Len(s) + 2) |-> SubSeq(s, equal(prev) + 1, separation(prev) - 1)]
           skips == {prev \in 1..(Len(s) + 2) : ~ matches(prev)}
           IsLogin(f) == f = [prev \in 1..(Len(s) + 2) |-> LoginTurn(s, f, prev)]
<1>1. ASSUME NEW prev \in 1..(Len(s) + 2)
      PROVE  next[prev] = 0 \/ next[prev] \in (prev + 1)..(Len(s) + 2)
  <2>1. StartAt(prev) \in Nat \ {0} /\ prev <= StartAt(prev)
    BY DEF StartAt
  <2>2. separation(prev) = Npos(s) \/ separation(prev) \in StartAt(prev)..Len(s)
    BY <2>1, SearchGoesOn
  <2>3. next[prev] = IF separation(prev) = Npos(s) THEN 0 ELSE separation(prev) + 2
    OBVIOUS
  <2> HIDE DEF next, separation
  <2> QED BY <2>1, <2>2, <2>3
<1>2. PICK f : IsLoop(f, next, here, {}, skips, 1, Len(s) + 2)
  <2> HIDE DEF next, here, skips
  <2>1. PICK last \in Nat : last = Len(s) + 2
    OBVIOUS
  <2> QED BY <1>1, <2>1, LoopExists
<1>3. ASSUME NEW g, NEW prev \in 1..(Len(s) + 2)
      PROVE  Turn(g, next, here, {}, skips, prev) = LoginTurn(s, g, prev)
  <2>1. LoginTurn(s, g, prev) =
          IF matches(prev) THEN SubSeq(s, equal(prev) + 1, separation(prev) - 1)
          ELSE IF separation(prev) = Npos(s) THEN <<>> ELSE g[separation(prev) + 2]
    BY Zenon DEF LoginTurn
  <2>2. /\ next[prev] = IF separation(prev) = Npos(s) THEN 0 ELSE separation(prev) + 2
        /\ here[prev] = SubSeq(s, equal(prev) + 1, separation(prev) - 1)
        /\ prev \in skips <=> ~ matches(prev)
        /\ prev \notin {}
    BY Zenon
  <2>3. separation(prev) # Npos(s) => separation(prev) + 2 # 0
    <3>1. StartAt(prev) \in Nat \ {0}
      BY DEF StartAt
    <3>2. separation(prev) = Npos(s) \/ separation(prev) \in StartAt(prev)..Len(s)
      BY <3>1, SearchGoesOn
    <3> HIDE DEF separation
    <3> QED BY <3>1, <3>2
  <2> HIDE DEF next, here, skips, matches, separation, equal
  <2>4. CASE matches(prev)
    BY <2>1, <2>2, <2>4, Zenon DEF Turn
  <2>5. CASE ~ matches(prev)
    <3>1. Rest(g, next, prev) = IF separation(prev) = Npos(s) THEN <<>> ELSE g[separation(prev) + 2]
      BY <2>2, <2>3 DEF Rest
    <3> QED BY <2>1, <2>2, <2>5, <3>1, Zenon DEF Turn
  <2> QED BY <2>4, <2>5
<1>4. IsLogin(f)
  <2> HIDE DEF next, here, skips
  <2> QED BY <1>2, <1>3 DEF IsLoop
<1> DEFINE login == CHOOSE g : IsLogin(g)
<1>5. IsLogin(login)
  <2> HIDE DEF IsLogin
  <2> QED BY <1>4, Zenon
<1>6. LoginCookie(s) = login[1]
  BY DEF LoginCookie, LoginTurn, StartAt
<1> HIDE DEF login
<1>7. \A prev \in 1..(Len(s) + 2) : login[prev] = LoginTurn(s, login, prev)
  BY <1>5
<1> QED BY <1>6, <1>7

Known == {<<"username">>, <<"password">>}

\* What FormFields reads from place prev on.
FormTurn(s, fields, prev) ==
  LET separation == NextIn(s, IF prev = 1 THEN "&" ELSE ";", StartAt(prev))
      equal == NextIn(s, "=", prev)
      key == SubSeq(s, prev, equal - 1)
      end == NextIn(s, "&", prev + 1)
      from(k) == IF k = Npos(s) THEN <<>> ELSE fields[k + 1]
  IN  IF equal >= separation THEN from(separation)
      ELSE IF key \in Known
      THEN <<Pair(key, SubSeq(s, equal + 1, end - 1))>> \o from(end)
      ELSE <<Pair(key, <<>>)>>

LEMMA FormLoop ==
  ASSUME NEW s, Len(s) \in Nat
  PROVE  \E fields : /\ FormFields(s) = fields[1]
                     /\ \A prev \in 1..(Len(s) + 1) : fields[prev] = FormTurn(s, fields, prev)
<1> DEFINE last == Len(s) + 1
           separation(prev) == NextIn(s, IF prev = 1 THEN "&" ELSE ";", StartAt(prev))
           equal(prev) == NextIn(s, "=", prev)
           key(prev) == SubSeq(s, prev, equal(prev) - 1)
           end(prev) == NextIn(s, "&", prev + 1)
           without(prev) == equal(prev) >= separation(prev)
           stop(prev) == IF without(prev) THEN separation(prev) ELSE end(prev)
           next == [prev \in 1..last |-> IF stop(prev) = Npos(s) THEN 0 ELSE stop(prev) + 1]
           value(prev) == IF key(prev) \in Known THEN SubSeq(s, equal(prev) + 1, end(prev) - 1) ELSE <<>>
           here == [prev \in 1..last |-> <<Pair(key(prev), value(prev))>>]
           skips == {prev \in 1..last : without(prev)}
           joins == {prev \in 1..last : ~ without(prev) /\ key(prev) \in Known}
           IsForm(f) == f = [prev \in 1..last |-> FormTurn(s, f, prev)]
<1>1. ASSUME NEW prev \in 1..last
      PROVE  stop(prev) = Npos(s) \/ stop(prev) \in prev..Len(s)
  <2>1. StartAt(prev) \in Nat \ {0} /\ prev <= StartAt(prev) /\ prev + 1 \in Nat \ {0}
    BY DEF StartAt
  <2>2. separation(prev) = Npos(s) \/ separation(prev) \in StartAt(prev)..Len(s)
    BY <2>1, SearchGoesOn
  <2>3. end(prev) = Npos(s) \/ end(prev) \in (prev + 1)..Len(s)
    BY <2>1, SearchGoesOn
  <2>4. stop(prev) = separation(prev) \/ stop(prev) = end(prev)
    OBVIOUS
  <2> HIDE DEF stop, separation, end
  <2> QED BY <2>1, <2>2, <2>3, <2>4
<1>2. ASSUME NEW prev \in 1..last
      PROVE  next[prev] = 0 \/ next[prev] \in (prev + 1)..last
  <2>1. next[prev] = IF stop(prev) = Npos(s) THEN 0 ELSE stop(prev) + 1
    OBVIOUS
  <2> HIDE DEF next, stop
  <2> QED BY <1>1, <2>1
<1>3. PICK f : IsLoop(f, next, here, joins, skips, 1, last)
  <2> HIDE DEF next, here, joins, skips
  <2>1. last \in Nat
    OBVIOUS
  <2> HIDE DEF last
  <2> QED BY <1>2, <2>1, LoopExists
<1>4. ASSUME NEW g, NEW prev \in 1..last
      PROVE  Turn(g, next, here, joins, skips, prev) = FormTurn(s, g, prev)
  <2> DEFINE from(k) == IF k = Npos(s) THEN <<>> ELSE g[k + 1]
  <2>1. FormTurn(s, g, prev) =
          IF without(prev) THEN from(separation(prev))
          ELSE IF key(prev) \in Known
          THEN <<Pair(key(prev), SubSeq(s, equal(prev) + 1, end(prev) - 1))>> \o from(end(prev))
          ELSE <<Pair(key(prev), <<>>)>>
    BY Zenon DEF FormTurn
  <2>2. /\ next[prev] = IF stop(prev) = Npos(s) THEN 0 ELSE stop(prev) + 1
        /\ here[prev] = <<Pair(key(prev), value(prev))>>
        /\ prev \in skips <=> without(prev)
        /\ prev \in joins <=> ~ without(prev) /\ key(prev) \in Known
    BY Zenon
  <2>3. stop(prev) # Npos(s) => stop(prev) + 1 # 0
    <3> HIDE DEF stop
    <3> QED BY <1>1
  <2>4. Rest(g, next, prev) = from(stop(prev))
    <3> HIDE DEF next, stop
    <3> QED BY <2>2, <2>3 DEF Rest
  <2>5. stop(prev) = IF without(prev) THEN separation(prev) ELSE end(prev)
    BY Zenon
  <2>6. value(prev) = IF key(prev) \in Known THEN SubSeq(s, equal(prev) + 1, end(prev) - 1) ELSE <<>>
    BY Zenon
  <2> HIDE DEF next, here, skips, joins, without, separation, equal, key, end, stop, value, from
  <2>7. CASE without(prev)
    BY <2>1, <2>2, <2>4, <2>5, <2>7, Zenon DEF Turn
  <2>8. CASE ~ without(prev) /\ key(prev) \in Known
    BY <2>1, <2>2, <2>4, <2>5, <2>6, <2>8, Zenon DEF Turn
  <2>9. CASE ~ without(prev) /\ key(prev) \notin Known
    BY <2>1, <2>2, <2>6, <2>9, Zenon DEF Turn
  <2> QED BY <2>7, <2>8, <2>9
<1>5. IsForm(f)
  <2> HIDE DEF next, here, joins, skips
  <2> QED BY <1>3, <1>4 DEF IsLoop
<1> DEFINE fields == CHOOSE g : IsForm(g)
<1>6. IsForm(fields)
  <2> HIDE DEF IsForm
  <2> QED BY <1>5, Zenon
<1>7. FormFields(s) = fields[1]
  BY DEF FormFields, FormTurn, StartAt, Known
<1> HIDE DEF fields
<1>8. \A prev \in 1..(Len(s) + 1) : fields[prev] = FormTurn(s, fields, prev)
  BY <1>6
<1> QED BY <1>7, <1>8

-----------------------------------------------------------------------------
\* The cookie of a session

\* What First finds: the pair at m, or none when m is behind the last.
IsFirstPair(list, key, m) ==
  /\ m \in Nat \ {0} /\ m <= Len(list) + 1
  /\ m <= Len(list) => list[m].key = key
  /\ \A i \in 1..(m - 1) : list[i].key # key

ValueAt(list, m) == IF m <= Len(list) THEN list[m].value ELSE <<>>

LEMMA FirstFound ==
  ASSUME NEW list \in Seq(Pairs), NEW key
  PROVE  \E m : IsFirstPair(list, key, m) /\ First(list, key) = ValueAt(list, m)
<1> DEFINE I == {i \in 1..Len(list) : list[i].key = key}
<1>1. First(list, key) = LET k == IF I # {} THEN Min(I) ELSE 0 IN IF k = 0 THEN <<>> ELSE list[k].value
  BY Zenon DEF First, SelectInSeq
<1>2. CASE I = {}
  <2>1. First(list, key) = <<>>
    BY <1>1, <1>2
  <2>2. PICK m \in Nat : m = Len(list) + 1
    OBVIOUS
  <2>3. IsFirstPair(list, key, m)
    BY <1>2, <2>2 DEF IsFirstPair
  <2>4. ValueAt(list, m) = <<>>
    BY <2>2 DEF ValueAt
  <2> QED BY <2>1, <2>3, <2>4, Zenon
<1>3. CASE I # {}
  <2>1. I \in SUBSET Nat
    OBVIOUS
  <2>2. Min(I) \in I /\ \A k \in I : Min(I) <= k
    <3> HIDE DEF I
    <3> QED BY <1>3, <2>1, MinIsLeast
  <2>3. PICK m \in Nat \ {0} : m = Min(I) /\ m <= Len(list) /\ list[m].key = key
    <3>1. \A m \in I : m \in Nat \ {0} /\ m <= Len(list) /\ list[m].key = key
      OBVIOUS
    <3> HIDE DEF I
    <3> QED BY <2>2, <3>1, Zenon
  <2>4. ASSUME NEW i \in 1..(m - 1)
        PROVE  list[i].key # key
    <3>1. i \in 1..Len(list) /\ ~ (m <= i)
      BY <2>3
    <3> QED BY <2>2, <2>3, <3>1
  <2>5. IsFirstPair(list, key, m)
    BY <2>3, <2>4 DEF IsFirstPair
  <2>6. First(list, key) = ValueAt(list, m)
    <3> HIDE DEF I
    <3> QED BY <1>1, <1>3, <2>3 DEF ValueAt
  <2> QED BY <2>5, <2>6, Zenon
<1> QED BY <1>2, <1>3

\* Names and values in which the separators do not occur.
PlainCookies(list) ==
  \A k \in DOMAIN list :
    /\ Lacks(list[k].key, "=") /\ Lacks(list[k].key, ";") /\ Lacks(list[k].value, ";")

CookieSeparator == <<";", " ">>
FormSeparator == <<"&">>

LEMMA OneAndTwo ==
  ASSUME NEW S, NEW c \in S, NEW d \in S
  PROVE  /\ <<c>> \in Seq(S) /\ Len(<<c>>) = 1 /\ <<c>>[1] = c
         /\ <<c, d>> \in Seq(S) /\ Len(<<c, d>>) = 2 /\ <<c, d>>[1] = c
OBVIOUS

LEMMA SeparatorTypes ==
  /\ CookieSeparator \in Seq(Tokens) /\ CookieSeparator # <<>>
  /\ Len(CookieSeparator) = 2 /\ CookieSeparator[1] = ";"
  /\ FormSeparator \in Seq(Tokens) /\ FormSeparator # <<>>
  /\ Len(FormSeparator) = 1 /\ FormSeparator[1] = "&"
<1>1. ";" \in Tokens /\ " " \in Tokens /\ "&" \in Tokens
  BY BrowserAssumption
<1>2. CookieSeparator \in Seq(Tokens) /\ Len(CookieSeparator) = 2 /\ CookieSeparator[1] = ";"
  BY <1>1, OneAndTwo, Zenon DEF CookieSeparator
<1>3. FormSeparator \in Seq(Tokens) /\ Len(FormSeparator) = 1 /\ FormSeparator[1] = "&"
  BY <1>1, OneAndTwo, Zenon DEF FormSeparator
<1>4. CookieSeparator # <<>> /\ FormSeparator # <<>>
  BY DEF CookieSeparator, FormSeparator
<1> QED BY <1>2, <1>3, <1>4

LEMMA TextType ==
  ASSUME NEW list \in Seq(Pairs), NEW sep \in Seq(Tokens)
  PROVE  TextOf(list, sep) \in Seq(Tokens)
<1>1. PICK last : last \in Pairs
  <2>1. <<>> \in Seq(Tokens)
    OBVIOUS
  <2>2. [key |-> <<>>, value |-> <<>>] \in Pairs
    BY <2>1 DEF Pairs
  <2> QED BY <2>2, Zenon
<1> QED BY <1>1, TextAppend

\* At the beginning of a pair its value is taken, or the next one is looked at.
LEMMA LoginAtPair ==
  ASSUME NEW list \in Seq(Pairs), PlainCookies(list), NEW s \in Seq(Tokens), NEW at,
         LaidOut(s, list, CookieSeparator, at), NEW login,
         \A prev \in 1..(Len(s) + 2) : login[prev] = LoginTurn(s, login, prev),
         NEW k \in DOMAIN list
  PROVE  login[at[k]] = IF list[k].key = <<"login">> THEN list[k].value
                        ELSE IF k = Len(list) THEN <<>> ELSE login[at[k + 1]]
<1>1. IsRead(s, list, at, k)
  BY PairRead, Zenon
<1>2. PICK prev \in Nat \ {0}, eq \in Nat, end \in Nat, n \in Nat :
        prev = at[k] /\ eq = Equals(list, at, k) /\ end = EndOf(list, at, k) /\ n = Len(s)
  BY <1>1, Zenon DEF IsRead
<1>3. prev <= eq /\ eq <= end /\ end <= n
  BY <1>1, <1>2, Zenon DEF IsRead
<1>4. NextIn(s, "=", prev) = eq
  <2>1. Lacks(list[k].key, "=")
    BY Zenon DEF PlainCookies
  <2>2. NextIn(s, "=", at[k]) = Equals(list, at, k)
    BY <1>1, <2>1, EqualsFound
  <2> QED BY <1>2, <2>2, Zenon
<1>5. /\ NextIn(s, ";", StartAt(prev)) = end + 1
      /\ IF k = Len(list) THEN end = n ELSE at[k + 1] = end + 1 + 2 /\ end < n
  <2>1. StartAt(prev) \in Nat \ {0} /\ prev <= StartAt(prev) /\ StartAt(prev) <= end + 1
    BY <1>3 DEF StartAt
  <2>2. Len(CookieSeparator) = 2 /\ 2 \in Nat \ {0} /\ ";" = CookieSeparator[1] /\ ";" # "="
    <3>1. 2 \in Nat \ {0} /\ ";" # "="
      OBVIOUS
    <3> QED BY <3>1, SeparatorTypes, Zenon
  <2>3. Lacks(list[k].key, ";") /\ Lacks(list[k].value, ";")
    BY Zenon DEF PlainCookies
  <2>4. Len(CookieSeparator) \in Nat \ {0}
    BY <2>2
  <2>5. /\ NextIn(s, ";", StartAt(prev)) = EndOf(list, at, k) + 1
        /\ IF k = Len(list) THEN EndOf(list, at, k) = Len(s)
           ELSE at[k + 1] = EndOf(list, at, k) + 1 + Len(CookieSeparator) /\ EndOf(list, at, k) < Len(s)
    BY <1>2, <2>1, <2>2, <2>3, <2>4, EndFound
  <2> QED BY <1>2, <2>2, <2>5, Zenon
<1>6. SubSeq(s, prev, eq - 1) = list[k].key /\ SubSeq(s, eq + 1, end) = list[k].value
  BY <1>1, <1>2, Zenon DEF IsRead
<1>7. eq < end + 1 /\ (end + 1) - 1 = end /\ prev \in 1..(n + 2) /\ (end + 1) + 2 = end + 1 + 2
  BY <1>3
<1>8. end + 1 = Npos(s) <=> k = Len(list)
  <2>1. (k = Len(list) => end = n) /\ (k # Len(list) => end < n)
    BY <1>5, Zenon
  <2>2. Npos(s) = n + 1
    BY <1>2, Zenon DEF Npos
  <2> QED BY <2>1, <2>2
<1>9. login[prev] = LoginTurn(s, login, prev)
  BY <1>2, <1>7, Zenon
<1>10. LoginTurn(s, login, prev) =
         IF list[k].key = <<"login">> THEN list[k].value
         ELSE IF k = Len(list) THEN <<>> ELSE login[(end + 1) + 2]
  BY <1>4, <1>5, <1>6, <1>7, <1>8, Zenon DEF LoginTurn
<1> QED
  BY <1>2, <1>5, <1>7, <1>9, <1>10, Zenon

LEMMA LoginCookieFirst ==
  ASSUME NEW list \in Seq(Pairs), PlainCookies(list)
  PROVE  LoginCookie(CookieText(list)) = First(list, <<"login">>)
<1>1. PICK s, at :
        s = CookieText(list) /\ s \in Seq(Tokens) /\ LaidOut(s, list, CookieSeparator, at)
  <2>1. CookieText(list) = TextOf(list, CookieSeparator)
    BY Zenon DEF CookieText, TextOf, Piece, CookieSeparator
  <2>2. TextOf(list, CookieSeparator) \in Seq(Tokens)
    BY TextType, SeparatorTypes
  <2> QED BY <2>1, <2>2, PlacesExist, SeparatorTypes, Zenon
<1>2. PICK m : IsFirstPair(list, <<"login">>, m) /\ First(list, <<"login">>) = ValueAt(list, m)
  BY FirstFound
<1>3. Len(s) \in Nat /\ Len(list) \in Nat /\ DOMAIN list = 1..Len(list)
  OBVIOUS
<1>4. PICK login : /\ LoginCookie(s) = login[1]
                   /\ \A prev \in 1..(Len(s) + 2) : login[prev] = LoginTurn(s, login, prev)
  BY <1>3, LoginLoop
<1>5. /\ m \in Nat \ {0} /\ m <= Len(list) + 1
      /\ m <= Len(list) => list[m].key = <<"login">>
      /\ \A i \in 1..(m - 1) : list[i].key # <<"login">>
  BY <1>2, Zenon DEF IsFirstPair
<1> DEFINE Wrong == {k \in 1..Len(list) : k <= m /\ login[at[k]] # ValueAt(list, m)}
<1>6. ASSUME Wrong # {}
      PROVE  FALSE
  <2>1. Wrong \in SUBSET (0..Len(list))
    OBVIOUS
  <2>2. PICK k \in Wrong : \A j \in Wrong : j <= k
    <3> HIDE DEF Wrong
    <3> QED BY <1>3, <1>6, <2>1, LargestExists
  <2>3. k \in 1..Len(list) /\ k \in Nat /\ k <= m /\ login[at[k]] # ValueAt(list, m)
    OBVIOUS
  <2>4. k + 1 \in 1..Len(list) /\ k + 1 <= m => login[at[k + 1]] = ValueAt(list, m)
    <3>1. k + 1 \notin Wrong
      <4>1. ~ (k + 1 <= k)
        BY <2>3
      <4> HIDE DEF Wrong
      <4> QED BY <2>2, <4>1
    <3> QED BY <3>1
  <2> HIDE DEF Wrong
  <2>5. login[at[k]] = IF list[k].key = <<"login">> THEN list[k].value
                       ELSE IF k = Len(list) THEN <<>> ELSE login[at[k + 1]]
    <3>1. k \in DOMAIN list
      BY <2>3
    <3> QED BY <1>1, <1>4, <3>1, LoginAtPair
  <2>6. CASE k = m
    <3>1. ValueAt(list, m) = list[k].value /\ list[k].key = <<"login">>
      BY <1>5, <2>3, <2>6 DEF ValueAt
    <3> QED BY <2>3, <2>5, <3>1, Zenon
  <2>7. CASE k # m
    <3>1. k \in 1..(m - 1) /\ k + 1 <= m /\ (k # Len(list) => k + 1 \in 1..Len(list))
          /\ (k = Len(list) => ~ (m <= Len(list)))
      <4>1. PICK len \in Nat : len = Len(list)
        BY <1>3
      <4>2. m \in Nat /\ m <= len + 1 /\ k \in 1..len /\ k <= m
        BY <1>5, <2>3, <4>1, Zenon
      <4>3. /\ k \in 1..(m - 1) /\ k + 1 <= m /\ (k # len => k + 1 \in 1..len)
            /\ (k = len => ~ (m <= len))
        BY <2>7, <4>2
      <4> QED BY <4>1, <4>3, Zenon
    <3>2. list[k].key # <<"login">>
      BY <1>5, <3>1, Zenon
    <3>3. k = Len(list) => ValueAt(list, m) = <<>>
      BY <3>1, Zenon DEF ValueAt
    <3> QED BY <2>3, <2>4, <2>5, <3>1, <3>2, <3>3, Zenon
  <2> QED BY <2>6, <2>7
<1>7. CASE list # <<>>
  <2>1. 1 \in 1..Len(list) /\ 1 <= m
    BY <1>3, <1>5, <1>7
  <2>2. login[at[1]] = ValueAt(list, m)
    BY <1>6, <2>1
  <2>3. at[1] = 1
    BY <1>1, <1>7, Zenon DEF LaidOut
  <2> QED BY <1>1, <1>2, <1>4, <2>2, <2>3, Zenon
<1>8. CASE list = <<>>
  <2>1. s = <<>>
    BY <1>1, <1>8, Zenon DEF LaidOut
  <2>2. ValueAt(list, m) = <<>>
    BY <1>5, <1>8 DEF ValueAt
  <2>3. Len(s) = 0 /\ Npos(s) = 1
    BY <2>1 DEF Npos
  <2>4. NextIn(s, "=", 1) = 1 /\ NextIn(s, ";", 1) = 1
    <3>1. 1 \in Nat \ {0} /\ Len(s) \in Nat /\ 1 <= Len(s) + 1 /\ ~ (1 <= Len(s)) /\ 1..(1 - 1) = {}
      BY <2>3
    <3>2. ASSUME NEW c
          PROVE  NextIn(s, c, 1) = 1
      BY <3>1, NextInIs
    <3> QED BY <3>2, Zenon
  <2>5. StartAt(1) = 1 /\ ~ (1 < 1)
    BY DEF StartAt
  <2>6. LoginTurn(s, login, 1) = <<>>
    BY <2>3, <2>4, <2>5, Zenon DEF LoginTurn
  <2>7. 1 \in 1..(Len(s) + 2)
    BY <2>3
  <2> QED BY <1>1, <1>2, <1>4, <2>2, <2>6, <2>7, Zenon
<1> QED BY <1>7, <1>8

-----------------------------------------------------------------------------
\* The fields of a form

AllKnown(list, k) == \A i \in k..Len(list) : list[i].key \in Known

\* What is read from the k-th field on: the fields as they were sent, or up to one
\* that is unknown.
IsFields(list, k, fields) ==
  /\ fields \in Seq(Pairs)
  /\ AllKnown(list, k) => fields = SubSeq(list, k, Len(list))
  /\ ~ AllKnown(list, k) => HasUnknownField(fields)

LEMMA FieldsEnd ==
  ASSUME NEW list \in Seq(Pairs), NEW k \in Nat, k = Len(list) + 1
  PROVE  IsFields(list, k, <<>>)
<1>1. k..Len(list) = {} /\ k \in 1..(Len(list) + 1) /\ Len(list) \in (k - 1)..Len(list)
      /\ Len(list) - k + 1 = 0
  OBVIOUS
<1>2. SubSeq(list, k, Len(list)) \in Seq(Pairs) /\ Len(SubSeq(list, k, Len(list))) = 0
  BY <1>1, PartElements
<1>3. SubSeq(list, k, Len(list)) = <<>>
  BY <1>2, EmptySeq
<1>4. AllKnown(list, k) /\ <<>> \in Seq(Pairs)
  BY <1>1 DEF AllKnown
<1> QED BY <1>3, <1>4, Zenon DEF IsFields

LEMMA OneLess ==
  ASSUME NEW i, NEW k \in Nat, NEW n \in Nat, NEW r \in Nat, r = n - k, i \in 1..(1 + r), i # 1
  PROVE  /\ i - 1 \in 1..(n - k) /\ i - 1 \in 1..r /\ 1 + (i - 1) = i
         /\ (k + 1) + (i - 1) - 1 = k - 1 + i
OBVIOUS

LEMMA FieldsCons ==
  ASSUME NEW list \in Seq(Pairs), NEW k \in DOMAIN list, NEW rest, IsFields(list, k + 1, rest),
         list[k].key \in Known
  PROVE  IsFields(list, k, <<list[k]>> \o rest)
<1>1. PICK n \in Nat : n = Len(list) /\ k \in 1..n /\ k \in Nat /\ DOMAIN list = 1..n
  OBVIOUS
<1>2. list[k] \in Pairs
  OBVIOUS
<1>3. PICK one : one = <<list[k]>> /\ one \in Seq(Pairs) /\ Len(one) = 1 /\ one[1] = list[k]
  BY <1>2, OneAndTwo, Zenon
<1>4. rest \in Seq(Pairs)
  BY Zenon DEF IsFields
<1>5. PICK all \in Seq(Pairs) : all = one \o rest
        /\ Len(all) = 1 + Len(rest) /\ Len(rest) \in Nat
        /\ all[1] = list[k]
        /\ \A i \in 1..Len(rest) : all[1 + i] = rest[i]
  <2>1. /\ one \o rest \in Seq(Pairs)
        /\ Len(one \o rest) = Len(one) + Len(rest)
        /\ Len(rest) \in Nat
        /\ \A i \in 1..Len(one) : (one \o rest)[i] = one[i]
        /\ \A i \in 1..Len(rest) : (one \o rest)[Len(one) + i] = rest[i]
    BY <1>3, <1>4, ConcatElements
  <2>2. 1 \in 1..1
    OBVIOUS
  <2> QED BY <1>3, <2>1, <2>2, Zenon
<1>6. AllKnown(list, k) <=> AllKnown(list, k + 1)
  <2>1. k \in k..Len(list) /\ (k + 1)..Len(list) \subseteq k..Len(list)
        /\ \A i \in k..Len(list) : i = k \/ i \in (k + 1)..Len(list)
    BY <1>1
  <2> QED BY <2>1, Zenon DEF AllKnown
<1>7. ASSUME AllKnown(list, k)
      PROVE  all = SubSeq(list, k, Len(list))
  <2>1. rest = SubSeq(list, k + 1, n)
    BY <1>1, <1>6, <1>7, Zenon DEF IsFields
  <2>2. PICK m \in 1..(n + 1) : m = k + 1 /\ n \in (m - 1)..n /\ n - m + 1 = n - k
    BY <1>1
  <2>3. Len(rest) = n - k /\ \A i \in 1..(n - k) : rest[i] = list[m + i - 1]
    <3>1. /\ Len(SubSeq(list, m, n)) = n - m + 1
          /\ \A i \in 1..(n - m + 1) : SubSeq(list, m, n)[i] = list[m + i - 1]
      BY <1>1, <2>2, PartElements
    <3> QED BY <2>1, <2>2, <3>1, Zenon
  <2>4. SubSeq(list, k, n) = all
    <3>1. /\ k \in Nat \ {0} /\ n = k - 1 + Len(all) /\ n <= Len(list)
      BY <1>1, <1>5, <2>3
    <3>2. ASSUME NEW i \in 1..Len(all)
          PROVE  list[k - 1 + i] = all[i]
      <4>1. CASE i = 1
        <5>1. k - 1 + i = k
          BY <1>1, <4>1
        <5> QED BY <1>5, <4>1, <5>1, Zenon
      <4>2. CASE i # 1
        <5>1. /\ i - 1 \in 1..(n - k) /\ i - 1 \in 1..Len(rest) /\ 1 + (i - 1) = i
              /\ m + (i - 1) - 1 = k - 1 + i
          <6>1. PICK r \in Nat : r = Len(rest)
            BY <1>5, Zenon
          <6>2. Len(all) = 1 + r /\ r = n - k /\ m = k + 1 /\ k \in Nat
            BY <1>1, <1>5, <2>2, <2>3, <6>1, Zenon
          <6>3. i \in 1..(1 + r)
            BY <6>2, Zenon
          <6>4. /\ i - 1 \in 1..(n - k) /\ i - 1 \in 1..r /\ 1 + (i - 1) = i
                /\ (k + 1) + (i - 1) - 1 = k - 1 + i
            BY <1>1, <4>2, <6>2, <6>3, OneLess, Zenon
          <6> QED BY <6>1, <6>2, <6>4, Zenon
        <5>2. all[1 + (i - 1)] = rest[i - 1] /\ rest[i - 1] = list[m + (i - 1) - 1]
          BY <1>5, <2>3, <5>1, Zenon
        <5> QED BY <5>1, <5>2, Zenon
      <4> QED BY <4>1, <4>2
    <3> QED BY <3>1, <3>2, PartIs
  <2> QED BY <1>1, <2>4, Zenon
<1>8. ASSUME ~ AllKnown(list, k)
      PROVE  HasUnknownField(all)
  <2>1. HasUnknownField(rest)
    BY <1>6, <1>8, Zenon DEF IsFields
  <2>2. PICK i \in DOMAIN rest : rest[i].key \notin Known
    BY <2>1, Zenon DEF HasUnknownField, Known
  <2>3. i \in 1..Len(rest) /\ 1 + i \in DOMAIN all
    BY <1>4, <1>5
  <2>4. all[1 + i].key \notin Known
    BY <1>5, <2>2, <2>3, Zenon
  <2> QED BY <2>3, <2>4, Zenon DEF HasUnknownField, Known
<1> QED
  BY <1>3, <1>5, <1>7, <1>8, Zenon DEF IsFields

LEMMA FieldsStop ==
  ASSUME NEW list \in Seq(Pairs), NEW k \in DOMAIN list, list[k].key \notin Known
  PROVE  IsFields(list, k, <<Pair(list[k].key, <<>>)>>)
<1>1. list[k] \in Pairs
  OBVIOUS
<1>2. PICK p \in Pairs : p = Pair(list[k].key, <<>>) /\ p.key = list[k].key
  <2>1. list[k].key \in Seq(Tokens) /\ <<>> \in Seq(Tokens)
    BY <1>1, PairTexts
  <2>2. ASSUME NEW a \in Seq(Tokens), NEW b \in Seq(Tokens)
        PROVE  Pair(a, b) \in Pairs /\ Pair(a, b).key = a
    BY DEF Pairs, Pair
  <2> QED BY <2>1, <2>2, Zenon
<1>3. <<p>> \in Seq(Pairs) /\ 1 \in DOMAIN <<p>> /\ <<p>>[1] = p
  OBVIOUS
<1>4. HasUnknownField(<<p>>)
  BY <1>2, <1>3, Zenon DEF HasUnknownField, Known
<1>5. k \in k..Len(list)
  OBVIOUS
<1>6. ~ AllKnown(list, k)
  BY <1>5, Zenon DEF AllKnown
<1> QED
  BY <1>2, <1>3, <1>4, <1>6, Zenon DEF IsFields

\* Names and values in which the separators do not occur.
PlainForm(list) ==
  \A k \in DOMAIN list :
    /\ Lacks(list[k].key, "=") /\ Lacks(list[k].key, ";") /\ Lacks(list[k].key, "&")
    /\ Lacks(list[k].value, "&")

\* At the beginning of a pair it is read whole, the ';' in it or behind it
\* notwithstanding.
LEMMA FormAtPair ==
  ASSUME NEW list \in Seq(Pairs), PlainForm(list), NEW s \in Seq(Tokens), NEW at,
         LaidOut(s, list, FormSeparator, at), NEW fields,
         \A prev \in 1..(Len(s) + 1) : fields[prev] = FormTurn(s, fields, prev),
         NEW k \in DOMAIN list
  PROVE  fields[at[k]] =
           IF list[k].key \in Known
           THEN <<list[k]>> \o (IF k = Len(list) THEN <<>> ELSE fields[at[k + 1]])
           ELSE <<Pair(list[k].key, <<>>)>>
<1>1. IsRead(s, list, at, k)
  BY PairRead, Zenon
<1>2. PICK prev \in Nat \ {0}, eq \in Nat, last \in Nat, n \in Nat :
        prev = at[k] /\ eq = Equals(list, at, k) /\ last = EndOf(list, at, k) /\ n = Len(s)
  BY <1>1, Zenon DEF IsRead
<1>3. prev <= eq /\ eq <= last /\ last <= n
  BY <1>1, <1>2, Zenon DEF IsRead
<1>4. NextIn(s, "=", prev) = eq
  <2>1. Lacks(list[k].key, "=")
    BY Zenon DEF PlainForm
  <2>2. NextIn(s, "=", at[k]) = Equals(list, at, k)
    BY <1>1, <2>1, EqualsFound
  <2> QED BY <1>2, <2>2, Zenon
<1>5. PICK c : c = IF prev = 1 THEN "&" ELSE ";"
  OBVIOUS
<1>6. PICK separation \in Nat : separation = NextIn(s, c, StartAt(prev)) /\ eq < separation
  <2>1. StartAt(prev) \in Nat \ {0} /\ prev <= StartAt(prev)
    BY DEF StartAt
  <2>2. c # "=" /\ Lacks(list[k].key, c)
    BY <1>5, Zenon DEF PlainForm
  <2>3. at[k] <= StartAt(prev)
    BY <1>2, <2>1, Zenon
  <2>4. Equals(list, at, k) < NextIn(s, c, StartAt(prev))
    BY <1>1, <2>1, <2>2, <2>3, NotInName
  <2>5. IsFirst(s, c, StartAt(prev), NextIn(s, c, StartAt(prev)))
    <3>1. Len(s) \in Nat
      OBVIOUS
    <3> QED BY <2>1, <3>1, NextInFinds
  <2> QED BY <1>2, <2>4, <2>5, Zenon DEF IsFirst
<1>7. /\ NextIn(s, "&", prev + 1) = last + 1
      /\ IF k = Len(list) THEN last = n ELSE at[k + 1] = last + 1 + 1 /\ last < n
  <2>1. prev + 1 \in Nat \ {0} /\ prev <= prev + 1 /\ prev + 1 <= last + 1
    BY <1>3
  <2>2. Len(FormSeparator) = 1 /\ 1 \in Nat \ {0} /\ "&" = FormSeparator[1] /\ "&" # "="
    <3>1. 1 \in Nat \ {0} /\ "&" # "="
      OBVIOUS
    <3> QED BY <3>1, SeparatorTypes, Zenon
  <2>3. Lacks(list[k].key, "&") /\ Lacks(list[k].value, "&")
    BY Zenon DEF PlainForm
  <2>4. Len(FormSeparator) \in Nat \ {0}
    BY <2>2, Zenon
  <2>5. at[k] <= prev + 1 /\ prev + 1 <= EndOf(list, at, k) + 1
    BY <1>2, <2>1, Zenon
  <2>6. PICK d : d = "&"
    OBVIOUS
  <2>7. /\ Len(FormSeparator) \in Nat \ {0} /\ d = FormSeparator[1] /\ d # "="
        /\ Lacks(list[k].key, d) /\ Lacks(list[k].value, d)
    BY <2>2, <2>3, <2>4, <2>6, Zenon
  <2>8. /\ NextIn(s, d, prev + 1) = EndOf(list, at, k) + 1
        /\ IF k = Len(list) THEN EndOf(list, at, k) = Len(s)
           ELSE at[k + 1] = EndOf(list, at, k) + 1 + Len(FormSeparator) /\ EndOf(list, at, k) < Len(s)
    BY <2>1, <2>5, <2>7, EndFound
  <2> QED BY <1>2, <2>2, <2>6, <2>8, Zenon
<1>8. SubSeq(s, prev, eq - 1) = list[k].key /\ SubSeq(s, eq + 1, last) = list[k].value
  BY <1>1, <1>2, Zenon DEF IsRead
<1>9. ~ (eq >= separation) /\ (last + 1) - 1 = last /\ prev \in 1..(n + 1)
  BY <1>3, <1>6
<1>10. last + 1 = Npos(s) <=> k = Len(list)
  <2>1. (k = Len(list) => last = n) /\ (k # Len(list) => last < n)
    BY <1>7, Zenon
  <2>2. Npos(s) = n + 1
    BY <1>2, Zenon DEF Npos
  <2> QED BY <2>1, <2>2
<1>11. fields[prev] = FormTurn(s, fields, prev)
  BY <1>2, <1>9, Zenon
<1>12. list[k] = Pair(list[k].key, list[k].value)
  <2>1. list[k] \in Pairs
    OBVIOUS
  <2> QED BY <2>1, PairTexts, Zenon
<1>13. FormTurn(s, fields, prev) =
         IF list[k].key \in Known
         THEN <<list[k]>> \o (IF k = Len(list) THEN <<>> ELSE fields[(last + 1) + 1])
         ELSE <<Pair(list[k].key, <<>>)>>
  BY <1>4, <1>5, <1>6, <1>7, <1>8, <1>9, <1>10, <1>12, Zenon DEF FormTurn
<1> QED
  BY <1>2, <1>7, <1>11, <1>13, Zenon

LEMMA FormFieldsRead ==
  ASSUME NEW form \in Seq(Pairs), PlainForm(form)
  PROVE  IsFields(form, 1, FormFields(FormText(form)))
<1>1. PICK s, at : s = FormText(form) /\ s \in Seq(Tokens) /\ LaidOut(s, form, FormSeparator, at)
  <2>1. FormText(form) = TextOf(form, FormSeparator)
    BY Zenon DEF FormText, TextOf, Piece, FormSeparator
  <2>2. TextOf(form, FormSeparator) \in Seq(Tokens)
    BY TextType, SeparatorTypes
  <2> QED BY <2>1, <2>2, PlacesExist, SeparatorTypes, Zenon
<1>2. Len(s) \in Nat /\ Len(form) \in Nat /\ DOMAIN form = 1..Len(form)
  OBVIOUS
<1>3. PICK fields : /\ FormFields(s) = fields[1]
                    /\ \A prev \in 1..(Len(s) + 1) : fields[prev] = FormTurn(s, fields, prev)
  BY <1>2, FormLoop
<1> DEFINE Wrong == {k \in 1..Len(form) : ~ IsFields(form, k, fields[at[k]])}
<1>4. ASSUME Wrong # {}
      PROVE  FALSE
  <2>1. Wrong \in SUBSET (0..Len(form))
    OBVIOUS
  <2>2. PICK k \in Wrong : \A j \in Wrong : j <= k
    <3> HIDE DEF Wrong
    <3> QED BY <1>2, <1>4, <2>1, LargestExists
  <2>3. k \in DOMAIN form /\ k \in Nat /\ ~ IsFields(form, k, fields[at[k]])
    BY <1>2
  <2>4. k + 1 \in 1..Len(form) => IsFields(form, k + 1, fields[at[k + 1]])
    <3>1. k + 1 \notin Wrong
      <4>1. ~ (k + 1 <= k)
        BY <2>3
      <4> HIDE DEF Wrong
      <4> QED BY <2>2, <4>1
    <3> QED BY <3>1
  <2> HIDE DEF Wrong
  <2>5. PICK rest : rest = IF k = Len(form) THEN <<>> ELSE fields[at[k + 1]]
    OBVIOUS
  <2>6. IsFields(form, k + 1, rest)
    <3>1. CASE k = Len(form)
      <4>1. k + 1 \in Nat /\ k + 1 = Len(form) + 1
        BY <2>3, <3>1
      <4>2. IsFields(form, k + 1, <<>>)
        BY <4>1, FieldsEnd
      <4> QED BY <2>5, <3>1, <4>2, Zenon
    <3>2. CASE k # Len(form)
      <4>1. k + 1 \in 1..Len(form)
        BY <1>2, <2>3, <3>2
      <4> QED BY <2>4, <2>5, <3>2, <4>1, Zenon
    <3> QED BY <3>1, <3>2
  <2>7. fields[at[k]] = IF form[k].key \in Known THEN <<form[k]>> \o rest
                        ELSE <<Pair(form[k].key, <<>>)>>
    <3>1. fields[at[k]] =
            IF form[k].key \in Known
            THEN <<form[k]>> \o (IF k = Len(form) THEN <<>> ELSE fields[at[k + 1]])
            ELSE <<Pair(form[k].key, <<>>)>>
      BY <1>1, <1>3, <2>3, FormAtPair
    <3> QED BY <2>5, <3>1, Zenon
  <2>8. CASE form[k].key \in Known
    <3>1. IsFields(form, k, <<form[k]>> \o rest)
      BY <2>3, <2>6, <2>8, FieldsCons, Zenon
    <3> QED BY <2>3, <2>7, <2>8, <3>1, Zenon
  <2>9. CASE form[k].key \notin Known
    <3>1. IsFields(form, k, <<Pair(form[k].key, <<>>)>>)
      BY <2>3, <2>9, FieldsStop, Zenon
    <3> QED BY <2>3, <2>7, <2>9, <3>1, Zenon
  <2> QED BY <2>8, <2>9
<1>5. CASE form # <<>>
  <2>1. 1 \in 1..Len(form)
    BY <1>2, <1>5
  <2>2. IsFields(form, 1, fields[at[1]])
    BY <1>4, <2>1
  <2>3. at[1] = 1
    BY <1>1, <1>5, Zenon DEF LaidOut
  <2> QED BY <1>1, <1>3, <2>2, <2>3, Zenon
<1>6. CASE form = <<>>
  <2>1. s = <<>>
    BY <1>1, <1>6, Zenon DEF LaidOut
  <2>2. IsFields(form, 1, <<>>)
    <3>1. 1 = Len(form) + 1 /\ 1 \in Nat
      BY <1>6
    <3> QED BY <3>1, FieldsEnd
  <2>3. Len(s) = 0 /\ Npos(s) = 1 /\ 1 >= 1
    BY <2>1 DEF Npos
  <2>4. ASSUME NEW c
        PROVE  NextIn(s, c, 1) = 1
    <3>1. 1 \in Nat \ {0} /\ Len(s) \in Nat /\ 1 <= Len(s) + 1 /\ ~ (1 <= Len(s)) /\ 1..(1 - 1) = {}
      BY <2>3
    <3> QED BY <3>1, NextInIs
  <2>5. StartAt(1) = 1
    BY DEF StartAt
  <2>6. FormTurn(s, fields, 1) = <<>>
    BY <2>3, <2>4, <2>5, Zenon DEF FormTurn
  <2>7. 1 \in 1..(Len(s) + 1)
    BY <2>3
  <2> QED BY <1>1, <1>3, <2>2, <2>6, <2>7, Zenon
<1> QED BY <1>5, <1>6

\* The last pair of a name, found from either side.
LEMMA FieldLatest ==
  ASSUME NEW list \in Seq(Pairs), NEW key
  PROVE  FieldOf(list, key) = Latest(list, key)
<1> DEFINE I == {i \in 1..Len(list) : list[i].key = key}
<1>1. PICK n \in Nat : n = Len(list)
  OBVIOUS
<1>2. PICK rev \in Seq(Pairs) : rev = Reverse(list) /\ Len(rev) = n /\ \A i \in 1..n : rev[i] = list[(n - i) + 1]
  <2>1. Reverse(list) = [i \in 1..n |-> list[(n - i) + 1]]
    BY <1>1, Zenon DEF Reverse
  <2>2. \A i \in 1..n : list[(n - i) + 1] \in Pairs
    BY <1>1
  <2>3. [i \in 1..n |-> list[(n - i) + 1]] \in Seq(Pairs) /\ Len([i \in 1..n |-> list[(n - i) + 1]]) = n
    BY <2>2
  <2> QED BY <2>1, <2>3
<1>3. PICK m : IsFirstPair(rev, key, m) /\ First(rev, key) = ValueAt(rev, m)
  BY FirstFound
<1>4. /\ m \in Nat \ {0} /\ m <= n + 1
      /\ m <= n => rev[m].key = key
      /\ \A i \in 1..(m - 1) : rev[i].key # key
  BY <1>2, <1>3, Zenon DEF IsFirstPair
<1>5. FieldOf(list, key) = LET k == IF I # {} THEN Max(I) ELSE 0 IN IF k = 0 THEN <<>> ELSE list[k].value
  BY Zenon DEF FieldOf, SelectLastInSeq
<1>6. ASSUME NEW i \in I
      PROVE  i \in Nat /\ i <= (n - m) + 1
  <2>1. i \in 1..n /\ list[i].key = key
    BY <1>1
  <2>2. (n - i) + 1 \in 1..n /\ (n - ((n - i) + 1)) + 1 = i
    BY <2>1
  <2>3. rev[(n - i) + 1].key = key
    BY <1>2, <2>1, <2>2
  <2>4. ~ ((n - i) + 1 \in 1..(m - 1))
    BY <1>4, <2>3, Zenon
  <2> QED BY <1>4, <2>1, <2>2, <2>4
<1>7. CASE m = n + 1
  <2>1. I = {}
    <3>1. ASSUME NEW i \in I
          PROVE  FALSE
      <4>1. i \in 1..n
        BY <1>1
      <4>2. i \in Nat /\ i <= (n - m) + 1
        BY <1>6
      <4> HIDE DEF I
      <4> QED BY <1>7, <4>1, <4>2
    <3> HIDE DEF I
    <3> QED BY <3>1
  <2>2. FieldOf(list, key) = <<>>
    <3> HIDE DEF I
    <3> QED BY <1>5, <2>1
  <2>3. ValueAt(rev, m) = <<>>
    BY <1>2, <1>7 DEF ValueAt
  <2> QED BY <1>2, <1>3, <2>2, <2>3, Zenon DEF Latest
<1>8. CASE m # n + 1
  <2>1. PICK last \in Nat \ {0} : last = (n - m) + 1 /\ last \in 1..n /\ m \in 1..n
    BY <1>4, <1>8
  <2>2. rev[m] = list[last]
    BY <1>2, <2>1
  <2>3. m <= n
    BY <2>1
  <2>4. last \in I
    BY <1>1, <1>4, <2>1, <2>2, <2>3
  <2>5. \A i \in I : i \in Nat /\ last >= i
    <3> HIDE DEF I
    <3>1. \A i \in I : i \in Nat /\ i <= last
      BY <1>6, <2>1, Zenon
    <3> QED BY <3>1
  <2>6. Max(I) = last
    <3> HIDE DEF I
    <3>1. \A x \in I : (\A y \in I : x >= y) => x = last
      BY <2>4, <2>5
    <3> QED BY <2>4, <2>5, <3>1 DEF Max
  <2>7. FieldOf(list, key) = list[last].value
    <3> HIDE DEF I
    <3> QED BY <1>5, <2>1, <2>4, <2>6
  <2>8. ValueAt(rev, m) = list[last].value
    BY <1>2, <2>2, <2>3, Zenon DEF ValueAt
  <2> QED BY <1>2, <1>3, <2>7, <2>8, Zenon DEF Latest
<1> QED BY <1>7, <1>8

\* SubSeq of the whole.
LEMMA WholePart ==
  ASSUME NEW S, NEW s \in Seq(S)
  PROVE  SubSeq(s, 1, Len(s)) = s
<1>1. 1 \in Nat \ {0} /\ Len(s) \in Nat /\ Len(s) = 1 - 1 + Len(s) /\ Len(s) <= Len(s)
      /\ \A i \in 1..Len(s) : 1 - 1 + i = i
  OBVIOUS
<1>2. \A i \in 1..Len(s) : s[1 - 1 + i] = s[i]
  BY <1>1
<1> QED BY <1>1, <1>2, PartIs

Names(list) == {p.key : p \in ToSet(list)}

\* What FieldsRead says of the cookie c that is found in a list, and of a step to
\* where a login form leads.
CookieRead(c, list) ==
  LET value == First(list, <<"login">>)
  IN  c = IF \E d \in Cookies : value = <<d>> THEN value[1] ELSE NoCookie

FormRead(where, accounts, form) ==
  LET username == Latest(form, <<"username">>)
  IN  where = "login" <=>
        /\ Names(form) \subseteq Known
        /\ username \in DOMAIN accounts
        /\ accounts[username] = Latest(form, <<"password">>)

LEMMA LacksAll ==
  ASSUME NEW s, NEW C, ToSet(s) \cap C = {}, NEW c \in C, NEW S, s \in Seq(S)
  PROVE  Lacks(s, c)
BY DEF Lacks, ToSet

LEMMA ReadingCookie ==
  ASSUME NEW list \in CookieLists
  PROVE  list \in Seq(Pairs) /\ CookieRead(RequestCookie(CookieText(list)), list)
<1>1. list \in Seq(Pairs)
  BY BrowserAssumption
<1>2. PlainCookies(list)
  <2>1. ASSUME NEW k \in DOMAIN list
        PROVE  /\ Lacks(list[k].key, "=") /\ Lacks(list[k].key, ";") /\ Lacks(list[k].value, ";")
    <3>1. ToSet(list[k].key) \cap {"=", ";"} = {} /\ ";" \notin ToSet(list[k].value)
      BY BrowserAssumption, Zenon
    <3>2. list[k].key \in Seq(Tokens) /\ list[k].value \in Seq(Tokens)
      <4>1. list[k] \in Pairs
        BY <1>1
      <4> QED BY <4>1, PairTexts, Zenon
    <3>3. "=" \in {"=", ";"} /\ ";" \in {"=", ";"} /\ ";" \in {";"}
      BY Zenon
    <3>4. ToSet(list[k].value) \cap {";"} = {}
      BY <3>1, Zenon
    <3> QED BY <3>1, <3>2, <3>3, <3>4, LacksAll, Zenon
  <2> QED BY <2>1, Zenon DEF PlainCookies
<1>3. PICK value : value = First(list, <<"login">>) /\ LoginCookie(CookieText(list)) = value
  BY <1>1, <1>2, LoginCookieFirst, Zenon
<1>4. RequestCookie(CookieText(list)) =
        IF \E c \in Cookies : value = <<c>> THEN CHOOSE c \in Cookies : value = <<c>> ELSE NoCookie
  BY <1>3, Zenon DEF RequestCookie
<1>5. ASSUME NEW d \in Cookies, value = <<d>>
      PROVE  (CHOOSE c \in Cookies : value = <<c>>) = value[1]
  <2>1. \A c \in Cookies : value = <<c>> => c = value[1]
    OBVIOUS
  <2>2. (CHOOSE c \in Cookies : value = <<c>>) \in Cookies /\ value = <<CHOOSE c \in Cookies : value = <<c>>>>
    BY <1>5, Zenon
  <2> QED BY <2>1, <2>2, Zenon
<1>6. CookieRead(RequestCookie(CookieText(list)), list)
  BY <1>3, <1>4, <1>5, Zenon DEF CookieRead
<1> QED BY <1>1, <1>6

LEMMA ReadingForm ==
  ASSUME NEW form \in Forms
  PROVE  form \in Seq(Pairs) /\ FormRead(LoginOutcome(FormText(form)), authentication_map_, form)
<1>1. form \in Seq(Pairs) /\ DOMAIN form = 1..Len(form)
  <2>1. form \in Seq(Pairs)
    BY BrowserAssumption, Zenon
  <2> QED BY <2>1
<1>2. PlainForm(form)
  <2>1. ASSUME NEW k \in DOMAIN form
        PROVE  /\ Lacks(form[k].key, "=") /\ Lacks(form[k].key, ";") /\ Lacks(form[k].key, "&")
               /\ Lacks(form[k].value, "&")
    <3>1. ToSet(form[k].key) \cap {"=", ";", "&"} = {} /\ "&" \notin ToSet(form[k].value)
      BY BrowserAssumption, Zenon
    <3>2. form[k].key \in Seq(Tokens) /\ form[k].value \in Seq(Tokens)
      <4>1. form[k] \in Pairs
        BY <1>1
      <4> QED BY <4>1, PairTexts, Zenon
    <3>3. /\ "=" \in {"=", ";", "&"} /\ ";" \in {"=", ";", "&"} /\ "&" \in {"=", ";", "&"}
          /\ "&" \in {"&"}
      BY Zenon
    <3>4. ToSet(form[k].value) \cap {"&"} = {}
      BY <3>1, Zenon
    <3> QED BY <3>1, <3>2, <3>3, <3>4, LacksAll, Zenon
  <2> QED BY <2>1, Zenon DEF PlainForm
<1>3. PICK fields : fields = FormFields(FormText(form)) /\ IsFields(form, 1, fields)
  BY <1>1, <1>2, FormFieldsRead, Zenon
<1>4. Names(form) \subseteq Known <=> AllKnown(form, 1)
  BY <1>1, Zenon DEF Names, AllKnown, ToSet
<1>5. CASE AllKnown(form, 1)
  <2>1. fields = form
    <3>1. fields = SubSeq(form, 1, Len(form))
      BY <1>3, <1>5, Zenon DEF IsFields
    <3> QED BY <1>1, <3>1, WholePart, Zenon
  <2>2. ~ HasUnknownField(form)
    BY <1>1, <1>5, Zenon DEF HasUnknownField, AllKnown, Known
  <2>3. /\ FieldOf(form, <<"username">>) = Latest(form, <<"username">>)
        /\ FieldOf(form, <<"password">>) = Latest(form, <<"password">>)
    BY <1>1, FieldLatest, Zenon
  <2>4. LoginOutcome(FormText(form)) =
          IF /\ Latest(form, <<"username">>) \in DOMAIN authentication_map_
             /\ authentication_map_[Latest(form, <<"username">>)] = Latest(form, <<"password">>)
          THEN "login" ELSE "failed login"
    BY <1>3, <2>1, <2>2, <2>3, Zenon DEF LoginOutcome
  <2>5. "login" # "failed login"
    OBVIOUS
  <2> QED BY <1>1, <1>4, <1>5, <2>4, <2>5, Zenon DEF FormRead
<1>6. CASE ~ AllKnown(form, 1)
  <2>1. HasUnknownField(fields)
    BY <1>3, <1>6, Zenon DEF IsFields
  <2>2. LoginOutcome(FormText(form)) = "bad form"
    BY <1>3, <2>1, Zenon DEF LoginOutcome
  <2>3. "login" # "bad form"
    OBVIOUS
  <2> QED BY <1>1, <1>4, <1>6, <2>2, <2>3, Zenon DEF FormRead
<1> QED BY <1>5, <1>6

-----------------------------------------------------------------------------
\* Requests are read right, by any number of threads

\* The steps at which a request has only been read.
Reading == {"purging", "bad form", "failed login", "login"}
Steps == {"idle", "lookup", "file", "guarded file", "insert"} \cup Reading

ReadRight(t) ==
  /\ pc[t] = "purging" => CookieRead(cookie[t], sent[t])
  /\ pc[t] \in {"bad form", "failed login", "login"} =>
       FormRead(pc[t], authentication_map_, sent[t])

\* Before Init there are no requests whose users could change.
IdleUntilInit == configured = "no" => \A t \in Threads : pc[t] = "idle"

RInv ==
  /\ pc \in [Threads -> Steps] /\ cookie \in [Threads -> Cookies \cup {NoCookie}]
  /\ sent \in [Threads -> Seq(Pairs)]
  /\ IdleUntilInit
  /\ \A t \in Threads : ReadRight(t)

\* A step of one thread.
LEMMA ReadStep ==
  ASSUME RInv, NEW t \in Threads, NEW to \in Steps, NEW list \in Seq(Pairs),
         pc' = [pc EXCEPT ![t] = to],
         cookie' \in [Threads -> Cookies \cup {NoCookie}],
         sent' = [sent EXCEPT ![t] = list],
         \A u \in Threads \ {t} : cookie'[u] = cookie[u],
         configured # "no", UNCHANGED <<configured, authentication_map_>>,
         to = "purging" => CookieRead(cookie'[t], list),
         to \in {"bad form", "failed login", "login"} => FormRead(to, authentication_map_, list)
  PROVE  RInv'
<1>1. pc \in [Threads -> Steps] /\ sent \in [Threads -> Seq(Pairs)]
  BY Zenon DEF RInv
<1>2. /\ pc' \in [Threads -> Steps] /\ pc'[t] = to
      /\ \A u \in Threads \ {t} : pc'[u] = pc[u]
  BY <1>1
<1>3. /\ sent' \in [Threads -> Seq(Pairs)] /\ sent'[t] = list
      /\ \A u \in Threads \ {t} : sent'[u] = sent[u]
  BY <1>1
<1>4. ReadRight(t)'
  BY <1>2, <1>3, Zenon DEF ReadRight
<1>5. ASSUME NEW u \in Threads \ {t}
      PROVE  ReadRight(u)'
  <2>1. ReadRight(u)
    BY Zenon DEF RInv
  <2> QED BY <1>2, <1>3, <2>1, Zenon DEF ReadRight
<1>6. IdleUntilInit'
  BY Zenon DEF IdleUntilInit
<1> QED
  BY <1>2, <1>3, <1>4, <1>5, <1>6, Zenon DEF RInv

\* Nothing is done for a request before Init.
LEMMA BusyAfterInit ==
  ASSUME RInv, NEW t \in Threads, pc[t] # "idle"
  PROVE  configured # "no"
BY Zenon DEF RInv, IdleUntilInit

\* A step that leaves what was read.
LEMMA LeaveStep ==
  ASSUME RInv, NEW t \in Threads, NEW from \in Steps, NEW to \in Steps, Goto(t, from, to),
         from # "idle", to \notin Reading,
         cookie' \in [Threads -> Cookies \cup {NoCookie}],
         \A u \in Threads \ {t} : cookie'[u] = cookie[u],
         UNCHANGED <<configured, authentication_map_>>,
         sent' = sent \/ sent' = [sent EXCEPT ![t] = <<>>]
  PROVE  RInv'
<1>1. sent \in [Threads -> Seq(Pairs)]
  BY Zenon DEF RInv
<1>2. PICK list \in Seq(Pairs) : sent' = [sent EXCEPT ![t] = list]
  <2>1. CASE sent' = sent
    <3>1. sent[t] \in Seq(Pairs) /\ sent = [sent EXCEPT ![t] = sent[t]]
      BY <1>1
    <3> QED BY <2>1, <3>1, Zenon
  <2>2. CASE sent' = [sent EXCEPT ![t] = <<>>]
    <3>1. <<>> \in Seq(Pairs)
      OBVIOUS
    <3> QED BY <2>2, <3>1, Zenon
  <2> QED BY <2>1, <2>2
<1>3. configured # "no"
  BY BusyAfterInit, Zenon DEF Goto
<1>4. pc' = [pc EXCEPT ![t] = to]
  BY Zenon DEF Goto
<1>5. to # "purging" /\ to \notin {"bad form", "failed login", "login"}
  BY DEF Reading
<1> QED
  BY <1>2, <1>3, <1>4, <1>5, ReadStep

\* A step that finishes a request.
LEMMA FinishRead ==
  ASSUME RInv, NEW t \in Threads, NEW from \in Steps, NEW how, Finish(t, from, how), from # "idle"
  PROVE  RInv'
<1>1. cookie' \in [Threads -> Cookies \cup {NoCookie}]
      /\ \A u \in Threads \ {t} : cookie'[u] = cookie[u]
  BY Zenon DEF RInv, Finish
<1>2. UNCHANGED <<configured, authentication_map_>> /\ Goto(t, from, "idle")
      /\ sent' = [sent EXCEPT ![t] = <<>>]
  BY DEF Finish, settings
<1>3. "idle" \notin Reading /\ "idle" \in Steps
  <2>1. "idle" \notin Reading
    BY DEF Reading
  <2>2. "idle" \in Steps
    BY Zenon DEF Steps
  <2> QED BY <2>1, <2>2
<1> QED
  BY <1>1, <1>2, <1>3, LeaveStep, Zenon

\* A step that begins one.
LEMMA BeginRead ==
  ASSUME RInv, NEW t \in Threads, NEW list \in Seq(Pairs), NEW c \in Cookies \cup {NoCookie},
         NEW to \in Steps, Begin(t, list, c, to),
         to = "purging" => CookieRead(c, list),
         to \in {"bad form", "failed login", "login"} => FormRead(to, authentication_map_, list)
  PROVE  RInv'
<1>1. cookie \in [Threads -> Cookies \cup {NoCookie}]
  BY Zenon DEF RInv
<1>2. /\ configured = "ok" /\ UNCHANGED <<configured, authentication_map_>>
      /\ pc' = [pc EXCEPT ![t] = to] /\ sent' = [sent EXCEPT ![t] = list]
      /\ cookie' = [cookie EXCEPT ![t] = c]
  BY Zenon DEF Begin, Goto, settings
<1>3. /\ cookie' \in [Threads -> Cookies \cup {NoCookie}] /\ cookie'[t] = c
      /\ \A u \in Threads \ {t} : cookie'[u] = cookie[u]
  BY <1>1, <1>2
<1>4. configured # "no"
  BY <1>2
<1>5. to = "purging" => CookieRead(cookie'[t], list)
  BY <1>3, Zenon
<1> QED
  BY <1>2, <1>3, <1>4, <1>5, ReadStep

LEMMA TickOrInitRead ==
  ASSUME RInv, Tick \/ Init
  PROVE  RInv'
<1>1. UNCHANGED <<pc, cookie, sent>> /\ (Tick => UNCHANGED <<configured, authentication_map_>>)
      /\ (Init => configured = "no")
  BY DEF Tick, Init, request, settings
<1>2. CASE Tick
  BY <1>1, <1>2, Zenon DEF RInv, IdleUntilInit, ReadRight
<1>3. CASE Init
  <2>1. \A t \in Threads : pc[t] = "idle" /\ pc'[t] = "idle"
    BY <1>1, <1>3, Zenon DEF RInv, IdleUntilInit
  <2>2. "idle" # "purging" /\ "idle" \notin {"bad form", "failed login", "login"}
    OBVIOUS
  <2>3. \A t \in Threads : ReadRight(t)'
    BY <2>1, <2>2, Zenon DEF ReadRight
  <2> QED BY <1>1, <2>1, <2>3, Zenon DEF RInv, IdleUntilInit
<1> QED BY <1>2, <1>3

LEMMA RequestRead ==
  ASSUME RInv, NEW t \in Threads,
         \/ \E list \in CookieLists : BeginGet(t, list)
         \/ \E form \in Forms : BeginPost(t, form)
         \/ BeginUnguarded(t)
  PROVE  RInv'
<1>1. ASSUME NEW list \in CookieLists, BeginGet(t, list)
      PROVE  RInv'
  <2>1. list \in Seq(Pairs) /\ CookieRead(RequestCookie(CookieText(list)), list)
    BY ReadingCookie
  <2>2. PICK c \in Cookies \cup {NoCookie} : c = RequestCookie(CookieText(list))
    BY CookieKnown, Zenon
  <2>3. Begin(t, list, c, "purging") /\ CookieRead(c, list)
    BY <1>1, <2>1, <2>2, Zenon DEF BeginGet
  <2>4. PICK to \in Steps : to = "purging"
    BY Zenon DEF Steps, Reading
  <2>5. to \notin {"bad form", "failed login", "login"}
    BY <2>4
  <2>6. Begin(t, list, c, to)
    BY <2>3, <2>4, Zenon
  <2> QED BY <2>1, <2>3, <2>5, <2>6, BeginRead
<1>2. ASSUME NEW form \in Forms, BeginPost(t, form)
      PROVE  RInv'
  <2>1. form \in Seq(Pairs) /\ FormRead(LoginOutcome(FormText(form)), authentication_map_, form)
    BY ReadingForm
  <2>2. PICK to : to = LoginOutcome(FormText(form)) /\ to \in {"bad form", "failed login", "login"}
    BY OutcomeKnown, Zenon
  <2>3. PICK c \in Cookies \cup {NoCookie} : c = NoCookie
    BY Zenon
  <2>4. Begin(t, form, c, to)
    BY <1>2, <2>2, <2>3, Zenon DEF BeginPost
  <2>5. to \in Steps
    <3>1. "bad form" \in Steps /\ "failed login" \in Steps /\ "login" \in Steps
      BY Zenon DEF Steps, Reading
    <3> QED BY <2>2, <3>1, Zenon
  <2>6. to # "purging"
    BY <2>2
  <2>7. FormRead(to, authentication_map_, form)
    BY <2>1, <2>2, Zenon
  <2> QED BY <2>1, <2>4, <2>5, <2>6, <2>7, BeginRead
<1>3. ASSUME BeginUnguarded(t)
      PROVE  RInv'
  <2>1. PICK to \in Steps : to = "file"
    BY Zenon DEF Steps
  <2>2. PICK c \in Cookies \cup {NoCookie}, list \in Seq(Pairs) : c = NoCookie /\ list = <<>>
    <3>1. NoCookie \in Cookies \cup {NoCookie} /\ <<>> \in Seq(Pairs)
      OBVIOUS
    <3> QED BY <3>1, Zenon
  <2>3. Begin(t, list, c, to)
    BY <1>3, <2>1, <2>2, Zenon DEF BeginUnguarded
  <2>4. to # "purging" /\ to \notin {"bad form", "failed login", "login"}
    BY <2>1
  <2> QED BY <2>3, <2>4, BeginRead
<1> QED BY <1>1, <1>2, <1>3

LEMMA OtherRead ==
  ASSUME RInv, NEW t \in Threads,
         \/ EndPurge(t) \/ Refuse(t) \/ Admit(t) \/ ServeFile(t)
         \/ RejectLogin(t) \/ DrawCookie(t) \/ InsertCookie(t)
  PROVE  RInv'
<1>1. cookie \in [Threads -> Cookies \cup {NoCookie}]
  BY Zenon DEF RInv
<1>2. /\ "lookup" \in Steps /\ "lookup" # "idle" /\ "guarded file" \in Steps /\ "guarded file" # "idle"
      /\ "file" \in Steps /\ "file" # "idle" /\ "bad form" \in Steps /\ "bad form" # "idle"
      /\ "failed login" \in Steps /\ "failed login" # "idle"
      /\ "insert" \in Steps /\ "insert" # "idle"
      /\ "purging" \in Steps /\ "purging" # "idle" /\ "login" \in Steps /\ "login" # "idle"
  BY Zenon DEF Steps, Reading
<1>3. "lookup" \notin Reading /\ "guarded file" \notin Reading /\ "insert" \notin Reading
  BY Zenon DEF Reading
<1>4. ASSUME NEW from \in Steps, NEW to \in Steps, from # "idle", to \notin Reading,
             Goto(t, from, to), UNCHANGED <<settings, sent>>,
             cookie' \in [Threads -> Cookies \cup {NoCookie}],
             \A u \in Threads \ {t} : cookie'[u] = cookie[u]
      PROVE  RInv'
  <2>1. UNCHANGED <<configured, authentication_map_>> /\ sent' = sent
    BY <1>4 DEF settings
  <2> QED BY <1>4, <2>1, LeaveStep
<1>5. CASE EndPurge(t)
  <2>1. Goto(t, "purging", "lookup") /\ UNCHANGED <<settings, cookie, sent>>
    BY <1>5, Zenon DEF EndPurge
  <2> QED BY <1>1, <1>2, <1>3, <1>4, <2>1, Zenon
<1>6. CASE Admit(t)
  <2>1. Goto(t, "lookup", "guarded file") /\ UNCHANGED <<settings, cookie, sent>>
    BY <1>6, Zenon DEF Admit
  <2> QED BY <1>1, <1>2, <1>3, <1>4, <2>1, Zenon
<1>7. CASE DrawCookie(t)
  <2>1. PICK c \in Cookies : cookie' = [cookie EXCEPT ![t] = c]
    BY <1>7, Zenon DEF DrawCookie
  <2>2. cookie' \in [Threads -> Cookies \cup {NoCookie}] /\ \A u \in Threads \ {t} : cookie'[u] = cookie[u]
    BY <1>1, <2>1
  <2>3. Goto(t, "login", "insert") /\ UNCHANGED <<settings, sent>>
    BY <1>7, Zenon DEF DrawCookie
  <2> QED BY <1>2, <1>3, <1>4, <2>2, <2>3, Zenon
<1>8. CASE Refuse(t)
  BY <1>2, <1>8, FinishRead, Zenon DEF Refuse
<1>9. CASE ServeFile(t)
  BY <1>2, <1>9, FinishRead, Zenon DEF ServeFile
<1>10. CASE RejectLogin(t)
  BY <1>2, <1>10, FinishRead, Zenon DEF RejectLogin
<1>11. CASE InsertCookie(t)
  BY <1>2, <1>11, FinishRead, Zenon DEF InsertCookie
<1> QED BY <1>5, <1>6, <1>7, <1>8, <1>9, <1>10, <1>11

LEMMA PurgeRead ==
  ASSUME RInv, NEW t \in Threads, NEW c \in Cookies, PurgeOne(t, c)
  PROVE  RInv'
<1>1. pc \in [Threads -> Steps]
  BY Zenon DEF RInv
<1>2. pc' = [pc EXCEPT ![t] = "purging"] /\ pc[t] = "purging" /\ UNCHANGED <<settings, cookie, sent>>
  BY Zenon DEF PurgeOne, Goto
<1>3. pc' = pc
  BY <1>1, <1>2
<1>4. UNCHANGED <<configured, authentication_map_>>
  BY <1>2 DEF settings
<1> QED
  BY <1>2, <1>3, <1>4, Zenon DEF RInv, IdleUntilInit, ReadRight

\* Whatever the browser sends along with it, in whichever order, the cookie of a
\* session is found, and a form logs in exactly with the username and the password
\* of a user and no other field: for any cookies and forms that BrowserAssumption
\* allows, any tokens and users, and any number of threads
\* (static_handler.cc:89-116 and 141-187).
THEOREM RequestsReadRight == SessionSpec => []FieldsRead
<1>1. SessionInit => RInv
  <2> SUFFICES ASSUME SessionInit
               PROVE  RInv
    OBVIOUS
  <2>1. "idle" # "purging" /\ "idle" \notin {"bad form", "failed login", "login"} /\ <<>> \in Seq(Pairs)
    OBVIOUS
  <2>2. "idle" \in Steps
    BY Zenon DEF Steps
  <2>3. /\ pc = [t \in Threads |-> "idle"] /\ cookie = [t \in Threads |-> NoCookie]
        /\ sent = [t \in Threads |-> <<>>]
    BY Zenon DEF SessionInit
  <2>4. /\ pc \in [Threads -> Steps] /\ cookie \in [Threads -> Cookies \cup {NoCookie}]
        /\ sent \in [Threads -> Seq(Pairs)]
        /\ \A t \in Threads : pc[t] = "idle"
    BY <2>1, <2>2, <2>3
  <2>5. \A t \in Threads : ReadRight(t)
    BY <2>1, <2>4, Zenon DEF ReadRight
  <2> QED BY <2>4, <2>5, Zenon DEF RInv, IdleUntilInit
<1>2. RInv /\ [SessionNext]_sessionVars => RInv'
  <2> SUFFICES ASSUME RInv, [SessionNext]_sessionVars
               PROVE  RInv'
    OBVIOUS
  <2>1. CASE UNCHANGED <<pc, cookie, sent, configured, authentication_map_>>
    BY <2>1, Zenon DEF RInv, IdleUntilInit, ReadRight
  <2>2. CASE SessionEnd \/ UNCHANGED sessionVars
    BY <2>1, <2>2 DEF SessionEnd, sessionVars, settings, request
  <2>3. CASE Tick \/ Init
    BY <2>3, TickOrInitRead
  <2>4. ASSUME NEW t \in Threads,
               \/ \E list \in CookieLists : BeginGet(t, list)
               \/ \E form \in Forms : BeginPost(t, form)
               \/ BeginUnguarded(t)
        PROVE  RInv'
    BY <2>4, RequestRead
  <2>5. ASSUME NEW t \in Threads,
               \/ EndPurge(t) \/ Refuse(t) \/ Admit(t) \/ ServeFile(t)
               \/ RejectLogin(t) \/ DrawCookie(t) \/ InsertCookie(t)
        PROVE  RInv'
    BY <2>5, OtherRead
  <2>6. ASSUME NEW t \in Threads, NEW c \in Cookies, PurgeOne(t, c)
        PROVE  RInv'
    BY <2>6, PurgeRead
  <2> QED BY <2>2, <2>3, <2>4, <2>5, <2>6, Zenon DEF SessionNext
<1>3. RInv => FieldsRead
  <2> SUFFICES ASSUME RInv
               PROVE  FieldsRead
    OBVIOUS
  <2>1. ASSUME NEW t \in Threads
        PROVE  ReadRight(t)
    BY Zenon DEF RInv
  <2> QED BY <2>1, Zenon DEF FieldsRead, ReadRight, CookieRead, FormRead, Names, Known
<1> QED BY <1>1, <1>2, <1>3, PTL DEF SessionSpec
=============================================================================
