--------------------------- MODULE StaticHandler ----------------------------
(***************************************************************************)
(* Class StaticHandler: the login sessions that guard a directory of       *)
(* private files.  One handler object serves every thread.                 *)
(*                                                                         *)
(* A request is known by its method, by its Cookie header, a list of pairs *)
(* as a browser writes it, and, for a POST, by the form in its body.       *)
(* Which file is served is left out.                                       *)
(***************************************************************************)
EXTENDS LoginFields

CONSTANTS
  Threads,
  Cookies,     \* the values the uuid generator may return (a bound)
  NoCookie,
  Timeouts,    \* the timeouts a config may give
  UserLists,   \* the lines of the files that authentication_list may name
  Tokens,      \* what the texts are made of
  CookieLists, \* the cookies a browser may send
  Forms,       \* the forms it may post
  MaxTime      \* the last second of a run (a bound)

ASSUME SessionAssumption ==
  /\ NoCookie \notin Cookies
  /\ Timeouts \subseteq Int
  /\ MaxTime \in Nat

Pairs == [key : Seq(Tokens), value : Seq(Tokens)]

\* The text of a pair can be told from those around it: no cookie has a ';' in
\* it, no field of a form an '&', and their names have no '='.  A name in a form
\* has no ';' either, which the code takes for an end where it looks for a '='.
ASSUME BrowserAssumption ==
  /\ {"=", ";", "&", " "} \subseteq Tokens
  /\ CookieLists \subseteq Seq(Pairs) /\ Forms \subseteq Seq(Pairs)
  /\ \A list \in CookieLists : \A k \in DOMAIN list :
       /\ ToSet(list[k].key) \cap {"=", ";"} = {}
       /\ ";" \notin ToSet(list[k].value)
  /\ \A form \in Forms : \A k \in DOMAIN form :
       /\ ToSet(form[k].key) \cap {"=", ";", "&"} = {}
       /\ "&" \notin ToSet(form[k].value)

VARIABLES
  now,                     \* std::time
  configured,              \* Init has returned OK, ERROR, or has thrown
  authentication_map_,     \* from each username to its password
  timeout_,
  cookie_expiration_map_,  \* from each cookie to its expiration time
  pc,                      \* what each thread does next
  cookie,                  \* the cookie of the request a thread works on
  unseen,                  \* the cookies purge_expired_cookies has still to visit
  started,                 \* history: when that request came,
  sent,                    \* and the cookies or the form that it came with
  answer,                  \* history: how a thread's last request was answered
  issued                   \* history: when each cookie was last issued, -1 for never

settings == <<configured, authentication_map_, timeout_>>
request == <<pc, cookie, unseen, started, sent, answer>>
sessionVars == <<now, settings, cookie_expiration_map_, request, issued>>

Sessions == DOMAIN cookie_expiration_map_
Expired(c) == cookie_expiration_map_[c] <= now

SessionInit ==
  /\ now = 0
  /\ configured = "no" /\ authentication_map_ = <<>> /\ timeout_ = -1
  /\ cookie_expiration_map_ = <<>>
  /\ pc = [t \in Threads |-> "idle"]
  /\ cookie = [t \in Threads |-> NoCookie]
  /\ unseen = [t \in Threads |-> {}]
  /\ started = [t \in Threads |-> 0]
  /\ sent = [t \in Threads |-> <<>>]
  /\ answer = [t \in Threads |-> "none"]
  /\ issued = [c \in Cookies |-> -1]

-----------------------------------------------------------------------------
Tick ==
  /\ now < MaxTime
  /\ now' = now + 1
  /\ UNCHANGED <<settings, cookie_expiration_map_, request, issued>>

\* Init: without a timeout statement timeout_ stays -1; ERROR without a root
\* or on a bad authentication_list; std::stoi may throw.  Several lists are read
\* like one.
Init ==
  /\ configured = "no"
  /\ configured' \in {"ok", "error", "throws"}
  /\ \/ UNCHANGED authentication_map_
     \/ \E lines \in UserLists :
          IF IsDatabase(lines)
          THEN authentication_map_' = AccountsOf(lines)
          ELSE configured' = "error" /\ UNCHANGED authentication_map_
  /\ timeout_' \in Timeouts \cup {-1}
  /\ UNCHANGED <<now, cookie_expiration_map_, request, issued>>

-----------------------------------------------------------------------------
\* HandleRequest

Goto(t, from, to) ==
  /\ pc[t] = from
  /\ pc' = [pc EXCEPT ![t] = to]

Begin(t, list, c, to) ==
  /\ configured = "ok"
  /\ Goto(t, "idle", to)
  /\ cookie' = [cookie EXCEPT ![t] = c]
  /\ started' = [started EXCEPT ![t] = now]
  /\ sent' = [sent EXCEPT ![t] = list]
  /\ answer' = [answer EXCEPT ![t] = "none"]
  /\ UNCHANGED <<now, settings, cookie_expiration_map_, issued>>

Finish(t, from, how) ==
  /\ Goto(t, from, "idle")
  /\ answer' = [answer EXCEPT ![t] = how]
  /\ sent' = [sent EXCEPT ![t] = <<>>]
  /\ UNCHANGED <<now, settings, cookie, unseen, started>>

Guarded == authentication_map_ # <<>>

\* A value that is no cookie of this server is as good as none.
RequestCookie(header) ==
  IF \E c \in Cookies : LoginCookie(header) = <<c>>
  THEN CHOOSE c \in Cookies : LoginCookie(header) = <<c>>
  ELSE NoCookie

\* Cookies and forms as a browser writes them.
CookieText(list) ==
  FlattenSeq([k \in DOMAIN list |->
    (IF k = 1 THEN <<>> ELSE <<";", " ">>) \o list[k].key \o <<"=">> \o list[k].value])

FormText(form) ==
  FlattenSeq([k \in DOMAIN form |->
    (IF k = 1 THEN <<>> ELSE <<"&">>) \o form[k].key \o <<"=">> \o form[k].value])

\* A GET of a private file begins with the purge.
BeginGet(t, list) ==
  /\ Guarded
  /\ Begin(t, list, RequestCookie(CookieText(list)), "purging")
  /\ unseen' = [unseen EXCEPT ![t] = Sessions]

\* What a login form comes to.
LoginOutcome(body) ==
  LET fields == FormFields(body)
      username == FieldOf(fields, <<"username">>)
  IN  IF HasUnknownField(fields) THEN "bad form"
      ELSE IF /\ username \in DOMAIN authentication_map_
              /\ authentication_map_[username] = FieldOf(fields, <<"password">>)
      THEN "login"
      ELSE "failed login"

\* A POST to a private directory is a login; its own cookie does not matter.
\* The bound on cookies: there is one left to draw.
BeginPost(t, form) ==
  /\ Guarded
  /\ Sessions # Cookies
  /\ Begin(t, form, NoCookie, LoginOutcome(FormText(form)))
  /\ UNCHANGED unseen

\* Any request of a handler that has no authentication_list goes straight to
\* the file.
BeginUnguarded(t) ==
  /\ ~ Guarded
  /\ Begin(t, <<>>, NoCookie, "file")
  /\ UNCHANGED unseen

\* Variant: the iterator skips the element after one that is erased.
PurgeOne_SkipsNext(t, c) ==
  /\ Goto(t, "purging", "purging")
  /\ c \in unseen[t]
  /\ \E skipped \in SUBSET (unseen[t] \ {c}) :
       /\ Cardinality(skipped) <= 1 /\ (skipped # {} => Expired(c))
       /\ unseen' = [unseen EXCEPT ![t] = @ \ ({c} \cup skipped)]
  /\ cookie_expiration_map_' =
       [d \in Sessions \ {e \in {c} : Expired(e)} |-> cookie_expiration_map_[d]]
  /\ UNCHANGED <<now, settings, cookie, started, sent, answer, issued>>

\* purge_expired_cookies, one element a step: the clock is read for each.
PurgeOne(t, c) ==
  /\ Goto(t, "purging", "purging")
  /\ c \in unseen[t]
  /\ unseen' = [unseen EXCEPT ![t] = @ \ {c}]
  /\ cookie_expiration_map_' =
       [d \in Sessions \ {e \in {c} : Expired(e)} |-> cookie_expiration_map_[d]]
  /\ UNCHANGED <<now, settings, cookie, started, sent, answer, issued>>

EndPurge(t) ==
  /\ Goto(t, "purging", "lookup")
  /\ unseen[t] = {}
  /\ UNCHANGED <<now, settings, cookie_expiration_map_, cookie, unseen, started, sent, answer, issued>>

\* Without a cookie in the map the login page is the answer.
Refuse(t) ==
  /\ cookie[t] = NoCookie \/ cookie[t] \notin Sessions
  /\ Finish(t, "lookup", "unauthorized")
  /\ UNCHANGED <<cookie_expiration_map_, issued>>

Admit(t) ==
  /\ cookie[t] # NoCookie /\ cookie[t] \in Sessions
  /\ Goto(t, "lookup", "guarded file")
  /\ UNCHANGED <<now, settings, cookie_expiration_map_, cookie, unseen, started, sent, answer, issued>>

ServeFile(t) ==
  /\ Finish(t, "guarded file", "admitted") \/ Finish(t, "file", "unguarded")
  /\ UNCHANGED <<cookie_expiration_map_, issued>>

\* A form with an argument of another name; or a username and password that do
\* not match, which are answered by a redirection without a cookie.
RejectLogin(t) ==
  /\ Finish(t, "bad form", "bad_request") \/ Finish(t, "failed login", "found")
  /\ UNCHANGED <<cookie_expiration_map_, issued>>

\* Variant: no uuid is drawn.
DrawCookie_None(t) ==
  /\ Goto(t, "login", "insert")
  /\ UNCHANGED <<now, settings, cookie_expiration_map_, cookie, unseen, started, sent, answer, issued>>

\* Variant: the uuid is taken as it comes.
DrawCookie_Any(t) ==
  /\ Goto(t, "login", "insert")
  /\ \E c \in Cookies : cookie' = [cookie EXCEPT ![t] = c]
  /\ UNCHANGED <<now, settings, cookie_expiration_map_, unseen, started, sent, answer, issued>>

\* The loop that draws a uuid ends with one that the map does not hold; it is
\* put into the cookie at once, into the map by InsertCookie.
DrawCookie(t) ==
  /\ Goto(t, "login", "insert")
  /\ \E c \in Cookies \ Sessions : cookie' = [cookie EXCEPT ![t] = c]
  /\ UNCHANGED <<now, settings, cookie_expiration_map_, unseen, started, sent, answer, issued>>

Expiring(t, when) ==
  [c \in Sessions \cup {cookie[t]} |->
     IF c = cookie[t] THEN when ELSE cookie_expiration_map_[c]]

\* Variant: the timeout is not added.
InsertCookie_NoTimeout(t) ==
  /\ cookie_expiration_map_' = Expiring(t, now)
  /\ issued' = [issued EXCEPT ![cookie[t]] = now]
  /\ Finish(t, "insert", "logged in")

InsertCookie(t) ==
  /\ cookie_expiration_map_' = Expiring(t, now + timeout_)
  /\ issued' = [issued EXCEPT ![cookie[t]] = now]
  /\ Finish(t, "insert", "logged in")

\* The server does not start.
SessionEnd ==
  /\ configured \in {"error", "throws"}
  /\ UNCHANGED sessionVars

SessionNext ==
  \/ Tick \/ Init \/ SessionEnd
  \/ \E t \in Threads :
       \/ \E list \in CookieLists : BeginGet(t, list)
       \/ \E form \in Forms : BeginPost(t, form)
       \/ BeginUnguarded(t)
       \/ EndPurge(t) \/ Refuse(t) \/ Admit(t) \/ ServeFile(t)
       \/ RejectLogin(t) \/ DrawCookie(t) \/ InsertCookie(t)
       \/ \E c \in Cookies : PurgeOne(t, c)

SessionSpec == SessionInit /\ [][SessionNext]_sessionVars

-----------------------------------------------------------------------------
\* The types of the handler's members and of a request in progress.
SessionTypeOK ==
  /\ now \in 0..MaxTime
  /\ configured \in {"no", "ok", "error", "throws"}
  /\ timeout_ \in Timeouts \cup {-1}
  /\ Sessions \subseteq Cookies
  /\ cookie_expiration_map_ \in [Sessions -> Int]
  /\ pc \in [Threads -> {"idle", "purging", "lookup", "file", "guarded file",
                         "bad form", "failed login", "login", "insert"}]
  /\ cookie \in [Threads -> Cookies \cup {NoCookie}]
  /\ unseen \in [Threads -> SUBSET Cookies]
  /\ started \in [Threads -> 0..now]
  /\ answer \in [Threads -> {"none", "unauthorized", "admitted", "unguarded", "bad_request",
                             "found", "logged in"}]
  /\ \A t \in Threads : pc[t] = "insert" => cookie[t] \in Cookies
  /\ issued \in [Cookies -> -1..now]

\* The value of the first pair of a name, of the last one.
First(list, key) ==
  LET k == SelectInSeq(list, LAMBDA p : p.key = key) IN IF k = 0 THEN <<>> ELSE list[k].value
Latest(list, key) == First(Reverse(list), key)

\* Whatever the browser sends along with it, in whichever order, the cookie of a
\* session is found; it is not if the Cookie header is the last of the request,
\* which leaves a '\r' on its value.  And a form logs in exactly with the username
\* and the password of a user and no other field, with characters like ';' and
\* '=' in them or not (static_handler.cc:89-116 and 141-187).
FieldsRead ==
  \A t \in Threads :
    /\ pc[t] = "purging" =>
         LET value == First(sent[t], <<"login">>)
         IN  cookie[t] = IF \E c \in Cookies : value = <<c>> THEN value[1] ELSE NoCookie
    /\ pc[t] \in {"bad form", "failed login", "login"} =>
         LET username == Latest(sent[t], <<"username">>)
             names == {p.key : p \in ToSet(sent[t])}
         IN  pc[t] = "login" <=>
               /\ names \subseteq {<<"username">>, <<"password">>}
               /\ username \in DOMAIN authentication_map_
               /\ authentication_map_[username] = Latest(sent[t], <<"password">>)

\* A GET of a private file is served only with the cookie of an earlier login
\* whose timeout had not run out when the request came
\* (static_handler.cc:118-134).
AdmittedInSession ==
  \A t \in Threads :
    pc[t] = "guarded file" =>
      LET c == cookie[t]
      IN  /\ c # NoCookie
          /\ issued[c] \in 0..started[t]
          /\ issued[c] + timeout_ > started[t]

\* Nobody who has logged in is sent back to the login page before the timeout.
SessionKept ==
  \A t \in Threads :
    pc[t] = "lookup" /\ cookie[t] \in Cookies =>
      LET c == cookie[t]
      IN  issued[c] # -1 /\ issued[c] + timeout_ > now => c \in Sessions

\* A step never moves the end of a session or ends it early: two users never
\* hold one cookie (static_handler.cc:193).
SessionsApart ==
  [][\A c \in Sessions : ~ Expired(c) =>
       c \in Sessions' /\ cookie_expiration_map_'[c] = cookie_expiration_map_[c]]_sessionVars

\* static_handler.cc:56, "timeout value in seconds for authentication
\* (optional)": with or without the statement, a login opens a session that a
\* GET in the same second finds.
FreshSessionFound ==
  \A t \in Threads :
    pc[t] = "lookup" /\ cookie[t] \in Cookies =>
      LET c == cookie[t]
      IN  issued[c] = now /\ timeout_ # 0 => c \in Sessions
=============================================================================
