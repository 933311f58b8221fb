---------------------------- MODULE ReverseProxy ----------------------------
(***************************************************************************)
(* ReverseProxyHandler and HTTPClient: one handler, from Init on, and one  *)
(* request that it passes to servers outside.  HandleRequest only reads    *)
(* the members, so that requests on other threads change nothing here.     *)
(* Module Exchange has the connection that the request comes from, and     *)
(* gives these actions their specification.                                *)
(***************************************************************************)
EXTENDS Messages

CONSTANTS
  RemoteTexts,       \* what servers outside may answer
  MaxRedirectDepth   \* 21 in the code

ASSUME DepthAssumption == MaxRedirectDepth \in Nat \ {0}

ASSUME RemoteAssumption ==
  /\ {"/", "80", "Host", "Connection", "close"} \subseteq Tokens
  /\ RemoteTexts \subseteq Text

VARIABLES
  prefix_, url_, host_, port_, path_,  \* the members, empty before Init
  stage,       \* where the server is with the request
  request,     \* the Request
  outgoing,    \* OutgoingRequest
  new_host,    \* where OutgoingRequest goes
  i,           \* the visits that have been made
  resp,        \* the text last received
  response     \* the Response to the client

members == <<prefix_, url_, host_, port_, path_>>
visit == <<outgoing, new_host, i, resp>>

-----------------------------------------------------------------------------
\* Strings: positions from 1, with 0 for npos

FirstFrom(s, start, chars) == SelectInSubSeq(s, start, Len(s), LAMBDA c : c \in chars)

UpTo(s, start, end) == SubSeq(s, start, IF end = 0 THEN Len(s) ELSE end - 1)

\* find("//").
Protocol(url) == FindIn(url, <<"/", "/">>)

\* Without a protocol, npos + 2 is 1: the host loses its first character.
HostStart(url) == Protocol(url) + 2

-----------------------------------------------------------------------------
\* ReverseProxyHandler::Init

HostEnd(url) == FirstFrom(url, HostStart(url), {":", "/"})

\* Where there is no end of the host, url_[npos] may be anything, but a colon
\* there puts port_start at npos, which is to have none.
HasPort(url) == HostEnd(url) # 0 /\ url[HostEnd(url)] = ":"

\* Variant: the first slash of the url, not of what follows the port.
PathStart_First(url) ==
  IF HasPort(url) THEN FirstFrom(url, 1, {"/"}) ELSE HostEnd(url)

PathStart(url) ==
  IF HasPort(url) THEN FirstFrom(url, HostEnd(url) + 1, {"/"}) ELSE HostEnd(url)

PortOf(url) ==
  IF HasPort(url) THEN UpTo(url, HostEnd(url) + 1, PathStart(url)) ELSE <<"80">>

\* Variant: nothing in the place of a missing path.
PathOf_Empty(url) ==
  IF PathStart(url) = 0 THEN <<>> ELSE SubSeq(url, PathStart(url), Len(url))

PathOf(url) ==
  IF PathStart(url) = 0 THEN <<"/">> ELSE SubSeq(url, PathStart(url), Len(url))

\* The first statement of the form "proxy_pass url" decides.
Init(prefix, url) ==
  /\ prefix_' = prefix
  /\ url_' = url
  /\ host_' = UpTo(url, HostStart(url), HostEnd(url))
  /\ port_' = PortOf(url)
  /\ path_' = PathOf(url)

\* No such statement: ERROR.
InitRefused(prefix) ==
  /\ prefix_' = prefix
  /\ UNCHANGED <<url_, host_, port_, path_>>

-----------------------------------------------------------------------------
\* Variant: the uri is appended as it is.
Join_Plain(path, suffix) == path \o suffix

\* The uri at the remote server: what follows the prefix is appended to path_,
\* less its first character if path_ ends in the same (whichever it is) and
\* if there are others.
Join(path, suffix) ==
  IF Len(suffix) > 1 /\ Last(path) = Head(suffix)
  THEN path \o Tail(suffix)
  ELSE path \o suffix

Suffix(uri) == SubSeq(uri, Len(prefix_) + 1, Len(uri))

TransformHeaders(headers) ==
  set_header(remove_header(set_header(headers, Header(<<"Host">>, host_)), <<"Cookie">>),
             Header(<<"Connection">>, <<"close">>))

TransformIncomingRequest(req) ==
  [req EXCEPT !.uri = Join(path_, Suffix(req.uri)), !.headers = TransformHeaders(req.headers)]

\* HandleRequest is called, with a uri that has the prefix.
BeginRequest ==
  /\ outgoing' = TransformIncomingRequest(request)
  /\ new_host' = host_
  /\ i' = 0
  /\ stage' = "visiting"
  /\ UNCHANGED <<members, request, resp, response>>

\* HTTPClient::EstablishConnection succeeds.
EstablishConnection ==
  /\ stage = "visiting"
  /\ stage' = "waiting"
  /\ UNCHANGED <<members, request, visit, response>>

\* What the connection makes of an ERROR.
Failed == MakeResponse(500, <<>>, <<"500 Internal Server Error">>)

ReturnError ==
  /\ response' = Failed
  /\ stage' = "respond"

\* The host is unknown or refuses, or a read ends otherwise than by the end of
\* the stream.
VisitFails ==
  /\ stage \in {"visiting", "waiting"}
  /\ ReturnError
  /\ UNCHANGED <<members, request, visit>>

\* socket_ is never deleted, so that every visit takes a descriptor; once there
\* is none left set_option throws.  So does write on a lost connection.
VisitThrows ==
  /\ stage \in {"visiting", "waiting"}
  /\ stage' = "ended"
  /\ UNCHANGED <<members, request, visit, response>>

\* Variant: the search starts at the protocol.
RedirectEnd_AtProtocol(url) == FirstFrom(url, Protocol(url), {"/"})

RedirectEnd(url) == FirstFrom(url, HostStart(url), {"/"})
RedirectHost(url) == UpTo(url, HostStart(url), RedirectEnd(url))
RedirectUri(url) ==
  IF RedirectEnd(url) = 0 THEN <<"/">> ELSE SubSeq(url, RedirectEnd(url), Len(url))

\* Variant: the Host header stays.
Redirect_HostKept(url) ==
  /\ new_host' = RedirectHost(url)
  /\ outgoing' = [outgoing EXCEPT !.uri = RedirectUri(url)]

\* The same request, sent on to another host and uri.
Redirect(url) ==
  /\ new_host' = RedirectHost(url)
  /\ outgoing' = [outgoing EXCEPT !.uri = RedirectUri(url),
                                  !.headers = set_header(@, Header(<<"Host">>, RedirectHost(url)))]

\* Variant: a redirection starts the count again.
FollowRedirect_Restarts(text, url) ==
  /\ Redirect(url)
  /\ i' = 0
  /\ stage' = "visiting"
  /\ UNCHANGED response

\* When the visits are used up the loop ends with the redirection as response,
\* the request having been prepared all the same.
FollowRedirect(text, url) ==
  /\ Redirect(url)
  /\ i' = i + 1
  /\ IF i' = MaxRedirectDepth
     THEN response' = ParseResponse(text) /\ stage' = "respond"
     ELSE stage' = "visiting" /\ UNCHANGED response

\* SendRequest returns what was read up to the end of the stream: a malformed
\* response is an error, and so is a redirection that does not say where to,
\* or names no protocol.
Receive(text) ==
  /\ stage = "waiting"
  /\ resp' = text
  /\ IF ~ IsResponse(text)
     THEN ReturnError /\ UNCHANGED <<outgoing, new_host, i>>
     ELSE LET url == get_header(HeadersOf(text), <<"Location">>)
          IN  CASE ParseResponse(text).status \notin {301, 302} ->
                     /\ response' = ParseResponse(text)
                     /\ stage' = "respond"
                     /\ i' = i + 1
                     /\ UNCHANGED <<outgoing, new_host>>
                [] ParseResponse(text).status \in {301, 302} /\ Protocol(url) = 0 ->
                     ReturnError /\ UNCHANGED <<outgoing, new_host, i>>
                [] OTHER -> FollowRedirect(text, url)
  /\ UNCHANGED <<members, request>>

-----------------------------------------------------------------------------
Visiting == stage \in {"visiting", "waiting"}

\* A host, and a port or a path or both, after a protocol.
Splits(url, host, port, path) ==
  \E start \in 1..(Len(url) - 1), withPort, withPath \in BOOLEAN :
    /\ SubSeq(url, start, start + 1) = <<"/", "/">>
    /\ \A k \in 1..(start - 1) : SubSeq(url, k, k + 1) # <<"/", "/">>
    /\ "/" \notin ToSet(host) /\ ":" \notin ToSet(host) /\ "/" \notin ToSet(port)
    /\ SubSeq(url, start + 2, Len(url)) =
         host \o (IF withPort THEN <<":">> \o port ELSE <<>>)
              \o (IF withPath THEN path ELSE <<>>)
    /\ withPort \/ port = <<"80">>
    /\ withPath \/ path = <<"/">>

\* A proxy_pass with a protocol is taken apart into the host, port and path
\* that it is made of, whichever of them are there
\* (reverse_proxy_handler.cc:36-63).
InitSplits == Protocol(url_) # 0 => Splits(url_, host_, port_, path_)

NoKeyTwice(headers) ==
  \A j, k \in DOMAIN headers : headers[j].key = headers[k].key => j = k

OthersAt(headers) ==
  {k \in DOMAIN headers : headers[k].key \notin {<<"Host">>, <<"Cookie">>, <<"Connection">>}}

\* Two lists have the same other headers, in the same order.
SameOthers(from, to) ==
  /\ {from[j] : j \in OthersAt(from)} = {to[k] : k \in OthersAt(to)}
  /\ \A j, m \in OthersAt(from), k, n \in OthersAt(to) :
       from[j] = to[k] /\ from[m] = to[n] /\ j < m => k < n

\* Every request that leaves the server, redirected or not, names the host it
\* is sent to, asks for the connection to be closed and carries no cookie;
\* nothing else of what the client sent is lost or reordered.  With a header
\* repeated by the client it need not hold: only the first is rewritten.
HeadersRewritten ==
  Visiting /\ NoKeyTwice(request.headers) =>
    /\ NoKeyTwice(outgoing.headers)
    /\ {Header(<<"Host">>, new_host), Header(<<"Connection">>, <<"close">>)}
         \subseteq ToSet(outgoing.headers)
    /\ \A h \in ToSet(outgoing.headers) : h.key # <<"Cookie">>
    /\ SameOthers(request.headers, outgoing.headers)

\* A uri inside the mounted directory goes to the same place inside path_,
\* with one slash between the two: for "/" alone after a path_ that ends in
\* one, the code leaves two (line 151).
DirectoryMapped ==
  Visiting /\ i = 0 =>
    LET base == IF Last(path_) = "/" THEN Front(path_) ELSE path_
        rest == CHOOSE s \in Suffixes(request.uri) \cup {<<>>} : request.uri = prefix_ \o s
    IN  /\ rest = <<>> => outgoing.uri = path_
        /\ rest # <<>> /\ rest[1] = "/" /\ ~ (rest = <<"/">> /\ Last(path_) = "/")
             => outgoing.uri = base \o rest

\* The values of the Location headers in a text.
LocationsIn(text) ==
  LET key == CRLF \o <<"Location">> \o ColonSpace
      start(k) == k + Len(key)
      end(k) == FindIn(SubSeq(text, start(k), Len(text)), CRLF) - 1
  IN  {SubSeq(text, start(k), start(k) + end(k) - 1) : k \in Occurrences(text, key)}

\* After a redirection the request goes to the host and asks for the uri that
\* the Location header in the text received is made of; if that was the last
\* header a '\r' is added.
RedirectFollowed ==
  Visiting /\ i > 0 =>
    \E location \in LocationsIn(resp), withUri \in BOOLEAN, more \in {<<>>, <<CR>>} :
      \E protocol \in Prefixes(location) :
        /\ location \o more = protocol \o <<"/", "/">> \o new_host
                                \o (IF withUri THEN outgoing.uri ELSE <<>>)
        /\ "/" \notin ToSet(new_host)
        /\ withUri \/ outgoing.uri = <<"/">>

\* What HTTPClient writes is read by a server like this one as the request it
\* stands for, redirected or not, but for a line break at the end of the body
\* (request.cc:125) and a '\r' at the end of the last header.  That nothing in
\* the config or in a Location header breaks a line, or the first line with a
\* space, is not checked by the code.
ForwardedParses ==
  stage = "waiting" /\ FindIn(host_, CRLF) = 0 /\ Plain(outgoing.uri) =>
    LET text == RequestText(outgoing)
        read == ParseRequest(text)
        last == Len(outgoing.headers)
    IN  /\ IsRequest(text)
        /\ \A field \in {"method", "uri", "version"} : read[field] = outgoing[field]
        /\ read.headers = [outgoing.headers EXCEPT ![last].value = Append(@, CR)]
        /\ read.body = outgoing.body \o CRLF
=============================================================================
