----------------------------- MODULE MCExchange -----------------------------
(***************************************************************************)
(* Instances of Exchange: every proxy_pass over a letter, '/' and ':' with *)
(* plain requests, and one proxy_pass and the other handlers with requests *)
(* of every form.                                                          *)
(***************************************************************************)
EXTENDS Exchange

CONSTANT MaxLength  \* of a proxy_pass after its protocol, or one less without (a bound)

MCTokens == STRING
MCNumbers == -1..40 \cup {80, 200, 302, 303, 400, 404, 500}

Http == <<"http", ":", "/", "/">>

MCHandlers ==
  {"proxy", "echo", "sleep", "status", "default status", "static", "markdown", "none"}

MCUriPrefixes == {<<"/", "a">>}

RichPass == Http \o <<"b", ":", "8", "/", "a">>

MCProxyPasses ==
  LET urls(length) == SeqOf({"a", "/", ":"}, length) \ {<<>>}
  IN  {Http \o url : url \in urls(MaxLength)} \cup urls(MaxLength - 1) \cup {RichPass}

-----------------------------------------------------------------------------
Written(first, headers, body) == first \o CRLF \o HeaderText(headers) \o CRLF \o body

RequestLine(method, uri) == <<method, " ">> \o uri \o <<" ", "HTTP/1.1">>

Host == Header(<<"Host">>, <<"s">>)
Cookie == Header(<<"Cookie">>, <<"login", "=", "c">>)
Accept == Header(<<"Accept">>, <<"x", ":", " ", "y">>)
Empty == Header(<<"Empty">>, <<>>)
Length(word) == Header(<<"Content-Length">>, <<word>>)
BlankLength(word) == Header(<<"Content-Length">>, <<" ", word>>)

\* Uris under the prefix, with what may follow it.
Gets == {Written(RequestLine("GET", <<"/", "a">> \o rest), <<>>, <<>>) :
           rest \in SeqOf({"a", "/"}, 2)}

\* A directory, files in it, and one with a dot in the name of its directory.
MCRoot == <<"r", ".", "css">>
MCFiles ==
  [path \in {MCRoot, MCRoot \o <<"/">>} |-> <<>>]
    @@ [path \in {MCRoot \o <<"/", "b">>, MCRoot \o <<"/", "b", ".", "a", ".", "html">>,
                  MCRoot \o <<"/", "b", ".", "md">>} |-> Tail(path)]
MCToHtml(data) == <<"<p>">> \o data \o <<"</p>">>

FileGets ==
  {Written(RequestLine("GET", <<"/", "a">> \o rest), <<Host>>, <<>>) :
     rest \in {<<>>, <<"/">>, <<"/", "b">>, <<"/", "b", ".", "a", ".", "html">>,
              <<"/", "b", ".", "md">>, <<"/", "c", ".", "png">>, <<"b">>}}

RichUri == <<"/", "a", "/", "b">>

Rich ==
  {Written(RequestLine("GET", RichUri), h, b) :
     h \in {<<Empty>>, <<Cookie, Accept>>, <<Host, Cookie, Empty, Cookie>>},
     b \in {<<>>, <<"x">>}}
  \cup {Written(RequestLine("POST", RichUri), h, <<"x", "=", "y">>) :
          h \in {<<Length("3")>>, <<BlankLength("2"), Host>>, <<Length("0"), Cookie>>}}
  \cup {Written(RequestLine("GET", <<"/", "b">>), <<Host>>, <<>>)}

MCWellFormed == Gets \cup FileGets \cup Rich

MCMalformed ==
  {Written(RequestLine("PUT", RichUri), <<Host>>, <<>>),
   Written(RequestLine("GET", <<"/", " ", "a">>), <<>>, <<>>),
   Written(RequestLine("GET", RichUri) \o CRLF \o <<"Host", ":", "s">>, <<>>, <<>>),
   CRLF \o Written(RequestLine("GET", RichUri), <<>>, <<>>),
   Written(RequestLine("POST", RichUri), <<Host>>, <<>>),
   Written(RequestLine("POST", RichUri), <<Length("x"), Host>>, <<>>),
   Written(RequestLine("POST", RichUri), <<Length("-1"), Host>>, <<"x">>),
   RequestLine("GET", RichUri) \o CRLF,
   Written(RequestLine("GET", RichUri), <<Host, Accept, Cookie, Host>>, <<>>)}

MCTried(kind, url) ==
  CASE kind \in {"static", "markdown"} -> IF url = RichPass THEN FileGets ELSE {}
    [] kind \notin {"static", "markdown"} /\ url = RichPass -> Rich \cup MCMalformed
    [] kind = "proxy" /\ url # RichPass -> Gets
    [] OTHER -> {}

-----------------------------------------------------------------------------
\* Answers that are final, malformed or cut short, and redirections that go
\* nowhere, to another host, and to a uri there.
Status(code) == <<"HTTP/1.1", " ", code, " ", "Some", " ", "reason">>

Locations == {<<"/", "a">>, Http \o <<"b">>, Http \o <<"b", "/", "a">>}

MCRemoteTexts ==
  {Written(Status("200"), <<Length("2"), Accept>>, <<CR, "x">>),
   Written(Status("303"), <<>>, <<>>),
   Status("200") \o CRLF,
   Written(<<"HTTP/1.1", " ", "200">>, <<Host>>, <<>>),
   Written(Status("302"), <<Host>>, <<>>)}
  \cup {Written(Status("302"), h, <<>>) :
          h \in UNION {{<<Header(<<"Location">>, l)>>, <<Header(<<"Location">>, l), Host>>} : l \in Locations}}

\* The texts are called what they are, and a size_t is wide enough for them:
\* what ExchangeProofs assumes of DeliveredAsSent.
ASSUME InstanceAssumption ==
  /\ WideEnough
  /\ \A t \in MCWellFormed \cup MCMalformed : t \in MCWellFormed <=> IsWellFormed(t)
=============================================================================
