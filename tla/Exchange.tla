------------------------------ MODULE Exchange ------------------------------
(***************************************************************************)
(* One connection from the first byte that the client sends to the last    *)
(* that it receives: Connection::start, handle_request and write_response, *)
(* with Request and Response (module Messages) and the handlers, of which  *)
(* one is mounted.  ConnectionPool has many connections and leaves out     *)
(* what they carry; here it is the other way round.                        *)
(***************************************************************************)
EXTENDS ReverseProxy

CONSTANTS
  Handlers,         \* the kinds of handler that may be mounted
  UriPrefixes,      \* where it may be mounted
  ProxyPasses,      \* what the operand of proxy_pass may be
  Root,             \* directory_ of a handler that serves files,
  Files,            \* the contents of each path there is; those of a directory are empty
  ToHtml(_),        \* the markdown library
  WellFormed,       \* texts that clients may send: well-formed requests,
  Malformed,        \* and others
  Tried(_, _),      \* which of them to which handler and proxy_pass (a bound)
  MaxBuffer,        \* max_length, the capacity of data_stream_
  MaxRead,          \* the size of buff
  SizeRange         \* the number of values of a size_t

ASSUME BufferAssumption ==
  MaxBuffer \in Nat \ {0} /\ MaxRead \in Nat \ {0} /\ SizeRange \in Nat \ {0}

\* The handlers that the code has.
ASSUME HandlersAssumption ==
  Handlers \subseteq {"proxy", "echo", "sleep", "status", "default status", "static",
                     "markdown", "none"}

ASSUME ClientsAssumption ==
  /\ UriPrefixes \cup ProxyPasses \cup WellFormed \cup Malformed \subseteq Text
  /\ \A kind \in Handlers, url \in ProxyPasses : Tried(kind, url) \subseteq WellFormed \cup Malformed

\* The extensions that a Content-Type is known for.
ContentMappings ==
  [gif |-> "image/gif", htm |-> "text/html", html |-> "text/html", css |-> "text/css",
   jpg |-> "image/jpeg", jpeg |-> "image/jpeg", png |-> "image/png", md |-> "text/markdown"]

\* The words that the code writes.
ASSUME WordsAssumption ==
  {"Content-Type", "Content-Length", "text/plain", "text/html", "400 Bad Request",
   "500 Internal Server Error", "404 NOT FOUND", "good morning!", "Webserver Status Page"}
    \cup {ContentMappings[e] : e \in DOMAIN ContentMappings} \subseteq Tokens

\* The names and contents of files.
ASSUME FilesAssumption ==
  /\ Root \in Text /\ "." \in Tokens
  /\ \A path \in DOMAIN Files : {path, Files[path], ToHtml(Files[path])} \subseteq Text

VARIABLES
  handler,        \* the kind of the handler mounted at prefix_
  text,           \* what the client sends,
  got,            \* and how much of it has been read
  response_data_  \* what is written back

connection == <<text, got, response_data_>>
exchangeVars == <<members, stage, request, visit, response, handler, connection>>

NoRequest ==
  [method |-> <<>>, uri |-> <<>>, version |-> <<>>, headers |-> <<>>, body |-> <<>>, raw |-> <<>>]

ExchangeInit ==
  /\ prefix_ = <<>> /\ url_ = <<>> /\ host_ = <<>> /\ port_ = <<>> /\ path_ = <<>>
  /\ stage = "new"
  /\ request = NoRequest /\ outgoing = NoRequest
  /\ new_host = <<>> /\ i = 0 /\ resp = <<>>
  /\ response = NoResponse
  /\ handler = "none"
  /\ text = <<>> /\ got = 0 /\ response_data_ = <<>>

\* The handler is initialized, and a client connects.
Mount(kind, prefix, url, sent) ==
  /\ stage = "new"
  /\ handler' = kind
  /\ IF kind = "proxy"
     THEN Init(prefix, url)
     ELSE prefix_' = prefix /\ UNCHANGED <<url_, host_, port_, path_>>
  /\ text' = sent
  /\ stage' = "reading"
  /\ UNCHANGED <<request, visit, response, got, response_data_>>

\* A proxy without a proxy_pass: the config is refused.
MountRefused(prefix) ==
  /\ stage = "new"
  /\ InitRefused(prefix)
  /\ stage' = "refused"
  /\ UNCHANGED <<request, visit, response, handler, connection>>

-----------------------------------------------------------------------------
Buffered == SubSeq(text, 1, got)

\* async_read_until: more of the text arrives, cut anywhere.
ReadUntil ==
  /\ stage = "reading"
  /\ FindIn(Buffered, BlankLine) = 0
  /\ got' \in (got + 1)..Min({Len(text), MaxBuffer})
  /\ UNCHANGED <<members, stage, request, visit, response, handler, text, response_data_>>

\* The end of the stream, or another error: close_socket.
ClientLeaves ==
  /\ stage = "reading" /\ FindIn(Buffered, BlankLine) = 0
  /\ stage' = "closed"
  /\ UNCHANGED <<members, request, visit, response, handler, connection>>

\* The buffer is full without a blank line: close_socket.
TooLong ==
  /\ stage = "reading"
  /\ got = MaxBuffer /\ FindIn(Buffered, BlankLine) = 0
  /\ stage' = "closed"
  /\ UNCHANGED <<members, request, visit, response, handler, connection>>

Respond(answer) ==
  /\ response' = answer
  /\ stage' = "respond"

ContentLength(req) == get_header(req.headers, <<"Content-Length">>)

\* std::stoi: blanks are skipped, and what begins with a number is read as that
\* number.
FirstWord(value) == SelectInSeq(value, LAMBDA w : w \notin {" ", CR, "\n"})

IsLength(value) == FirstWord(value) # 0 /\ IsNumber(value[FirstWord(value)])

LengthOf(value) == NumberOf[value[FirstWord(value)]]

\* stoi(...) converted to size_t, where a negative number is a huge one.
Announced(value) == LengthOf(value) % SizeRange

\* handle_request, up to the loop that reads the body of a POST: it takes all
\* that is in the buffer, be it more than the blank line.
HandleRequest ==
  /\ stage = "reading"
  /\ FindIn(Buffered, BlankLine) # 0
  /\ request' = IF IsRequest(Buffered) THEN ParseRequest(Buffered) ELSE NoRequest
  /\ LET length == ContentLength(request')
     IN  \/ /\ request' = NoRequest
            /\ Respond(MakeResponse(400, <<>>, <<"400 Bad Request">> \o CRLF))
         \/ /\ request'.method = <<"POST">> /\ length = <<>>
            /\ Respond(MakeResponse(400, <<>>, <<"400 Bad Request">>))
         \/ /\ request'.method = <<"POST">> /\ length # <<>>
            /\ stage' = IF IsLength(length) THEN "body" ELSE "ended"
            /\ UNCHANGED response
         \/ /\ request'.method = <<"GET">>
            /\ stage' = "route"
            /\ UNCHANGED response
  /\ UNCHANGED <<members, visit, handler, connection>>

BodyIsRead == Len(request.body) >= Announced(ContentLength(request))

\* Variant: read_some is called once.
ReadBody_Once ==
  /\ stage = "body" /\ ~ BodyIsRead
  /\ got' \in (got + 1)..Min({Len(text), got + MaxRead})
  /\ request' = append_body(request, SubSeq(text, got + 1, got'))
  /\ stage' = "route"
  /\ UNCHANGED <<members, visit, response, handler, text, response_data_>>

\* read_some, which blocks until there is something, and takes what there is.
ReadBody ==
  /\ stage = "body" /\ ~ BodyIsRead
  /\ got' \in (got + 1)..Min({Len(text), got + MaxRead})
  /\ request' = append_body(request, SubSeq(text, got + 1, got'))
  /\ UNCHANGED <<members, stage, visit, response, handler, text, response_data_>>

EndBody ==
  /\ stage = "body" /\ BodyIsRead
  /\ stage' = "route"
  /\ UNCHANGED <<members, request, visit, response, handler, connection>>

\* read_some throws: handle_request returns, and the connection stays as it is.
AbandonBody ==
  /\ stage = "body" /\ ~ BodyIsRead
  /\ stage' = "abandoned"
  /\ UNCHANGED <<members, request, visit, response, handler, connection>>

-----------------------------------------------------------------------------
\* The handlers

Answer(code, type, body) ==
  MakeResponse(code, <<Header(<<"Content-Type">>, <<type>>),
                       Header(<<"Content-Length">>, <<ToString(Len(body))>>)>>, body)

NotFound == Answer(404, "text/html", <<"404 NOT FOUND">> \o CRLF)

\* Variant: the first dot of the path.
Extension_First(path) ==
  LET dot == SelectInSeq(path, LAMBDA c : c = ".")
  IN  IF dot = 0 THEN <<>> ELSE SubSeq(path, dot + 1, Len(path))

\* What follows the last dot of the path, be it in the name of a directory.
Extension(path) ==
  LET dot == SelectLastInSeq(path, LAMBDA c : c = ".")
  IN  IF dot = 0 THEN <<>> ELSE SubSeq(path, dot + 1, Len(path))

ContentType(path) ==
  LET known == {e \in DOMAIN ContentMappings : Extension(path) = <<e>>}
  IN  SetToSeq({Header(<<"Content-Type">>, <<ContentMappings[e]>>) : e \in known})

\* StaticHandler for files that are not private (module StaticHandler has those
\* that are), and MarkdownHandler.  A directory can be opened like a file.
FileAnswer(kind, uri) ==
  LET path == Root \o Suffix(uri)
      length(body) == Header(<<"Content-Length">>, <<ToString(Len(body))>>)
  IN  CASE path \notin DOMAIN Files -> NotFound
        [] path \in DOMAIN Files /\ kind = "static" ->
             MakeResponse(200, Append(ContentType(path), length(Files[path])), Files[path])
        [] path \in DOMAIN Files /\ kind = "markdown" ->
             Answer(200, "text/html", ToHtml(Files[path]))

EchoAnswer(req) == Answer(200, "text/plain", req.raw)

SleepAnswer == Answer(200, "text/plain", <<"good morning!", "\n">>)

\* A StatusHandler that is the default handler has no ServerStatus: ERROR.
StatusAnswer(initialized) ==
  IF initialized THEN Answer(200, "text/html", <<"Webserver Status Page">>) ELSE Failed

\* NotFoundHandler answers where no handler is mounted.
AnswerOf(kind, req) ==
  CASE kind = "echo" -> EchoAnswer(req)
    [] kind = "sleep" -> SleepAnswer
    [] kind \in {"status", "default status"} -> StatusAnswer(kind = "status")
    [] kind = "none" -> NotFound
    [] OTHER -> FileAnswer(kind, req.uri)

\* handlers_->Find answers with the handler mounted only for uris that have its
\* prefix; for which of these it does is the question of HandlerContainer.
Found(uri) == {"none"} \cup (IF IsPrefix(prefix_, uri) THEN {handler} ELSE {})

RunHandler ==
  /\ stage = "route"
  /\ \E kind \in Found(request.uri) :
       IF kind = "proxy"
       THEN BeginRequest
       ELSE /\ Respond(AnswerOf(kind, request))
            /\ UNCHANGED <<members, request, visit>>
  /\ UNCHANGED <<handler, connection>>

ProxyStep(act) == act /\ UNCHANGED <<handler, connection>>

\* write_response.
WriteResponse ==
  /\ stage = "respond"
  /\ response_data_' = ResponseText(response)
  /\ stage' = "written"
  /\ UNCHANGED <<members, request, visit, response, handler, text, got>>

Over ==
  /\ stage \in {"refused", "closed", "abandoned", "written", "ended"}
  /\ UNCHANGED exchangeVars

-----------------------------------------------------------------------------
Visit ==
  \/ ProxyStep(EstablishConnection)
  \/ \E t \in RemoteTexts : ProxyStep(Receive(t))
  \/ ProxyStep(VisitFails) \/ ProxyStep(VisitThrows)

Proceed ==
  \/ ReadUntil \/ TooLong \/ HandleRequest \/ ReadBody \/ EndBody
  \/ RunHandler \/ Visit \/ WriteResponse

ExchangeNext ==
  \/ \E kind \in Handlers, prefix \in UriPrefixes, url \in ProxyPasses :
       \E sent \in Tried(kind, url) : Mount(kind, prefix, url, sent)
  \/ \E prefix \in UriPrefixes : MountRefused(prefix)
  \/ Proceed \/ ClientLeaves \/ AbandonBody \/ Over

\* What the client has sent arrives, the thread goes on, and the servers outside
\* end every visit in some way.
ExchangeSpec ==
  /\ ExchangeInit
  /\ [][ExchangeNext]_exchangeVars
  /\ WF_exchangeVars(Proceed)

-----------------------------------------------------------------------------
\* A handler has been called; its answer came from a server outside; or there
\* was none to call.
Refused == response.status = 400 /\ outgoing = NoRequest
Handled == stage \in {"visiting", "waiting", "respond", "written"} /\ ~ Refused
Relayed == outgoing # NoRequest /\ response # Failed

\* The types of what the connection holds.
ExchangeTypeOK ==
  /\ stage \in {"new", "refused", "reading", "closed", "body", "abandoned", "route",
                "visiting", "waiting", "respond", "written", "ended"}
  /\ handler \in Handlers \cup {"none"}
  /\ handler = "proxy" => path_ # <<>> /\ path_[1] = "/"
  /\ text \in WellFormed \cup Malformed \cup {<<>>}
  /\ got \in 0..Len(text)
  /\ DOMAIN request = DOMAIN NoRequest /\ DOMAIN outgoing = DOMAIN NoRequest
  /\ i \in 0..MaxRedirectDepth
  /\ response.status \in Codes \cup {0}

\* A request as it is written by a client, up to its body.
HeadText(req) ==
  req.method \o Space \o req.uri \o Space \o req.version \o CRLF
  \o HeaderText(req.headers) \o CRLF

\* Without the '\r' that Request::Parse leaves at the end of the last header
\* or, if there is none, of the version.
AsSent(req) ==
  IF req.headers = <<>>
  THEN [req EXCEPT !.version = Front(@)]
  ELSE [req EXCEPT !.headers[Len(req.headers)].value = Front(@)]

\* A text that is read as a request whose head fits into the buffer and, if it
\* is a POST, announces a body that is there.
IsWellFormed(t) ==
  LET sent == AsSent(ParseRequest(t))
  IN  /\ IsRequest(t) /\ Len(HeadText(sent)) <= MaxBuffer
      /\ sent.method = <<"POST">> =>
           /\ IsLength(ContentLength(sent))
           /\ LengthOf(ContentLength(sent)) \in 0..Len(sent.body)

\* A size_t holds every number and, of a negative one, makes more than the
\* length of any text.
WideEnough ==
  \A n \in Numbers : IF n >= 0
                     THEN n % SizeRange = n
                     ELSE \A t \in WellFormed \cup Malformed : Len(t) < n % SizeRange

\* However the text was cut on its way, a handler is called with what the
\* client sent, up to that '\r' (request_test.cc knows of it): the method, the
\* uri, the version and the headers in their order; and with as much of the
\* body as a POST announces.  What is malformed reaches no handler, and what
\* is not is never answered with 400.
DeliveredAsSent ==
  LET sent == AsSent(request)
      announced == get_header(sent.headers, <<"Content-Length">>)
  IN  /\ Handled =>
           /\ text \in WellFormed
           /\ " " \notin ToSet(sent.uri)
           /\ \A h \in ToSet(sent.headers) : Occurrences(h.key, ColonSpace) = {}
           /\ request.raw = HeadText(sent) \o sent.body
           /\ IsPrefix(request.raw, text)
           /\ sent.method = <<"POST">> => Len(sent.body) >= LengthOf(announced)
      /\ Refused => text \in Malformed

\* A response with a space at the end of its first line, and one '\r' more
\* before the blank line.
Spaced(t) ==
  LET end == FindIn(t, BlankLine)
      first == IF FindIn(t, CRLF) = end THEN end ELSE FindIn(t, CRLF) - 1
  IN  SubSeq(t, 1, first) \o Space \o SubSeq(t, first + 1, end)
        \o SubSeq(t, end, Len(t))

\* Whatever happened, the client is written a well-formed response, which has
\* the status and the body that were meant; an answer made here announces the
\* length of its body; and an answer of a server outside arrives as it came,
\* but for a space in its first line and a '\r' at the end of its headers.
AnswerArrives ==
  stage = "written" =>
    LET read == ParseResponse(response_data_)
        announced == get_header(read.headers, <<"Content-Length">>)
    IN  /\ IsResponse(response_data_)
        /\ read.status = response.status /\ read.body = response.body
        /\ Relayed => response_data_ = Spaced(resp)
        /\ announced # <<>> /\ ~ Relayed => NumberOf[announced[1]] = Len(read.body)

\* A uri that stays inside the mounted directory is answered with the file of
\* the same name in the same place below directory_, and its type is told by
\* what follows the last dot of that name, whatever dots there are before it
\* (static_handler.cc:79 and 262).
FileServed ==
  stage = "written" /\ handler = "static" /\ response.status = 200 =>
    LET rest == SubSeq(request.uri, Len(prefix_) + 1, Len(request.uri))
        path == Split(Root, <<"/">>) \o (IF rest = <<>> THEN <<>> ELSE Tail(Split(rest, <<"/">>)))
        parts == Split(Last(path), <<".">>)
        type == get_header(response.headers, <<"Content-Type">>)
    IN  rest = <<>> \/ rest[1] = "/" =>
          /\ \E file \in DOMAIN Files :
               Split(file, <<"/">>) = path /\ response.body = Files[file]
          /\ \A e \in DOMAIN ContentMappings :
               Len(parts) > 1 /\ Last(parts) = <<e>> => type = <<ContentMappings[e]>>
          /\ type # <<>> => Len(parts) > 1

\* The client has sent all of a well-formed request.
Complete(req) ==
  /\ FindIn(req, BlankLine) \in 1..(MaxBuffer - 3)
  /\ IsRequest(req) /\ ParseRequest(req).method = <<"POST">> =>
       LET value == ContentLength(ParseRequest(req))
       IN  IsLength(value) => Len(BodyOf(req)) >= Announced(value)

\* A client that has sent a complete message is answered, although the servers
\* outside may redirect to each other in a circle; or it has left, or an
\* exception has ended the process.
Answered ==
  stage = "reading" /\ Complete(text) ~> stage \in {"written", "closed", "abandoned", "ended"}
=============================================================================
