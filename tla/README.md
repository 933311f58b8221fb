# A TLA+ model of the Team22 web server

The repository is a web server in C++ on top of `boost::asio`: one process, one listening socket, and as many threads as
the config asks for, all of them in `io_service::run()`. This directory holds a model of it: TLA+ modules translated from the
source, the TLC configurations that check them on small instances, and theorems that TLAPS proves for every instance.

## The system

| Component | State it keeps | Operations | Talks to |
| --- | --- | --- | --- |
| Connection (`connection.cc`) | `conn_state_`, the socket, the request being summarised, its own lifetime (`delete this`) | `start`, `handle_request`, `write_response`, `close_socket`, `GetStatus` | posts asynchronous reads and writes, calls the handler container, `Request`, `ServerStatus` |
| Server (`server.cc`) | the acceptor, the one Connection waiting to be accepted | `MakeServer`, `parse_config`, `start_accept`, `handle_accept`, `run` | creates Connections; is started by `main()` |
| ServerStatus (`server.cc`) | tallies of requests behind a mutex; `connections_`, without one | `LogRequest`, `GetSnapshot`, `AddConnection`, `RemoveConnection` | called by every Connection on every thread |
| HandlerContainer (`request_handler.cc`) | a map of plain prefixes and a list of regex entries | `AddPath`, `AddRegexPath`, `Find`, `GetList` | filled by `parse_config`, read by every Connection |
| Config parser (`config_parser.cc`) | lexer state, a stack of blocks, the tree | `ParseToken`, `Parse`, `ToString`, `Find` | read by `parse_config`, `main()` and each handler's `Init` |
| Start-up (`main.cc`, `server.cc`) | the port, the number of threads | reading the statements in order, creating and initialising handlers, starting threads | all of the above |
| StaticHandler (`static_handler.cc`) | users and passwords, the map of login sessions | `Init`, `HandleRequest` | one object for all threads |
| ReverseProxyHandler, HTTPClient | the remote host; a socket per request | `Init`, `HandleRequest`, redirections | a remote server |
| Request, Response | the parts of one message | `Parse`, `append_body`, `ToString` | Connection, handlers, HTTPClient |
| StatusHandler | a pointer to ServerStatus | formats a snapshot | ServerStatus |
| Echo, Sleep, NotFound, Markdown handlers | nothing | a response from a request | |

What makes it hard:

- *Threads and callbacks.* Nothing but "one operation outstanding or one handler running" keeps two threads away from one
  Connection, and a handler may go on with its Connection after it has posted the operation whose completion deletes it.
- *One mutex for half of an object.* The tallies of ServerStatus are locked, its set of connections is not, and the
  handlers, shared by all threads, have no lock at all.
- *Partial failure.* An accept can fail, a client can leave in the middle of a body, a conversion can throw where nobody
  catches; each leaves something behind.
- *Blocking in a callback.* The body of a POST, and the whole exchange with a server behind a proxy, are blocking calls on
  a thread of the pool.
- *Boundaries.* Prefix matching on paths cut at a slash, a parser that guards its stack by a separate count, sessions that
  run out between two looks at the clock.

The hazards, each at its line and with the property that watches over it, are listed in `PROJECT.json`.

## Modules

### ConnectionPool: connections, the accept loop, the threads

A thread runs one completion handler at a time; `pc[t]` is where it is in the handler and `cur[t]` the Connection it works
on. A handler is cut into steps exactly where another thread can see or change what it works on: at each change of
`conn_state_`, at each start of an asynchronous operation, at each access to `connections_`, and at the read of a member
after the operation has been posted. `pending` and `result` are the `io_service`: the operation outstanding on a
connection, and whether and how it has completed.

| Code | Actions |
| --- | --- |
| `Server::handle_accept`, `Connection::start` | `HandleAccept`, `PostRead`, `HandleAcceptError` |
| `Server::start_accept` | `NewConnection`, `AddConnection` |
| `Connection::handle_request` | `HandleRequest`, then `RejectRequest`, `ExpectBody`, `RouteRequest` or `BadContentLength`; `ReadBody`, `AbandonBody`; `RunHandler`, `FindThrows`; `VisitOutsideServer`, `RemoteAnswers`, `RemoteBreaks` (a proxy's blocking calls); `LogRequest` |
| `ServerStatus::GetSnapshot` over `connections_` | `BeginSnapshot`, `GetStatus`, `EndSnapshot` |
| `Connection::write_response` | `WriteResponse`, `PostWrite` |
| `Connection::close_socket`, `~Connection` | `CloseSocket` (called directly), `HandleWrite` (as completion handler), `RemoveConnection` |
| clients and kernel | `AcceptCompletes`, `ReadCompletes`, `WriteCompletes`, `SendBody`, `Disconnect` |
| `std::terminate`, undefined behaviour that is not survived | `BadContentLength`, `FindThrows`, `RemoteBreaks`, `CrashInRegistry`, `CrashInGetStatus`, `CrashInLogRequest` |

Undefined behaviour is a choice among what the build can do. Two threads inside `connections_`, one of them writing,
leave in it any set of connections ever registered, or end the process. A member read from a freed Connection still has its
value, is null (the request is not logged), or leads nowhere (the process ends). The model does not reuse the identity of
a freed Connection for a new one.

What a client sent is a choice of the path that `handle_request` takes. What a handler answers is left out: it returns,
after a wait without a bound if it is a proxy. Both are in Exchange, which has one connection where this module has many.

### RequestLedger and ServerStatus: the tallies

`RequestLedger` is what the status page promises: each call of `LogRequest` is counted at one instant, each snapshot shows
the calls of one instant. `ServerStatus` has the code: the mutex, the three tallies (`requestCountByURL_` among them) updated one after
the other, the snapshot copied member by member. `RefinesLedger` is the refinement, with the ledger's set of
calls taken from those that have left the mutex.

### HandlerContainer: routing

Strings are sequences of character codes, because `Find` cuts and compares them; a regular expression is the set of
strings `regex_search` finds it in, and one outside the domain of `Search` does not compile. `Find` is the code's cascade:
the regex entries of the longest registered regex prefix, in order; the plain path; `get_prefix` of the uri cut
at its last slash.

### ServerConfig: start-up

`parse_config` takes one statement a step, on top of HandlerContainer, whose registrations it calls; then
the constructor of `Server` (which takes the list of handlers for the status page) and the part of `main()` that reads
`threads` and starts them. Only the statement forms that the code looks for are told apart. A handler is its type, the prefix `Init`
was told, and whether it has been given the `ServerStatus`.

### ConfigParser: the config file

One step is one iteration of the loop of `ParseToken`, with the iteration of the loop of `Parse` that a completed token
sets off. Characters are ten classes, one for each branch of the lexer. The tree is a list of blocks in order of
creation, a statement refers to its child block by number. A carriage return does not end a word, as in the code. `IsStatementList` is
the grammar that the code is compared with; it occurs in no comment of the repository and is our reading of `Parse`.

### LoginFields and StaticHandler: login sessions

`LoginFields` is how the handler reads the `Cookie` header, the body of a login and the lines of an `authentication_list`:
three loops over the positions of separators, as recursive functions of texts. A text is a sequence of tokens, here
the separators and words without any. The constant `Tokens` says which there are.

In StaticHandler a request is a method with the list of cookies, or the form, that a browser has written; the text it makes of them
is read by `LoginFields` when the request begins (`BeginGet`, `BeginPost`). What a browser writes can be taken apart: no name has a `=`, no
cookie a `;`, no field of a form an `&`, which a browser percent-encodes; a field of a name with a `;` in it would be passed over by the code, but the login
page has none (`BrowserAssumption`). The purge visits one session a step and
reads the clock each time; `Tick` may come between any two steps. A method other than GET and POST goes to the file
without a look at the cookie, as in the code, but `Request::Parse` lets none through. The history variables `issued`, `started`
and `sent` are there for the properties only.

| Code | Actions |
| --- | --- |
| `StaticHandler::Init` | `Init` |
| `HandleRequest`, a GET of a private file | `BeginGet`, `PurgeOne`, `EndPurge`, then `Refuse`, or `Admit` and `ServeFile` |
| `HandleRequest`, a login | `BeginPost`, then `RejectLogin`, or `DrawCookie` and `InsertCookie` |
| `HandleRequest` without users | `BeginUnguarded`, `ServeFile` |
| the clock | `Tick` |

### Messages, ReverseProxy, Exchange: a request from end to end

`Messages` has the texts: how `Request::Parse` and `Response::Parse` take them apart, the headers as both classes keep them,
and both `ToString`s. A text is a sequence of tokens, the characters that the code looks for (`\r`, `\n`, space, colon, slash,
dot) and words without any of these; it is taken apart by position, as in the code, with 0 for `npos`. The constants `Tokens` and
`Numbers` say which tokens there are and which numbers have a numeral among them; `NumberOf` knows these numerals, and no other
word is a number.

`ReverseProxy` has the handler and its HTTP client, `Exchange` the connection that calls it, from the first byte of a request to the
last of its answer, and the handlers that answer at once. `Exchange` extends `ReverseProxy`, gives its actions
their specification, and with it the texts that pass between the two.

| Code | Actions |
| --- | --- |
| a handler's `Init` | `Mount` (with `Init` of the proxy), `MountRefused` |
| `async_read_until` | `ReadUntil`, `TooLong` (`max_length`), `ClientLeaves` |
| `Connection::handle_request`, up to the body | `HandleRequest`, with `Request::Parse` |
| its loop over `read_some` | `ReadBody`, `EndBody`, `AbandonBody` |
| `Find` and the handler | `RunHandler`: an answer of `AnswerOf`, or `BeginRequest` of the proxy with `TransformIncomingRequest` |
| the loop over redirections | `EstablishConnection`, `Receive` (with `FollowRedirect`), `VisitFails`, `VisitThrows` |
| `write_response` | `WriteResponse` |

Bytes arrive cut anywhere: `handle_request` may find the blank line alone in its buffer, or some or all of the body with it. A
proxied answer is any text of `RemoteTexts`, among them some that are malformed or cut short, since HTTPClient takes what
there is at the end of the stream. Which files exist, and what they hold, is the constant `Files`; a directory is in it as an
empty file, because an `ifstream` opens it. What the markdown library makes of a text is the constant `ToHtml`. Which uris
`Find` gives to which handler is the question of HandlerContainer; here it is the mounted handler, for uris that have its prefix, or none.

ConnectionPool has the same exchange seen from the thread that it blocks (`SendBody`, `VisitOutsideServer`, `RemoteAnswers`,
`RemoteBreaks`).

## What is checked

| Run | Instance | What it shows |
| --- | --- | --- |
| `server_status` | 3 threads, 4 calls that share prefixes, urls and codes in every combination | the mutex makes each call one step of `RequestLedger` |
| `pool_threads` | 3 threads, 3 connections | what threads cannot break although they collide in the registry and use freed connections: one owner per connection, one accept at all times, the reported state, no forgotten connection but the two kinds the code forgets, states only forward |
| `pool_one_thread` | 1 thread, 4 connections | with the default of one thread: no deleted connection is used, the registry is exact, every response is counted |
| `pool_live` | 2 threads, 3 connections | an answered connection is freed, the server accepts again, no completed operation starves; unless the process dies or every thread is left waiting for a body or for the server behind a proxy |
| `startup` | every config of up to 3 statements out of 25, every uri of up to 4 characters | exactly the valid configs get past `parse_config`; handlers are mounted as configured; the prefix given to `Init` fits; the status page lists all; `Find` reaches a registered directory; a registration disturbs only the uris inside its prefix |
| `parser` | every file of up to 7 characters of 10 classes | Parse accepts exactly the grammar and gives up at the first token that cannot be completed; the tree prints back, and its words are words |
| `sessions` | 1 thread, 3 cookies, timeouts 0, 1, 3 or none, 5 seconds; every list of up to two cookies, every form of up to two fields and some of three | a session admits from login to timeout, is not lost earlier, and is never given to a second user; the cookie and the form are read as the browser meant them |
| `exchange` | 8 kinds of handler; every `proxy_pass` of up to 4 characters after its protocol, and 3 without one, with every uri of up to 2 after the prefix; 7 uris for the file handlers; requests of every other form with one `proxy_pass`; 3 visits; any answer at each | whatever way a request is cut up, a handler gets what was sent and the client what was answered; a url is taken apart and joined with a uri correctly; every hop carries rewritten headers and no cookie, and goes where the redirection says; what HTTPClient sends can be read by a server like this one; a file is found in its place with its type; every complete request is answered, redirections in a circle or not |

The bounds are where the interesting cases are: three connections are one being answered, one being read and
one to be accepted; a third thread adds a bystander to any collision of two; four calls cover a shared and an unshared
prefix, url and code. Three statements hold two handlers that conflict and a port, in any order. Seven
characters hold a statement with a block in it and what may follow it. Four characters hold a host, a port and a path;
three visits have one between the first and the last. `MaxBuffer` (40 tokens) is a buffer that all requests but one fit in, `MaxRead`
(2) a segment shorter than a body; `SizeRange` (1000) is a `size_t`, in which a negative Content-Length is more than any body;
`Numbers` are those that the texts of the run hold or may come to hold. Three cookies and five seconds hold a session that
runs out while another lives and a third is drawn. `MaxReserve` stands for the size that `vector::reserve` refuses.
An accept completes only while a Connection is left to allocate for the next one: this is the bound of the pool runs, and
where it is reached the model stops (`Stopped`), as it does when the process is gone.

Threads and connections are interchangeable in the safety runs of the pool, and cookies in that of the sessions, which
therefore use symmetry. `pool_live` uses none; it has the connections allocated in order instead (`Explored`), and cuts a behaviour off
where two threads have collided in the registry, since anything may happen after that.

Fairness: threads are scheduled and handlers do not loop (weak fairness of `ContinueHandler`); the `io_service` is a
queue, so that a completed operation is taken as long as threads keep coming back (strong fairness of
`RunHandlerOf`); every write ends, because the client takes the response or is gone (weak fairness of
`WriteCompletes`). Nothing is assumed of a client: it may never send its request or its body, and never
leave; nor of a server behind a proxy, which may never answer.

The run `exchange` asks whether one request gets its answer, given that the outside does its part: weak fairness of `Proceed`
says that what the client has sent arrives, that its thread goes on, and that the servers behind a proxy end every visit
in one way or another. Nothing is assumed of `ClientLeaves` and `AbandonBody`, and `Answered` speaks only of clients that have
sent as much as they announced. That the outside does *not* do its part is the case of `pool_live`.

Deadlock is checked in every run; where the system really may stop there is an action that says so (`Stopped`, `Done`,
`ParserDone`, `SessionEnd`, `Over`).

## What is proved

TLAPS proves these for every value of the constants: any number of threads, connections, calls, cookies, any length of
file.

- `ServerStatusProofs`: `Refinement`, that `ServerStatus` implements `RequestLedger`, and `Invariance`, on which it rests.
  The invariant says that a thread inside a critical section holds the mutex, that the tallies are those of the calls logged so far
  except for the parts the holder has not reached, and that a copy under way agrees with them member by member. The mutex
  alone is not inductive: what makes a snapshot atomic is that the part already copied still equals the tally.
  Assumed: requests form a finite set, and the constants for "none" are in no set.
- `ConnectionPoolProofs`: `Safety` (`IInv`), from it `HandlersExclusive`, `AcceptsForever`, `StatesReported`, `NoneForgotten` and `Advances`. Ownership
  (`OneOwner`) is what the others rest on: a connection has an operation outstanding or one handler, never both, so nobody else
  writes `conn_state_`. `AnswersFinal` is the part that `Advances` needs and no run asks for by itself: once the write is posted
  only its completion handler is left. None of it uses the registry, which is why it survives a torn one. `SingleThread`
  and `RegistrySound` add, for one thread, that no deleted connection is used and the registry is exact: nobody else is there to
  be inside `connections_`, or to run the completion of a write before its handler has come to its end. `Counted` then follows step
  by step: the set of answered connections changes only where the tally does, and by one connection, so that its cardinality
  and the tally change alike.
- `ServerConfigProofs`: `PrefixesFit`, `DirectoriesReached`, `RegistrationsIsolated`, `ValidAccepted`, `AllMounted`, `AllListed` and `StartTypes`,
  for configs of any length, any strings and any regular expressions. The invariant of routing (`HandlersPlaced`) says that every
  handler in the container is under the prefix that its `Init` was told; the rest is about the cascade of searches in `Find`: the prefix it
  settles on is one of the uri's, and the longest. The invariant of `ValidAccepted` (`Judged`) says of the statements read so far what
  `ValidConfig` says of all. That of `AllMounted` (`Placed`) says the same of `MountsAsConfigured`, with the place of an entry in the list counted
  as the regex statements before it. For `AllListed`, `Before` is shown to be an order (`BeforeIsStrict`, `BeforeIsTransitive`,
  `BeforeIsTotal`); the number of strings before one is its place in the list, so that the order `InOrder` chooses exists and leaves none
  out. Assumed: prefixes and uris are sequences of characters (`StringsAssumption`), and statements have the operands their keyword
  takes (`ConfigsAssumption`).
- `ConfigParserProofs`: `ParserTypes`, `ParserAccesses`, `ParserAcceptsGrammar` and `ParserRoundTrip`. The stack is one higher than the bracket count that the code
  checks, and after a word there is a statement in the innermost block; so neither `top()` nor `back()` is ever undefined. For the grammar,
  a list of statements is shown to be the same as a sequence of tokens that are in order (`InOrder`: each may follow the last) and closed
  (`Closes`: the depth of brackets is never below nought and ends there), in both directions (`ListInOrder`, `ListCloses`, `BalancedIsList`), and
  every beginning that is in order and not below nought can be completed (`BeginningIsCompletable`). What the parser keeps is these two: the last
  token and the bracket count, which is the depth (`GInv`). This takes the recursion of `IsStatementList` to be well defined (`StatementListEnds`).
  `ParserRoundTrip` has an invariant of its own (`RInv`). The blocks on the stack lie inside one another, every block has one parent with a
  lower number, and the last statement of each block on the stack is that which the next belongs to (`TreeShape`). The tokens read are the beginnings of the
  blocks on the stack, one after the other, each up to its opening bracket, and what the innermost holds so far (`PrintedAs`); a closing bracket
  puts the text of the block it closes into that of its parent (`PrintedClosed`). At the end only the first block is left, its text is the tokens, and
  there is but one way to print such a tree (`TextUnique`), so that it is what `ConfigToString` recurses to (`ToStringFinds`). The words are
  whole because the one that `ParseToken` has begun is the beginning of a whole one (`WordBegun`).
- `StaticHandlerProofs`: `SessionTypes` and `RequestsReadRight`, for any number of threads; `SessionsHold`, `SessionsLast` and `SessionsStayApart`, for one
  thread, any cookies, forms and lists of users. The invariant ties the expiration of each session to its login, and says which sessions the purge in progress has judged
  already: without the latter, a session that runs out between its visit and the lookup would seem to contradict it. These three use of what
  `LoginFields` makes of a text only that it is a cookie or none (`CookieKnown`) and one of three outcomes (`OutcomeKnown`).
  `RequestsReadRight` is about the texts themselves, for cookies and forms of any length that `BrowserAssumption` allows. Every list of pairs is laid out in
  its text at places that can be told (`PlacesExist`); from the beginning of a pair the searches of the loops find its `=` and its end (`EqualsFound`,
  `EndFound`), and what a form's loop takes for an end, the `;` or `&` of which it uses the wrong one, is at least not in the name (`NotInName`). The two loops, recursive functions,
  are well defined because they go forward (`LoopExists`); so each is, at the beginning of a pair, that pair and what it is at the next (`LoginAtPair`,
  `FormAtPair`), and from the last pair back the first cookie of the name, or all the fields up to an unknown one (`LoginCookieFirst`,
  `FormFieldsRead`). That these are still what was sent when the request goes on is the invariant (`RInv`), with the users, which only `Init` sets.
- `ExchangeProofs`: `ExchangeTypes`, `ProxyPassSplits`, `ForwardedHeaders`, `ForwardedIsRead`, `MappedDirectory`, `RedirectionFollowed`,
  `AnswersArrive` and `FilesServed`, for any files, any texts from
  clients and servers, any `proxy_pass` and any number of redirections. The invariant (`EInv`) is the conjunction of these (but for
  `DirectoryMapped`, which follows, and `ForwardedParses`) with two more parts: everything the handler and the connection hold is a text, and while a visit is under
  way (`VisitOK`) the uri begins with the prefix, visits are left, and before the first answer the outgoing uri is still that which `Join` made. The
  steps that take the work are `BeginRequest` and `Receive`: what `set_header` and `remove_header` do to a list without repeated keys, and
  that a Location which `HeadersOf` returns stands in the text received, between its key and a line break or the end. `ForwardedIsRead`
  has an invariant of its own (`SInv`): from the time that a request is parsed it is `Readable`, that is, no separator stands inside what it separates,
  and the request that goes out stays so through `TransformHeaders`, a redirection, and the body that arrives. Its `host_` and uri may not: a
  `proxy_pass` is a quoted string with anything in it, and a Location may have a space, neither of which the code looks at; so `ForwardedParses`
  asks this of them. A `host_` that a Location gives has no line break (`LocationUnbroken`).
  `AnswersArrive` has a third one (`RInv`): a response that is about to be written was made here (`MadeHere`), and then nothing has gone out
  to another server or the visit has failed, or it is what `Response::Parse` made of the answer received last. The first kind is read with the
  status and body it was made with, its last header the length of that body (`MadeRead`, `LengthLast`); printing the second gives the text received
  with a space and a `\r` more, wherever its lines end (`PassedIsSpaced`), and reading that gives the same status and body (`PassedIs`). The two
  kinds cannot be confused: the first line of the one ends in a word, that of the other in a space (`PassedIsNotFailed`). The theorem has the hypothesis
  `Nat \subseteq Numbers`, that every length can be written, as `std::to_string` does; `Numbers` is finite in the runs only. `FilesServed` has a fourth (`Served`): an answer of a static handler with status 200
  is made of the file that `Root` and the rest of the uri name. Its place follows from `SplitCat`, since a uri inside the directory goes on with a
  slash (`SamePlace`); its type because the last dot of a path that ends in one known extension stands in the last piece between slashes (`TypeOfName`).
  `RequestsDelivered` has a fifth (`DInv`): the request that the connection holds is what `Request::Parse` makes of the part read so far, that part
  is a request whose head fits into the buffer, the body announced has been read before the request is routed, and only what is malformed is
  refused. To be well formed is then the same as to be read in the end (`WellMadeIsRead`). Its hypotheses are that requests are called what they are (`Classified`) and that a `size_t`
  is wide enough for them (`WideEnough`), both of which the run checks of its own (`InstanceAssumption`). Assumed:
  the tokens that the code writes are among `Tokens`, different numbers have different numerals of one token each, which is no separator (`TokensAssumption`,
  `RemoteAssumption`, `WordsAssumption`), clients and servers send texts (`ClientsAssumption`), and files hold some (`FilesAssumption`).

Two modules hold lemmas only. `SequenceLemmas` has the least element of a set of numbers, concatenation and `FlattenSeq`; `MessagesProofs`
the operators of `Messages`: `FindIn` finds the first occurrence, `Split` has a definition that its recursion determines, its pieces have no
separator in them and each stands in the text where it should, and what the three operations on headers return. Then the two directions
of a message: the pieces that `Split` returns, printed with separators, are the text (`SplitPrinted`), and pieces without a separator in
them, printed, are split into themselves (`ReadPrinted`); so that a request whose parts are plain is read as it was
written (`RequestRead`), and one that was read is such a request (`ParseIsReadable`). The same for responses, of which the code reads the words
of the first line and keeps their spaces otherwise than for requests. The
library's induction theorems take an operator as a parameter, which none of the provers can instantiate; where a proof needs
induction (over the length of a text, for `Split` and `FlattenSeq`) the least counterexample is named and refuted instead.

Every safety property that a passing run checks is so proved. Left to TLC: liveness (`Answered` and the properties of `pool_live`), which needs
fairness and ENABLED, and the disagreements below, which are counterexamples.

## Disagreements between the code and what is said of it

Four are shown by a run each (`findings` in `PROJECT.json`): `use_after_free`, `accept_error_leak`, `longest_prefix`,
`login_without_timeout`. Others are in the model as the code has them, without a run:

- `server.cc:206`: `connections_` is changed and iterated over by several threads without the mutex of the same object (`registryTorn`).
- `connection.cc:101`: a connection whose client leaves in the middle of a body is never closed (the last disjunct of `NotForgotten`).
- `connection.cc:89`: `std::stoi` throws on a bad Content-Length and ends the process; `main.cc:81` says the threads never return.
- `server.cc:120`: for an unknown handler type the message reads `tokens_[3]` of a statement that has fewer tokens (`UnknownType`).
- `server.cc:132`: a StatusHandler mounted by `default` never gets its ServerStatus (`MountsAsConfigured`).
- `main.cc:62`: "Please no more than 128 threads" is a message only (`ReadThreads`).
- `request_handler.h:81`: the list of regex entries is not in alphabetical order (`GetList`).
- `config_parser.cc:150`: an unfinished word at the end of a file is dropped, so that `port 80; path` is accepted (`EndOfFile`).
- `static_handler.cc:207`: the map of sessions is shared by all threads without a lock. The properties of sessions are
  stated for one thread; with two, the first collision leaves nothing to state.

- `reverse_proxy_handler.cc:145`: `remove_header` removes the first `Cookie` of a request only, though "Passing arbitrary
  cookies will cause many websites to crash"; hence `NoKeyTwice` in `HeadersRewritten`.
- `reverse_proxy_handler.cc:25`: a `proxy_pass` without a protocol gets a warning, and a host without its first character
  (`HostStart`).
- `reverse_proxy_handler.cc:150`: a character that is no slash is dropped too if `path_` ends in it, and two slashes stay
  where the uri ends in the second (`Join`, `DirectoryMapped`).
- `reverse_proxy_handler.cc:111`: a Location with a port is sent on to the configured port, at a host whose name has the
  port in it (`RedirectHost`).
- `reverse_proxy_handler.h:20`: "21 Redirects is the standard"; 21 is the number of visits, of which the first is no
  redirection (`FollowRedirect`).
- `response.cc:168`, `request.cc:169`: "truncate res to everything before the \r\n\r\n" keeps the first of these
  characters, so that the last header ends in `\r` (`Lines`). `request_test.cc` knows: "there is a bug with parsing. The last header
  has a \r\n postpended". A cookie in the last header does not admit, therefore (`FieldsRead`).
- `request.cc:125`: `ToString` adds a line break after the body, so that a proxied request is longer than its Content-Length
  says (`RequestText`, `ForwardedParses`).
- `connection.cc:89`: a negative Content-Length becomes a huge `size_t`, and its request is read for ever (`Announced`); the body of a GET is
  read only as far as it came along with the headers (`HandleRequest`).
- `static_handler.cc:185`: after the first field of a form the next separator is looked for as `;`, then as `&`; the two together
  read every form (`FormFields`; `FieldsRead` holds).
- `response.cc:144`: the first line of an answer that is relayed ends in a space that it did not come with (`ParseResponse`, `Spaced`).
- `http_client.cc:57`: an answer of which the connection was closed too early is relayed as it is (`Receive`).
- `static_handler.cc:228`: a directory that can be opened is served as an empty file (`Files`).

## What is not modelled

The HTML of the status page and of the login page, and the time that SleepHandler takes, which no property tells apart. The
markdown library is third-party code, here the constant `ToHtml`. The command line, the build and the scripts that deploy and
restart the server keep no state of it. Counters are natural numbers; the code's `int`s would overflow after 2^31 requests. The clock never
runs backwards. Texts are finite sets of well-chosen ones, not every text; a Location with a space in it is not among them.

## Plan

The order in which the modules were written was that of what can go wrong unseen: the connections and their threads, the tallies, routing and
start-up, the parser of the config, the sessions, the exchange. What could follow:

1. Composition: `ServerConfig` with `Exchange`, so that a request is routed by the container that start-up built, and with
   `ConnectionPool`, so that it is counted under the prefix that `Find` gave.
2. The descriptors that HTTPClient never gives back, as a bound on the visits of all threads together.
