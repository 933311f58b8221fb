--------------------------- MODULE ConnectionPool ---------------------------
(***************************************************************************)
(* The life of the connections of a running server: class Connection, the  *)
(* accept loop of class Server, the registry of ServerStatus, and the      *)
(* threads of main() that all call io_service.run().                       *)
(*                                                                         *)
(* A thread runs one completion handler at a time, to its end.  A handler  *)
(* is cut into steps where another thread can see or change what it works  *)
(* on: at each change of conn_state_, at each asynchronous operation it    *)
(* starts, at each access to the set connections_, which no mutex guards,  *)
(* and at each read of a Connection that its own asynchronous operation    *)
(* may already have handed to another thread.                              *)
(***************************************************************************)
EXTENDS Naturals, FiniteSets

CONSTANTS
  Threads,  \* the threads that main() starts
  Conns,    \* the Connection objects the run may allocate (a bound)
  NoConn    \* no connection

ASSUME NoConnAssumption == NoConn \notin Conns

VARIABLES
  mem,            \* the storage of each Connection: unborn, live or freed
  conn_state_,    \* Connection::conn_state_
  pending,        \* the asynchronous operation outstanding on a connection
  result,         \* how that operation ended, or "waiting"
  bodySent,       \* connections whose client has sent the rest of a POST
  gone,           \* connections whose client has closed its end
  pc,             \* what each thread does next
  cur,            \* the Connection a thread's handler works on
  todo,           \* the connections GetSnapshot has still to ask
  connections_,   \* ServerStatus::connections_
  registryTorn,   \* two threads have been inside connections_ at once
  answered,       \* connections that have started to write their response
  totalRequests_, \* ServerStatus::sharedState_.totalRequests_
  serverUp        \* FALSE once the process has died

-----------------------------------------------------------------------------

\* The operations outstanding in the io_service.
async == <<pending, result>>
\* What the clients do.
clients == <<bodySent, gone>>
registry == <<connections_, registryTorn>>
stats == <<answered, totalRequests_>>
thread == <<pc, cur, todo>>

vars == <<mem, conn_state_, async, clients, thread, registry, stats, serverUp>>

Live == {c \in Conns : mem[c] = "live"}

\* The constructor of Server has called start_accept before any thread runs.
Init ==
  \E first \in Conns :
    /\ mem = [c \in Conns |-> IF c = first THEN "live" ELSE "unborn"]
    /\ pending = [c \in Conns |-> IF c = first THEN "accept" ELSE "none"]
    /\ connections_ = {first}
    /\ conn_state_ = [c \in Conns |-> "LISTENING"]
    /\ result = [c \in Conns |-> "waiting"]
    /\ bodySent = {} /\ gone = {}
    /\ pc = [t \in Threads |-> "idle"]
    /\ cur = [t \in Threads |-> NoConn]
    /\ todo = [t \in Threads |-> {}]
    /\ registryTorn = FALSE
    /\ answered = {} /\ totalRequests_ = 0
    /\ serverUp = TRUE

-----------------------------------------------------------------------------
\* The clients and the kernel.

Complete(c, op, r) ==
  /\ serverUp
  /\ pending[c] = op /\ result[c] = "waiting"
  /\ result' = [result EXCEPT ![c] = r]
  /\ UNCHANGED <<mem, conn_state_, pending, clients, thread, registry, stats, serverUp>>

\* The bound: an accept completes only while a Connection is left to allocate
\* for the next one.
AcceptCompletes(c) ==
  /\ \E n \in Conns : mem[n] = "unborn"
  /\ Complete(c, "accept", "ok") \/ Complete(c, "accept", "error")

\* async_read_until ends with the blank line, or with eof, not_found (8 KB and
\* no blank line) or another error, which handle_request treats alike.
ReadCompletes(c) ==
  \/ c \notin gone /\ Complete(c, "read", "ok")
  \/ Complete(c, "read", "error")

\* close_socket does the same whether the write succeeded or failed.
WriteCompletes(c) == Complete(c, "write", "ok")

\* What a client does while its response is written only decides how the write
\* ends.
Client(c) ==
  /\ serverUp
  /\ c \in Live /\ conn_state_[c] \in {"READING", "PROCESSING"}
  /\ UNCHANGED <<mem, conn_state_, async, thread, registry, stats, serverUp>>

SendBody(c) ==
  /\ Client(c)
  /\ c \notin bodySent \cup gone
  /\ bodySent' = bodySent \cup {c}
  /\ UNCHANGED gone

Disconnect(c) ==
  /\ Client(c)
  /\ c \notin gone
  /\ gone' = gone \cup {c}
  /\ UNCHANGED bodySent

-----------------------------------------------------------------------------
\* Steps of a thread

Goto(t, from, to) ==
  /\ serverUp
  /\ pc[t] = from
  /\ pc' = [pc EXCEPT ![t] = to]

SetState(c, s) == conn_state_' = [conn_state_ EXCEPT ![c] = s]

StartAsync(c, op) ==
  /\ pending' = [pending EXCEPT ![c] = op]
  /\ result' = [result EXCEPT ![c] = "waiting"]

\* io_service.run() takes a completed operation of c; the handler goes on at
\* the given step.
Dispatch(t, c, op, to) ==
  /\ Goto(t, "idle", to)
  /\ pending[c] = op /\ result[c] # "waiting"
  /\ StartAsync(c, "none")

\* An exception that leaves io_service.run(), or undefined behaviour that the
\* process does not survive.
Terminate ==
  /\ serverUp' = FALSE
  /\ UNCHANGED <<mem, conn_state_, async, clients, thread, registry, stats>>

Writers == {"insert", "erase"}
Readers == {"iterate"}

\* Another thread is inside connections_ and one of the two is modifying it.
Contended(t) ==
  \E u \in Threads \ {t} :
    \/ pc[u] \in Writers
    \/ pc[t] \in Writers /\ pc[u] \in Readers

Torn(t) == registryTorn \/ Contended(t)

\* An access to connections_.  Once two threads have collided in the tree its
\* content is anything that was ever put there.
AccessRegistry(t, after) ==
  /\ registryTorn' = Torn(t)
  /\ IF Torn(t) THEN connections_' \in SUBSET {c \in Conns : mem[c] # "unborn"}
     ELSE connections_' = after

\* ... or the process does not survive the access.
CrashInRegistry(t) ==
  /\ serverUp /\ pc[t] \in Writers \cup Readers /\ Torn(t)
  /\ Terminate

-----------------------------------------------------------------------------
\* Server::handle_accept, Connection::start, Server::start_accept

\* No error: start() sets the state ...
HandleAccept(t, c) ==
  /\ result[c] = "ok"
  /\ Dispatch(t, c, "accept", "start")
  /\ cur' = [cur EXCEPT ![t] = c]
  /\ SetState(c, "READING")
  /\ UNCHANGED <<mem, clients, todo, registry, stats, serverUp>>

\* ... and posts the read.
PostRead(t) ==
  /\ Goto(t, "start", "listen")
  /\ StartAsync(cur[t], "read")
  /\ cur' = [cur EXCEPT ![t] = NoConn]
  /\ UNCHANGED <<mem, conn_state_, clients, todo, registry, stats, serverUp>>

\* Variant: an error ends the chain of accepts.
HandleAcceptError_Stops(t, c) ==
  /\ result[c] = "error"
  /\ Dispatch(t, c, "accept", "idle")
  /\ UNCHANGED <<mem, conn_state_, cur, clients, todo, registry, stats, serverUp>>

\* An error is logged; nothing is done with the new connection.
HandleAcceptError(t, c) ==
  /\ result[c] = "error"
  /\ Dispatch(t, c, "accept", "listen")
  /\ UNCHANGED <<mem, conn_state_, cur, clients, todo, registry, stats, serverUp>>

\* start_accept: new Connection, up to the call of AddConnection.
NewConnection(t, n) ==
  /\ Goto(t, "listen", "insert")
  /\ mem[n] = "unborn"
  /\ mem' = [mem EXCEPT ![n] = "live"]
  /\ cur' = [cur EXCEPT ![t] = n]
  /\ SetState(n, "LISTENING")
  /\ UNCHANGED <<async, clients, todo, registry, stats, serverUp>>

\* Variant: the connection is never registered.
AddConnection_Unregistered(t) ==
  /\ Goto(t, "insert", "idle")
  /\ StartAsync(cur[t], "accept")
  /\ cur' = [cur EXCEPT ![t] = NoConn]
  /\ UNCHANGED <<mem, conn_state_, clients, registry, todo, stats, serverUp>>

\* AddConnection, and async_accept into the new connection.
AddConnection(t) ==
  /\ Goto(t, "insert", "idle")
  /\ AccessRegistry(t, connections_ \cup {cur[t]})
  /\ StartAsync(cur[t], "accept")
  /\ cur' = [cur EXCEPT ![t] = NoConn]
  /\ UNCHANGED <<mem, conn_state_, clients, todo, stats, serverUp>>

-----------------------------------------------------------------------------
\* Connection::handle_request

HandleRequest(t, c) ==
  /\ Dispatch(t, c, "read", IF result[c] = "ok" THEN "request" ELSE "close")
  /\ cur' = [cur EXCEPT ![t] = c]
  /\ SetState(c, "PROCESSING")
  /\ UNCHANGED <<mem, clients, todo, registry, stats, serverUp>>

\* A step of a handler that only decides where to go on.
Branch(t, from, to) ==
  /\ Goto(t, from, to)
  /\ UNCHANGED <<mem, conn_state_, async, clients, cur, todo, registry, stats, serverUp>>

\* Request::Parse and the checks on a POST; what the client sent is any of
\* these: a malformed request, a POST with no Content-Length,
RejectRequest(t) == Branch(t, "request", "respond")
\* a POST whose body is still to be read,
ExpectBody(t)    == Branch(t, "request", "body")
\* a request that is complete,
RouteRequest(t)  == Branch(t, "request", "route")
\* or a POST with a Content-Length std::stoi throws on; nobody catches it.
BadContentLength(t) == serverUp /\ pc[t] = "request" /\ Terminate

\* The loop of blocking read_some calls has the whole body.
ReadBody(t) == cur[t] \in bodySent /\ Branch(t, "body", "route")

\* read_some throws because the client is gone; handle_request just returns.
AbandonBody(t) ==
  /\ Goto(t, "body", "idle")
  /\ cur[t] \in gone
  /\ cur' = [cur EXCEPT ![t] = NoConn]
  /\ UNCHANGED <<mem, conn_state_, async, clients, todo, registry, stats, serverUp>>

\* request_summary_ is assigned, and the handler found, or NotFoundHandler,
\* fills in the response; regex_search in Find may give up with an exception.
RunHandler(t)    == Branch(t, "route", "respond")
FindThrows(t) == serverUp /\ pc[t] = "route" /\ Terminate

\* ReverseProxyHandler connects, writes and reads with blocking calls: the
\* thread is at the mercy of the remote server ...
VisitOutsideServer(t) == Branch(t, "route", "remote")

\* ... which answers, or breaks the exchange: read and connect report it by an
\* error code, write and set_option by an exception.
RemoteAnswers(t) == Branch(t, "remote", "respond")
RemoteBreaks(t)  == serverUp /\ pc[t] = "remote" /\ Terminate

\* StatusHandler: GetSnapshot begins to iterate over connections_.
BeginSnapshot(t) ==
  /\ Goto(t, "route", "iterate")
  /\ todo' = [todo EXCEPT ![t] = connections_]
  /\ UNCHANGED <<mem, conn_state_, async, clients, cur, registry, stats, serverUp>>

\* GetStatus of one connection, which has to be there to be asked.
GetStatus(t, c) ==
  /\ serverUp /\ pc[t] = "iterate" /\ c \in todo[t]
  /\ todo' = [todo EXCEPT ![t] = @ \ {c}]
  /\ AccessRegistry(t, connections_)
  /\ UNCHANGED <<mem, conn_state_, async, clients, pc, cur, stats, serverUp>>

\* GetStatus of a connection that has been deleted, or whose request_summary_
\* another thread is assigning, may also end the process.
CrashInGetStatus(t) ==
  /\ serverUp /\ pc[t] = "iterate"
  /\ \E c \in todo[t] :
       mem[c] = "freed" \/ \E u \in Threads \ {t} : cur[u] = c /\ pc[u] = "route"
  /\ Terminate

EndSnapshot(t) == todo[t] = {} /\ Branch(t, "iterate", "respond")

\* Variant: write_response forgets the state.
WriteResponse_NoState(t) == Branch(t, "respond", "send")

\* write_response: the state, then the asynchronous write, whose completion
\* may delete the connection from then on.
WriteResponse(t) ==
  /\ Goto(t, "respond", "send")
  /\ SetState(cur[t], "WRITING")
  /\ UNCHANGED <<mem, async, clients, cur, todo, registry, stats, serverUp>>

\* Variant: the response is not logged.
PostWrite_NoLog(t) ==
  /\ Goto(t, "send", "idle")
  /\ StartAsync(cur[t], "write")
  /\ answered' = answered \cup {cur[t]}
  /\ cur' = [cur EXCEPT ![t] = NoConn]
  /\ UNCHANGED <<mem, conn_state_, clients, todo, registry, totalRequests_, serverUp>>

PostWrite(t) ==
  /\ Goto(t, "send", "log")
  /\ StartAsync(cur[t], "write")
  /\ answered' = answered \cup {cur[t]}
  /\ UNCHANGED <<mem, conn_state_, clients, cur, todo, registry, totalRequests_, serverUp>>

\* Variant: LogRequest waits for a mutex that nobody releases.
LogRequest_Blocks(t) == Branch(t, "log", "log")

\* Variant: handle_request closes the socket itself after logging.
LogRequest_ThenClose(t) ==
  /\ Goto(t, "log", "close")
  /\ totalRequests_' = totalRequests_ + 1
  /\ UNCHANGED <<mem, conn_state_, async, clients, cur, todo, registry, answered, serverUp>>

\* handle_request reads its member serverStatus_ to log the request.  Read from
\* freed storage it still has its value, is null, or leads nowhere.
LogRequest(t) ==
  /\ Goto(t, "log", "idle")
  /\ \/ totalRequests_' = totalRequests_ + 1
     \/ mem[cur[t]] = "freed" /\ UNCHANGED totalRequests_
  /\ cur' = [cur EXCEPT ![t] = NoConn]
  /\ UNCHANGED <<mem, conn_state_, async, clients, todo, registry, answered, serverUp>>

CrashInLogRequest(t) ==
  /\ serverUp /\ pc[t] = "log" /\ mem[cur[t]] = "freed"
  /\ Terminate

-----------------------------------------------------------------------------
\* Connection::close_socket

\* Variant: the connection is not deleted after a failed read.
CloseSocket_Leaks(t) ==
  /\ Goto(t, "close", "idle")
  /\ SetState(cur[t], "CLOSING")
  /\ cur' = [cur EXCEPT ![t] = NoConn]
  /\ UNCHANGED <<mem, async, clients, todo, registry, stats, serverUp>>

\* Called by handle_request when the read failed ...
CloseSocket(t) ==
  /\ Goto(t, "close", "erase")
  /\ SetState(cur[t], "CLOSING")
  /\ UNCHANGED <<mem, async, clients, cur, todo, registry, stats, serverUp>>

\* Variant: the connection is kept alive and reads the next request.
HandleWrite_KeepAlive(t, c) ==
  /\ Dispatch(t, c, "write", "start")
  /\ cur' = [cur EXCEPT ![t] = c]
  /\ SetState(c, "READING")
  /\ UNCHANGED <<mem, clients, todo, registry, stats, serverUp>>

\* ... and as the completion handler of the write.
HandleWrite(t, c) ==
  /\ Dispatch(t, c, "write", "erase")
  /\ cur' = [cur EXCEPT ![t] = c]
  /\ SetState(c, "CLOSING")
  /\ UNCHANGED <<mem, clients, todo, registry, stats, serverUp>>

\* Variant: the destructor does not call RemoveConnection.
RemoveConnection_StaysRegistered(t) ==
  /\ Goto(t, "erase", "idle")
  /\ mem' = [mem EXCEPT ![cur[t]] = "freed"]
  /\ cur' = [cur EXCEPT ![t] = NoConn]
  /\ UNCHANGED <<conn_state_, async, clients, registry, todo, stats, serverUp>>

\* Variant: close_socket forgets to delete.
RemoveConnection_Leaks(t) ==
  /\ Goto(t, "erase", "idle")
  /\ cur' = [cur EXCEPT ![t] = NoConn]
  /\ UNCHANGED <<mem, conn_state_, async, clients, registry, todo, stats, serverUp>>

\* delete this: the destructor calls RemoveConnection, the storage is freed.
RemoveConnection(t) ==
  /\ Goto(t, "erase", "idle")
  /\ AccessRegistry(t, connections_ \ {cur[t]})
  /\ mem' = [mem EXCEPT ![cur[t]] = "freed"]
  /\ cur' = [cur EXCEPT ![t] = NoConn]
  /\ UNCHANGED <<conn_state_, async, clients, todo, stats, serverUp>>

-----------------------------------------------------------------------------

\* A thread takes the completed operation of c from the io_service.
RunHandlerOf(t, c) ==
  HandleAccept(t, c) \/ HandleAcceptError(t, c) \/ HandleRequest(t, c) \/ HandleWrite(t, c)

\* A step of the handler that thread t is running.
ContinueHandler(t) ==
  \/ PostRead(t) \/ (\E n \in Conns : NewConnection(t, n)) \/ AddConnection(t)
  \/ RejectRequest(t) \/ ExpectBody(t) \/ RouteRequest(t) \/ BadContentLength(t)
  \/ ReadBody(t) \/ AbandonBody(t)
  \/ RunHandler(t) \/ FindThrows(t) \/ VisitOutsideServer(t)
  \/ BeginSnapshot(t) \/ (\E c \in Conns : GetStatus(t, c)) \/ EndSnapshot(t)
  \/ WriteResponse(t) \/ PostWrite(t) \/ LogRequest(t)
  \/ CloseSocket(t) \/ RemoveConnection(t)
  \/ CrashInRegistry(t) \/ CrashInGetStatus(t) \/ CrashInLogRequest(t)

\* The process is gone, or every client the bound allows has been served and
\* the server waits for one more.
Stopped ==
  /\ \/ ~serverUp
     \/ /\ \A c \in Conns : mem[c] # "unborn" /\ pending[c] \in {"none", "accept"}
        /\ \A t \in Threads : pc[t] = "idle"
  /\ UNCHANGED vars

Next ==
  \/ \E c \in Conns :
       \/ AcceptCompletes(c) \/ ReadCompletes(c) \/ WriteCompletes(c)
       \/ SendBody(c) \/ Disconnect(c)
       \/ \E t \in Threads : RunHandlerOf(t, c)
  \/ \E t \in Threads : ContinueHandler(t) \/ RemoteAnswers(t) \/ RemoteBreaks(t)
  \/ Stopped

Spec == Init /\ [][Next]_vars

\* Threads are scheduled and handlers do not loop; the io_service hands out
\* completed operations in the order of their completion, so none waits for
\* ever while threads come back for more; every write ends, because the client
\* takes the response or is gone.  Nothing else is assumed of the clients: one
\* may neither send its request, nor its body, nor leave; nor of the servers
\* behind a proxy, which may never answer.
Fairness ==
  /\ \A t \in Threads : WF_vars(ContinueHandler(t))
  /\ \A c \in Conns : SF_vars(\E t \in Threads : RunHandlerOf(t, c))
  /\ \A c \in Conns : WF_vars(WriteCompletes(c))

FairSpec == Spec /\ Fairness

-----------------------------------------------------------------------------
\* The values each variable can have.
TypeOK ==
  /\ mem \in [Conns -> {"unborn", "live", "freed"}]
  /\ conn_state_ \in [Conns -> {"LISTENING", "READING", "PROCESSING", "WRITING", "CLOSING"}]
  /\ pending \in [Conns -> {"none", "accept", "read", "write"}]
  /\ result \in [Conns -> {"waiting", "ok", "error"}]
  /\ bodySent \subseteq Conns /\ gone \subseteq Conns
  /\ pc \in [Threads -> {"idle", "start", "listen", "request", "body", "route",
                         "remote", "respond", "send", "log", "close"} \cup Writers \cup Readers]
  /\ cur \in [Threads -> Conns \cup {NoConn}]
  /\ \A t \in Threads : cur[t] = NoConn <=> pc[t] \in {"idle", "listen"}
  /\ todo \in [Threads -> SUBSET Conns]
  /\ connections_ \subseteq Conns
  /\ answered \subseteq Conns
  /\ totalRequests_ \in Nat
  /\ registryTorn \in BOOLEAN /\ serverUp \in BOOLEAN

\* Thread t runs a handler of c that no other handler of c may overlap.  A
\* handler that has posted its write is no longer among them.
Owns(t, c) == cur[t] = c /\ pc[t] # "log"

\* The connections are not locked against each other's handlers: all that keeps
\* two threads from working on one connection is that it has at most one
\* operation outstanding or one handler running, never both, and that only a
\* live connection has either.
OneOwner ==
  /\ \A c \in Conns : pending[c] # "none" => mem[c] = "live"
  /\ \A t \in Threads, c \in Conns :
       Owns(t, c) => mem[c] = "live" /\ pending[c] = "none"
  /\ \A s, t \in Threads, c \in Conns : Owns(s, c) /\ Owns(t, c) => s = t

\* Thread t is between the end of one accept and the start of the next.
Accepting(t) == pc[t] \in {"start", "listen", "insert"}

\* The chain of accepts neither ends nor forks, whatever becomes of the
\* connections: there is one accept outstanding, or one thread about to start
\* it.  So the io_service never runs out of work, and run() returns in no
\* thread (main.cc: "these joins should never happen").
AcceptChain ==
  /\ (\E c \in Conns : pending[c] = "accept") \/ (\E t \in Threads : Accepting(t))
  /\ \A c, d \in Conns : pending[c] = "accept" /\ pending[d] = "accept" => c = d
  /\ \A c \in Conns, t \in Threads : ~(pending[c] = "accept" /\ Accepting(t))
  /\ \A s, t \in Threads : Accepting(s) /\ Accepting(t) => s = t

Processing == {"request", "body", "route", "remote", "iterate", "respond", "close"}

\* What GetStatus reports of a live connection is what it is doing: the state
\* is set before the operation starts that another thread may complete, so that
\* no handler overwrites a state set by a later one.
StateReported ==
  \A c \in Conns :
    /\ pending[c] = "accept" => conn_state_[c] = "LISTENING"
    /\ pending[c] = "read" => conn_state_[c] = "READING"
    /\ pending[c] = "write" => conn_state_[c] = "WRITING"
    /\ \A t \in Threads : cur[t] = c =>
         /\ pc[t] = "insert" => conn_state_[c] = "LISTENING"
         /\ pc[t] = "start" => conn_state_[c] = "READING"
         /\ pc[t] \in Processing => conn_state_[c] = "PROCESSING"
         /\ pc[t] = "send" => conn_state_[c] = "WRITING"
         /\ pc[t] = "erase" => conn_state_[c] = "CLOSING"

\* A live connection has an operation outstanding or a thread working on it,
\* so that it moves on and is freed in the end.  Two are forgotten, by the code's
\* own doing: one whose accept failed (server.cc:76), and one whose client left
\* in the middle of a body (connection.cc:101).
NotForgotten ==
  \A c \in Live :
    \/ pending[c] # "none"
    \/ \E t \in Threads : Owns(t, c)
    \/ conn_state_[c] = "LISTENING"
    \/ conn_state_[c] = "PROCESSING" /\ c \in gone

\* A connection that has begun to answer is past everything but its end.
AnswersFinal ==
  /\ \A c \in Conns : mem[c] = "unborn" => conn_state_[c] = "LISTENING" /\ c \notin answered
  /\ \A c \in answered :
       /\ conn_state_[c] \in {"WRITING", "CLOSING"}
       /\ pending[c] \in {"none", "write"}
       /\ \A t \in Threads : Owns(t, c) => pc[t] = "erase"

\* The inductive invariant: ownership is what each of the others rests on.
IInv == TypeOK /\ OneOwner /\ AcceptChain /\ StateReported /\ NotForgotten /\ AnswersFinal

Forward == {<<"LISTENING", "READING">>, <<"READING", "PROCESSING">>,
            <<"PROCESSING", "WRITING">>, <<"PROCESSING", "CLOSING">>,
            <<"WRITING", "CLOSING">>}

Advance(c) ==
  /\ conn_state_[c] # conn_state_'[c] => <<conn_state_[c], conn_state_'[c]>> \in Forward
  /\ mem[c] = "freed" => mem'[c] = "freed" /\ pending'[c] = "none"
  /\ c \in answered => pending'[c] \in {"none", "write"}

\* A connection only moves forward through its states (connection.h, "A
\* connection is viewed as asynchronous ..."), with the shortcut that
\* close_socket takes when the read fails; it is freed once and for all; its
\* response is written once.
StateAdvances == [][\A c \in Conns : Advance(c)]_vars

-----------------------------------------------------------------------------
\* What holds with one thread and is lost with two.

\* No thread goes on working with a connection that has been deleted: neither
\* handle_request after write_response, nor GetSnapshot.
NoDanglingUse ==
  \A t \in Threads :
    /\ pc[t] = "log" => mem[cur[t]] = "live"
    /\ todo[t] \subseteq Live

\* connections_ holds the live connections, so that the status page shows all
\* of them and nothing else.
RegistryExact ==
  connections_ = Live \ {cur[t] : t \in {u \in Threads : pc[u] = "insert"}}

\* Every response is counted.
CountedExactly ==
  totalRequests_ + Cardinality({t \in Threads : pc[t] = "log"}) = Cardinality(answered)

-----------------------------------------------------------------------------
\* Liveness

\* Every thread is inside a blocking call that waits for a client, or for the
\* server behind a proxy.
AllBlocked == \A t \in Threads : pc[t] \in {"body", "remote"}

\* An answered connection is closed and freed, unless the process dies or, from
\* some time on, every thread waits for the body of some POST or for the server
\* behind a proxy.
AnsweredFreed ==
  <>[]AllBlocked \/ \A c \in Conns : c \in answered ~> mem[c] = "freed" \/ ~serverUp

\* The server always comes back to accepting, with the same exceptions.
AcceptsAgain ==
  \/ <>[]AllBlocked
  \/ []<>((\E c \in Conns : pending[c] = "accept" /\ result[c] = "waiting") \/ ~serverUp)

\* No completed operation is left in the io_service, with the same exceptions.
NoHandlerStarves ==
  <>[]AllBlocked \/ \A c \in Conns : result[c] # "waiting" ~> pending[c] = "none" \/ ~serverUp

-----------------------------------------------------------------------------
\* What the repository says of the program and the code does not do.

\* server.cc:68, "start the connection if no error, clean up otherwise": a
\* connection whose accept has failed is deleted.
FailedAcceptCleanedUp ==
  \A c \in Live : conn_state_[c] = "LISTENING" =>
    pending[c] = "accept" \/ (\E t \in Threads : pc[t] = "insert" /\ cur[t] = c)
    \/ \E t \in Threads : Accepting(t)
=============================================================================
