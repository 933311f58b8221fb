------------------------ MODULE ConnectionPoolProofs ------------------------
(***************************************************************************)
(* What keeps connections apart, for any number of threads and             *)
(* connections; and what one thread adds to it.                            *)
(***************************************************************************)
EXTENDS ConnectionPool, FiniteSetTheorems, TLAPS

\* The steps that touch no connection: those of the clients and the kernel, an
\* exception or a crash, and one turn of the loop of GetSnapshot.
Silent ==
  \/ \E c \in Conns :
       AcceptCompletes(c) \/ ReadCompletes(c) \/ WriteCompletes(c) \/ SendBody(c) \/ Disconnect(c)
  \/ \E t \in Threads :
       \/ BadContentLength(t) \/ FindThrows(t) \/ RemoteBreaks(t)
       \/ CrashInRegistry(t) \/ CrashInGetStatus(t) \/ CrashInLogRequest(t)
       \/ \E c \in Conns : GetStatus(t, c)
  \/ Stopped
  \/ UNCHANGED vars

\* The steps of handle_request that only branch.
Branches(t) ==
  \/ RejectRequest(t) \/ ExpectBody(t) \/ RouteRequest(t)
  \/ ReadBody(t) \/ RunHandler(t) \/ EndSnapshot(t)
  \/ VisitOutsideServer(t) \/ RemoteAnswers(t)

LEMMA SilentStep ==
  ASSUME Silent
  PROVE  UNCHANGED <<mem, conn_state_, pending, pc, cur, answered>> /\ gone \subseteq gone'
BY DEF Silent, AcceptCompletes, ReadCompletes, WriteCompletes, Complete, SendBody, Disconnect,
       Client, BadContentLength, FindThrows, RemoteBreaks, CrashInRegistry, CrashInGetStatus,
       CrashInLogRequest, Terminate, GetStatus, Stopped, vars, async, clients, thread,
       registry, stats

\* Where a branch can come from and lead to.
BranchPairs ==
  {<<"request", "respond">>, <<"request", "body">>, <<"request", "route">>,
   <<"body", "route">>, <<"route", "respond">>, <<"iterate", "respond">>,
   <<"route", "remote">>, <<"remote", "respond">>}

LEMMA BranchStep ==
  ASSUME NEW t \in Threads, Branches(t), TypeOK
  PROVE  /\ UNCHANGED <<mem, conn_state_, pending, cur, gone, answered>>
         /\ \E from, to : /\ <<from, to>> \in BranchPairs
                          /\ pc[t] = from
                          /\ pc' = [pc EXCEPT ![t] = to]
BY DEF Branches, RejectRequest, ExpectBody, RouteRequest, ReadBody, RunHandler, EndSnapshot,
       VisitOutsideServer, RemoteAnswers,
       Branch, Goto, BranchPairs, async, clients, stats

\* Next, with the steps above grouped.
LEMMA NextCases ==
  ASSUME [Next]_vars
  PROVE  \/ Silent
         \/ \E t \in Threads :
              \/ \E c \in Conns : \/ HandleAccept(t, c) \/ HandleAcceptError(t, c)
                                  \/ HandleRequest(t, c) \/ HandleWrite(t, c)
                                  \/ NewConnection(t, c)
              \/ PostRead(t) \/ AddConnection(t) \/ AbandonBody(t) \/ BeginSnapshot(t)
              \/ WriteResponse(t) \/ PostWrite(t) \/ LogRequest(t)
              \/ CloseSocket(t) \/ RemoveConnection(t) \/ Branches(t)
BY DEF Next, RunHandlerOf, ContinueHandler, Silent, Branches

\* Type correctness.
LEMMA TypeStep ==
  ASSUME IInv, [Next]_vars
  PROVE  TypeOK'
<1> USE NoConnAssumption DEF IInv, TypeOK, Writers, Readers
<1>1. CASE Silent
  <2>1. ASSUME NEW c \in Conns, AcceptCompletes(c) \/ ReadCompletes(c) \/ WriteCompletes(c)
        PROVE  TypeOK'
    BY <2>1 DEF AcceptCompletes, ReadCompletes, WriteCompletes, Complete, clients, thread,
                registry, stats
  <2>2. ASSUME NEW c \in Conns, SendBody(c) \/ Disconnect(c)
        PROVE  TypeOK'
    BY <2>2 DEF SendBody, Disconnect, Client, async, thread, registry, stats
  <2>3. ASSUME NEW t \in Threads,
               \/ BadContentLength(t) \/ FindThrows(t) \/ RemoteBreaks(t)
               \/ CrashInRegistry(t) \/ CrashInGetStatus(t) \/ CrashInLogRequest(t)
        PROVE  TypeOK'
    <3>1. Terminate
      BY <2>3 DEF BadContentLength, FindThrows, RemoteBreaks, CrashInRegistry, CrashInGetStatus,
                  CrashInLogRequest
    <3> QED
      BY <3>1 DEF Terminate, async, clients, thread, registry, stats
  <2>4. ASSUME NEW t \in Threads, NEW c \in Conns, GetStatus(t, c)
        PROVE  TypeOK'
    BY <2>4 DEF GetStatus, AccessRegistry, Torn, Contended, async, clients, stats
  <2>5. CASE Stopped \/ UNCHANGED vars
    BY <2>5 DEF Stopped, vars, async, clients, thread, registry, stats
  <2> QED
    BY <1>1, <2>1, <2>2, <2>3, <2>4, <2>5 DEF Silent
<1>2. ASSUME NEW t \in Threads, NEW c \in Conns, HandleAccept(t, c)
      PROVE  TypeOK'
  BY <1>2 DEF HandleAccept, Dispatch, Goto, StartAsync, SetState, stats, clients, registry
<1>3. ASSUME NEW t \in Threads, NEW c \in Conns, HandleAcceptError(t, c)
      PROVE  TypeOK'
  BY <1>3 DEF HandleAcceptError, Dispatch, Goto, StartAsync, stats, clients, registry
<1>4. ASSUME NEW t \in Threads, NEW c \in Conns, HandleRequest(t, c)
      PROVE  TypeOK'
  BY <1>4 DEF HandleRequest, Dispatch, Goto, StartAsync, SetState, stats, clients, registry
<1>5. ASSUME NEW t \in Threads, NEW c \in Conns, HandleWrite(t, c)
      PROVE  TypeOK'
  BY <1>5 DEF HandleWrite, Dispatch, Goto, StartAsync, SetState, stats, clients, registry
<1>6. ASSUME NEW t \in Threads, NEW c \in Conns, NewConnection(t, c)
      PROVE  TypeOK'
  BY <1>6 DEF NewConnection, Goto, SetState, async, stats, clients, registry
<1>7. ASSUME NEW t \in Threads, PostRead(t)
      PROVE  TypeOK'
  BY <1>7 DEF PostRead, Goto, StartAsync, stats, clients, registry
<1>8. ASSUME NEW t \in Threads, AddConnection(t)
      PROVE  TypeOK'
  BY <1>8 DEF AddConnection, AccessRegistry, Torn, Contended, Goto, StartAsync, stats, clients
<1>9. ASSUME NEW t \in Threads, AbandonBody(t)
      PROVE  TypeOK'
  BY <1>9 DEF AbandonBody, Goto, async, stats, clients, registry
<1>10. ASSUME NEW t \in Threads, BeginSnapshot(t)
      PROVE  TypeOK'
  BY <1>10 DEF BeginSnapshot, Goto, async, stats, clients, registry
<1>11. ASSUME NEW t \in Threads, WriteResponse(t)
      PROVE  TypeOK'
  BY <1>11 DEF WriteResponse, Goto, SetState, async, stats, clients, registry
<1>12. ASSUME NEW t \in Threads, PostWrite(t)
      PROVE  TypeOK'
  BY <1>12 DEF PostWrite, Goto, StartAsync, clients, registry
<1>13. ASSUME NEW t \in Threads, LogRequest(t)
      PROVE  TypeOK'
  BY <1>13 DEF LogRequest, Goto, async, clients, registry
<1>14. ASSUME NEW t \in Threads, CloseSocket(t)
      PROVE  TypeOK'
  BY <1>14 DEF CloseSocket, Goto, SetState, async, stats, clients, registry
<1>15. ASSUME NEW t \in Threads, RemoveConnection(t)
      PROVE  TypeOK'
  BY <1>15 DEF RemoveConnection, AccessRegistry, Torn, Contended, Goto, async, stats, clients
<1>16. ASSUME NEW t \in Threads, Branches(t)
      PROVE  TypeOK'
  <2>1. UNCHANGED <<mem, conn_state_, async, clients, cur, todo, registry, stats, serverUp>>
    BY <1>16 DEF Branches, RejectRequest, ExpectBody, RouteRequest, ReadBody, RunHandler,
                 VisitOutsideServer, RemoteAnswers, EndSnapshot, Branch
  <2> QED
    BY <1>16, <2>1, BranchStep DEF BranchPairs, async, clients, registry, stats
<1> QED
  BY <1>1, <1>2, <1>3, <1>4, <1>5, <1>6, <1>7, <1>8, <1>9, <1>10, <1>11, <1>12, <1>13, <1>14,
     <1>15, <1>16, NextCases

\* A handler is handed a connection only by taking its operation away, and gives it
\* up before or while it starts the next operation.
LEMMA OwnerStep ==
  ASSUME IInv, [Next]_vars
  PROVE  OneOwner'
<1> USE NoConnAssumption DEF IInv, TypeOK, OneOwner, Owns, Writers, Readers
<1>1. CASE Silent
  BY <1>1, SilentStep
<1>2. ASSUME NEW t \in Threads, NEW c \in Conns, HandleAccept(t, c)
      PROVE  OneOwner'
  BY <1>2 DEF HandleAccept, Dispatch, Goto, StartAsync, SetState, stats, clients, registry
<1>3. ASSUME NEW t \in Threads, NEW c \in Conns, HandleAcceptError(t, c)
      PROVE  OneOwner'
  BY <1>3 DEF HandleAcceptError, Dispatch, Goto, StartAsync, stats, clients, registry
<1>4. ASSUME NEW t \in Threads, NEW c \in Conns, HandleRequest(t, c)
      PROVE  OneOwner'
  BY <1>4 DEF HandleRequest, Dispatch, Goto, StartAsync, SetState, stats, clients, registry
<1>5. ASSUME NEW t \in Threads, NEW c \in Conns, HandleWrite(t, c)
      PROVE  OneOwner'
  BY <1>5 DEF HandleWrite, Dispatch, Goto, StartAsync, SetState, stats, clients, registry
<1>6. ASSUME NEW t \in Threads, NEW c \in Conns, NewConnection(t, c)
      PROVE  OneOwner'
  BY <1>6 DEF NewConnection, Goto, SetState, async, stats, clients, registry
<1>7. ASSUME NEW t \in Threads, PostRead(t)
      PROVE  OneOwner'
  BY <1>7 DEF PostRead, Goto, StartAsync, stats, clients, registry
<1>8. ASSUME NEW t \in Threads, AddConnection(t)
      PROVE  OneOwner'
  BY <1>8 DEF AddConnection, AccessRegistry, Goto, StartAsync, stats, clients
<1>9. ASSUME NEW t \in Threads, AbandonBody(t)
      PROVE  OneOwner'
  BY <1>9 DEF AbandonBody, Goto, async, stats, clients, registry
<1>10. ASSUME NEW t \in Threads, BeginSnapshot(t)
      PROVE  OneOwner'
  BY <1>10 DEF BeginSnapshot, Goto, async, stats, clients, registry
<1>11. ASSUME NEW t \in Threads, WriteResponse(t)
      PROVE  OneOwner'
  BY <1>11 DEF WriteResponse, Goto, SetState, async, stats, clients, registry
<1>12. ASSUME NEW t \in Threads, PostWrite(t)
      PROVE  OneOwner'
  BY <1>12 DEF PostWrite, Goto, StartAsync, clients, registry
<1>13. ASSUME NEW t \in Threads, LogRequest(t)
      PROVE  OneOwner'
  BY <1>13 DEF LogRequest, Goto, async, clients, registry
<1>14. ASSUME NEW t \in Threads, CloseSocket(t)
      PROVE  OneOwner'
  BY <1>14 DEF CloseSocket, Goto, SetState, async, stats, clients, registry
<1>15. ASSUME NEW t \in Threads, RemoveConnection(t)
      PROVE  OneOwner'
  BY <1>15 DEF RemoveConnection, AccessRegistry, Goto, async, stats, clients
<1>16. ASSUME NEW t \in Threads, Branches(t)
      PROVE  OneOwner'
  BY <1>16, BranchStep DEF BranchPairs
<1> QED
  BY <1>1, <1>2, <1>3, <1>4, <1>5, <1>6, <1>7, <1>8, <1>9, <1>10, <1>11, <1>12, <1>13, <1>14,
     <1>15, <1>16, NextCases

\* The token of the accept chain passes from the outstanding accept to the thread
\* that runs handle_accept and from it to the next accept.
LEMMA AcceptStep ==
  ASSUME IInv, [Next]_vars
  PROVE  AcceptChain'
<1> USE NoConnAssumption DEF IInv, TypeOK, OneOwner, Owns, Writers, Readers, AcceptChain, Accepting
<1>1. CASE Silent
  BY <1>1, SilentStep
<1>2. ASSUME NEW t \in Threads, NEW c \in Conns, HandleAccept(t, c)
      PROVE  AcceptChain'
  BY <1>2 DEF HandleAccept, Dispatch, Goto, StartAsync, SetState, stats, clients, registry
<1>3. ASSUME NEW t \in Threads, NEW c \in Conns, HandleAcceptError(t, c)
      PROVE  AcceptChain'
  BY <1>3 DEF HandleAcceptError, Dispatch, Goto, StartAsync, stats, clients, registry
<1>4. ASSUME NEW t \in Threads, NEW c \in Conns, HandleRequest(t, c)
      PROVE  AcceptChain'
  BY <1>4 DEF HandleRequest, Dispatch, Goto, StartAsync, SetState, stats, clients, registry
<1>5. ASSUME NEW t \in Threads, NEW c \in Conns, HandleWrite(t, c)
      PROVE  AcceptChain'
  BY <1>5 DEF HandleWrite, Dispatch, Goto, StartAsync, SetState, stats, clients, registry
<1>6. ASSUME NEW t \in Threads, NEW c \in Conns, NewConnection(t, c)
      PROVE  AcceptChain'
  BY <1>6 DEF NewConnection, Goto, SetState, async, stats, clients, registry
<1>7. ASSUME NEW t \in Threads, PostRead(t)
      PROVE  AcceptChain'
  BY <1>7 DEF PostRead, Goto, StartAsync, stats, clients, registry
<1>8. ASSUME NEW t \in Threads, AddConnection(t)
      PROVE  AcceptChain'
  BY <1>8 DEF AddConnection, AccessRegistry, Goto, StartAsync, stats, clients
<1>9. ASSUME NEW t \in Threads, AbandonBody(t)
      PROVE  AcceptChain'
  BY <1>9 DEF AbandonBody, Goto, async, stats, clients, registry
<1>10. ASSUME NEW t \in Threads, BeginSnapshot(t)
      PROVE  AcceptChain'
  BY <1>10 DEF BeginSnapshot, Goto, async, stats, clients, registry
<1>11. ASSUME NEW t \in Threads, WriteResponse(t)
      PROVE  AcceptChain'
  BY <1>11 DEF WriteResponse, Goto, SetState, async, stats, clients, registry
<1>12. ASSUME NEW t \in Threads, PostWrite(t)
      PROVE  AcceptChain'
  BY <1>12 DEF PostWrite, Goto, StartAsync, clients, registry
<1>13. ASSUME NEW t \in Threads, LogRequest(t)
      PROVE  AcceptChain'
  BY <1>13 DEF LogRequest, Goto, async, clients, registry
<1>14. ASSUME NEW t \in Threads, CloseSocket(t)
      PROVE  AcceptChain'
  BY <1>14 DEF CloseSocket, Goto, SetState, async, stats, clients, registry
<1>15. ASSUME NEW t \in Threads, RemoveConnection(t)
      PROVE  AcceptChain'
  BY <1>15 DEF RemoveConnection, AccessRegistry, Goto, async, stats, clients
<1>16. ASSUME NEW t \in Threads, Branches(t)
      PROVE  AcceptChain'
  BY <1>16, BranchStep DEF BranchPairs
<1> QED
  BY <1>1, <1>2, <1>3, <1>4, <1>5, <1>6, <1>7, <1>8, <1>9, <1>10, <1>11, <1>12, <1>13, <1>14,
     <1>15, <1>16, NextCases

\* conn_state_ is set by the owner, ahead of the operation it announces.
LEMMA StateStep ==
  ASSUME IInv, [Next]_vars
  PROVE  StateReported'
<1> USE NoConnAssumption DEF IInv, TypeOK, OneOwner, Owns, Writers, Readers, StateReported,
    Processing
<1>1. CASE Silent
  BY <1>1, SilentStep
<1>2. ASSUME NEW t \in Threads, NEW c \in Conns, HandleAccept(t, c)
      PROVE  StateReported'
  BY <1>2 DEF HandleAccept, Dispatch, Goto, StartAsync, SetState, stats, clients, registry
<1>3. ASSUME NEW t \in Threads, NEW c \in Conns, HandleAcceptError(t, c)
      PROVE  StateReported'
  BY <1>3 DEF HandleAcceptError, Dispatch, Goto, StartAsync, stats, clients, registry
<1>4. ASSUME NEW t \in Threads, NEW c \in Conns, HandleRequest(t, c)
      PROVE  StateReported'
  BY <1>4 DEF HandleRequest, Dispatch, Goto, StartAsync, SetState, stats, clients, registry
<1>5. ASSUME NEW t \in Threads, NEW c \in Conns, HandleWrite(t, c)
      PROVE  StateReported'
  BY <1>5 DEF HandleWrite, Dispatch, Goto, StartAsync, SetState, stats, clients, registry
<1>6. ASSUME NEW t \in Threads, NEW c \in Conns, NewConnection(t, c)
      PROVE  StateReported'
  BY <1>6 DEF NewConnection, Goto, SetState, async, stats, clients, registry
<1>7. ASSUME NEW t \in Threads, PostRead(t)
      PROVE  StateReported'
  BY <1>7 DEF PostRead, Goto, StartAsync, stats, clients, registry
<1>8. ASSUME NEW t \in Threads, AddConnection(t)
      PROVE  StateReported'
  BY <1>8 DEF AddConnection, AccessRegistry, Goto, StartAsync, stats, clients
<1>9. ASSUME NEW t \in Threads, AbandonBody(t)
      PROVE  StateReported'
  BY <1>9 DEF AbandonBody, Goto, async, stats, clients, registry
<1>10. ASSUME NEW t \in Threads, BeginSnapshot(t)
      PROVE  StateReported'
  BY <1>10 DEF BeginSnapshot, Goto, async, stats, clients, registry
<1>11. ASSUME NEW t \in Threads, WriteResponse(t)
      PROVE  StateReported'
  BY <1>11 DEF WriteResponse, Goto, SetState, async, stats, clients, registry
<1>12. ASSUME NEW t \in Threads, PostWrite(t)
      PROVE  StateReported'
  BY <1>12 DEF PostWrite, Goto, StartAsync, clients, registry
<1>13. ASSUME NEW t \in Threads, LogRequest(t)
      PROVE  StateReported'
  BY <1>13 DEF LogRequest, Goto, async, clients, registry
<1>14. ASSUME NEW t \in Threads, CloseSocket(t)
      PROVE  StateReported'
  BY <1>14 DEF CloseSocket, Goto, SetState, async, stats, clients, registry
<1>15. ASSUME NEW t \in Threads, RemoveConnection(t)
      PROVE  StateReported'
  BY <1>15 DEF RemoveConnection, AccessRegistry, Goto, async, stats, clients
<1>16. ASSUME NEW t \in Threads, Branches(t)
      PROVE  StateReported'
  BY <1>16, BranchStep DEF BranchPairs
<1> QED
  BY <1>1, <1>2, <1>3, <1>4, <1>5, <1>6, <1>7, <1>8, <1>9, <1>10, <1>11, <1>12, <1>13, <1>14,
     <1>15, <1>16, NextCases

\* An owner that lets go either has started an operation, or has freed the
\* connection, or is abandoning a request whose state is PROCESSING.
LEMMA ForgottenStep ==
  ASSUME IInv, [Next]_vars
  PROVE  NotForgotten'
<1> USE NoConnAssumption DEF IInv, TypeOK, OneOwner, Owns, Writers, Readers, StateReported,
    Processing, NotForgotten, Live
<1>1. CASE Silent
  BY <1>1, SilentStep
<1>2. ASSUME NEW t \in Threads, NEW c \in Conns, HandleAccept(t, c)
      PROVE  NotForgotten'
  BY <1>2 DEF HandleAccept, Dispatch, Goto, StartAsync, SetState, stats, clients, registry
<1>3. ASSUME NEW t \in Threads, NEW c \in Conns, HandleAcceptError(t, c)
      PROVE  NotForgotten'
  BY <1>3 DEF HandleAcceptError, Dispatch, Goto, StartAsync, stats, clients, registry
<1>4. ASSUME NEW t \in Threads, NEW c \in Conns, HandleRequest(t, c)
      PROVE  NotForgotten'
  BY <1>4 DEF HandleRequest, Dispatch, Goto, StartAsync, SetState, stats, clients, registry
<1>5. ASSUME NEW t \in Threads, NEW c \in Conns, HandleWrite(t, c)
      PROVE  NotForgotten'
  BY <1>5 DEF HandleWrite, Dispatch, Goto, StartAsync, SetState, stats, clients, registry
<1>6. ASSUME NEW t \in Threads, NEW c \in Conns, NewConnection(t, c)
      PROVE  NotForgotten'
  BY <1>6 DEF NewConnection, Goto, SetState, async, stats, clients, registry
<1>7. ASSUME NEW t \in Threads, PostRead(t)
      PROVE  NotForgotten'
  BY <1>7 DEF PostRead, Goto, StartAsync, stats, clients, registry
<1>8. ASSUME NEW t \in Threads, AddConnection(t)
      PROVE  NotForgotten'
  BY <1>8 DEF AddConnection, AccessRegistry, Goto, StartAsync, stats, clients
<1>9. ASSUME NEW t \in Threads, AbandonBody(t)
      PROVE  NotForgotten'
  BY <1>9 DEF AbandonBody, Goto, async, stats, clients, registry
<1>10. ASSUME NEW t \in Threads, BeginSnapshot(t)
      PROVE  NotForgotten'
  BY <1>10 DEF BeginSnapshot, Goto, async, stats, clients, registry
<1>11. ASSUME NEW t \in Threads, WriteResponse(t)
      PROVE  NotForgotten'
  BY <1>11 DEF WriteResponse, Goto, SetState, async, stats, clients, registry
<1>12. ASSUME NEW t \in Threads, PostWrite(t)
      PROVE  NotForgotten'
  BY <1>12 DEF PostWrite, Goto, StartAsync, clients, registry
<1>13. ASSUME NEW t \in Threads, LogRequest(t)
      PROVE  NotForgotten'
  BY <1>13 DEF LogRequest, Goto, async, clients, registry
<1>14. ASSUME NEW t \in Threads, CloseSocket(t)
      PROVE  NotForgotten'
  BY <1>14 DEF CloseSocket, Goto, SetState, async, stats, clients, registry
<1>15. ASSUME NEW t \in Threads, RemoveConnection(t)
      PROVE  NotForgotten'
  BY <1>15 DEF RemoveConnection, AccessRegistry, Goto, async, stats, clients
<1>16. ASSUME NEW t \in Threads, Branches(t)
      PROVE  NotForgotten'
  BY <1>16, BranchStep DEF BranchPairs
<1> QED
  BY <1>1, <1>2, <1>3, <1>4, <1>5, <1>6, <1>7, <1>8, <1>9, <1>10, <1>11, <1>12, <1>13, <1>14,
     <1>15, <1>16, NextCases

\* After the write has begun only its completion handler works on the connection.
LEMMA AnswersStep ==
  ASSUME IInv, [Next]_vars
  PROVE  AnswersFinal'
<1> USE NoConnAssumption DEF IInv, TypeOK, OneOwner, Owns, Writers, Readers, StateReported,
    Processing, AnswersFinal
<1>1. CASE Silent
  BY <1>1, SilentStep
<1>2. ASSUME NEW t \in Threads, NEW c \in Conns, HandleAccept(t, c)
      PROVE  AnswersFinal'
  BY <1>2 DEF HandleAccept, Dispatch, Goto, StartAsync, SetState, stats, clients, registry
<1>3. ASSUME NEW t \in Threads, NEW c \in Conns, HandleAcceptError(t, c)
      PROVE  AnswersFinal'
  BY <1>3 DEF HandleAcceptError, Dispatch, Goto, StartAsync, stats, clients, registry
<1>4. ASSUME NEW t \in Threads, NEW c \in Conns, HandleRequest(t, c)
      PROVE  AnswersFinal'
  BY <1>4 DEF HandleRequest, Dispatch, Goto, StartAsync, SetState, stats, clients, registry
<1>5. ASSUME NEW t \in Threads, NEW c \in Conns, HandleWrite(t, c)
      PROVE  AnswersFinal'
  BY <1>5 DEF HandleWrite, Dispatch, Goto, StartAsync, SetState, stats, clients, registry
<1>6. ASSUME NEW t \in Threads, NEW c \in Conns, NewConnection(t, c)
      PROVE  AnswersFinal'
  BY <1>6 DEF NewConnection, Goto, SetState, async, stats, clients, registry
<1>7. ASSUME NEW t \in Threads, PostRead(t)
      PROVE  AnswersFinal'
  BY <1>7 DEF PostRead, Goto, StartAsync, stats, clients, registry
<1>8. ASSUME NEW t \in Threads, AddConnection(t)
      PROVE  AnswersFinal'
  BY <1>8 DEF AddConnection, AccessRegistry, Goto, StartAsync, stats, clients
<1>9. ASSUME NEW t \in Threads, AbandonBody(t)
      PROVE  AnswersFinal'
  BY <1>9 DEF AbandonBody, Goto, async, stats, clients, registry
<1>10. ASSUME NEW t \in Threads, BeginSnapshot(t)
      PROVE  AnswersFinal'
  BY <1>10 DEF BeginSnapshot, Goto, async, stats, clients, registry
<1>11. ASSUME NEW t \in Threads, WriteResponse(t)
      PROVE  AnswersFinal'
  BY <1>11 DEF WriteResponse, Goto, SetState, async, stats, clients, registry
<1>12. ASSUME NEW t \in Threads, PostWrite(t)
      PROVE  AnswersFinal'
  BY <1>12 DEF PostWrite, Goto, StartAsync, clients, registry
<1>13. ASSUME NEW t \in Threads, LogRequest(t)
      PROVE  AnswersFinal'
  BY <1>13 DEF LogRequest, Goto, async, clients, registry
<1>14. ASSUME NEW t \in Threads, CloseSocket(t)
      PROVE  AnswersFinal'
  BY <1>14 DEF CloseSocket, Goto, SetState, async, stats, clients, registry
<1>15. ASSUME NEW t \in Threads, RemoveConnection(t)
      PROVE  AnswersFinal'
  BY <1>15 DEF RemoveConnection, AccessRegistry, Goto, async, stats, clients
<1>16. ASSUME NEW t \in Threads, Branches(t)
      PROVE  AnswersFinal'
  BY <1>16, BranchStep DEF BranchPairs
<1> QED
  BY <1>1, <1>2, <1>3, <1>4, <1>5, <1>6, <1>7, <1>8, <1>9, <1>10, <1>11, <1>12, <1>13, <1>14,
     <1>15, <1>16, NextCases

-----------------------------------------------------------------------------

LEMMA InitIInv == Init => IInv
<1> SUFFICES ASSUME Init PROVE IInv
  OBVIOUS
<1>1. PICK first \in Conns :
        /\ mem = [c \in Conns |-> IF c = first THEN "live" ELSE "unborn"]
        /\ pending = [c \in Conns |-> IF c = first THEN "accept" ELSE "none"]
        /\ connections_ = {first}
  BY DEF Init
<1>2. /\ conn_state_ = [c \in Conns |-> "LISTENING"]
      /\ result = [c \in Conns |-> "waiting"]
      /\ bodySent = {} /\ gone = {} /\ answered = {} /\ totalRequests_ = 0
      /\ pc = [t \in Threads |-> "idle"]
      /\ cur = [t \in Threads |-> NoConn]
      /\ todo = [t \in Threads |-> {}]
      /\ registryTorn = FALSE /\ serverUp = TRUE
  BY DEF Init
<1>3. TypeOK
  BY <1>1, <1>2 DEF TypeOK, Writers, Readers
<1>4. OneOwner /\ AcceptChain
  BY <1>1, <1>2, NoConnAssumption DEF OneOwner, Owns, AcceptChain, Accepting
<1>5. StateReported /\ NotForgotten /\ AnswersFinal
  BY <1>1, <1>2, NoConnAssumption DEF StateReported, Processing, NotForgotten, Live, AnswersFinal
<1> QED
  BY <1>3, <1>4, <1>5 DEF IInv

LEMMA IInvStep == IInv /\ [Next]_vars => IInv'
BY TypeStep, OwnerStep, AcceptStep, StateStep, ForgottenStep, AnswersStep DEF IInv

\* Connections are never shared between handlers, the chain of accepts neither
\* ends nor forks, the reported states are right and no answered connection is
\* forgotten, for any number of threads and connections, although the registry
\* and freed connections are used without exclusion.
THEOREM Safety == Spec => []IInv
BY InitIInv, IInvStep, PTL DEF Spec

\* Handlers of one connection (connection.cc) never overlap, up to the last
\* statement of handle_request, which follows the posting of the write.
THEOREM HandlersExclusive == Spec => []OneOwner
<1>1. IInv => OneOwner
  BY DEF IInv
<1> QED
  BY Safety, <1>1, PTL

\* Server::start_accept is outstanding or about to be called, exactly once.
THEOREM AcceptsForever == Spec => []AcceptChain
<1>1. IInv => AcceptChain
  BY DEF IInv
<1> QED
  BY Safety, <1>1, PTL

\* GetStatus (connection.cc:180) reports of every live connection what it is
\* doing, whichever threads run its handlers.
THEOREM StatesReported == Spec => []StateReported
<1>1. IInv => StateReported
  BY DEF IInv
<1> QED
  BY Safety, <1>1, PTL

\* No connection is left without an operation or a handler, but those that the
\* code forgets by itself (server.cc:76, connection.cc:101).
THEOREM NoneForgotten == Spec => []NotForgotten
<1>1. IInv => NotForgotten
  BY DEF IInv
<1> QED
  BY Safety, <1>1, PTL

\* Every SetState is made by the owner, in the state the invariant records.
LEMMA AdvanceStep ==
  ASSUME IInv, [Next]_vars
  PROVE  \A d \in Conns : Advance(d)
<1> USE NoConnAssumption DEF IInv, TypeOK, OneOwner, Owns, Writers, Readers, StateReported,
    Processing, AnswersFinal, Advance, Forward
<1>1. CASE Silent
  BY <1>1, SilentStep
<1>2. ASSUME NEW t \in Threads, NEW c \in Conns, HandleAccept(t, c)
      PROVE  \A d \in Conns : Advance(d)
  BY <1>2 DEF HandleAccept, Dispatch, Goto, StartAsync, SetState, stats, clients, registry
<1>3. ASSUME NEW t \in Threads, NEW c \in Conns, HandleAcceptError(t, c)
      PROVE  \A d \in Conns : Advance(d)
  BY <1>3 DEF HandleAcceptError, Dispatch, Goto, StartAsync, stats, clients, registry
<1>4. ASSUME NEW t \in Threads, NEW c \in Conns, HandleRequest(t, c)
      PROVE  \A d \in Conns : Advance(d)
  BY <1>4 DEF HandleRequest, Dispatch, Goto, StartAsync, SetState, stats, clients, registry
<1>5. ASSUME NEW t \in Threads, NEW c \in Conns, HandleWrite(t, c)
      PROVE  \A d \in Conns : Advance(d)
  BY <1>5 DEF HandleWrite, Dispatch, Goto, StartAsync, SetState, stats, clients, registry
<1>6. ASSUME NEW t \in Threads, NEW c \in Conns, NewConnection(t, c)
      PROVE  \A d \in Conns : Advance(d)
  BY <1>6 DEF NewConnection, Goto, SetState, async, stats, clients, registry
<1>7. ASSUME NEW t \in Threads, PostRead(t)
      PROVE  \A d \in Conns : Advance(d)
  BY <1>7 DEF PostRead, Goto, StartAsync, stats, clients, registry
<1>8. ASSUME NEW t \in Threads, AddConnection(t)
      PROVE  \A d \in Conns : Advance(d)
  BY <1>8 DEF AddConnection, AccessRegistry, Goto, StartAsync, stats, clients
<1>9. ASSUME NEW t \in Threads, AbandonBody(t)
      PROVE  \A d \in Conns : Advance(d)
  BY <1>9 DEF AbandonBody, Goto, async, stats, clients, registry
<1>10. ASSUME NEW t \in Threads, BeginSnapshot(t)
      PROVE  \A d \in Conns : Advance(d)
  BY <1>10 DEF BeginSnapshot, Goto, async, stats, clients, registry
<1>11. ASSUME NEW t \in Threads, WriteResponse(t)
      PROVE  \A d \in Conns : Advance(d)
  BY <1>11 DEF WriteResponse, Goto, SetState, async, stats, clients, registry
<1>12. ASSUME NEW t \in Threads, PostWrite(t)
      PROVE  \A d \in Conns : Advance(d)
  BY <1>12 DEF PostWrite, Goto, StartAsync, clients, registry
<1>13. ASSUME NEW t \in Threads, LogRequest(t)
      PROVE  \A d \in Conns : Advance(d)
  BY <1>13 DEF LogRequest, Goto, async, clients, registry
<1>14. ASSUME NEW t \in Threads, CloseSocket(t)
      PROVE  \A d \in Conns : Advance(d)
  BY <1>14 DEF CloseSocket, Goto, SetState, async, stats, clients, registry
<1>15. ASSUME NEW t \in Threads, RemoveConnection(t)
      PROVE  \A d \in Conns : Advance(d)
  BY <1>15 DEF RemoveConnection, AccessRegistry, Goto, async, stats, clients
<1>16. ASSUME NEW t \in Threads, Branches(t)
      PROVE  \A d \in Conns : Advance(d)
  BY <1>16, BranchStep DEF BranchPairs
<1> QED
  BY <1>1, <1>2, <1>3, <1>4, <1>5, <1>6, <1>7, <1>8, <1>9, <1>10, <1>11, <1>12, <1>13, <1>14,
     <1>15, <1>16, NextCases

\* A Connection (connection.cc) never goes back to an earlier state, is never
\* used for an operation after its deletion, and answers once.
THEOREM Advances == Spec => StateAdvances
<1>1. IInv /\ [Next]_vars => [\A c \in Conns : Advance(c)]_vars
  BY AdvanceStep
<1> QED
  BY Safety, <1>1, PTL DEF Spec, StateAdvances

-----------------------------------------------------------------------------
\* One thread.

OneThread == \A s, t \in Threads : s = t

\* What one thread adds to the invariant.
Alone ==
  /\ ~registryTorn
  /\ RegistryExact
  /\ NoDanglingUse
  /\ \A t \in Threads : pc[t] # "iterate" => todo[t] = {}

LEMMA AloneInit == Init => Alone
<1> SUFFICES ASSUME Init PROVE Alone
  OBVIOUS
<1>1. PICK first \in Conns :
        /\ mem = [c \in Conns |-> IF c = first THEN "live" ELSE "unborn"]
        /\ connections_ = {first}
  BY DEF Init
<1>2. /\ pc = [t \in Threads |-> "idle"]
      /\ todo = [t \in Threads |-> {}]
      /\ registryTorn = FALSE
  BY DEF Init
<1> QED
  BY <1>1, <1>2 DEF Alone, RegistryExact, NoDanglingUse, Live

\* With one thread no access to connections_ is contended, and between the posting
\* of a write and the end of handle_request nothing else runs.
LEMMA AloneStep ==
  ASSUME IInv, Alone, OneThread, [Next]_vars
  PROVE  Alone'
<1> USE NoConnAssumption DEF IInv, TypeOK, OneOwner, Owns, Writers, Readers, OneThread, Alone,
    RegistryExact, NoDanglingUse, Live, Contended, Torn
<1>1. CASE Silent
  <2>1. ASSUME NEW c \in Conns,
               AcceptCompletes(c) \/ ReadCompletes(c) \/ WriteCompletes(c)
               \/ SendBody(c) \/ Disconnect(c)
        PROVE  Alone'
    BY <2>1 DEF AcceptCompletes, ReadCompletes, WriteCompletes, Complete, SendBody,
                Disconnect, Client, clients, async, thread, registry, stats
  <2>2. ASSUME NEW t \in Threads,
               \/ BadContentLength(t) \/ FindThrows(t) \/ RemoteBreaks(t)
               \/ CrashInRegistry(t) \/ CrashInGetStatus(t) \/ CrashInLogRequest(t)
        PROVE  Alone'
    <3>1. Terminate
      BY <2>2 DEF BadContentLength, FindThrows, RemoteBreaks, CrashInRegistry, CrashInGetStatus,
                  CrashInLogRequest
    <3> QED
      BY <3>1 DEF Terminate, async, clients, thread, registry, stats
  <2>3. ASSUME NEW t \in Threads, NEW c \in Conns, GetStatus(t, c)
        PROVE  Alone'
    BY <2>3 DEF GetStatus, AccessRegistry, async, clients, stats
  <2>4. CASE Stopped \/ UNCHANGED vars
    BY <2>4 DEF Stopped, vars, async, clients, thread, registry, stats
  <2> QED
    BY <1>1, <2>1, <2>2, <2>3, <2>4 DEF Silent
<1>2. ASSUME NEW t \in Threads, NEW c \in Conns, HandleAccept(t, c)
      PROVE  Alone'
  BY <1>2 DEF HandleAccept, Dispatch, Goto, StartAsync, SetState, stats, clients, registry
<1>3. ASSUME NEW t \in Threads, NEW c \in Conns, HandleAcceptError(t, c)
      PROVE  Alone'
  BY <1>3 DEF HandleAcceptError, Dispatch, Goto, StartAsync, stats, clients, registry
<1>4. ASSUME NEW t \in Threads, NEW c \in Conns, HandleRequest(t, c)
      PROVE  Alone'
  BY <1>4 DEF HandleRequest, Dispatch, Goto, StartAsync, SetState, stats, clients, registry
<1>5. ASSUME NEW t \in Threads, NEW c \in Conns, HandleWrite(t, c)
      PROVE  Alone'
  BY <1>5 DEF HandleWrite, Dispatch, Goto, StartAsync, SetState, stats, clients, registry
<1>6. ASSUME NEW t \in Threads, NEW c \in Conns, NewConnection(t, c)
      PROVE  Alone'
  BY <1>6 DEF NewConnection, Goto, SetState, async, stats, clients, registry
<1>7. ASSUME NEW t \in Threads, PostRead(t)
      PROVE  Alone'
  BY <1>7 DEF PostRead, Goto, StartAsync, stats, clients, registry
<1>8. ASSUME NEW t \in Threads, AddConnection(t)
      PROVE  Alone'
  BY <1>8 DEF AddConnection, AccessRegistry, Goto, StartAsync, stats, clients
<1>9. ASSUME NEW t \in Threads, AbandonBody(t)
      PROVE  Alone'
  BY <1>9 DEF AbandonBody, Goto, async, stats, clients, registry
<1>10. ASSUME NEW t \in Threads, BeginSnapshot(t)
      PROVE  Alone'
  BY <1>10 DEF BeginSnapshot, Goto, async, stats, clients, registry
<1>11. ASSUME NEW t \in Threads, WriteResponse(t)
      PROVE  Alone'
  BY <1>11 DEF WriteResponse, Goto, SetState, async, stats, clients, registry
<1>12. ASSUME NEW t \in Threads, PostWrite(t)
      PROVE  Alone'
  BY <1>12 DEF PostWrite, Goto, StartAsync, clients, registry
<1>13. ASSUME NEW t \in Threads, LogRequest(t)
      PROVE  Alone'
  BY <1>13 DEF LogRequest, Goto, async, clients, registry
<1>14. ASSUME NEW t \in Threads, CloseSocket(t)
      PROVE  Alone'
  BY <1>14 DEF CloseSocket, Goto, SetState, async, stats, clients, registry
<1>15. ASSUME NEW t \in Threads, RemoveConnection(t)
      PROVE  Alone'
  BY <1>15 DEF RemoveConnection, AccessRegistry, Goto, async, stats, clients
<1>16. ASSUME NEW t \in Threads, Branches(t)
      PROVE  Alone'
  <2>1. UNCHANGED <<mem, conn_state_, async, clients, cur, todo, registry, stats, serverUp>>
    BY <1>16 DEF Branches, RejectRequest, ExpectBody, RouteRequest, ReadBody, RunHandler,
                 VisitOutsideServer, RemoteAnswers, EndSnapshot, Branch
  <2>2. EndSnapshot(t) => todo[t] = {}
    BY DEF EndSnapshot
  <2>3. pc[t] = "iterate" => EndSnapshot(t)
    BY <1>16 DEF Branches, RejectRequest, ExpectBody, RouteRequest, ReadBody, RunHandler,
                 VisitOutsideServer, RemoteAnswers, EndSnapshot, Branch, Goto
  <2> QED
    BY <1>16, <2>1, <2>2, <2>3, BranchStep DEF BranchPairs, async, clients, registry, stats
<1> QED
  BY <1>1, <1>2, <1>3, <1>4, <1>5, <1>6, <1>7, <1>8, <1>9, <1>10, <1>11, <1>12, <1>13, <1>14,
     <1>15, <1>16, NextCases

\* What SingleThread and RegistrySound share.
LEMMA AloneInvariance ==
  ASSUME OneThread
  PROVE  Spec => []Alone
<1>1. IInv /\ Alone /\ [Next]_vars => Alone'
  BY OneThread, AloneStep
<1> QED
  BY AloneInit, Safety, <1>1, PTL DEF Spec

\* With one thread, the default of main.cc, connection.cc is safe: no handler
\* and no status page ever uses a deleted Connection.  With two threads it is
\* not.
THEOREM SingleThread ==
  ASSUME OneThread
  PROVE  Spec => []NoDanglingUse
<1>1. Alone => NoDanglingUse
  BY DEF Alone
<1> QED
  BY AloneInvariance, <1>1, PTL

\* And connections_ (server.cc:204-211) holds the live connections exactly.
THEOREM RegistrySound ==
  ASSUME OneThread
  PROVE  Spec => []RegistryExact
<1>1. Alone => RegistryExact
  BY DEF Alone
<1> QED
  BY AloneInvariance, <1>1, PTL

-----------------------------------------------------------------------------
\* Responses and their count, with one thread.

Logging == {t \in Threads : pc[t] = "log"}

\* Only handle_request, at its end, writes the count, and only for a response it
\* has posted.
LEMMA CountChanges ==
  ASSUME TypeOK, [Next]_vars
  PROVE  \/ UNCHANGED <<answered, totalRequests_, Logging>>
         \/ \E t \in Threads : PostWrite(t) \/ LogRequest(t)
<1> USE DEF TypeOK, Logging, Writers, Readers
<1>1. CASE Silent
  BY <1>1 DEF Silent, AcceptCompletes, ReadCompletes, WriteCompletes, Complete, SendBody,
       Disconnect, Client, BadContentLength, FindThrows, RemoteBreaks, CrashInRegistry,
       CrashInGetStatus, CrashInLogRequest, Terminate, GetStatus, Stopped, vars, thread, stats
<1>2. ASSUME NEW t \in Threads, NEW c \in Conns,
             HandleAccept(t, c) \/ HandleAcceptError(t, c) \/ HandleRequest(t, c)
             \/ HandleWrite(t, c) \/ NewConnection(t, c)
      PROVE  UNCHANGED <<answered, totalRequests_, Logging>>
  BY <1>2 DEF HandleAccept, HandleAcceptError, HandleRequest, HandleWrite, NewConnection,
              Dispatch, Goto, stats
<1>3. ASSUME NEW t \in Threads,
             PostRead(t) \/ AddConnection(t) \/ AbandonBody(t) \/ BeginSnapshot(t)
             \/ WriteResponse(t) \/ CloseSocket(t) \/ RemoveConnection(t)
      PROVE  UNCHANGED <<answered, totalRequests_, Logging>>
  BY <1>3 DEF PostRead, AddConnection, AbandonBody, BeginSnapshot, WriteResponse, CloseSocket,
              RemoveConnection, Goto, stats
<1>4. ASSUME NEW t \in Threads, Branches(t)
      PROVE  UNCHANGED <<answered, totalRequests_, Logging>>
  BY <1>4 DEF Branches, RejectRequest, ExpectBody, RouteRequest, ReadBody, RunHandler,
              VisitOutsideServer, RemoteAnswers, EndSnapshot, Branch, Goto, stats
<1> QED
  BY <1>1, <1>2, <1>3, <1>4, NextCases

\* A response is posted once, because an answered connection has no handler but
\* the one that deletes it; and what is posted is logged, because the connection
\* is still there.
LEMMA CountStep ==
  ASSUME IInv, Alone, OneThread, CountedExactly, IsFiniteSet(answered), [Next]_vars
  PROVE  (CountedExactly /\ IsFiniteSet(answered))'
<1>1. Cardinality(answered) \in Nat /\ totalRequests_ \in Nat
  BY FS_CardinalityType DEF IInv, TypeOK
<1>2. CASE UNCHANGED <<answered, totalRequests_, Logging>>
  BY <1>2 DEF CountedExactly, Logging
<1>3. ASSUME NEW t \in Threads, PostWrite(t)
      PROVE  (CountedExactly /\ IsFiniteSet(answered))'
  <2>1. /\ answered' = answered \cup {cur[t]}
        /\ UNCHANGED totalRequests_
        /\ pc[t] = "send" /\ pc' = [pc EXCEPT ![t] = "log"]
    BY <1>3 DEF PostWrite, Goto
  <2>2. cur[t] \notin answered
    BY <2>1 DEF IInv, AnswersFinal, Owns, TypeOK
  <2>3. Logging = {} /\ Logging' = {t}
    BY <2>1 DEF Logging, OneThread, IInv, TypeOK
  <2>4. /\ Cardinality(answered') = Cardinality(answered) + 1
        /\ IsFiniteSet(answered')
    BY <2>1, <2>2, FS_AddElement
  <2>5. Cardinality(Logging) = 0 /\ Cardinality(Logging') = 1
    BY <2>3, FS_EmptySet, FS_Singleton
  <2> QED
    BY <1>1, <2>1, <2>4, <2>5 DEF CountedExactly, Logging
<1>4. ASSUME NEW t \in Threads, LogRequest(t)
      PROVE  (CountedExactly /\ IsFiniteSet(answered))'
  <2>1. /\ UNCHANGED answered
        /\ pc[t] = "log" /\ pc' = [pc EXCEPT ![t] = "idle"]
    BY <1>4 DEF LogRequest, Goto
  <2>2. totalRequests_' = totalRequests_ + 1
    BY <1>4, <2>1 DEF LogRequest, Alone, NoDanglingUse
  <2>3. Logging = {t} /\ Logging' = {}
    BY <2>1 DEF Logging, OneThread, IInv, TypeOK
  <2>4. Cardinality(Logging) = 1 /\ Cardinality(Logging') = 0
    BY <2>3, FS_EmptySet, FS_Singleton
  <2> QED
    BY <1>1, <2>1, <2>2, <2>4 DEF CountedExactly, Logging
<1> QED
  BY <1>2, <1>3, <1>4, CountChanges DEF IInv

\* With one thread every response that connection.cc writes is counted by
\* LogRequest (server.cc:216), whatever the number of connections.
THEOREM Counted ==
  ASSUME OneThread
  PROVE  Spec => []CountedExactly
<1>1. Init => CountedExactly /\ IsFiniteSet(answered)
  <2>1. Init => answered = {} /\ totalRequests_ = 0 /\ {t \in Threads : pc[t] = "log"} = {}
    BY DEF Init
  <2> QED
    BY <2>1, FS_EmptySet DEF CountedExactly
<1>2. IInv /\ Alone /\ (CountedExactly /\ IsFiniteSet(answered)) /\ [Next]_vars
        => (CountedExactly /\ IsFiniteSet(answered))'
  BY OneThread, CountStep
<1> QED
  BY Safety, AloneInvariance, <1>1, <1>2, PTL DEF Spec
=============================================================================
