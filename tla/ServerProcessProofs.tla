-------------------------- MODULE ServerProcessProofs --------------------------
(***************************************************************************)
(* Theorems about ServerProcess, for every number of connections,          *)
(* processes and descriptors.                                              *)
(***************************************************************************)
EXTENDS ServerProcess, FiniteSetTheorems, TLAPS

\* What the accepting of connections depends on.
AcceptTypes ==
  /\ backlog \in Seq(Connections)
  /\ DOMAIN connection = Connections
  /\ DOMAIN pc = Processes
  /\ client \in [Processes -> Connections \cup {NoConnection}]
  /\ DOMAIN servers = Connections

Pending(c) == \E i \in DOMAIN backlog : backlog[i] = c

\* Process p has accepted connection c and not yet forked.
Holds(p, c) == pc[p] = "fork" /\ client[p] = c

\* A connection that has not been opened is nowhere.
IdleIsNowhere ==
  \A c \in Connections : connection[c] = "idle" =>
    /\ ~Pending(c) /\ servers[c] = {}
    /\ \A p \in Processes : ~Holds(p, c)

\* The kernel queues a connection once, and hands it to one process.
QueuedOnce ==
  \A i, j \in DOMAIN backlog : backlog[i] = backlog[j] => i = j

PendingIsNotHeld ==
  \A c \in Connections : Pending(c) =>
    servers[c] = {} /\ \A p \in Processes : ~Holds(p, c)

HeldByOne ==
  \A c \in Connections : \A p, q \in Processes :
    Holds(p, c) => servers[c] = {} /\ (Holds(q, c) => p = q)

\* The forked child is the only one to serve.
OneServer ==
  \A c \in Connections : \A p, q \in servers[c] : p = q

IInv ==
  AcceptTypes /\ IdleIsNowhere /\ QueuedOnce /\ PendingIsNotHeld /\ HeldByOne
  /\ OneServer

-------------------------------------------------------------------------------
\* The first process starts to accept; no connection is open.
LEMMA InitEstablishes == Init => IInv
  BY DEF Init, IInv, AcceptTypes, IdleIsNowhere, QueuedOnce, PendingIsNotHeld,
     HeldByOne, OneServer, Pending, Holds, main, Processes

\* A step that leaves the queue and the servers alone, opens no connection anew
\* and lets no process hold another connection.
HoldsNoMore ==
  /\ UNCHANGED <<backlog, servers>>
  /\ DOMAIN connection' = Connections /\ DOMAIN pc' = Processes
  /\ client' \in [Processes -> Connections \cup {NoConnection}]
  /\ \A c \in Connections : connection'[c] = "idle" => connection[c] = "idle"
  /\ \A p \in Processes : \A c \in Connections : Holds(p, c)' => Holds(p, c)

\* Such a step keeps the invariant.
LEMMA HoldsNoMoreKeeps ==
  ASSUME IInv, HoldsNoMore
  PROVE  IInv'
  <1>1. \A c : Pending(c)' = Pending(c)
    BY DEF HoldsNoMore, Pending
  <1>2. AcceptTypes' /\ QueuedOnce' /\ OneServer'
    BY DEF IInv, HoldsNoMore, AcceptTypes, QueuedOnce, OneServer
  <1>3. IdleIsNowhere'
    BY <1>1 DEF IInv, HoldsNoMore, IdleIsNowhere
  <1>4. PendingIsNotHeld'
    BY <1>1 DEF IInv, HoldsNoMore, PendingIsNotHeld
  <1>5. HeldByOne'
    BY DEF IInv, HoldsNoMore, HeldByOne
  <1> QED BY <1>2, <1>3, <1>4, <1>5 DEF IInv

\* A connection that was idle joins the queue.
LEMMA ConnectKeeps ==
  ASSUME IInv, NEW d \in Connections, Connect(d)
  PROVE  IInv'
  <1>1. backlog \in Seq(Connections) /\ DOMAIN connection = Connections
    BY DEF IInv, AcceptTypes
  <1>2. /\ DOMAIN backlog' = 1 .. Len(backlog) + 1
        /\ DOMAIN backlog = 1 .. Len(backlog) /\ Len(backlog) \in Nat
        /\ \A i \in DOMAIN backlog : backlog'[i] = backlog[i]
        /\ backlog'[Len(backlog) + 1] = d
        /\ backlog' \in Seq(Connections)
    BY <1>1 DEF Connect
  <1>3. /\ \A c \in Connections : connection'[c] = "idle" =>
             connection[c] = "idle" /\ c # d
        /\ connection[d] = "idle" /\ ~Pending(d) /\ servers[d] = {}
        /\ \A p \in Processes : ~Holds(p, d)
    BY <1>1 DEF Connect, IInv, IdleIsNowhere
  <1>4. \A c \in Connections : Pending(c)' => Pending(c) \/ c = d
    BY <1>2 DEF Pending
  <1>5. \A p \in Processes : \A c \in Connections : Holds(p, c)' = Holds(p, c)
    BY DEF Connect, Holds
  <1>6. AcceptTypes' /\ OneServer'
    BY <1>2 DEF IInv, AcceptTypes, OneServer, Connect, historyVars
  <1>7. QueuedOnce'
    BY <1>2, <1>3 DEF IInv, QueuedOnce, Pending
  <1>8. IdleIsNowhere'
    BY <1>3, <1>4, <1>5 DEF IInv, IdleIsNowhere, Connect, historyVars
  <1>9. PendingIsNotHeld'
    BY <1>3, <1>4, <1>5 DEF IInv, PendingIsNotHeld, Connect, historyVars
  <1>10. HeldByOne'
    BY <1>5 DEF IInv, HeldByOne, Connect, historyVars
  <1> QED BY <1>6, <1>7, <1>8, <1>9, <1>10 DEF IInv

\* The first connection of the queue goes to the process that accepts.
LEMMA AcceptKeeps ==
  ASSUME IInv, NEW r \in Processes, Accept(r)
  PROVE  IInv'
  <1> DEFINE d == Head(backlog)
  <1>1. backlog \in Seq(Connections) /\ backlog # <<>> /\ backlog' = Tail(backlog)
    BY DEF IInv, AcceptTypes, Accept
  <1>2. /\ DOMAIN backlog' = 1 .. Len(backlog) - 1
        /\ DOMAIN backlog = 1 .. Len(backlog) /\ Len(backlog) \in Nat \ {0}
        /\ \A i \in DOMAIN backlog' : backlog'[i] = backlog[i + 1]
        /\ backlog[1] = d /\ d \in Connections
        /\ backlog' \in Seq(Connections)
    BY <1>1
  <1>3. Pending(d) /\ servers[d] = {} /\ \A p \in Processes : ~Holds(p, d)
    BY <1>2 DEF IInv, PendingIsNotHeld, Pending
  <1>4. \A c \in Connections : Pending(c)' => Pending(c) /\ c # d
    BY <1>2 DEF IInv, QueuedOnce, Pending
  <1>5. \A p \in Processes : \A c \in Connections :
          Holds(p, c)' => Holds(p, c) \/ (p = r /\ c = d)
    BY DEF IInv, AcceptTypes, Accept, Holds
  <1>6. AcceptTypes' /\ OneServer'
    BY <1>2 DEF IInv, AcceptTypes, OneServer, Accept, historyVars
  <1>7. QueuedOnce'
    BY <1>2 DEF IInv, QueuedOnce
  <1> HIDE DEF d
  <1>8. IdleIsNowhere'
    BY <1>2, <1>3, <1>4, <1>5 DEF IInv, IdleIsNowhere, Accept, historyVars
  <1>9. PendingIsNotHeld'
    BY <1>4, <1>5 DEF IInv, PendingIsNotHeld, Accept, historyVars
  <1>10. HeldByOne'
    BY <1>3, <1>5 DEF IInv, HeldByOne, Accept, historyVars
  <1> QED BY <1>6, <1>7, <1>8, <1>9, <1>10 DEF IInv

\* The child of the process that holds a connection becomes its server.
LEMMA ForkKeeps ==
  ASSUME IInv, NEW r \in Processes, NEW s \in Processes, Fork(r, s)
  PROVE  IInv'
  <1> DEFINE d == client[r]
  <1>1. Holds(r, d) /\ d \in Connections \cup {NoConnection} /\ r # s
    BY DEF Fork, NextProcess, Holds, IInv, AcceptTypes
  <1>2. /\ UNCHANGED <<backlog, connection>>
        /\ \A c : Pending(c)' = Pending(c)
    BY DEF Fork, kernelVars, Pending
  <1>3. \A p \in Processes : \A c \in Connections :
          Holds(p, c)' => Holds(p, c) /\ p # r
    BY DEF IInv, AcceptTypes, Fork, Holds
  <1>4. /\ DOMAIN servers' = Connections
        /\ \A c \in Connections : servers'[c] = servers[c] \/ c = d
        /\ d \in Connections => servers'[d] = servers[d] \cup {s}
    BY <1>1 DEF IInv, AcceptTypes, Fork, Serves, NoConnection, Connections
  <1>5. d \in Connections =>
          /\ servers[d] = {} /\ ~Pending(d) /\ connection[d] # "idle"
          /\ \A p \in Processes : Holds(p, d) => p = r
    BY <1>1 DEF IInv, HeldByOne, PendingIsNotHeld, IdleIsNowhere
  <1>6. AcceptTypes'
    BY <1>1, <1>2, <1>4 DEF IInv, AcceptTypes, Fork
  <1> HIDE DEF d
  <1>7. OneServer'
    BY <1>4, <1>5 DEF IInv, OneServer
  <1>8. QueuedOnce'
    BY <1>2 DEF IInv, QueuedOnce
  <1>9. IdleIsNowhere'
    BY <1>2, <1>3, <1>4, <1>5 DEF IInv, IdleIsNowhere
  <1>10. PendingIsNotHeld'
    BY <1>2, <1>3, <1>4, <1>5 DEF IInv, PendingIsNotHeld
  <1>11. HeldByOne'
    BY <1>3, <1>4, <1>5 DEF IInv, HeldByOne
  <1> QED BY <1>6, <1>7, <1>8, <1>9, <1>10, <1>11 DEF IInv

\* All other steps hold no connection that was not held.
LEMMA OtherStepsHoldNoMore ==
  ASSUME IInv, NEW p \in Processes,
         AcceptFails(p) \/ ForkFails(p) \/ Serve(p)
  PROVE  HoldsNoMore
  <1> USE DEF IInv, AcceptTypes, HoldsNoMore, Holds, kernelVars, historyVars
  <1>1. CASE AcceptFails(p)
    BY <1>1 DEF AcceptFails, NoConnection, Connections
  <1>2. CASE ForkFails(p)
    BY <1>2 DEF ForkFails
  <1>3. CASE HandleRequest(p)
    BY <1>3 DEF HandleRequest
  <1>4. CASE ReceiverEnds(p)
    BY <1>4 DEF ReceiverEnds
  <1>5. CASE TransmitterEnds(p)
    BY <1>5 DEF TransmitterEnds
  <1>6. CASE Returns(p)
    BY <1>6 DEF Returns
  <1>7. CASE Exits(p)
    BY <1>7 DEF Exits
  <1> QED BY <1>1, <1>2, <1>3, <1>4, <1>5, <1>6, <1>7 DEF Serve

\* Every step keeps the invariant.
LEMMA NextKeeps == IInv /\ [Next]_vars => IInv'
  <1> SUFFICES ASSUME IInv, [Next]_vars PROVE IInv'
    OBVIOUS
  <1>1. CASE UNCHANGED vars
    <2>1. HoldsNoMore
      BY <1>1 DEF vars, kernelVars, historyVars, HoldsNoMore, Holds, IInv, AcceptTypes
    <2> QED BY <2>1, HoldsNoMoreKeeps
  <1>2. ASSUME NEW c \in Connections, PeerResets(c) PROVE IInv'
    <2>1. HoldsNoMore
      BY <1>2 DEF PeerResets, historyVars, HoldsNoMore, Holds, IInv, AcceptTypes
    <2> QED BY <2>1, HoldsNoMoreKeeps
  <1>3. ASSUME NEW p \in Processes, Loop(p) \/ Serve(p) PROVE IInv'
    BY <1>3, AcceptKeeps, ForkKeeps, OtherStepsHoldNoMore, HoldsNoMoreKeeps DEF Loop
  <1> QED BY <1>1, <1>2, <1>3, ConnectKeeps DEF Next

\* IInv is an invariant.
THEOREM Invariance == Spec => []IInv
  BY InitEstablishes, NextKeeps, PTL DEF Spec

\* The threads of at most one process read from and write to a connection, however
\* many processes accept and fork.
THEOREM OneProcessServes == Spec => []ServedByOneProcess
  <1>1. IInv => ServedByOneProcess
    <2> SUFFICES ASSUME IInv, NEW c \in Connections
                 PROVE  Cardinality(servers[c]) <= 1
      BY DEF ServedByOneProcess
    <2>1. servers[c] = {} \/ \E q : servers[c] = {q}
      BY DEF IInv, OneServer
    <2>2. Cardinality(servers[c]) \in {0, 1}
      BY <2>1, FS_EmptySet, FS_Singleton, Zenon
    <2> QED BY <2>2
  <1> QED BY <1>1, Invariance, PTL

-------------------------------------------------------------------------------
\* What the global sessions depend on.
SessionTypes ==
  /\ session \in [Processes -> SUBSET Connections]
  /\ descriptors \in [Processes -> SUBSET Connections]
  /\ DOMAIN pc = Processes /\ DOMAIN client = Processes
  /\ DOMAIN servers = Connections

\* Who serves a connection is recorded as its server.
ServingIsRecorded ==
  \A p \in Processes : pc[p] = "serve" /\ client[p] \in Connections =>
    p \in servers[client[p]]

\* Only a served connection logs in.
LoggedInWasServed ==
  \A p \in Processes : \A c \in session[p] : servers[c] # {}

\* The connections in a session are over, but for the one that is being served.
SessionIsOver ==
  \A p \in Processes : pc[p] # "none" =>
    \A c \in session[p] :
      servers[c] \subseteq returned \/ (pc[p] \in {"serve", "exited"} /\ client[p] = c)

SInv == SessionTypes /\ ServingIsRecorded /\ LoggedInWasServed /\ SessionIsOver

\* At first the sessions are empty.
LEMMA SessionInit == Init => SInv
  BY DEF Init, SInv, SessionTypes, ServingIsRecorded, LoggedInWasServed,
     SessionIsOver, main, Processes

\* The child has the session of its parent, in which all connections are over; the
\* connection it serves is in no session yet.
LEMMA SessionFork ==
  ASSUME IInv, SInv, NEW r \in Processes, NEW s \in Processes, Fork(r, s)
  PROVE  SInv'
  <1> DEFINE d == client[r]
  <1>1. /\ pc[r] = "fork" /\ pc[s] = "none" /\ r # s
        /\ pc' = [pc EXCEPT ![r] = "accept", ![s] = "serve"]
        /\ client' = [client EXCEPT ![s] = d]
        /\ session' = [session EXCEPT ![s] = session[r]]
        /\ descriptors' = [descriptors EXCEPT ![s] = descriptors[r]]
        /\ returned' = returned
    BY DEF Fork, NextProcess
  <1>2. /\ DOMAIN servers' = Connections
        /\ \A c \in Connections : servers'[c] = servers[c] \/ c = d
        /\ d \in Connections => servers'[d] = servers[d] \cup {s}
    BY DEF IInv, AcceptTypes, Fork, Serves, NoConnection, Connections
  <1>3. d \in Connections => servers[d] = {}
    BY <1>1 DEF IInv, HeldByOne, Holds
  <1> HIDE DEF d
  <1>4. \A p \in Processes : \A c \in session[p] : c \in Connections /\ c # d
    BY <1>3 DEF SInv, SessionTypes, LoggedInWasServed
  <1>5. SessionTypes'
    BY <1>1, <1>2 DEF SInv, SessionTypes
  <1>6. \A p \in Processes : \A c \in session'[p] :
          c \in Connections /\ c # d /\ servers'[c] = servers[c]
    BY <1>1, <1>2, <1>4 DEF SInv, SessionTypes
  <1>7. ServingIsRecorded'
    BY <1>1, <1>2 DEF SInv, SessionTypes, ServingIsRecorded
  <1>8. LoggedInWasServed'
    BY <1>1, <1>6 DEF SInv, SessionTypes, LoggedInWasServed
  <1>9. SessionIsOver'
    BY <1>1, <1>6 DEF SInv, SessionTypes, SessionIsOver
  <1> QED BY <1>5, <1>7, <1>8, <1>9 DEF SInv

\* A process that returns has served its connection alone.
LEMMA SessionReturns ==
  ASSUME IInv, SInv, NEW p \in Processes, Returns(p)
  PROVE  SInv'
  <1>1. client[p] \in Connections => servers[client[p]] = {p}
    BY DEF Returns, IInv, OneServer, SInv, ServingIsRecorded
  <1>2. SessionTypes' /\ ServingIsRecorded' /\ LoggedInWasServed'
    BY DEF Returns, memoryVars, SInv, SessionTypes, ServingIsRecorded,
           LoggedInWasServed
  <1>3. SessionIsOver'
    BY <1>1 DEF Returns, memoryVars, SInv, SessionTypes, SessionIsOver
  <1> QED BY <1>2, <1>3 DEF SInv

\* Handlers add the connection that their process serves.
LEMMA SessionHandles ==
  ASSUME SInv, NEW p \in Processes, HandleRequest(p)
  PROVE  SInv'
  <1> USE DEF HandleRequest, Reads, historyVars, SInv, SessionTypes
  <1>1. SessionTypes' /\ ServingIsRecorded'
    BY DEF ServingIsRecorded
  <1>2. LoggedInWasServed'
    BY DEF LoggedInWasServed, ServingIsRecorded
  <1>3. SessionIsOver'
    BY DEF SessionIsOver
  <1> QED BY <1>1, <1>2, <1>3

\* Every step keeps the invariant of the sessions.
LEMMA SessionNext == IInv /\ SInv /\ [Next]_vars => SInv'
  <1> SUFFICES ASSUME IInv, SInv, [Next]_vars PROVE SInv'
    OBVIOUS
  <1> USE DEF SInv, SessionTypes, ServingIsRecorded, LoggedInWasServed, SessionIsOver,
              kernelVars, memoryVars, historyVars
  <1>1. CASE UNCHANGED vars
    BY <1>1 DEF vars
  <1>2. ASSUME NEW c \in Connections, Connect(c) \/ PeerResets(c) PROVE SInv'
    BY <1>2 DEF Connect, PeerResets
  <1>3. ASSUME NEW p \in Processes, Loop(p) PROVE SInv'
    <2>1. CASE Accept(p)
      <3>1. Head(backlog) \in Connections
        BY <2>1 DEF Accept, IInv, AcceptTypes
      <3> QED BY <2>1, <3>1 DEF Accept
    <2>2. CASE AcceptFails(p) \/ ForkFails(p)
      BY <2>2 DEF AcceptFails, ForkFails
    <2> QED BY <1>3, <2>1, <2>2, SessionFork DEF Loop
  <1>4. ASSUME NEW p \in Processes, Serve(p) PROVE SInv'
    <2>1. CASE ReceiverEnds(p) \/ TransmitterEnds(p)
      BY <2>1 DEF ReceiverEnds, TransmitterEnds, CloseClient
    <2>2. CASE Exits(p)
      BY <2>2 DEF Exits
    <2> QED BY <1>4, <2>1, <2>2, SessionReturns, SessionHandles DEF Serve
  <1> QED BY <1>1, <1>2, <1>3, <1>4 DEF Next

\* A process serves with a session that other connections logged in to only after
\* the processes of those connections came back to the loop of main().
THEOREM ForeignSessions == Spec => []ForeignSessionOnlyAfterReturn
  <1>1. SInv => ForeignSessionOnlyAfterReturn
    BY DEF SInv, SessionIsOver, ForeignSessionOnlyAfterReturn
  <1> QED BY <1>1, SessionInit, SessionNext, Invariance, PTL DEF Spec

-------------------------------------------------------------------------------
\* The initial values have their types.
LEMMA TypeInit == Init => TypeOK
  BY DEF Init, TypeOK, main, Processes

\* The loop of main() keeps the types.
LEMMA TypeLoop ==
  ASSUME TypeOK, NEW p \in Processes, Loop(p)
  PROVE  TypeOK'
  <1> USE DEF TypeOK, kernelVars, memoryVars, threadVars, historyVars
  <1>1. CASE Accept(p)
    <2>1. Head(backlog) \in Connections /\ Tail(backlog) \in Seq(Connections)
      BY <1>1 DEF Accept
    <2> QED BY <1>1, <2>1 DEF Accept
  <1>2. CASE AcceptFails(p)
    BY <1>2 DEF AcceptFails
  <1>3. ASSUME NEW q \in Processes, Fork(p, q) PROVE TypeOK'
    <2>1. client[p] \in Connections \cup {NoConnection}
      OBVIOUS
    <2>2. servers' \in [Connections -> SUBSET Processes]
      BY <1>3, <2>1 DEF Fork, Serves
    <2>3. /\ receiver' \in [Processes -> {"off", "run", "end"}]
          /\ transmitter' \in [Processes -> {"off", "run", "end"}]
          /\ answered' \in [Processes -> BOOLEAN]
      BY <1>3 DEF Fork, Serves
    <2> QED BY <1>3, <2>2, <2>3 DEF Fork
  <1>4. CASE ForkFails(p)
    BY <1>4 DEF ForkFails
  <1> QED BY <1>1, <1>2, <1>3, <1>4 DEF Loop

\* The threads keep the types.
LEMMA TypeServe ==
  ASSUME TypeOK, NEW p \in Processes, Serve(p)
  PROVE  TypeOK'
  <1> USE DEF TypeOK, kernelVars, memoryVars, threadVars, historyVars
  <1>1. CASE HandleRequest(p)
    <2>1. client[p] \in Connections
      BY <1>1 DEF HandleRequest
    <2>2. session' \in [Processes -> SUBSET Connections]
      BY <1>1, <2>1 DEF HandleRequest
    <2> QED BY <1>1, <2>2 DEF HandleRequest
  <1>2. CASE ReceiverEnds(p) \/ TransmitterEnds(p)
    BY <1>2 DEF ReceiverEnds, TransmitterEnds, CloseClient
  <1>3. CASE Returns(p) \/ Exits(p)
    BY <1>3 DEF Returns, Exits
  <1> QED BY <1>1, <1>2, <1>3 DEF Serve

\* Every variable stays in its type.
THEOREM TypeCorrectness == Spec => []TypeOK
  <1>1. TypeOK /\ [Next]_vars => TypeOK'
    <2> SUFFICES ASSUME TypeOK, [Next]_vars PROVE TypeOK'
      OBVIOUS
    <2>1. CASE UNCHANGED vars
      BY <2>1 DEF vars, kernelVars, memoryVars, threadVars, historyVars, TypeOK
    <2>2. ASSUME NEW c \in Connections, Connect(c) \/ PeerResets(c) PROVE TypeOK'
      <3>1. backlog' \in Seq(Connections)
        <4>1. CASE Connect(c)
          BY <4>1 DEF Connect, TypeOK
        <4>2. CASE PeerResets(c)
          BY <4>2 DEF PeerResets, TypeOK
        <4> QED BY <2>2, <4>1, <4>2
      <3>2. connection' \in [Connections -> {"idle", "open", "reset"}]
        BY <2>2 DEF Connect, PeerResets, TypeOK
      <3>3. UNCHANGED <<pc, client, descriptors, memoryVars, threadVars, historyVars>>
        BY <2>2 DEF Connect, PeerResets
      <3> QED BY <3>1, <3>2, <3>3 DEF memoryVars, threadVars, historyVars, TypeOK
    <2> QED BY <2>1, <2>2, TypeLoop, TypeServe DEF Next
  <1> QED BY <1>1, TypeInit, PTL DEF Spec

================================================================================
