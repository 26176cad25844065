----------------------------- MODULE ServerProcess -----------------------------
(***************************************************************************)
(* The processes of the server (main.c: main, start_connection).           *)
(*                                                                         *)
(* Every process that runs the loop of main() accepts connections and      *)
(* forks a child for each.  The child starts a receive and a transmit      *)
(* thread, waits for both, and then returns into the loop of main(): from  *)
(* there on it accepts connections too, with the memory and the            *)
(* descriptors it has.  A process hands both on to the children it forks,  *)
(* and closes the descriptor of a connection only where it served it.      *)
(*                                                                         *)
(* The global session of a process is abstracted to the connections whose  *)
(* logins have left something in it.  What the threads do is in            *)
(* ReceivePath, IscsiSession and ResponseStream; here they only run and    *)
(* end.                                                                    *)
(***************************************************************************)
EXTENDS Naturals, FiniteSets, Sequences

CONSTANTS
  MaxConnections,  \* bound: connections, numbered in the order they are opened
  MaxForks,        \* processes there is room for, besides the first; what exits
                   \* is not reaped and keeps its place
  MaxDescriptors   \* connections that fit in a descriptor table

ASSUME ServerAssumption ==
  MaxConnections \in Nat /\ MaxForks \in Nat /\ MaxDescriptors \in Nat

Connections == 1 .. MaxConnections
NoConnection == 0    \* what client_socket_fd stands for when accept() has failed

\* Processes are numbered in the order they are forked.
Processes == 0 .. MaxForks
main == 0

VARIABLES
  backlog,       \* connections the kernel has queued, in order
  connection,    \* connection -> "idle", "open" or "reset" by the peer
  pc,            \* process -> "none", in "accept", at "fork", "serve", "exited"
  client,        \* process -> client_socket_fd: a connection, or NoConnection
  descriptors,   \* process -> connections it has a descriptor of
  receiver,      \* process -> its receive thread: "off", "run" or "end"
  transmitter,   \* process -> its transmit thread
  answered,      \* process -> its handlers have appended a response
  session,       \* process -> connections that logged in to its global session
  servers,       \* history: connection -> processes that served it
  returned       \* history: processes that came back to the loop of main()

kernelVars == <<backlog, connection>>
memoryVars == <<answered, session>>
threadVars == <<receiver, transmitter>>
historyVars == <<servers, returned>>
vars == <<kernelVars, pc, client, descriptors, memoryVars, threadVars, historyVars>>

Init ==
  /\ backlog = <<>>
  /\ connection = [c \in Connections |-> "idle"]
  /\ pc = [p \in Processes |-> IF p = main THEN "accept" ELSE "none"]
  /\ client = [p \in Processes |-> NoConnection]
  /\ descriptors = [p \in Processes |-> {}]
  /\ receiver = [p \in Processes |-> "off"]
  /\ transmitter = [p \in Processes |-> "off"]
  /\ answered = [p \in Processes |-> FALSE]
  /\ session = [p \in Processes |-> {}]
  /\ servers = [c \in Connections |-> {}]
  /\ returned = {}

-------------------------------------------------------------------------------
\* Peers open connections, which the kernel queues, and reset them.
Connect(c) ==
  /\ connection[c] = "idle" /\ \A d \in 1 .. c - 1 : connection[d] # "idle"
  /\ connection' = [connection EXCEPT ![c] = "open"]
  /\ backlog' = Append(backlog, c)
  /\ UNCHANGED <<pc, client, descriptors, memoryVars, threadVars, historyVars>>

PeerResets(c) ==
  /\ connection[c] = "open"
  /\ connection' = [connection EXCEPT ![c] = "reset"]
  /\ UNCHANGED <<backlog, pc, client, descriptors, memoryVars, threadVars,
                 historyVars>>

-------------------------------------------------------------------------------
(***************************************************************************)
(* The loop of main().                                                     *)
(***************************************************************************)
TableFull(p) == Cardinality(descriptors[p]) >= MaxDescriptors

Accept(p) ==
  /\ pc[p] = "accept" /\ ~TableFull(p) /\ backlog # <<>>
  /\ LET c == Head(backlog)
     IN /\ client' = [client EXCEPT ![p] = c]
        /\ descriptors' = [descriptors EXCEPT ![p] = @ \cup {c}]
  /\ backlog' = Tail(backlog)
  /\ pc' = [pc EXCEPT ![p] = "fork"]
  /\ UNCHANGED <<connection, memoryVars, threadVars, historyVars>>

\* accept() looks for a free descriptor before it waits.  Its result, -1, is
\* not looked at.
AcceptFails(p) ==
  /\ pc[p] = "accept" /\ TableFull(p)
  /\ client' = [client EXCEPT ![p] = NoConnection]
  /\ pc' = [pc EXCEPT ![p] = "fork"]
  /\ UNCHANGED <<kernelVars, descriptors, memoryVars, threadVars, historyVars>>

\* iscsi_connection_create and start_connection in process q, for connection c.
Serves(q, c) ==
  /\ receiver' = [receiver EXCEPT ![q] = "run"]
  /\ transmitter' = [transmitter EXCEPT ![q] = "run"]
  /\ answered' = [answered EXCEPT ![q] = FALSE]
  /\ servers' = IF c = NoConnection THEN servers
                ELSE [servers EXCEPT ![c] = @ \cup {q}]

NextProcess(q) == pc[q] = "none" /\ \A r \in 0 .. q - 1 : pc[r] # "none"

NoRoomForProcesses == \A q \in Processes : pc[q] # "none"

\* Mutant: the parent goes on to start_connection like the child.
ForkBothServe(p, q) ==
  /\ pc[p] = "fork" /\ NextProcess(q)
  /\ pc' = [pc EXCEPT ![p] = "serve", ![q] = "serve"]
  /\ client' = [client EXCEPT ![q] = client[p]]
  /\ descriptors' = [descriptors EXCEPT ![q] = descriptors[p]]
  /\ session' = [session EXCEPT ![q] = session[p]]
  /\ receiver' = [receiver EXCEPT ![p] = "run", ![q] = "run"]
  /\ transmitter' = [transmitter EXCEPT ![p] = "run", ![q] = "run"]
  /\ servers' = [c \in Connections |->
                   IF c = client[p] THEN servers[c] \cup {p, q} ELSE servers[c]]
  /\ UNCHANGED <<kernelVars, answered, returned>>

\* Mutant: the child goes back to accept() before it has served.
ForkChildAccepts(p, q) ==
  /\ pc[p] = "fork" /\ NextProcess(q)
  /\ pc' = [pc EXCEPT ![p] = "accept", ![q] = "accept"]
  /\ client' = [client EXCEPT ![q] = client[p]]
  /\ descriptors' = [descriptors EXCEPT ![q] = descriptors[p]]
  /\ session' = [session EXCEPT ![q] = session[p]]
  /\ UNCHANGED <<kernelVars, returned, receiver, transmitter, answered, servers>>

\* The child q starts with a copy of the memory and the descriptors of p, and
\* serves; p goes on.
Fork(p, q) ==
  /\ pc[p] = "fork" /\ NextProcess(q)
  /\ pc' = [pc EXCEPT ![p] = "accept", ![q] = "serve"]
  /\ client' = [client EXCEPT ![q] = client[p]]
  /\ descriptors' = [descriptors EXCEPT ![q] = descriptors[p]]
  /\ session' = [session EXCEPT ![q] = session[p]]
  /\ Serves(q, client[p])
  /\ UNCHANGED <<kernelVars, returned>>

\* "cannot fork a new process": the descriptor stays open, nobody serves it.
ForkFails(p) ==
  /\ pc[p] = "fork"
  /\ NoRoomForProcesses
  /\ pc' = [pc EXCEPT ![p] = "accept"]
  /\ UNCHANGED <<kernelVars, client, descriptors, memoryVars, threadVars, historyVars>>

-------------------------------------------------------------------------------
(***************************************************************************)
(* A process that serves a connection.                                     *)
(***************************************************************************)
Reads(p) == pc[p] = "serve" /\ receiver[p] = "run"

\* Mutant: the global session is in memory that all processes share.
HandleRequestShared(p) ==
  /\ Reads(p) /\ client[p] \in descriptors[p]
  /\ answered' = [answered EXCEPT ![p] = TRUE]
  /\ \/ session' = [q \in Processes |-> session[q] \cup {client[p]}]
     \/ UNCHANGED session
  /\ UNCHANGED <<kernelVars, pc, client, descriptors, threadVars, historyVars>>

\* Mutant: the -1 of recv() is not looked at.
HandleRequestAnyway(p) ==
  /\ Reads(p)
  /\ answered' = [answered EXCEPT ![p] = TRUE]
  /\ \/ session' = [session EXCEPT ![p] = @ \cup {client[p]}]
     \/ UNCHANGED session
  /\ UNCHANGED <<kernelVars, pc, client, descriptors, threadVars, historyVars>>

\* A handler answers; a login leaves its connection in the session.
HandleRequest(p) ==
  /\ Reads(p) /\ client[p] \in descriptors[p]
  /\ answered' = [answered EXCEPT ![p] = TRUE]
  /\ \/ session' = [session EXCEPT ![p] = @ \cup {client[p]}]
     \/ UNCHANGED session
  /\ UNCHANGED <<kernelVars, pc, client, descriptors, threadVars, historyVars>>

\* Both threads close the descriptor they share.
CloseClient(p) ==
  descriptors' = [descriptors EXCEPT ![p] = @ \ {client[p]}]

\* recv() returns -1 (connection reset, or no such descriptor), or a handler
\* returns SOCKET_TERMINATE.
ReceiverEnds(p) ==
  /\ Reads(p)
  /\ receiver' = [receiver EXCEPT ![p] = "end"]
  /\ CloseClient(p)
  /\ UNCHANGED <<kernelVars, pc, client, memoryVars, transmitter, historyVars>>

\* The transmit thread ends only when send() fails, for which it must have a
\* response to send: without one it polls for ever.
TransmitterEnds(p) ==
  /\ pc[p] = "serve" /\ transmitter[p] = "run"
  /\ answered[p]
  /\ client[p] \in descriptors[p] => connection[client[p]] = "reset"
  /\ transmitter' = [transmitter EXCEPT ![p] = "end"]
  /\ CloseClient(p)
  /\ UNCHANGED <<kernelVars, pc, client, memoryVars, receiver, historyVars>>

\* Both pthread_join calls have returned: start_connection returns to main().
Returns(p) ==
  /\ pc[p] = "serve" /\ receiver[p] = "end" /\ transmitter[p] = "end"
  /\ pc' = [pc EXCEPT ![p] = "accept"]
  /\ returned' = returned \cup {p}
  /\ UNCHANGED <<kernelVars, client, descriptors, memoryVars, threadVars, servers>>

\* exit(1) when the device cannot be opened, or the signal SIGPIPE when send()
\* finds a connection whose reset recv() has already reported: the kernel closes
\* everything.
Exits(p) ==
  /\ pc[p] = "serve" /\ client[p] \in descriptors[p]
  /\ \/ receiver[p] = "run"
     \/ transmitter[p] = "run" /\ answered[p] /\ connection[client[p]] = "reset"
  /\ pc' = [pc EXCEPT ![p] = "exited"]
  /\ descriptors' = [descriptors EXCEPT ![p] = {}]
  /\ UNCHANGED <<kernelVars, client, memoryVars, threadVars, historyVars>>

-------------------------------------------------------------------------------
Loop(p) ==
  Accept(p) \/ AcceptFails(p) \/ (\E q \in Processes : Fork(p, q)) \/ ForkFails(p)

Serve(p) ==
  \/ HandleRequest(p) \/ ReceiverEnds(p) \/ TransmitterEnds(p) \/ Returns(p)
  \/ Exits(p)

Next ==
  \/ \E c \in Connections : Connect(c) \/ PeerResets(c)
  \/ \E p \in Processes : Loop(p) \/ Serve(p)

Spec == Init /\ [][Next]_vars

\* A process in the loop of main() runs: accept() and fork() return when they
\* can.  Peers, requests and the ends of threads are not fair.
FairSpec == Spec /\ \A p \in Processes : WF_vars(Loop(p))

-------------------------------------------------------------------------------
\* Every variable stays in its type.
TypeOK ==
  /\ backlog \in Seq(Connections)
  /\ connection \in [Connections -> {"idle", "open", "reset"}]
  /\ pc \in [Processes -> {"none", "accept", "fork", "serve", "exited"}]
  /\ client \in [Processes -> Connections \cup {NoConnection}]
  /\ descriptors \in [Processes -> SUBSET Connections]
  /\ receiver \in [Processes -> {"off", "run", "end"}]
  /\ transmitter \in [Processes -> {"off", "run", "end"}]
  /\ answered \in [Processes -> BOOLEAN]
  /\ session \in [Processes -> SUBSET Connections]
  /\ servers \in [Connections -> SUBSET Processes]
  /\ returned \subseteq Processes

\* The threads of at most one process ever read from and write to a connection,
\* although its descriptor is open in its acceptor and in every process that
\* was forked since, and several processes accept.
ServedByOneProcess ==
  \A c \in Connections : Cardinality(servers[c]) <= 1

\* A process serves a connection with a session that other connections have
\* logged in to only where the process of each of those connections has come
\* back to the loop of main() -- it, or the process it was forked from.
ForeignSessionOnlyAfterReturn ==
  \A p \in Processes : pc[p] = "serve" =>
    \A c \in session[p] \ {client[p]} : servers[c] \subseteq returned

\* While the main process has room for a descriptor, no peer waits in the
\* backlog for ever, whatever the connections before it do.
PendingIsAccepted ==
  \A c \in Connections :
    (\E i \in DOMAIN backlog : backlog[i] = c)
      ~> (TableFull(main) \/ \A i \in DOMAIN backlog : backlog[i] # c)

\* A connection that was accepted is served, unless there was no room for
\* another process.
AcceptedIsServed ==
  \A p \in Processes : \A c \in Connections :
    (pc[p] = "fork" /\ client[p] = c) ~> (servers[c] # {} \/ NoRoomForProcesses)

===============================================================================
