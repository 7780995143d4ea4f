----------------------------- MODULE TCPManager -----------------------------
(***************************************************************************)
(* The descriptors of a TCPManager (net/impl/tcpmanagerimpl.cpp): users    *)
(* open listening sockets and connections on their own threads and hand    *)
(* them to the network thread, which accepts, starts and stops.  The       *)
(* kernel gives a number out again as soon as it is closed.                *)
(***************************************************************************)
EXTENDS Integers, FiniteSets

CONSTANTS Users, Fds, Records   \* threads, descriptor numbers, TCPConnData records

None == 0
ASSUME ManagerAssumption == None \notin Fds

VARIABLES
  kernel,   \* the descriptors that are open
  listenSock,  \* the network thread: listenSock_, or None
  conns,    \* of each record: its descriptor (None: no such record), its socket
            \* is closed
  users     \* of each thread: what it is doing with which descriptor

managervars == <<kernel, listenSock, conns, users>>

NoRecord == [fd |-> None, closed |-> FALSE]
AtRest   == [at |-> "rest", fd |-> None]

ManagerInit ==
  /\ kernel = {} /\ listenSock = None
  /\ conns = [c \in Records |-> NoRecord]
  /\ users = [u \in Users |-> AtRest]

----------------------------------------
(* openListenSocket and openConnection, on the thread of the caller.       *)

OpenSocket(u) ==
  /\ users[u].at = "rest"
  /\ \E f \in Fds \ kernel :
       kernel' = kernel \cup {f} /\ users' = [users EXCEPT ![u] = [at |-> "open", fd |-> f]]
  /\ UNCHANGED <<listenSock, conns>>

\* Mutant: a socket that cannot be bound is not closed.
FailsOpen(u) ==
  /\ users[u].at = "open"
  /\ users' = [users EXCEPT ![u] = AtRest]
  /\ UNCHANGED <<kernel, listenSock, conns>>

(* It cannot be made non-blocking, bound, connected or listened on. *)
Fails(u) ==
  /\ users[u].at = "open"
  /\ kernel' = kernel \ {users[u].fd} /\ users' = [users EXCEPT ![u] = AtRest]
  /\ UNCHANGED <<listenSock, conns>>

(* The caller of openListenSocket gets the socket; openConnection calls    *)
(* addConnection on the network thread and waits.                          *)
Opened(u, at) ==
  /\ users[u].at = "open" /\ users' = [users EXCEPT ![u].at = at]
  /\ UNCHANGED <<kernel, listenSock, conns>>

(* A listening socket is its owner's until start() has taken it. *)
CloseOwn(u) ==
  /\ users[u].at = "owner"
  /\ kernel' = kernel \ {users[u].fd} /\ users' = [users EXCEPT ![u] = AtRest]
  /\ UNCHANGED <<listenSock, conns>>

----------------------------------------
(* The network thread. *)

NewRecord(c, f) == conns[c].fd = None /\ conns' = [conns EXCEPT ![c].fd = f]

AddConnection(u) ==
  /\ users[u].at = "adding"
  /\ \E c \in Records : NewRecord(c, users[u].fd)
  /\ users' = [users EXCEPT ![u] = AtRest]
  /\ UNCHANGED <<kernel, listenSock>>

\* Mutant: the server may be running.
StartAgain(u) ==
  /\ users[u].at = "owner"
  /\ listenSock' = users[u].fd
  /\ users' = [users EXCEPT ![u] = AtRest]
  /\ UNCHANGED <<kernel, conns>>

(* start(); while the server runs it fails and the socket stays with the   *)
(* caller.                                                                 *)
StartServer(u) ==
  /\ users[u].at = "owner" /\ listenSock = None
  /\ listenSock' = users[u].fd
  /\ users' = [users EXCEPT ![u] = AtRest]
  /\ UNCHANGED <<kernel, conns>>

Held(C) == {conns[c].fd : c \in {c \in C : ~conns[c].closed}} \ {None}

\* Mutant: stop() closes by number what is closed already.
StopAgain ==
  /\ kernel' = kernel \ ({listenSock} \cup {conns[c].fd : c \in Records})
  /\ listenSock' = None
  /\ conns' = [c \in Records |-> [conns[c] EXCEPT !.closed = conns[c].fd # None]]
  /\ UNCHANGED users

(* stop() closes the listening socket and every connection; the records    *)
(* stay for their owners to delete.                                        *)
StopServer ==
  /\ kernel' = kernel \ ({listenSock} \cup Held(Records))
  /\ listenSock' = None
  /\ conns' = [c \in Records |-> [conns[c] EXCEPT !.closed = conns[c].fd # None]]
  /\ UNCHANGED users

(* listenSocketReadable, for one connection; newConnection() takes it or   *)
(* deletes it.  A stop() that it calls ends the loop: there is no socket   *)
(* to accept from.                                                         *)
Accept ==
  /\ listenSock # None
  /\ \E f \in Fds \ kernel, c \in Records :
       NewRecord(c, f) /\ kernel' = kernel \cup {f}
  /\ UNCHANGED <<listenSock, users>>

(* closeConn of both halves *)
CloseRecord(c) ==
  /\ conns[c].fd # None /\ ~conns[c].closed
  /\ kernel' = kernel \ {conns[c].fd} /\ conns' = [conns EXCEPT ![c].closed = TRUE]
  /\ UNCHANGED <<listenSock, users>>

DeleteRecord(c) ==
  /\ conns[c].fd # None
  /\ kernel' = kernel \ Held({c}) /\ conns' = [conns EXCEPT ![c] = NoRecord]
  /\ UNCHANGED <<listenSock, users>>

ManagerNext ==
  \/ \E u \in Users : \/ OpenSocket(u) \/ Fails(u) \/ CloseOwn(u) \/ AddConnection(u) \/ StartServer(u)
                      \/ \E at \in {"owner", "adding"} : Opened(u, at)
  \/ StopServer \/ Accept
  \/ \E c \in Records : CloseRecord(c) \/ DeleteRecord(c)

ManagerSpec == ManagerInit /\ [][ManagerNext]_managervars

----------------------------------------
(* Properties *)

(* Whoever fails, stops or closes, in whatever order: a descriptor that is *)
(* open has one owner, the listening socket, a record or a thread that     *)
(* works on it, and nobody owns a number that is closed and may be given   *)
(* to somebody else.                                                       *)
Owners(f) ==
  Cardinality({u \in Users : users[u].fd = f})
    + Cardinality({c \in Records : conns[c].fd = f /\ ~conns[c].closed})
    + (IF listenSock = f THEN 1 ELSE 0)

DescriptorsOwned == \A f \in Fds : Owners(f) = IF f \in kernel THEN 1 ELSE 0
========================================
