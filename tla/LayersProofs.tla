----------------------------- MODULE LayersProofs -----------------------------
(****************************************)
(* What is proved of the layers between a socket and an application beside *)
(* TCPConnection, for any number of users, descriptors, records, *)
(* certificates and keys. *)
(****************************************)
EXTENDS TCPManager, TLSConnection, TLSCredentials, TCPConnectionProofs, FiniteSetTheorems,
        SequenceTheorems, WellFoundedInduction, TLAPS

(****************************************)
(* The descriptors.  Counting owners is replaced by saying who may not *)
(* share: an open descriptor is held by the listening socket, by a thread *)
(* or by a record, what is held is open, and no two of them hold the same. *)
(****************************************)

ManagerTypes ==
  /\ kernel \subseteq Fds /\ listenSock \in Fds \cup {None}
  /\ conns \in [Records -> [fd: Fds \cup {None}, closed: BOOLEAN]]
  /\ users \in [Users -> [at: {"rest", "open", "owner", "adding"}, fd: Fds \cup {None}]]
  /\ \A u \in Users : users[u].at = "rest" <=> users[u].fd = None
  /\ \A c \in Records : conns[c].fd = None => ~conns[c].closed

Has(c, f) == conns[c].fd = f /\ ~conns[c].closed

(* What a thread works on is open and nobody else's. *)
ByUser(u) ==
  LET f == users[u].fd IN
  f # None =>
    /\ f \in kernel /\ listenSock # f
    /\ \A v \in Users : users[v].fd = f => v = u
    /\ \A c \in Records : ~Has(c, f)

(* The same for a record. *)
ByRecord(c) ==
  LET f == conns[c].fd IN
  f # None /\ ~conns[c].closed =>
    /\ f \in kernel /\ listenSock # f
    /\ \A e \in Records : Has(e, f) => e = c

Somebody(f) ==
  \/ listenSock = f
  \/ \E u \in Users : users[u].fd = f
  \/ \E c \in Records : Has(c, f)

ManagerInv ==
  /\ ManagerTypes
  /\ \A u \in Users : ByUser(u)
  /\ \A c \in Records : ByRecord(c)
  /\ listenSock # None => listenSock \in kernel
  /\ \A f \in kernel : Somebody(f)

LEMMA ManagerBegins == ManagerInit => ManagerInv
  BY ManagerAssumption
  DEF ManagerInit, ManagerInv, ManagerTypes, ByUser, ByRecord, Somebody, Has, NoRecord, AtRest, None

(* openListenSocket, openConnection and their failures. *)
LEMMA UsersKeep ==
  ASSUME ManagerInv, NEW u \in Users,
         OpenSocket(u) \/ Fails(u) \/ CloseOwn(u) \/ \E at \in {"owner", "adding"} : Opened(u, at)
  PROVE  ManagerInv'
  <1> USE ManagerAssumption DEF Has
  <1>1. CASE OpenSocket(u)
    <2>1. PICK f \in Fds \ kernel :
            kernel' = kernel \cup {f} /\ users' = [users EXCEPT ![u] = [at |-> "open", fd |-> f]]
      BY <1>1 DEF OpenSocket
    <2>2. f # None /\ listenSock # f /\ (\A v \in Users : users[v].fd # f) /\ \A c \in Records : ~Has(c, f)
      BY DEF ManagerInv, ByUser, ByRecord
    <2>3. users[u].fd = None /\ UNCHANGED <<listenSock, conns>>
      BY <1>1 DEF OpenSocket, ManagerInv, ManagerTypes
    <2>4. ManagerTypes'
      BY <2>1, <2>2, <2>3 DEF ManagerInv, ManagerTypes
    <2>5. users'[u].fd = f /\ \A v \in Users \ {u} : users'[v] = users[v]
      BY <2>1 DEF ManagerInv, ManagerTypes
    <2> HIDE DEF Has
    <2>6. \A c \in Records, g \in Fds : Has(c, g)' <=> Has(c, g)
      BY <2>3 DEF Has
    <2>7. \A v \in Users : ByUser(v)'
      BY <2>1, <2>2, <2>3, <2>4, <2>5, <2>6 DEF ManagerInv, ManagerTypes, ByUser
    <2>8. \A c \in Records : ByRecord(c)'
      BY <2>1, <2>2, <2>3, <2>4, <2>5, <2>6 DEF ManagerInv, ManagerTypes, ByRecord, Has
    <2>9. \A g \in kernel' : Somebody(g)'
      <3>1. Somebody(f)'
        BY <2>5 DEF Somebody
      <3>2. \A g \in kernel : Somebody(g)'
        BY <2>2, <2>3, <2>5, <2>6 DEF ManagerInv, ManagerTypes, Somebody
      <3> QED BY <2>1, <3>1, <3>2
    <2> QED BY <2>1, <2>3, <2>4, <2>7, <2>8, <2>9 DEF ManagerInv
  <1>2. CASE Fails(u) \/ CloseOwn(u)
    <2> DEFINE f == users[u].fd
    <2>1. f # None /\ kernel' = kernel \ {f} /\ users' = [users EXCEPT ![u] = AtRest]
          /\ UNCHANGED <<listenSock, conns>>
      BY <1>2 DEF Fails, CloseOwn, ManagerInv, ManagerTypes
    <2>2. ManagerTypes'
      BY <2>1 DEF ManagerInv, ManagerTypes, AtRest
    <2>3. users'[u].fd = None /\ \A v \in Users \ {u} : users'[v] = users[v]
      BY <2>1 DEF ManagerInv, ManagerTypes, AtRest
    <2> QED BY <2>1, <2>2, <2>3 DEF ManagerInv, ByUser, ByRecord, Somebody
  <1>3. CASE \E at \in {"owner", "adding"} : Opened(u, at)
    <2>1. PICK at \in {"owner", "adding"} : Opened(u, at)
      BY <1>3
    <2>2. /\ users[u].at = "open" /\ users' = [users EXCEPT ![u].at = at]
          /\ UNCHANGED <<kernel, listenSock, conns>>
      BY <2>1 DEF Opened
    <2>3. ManagerTypes'
      BY <2>2 DEF ManagerInv, ManagerTypes
    <2>4. \A v \in Users : users'[v].fd = users[v].fd
      BY <2>2 DEF ManagerInv, ManagerTypes
    <2> QED BY <2>2, <2>3, <2>4 DEF ManagerInv, ByUser, ByRecord, Somebody
  <1> QED BY <1>1, <1>2, <1>3

(* A thread hands its descriptor to the network thread. *)
LEMMA HandOverKeeps ==
  ASSUME ManagerInv, NEW u \in Users, AddConnection(u) \/ StartServer(u)
  PROVE  ManagerInv'
  <1> USE ManagerAssumption DEF Has
  <1> DEFINE f == users[u].fd
  <1>1. f # None /\ f \in Fds /\ kernel' = kernel /\ users' = [users EXCEPT ![u] = AtRest]
    BY DEF AddConnection, StartServer, ManagerInv, ManagerTypes
  <1>2. users'[u].fd = None /\ \A v \in Users \ {u} : users'[v] = users[v]
    BY <1>1 DEF ManagerInv, ManagerTypes, AtRest
  <1>3. CASE AddConnection(u)
    <2>1. PICK c \in Records : NewRecord(c, f)
      BY <1>3 DEF AddConnection
    <2>2. conns[c].fd = None /\ ~conns[c].closed /\ conns' = [conns EXCEPT ![c].fd = f] /\ listenSock' = listenSock
      BY <1>3, <2>1 DEF NewRecord, AddConnection, ManagerInv, ManagerTypes
    <2>3. ManagerTypes'
      BY <1>1, <2>2 DEF ManagerInv, ManagerTypes, AtRest
    <2>4. /\ conns'[c].fd = f /\ ~conns'[c].closed
          /\ \A e \in Records \ {c} : conns'[e] = conns[e]
      BY <2>2 DEF ManagerInv, ManagerTypes
    <2> QED BY <1>1, <1>2, <2>2, <2>3, <2>4 DEF ManagerInv, ByUser, ByRecord, Somebody
  <1>4. CASE StartServer(u)
    <2>1. listenSock = None /\ listenSock' = f /\ conns' = conns
      BY <1>4 DEF StartServer
    <2>2. ManagerTypes'
      BY <1>1, <2>1 DEF ManagerInv, ManagerTypes, AtRest
    <2> QED BY <1>1, <1>2, <2>1, <2>2 DEF ManagerInv, ByUser, ByRecord, Somebody
  <1> QED BY <1>3, <1>4

(* accept() *)
LEMMA AcceptKeeps == ManagerInv /\ Accept => ManagerInv'
  <1> SUFFICES ASSUME ManagerInv, Accept PROVE ManagerInv'
    OBVIOUS
  <1> USE ManagerAssumption DEF Has
  <1>1. PICK f \in Fds \ kernel, c \in Records : NewRecord(c, f) /\ kernel' = kernel \cup {f}
    BY DEF Accept
  <1>2. /\ conns[c].fd = None /\ ~conns[c].closed /\ conns' = [conns EXCEPT ![c].fd = f]
        /\ UNCHANGED <<listenSock, users>>
    BY <1>1 DEF NewRecord, Accept, ManagerInv, ManagerTypes
  <1>3. f # None /\ listenSock # f /\ (\A v \in Users : users[v].fd # f) /\ \A e \in Records : ~Has(e, f)
    BY DEF ManagerInv, ByUser, ByRecord
  <1>4. ManagerTypes'
    BY <1>1, <1>2 DEF ManagerInv, ManagerTypes
  <1>5. conns'[c].fd = f /\ ~conns'[c].closed /\ \A e \in Records \ {c} : conns'[e] = conns[e]
    BY <1>2 DEF ManagerInv, ManagerTypes
  <1>6. \A v \in Users : ByUser(v)'
    BY <1>1, <1>2, <1>3, <1>5 DEF ManagerInv, ManagerTypes, ByUser
  <1>7. \A e \in Records : ByRecord(e)'
    BY <1>1, <1>2, <1>3, <1>5 DEF ManagerInv, ManagerTypes, ByRecord
  <1>8. \A g \in kernel' : Somebody(g)'
    <2>1. Somebody(f)'
      BY <1>5 DEF Somebody
    <2>2. \A g \in kernel : Somebody(g)'
      <3> TAKE g \in kernel
      <3>1. g # None /\ Somebody(g)
        BY DEF ManagerInv, ManagerTypes
      <3> QED BY <1>2, <1>3, <1>5, <3>1 DEF Somebody
    <2> QED BY <1>1, <2>1, <2>2
  <1> QED BY <1>1, <1>2, <1>4, <1>6, <1>7, <1>8 DEF ManagerInv

(* closeConn, ~TCPConn and stop(). *)
LEMMA RecordsKeep ==
  ASSUME ManagerInv, NEW c \in Records, CloseRecord(c) \/ DeleteRecord(c)
  PROVE  ManagerInv'
  <1> USE ManagerAssumption DEF Has
  <1> DEFINE f == conns[c].fd
  <1>1. f # None /\ UNCHANGED <<listenSock, users>>
    BY DEF CloseRecord, DeleteRecord
  <1>2. kernel' = kernel \ (IF conns[c].closed THEN {} ELSE {f})
    <2>1. CASE CloseRecord(c)
      BY <2>1 DEF CloseRecord
    <2>2. CASE DeleteRecord(c)
      BY <2>2, <1>1 DEF DeleteRecord, Held
    <2> QED BY <2>1, <2>2
  <1>3. PICK r \in [fd: Fds \cup {None}, closed: BOOLEAN] :
          /\ conns' = [conns EXCEPT ![c] = r]
          /\ (r.fd = None /\ ~r.closed) \/ (r.fd = f /\ r.closed)
    <2>1. CASE CloseRecord(c)
      <3> DEFINE r == [conns[c] EXCEPT !.closed = TRUE]
      <3>1. conns' = [conns EXCEPT ![c] = r]
        BY <2>1 DEF CloseRecord
      <3>2. r \in [fd: Fds \cup {None}, closed: BOOLEAN] /\ r.fd = f /\ r.closed
        BY DEF ManagerInv, ManagerTypes
      <3> HIDE DEF r, f
      <3> QED BY <3>1, <3>2
    <2>2. CASE DeleteRecord(c)
      <3> DEFINE r == [fd |-> None, closed |-> FALSE]
      <3>1. conns' = [conns EXCEPT ![c] = r]
        BY <2>2 DEF DeleteRecord, NoRecord
      <3>2. r \in [fd: Fds \cup {None}, closed: BOOLEAN] /\ r.fd = None /\ ~r.closed
        OBVIOUS
      <3> HIDE DEF r, f
      <3> QED BY <3>1, <3>2
    <2> QED BY <2>1, <2>2
  <1>4. conns'[c] = r /\ \A e \in Records \ {c} : conns'[e] = conns[e]
    BY <1>3 DEF ManagerInv, ManagerTypes
  <1>5. ManagerTypes'
    BY <1>1, <1>2, <1>3 DEF ManagerInv, ManagerTypes
  <1> HIDE DEF f
  <1> QED BY <1>1, <1>2, <1>3, <1>4, <1>5 DEF ManagerInv, ByUser, ByRecord, Somebody, f

(* stop() closes what it holds and leaves the records to their owners. *)
LEMMA StopKeeps == ManagerInv /\ StopServer => ManagerInv'
  <1> SUFFICES ASSUME ManagerInv, StopServer PROVE ManagerInv'
    OBVIOUS
  <1> USE ManagerAssumption DEF Has
  <1>1. \A f \in Fds : f \in kernel' <=> f \in kernel /\ f # listenSock /\ \A c \in Records : ~Has(c, f)
    BY DEF StopServer, Held
  <1>2. kernel' \subseteq kernel /\ listenSock' = None /\ users' = users
    BY DEF StopServer
  <1>3. \A c \in Records :
          conns'[c].fd = conns[c].fd /\ conns'[c].closed = (IF conns[c].fd = None THEN FALSE ELSE TRUE)
    <2> TAKE c \in Records
    <2>1. conns'[c] = [conns[c] EXCEPT !.closed = conns[c].fd # None]
      BY DEF StopServer
    <2>2. conns[c] \in [fd: Fds \cup {None}, closed: BOOLEAN]
      BY DEF ManagerInv, ManagerTypes
    <2> QED BY <2>1, <2>2
  <1>4. ManagerTypes'
    <2>1. conns' \in [Records -> [fd: Fds \cup {None}, closed: BOOLEAN]]
      <3>1. \A c \in Records :
              [conns[c] EXCEPT !.closed = conns[c].fd # None] \in [fd: Fds \cup {None}, closed: BOOLEAN]
        BY DEF ManagerInv, ManagerTypes
      <3> QED BY <3>1 DEF StopServer
    <2> QED BY <1>2, <1>3, <2>1 DEF ManagerInv, ManagerTypes
  <1>5. \A u \in Users : ByUser(u)'
    <2> SUFFICES ASSUME NEW u \in Users, users[u].fd # None PROVE ByUser(u)'
      BY <1>2 DEF ByUser
    <2> DEFINE f == users[u].fd
    <2>1. f \in Fds /\ ByUser(u)
      BY DEF ManagerInv, ManagerTypes
    <2>2. f \in kernel'
      BY <1>1, <2>1 DEF ByUser
    <2>3. \A c \in Records : ~(conns'[c].fd = f /\ ~conns'[c].closed)
      BY <1>3
    <2> QED BY <1>2, <2>1, <2>2, <2>3 DEF ByUser
  <1>6. \A c \in Records : ByRecord(c)'
    <2> TAKE c \in Records
    <2>1. conns'[c].fd # None => conns'[c].closed
      BY <1>3
    <2> QED BY <2>1 DEF ByRecord
  <1>7. \A f \in kernel' : Somebody(f)'
    <2> TAKE f \in kernel'
    <2>1. f \in Fds /\ f \in kernel
      BY <1>2 DEF ManagerInv, ManagerTypes
    <2>2. Somebody(f) /\ f # listenSock /\ \A c \in Records : ~Has(c, f)
      BY <1>1, <2>1 DEF ManagerInv
    <2> QED BY <1>2, <2>2 DEF Somebody
  <1> QED BY <1>2, <1>4, <1>5, <1>6, <1>7 DEF ManagerInv

LEMMA ManagerKept == ManagerInv /\ [ManagerNext]_managervars => ManagerInv'
  <1> SUFFICES ASSUME ManagerInv, [ManagerNext]_managervars PROVE ManagerInv'
    OBVIOUS
  <1>1. ASSUME NEW u \in Users,
               \/ OpenSocket(u) \/ Fails(u) \/ CloseOwn(u) \/ AddConnection(u) \/ StartServer(u)
               \/ \E at \in {"owner", "adding"} : Opened(u, at)
        PROVE  ManagerInv'
    BY <1>1, UsersKeep, HandOverKeeps
  <1>2. ASSUME NEW c \in Records, CloseRecord(c) \/ DeleteRecord(c)
        PROVE  ManagerInv'
    BY <1>2, RecordsKeep
  <1>3. CASE UNCHANGED managervars
    BY <1>3 DEF managervars, ManagerInv, ManagerTypes, ByUser, ByRecord, Somebody, Has
  <1> QED BY <1>1, <1>2, <1>3, AcceptKeeps, StopKeeps DEF ManagerNext

(* At most one member is none or one. *)
LEMMA AtMostOne ==
  ASSUME NEW S, \A x, y \in S : x = y
  PROVE  Cardinality(S) = IF S = {} THEN 0 ELSE 1
  <1>1. CASE S = {}
    BY <1>1, FS_EmptySet
  <1>2. CASE S # {}
    <2>1. PICK x : S = {x}
      BY <1>2
    <2> QED BY <1>2, <2>1, FS_Singleton
  <1> QED BY <1>1, <1>2

(* openListenSocket, openConnection, start, stop, accept and close, on any *)
(* threads and in any order, for any number of descriptors: an open *)
(* descriptor has exactly one owner and nobody owns a number the kernel *)
(* may give out again. *)
THEOREM DescriptorsOwnedHolds == ManagerSpec => []DescriptorsOwned
<1>1. ManagerInv => DescriptorsOwned
  <2> SUFFICES ASSUME ManagerInv, NEW f \in Fds PROVE Owners(f) = IF f \in kernel THEN 1 ELSE 0
    BY DEF DescriptorsOwned
  <2> DEFINE U == {u \in Users : users[u].fd = f}
             C == {c \in Records : conns[c].fd = f /\ ~conns[c].closed}
  <2>1. f # None
    BY ManagerAssumption
  <2>2. /\ \A u, v \in U : u = v
        /\ U # {} => C = {} /\ listenSock # f /\ f \in kernel
    BY <2>1 DEF ManagerInv, ByUser, Has
  <2>3. /\ \A c, e \in C : c = e
        /\ C # {} => listenSock # f /\ f \in kernel
    BY <2>1 DEF ManagerInv, ByRecord, Has
  <2>4. f \in kernel <=> listenSock = f \/ U # {} \/ C # {}
    BY <2>1, <2>2, <2>3 DEF ManagerInv, Somebody, Has
  <2>5. Cardinality(U) = IF U = {} THEN 0 ELSE 1
    <3> HIDE DEF U
    <3> QED BY <2>2, AtMostOne
  <2>6. Cardinality(C) = IF C = {} THEN 0 ELSE 1
    <3> HIDE DEF C
    <3> QED BY <2>3, AtMostOne
  <2>7. Owners(f) = Cardinality(U) + Cardinality(C) + (IF listenSock = f THEN 1 ELSE 0)
    BY DEF Owners
  <2> HIDE DEF U, C
  <2> QED BY <2>2, <2>3, <2>4, <2>5, <2>6, <2>7
<1> QED BY <1>1, ManagerBegins, ManagerKept, PTL DEF ManagerSpec

----------------------------------------
(****************************************)
(* The connection with a TLS stream.  Two queues stand between the user *)
(* and the socket: the invariant says of both which calls are on their way *)
(* at most once, which call nobody back, and what may follow the delete *)
(* call, nothing but what stop() sends (halted). *)
(****************************************)
Msg == Call \cup [op: {"received"}]

Never(s, op) == \A i \in 1 .. Len(s) : s[i].op # op
Once(s, op)  == \A i, j \in 1 .. Len(s) : s[i].op = op /\ s[j].op = op => i = j

OnlyCloses(s, halted) == \A i \in 1 .. Len(s) : halted /\ s[i].op = "close"
DeletesLast(s, halted) ==
  \A i, j \in 1 .. Len(s) : s[i].op = "delete" /\ i < j => halted /\ s[j].op = "close"

Quiet(m, some) ==
  /\ m.op \notin {"read", "received"}
  /\ m.op = "write" => ~m.notify /\ ~some
  /\ m.op = "close" => ~m.notify
Mute(s, some) == \A i \in 1 .. Len(s) : Quiet(s[i], some)

LEMMA TailParts ==
  ASSUME NEW s \in Seq(Msg), s # <<>>, NEW q, q = Tail(s)
  PROVE  /\ q \in Seq(Msg) /\ Len(q) \in Nat /\ Len(s) = Len(q) + 1
         /\ Head(s) = s[1] /\ Head(s) \in Msg
         /\ \A i \in 1 .. Len(q) : q[i] = s[i + 1]
  <1>1. q \in Seq(Msg) /\ Len(q) = Len(s) - 1 /\ Len(s) \in Nat \ {0}
    OBVIOUS
  <1>2. \A i \in 1 .. Len(q) : q[i] = s[i + 1]
    BY HeadTailProperties
  <1>3. Head(s) = s[1] /\ Head(s) \in Msg
    OBVIOUS
  <1> QED BY <1>1, <1>2, <1>3

LEMMA TailOf ==
  ASSUME NEW s \in Seq(Msg), s # <<>>
  PROVE  /\ \A op : Never(s, op) <=> Head(s).op # op /\ Never(Tail(s), op)
         /\ \A op : Once(s, op) => Once(Tail(s), op) /\ (Head(s).op = op => Never(Tail(s), op))
         /\ \A halted : OnlyCloses(s, halted) =>
              OnlyCloses(Tail(s), halted) /\ OnlyCloses(<<Head(s)>>, halted) /\ Head(s).op = "close"
         /\ \A halted : DeletesLast(s, halted) =>
              DeletesLast(Tail(s), halted) /\ (Head(s).op = "delete" => OnlyCloses(Tail(s), halted))
         /\ \A some : Mute(s, some) => Mute(Tail(s), some) /\ Quiet(Head(s), some)
  <1> DEFINE q == Tail(s)
  <1>1. /\ Len(q) \in Nat /\ Len(s) = Len(q) + 1 /\ Head(s) = s[1]
        /\ \A i \in 1 .. Len(q) : q[i] = s[i + 1]
    <2>1. q = Tail(s)
      OBVIOUS
    <2> QED BY <2>1, TailParts
  <1> HIDE DEF q
  <1>2. \A i \in 1 .. Len(q) : i + 1 \in 1 .. Len(s) /\ i + 1 # 1
    BY <1>1
  <1>3. \A i \in 1 .. Len(s) : i = 1 \/ (i - 1 \in 1 .. Len(q) /\ q[i - 1] = s[i])
    <2> SUFFICES ASSUME NEW i \in 1 .. Len(s), i # 1 PROVE i - 1 \in 1 .. Len(q) /\ q[i - 1] = s[i]
      OBVIOUS
    <2>1. i - 1 \in 1 .. Len(q) /\ (i - 1) + 1 = i
      BY <1>1
    <2> QED BY <1>1, <2>1
  <1>4. 1 \in 1 .. Len(s)
    BY <1>1
  <1>5. ASSUME NEW op PROVE Never(s, op) <=> Head(s).op # op /\ Never(q, op)
    <2>1. ASSUME Never(s, op) PROVE Head(s).op # op /\ Never(q, op)
      BY <1>1, <1>2, <1>4, <2>1 DEF Never
    <2>2. ASSUME Head(s).op # op, Never(q, op) PROVE Never(s, op)
      BY <1>1, <1>3, <2>2 DEF Never
    <2> QED BY <2>1, <2>2
  <1>6. ASSUME NEW op, Once(s, op) PROVE Once(q, op) /\ (Head(s).op = op => Never(q, op))
    <2>1. ASSUME NEW i \in 1 .. Len(q), NEW j \in 1 .. Len(q), q[i].op = op, q[j].op = op PROVE i = j
      <3>1. i + 1 = j + 1
        BY <1>1, <1>2, <1>6, <2>1 DEF Once
      <3> QED BY <3>1
    <2>2. ASSUME Head(s).op = op, NEW i \in 1 .. Len(q), q[i].op = op PROVE FALSE
      <3>1. i + 1 = 1
        BY <1>1, <1>2, <1>4, <1>6, <2>2 DEF Once
      <3> QED BY <1>2, <3>1
    <2> QED BY <2>1, <2>2 DEF Once, Never
  <1>7. ASSUME NEW halted, OnlyCloses(s, halted)
        PROVE  OnlyCloses(q, halted) /\ OnlyCloses(<<Head(s)>>, halted) /\ Head(s).op = "close"
    BY <1>1, <1>2, <1>4, <1>7 DEF OnlyCloses
  <1>8. ASSUME NEW halted, DeletesLast(s, halted)
        PROVE  DeletesLast(q, halted) /\ (Head(s).op = "delete" => OnlyCloses(q, halted))
    <2>1. DeletesLast(q, halted)
      <3> SUFFICES ASSUME NEW i \in 1 .. Len(q), NEW j \in 1 .. Len(q), q[i].op = "delete", i < j
                   PROVE  halted /\ q[j].op = "close"
        BY DEF DeletesLast
      <3>1. i + 1 < j + 1
        OBVIOUS
      <3> QED BY <1>1, <1>2, <1>8, <3>1 DEF DeletesLast
    <2>2. ASSUME Head(s).op = "delete", NEW j \in 1 .. Len(q) PROVE halted /\ q[j].op = "close"
      <3>1. 1 < j + 1
        OBVIOUS
      <3> QED BY <1>1, <1>2, <1>4, <1>8, <2>2, <3>1 DEF DeletesLast
    <2> QED BY <2>1, <2>2 DEF OnlyCloses
  <1>9. ASSUME NEW some, Mute(s, some) PROVE Mute(q, some) /\ Quiet(Head(s), some)
    BY <1>1, <1>2, <1>4, <1>9 DEF Mute
  <1> QED BY <1>5, <1>6, <1>7, <1>8, <1>9 DEF q

LEMMA Joined ==
  ASSUME NEW s \in Seq(Msg), NEW q \in Seq(Msg)
  PROVE  /\ s \o q \in Seq(Msg)
         /\ \A op : Never(s \o q, op) <=> Never(s, op) /\ Never(q, op)
         /\ \A op : Once(s, op) /\ Never(q, op) => Once(s \o q, op)
         /\ \A op : Never(s, op) /\ Once(q, op) => Once(s \o q, op)
         /\ \A halted : OnlyCloses(s, halted) /\ OnlyCloses(q, halted) => OnlyCloses(s \o q, halted)
         /\ \A halted : DeletesLast(s, halted) /\ DeletesLast(q, halted)
                           /\ (Never(s, "delete") \/ OnlyCloses(q, halted)) => DeletesLast(s \o q, halted)
         /\ \A some : Mute(s, some) /\ Mute(q, some) => Mute(s \o q, some)
  <1> DEFINE t == s \o q
             n == Len(s)
             k == Len(q)
  <1>1. /\ t \in Seq(Msg) /\ n \in Nat /\ k \in Nat /\ Len(t) = n + k
        /\ \A i \in 1 .. Len(t) : t[i] = IF i <= n THEN s[i] ELSE q[i - n]
    BY ConcatProperties
  <1>2. \A i \in 1 .. n : i \in 1 .. Len(t) /\ t[i] = s[i]
    BY <1>1
  <1>3. \A i \in 1 .. k : n + i \in 1 .. Len(t) /\ t[n + i] = q[i] /\ n + i > n
    <2> SUFFICES ASSUME NEW i \in 1 .. k PROVE n + i \in 1 .. Len(t) /\ t[n + i] = q[i] /\ n + i > n
      OBVIOUS
    <2>1. n + i \in 1 .. Len(t) /\ n + i > n /\ ~(n + i <= n) /\ (n + i) - n = i
      BY <1>1
    <2> QED BY <1>1, <2>1
  <1>4. \A i \in 1 .. Len(t) : \/ i \in 1 .. n /\ t[i] = s[i]
                               \/ i > n /\ i - n \in 1 .. k /\ t[i] = q[i - n]
    BY <1>1
  <1> HIDE DEF n, k, t
  <1>5. ASSUME NEW op PROVE Never(t, op) <=> Never(s, op) /\ Never(q, op)
    <2>1. ASSUME Never(t, op) PROVE Never(s, op) /\ Never(q, op)
      BY <1>2, <1>3, <2>1 DEF Never, n, k
    <2>2. ASSUME Never(s, op), Never(q, op) PROVE Never(t, op)
      BY <1>4, <2>2 DEF Never, n, k
    <2> QED BY <2>1, <2>2
  <1>6. ASSUME NEW op, Once(s, op), Never(q, op) PROVE Once(t, op)
    BY <1>4, <1>6 DEF Once, Never, n, k
  <1>7. ASSUME NEW op, Never(s, op), Once(q, op) PROVE Once(t, op)
    <2> SUFFICES ASSUME NEW i \in 1 .. Len(t), NEW j \in 1 .. Len(t), t[i].op = op, t[j].op = op
                 PROVE  i = j
      BY DEF Once
    <2>1. i - n = j - n
      BY <1>4, <1>7 DEF Once, Never, n, k
    <2> QED BY <1>1, <2>1
  <1>8. ASSUME NEW halted, OnlyCloses(s, halted), OnlyCloses(q, halted) PROVE OnlyCloses(t, halted)
    BY <1>4, <1>8 DEF OnlyCloses, n, k
  <1>9. ASSUME NEW halted, DeletesLast(s, halted), DeletesLast(q, halted),
               Never(s, "delete") \/ OnlyCloses(q, halted)
        PROVE  DeletesLast(t, halted)
    <2> SUFFICES ASSUME NEW i \in 1 .. Len(t), NEW j \in 1 .. Len(t), t[i].op = "delete", i < j
                 PROVE  halted /\ t[j].op = "close"
      BY DEF DeletesLast
    <2>1. CASE i \in 1 .. n /\ t[i] = s[i] /\ j \in 1 .. n /\ t[j] = s[j]
      BY <1>9, <2>1 DEF DeletesLast, n
    <2>2. CASE i \in 1 .. n /\ t[i] = s[i] /\ j > n /\ j - n \in 1 .. k /\ t[j] = q[j - n]
      BY <1>9, <2>2 DEF Never, OnlyCloses, n, k
    <2>3. CASE i > n /\ i - n \in 1 .. k /\ t[i] = q[i - n] /\ j > n /\ j - n \in 1 .. k /\ t[j] = q[j - n]
      <3>1. i - n < j - n
        BY <1>1
      <3> QED BY <1>9, <2>3, <3>1 DEF DeletesLast, k
    <2> QED BY <1>1, <1>4, <2>1, <2>2, <2>3
  <1>10. ASSUME NEW some, Mute(s, some), Mute(q, some) PROVE Mute(t, some)
    BY <1>4, <1>10 DEF Mute, n, k
  <1> QED BY <1>1, <1>5, <1>6, <1>7, <1>8, <1>9, <1>10 DEF t

LEMMA NoneLeft ==
  /\ <<>> \in Seq(Msg) /\ \A op : Never(<<>>, op) /\ Once(<<>>, op)
  /\ \A halted : OnlyCloses(<<>>, halted) /\ DeletesLast(<<>>, halted)
  /\ \A some : Mute(<<>>, some)
  <1>1. Len(<<>>) = 0
    OBVIOUS
  <1>2. 1 .. 0 = {}
    OBVIOUS
  <1> HIDE DEF Msg
  <1> QED BY <1>1, <1>2 DEF Never, Once, OnlyCloses, DeletesLast, Mute

LEMMA Single ==
  ASSUME NEW m \in Msg
  PROVE  /\ <<m>> \in Seq(Msg)
         /\ \A op : (Never(<<m>>, op) <=> m.op # op) /\ Once(<<m>>, op)
         /\ \A halted : DeletesLast(<<m>>, halted)
         /\ (m.op = "close" => OnlyCloses(<<m>>, TRUE))
         /\ \A some : Quiet(m, some) => Mute(<<m>>, some)
  <1>1. <<m>> \in Seq(Msg) /\ Len(<<m>>) = 1 /\ <<m>>[1] = m
    OBVIOUS
  <1>2. 1 .. 1 = {1}
    OBVIOUS
  <1> QED BY <1>1, <1>2 DEF Never, Once, OnlyCloses, DeletesLast, Mute

TlsState ==
  [phase: {"new", "shake", "ready"}, error: BOOLEAN, held: Nat, queue: Seq(Msg), due: BOOLEAN,
   silent: BOOLEAN]

(* An answer to a startReadWatcher() is on its way in one of the queues; *)
(* and the answers that the network thread owes: those of the user that *)
(* are not in a queue.  After an error of the stream it owes none. *)
Elsewhere == ~Never(tls.queue, "received") \/ ~Never(calls, "read")
Due       == d.readActive \/ (tls.due /\ ~tls.error /\ ~Elsewhere)

(* A connection that its creator has not started yet. *)
Fresh ==
  tls.phase = "new" =>
    /\ calls = <<>> /\ tls.queue = <<>>
    /\ d.conn = "none" /\ d.closeType = NotClosed /\ d.writeBuf = 0
    /\ ~d.readActive /\ ~d.writeActive /\ ~d.freed /\ ~d.deleteAfterWriting /\ ~d.notifySome

(* No call is on its way that would call a user back who let go. *)
MuteCalls == d.conn # "attached" => Mute(calls, d.notifySome) /\ Mute(tls.queue, d.notifySome)

(* The delete call is in one of the queues, with nothing behind it, or the *)
(* record has got it. *)
EndsOnce ==
  /\ d.freed \/ d.deleteAfterWriting => OnlyCloses(calls, stopped) /\ OnlyCloses(tls.queue, stopped)
  /\ DeletesLast(calls, stopped) /\ DeletesLast(tls.queue, stopped)
  /\ ~Never(calls, "delete") => OnlyCloses(tls.queue, stopped) /\ d.conn = "gone"
  /\ ~Never(tls.queue, "delete") => d.conn = "gone"
  /\ d.conn = "gone" => \/ ~Never(calls, "delete") \/ ~Never(tls.queue, "delete")
                        \/ d.freed \/ d.deleteAfterWriting

(* While the read half is open, one startReadWatcher() is on its way: in *)
(* a queue, as an active watcher, or as bytes for the TLS thread. *)
OneReader ==
  R \notin d.closeType =>
    /\ Once(tls.queue, "received") /\ Once(calls, "read") /\ Once(tls.queue, "read")
    /\ Never(tls.queue, "received") \/ Never(calls, "read")
    /\ d.readActive => ~Elsewhere
    /\ d.readActive \/ Elsewhere => tls.due
    /\ ~Never(tls.queue, "read") => ~tls.due

(* The record keeps its promises of reads (none of writes is followed *)
(* here), the queues hold what may still be on its way. *)
TlsInv ==
  /\ IInv /\ TlsTypeOK /\ Fresh
  /\ Promised(d, Due, FALSE) /\ Silent(d) /\ Kept(d, stopped)
  /\ MuteCalls /\ EndsOnce /\ OneReader

(* The TLS thread's state that a step of the network thread leaves. *)
SameTls ==
  /\ tls'.queue = tls.queue /\ tls'.phase = tls.phase
  /\ tls'.due = tls.due /\ tls'.error = tls.error /\ TlsTypeOK'

LEMMA TlsTypes ==
  ASSUME TlsInv
  PROVE  /\ tls \in TlsState /\ tls.queue \in Seq(Msg) /\ calls \in Seq(Call) /\ calls \in Seq(Msg)
         /\ d \in ConnData /\ Due \in BOOLEAN
         /\ tls.due \in BOOLEAN /\ tls.error \in BOOLEAN /\ tls.held \in Nat
         /\ d.conn = "attached" =>
              /\ ~d.freed /\ ~d.deleteAfterWriting /\ tls.phase # "new"
              /\ Never(calls, "delete") /\ Never(tls.queue, "delete")
  <1>1. tls \in TlsState
    BY DEF TlsInv, TlsTypeOK, TlsState, Msg
  <1>2. tls.queue \in Seq(Msg) /\ tls.due \in BOOLEAN /\ tls.error \in BOOLEAN /\ tls.held \in Nat
    BY <1>1 DEF TlsState
  <1>3. calls \in Seq(Call) /\ d \in ConnData
    BY DEF TlsInv, IInv, TypeOK
  <1>4. calls \in Seq(Msg)
    BY <1>3 DEF Msg
  <1>5. d.readActive \in BOOLEAN
    BY <1>3 DEF ConnData
  <1>6. Due \in BOOLEAN
    BY <1>2, <1>5 DEF Due
  <1>7. d.conn = "attached" =>
              /\ ~d.freed /\ ~d.deleteAfterWriting /\ tls.phase # "new"
              /\ Never(calls, "delete") /\ Never(tls.queue, "delete")
    BY DEF TlsInv, Kept, EndsOnce, Fresh
  <1> QED BY <1>1, <1>2, <1>3, <1>4, <1>6, <1>7

LEMMA TlsBegins == TlsInit => TlsInv
  <1> SUFFICES ASSUME TlsInit PROVE TlsInv
    OBVIOUS
  <1>1. IInv /\ calls = <<>>
    BY InitInv DEF TlsInit, Init
  <1>2. /\ d.conn = "none" /\ d.closeType = NotClosed /\ d.writeBuf = 0 /\ d.lastInformed = NotClosed
        /\ ~d.readActive /\ ~d.writeActive /\ ~d.freed /\ ~d.deleteAfterWriting /\ ~d.notifyWrite /\ ~d.notifySome
        /\ d.laterClosed = 0 /\ d.laterFinished = 0 /\ d.laterSome = 0
    BY DEF TlsInit, Init
  <1>3. tls.queue = <<>> /\ tls.due = FALSE /\ tls.phase = "new" /\ tls.error = FALSE /\ tls.held = 0
        /\ tls.silent = FALSE
    BY DEF TlsInit
  <1>4. tls \in TlsState
    <2>1. <<>> \in Seq(Msg)
      BY NoneLeft
    <2> QED BY <2>1 DEF TlsInit, TlsState
  <1>5. TlsTypeOK
    BY <1>4 DEF TlsTypeOK, TlsState, Msg
  <1>6. ~Due /\ Promised(d, Due, FALSE) /\ Silent(d) /\ Kept(d, stopped)
    BY <1>2, <1>3 DEF Due, Promised, Told, Silent, NoCallbacks, Kept
  <1>7. /\ Mute(calls, d.notifySome) /\ Mute(tls.queue, d.notifySome)
        /\ DeletesLast(calls, stopped) /\ DeletesLast(tls.queue, stopped)
        /\ \A op : Never(calls, op) /\ Never(tls.queue, op) /\ Once(calls, op) /\ Once(tls.queue, op)
    BY <1>1, <1>3, NoneLeft
  <1>8. MuteCalls /\ EndsOnce /\ OneReader /\ Fresh
    BY <1>1, <1>2, <1>3, <1>7 DEF MuteCalls, EndsOnce, OneReader, Elsewhere, Fresh
  <1> QED BY <1>1, <1>5, <1>6, <1>8 DEF TlsInv

----------------------------------------
(* The user *)

LEMMA PostParts ==
  ASSUME TlsInv, NEW m \in Call, TlsPost(m)
  PROVE  /\ d.conn = "attached" /\ tls'.queue = tls.queue \o <<m>> /\ m \in Msg
         /\ tls'.due = tls.due /\ tls'.error = tls.error /\ tls'.phase = tls.phase
         /\ TlsTypeOK' /\ m.op # "received"
  <1>1. tls \in TlsState /\ tls.queue \in Seq(Msg) /\ m \in Msg
    BY TlsTypes DEF Msg
  <1>2. m.op # "received"
    BY DEF Call
  <1>3. d.conn = "attached" /\ tls' = [tls EXCEPT !.queue = Append(tls.queue, m)]
    BY DEF TlsPost
  <1>4. Append(tls.queue, m) = tls.queue \o <<m>> /\ Append(tls.queue, m) \in Seq(Msg)
    BY <1>1
  <1> HIDE DEF Msg
  <1>5. /\ tls' \in TlsState /\ tls'.queue = Append(tls.queue, m)
        /\ tls'.due = tls.due /\ tls'.error = tls.error /\ tls'.phase = tls.phase
    BY <1>1, <1>3, <1>4 DEF TlsState
  <1>6. TlsTypeOK'
    BY <1>5 DEF TlsTypeOK, TlsState, Msg
  <1> QED BY <1>1, <1>2, <1>3, <1>4, <1>5, <1>6

LEMMA PostKeeps ==
  ASSUME TlsInv, NEW m \in Call, TlsPost(m), UNCHANGED vars, m.op # "delete",
         m.op = "read" => ~tls.due /\ ~Queued("read")
  PROVE  TlsInv'
  <1>1. /\ d.conn = "attached" /\ tls'.queue = tls.queue \o <<m>> /\ m \in Msg
        /\ tls'.due = tls.due /\ tls'.error = tls.error /\ tls'.phase = tls.phase
        /\ TlsTypeOK' /\ m.op # "received"
    BY PostParts
  <1>2. UNCHANGED <<d, calls, unsent, stopped, readDue, writesOwed>>
    BY DEF vars
  <1>3. /\ calls \in Seq(Msg) /\ tls.queue \in Seq(Msg)
        /\ ~d.freed /\ ~d.deleteAfterWriting /\ tls.phase # "new"
        /\ Never(calls, "delete") /\ Never(tls.queue, "delete")
    BY <1>1, TlsTypes
  <1>4. /\ <<m>> \in Seq(Msg) /\ \A op : (Never(<<m>>, op) <=> m.op # op) /\ Once(<<m>>, op)
        /\ DeletesLast(<<m>>, stopped)
    BY <1>1, Single
  <1>5. /\ \A op : Never(tls'.queue, op) <=> Never(tls.queue, op) /\ m.op # op
        /\ \A op : Once(tls.queue, op) /\ m.op # op => Once(tls'.queue, op)
        /\ \A op : Never(tls.queue, op) => Once(tls'.queue, op)
        /\ DeletesLast(tls.queue, stopped) => DeletesLast(tls'.queue, stopped)
    <2>1. /\ \A op : Never(tls.queue \o <<m>>, op) <=> Never(tls.queue, op) /\ Never(<<m>>, op)
          /\ \A op : Once(tls.queue, op) /\ Never(<<m>>, op) => Once(tls.queue \o <<m>>, op)
          /\ \A op : Never(tls.queue, op) /\ Once(<<m>>, op) => Once(tls.queue \o <<m>>, op)
          /\ \A h : DeletesLast(tls.queue, h) /\ DeletesLast(<<m>>, h) /\ Never(tls.queue, "delete")
                     => DeletesLast(tls.queue \o <<m>>, h)
      BY <1>3, <1>4, Joined
    <2> QED BY <1>1, <1>3, <1>4, <2>1
  <1>6. IInv' /\ Fresh' /\ (Silent(d) /\ Kept(d, stopped))' /\ MuteCalls'
    BY <1>1, <1>2, <1>3 DEF TlsInv, IInv, TypeOK, Fresh, MuteCalls
  <1>7. (Elsewhere' <=> Elsewhere) /\ (Due' <=> Due)
    BY <1>1, <1>2, <1>5 DEF Elsewhere, Due
  <1>8. Promised(d, Due, FALSE)'
    BY <1>2, <1>7 DEF TlsInv, Promised, Told
  <1>9. EndsOnce'
    BY <1>1, <1>2, <1>3, <1>5 DEF TlsInv, EndsOnce
  <1>10. OneReader'
    <2>1. m.op = "read" => Never(tls.queue, "read") /\ ~tls.due
      BY DEF Queued, Never
    <2> QED BY <1>1, <1>2, <1>5, <1>7, <2>1 DEF TlsInv, OneReader
  <1> QED BY <1>1, <1>6, <1>8, <1>9, <1>10 DEF TlsInv

LEMMA TlsUser ==
  TlsInv /\ (TlsUserRead \/ TlsUserWrite \/ TlsUserClose) => TlsInv'
  <1> SUFFICES ASSUME TlsInv, TlsUserRead \/ TlsUserWrite \/ TlsUserClose PROVE TlsInv'
    OBVIOUS
  <1>1. CASE TlsUserRead
    <2>1. [op |-> "read"] \in Call
      BY DEF Call
    <2> QED BY <1>1, <2>1, PostKeeps DEF TlsUserRead
  <1>2. CASE TlsUserWrite
    <2>1. PICK n \in 0 .. MaxWrite, notify \in BOOLEAN : TlsPost([op |-> "write", n |-> n, notify |-> notify])
      BY <1>2 DEF TlsUserWrite
    <2>2. [op |-> "write", n |-> n, notify |-> notify] \in Call
      BY ConnAssumption DEF Call
    <2> QED BY <1>2, <2>1, <2>2, PostKeeps DEF TlsUserWrite
  <1>3. CASE TlsUserClose
    <2>1. PICK type \in UserCloses, notify \in BOOLEAN :
            TlsPost([op |-> "close", type |-> type, notify |-> notify])
      BY <1>3 DEF TlsUserClose
    <2>2. [op |-> "close", type |-> type, notify |-> notify] \in Call
      BY TlsAssumption DEF Call
    <2> QED BY <1>3, <2>1, <2>2, PostKeeps DEF TlsUserClose
  <1> QED BY <1>1, <1>2, <1>3

LEMMA TlsDestroyed == TlsInv /\ TlsDestroy => TlsInv'
  <1> SUFFICES ASSUME TlsInv, TlsDestroy PROVE TlsInv'
    OBVIOUS
  <1> DEFINE m == [op |-> "delete"]
  <1>1. m \in Call /\ m.op = "delete"
    BY DEF Call
  <1>2. /\ NothingPending /\ ~tls.due /\ TlsPost(m)
        /\ \A i \in 1 .. Len(tls.queue) : tls.queue[i].op # "received" /\ ~CallMayCallBack(tls.queue[i])
        /\ d' = [d EXCEPT !.conn = "gone"]
        /\ UNCHANGED <<calls, unsent, stopped, readDue, writesOwed>>
    BY DEF TlsDestroy, ledger
  <1> HIDE DEF m
  <1>3. /\ d.conn = "attached" /\ tls'.queue = tls.queue \o <<m>> /\ m \in Msg
        /\ tls'.due = tls.due /\ tls'.error = tls.error /\ tls'.phase = tls.phase /\ TlsTypeOK'
    BY <1>1, <1>2, PostParts
  <1>4. /\ calls \in Seq(Msg) /\ calls \in Seq(Call) /\ tls.queue \in Seq(Msg) /\ d \in ConnData
        /\ ~d.freed /\ ~d.deleteAfterWriting /\ tls.phase # "new"
        /\ Never(calls, "delete") /\ Never(tls.queue, "delete")
    BY <1>3, TlsTypes
  <1>5. /\ d' \in ConnData /\ SameSocket(d, d') /\ d'.conn = "gone" /\ d'.notifySome = d.notifySome
        /\ d'.freed = d.freed /\ d'.deleteAfterWriting = d.deleteAfterWriting
        /\ d'.notifyWrite = d.notifyWrite /\ d'.lastInformed = d.lastInformed
        /\ d'.laterClosed = d.laterClosed /\ d'.laterFinished = d.laterFinished
        /\ d'.laterSome = d.laterSome
    BY <1>2, <1>4 DEF ConnData, Owner, SameSocket
  <1>6. IInv' /\ Fresh'
    BY <1>2, <1>3, <1>4, <1>5, SameSocketInv DEF TlsInv, IInv, TypeOK, Fresh
  <1>7. NoCallbacks(d') /\ (d'.notifySome => ~d'.writeActive)
    BY <1>2, <1>5 DEF NothingPending, NoCallbacks, SameSocket
  <1>8. Silent(d') /\ Kept(d', stopped')
    BY <1>4, <1>5, <1>7 DEF Silent, Kept
  <1>9. /\ <<m>> \in Seq(Msg) /\ \A op : (Never(<<m>>, op) <=> m.op # op) /\ Once(<<m>>, op)
        /\ DeletesLast(<<m>>, stopped) /\ (Quiet(m, d.notifySome) => Mute(<<m>>, d.notifySome))
    BY <1>3, Single
  <1>10. /\ \A op : Never(tls'.queue, op) <=> Never(tls.queue, op) /\ m.op # op
         /\ \A op : Once(tls.queue, op) /\ m.op # op => Once(tls'.queue, op)
         /\ DeletesLast(tls.queue, stopped) => DeletesLast(tls'.queue, stopped)
         /\ Mute(tls.queue, d.notifySome) /\ Mute(<<m>>, d.notifySome) => Mute(tls'.queue, d.notifySome)
    <2>1. /\ \A op : Never(tls.queue \o <<m>>, op) <=> Never(tls.queue, op) /\ Never(<<m>>, op)
          /\ \A op : Once(tls.queue, op) /\ Never(<<m>>, op) => Once(tls.queue \o <<m>>, op)
          /\ \A h : DeletesLast(tls.queue, h) /\ DeletesLast(<<m>>, h) /\ Never(tls.queue, "delete")
                     => DeletesLast(tls.queue \o <<m>>, h)
          /\ \A some : Mute(tls.queue, some) /\ Mute(<<m>>, some) => Mute(tls.queue \o <<m>>, some)
      BY <1>4, <1>9, Joined
    <2> QED BY <1>3, <1>4, <1>9, <2>1
  <1>11. /\ Mute(calls, d.notifySome) /\ Mute(tls.queue, d.notifySome) /\ Quiet(m, d.notifySome)
         /\ Never(calls, "read")
    <2>1. \A i \in 1 .. Len(calls) : calls[i].op # "received"
      BY <1>4 DEF Call
    <2> QED BY <1>1, <1>2, <2>1 DEF Mute, Quiet, CallMayCallBack, NothingPending, Never
  <1>12. MuteCalls'
    BY <1>2, <1>5, <1>9, <1>10, <1>11 DEF MuteCalls
  <1>13. (Elsewhere' <=> Elsewhere) /\ (Due' <=> Due)
    BY <1>1, <1>2, <1>3, <1>5, <1>10 DEF Elsewhere, Due, SameSocket
  <1>14. Promised(d, Due, FALSE)'
    BY <1>5, <1>13 DEF TlsInv, Promised, Told, SameSocket
  <1>15. EndsOnce'
    BY <1>1, <1>2, <1>4, <1>5, <1>10 DEF TlsInv, EndsOnce
  <1>16. OneReader'
    BY <1>1, <1>2, <1>3, <1>5, <1>10, <1>13 DEF TlsInv, OneReader, SameSocket
  <1> QED BY <1>3, <1>6, <1>8, <1>12, <1>14, <1>15, <1>16 DEF TlsInv

----------------------------------------
(* The TLS thread *)

LEMMA DoesParts ==
  ASSUME TlsInv, NEW op, NEW t \in TlsState, t.queue = tls.queue, NEW posted \in Seq(Call),
         Does(op, t, posted)
  PROVE  /\ tls.queue # <<>> /\ Head(tls.queue) \in Msg /\ Head(tls.queue).op = op /\ tls.phase # "new"
         /\ tls'.queue = Tail(tls.queue)
         /\ tls'.due = t.due /\ tls'.error = t.error /\ tls'.phase = t.phase /\ TlsTypeOK'
         /\ UNCHANGED <<d, unsent, stopped>> /\ IInv'
         /\ \A o : Never(tls.queue, o) <=> op # o /\ Never(tls'.queue, o)
         /\ \A o : Once(tls.queue, o) => Once(tls'.queue, o) /\ (op = o => Never(tls'.queue, o))
         /\ \A o : Never(calls', o) <=> Never(calls, o) /\ Never(posted, o)
         /\ \A o : Once(calls, o) /\ Never(posted, o) => Once(calls', o)
         /\ \A o : Never(calls, o) /\ Once(posted, o) => Once(calls', o)
         /\ d.conn # "attached" => Quiet(Head(tls.queue), d.notifySome)
  <1>1. /\ tls \in TlsState /\ tls.queue \in Seq(Msg) /\ calls \in Seq(Call) /\ calls \in Seq(Msg)
        /\ posted \in Seq(Msg)
    BY TlsTypes DEF Msg
  <1>2. /\ tls.queue # <<>> /\ Head(tls.queue).op = op /\ calls' = calls \o posted
        /\ tls' = [t EXCEPT !.queue = Tail(t.queue)]
        /\ UNCHANGED <<d, unsent, stopped, readDue, writesOwed>>
    BY DEF Does, ledger
  <1>3. Head(tls.queue) \in Msg /\ Tail(tls.queue) \in Seq(Msg)
    BY <1>1, <1>2, TailParts
  <1>4. /\ tls' \in TlsState /\ tls'.queue = Tail(tls.queue)
        /\ tls'.due = t.due /\ tls'.error = t.error /\ tls'.phase = t.phase
    BY <1>2, <1>3 DEF TlsState
  <1>5. TlsTypeOK'
    BY <1>4 DEF TlsTypeOK, TlsState, Msg
  <1>6. calls' \in Seq(Call)
    BY <1>1, <1>2
  <1>7. IInv'
    BY <1>2, <1>6 DEF TlsInv, IInv, TypeOK
  <1>8. tls.phase # "new"
    BY <1>2 DEF TlsInv, Fresh
  <1>9. /\ \A o : Never(tls.queue, o) <=> op # o /\ Never(tls'.queue, o)
        /\ \A o : Once(tls.queue, o) => Once(tls'.queue, o) /\ (op = o => Never(tls'.queue, o))
        /\ d.conn # "attached" => Quiet(Head(tls.queue), d.notifySome)
    <2>1. /\ \A o : Never(tls.queue, o) <=> Head(tls.queue).op # o /\ Never(Tail(tls.queue), o)
          /\ \A o : Once(tls.queue, o) =>
               Once(Tail(tls.queue), o) /\ (Head(tls.queue).op = o => Never(Tail(tls.queue), o))
          /\ \A some : Mute(tls.queue, some) => Quiet(Head(tls.queue), some)
      BY <1>1, <1>2, TailOf
    <2> QED BY <1>2, <1>4, <2>1 DEF TlsInv, MuteCalls
  <1>10. /\ \A o : Never(calls', o) <=> Never(calls, o) /\ Never(posted, o)
         /\ \A o : Once(calls, o) /\ Never(posted, o) => Once(calls', o)
         /\ \A o : Never(calls, o) /\ Once(posted, o) => Once(calls', o)
    <2>1. /\ \A o : Never(calls \o posted, o) <=> Never(calls, o) /\ Never(posted, o)
          /\ \A o : Once(calls, o) /\ Never(posted, o) => Once(calls \o posted, o)
          /\ \A o : Never(calls, o) /\ Once(posted, o) => Once(calls \o posted, o)
      BY <1>1, Joined
    <2> QED BY <1>2, <2>1
  <1> QED BY <1>2, <1>3, <1>4, <1>5, <1>7, <1>8, <1>9, <1>10

(* What is posted goes down the way the call of the head went. *)
Follows(op, posted) ==
  /\ d.conn # "attached" => Mute(posted, d.notifySome)
  /\ \A h : DeletesLast(posted, h)
  /\ (op = "delete") <=> ~Never(posted, "delete")
  /\ OnlyCloses(tls.queue, stopped) => OnlyCloses(posted, stopped)

LEMMA DoesKeeps ==
  ASSUME TlsInv, NEW op, NEW t \in TlsState, t.queue = tls.queue, NEW posted \in Seq(Call),
         Does(op, t, posted), t.phase # "new", Follows(op, posted), OneReader',
         Due' => Due
  PROVE  TlsInv'
  <1>1. /\ tls.queue # <<>> /\ Head(tls.queue).op = op
        /\ tls'.queue = Tail(tls.queue) /\ tls'.phase = t.phase /\ TlsTypeOK'
        /\ UNCHANGED <<d, unsent, stopped>> /\ IInv'
        /\ \A o : Never(tls.queue, o) <=> op # o /\ Never(tls'.queue, o)
        /\ \A o : Never(calls', o) <=> Never(calls, o) /\ Never(posted, o)
    BY DoesParts
  <1>2. /\ tls.queue \in Seq(Msg) /\ calls \in Seq(Msg) /\ posted \in Seq(Msg)
    BY TlsTypes DEF Msg
  <1>3. calls' = calls \o posted
    BY DEF Does
  <1>4. /\ \A h : OnlyCloses(tls.queue, h) => OnlyCloses(tls'.queue, h)
        /\ \A h : DeletesLast(tls.queue, h) =>
             DeletesLast(tls'.queue, h) /\ (op = "delete" => OnlyCloses(tls'.queue, h))
        /\ \A some : Mute(tls.queue, some) => Mute(tls'.queue, some)
    <2>1. /\ \A h : OnlyCloses(tls.queue, h) => OnlyCloses(Tail(tls.queue), h)
          /\ \A h : DeletesLast(tls.queue, h) =>
               DeletesLast(Tail(tls.queue), h) /\ (Head(tls.queue).op = "delete" => OnlyCloses(Tail(tls.queue), h))
          /\ \A some : Mute(tls.queue, some) => Mute(Tail(tls.queue), some)
      BY <1>1, <1>2, TailOf
    <2> QED BY <1>1, <2>1
  <1>5. /\ \A h : OnlyCloses(calls, h) /\ OnlyCloses(posted, h) => OnlyCloses(calls', h)
        /\ \A h : DeletesLast(calls, h) /\ DeletesLast(posted, h)
                    /\ (Never(calls, "delete") \/ OnlyCloses(posted, h)) => DeletesLast(calls', h)
        /\ \A some : Mute(calls, some) /\ Mute(posted, some) => Mute(calls', some)
    <2>1. /\ \A h : OnlyCloses(calls, h) /\ OnlyCloses(posted, h) => OnlyCloses(calls \o posted, h)
          /\ \A h : DeletesLast(calls, h) /\ DeletesLast(posted, h)
                      /\ (Never(calls, "delete") \/ OnlyCloses(posted, h)) => DeletesLast(calls \o posted, h)
          /\ \A some : Mute(calls, some) /\ Mute(posted, some) => Mute(calls \o posted, some)
      BY <1>2, Joined
    <2> QED BY <1>3, <2>1
  <1>6. MuteCalls'
    BY <1>1, <1>4, <1>5 DEF TlsInv, MuteCalls, Follows
  <1>7. EndsOnce'
    BY <1>1, <1>4, <1>5 DEF TlsInv, EndsOnce, Follows
  <1>8. Promised(d, Due, FALSE)'
    <2>1. d'.readActive => Due'
      BY DEF Due
    <2> QED BY <1>1, <2>1 DEF TlsInv, Promised, Told
  <1>9. Fresh' /\ (Silent(d) /\ Kept(d, stopped))'
    BY <1>1 DEF TlsInv, Fresh
  <1> QED BY <1>1, <1>6, <1>7, <1>8, <1>9 DEF TlsInv

LEMMA SingleFollows ==
  ASSUME TlsInv, NEW m \in Call, NEW op, Head(tls.queue).op = op, tls.queue # <<>>,
         d.conn # "attached" => Quiet(m, d.notifySome),
         (op = "delete") <=> (m.op = "delete"), op # "close" \/ m = Head(tls.queue)
  PROVE  /\ Follows(op, <<m>>) /\ <<m>> \in Seq(Call)
         /\ \A o : Never(<<m>>, o) <=> m.op # o
         /\ \A o : Once(<<m>>, o)
  <1>1. m \in Msg /\ <<m>> \in Seq(Call) /\ tls.queue \in Seq(Msg)
    BY TlsTypes DEF Msg
  <1>2. /\ \A o : (Never(<<m>>, o) <=> m.op # o) /\ Once(<<m>>, o)
        /\ \A h : DeletesLast(<<m>>, h)
        /\ \A some : Quiet(m, some) => Mute(<<m>>, some)
    BY <1>1, Single
  <1>3. OnlyCloses(tls.queue, stopped) => OnlyCloses(<<Head(tls.queue)>>, stopped) /\ op = "close"
    BY <1>1, TailOf
  <1> QED BY <1>1, <1>2, <1>3 DEF Follows

(* A call that is passed on, or becomes another one that asks for nothing. *)
LEMMA PassKeeps ==
  ASSUME TlsInv, NEW op, op \notin {"read", "received"}, NEW t \in TlsState, t.queue = tls.queue,
         t.phase # "new", t.due = tls.due, tls.error => t.error,
         NEW m \in Call, m.op # "read", Does(op, t, <<m>>),
         d.conn # "attached" => Quiet(m, d.notifySome),
         (op = "delete") <=> (m.op = "delete"), op # "close" \/ m = Head(tls.queue)
  PROVE  TlsInv'
  <1>1. tls.queue # <<>> /\ Head(tls.queue).op = op
    BY DEF Does
  <1>2. /\ Follows(op, <<m>>) /\ <<m>> \in Seq(Call)
        /\ \A o : Never(<<m>>, o) <=> m.op # o
    BY <1>1, SingleFollows
  <1>3. /\ tls'.due = t.due /\ tls'.error = t.error /\ UNCHANGED d
        /\ \A o : Never(tls.queue, o) <=> op # o /\ Never(tls'.queue, o)
        /\ \A o : Once(tls.queue, o) => Once(tls'.queue, o)
        /\ \A o : Never(calls', o) <=> Never(calls, o) /\ Never(<<m>>, o)
        /\ \A o : Once(calls, o) /\ Never(<<m>>, o) => Once(calls', o)
    BY <1>2, DoesParts
  <1>4. Elsewhere' <=> Elsewhere
    BY <1>2, <1>3 DEF Elsewhere, Call
  <1>5. Due' => Due
    BY <1>3, <1>4 DEF Due
  <1>6. OneReader'
    BY <1>2, <1>3, <1>4 DEF TlsInv, OneReader
  <1> QED BY <1>2, <1>5, <1>6, DoesKeeps

LEMMA TlsPasses == TlsInv /\ PassOn => TlsInv'
  <1> SUFFICES ASSUME TlsInv, PassOn PROVE TlsInv'
    OBVIOUS
  <1> DEFINE m == Head(tls.queue)
             w == [tls EXCEPT !.due = TRUE]
  <1>1. tls \in TlsState /\ tls.queue \in Seq(Msg)
    BY TlsTypes
  <1>2. /\ w \in TlsState /\ w.queue = tls.queue /\ w.phase = tls.phase /\ w.due = TRUE
        /\ w.error = tls.error
    BY <1>1 DEF TlsState
  <1>3. \/ Does("read", w, <<m>>) \/ Does("close", tls, <<m>>) \/ Does("delete", tls, <<m>>)
    BY DEF PassOn
  <1>4. tls.queue # <<>> /\ m.op \in {"read", "close", "delete"} /\ tls.phase # "new" /\ m \in Msg
    BY <1>1, <1>3, TailParts DEF Does, TlsInv, Fresh
  <1>5. m \in Call
    BY <1>4 DEF Msg
  <1>6. d.conn # "attached" => Quiet(m, d.notifySome)
    <2>1. \A some : Mute(tls.queue, some) => Quiet(m, some)
      BY <1>1, <1>4, TailOf
    <2> QED BY <2>1 DEF TlsInv, MuteCalls
  <1> HIDE DEF w, m
  <1>7. CASE Does("read", w, <<m>>)
    <2>1. m.op = "read"
      BY <1>7 DEF Does, m
    <2>2. /\ Follows("read", <<m>>) /\ <<m>> \in Seq(Call)
          /\ \A o : (Never(<<m>>, o) <=> m.op # o) /\ Once(<<m>>, o)
      BY <1>4, <1>5, <1>6, <2>1, SingleFollows DEF m
    <2>3. /\ tls'.due = TRUE /\ UNCHANGED d
          /\ \A o : Never(tls.queue, o) <=> "read" # o /\ Never(tls'.queue, o)
          /\ \A o : Once(tls.queue, o) => Once(tls'.queue, o) /\ ("read" = o => Never(tls'.queue, o))
          /\ \A o : Never(calls', o) <=> Never(calls, o) /\ Never(<<m>>, o)
          /\ \A o : Never(calls, o) /\ Once(<<m>>, o) => Once(calls', o)
      BY <1>2, <1>7, <2>2, DoesParts
    <2>4. Elsewhere' /\ ~Never(tls.queue, "read")
      BY <2>1, <2>2, <2>3 DEF Elsewhere
    <2>5. Due' => Due
      BY <2>3, <2>4 DEF Due
    <2>6. OneReader'
      <3> SUFFICES ASSUME R \notin d.closeType
                   PROVE  /\ Once(tls'.queue, "received") /\ Once(calls', "read") /\ Once(tls'.queue, "read")
                          /\ Never(tls'.queue, "received")
                          /\ ~d.readActive /\ Never(tls'.queue, "read")
        BY <2>3 DEF OneReader
      <3>1. /\ Once(tls.queue, "received") /\ Once(tls.queue, "read")
            /\ ~d.readActive /\ Never(tls.queue, "received") /\ Never(calls, "read")
        BY <2>4 DEF TlsInv, OneReader, Elsewhere
      <3> QED BY <2>2, <2>3, <3>1
    <2> QED BY <1>2, <1>4, <1>7, <2>2, <2>5, <2>6, DoesKeeps
  <1>8. CASE Does("close", tls, <<m>>)
    <2>1. m.op = "close"
      BY <1>8 DEF Does, m
    <2> QED BY <1>1, <1>4, <1>5, <1>6, <1>8, <2>1, PassKeeps DEF m
  <1>9. CASE Does("delete", tls, <<m>>)
    <2>1. m.op = "delete"
      BY <1>9 DEF Does, m
    <2> QED BY <1>1, <1>4, <1>5, <1>6, <1>9, <2>1, PassKeeps DEF m
  <1> QED BY <1>3, <1>7, <1>8, <1>9

LEMMA TlsEncrypts == TlsInv /\ Encrypt => TlsInv'
  <1> SUFFICES ASSUME TlsInv, Encrypt PROVE TlsInv'
    OBVIOUS
  <1> DEFINE m == Head(tls.queue)
             h == tls.held + m.n
             e == [tls EXCEPT !.error = TRUE]
             k == [tls EXCEPT !.held = h]
  <1>1. tls \in TlsState /\ tls.queue \in Seq(Msg) /\ tls.held \in Nat
    BY TlsTypes
  <1>2. \/ Does("write", tls, <<m>>)
        \/ Does("write", e, <<Close(ReadWriteClosed, m.notify)>>)
        \/ Does("write", k, <<Write(0, m.notify)>>)
    BY DEF Encrypt
  <1>3. tls.queue # <<>> /\ m.op = "write" /\ tls.phase # "new" /\ m \in Msg
    BY <1>1, <1>2, TailParts DEF Does, TlsInv, Fresh
  <1>4. m \in Call
    BY <1>3 DEF Msg
  <1>5. m.n \in Nat /\ m.notify \in BOOLEAN /\ h \in Nat
    BY <1>1, <1>3, <1>4, CallFields
  <1>6. d.conn # "attached" => Quiet(m, d.notifySome)
    <2>1. \A some : Mute(tls.queue, some) => Quiet(m, some)
      BY <1>1, <1>3, TailOf
    <2> QED BY <2>1 DEF TlsInv, MuteCalls
  <1> HIDE DEF m, h
  <1>7. /\ e \in TlsState /\ e.queue = tls.queue /\ e.phase = tls.phase /\ e.due = tls.due /\ e.error = TRUE
        /\ k \in TlsState /\ k.queue = tls.queue /\ k.phase = tls.phase /\ k.due = tls.due
        /\ k.error = tls.error
    BY <1>1, <1>5 DEF TlsState
  <1> HIDE DEF e, k
  <1>8. CASE Does("write", tls, <<m>>)
    BY <1>1, <1>3, <1>4, <1>6, <1>8, PassKeeps
  <1>9. CASE Does("write", e, <<Close(ReadWriteClosed, m.notify)>>)
    <2> DEFINE c == Close(ReadWriteClosed, m.notify)
    <2>1. c \in Call /\ c.op = "close" /\ c.notify = m.notify
      BY <1>5 DEF Close, Call, CloseType, NotClosed, ReadWriteClosed
    <2> HIDE DEF c
    <2>2. d.conn # "attached" => Quiet(c, d.notifySome)
      BY <1>3, <1>6, <2>1 DEF Quiet
    <2>3. Does("write", e, <<c>>)
      BY <1>9 DEF c
    <2> QED BY <1>3, <1>7, <2>1, <2>2, <2>3, PassKeeps
  <1>10. CASE Does("write", k, <<Write(0, m.notify)>>)
    <2> DEFINE c == Write(0, m.notify)
    <2>1. c \in Call /\ c.op = "write" /\ c.notify = m.notify
      BY <1>5 DEF Write, Call
    <2> HIDE DEF c
    <2>2. d.conn # "attached" => Quiet(c, d.notifySome)
      BY <1>3, <1>6, <2>1 DEF Quiet
    <2>3. Does("write", k, <<c>>)
      BY <1>10 DEF c
    <2> QED BY <1>3, <1>7, <2>1, <2>2, <2>3, PassKeeps
  <1> QED BY <1>2, <1>8, <1>9, <1>10

(* What the TLS thread makes of the bytes received. *)
LEMMA AnswerParts ==
  ASSUME NEW n \in Nat, NEW plain \in BOOLEAN, NEW ok \in BOOLEAN
  PROVE  LET p == SendBack(n) \o More(plain, ok) IN
         /\ p \in Seq(Call) /\ Never(p, "delete") /\ Once(p, "read")
         /\ Never(p, "read") <=> plain \/ ~ok
  <1> DEFINE s == SendBack(n)
             q == More(plain, ok)
  <1>1. /\ [op |-> "read"] \in Call
        /\ Close(ReadWriteClosed, FALSE) \in Call /\ Close(ReadWriteClosed, TRUE) \in Call
        /\ Write(n, FALSE) \in Call
    BY DEF Close, Write, Call, CloseType, NotClosed, ReadWriteClosed
  <1>2. ASSUME NEW c \in Call
        PROVE  <<c>> \in Seq(Call) /\ \A o : (Never(<<c>>, o) <=> c.op # o) /\ Once(<<c>>, o)
    <2>1. c \in Msg
      BY DEF Msg
    <2>2. <<c>> \in Seq(Call)
      OBVIOUS
    <2> QED BY <2>1, <2>2, Single
  <1>3. <<>> \in Seq(Call) /\ \A o : Never(<<>>, o) /\ Once(<<>>, o)
    BY NoneLeft
  <1>4. s \in Seq(Call) /\ Never(s, "delete") /\ Never(s, "read")
    <2>1. CASE n = 0
      BY <1>3, <2>1 DEF SendBack
    <2>2. CASE n # 0
      <3>1. s = <<Write(n, FALSE)>> /\ Write(n, FALSE).op = "write"
        BY <2>2 DEF SendBack, Write
      <3> QED BY <1>1, <1>2, <3>1
    <2> QED BY <2>1, <2>2
  <1>5. q \in Seq(Call) /\ Never(q, "delete") /\ Once(q, "read") /\ (Never(q, "read") <=> plain \/ ~ok)
    <2>1. CASE plain /\ ok
      BY <1>3, <2>1 DEF More
    <2>2. CASE plain /\ ~ok
      <3>1. q = <<Close(ReadWriteClosed, FALSE)>> /\ Close(ReadWriteClosed, FALSE).op = "close"
        BY <2>2 DEF More, Close
      <3> QED BY <1>1, <1>2, <2>2, <3>1
    <2>3. CASE ~plain /\ ok
      <3>1. q = <<[op |-> "read"]>>
        BY <2>3 DEF More
      <3> QED BY <1>1, <1>2, <2>3, <3>1
    <2>4. CASE ~plain /\ ~ok
      <3>1. q = <<Close(ReadWriteClosed, TRUE)>> /\ Close(ReadWriteClosed, TRUE).op = "close"
        BY <2>4 DEF More, Close
      <3> QED BY <1>1, <1>2, <2>4, <3>1
    <2> QED BY <2>1, <2>2, <2>3, <2>4
  <1> HIDE DEF s, q
  <1>6. s \in Seq(Msg) /\ q \in Seq(Msg) /\ s \o q \in Seq(Call)
    BY <1>4, <1>5 DEF Msg
  <1>7. /\ \A o : Never(s \o q, o) <=> Never(s, o) /\ Never(q, o)
        /\ \A o : Never(s, o) /\ Once(q, o) => Once(s \o q, o)
    BY <1>6, Joined
  <1>8. s \o q \in Seq(Call) /\ Never(s \o q, "delete") /\ Once(s \o q, "read")
        /\ (Never(s \o q, "read") <=> plain \/ ~ok)
    BY <1>4, <1>5, <1>6, <1>7
  <1> QED BY <1>8 DEF s, q

LEMMA ReceivedKeeps ==
  ASSUME TlsInv, NEW t \in TlsState, t.queue = tls.queue, t.phase # "new", t.due = tls.due,
         NEW n \in Nat, NEW plain \in BOOLEAN, NEW ok \in BOOLEAN, tls.error => ~ok,
         Received(t, n, plain, ok)
  PROVE  TlsInv'
  <1> DEFINE u == t.due /\ ~plain
             f == ~ok
             p == SendBack(n) \o More(plain, ok)
             w == [t EXCEPT !.due = @ /\ ~plain, !.error = ~ok]
  <1>1. tls \in TlsState /\ tls.queue \in Seq(Msg) /\ t.due \in BOOLEAN
    BY TlsTypes DEF TlsState
  <1>2. Does("received", w, p)
    BY DEF Received
  <1>3. u \in BOOLEAN /\ f \in BOOLEAN /\ w = [t EXCEPT !.due = u, !.error = f]
    BY <1>1
  <1>4. p \in Seq(Call) /\ Never(p, "delete") /\ Once(p, "read") /\ (Never(p, "read") <=> plain \/ ~ok)
    BY AnswerParts
  <1>5. (u <=> tls.due /\ ~plain) /\ (f <=> ~ok)
    OBVIOUS
  <1> HIDE DEF u, f, p, w
  <1>6. /\ w \in TlsState /\ w.queue = tls.queue /\ w.phase = t.phase /\ w.due = u /\ w.error = f
    BY <1>3 DEF TlsState
  <1>7. /\ tls.queue # <<>> /\ Head(tls.queue).op = "received"
        /\ tls'.due = u /\ tls'.error = f /\ UNCHANGED <<d, stopped>>
        /\ \A o : Never(tls.queue, o) <=> "received" # o /\ Never(tls'.queue, o)
        /\ \A o : Once(tls.queue, o) => Once(tls'.queue, o) /\ ("received" = o => Never(tls'.queue, o))
        /\ \A o : Never(calls', o) <=> Never(calls, o) /\ Never(p, o)
        /\ \A o : Once(calls, o) /\ Never(p, o) => Once(calls', o)
        /\ \A o : Never(calls, o) /\ Once(p, o) => Once(calls', o)
        /\ d.conn # "attached" => Quiet(Head(tls.queue), d.notifySome)
    BY <1>2, <1>4, <1>6, DoesParts
  <1>8. d.conn = "attached"
    BY <1>7 DEF Quiet
  <1>9. Follows("received", p)
    <2>1. ~OnlyCloses(tls.queue, stopped)
      <3>1. \A h : OnlyCloses(tls.queue, h) => Head(tls.queue).op = "close"
        BY <1>1, <1>7, TailOf
      <3> QED BY <1>7, <3>1
    <2>2. \A h : DeletesLast(p, h)
      BY <1>4 DEF Never, DeletesLast
    <2> QED BY <1>4, <1>8, <2>1, <2>2 DEF Follows
  <1>10. Due' => Due
    <2>1. CASE plain \/ ~ok
      BY <1>5, <1>7, <2>1 DEF Due
    <2>2. CASE ~(plain \/ ~ok)
      <3>1. Elsewhere'
        BY <1>4, <1>7, <2>2 DEF Elsewhere
      <3> QED BY <1>7, <3>1 DEF Due
    <2> QED BY <2>1, <2>2
  <1>11. OneReader'
    <2> SUFFICES ASSUME R \notin d.closeType
                 PROVE  /\ Once(tls'.queue, "received") /\ Once(calls', "read") /\ Once(tls'.queue, "read")
                        /\ Never(tls'.queue, "received")
                        /\ ~d.readActive /\ (~Never(calls', "read") => tls'.due)
                        /\ Never(tls'.queue, "read")
      BY <1>7 DEF OneReader, Elsewhere
    <2>1. /\ Once(tls.queue, "received") /\ Once(tls.queue, "read") /\ Never(calls, "read")
          /\ ~d.readActive /\ tls.due /\ Never(tls.queue, "read")
      BY <1>7 DEF TlsInv, OneReader, Elsewhere
    <2> QED BY <1>4, <1>5, <1>7, <2>1
  <1> QED BY <1>2, <1>4, <1>6, <1>9, <1>10, <1>11, DoesKeeps

LEMMA TlsDecrypts == TlsInv /\ Decrypt => TlsInv'
  <1> SUFFICES ASSUME TlsInv, Decrypt PROVE TlsInv'
    OBVIOUS
  <1> DEFINE sent(ok) == IF ok THEN tls.held ELSE 0
             left(ok) == tls.held - sent(ok)
             r(ok) == [tls EXCEPT !.phase = "ready", !.held = left(ok)]
  <1>1. tls \in TlsState /\ tls.held \in Nat /\ tls.error \in BOOLEAN
    BY TlsTypes
  <1>2. \A ok : sent(ok) \in Nat /\ left(ok) \in Nat
    BY <1>1
  <1> HIDE DEF sent, left
  <1>5. \A ok : /\ r(ok) \in TlsState /\ r(ok).queue = tls.queue
                /\ r(ok).phase = "ready" /\ r(ok).due = tls.due
    BY <1>1, <1>2 DEF TlsState
  <1> HIDE DEF r
  <1>3. CASE tls.error /\ Received(tls, 0, FALSE, FALSE)
    <2> DEFINE no == FALSE
    <2>1. Received(tls, 0, no, no) /\ no \in BOOLEAN /\ ~no /\ 0 \in Nat
      BY <1>3
    <2>2. tls.phase # "new"
      BY <1>3 DEF Received, Does, TlsInv, Fresh
    <2> HIDE DEF no
    <2> QED BY <1>1, <2>1, <2>2, ReceivedKeeps
  <1>4. ASSUME NEW back \in 0 .. 1, NEW plain \in BOOLEAN, NEW ok \in BOOLEAN, ~tls.error,
               \/ tls.phase = "shake" /\ ~plain /\ Received(tls, back, FALSE, ok)
               \/ tls.phase = "ready" /\ Received(tls, back, plain, ok)
               \/ tls.phase = "shake" /\ Received(r(ok), back + sent(ok), plain, ok)
        PROVE  TlsInv'
    <2> DEFINE no == FALSE
               n == back + sent(ok)
    <2>1. no \in BOOLEAN /\ ~no /\ back \in Nat /\ n \in Nat
      BY <1>2
    <2>2. \/ tls.phase = "shake" /\ Received(tls, back, no, ok)
          \/ tls.phase = "ready" /\ Received(tls, back, plain, ok)
          \/ Received(r(ok), n, plain, ok)
      BY <1>4
    <2> HIDE DEF no, n
    <2>3. CASE tls.phase = "shake" /\ Received(tls, back, no, ok)
      BY <1>1, <1>4, <2>1, <2>3, ReceivedKeeps
    <2>4. CASE tls.phase = "ready" /\ Received(tls, back, plain, ok)
      BY <1>1, <1>4, <2>1, <2>4, ReceivedKeeps
    <2>5. CASE Received(r(ok), n, plain, ok)
      <3> DEFINE t == r(ok)
      <3>1. t \in TlsState /\ t.queue = tls.queue /\ t.phase # "new" /\ t.due = tls.due
        BY <1>5
      <3>2. Received(t, n, plain, ok)
        BY <2>5
      <3> HIDE DEF t
      <3> QED BY <1>4, <2>1, <3>1, <3>2, ReceivedKeeps
    <2> QED BY <2>2, <2>3, <2>4, <2>5
  <1> QED BY <1>3, <1>4 DEF Decrypt, r, sent, left

----------------------------------------
(* The network thread *)

LEMMA HandleParts ==
  ASSUME TlsInv, NEW op, Handle(op)
  PROVE  /\ calls # <<>> /\ Head(calls) \in Call /\ Head(calls).op = op /\ calls' = Tail(calls)
         /\ \A o : Never(calls, o) <=> op # o /\ Never(calls', o)
         /\ \A o : Once(calls, o) => Once(calls', o) /\ (op = o => Never(calls', o))
         /\ \A h : OnlyCloses(calls, h) => OnlyCloses(calls', h)
         /\ \A h : DeletesLast(calls, h) =>
              DeletesLast(calls', h) /\ (op = "delete" => OnlyCloses(calls', h))
         /\ \A some : Mute(calls, some) => Mute(calls', some)
         /\ d.conn # "attached" => ~CallMayCallBack(Head(calls)) /\ op # "read"
         /\ d.freed \/ d.deleteAfterWriting => stopped /\ op = "close"
         /\ op = "delete" => d.conn = "gone"
         /\ tls.phase # "new"
  <1>1. /\ calls # <<>> /\ calls' = Tail(calls) /\ calls \in Seq(Call) /\ calls \in Seq(Msg)
        /\ Head(calls).op = op
    BY TlsTypes DEF Handle
  <1>2. /\ \A o : Never(calls, o) <=> Head(calls).op # o /\ Never(Tail(calls), o)
        /\ \A o : Once(calls, o) => Once(Tail(calls), o) /\ (Head(calls).op = o => Never(Tail(calls), o))
        /\ \A h : OnlyCloses(calls, h) =>
             OnlyCloses(Tail(calls), h) /\ OnlyCloses(<<Head(calls)>>, h) /\ Head(calls).op = "close"
        /\ \A h : DeletesLast(calls, h) =>
             DeletesLast(Tail(calls), h) /\ (Head(calls).op = "delete" => OnlyCloses(Tail(calls), h))
        /\ \A some : Mute(calls, some) => Mute(Tail(calls), some) /\ Quiet(Head(calls), some)
    BY <1>1, TailOf
  <1>3. Head(calls) \in Call /\ 1 \in 1 .. Len(calls)
    BY <1>1
  <1>4. d.conn # "attached" => ~CallMayCallBack(Head(calls)) /\ op # "read"
    BY <1>1, <1>2 DEF TlsInv, MuteCalls, Quiet, CallMayCallBack
  <1>5. d.freed \/ d.deleteAfterWriting => stopped /\ op = "close"
    BY <1>1, <1>2, <1>3 DEF TlsInv, EndsOnce, OnlyCloses
  <1>6. op = "delete" => d.conn = "gone"
    BY <1>1, <1>2 DEF TlsInv, EndsOnce
  <1>7. tls.phase # "new"
    BY <1>1 DEF TlsInv, Fresh
  <1> QED BY <1>1, <1>2, <1>3, <1>4, <1>5, <1>6, <1>7

Fewer ==
  calls' = calls \/ \E op : op \notin {"read", "delete"} /\ Handle(op)

LEMMA FewerParts ==
  ASSUME TlsInv, Fewer
  PROVE  /\ Never(calls, "read") <=> Never(calls', "read")
         /\ Never(calls, "delete") <=> Never(calls', "delete")
         /\ Once(calls, "read") => Once(calls', "read")
         /\ \A h : OnlyCloses(calls, h) => OnlyCloses(calls', h)
         /\ \A h : DeletesLast(calls, h) => DeletesLast(calls', h)
         /\ \A some : Mute(calls, some) => Mute(calls', some)
  <1>1. CASE calls' = calls
    BY <1>1
  <1>2. ASSUME NEW op, op \notin {"read", "delete"}, Handle(op)
        PROVE  /\ Never(calls, "read") <=> Never(calls', "read")
               /\ Never(calls, "delete") <=> Never(calls', "delete")
               /\ Once(calls, "read") => Once(calls', "read")
               /\ \A h : OnlyCloses(calls, h) => OnlyCloses(calls', h)
               /\ \A h : DeletesLast(calls, h) => DeletesLast(calls', h)
               /\ \A some : Mute(calls, some) => Mute(calls', some)
    BY <1>2, HandleParts
  <1> QED BY <1>1, <1>2 DEF Fewer

LEMMA NetworkKeeps ==
  ASSUME TlsInv, IInv', SameTls, UNCHANGED stopped, Fresh',
         Promised(d', Due, FALSE), Silent(d'), Kept(d', stopped), Stays(d, d'),
         d'.readActive => d.readActive, d.freed => d'.freed, Fewer
  PROVE  TlsInv'
  <1>1. /\ Never(calls, "read") <=> Never(calls', "read")
        /\ Never(calls, "delete") <=> Never(calls', "delete")
        /\ Once(calls, "read") => Once(calls', "read")
        /\ \A h : OnlyCloses(calls, h) => OnlyCloses(calls', h)
        /\ \A h : DeletesLast(calls, h) => DeletesLast(calls', h)
        /\ \A some : Mute(calls, some) => Mute(calls', some)
    BY FewerParts
  <1>2. /\ tls'.queue = tls.queue /\ tls'.phase = tls.phase /\ tls'.due = tls.due
        /\ tls'.error = tls.error /\ TlsTypeOK' /\ stopped' = stopped
    BY DEF SameTls
  <1>3. /\ d'.conn = d.conn /\ d'.deleteAfterWriting = d.deleteAfterWriting
        /\ d'.freed => d.freed \/ d.deleteAfterWriting
        /\ d'.notifySome => d.notifySome
        /\ d.closeType \subseteq d'.closeType
    BY DEF Stays
  <1>4. Elsewhere' <=> Elsewhere
    BY <1>1, <1>2 DEF Elsewhere
  <1>5. Promised(d, Due, FALSE)'
    <2>1. (Due' => Due) /\ (d'.readActive => Due')
      BY <1>2, <1>4 DEF Due
    <2> QED BY <2>1 DEF Promised, Told
  <1>6. MuteCalls'
    <2> SUFFICES ASSUME d'.conn # "attached"
                 PROVE  Mute(calls', d'.notifySome) /\ Mute(tls.queue, d'.notifySome)
      BY <1>2 DEF MuteCalls
    <2>1. Mute(calls', d.notifySome) /\ Mute(tls.queue, d.notifySome)
      BY <1>1, <1>3 DEF TlsInv, MuteCalls
    <2> QED BY <1>3, <2>1 DEF Mute, Quiet
  <1>7. EndsOnce'
    BY <1>1, <1>2, <1>3 DEF TlsInv, EndsOnce
  <1>8. OneReader'
    BY <1>1, <1>2, <1>3, <1>4 DEF TlsInv, OneReader
  <1>9. TlsTypeOK' /\ (Silent(d) /\ Kept(d, stopped))'
    BY <1>2 DEF TlsInv, TlsTypeOK
  <1> QED BY <1>5, <1>6, <1>7, <1>8, <1>9 DEF TlsInv

LEMMA TlsWrites == TlsInv /\ WriteToSocket /\ SameTls => TlsInv'
  <1> SUFFICES ASSUME TlsInv, WriteToSocket, tls'.queue = tls.queue, tls'.phase = tls.phase,
               tls'.due = tls.due, tls'.error = tls.error, TlsTypeOK', SameTls
               PROVE  TlsInv'
    BY DEF SameTls
  <1> DEFINE no == FALSE
  <1>1. /\ IInv /\ IInv' /\ Handle("write") /\ UNCHANGED stopped
        /\ d \in ConnData /\ Due \in BOOLEAN /\ no \in BOOLEAN /\ ~no
    BY ServeInv, TlsTypes DEF TlsInv, Serve, WriteToSocket
  <1>2. /\ ~d.freed /\ ~d.deleteAfterWriting /\ tls.phase # "new"
        /\ d.conn # "attached" => ~CallMayCallBack(Head(calls))
    BY <1>1, HandleParts
  <1>3. Promised(d, Due, no) /\ Silent(d) /\ d.readActive \in BOOLEAN /\ Promised(d, d.readActive, no)
    BY <1>1 DEF TlsInv, Promised, Told, ConnData
  <1> HIDE DEF no
  <1>4. /\ IF Head(calls).notify THEN Promised(d', Due, TRUE) ELSE Promised(d', Due, no)
        /\ Silent(d') /\ Kept(d', stopped) /\ Stays(d, d')
    BY <1>1, <1>2, <1>3, WriteTells
  <1>5. IF Head(calls).notify THEN Promised(d', d.readActive, TRUE) ELSE Promised(d', d.readActive, no)
    BY <1>1, <1>2, <1>3, WriteTells
  <1>6. Promised(d', Due, FALSE) /\ (d'.readActive => d.readActive)
    BY <1>1, <1>4, <1>5 DEF Promised, Told
  <1>7. Fewer /\ Fresh'
    BY <1>1, <1>2 DEF Fewer, Fresh
  <1> QED BY <1>1, <1>2, <1>4, <1>6, <1>7, NetworkKeeps

LEMMA TlsSends == TlsInv /\ SocketWriteable /\ SameTls => TlsInv'
  <1> SUFFICES ASSUME TlsInv, SocketWriteable, tls'.queue = tls.queue, tls'.phase = tls.phase,
               tls'.due = tls.due, tls'.error = tls.error, TlsTypeOK', SameTls
               PROVE  TlsInv'
    BY DEF SameTls
  <1> DEFINE no == FALSE
  <1>1. /\ IInv /\ IInv' /\ UNCHANGED <<stopped, calls>>
        /\ d \in ConnData /\ Due \in BOOLEAN /\ no \in BOOLEAN /\ ~no /\ d.writeActive
    BY SocketInv, TlsTypes DEF TlsInv, Socket, SocketWriteable, SocketTakes
  <1>2. PICK s \in SendResults(d) : d' = Writeable(d, s)
    BY DEF SocketWriteable, SocketTakes
  <1>3. /\ Told(d, Due, no) /\ Told(d, d.readActive, no) /\ d.readActive \in BOOLEAN
        /\ W \notin d.closeType /\ d.writeBuf > 0 /\ ~d.freed
        /\ d.conn # "attached" => NoCallbacks(d) /\ ~d.notifySome
        /\ d.deleteAfterWriting => d.conn = "gone" /\ d.closeAfterWriting
    BY <1>1 DEF TlsInv, IInv, Watched, Sound, Promised, Told, ConnData, Silent, Kept
  <1> HIDE DEF no
  <1>4. Promised(d', Due, no) /\ Silent(d') /\ Kept(d', stopped) /\ Stays(d, d')
    BY <1>1, <1>2, <1>3, WriteableTells
  <1>5. Promised(d', d.readActive, no)
    BY <1>1, <1>2, <1>3, WriteableTells
  <1>6. Promised(d', Due, FALSE) /\ (d'.readActive => d.readActive)
    BY <1>1, <1>4, <1>5 DEF Promised, Told
  <1>7. Fewer /\ Fresh'
    BY <1>1 DEF Fewer, Fresh, TlsInv
  <1> QED BY <1>1, <1>3, <1>4, <1>6, <1>7, NetworkKeeps

(* A close that a call asks for, that stop() sent, or that the socket *)
(* causes; after stop() it can meet a record that is freed. *)
LEMMA TlsClosing ==
  ASSUME TlsInv, IInv', SameTls, UNCHANGED stopped,
         NEW type \in CloseType, NEW notify \in BOOLEAN, d' = CloseConn(d, type, notify),
         d.conn = "attached" \/ ~notify, d.deleteAfterWriting => stopped,
         tls.phase # "new", Fewer
  PROVE  TlsInv'
  <1> DEFINE no == FALSE
  <1>1. d \in ConnData /\ Due \in BOOLEAN /\ no \in BOOLEAN /\ ~no
    BY TlsTypes
  <1>2. Promised(d, Due, no) /\ d.lastInformed \subseteq d.closeType
    BY <1>1 DEF TlsInv, Promised, Told
  <1> HIDE DEF no
  <1>3. /\ Promised(d', Due, no)
        /\ Silent(d) /\ (d.conn = "attached" \/ ~notify) => Silent(d')
        /\ d'.conn = d.conn /\ d'.deleteAfterWriting = d.deleteAfterWriting
        /\ d'.freed = d.freed /\ (d'.notifySome => d.notifySome)
        /\ d.closeType \subseteq d'.closeType
    BY <1>1, <1>2, CloseConnPromised
  <1>4. /\ d.closeAfterWriting => d'.closeAfterWriting
        /\ d'.readActive => d.readActive
        /\ W \in d'.closeType \ d.closeType => ~d'.writeActive
        /\ W \notin d'.closeType \ d.closeType => d'.writeActive = d.writeActive
    BY <1>1, <1>2, CloseConnTells
  <1>5. Silent(d') /\ Kept(d', stopped) /\ Stays(d, d') /\ Promised(d', Due, FALSE)
    BY <1>1, <1>3, <1>4 DEF TlsInv, Kept, Stays, Promised, Told
  <1>6. Fresh'
    BY DEF Fresh, SameTls
  <1> QED BY <1>3, <1>4, <1>5, <1>6, NetworkKeeps

LEMMA TlsCloses ==
  TlsInv /\ (CloseCall \/ ReadEof \/ ReadError) /\ SameTls => TlsInv'
  <1> SUFFICES ASSUME TlsInv, CloseCall \/ ReadEof \/ ReadError, tls'.queue = tls.queue, tls'.phase = tls.phase,
               tls'.due = tls.due, tls'.error = tls.error, TlsTypeOK', SameTls
               PROVE  TlsInv'
    BY DEF SameTls
  <1>1. IInv' /\ UNCHANGED stopped
    BY ServeInv, SocketInv DEF TlsInv, Serve, Socket, CloseCall, ReadEof, ReadError
  <1>2. CASE CloseCall
    <2> DEFINE m == Head(calls)
    <2>1. Handle("close") /\ d' = CloseConn(d, m.type, m.notify)
      BY <1>2 DEF CloseCall
    <2>2. /\ m \in Call /\ m.op = "close" /\ tls.phase # "new"
          /\ d.conn # "attached" => ~CallMayCallBack(m)
          /\ d.deleteAfterWriting => stopped
      BY <2>1, HandleParts
    <2>3. m.type \in CloseType /\ m.notify \in BOOLEAN /\ (d.conn = "attached" \/ ~m.notify)
      BY <2>2, CallFields DEF CallMayCallBack
    <2>4. Fewer
      BY <2>1 DEF Fewer
    <2> HIDE DEF m
    <2> QED BY <1>1, <2>1, <2>2, <2>3, <2>4, TlsClosing
  <1>3. CASE ReadEof \/ ReadError
    <2> DEFINE no == FALSE
    <2>1. PICK type \in CloseType : d' = CloseConn(d, type, no)
      BY <1>3 DEF ReadEof, ReadError, CloseType
    <2>2. /\ no \in BOOLEAN /\ ~no /\ d.readActive /\ UNCHANGED calls
      BY <1>3 DEF ReadEof, ReadError
    <2>3. d.conn = "attached" /\ ~d.deleteAfterWriting /\ tls.phase # "new" /\ Fewer
      BY <2>2, TlsTypes DEF TlsInv, Silent, NoCallbacks, Fewer
    <2> HIDE DEF no
    <2> QED BY <1>1, <2>1, <2>2, <2>3, TlsClosing
  <1> QED BY <1>2, <1>3

LEMMA TlsDelivers ==
  TlsInv /\ (DeliverFinished \/ DeliverSome) /\ SameTls => TlsInv'
  <1> SUFFICES ASSUME TlsInv, DeliverFinished \/ DeliverSome, tls'.queue = tls.queue, tls'.phase = tls.phase,
               tls'.due = tls.due, tls'.error = tls.error, TlsTypeOK', SameTls
               PROVE  TlsInv'
    BY DEF SameTls
  <1>1. /\ IInv' /\ UNCHANGED <<stopped, calls>> /\ d \in ConnData
        /\ d.laterFinished \in Nat /\ d.laterSome \in Nat
    BY DeliverInv, TlsTypes DEF TlsInv, Deliver, DeliverFinished, DeliverSome, ConnData
  <1>2. PICK n \in Nat, k \in Nat :
          /\ d' = [d EXCEPT !.laterFinished = n, !.laterSome = k]
          /\ d.conn = "attached" \/ ~NoCallbacks(d)
    <2>1. CASE DeliverFinished
      <3> DEFINE n == d.laterFinished - 1
                 k == d.laterSome
      <3>1. d' = [d EXCEPT !.laterFinished = n] /\ n \in Nat /\ d.laterFinished # 0
        BY <1>1, <2>1 DEF DeliverFinished
      <3>2. d = [d EXCEPT !.laterSome = k]
        BY <1>1 DEF ConnData
      <3> HIDE DEF n
      <3>3. d' = [d EXCEPT !.laterFinished = n, !.laterSome = k] /\ k \in Nat
        BY <1>1, <3>1, <3>2 DEF ConnData
      <3> QED BY <3>1, <3>3 DEF NoCallbacks
    <2>2. CASE DeliverSome
      <3> DEFINE n == d.laterFinished
                 k == d.laterSome - 1
      <3>1. d' = [d EXCEPT !.laterSome = k] /\ k \in Nat /\ d.laterSome # 0
        BY <1>1, <2>2 DEF DeliverSome
      <3> HIDE DEF k
      <3>3. d' = [d EXCEPT !.laterFinished = n, !.laterSome = k] /\ n \in Nat
        BY <1>1, <3>1 DEF ConnData
      <3> QED BY <3>1, <3>3 DEF NoCallbacks
    <2> QED BY <2>1, <2>2
  <1>3. /\ d'.conn = d.conn /\ d'.deleteAfterWriting = d.deleteAfterWriting
        /\ d'.freed = d.freed /\ d'.notifySome = d.notifySome
        /\ d'.closeAfterWriting = d.closeAfterWriting
        /\ d'.lastInformed = d.lastInformed /\ d'.laterClosed = d.laterClosed
        /\ d'.closeType = d.closeType /\ d'.writeBuf = d.writeBuf
        /\ d'.readActive = d.readActive /\ d'.writeActive = d.writeActive
        /\ d'.notifyWrite = d.notifyWrite
    BY <1>1, <1>2 DEF ConnData
  <1>4. d.conn = "attached"
    BY <1>2 DEF TlsInv, Silent
  <1>5. /\ Promised(d', Due, FALSE) /\ Silent(d') /\ Kept(d', stopped) /\ Stays(d, d')
        /\ Fresh' /\ Fewer
    BY <1>1, <1>3, <1>4 DEF TlsInv, Promised, Told, Silent, Kept, Stays, Fresh, Fewer
  <1> QED BY <1>1, <1>3, <1>5, NetworkKeeps

LEMMA TlsReads == TlsInv /\ StartReadWatcher /\ SameTls => TlsInv'
  <1> SUFFICES ASSUME TlsInv, StartReadWatcher, tls'.queue = tls.queue, tls'.phase = tls.phase,
               tls'.due = tls.due, tls'.error = tls.error, TlsTypeOK', SameTls
               PROVE  TlsInv'
    BY DEF SameTls
  <1> DEFINE no == FALSE
  <1>1. /\ IInv /\ IInv' /\ Handle("read") /\ UNCHANGED stopped
        /\ Due \in BOOLEAN /\ no \in BOOLEAN /\ ~no /\ Promised(d, Due, no)
    BY ServeInv, TlsTypes DEF TlsInv, Serve, StartReadWatcher
  <1>2. /\ calls # <<>> /\ ~Never(calls, "read") /\ tls.phase # "new"
        /\ \A o : Never(calls, o) <=> "read" # o /\ Never(calls', o)
        /\ Once(calls, "read") => Never(calls', "read")
        /\ \A h : DeletesLast(calls, h) => DeletesLast(calls', h)
        /\ d.conn = "attached"
    BY <1>1, HandleParts
  <1>3. ~d.freed /\ ~d.deleteAfterWriting
    BY <1>2, TlsTypes
  <1> HIDE DEF no
  <1>4. /\ Promised(d', TRUE, no) /\ Silent(d') /\ Kept(d', stopped) /\ Stays(d, d')
        /\ d'.freed = d.freed
    BY <1>1, <1>2, <1>3, ReadTells
  <1>5. /\ d'.conn = "attached" /\ ~d'.freed /\ ~d'.deleteAfterWriting /\ d.closeType \subseteq d'.closeType
    BY <1>2, <1>3, <1>4 DEF Stays
  <1>6. Promised(d, Due, FALSE)'
    <2>1. d'.readActive => Due'
      BY DEF Due
    <2> QED BY <1>4, <2>1 DEF Promised, Told
  <1>7. MuteCalls' /\ Fresh' /\ TlsTypeOK' /\ (Silent(d) /\ Kept(d, stopped))'
    BY <1>1, <1>2, <1>4, <1>5 DEF MuteCalls, Fresh, TlsInv, TlsTypeOK
  <1>8. EndsOnce'
    BY <1>1, <1>2, <1>3, <1>5 DEF TlsInv, EndsOnce
  <1>9. OneReader'
    <2> SUFFICES ASSUME R \notin d.closeType
                 PROVE  /\ Once(tls.queue, "received") /\ Once(calls', "read") /\ Once(tls.queue, "read")
                        /\ Never(tls.queue, "received") /\ Never(calls', "read") /\ tls.due
                        /\ (~Never(tls.queue, "read") => ~tls.due)
      BY <1>5 DEF OneReader, Elsewhere
    <2>1. Never(calls', "read")
      BY <1>2 DEF TlsInv, OneReader
    <2> QED BY <1>2, <2>1 DEF TlsInv, OneReader, Elsewhere, Once, Never
  <1> QED BY <1>1, <1>6, <1>7, <1>8, <1>9 DEF TlsInv

LEMMA TlsDeletes == TlsInv /\ DeleteOnFinish /\ SameTls => TlsInv'
  <1> SUFFICES ASSUME TlsInv, DeleteOnFinish, tls'.queue = tls.queue, tls'.phase = tls.phase,
               tls'.due = tls.due, tls'.error = tls.error, TlsTypeOK', SameTls
               PROVE  TlsInv'
    BY DEF SameTls
  <1> DEFINE no == FALSE
  <1>1. /\ IInv /\ IInv' /\ Handle("delete") /\ UNCHANGED stopped
        /\ Due \in BOOLEAN /\ no \in BOOLEAN /\ ~no /\ Promised(d, Due, no) /\ Silent(d)
    BY ServeInv, TlsTypes DEF TlsInv, Serve, DeleteOnFinish
  <1>2. /\ ~Never(calls, "delete") /\ tls.phase # "new" /\ d.conn = "gone"
        /\ \A o : Never(calls, o) <=> "delete" # o /\ Never(calls', o)
        /\ \A o : Once(calls, o) => Once(calls', o)
        /\ \A h : DeletesLast(calls, h) => DeletesLast(calls', h) /\ OnlyCloses(calls', h)
        /\ \A some : Mute(calls, some) => Mute(calls', some)
        /\ ~d.freed /\ ~d.deleteAfterWriting
    BY <1>1, HandleParts
  <1> HIDE DEF no
  <1>4. /\ Promised(d', Due, no) /\ Silent(d') /\ Kept(d', stopped) /\ d'.conn = "gone"
        /\ d'.freed \/ d'.deleteAfterWriting
        /\ d.closeType \subseteq d'.closeType /\ (d'.notifySome => d.notifySome)
    BY <1>1, <1>2, DeleteTells
  <1>5. ~d'.readActive
    BY <1>4 DEF Silent, NoCallbacks
  <1>6. Elsewhere' <=> Elsewhere
    BY <1>2 DEF Elsewhere
  <1>7. Promised(d, Due, FALSE)'
    <2>1. Due' => Due
      BY <1>5, <1>6 DEF Due
    <2> QED BY <1>4, <1>5, <2>1 DEF Promised, Told
  <1>8. MuteCalls'
    <2>1. Mute(calls', d.notifySome) /\ Mute(tls.queue, d.notifySome)
      BY <1>2 DEF TlsInv, MuteCalls
    <2>2. Mute(calls', d'.notifySome) /\ Mute(tls.queue, d'.notifySome)
      BY <1>4, <2>1 DEF Mute, Quiet
    <2> QED BY <2>2 DEF MuteCalls
  <1>9. EndsOnce'
    BY <1>1, <1>2, <1>4 DEF TlsInv, EndsOnce
  <1>10. OneReader'
    BY <1>1, <1>2, <1>4, <1>5, <1>6 DEF TlsInv, OneReader
  <1>11. Fresh' /\ TlsTypeOK' /\ (Silent(d) /\ Kept(d, stopped))'
    BY <1>1, <1>2, <1>4 DEF Fresh, TlsInv, TlsTypeOK
  <1> QED BY <1>1, <1>7, <1>8, <1>9, <1>10, <1>11 DEF TlsInv

LEMMA TlsTellsUser == TlsInv /\ CallUserClosed => TlsInv'
  <1> SUFFICES ASSUME TlsInv, CallUserClosed PROVE TlsInv'
    OBVIOUS
  <1> DEFINE n == d.laterClosed - 1
             u == tls.due /\ R \notin d.closeType
  <1>1. /\ IInv' /\ UNCHANGED <<stopped, calls>> /\ d \in ConnData /\ tls \in TlsState
        /\ d.laterClosed \in Nat /\ d.laterClosed > 0
        /\ d' = [d EXCEPT !.laterClosed = n] /\ tls' = [tls EXCEPT !.due = u]
    BY DeliverInv, TlsTypes DEF TlsInv, Deliver, CallUserClosed, DeliverClosed, ConnData
  <1>2. n \in Nat /\ u \in BOOLEAN /\ (u <=> tls.due /\ R \notin d.closeType)
    BY <1>1 DEF TlsState
  <1> HIDE DEF n, u
  <1>3. /\ d'.conn = d.conn /\ d'.deleteAfterWriting = d.deleteAfterWriting
        /\ d'.freed = d.freed /\ d'.notifySome = d.notifySome
        /\ d'.closeAfterWriting = d.closeAfterWriting
        /\ d'.lastInformed = d.lastInformed /\ d'.laterFinished = d.laterFinished
        /\ d'.closeType = d.closeType /\ d'.writeBuf = d.writeBuf
        /\ d'.readActive = d.readActive /\ d'.writeActive = d.writeActive
        /\ d'.notifyWrite = d.notifyWrite
    BY <1>1, <1>2 DEF ConnData
  <1>4. /\ tls' \in TlsState /\ tls'.queue = tls.queue /\ tls'.phase = tls.phase
        /\ tls'.error = tls.error /\ tls'.due = u
    BY <1>1, <1>2 DEF TlsState
  <1>5. d.conn = "attached" /\ tls.phase # "new"
    <2>1. d.laterClosed # 0
      BY <1>1
    <2>2. d.conn = "attached"
      BY <2>1 DEF TlsInv, Silent, NoCallbacks
    <2> QED BY <2>2, TlsTypes
  <1>6. Elsewhere' <=> Elsewhere
    BY <1>1, <1>4 DEF Elsewhere
  <1>7. Promised(d, Due, FALSE)'
    <2>1. d.readActive => R \notin d.closeType
      BY DEF TlsInv, IInv, Sound
    <2>2. Due' => Due /\ R \notin d.closeType
      BY <1>2, <1>3, <1>4, <1>6, <2>1 DEF Due
    <2>3. d'.readActive => Due'
      BY DEF Due
    <2> QED BY <1>3, <2>2, <2>3 DEF TlsInv, Promised, Told
  <1>8. TlsTypeOK'
    BY <1>4 DEF TlsTypeOK, TlsState, Msg
  <1>9. /\ MuteCalls' /\ Fresh' /\ (Silent(d) /\ Kept(d, stopped))'
    BY <1>1, <1>3, <1>4, <1>5 DEF MuteCalls, Fresh, TlsInv, Silent, Kept
  <1>10. EndsOnce'
    BY <1>1, <1>3, <1>4 DEF TlsInv, EndsOnce
  <1>11. OneReader'
    BY <1>1, <1>2, <1>3, <1>4, <1>6 DEF TlsInv, OneReader
  <1> QED BY <1>1, <1>7, <1>8, <1>9, <1>10, <1>11 DEF TlsInv

----------------------------------------
(* What the network thread posts to the TLS thread *)

LEMMA AppendParts ==
  ASSUME TlsInv, NEW m \in Msg, tls' = [tls EXCEPT !.queue = Append(@, m)]
  PROVE  /\ tls'.phase = tls.phase /\ tls'.due = tls.due /\ tls'.error = tls.error /\ TlsTypeOK'
         /\ \A o : Never(tls'.queue, o) <=> Never(tls.queue, o) /\ m.op # o
         /\ \A o : Once(tls.queue, o) /\ m.op # o => Once(tls'.queue, o)
         /\ \A o : Never(tls.queue, o) => Once(tls'.queue, o)
         /\ \A h : DeletesLast(tls.queue, h) /\ (Never(tls.queue, "delete") \/ OnlyCloses(<<m>>, h))
                     => DeletesLast(tls'.queue, h)
         /\ \A h : OnlyCloses(tls.queue, h) /\ OnlyCloses(<<m>>, h) => OnlyCloses(tls'.queue, h)
         /\ \A some : Mute(tls.queue, some) /\ Quiet(m, some) => Mute(tls'.queue, some)
  <1>1. tls \in TlsState /\ tls.queue \in Seq(Msg)
    BY TlsTypes
  <1>2. Append(tls.queue, m) = tls.queue \o <<m>> /\ Append(tls.queue, m) \in Seq(Msg)
    BY <1>1
  <1> HIDE DEF Msg
  <1>3. /\ tls' \in TlsState /\ tls'.queue = tls.queue \o <<m>>
        /\ tls'.due = tls.due /\ tls'.error = tls.error /\ tls'.phase = tls.phase
    BY <1>1, <1>2 DEF TlsState
  <1>4. TlsTypeOK'
    BY <1>3 DEF TlsTypeOK, TlsState, Msg
  <1>5. /\ <<m>> \in Seq(Msg) /\ \A o : (Never(<<m>>, o) <=> m.op # o) /\ Once(<<m>>, o)
        /\ \A h : DeletesLast(<<m>>, h)
        /\ \A some : Quiet(m, some) => Mute(<<m>>, some)
    BY Single
  <1>6. /\ \A o : Never(tls.queue \o <<m>>, o) <=> Never(tls.queue, o) /\ Never(<<m>>, o)
        /\ \A o : Once(tls.queue, o) /\ Never(<<m>>, o) => Once(tls.queue \o <<m>>, o)
        /\ \A o : Never(tls.queue, o) /\ Once(<<m>>, o) => Once(tls.queue \o <<m>>, o)
        /\ \A h : OnlyCloses(tls.queue, h) /\ OnlyCloses(<<m>>, h) => OnlyCloses(tls.queue \o <<m>>, h)
        /\ \A h : DeletesLast(tls.queue, h) /\ DeletesLast(<<m>>, h)
                    /\ (Never(tls.queue, "delete") \/ OnlyCloses(<<m>>, h))
                      => DeletesLast(tls.queue \o <<m>>, h)
        /\ \A some : Mute(tls.queue, some) /\ Mute(<<m>>, some) => Mute(tls.queue \o <<m>>, some)
    BY <1>1, <1>5, Joined
  <1> QED BY <1>3, <1>4, <1>5, <1>6

LEMMA TlsReceives == TlsInv /\ ReadCipher => TlsInv'
  <1> SUFFICES ASSUME TlsInv, ReadCipher PROVE TlsInv'
    OBVIOUS
  <1> DEFINE m == [op |-> "received"]
  <1>1. /\ IInv' /\ UNCHANGED <<stopped, calls>> /\ d \in ConnData
        /\ d.readActive /\ d' = [d EXCEPT !.readActive = FALSE]
        /\ tls' = [tls EXCEPT !.queue = Append(@, m)]
    BY SocketInv, TlsTypes DEF TlsInv, Socket, ReadCipher, ReadBytes
  <1>2. m \in Msg /\ m.op = "received"
    BY DEF Msg
  <1> HIDE DEF m
  <1>3. /\ d'.conn = d.conn /\ d'.deleteAfterWriting = d.deleteAfterWriting
        /\ d'.freed = d.freed
        /\ d'.lastInformed = d.lastInformed /\ d'.closeType = d.closeType
        /\ d'.readActive = FALSE /\ d'.writeActive = d.writeActive
        /\ d'.notifyWrite = d.notifyWrite
    BY <1>1 DEF ConnData
  <1>4. d.conn = "attached"
    BY <1>1 DEF TlsInv, Silent, NoCallbacks
  <1>5. /\ ~d.freed /\ ~d.deleteAfterWriting /\ tls.phase # "new"
        /\ Never(calls, "delete") /\ Never(tls.queue, "delete")
    BY <1>4, TlsTypes
  <1>6. /\ tls'.phase = tls.phase /\ tls'.due = tls.due /\ tls'.error = tls.error /\ TlsTypeOK'
        /\ \A o : Never(tls'.queue, o) <=> Never(tls.queue, o) /\ "received" # o
        /\ \A o : Once(tls.queue, o) /\ "received" # o => Once(tls'.queue, o)
        /\ \A o : Never(tls.queue, o) => Once(tls'.queue, o)
        /\ \A h : DeletesLast(tls.queue, h) => DeletesLast(tls'.queue, h)
    BY <1>1, <1>2, <1>5, AppendParts
  <1>7. Elsewhere' /\ ~Due'
    BY <1>3, <1>6 DEF Elsewhere, Due
  <1>8. Promised(d, Due, FALSE)'
    BY <1>3, <1>7 DEF TlsInv, Promised, Told
  <1>9. MuteCalls' /\ Fresh' /\ (Silent(d) /\ Kept(d, stopped))'
    BY <1>3, <1>4, <1>5, <1>6 DEF MuteCalls, Fresh, Silent, Kept
  <1>10. EndsOnce'
    BY <1>1, <1>3, <1>4, <1>5, <1>6 DEF TlsInv, EndsOnce
  <1>11. OneReader'
    <2> SUFFICES ASSUME R \notin d.closeType
                 PROVE  /\ Once(tls'.queue, "received") /\ Once(calls, "read") /\ Once(tls'.queue, "read")
                        /\ Never(calls, "read") /\ tls.due /\ Never(tls'.queue, "read")
      BY <1>1, <1>3, <1>6 DEF OneReader
    <2> QED BY <1>1, <1>6 DEF TlsInv, OneReader, Elsewhere
  <1> QED BY <1>1, <1>6, <1>8, <1>9, <1>10, <1>11 DEF TlsInv

(* stop() forgives what comes after a delete call: its own close. *)
LEMMA TlsStopped == TlsInv /\ TlsStop => TlsInv'
  <1> SUFFICES ASSUME TlsInv, TlsStop PROVE TlsInv'
    OBVIOUS
  <1> DEFINE no == FALSE
             m  == Close(HardClosed, no)
  <1>1. /\ UNCHANGED <<d, calls, unsent, readDue, writesOwed>> /\ stopped' = TRUE /\ tls.phase # "new"
        /\ tls' = [tls EXCEPT !.queue = Append(@, m)]
    BY DEF TlsStop, ledger
  <1>2. m \in Msg /\ m.op = "close" /\ m.notify = no /\ no \in BOOLEAN /\ ~no
    BY DEF Close, Msg, Call, CloseType, HardClosed, NotClosed
  <1> HIDE DEF m, no
  <1>3. Quiet(m, d.notifySome) /\ OnlyCloses(<<m>>, TRUE)
    BY <1>2, Single DEF Quiet
  <1>4. /\ tls'.phase = tls.phase /\ tls'.due = tls.due /\ tls'.error = tls.error /\ TlsTypeOK'
        /\ \A o : Never(tls'.queue, o) <=> Never(tls.queue, o) /\ "close" # o
        /\ \A o : Once(tls.queue, o) /\ "close" # o => Once(tls'.queue, o)
        /\ DeletesLast(tls.queue, TRUE) => DeletesLast(tls'.queue, TRUE)
        /\ OnlyCloses(tls.queue, TRUE) => OnlyCloses(tls'.queue, TRUE)
        /\ Mute(tls.queue, d.notifySome) => Mute(tls'.queue, d.notifySome)
    BY <1>1, <1>2, <1>3, AppendParts
  <1>5. /\ OnlyCloses(calls, stopped) => OnlyCloses(calls, TRUE)
        /\ OnlyCloses(tls.queue, stopped) => OnlyCloses(tls.queue, TRUE)
        /\ DeletesLast(calls, stopped) => DeletesLast(calls, TRUE)
        /\ DeletesLast(tls.queue, stopped) => DeletesLast(tls.queue, TRUE)
    BY DEF OnlyCloses, DeletesLast
  <1>6. IInv'
    BY <1>1 DEF TlsInv, IInv, TypeOK
  <1>7. (Elsewhere' <=> Elsewhere) /\ (Due' <=> Due)
    BY <1>1, <1>4 DEF Elsewhere, Due
  <1>8. Promised(d, Due, FALSE)' /\ (Silent(d) /\ Kept(d, stopped))'
    BY <1>1, <1>7 DEF TlsInv, Promised, Told, Kept
  <1>9. MuteCalls' /\ Fresh'
    BY <1>1, <1>4 DEF TlsInv, MuteCalls, Fresh
  <1>10. EndsOnce'
    BY <1>1, <1>4, <1>5 DEF TlsInv, EndsOnce
  <1>11. OneReader'
    BY <1>1, <1>4, <1>7 DEF TlsInv, OneReader
  <1> QED BY <1>4, <1>6, <1>8, <1>9, <1>10, <1>11 DEF TlsInv

----------------------------------------
(* The connection's beginning *)

LEMMA TlsCreated == TlsInv /\ Create => TlsInv'
  <1> SUFFICES ASSUME TlsInv, Create PROVE TlsInv'
    OBVIOUS
  <1> DEFINE no == FALSE
             c  == [d EXCEPT !.writeBuf = 1]
  <1>1. /\ tls.phase = "new" /\ tls' = [tls EXCEPT !.phase = "shake"]
        /\ UNCHANGED <<calls, stopped, readDue, writesOwed>>
        /\ \/ UNCHANGED <<d, unsent>>
           \/ \E s \in SendResults(c) : d' = Writeable(c, s) /\ CountBytes(1, s)
    BY DEF Create, ledger
  <1>2. /\ calls = <<>> /\ tls.queue = <<>>
        /\ d.conn = "none" /\ d.closeType = NotClosed /\ d.writeBuf = 0
        /\ ~d.readActive /\ ~d.writeActive /\ ~d.freed /\ ~d.deleteAfterWriting /\ ~d.notifySome
    BY <1>1 DEF TlsInv, Fresh
  <1>3. /\ tls \in TlsState /\ d \in ConnData /\ Due \in BOOLEAN /\ no \in BOOLEAN /\ ~no
        /\ Sound(d, unsent) /\ unsent \in Nat /\ Promised(d, Due, no) /\ Silent(d) /\ Kept(d, stopped)
    BY TlsTypes DEF TlsInv, IInv, TypeOK
  <1>4. /\ tls' \in TlsState /\ tls'.queue = <<>> /\ tls'.phase = "shake"
        /\ tls'.due = tls.due /\ tls'.error = tls.error
    BY <1>1, <1>2, <1>3 DEF TlsState
  <1> HIDE DEF no
  <1>5. /\ IInv' /\ Promised(d', Due, no) /\ Silent(d') /\ Kept(d', stopped) /\ Stays(d, d')
        /\ ~d'.readActive
    <2>1. CASE UNCHANGED <<d, unsent>>
      <3>1. d' = d /\ unsent' = unsent
        BY <2>1
      <3>2. IInv'
        BY <1>1, <3>1 DEF TlsInv, IInv, TypeOK
      <3> QED BY <1>2, <1>3, <3>1, <3>2 DEF Stays
    <2>2. CASE \E s \in SendResults(c) : d' = Writeable(c, s) /\ CountBytes(1, s)
      <3> DEFINE k == unsent + 1
      <3>1. PICK s \in SendResults(c) : d' = Writeable(c, s) /\ CountBytes(1, s)
        BY <2>2
      <3>2. /\ c \in ConnData /\ c.writeBuf = 1
            /\ c.conn = d.conn /\ c.deleteAfterWriting = d.deleteAfterWriting
            /\ c.freed = d.freed /\ c.notifySome = d.notifySome
            /\ c.lastInformed = d.lastInformed /\ c.laterClosed = d.laterClosed
            /\ c.closeType = d.closeType /\ c.laterSome = d.laterSome
            /\ c.readActive = d.readActive /\ c.writeActive = d.writeActive
            /\ c.notifyWrite = d.notifyWrite /\ c.laterFinished = d.laterFinished
            /\ c.closeAfterWriting = d.closeAfterWriting
            /\ c.fd = d.fd /\ c.fdCloses = d.fdCloses
        BY <1>3 DEF ConnData
      <3>3. d.fd \notin {"fin", "closed", "reset"} /\ unsent = 0 /\ k = 1 /\ k \in Nat
        BY <1>2, <1>3 DEF Sound, NotClosed, ReadWriteClosed, WriteClosed
      <3>4. s \in Int
        BY <3>2 DEF SendResults, EPipe, EFail
      <3> HIDE DEF c, k
      <3>5. Sound(c, k)
        BY <1>2, <1>3, <3>2, <3>3 DEF Sound
      <3>6. /\ W \notin c.closeType /\ c.writeBuf > 0 /\ ~c.freed /\ ~c.deleteAfterWriting
            /\ NoCallbacks(c) /\ ~c.notifySome /\ Told(c, Due, no) /\ Told(c, d.readActive, no)
            /\ d.readActive \in BOOLEAN
        <4>1. W \notin c.closeType /\ c.writeBuf > 0 /\ ~c.freed /\ ~c.deleteAfterWriting /\ ~c.notifySome
          BY <1>2, <3>2 DEF NotClosed
        <4>2. NoCallbacks(c)
          <5>1. NoCallbacks(d)
            BY <1>2, <1>3 DEF Silent
          <5> QED BY <3>2, <5>1 DEF NoCallbacks
        <4>3. Told(c, Due, no) /\ Told(c, d.readActive, no)
          BY <1>2, <1>3, <3>2 DEF Promised, Told
        <4>4. d.readActive \in BOOLEAN
          BY <1>3 DEF ConnData
        <4> QED BY <4>1, <4>2, <4>3, <4>4
      <3>7. /\ (IF s < 0 THEN 0 ELSE k - s) \in Nat
            /\ d' \in ConnData /\ Sound(d', IF s < 0 THEN 0 ELSE k - s) /\ Watched(d')
        BY <3>1, <3>2, <3>3, <3>5, <3>6, WriteableSound
      <3>8. unsent' = IF s < 0 THEN 0 ELSE k - s
        <4>1. unsent' = IF s < 0 THEN 0 ELSE unsent + 1 - s
          BY <3>1 DEF CountBytes
        <4>2. unsent + 1 - s = k - s
          BY <3>3, <3>4
        <4> QED BY <4>1, <4>2
      <3>9. IInv'
        BY <1>1, <3>7, <3>8 DEF TlsInv, IInv, TypeOK
      <3>10. Promised(d', Due, no) /\ Silent(d') /\ Kept(d', stopped) /\ Stays(c, d')
        BY <1>3, <3>1, <3>2, <3>6, WriteableTells
      <3>11. Promised(d', d.readActive, no)
        BY <1>3, <3>1, <3>2, <3>6, WriteableTells
      <3>12. Stays(d, d') /\ ~d'.readActive
        BY <1>2, <3>2, <3>10, <3>11 DEF Stays, Promised, Told
      <3> QED BY <3>9, <3>10, <3>12
    <2> QED BY <1>1, <2>1, <2>2
  <1>6. d'.conn = "none" /\ ~d'.freed /\ ~d'.deleteAfterWriting
    BY <1>2, <1>5 DEF Stays
  <1>7. /\ \A o : Never(calls', o) /\ Never(tls'.queue, o) /\ Once(calls', o) /\ Once(tls'.queue, o)
        /\ Mute(calls', d'.notifySome) /\ Mute(tls'.queue, d'.notifySome)
        /\ DeletesLast(calls', stopped') /\ DeletesLast(tls'.queue, stopped')
        /\ Never(calls, "read") /\ Never(tls.queue, "received")
    BY <1>1, <1>2, <1>4, NoneLeft
  <1>8. Promised(d, Due, FALSE)'
    <2>1. (Due' => Due) /\ (d'.readActive => Due')
      BY <1>4, <1>5, <1>7 DEF Due, Elsewhere
    <2> QED BY <1>5, <2>1 DEF Promised, Told
  <1>9. MuteCalls' /\ EndsOnce' /\ Fresh'
    BY <1>4, <1>6, <1>7 DEF MuteCalls, EndsOnce, Fresh
  <1>10. OneReader'
    BY <1>5, <1>7 DEF OneReader, Elsewhere
  <1>11. TlsTypeOK' /\ (Silent(d) /\ Kept(d, stopped))'
    BY <1>1, <1>4, <1>5 DEF TlsTypeOK, TlsState, Msg
  <1> QED BY <1>5, <1>8, <1>9, <1>10, <1>11 DEF TlsInv

LEMMA TlsAttaches == TlsInv /\ tls.phase # "new" /\ Attach /\ SameTls => TlsInv'
  <1> SUFFICES ASSUME TlsInv, tls.phase # "new", Attach, tls'.queue = tls.queue, tls'.phase = tls.phase,
               tls'.due = tls.due, tls'.error = tls.error, TlsTypeOK', SameTls
               PROVE  TlsInv'
    BY DEF SameTls
  <1>1. /\ IInv' /\ UNCHANGED <<calls, stopped>> /\ d.conn = "none" /\ d \in ConnData
    BY UserInv, TlsTypes DEF TlsInv, User, Attach
  <1>2. PICK some \in BOOLEAN : d' = [d EXCEPT !.conn = "attached", !.notifySome = some]
    BY DEF Attach
  <1>3. /\ d'.conn = "attached" /\ d'.deleteAfterWriting = d.deleteAfterWriting
        /\ d'.freed = d.freed /\ d'.laterClosed = d.laterClosed
        /\ d'.lastInformed = d.lastInformed /\ d'.closeType = d.closeType
        /\ d'.readActive = d.readActive /\ d'.writeActive = d.writeActive
        /\ d'.notifyWrite = d.notifyWrite
    BY <1>1, <1>2 DEF ConnData
  <1>4. (Elsewhere' <=> Elsewhere) /\ (Due' <=> Due)
    BY <1>1, <1>3 DEF Elsewhere, Due
  <1>5. ~d.freed /\ ~d.deleteAfterWriting /\ Never(calls, "delete") /\ Never(tls.queue, "delete")
    BY <1>1 DEF TlsInv, Kept, EndsOnce
  <1>6. Promised(d, Due, FALSE)'
    BY <1>3, <1>4 DEF TlsInv, Promised, Told
  <1>7. MuteCalls' /\ Fresh' /\ TlsTypeOK' /\ (Silent(d) /\ Kept(d, stopped))'
    BY <1>1, <1>3, <1>5 DEF MuteCalls, Fresh, TlsInv, TlsTypeOK, Silent, Kept
  <1>8. EndsOnce'
    BY <1>1, <1>3, <1>5 DEF TlsInv, EndsOnce
  <1>9. OneReader'
    BY <1>1, <1>3, <1>4 DEF TlsInv, OneReader
  <1> QED BY <1>1, <1>6, <1>7, <1>8, <1>9 DEF TlsInv

LEMMA WatchKeeps == TlsInv /\ Watch => SameTls
  <1> SUFFICES ASSUME TlsInv, Watch PROVE SameTls
    OBVIOUS
  <1> DEFINE w == tls.silent \/ ClosedSilently
  <1>1. tls \in TlsState /\ tls' = [tls EXCEPT !.silent = w]
    <2>1. tls' = [tls EXCEPT !.silent = w]
      BY DEF Watch
    <2> QED BY <2>1, TlsTypes
  <1>2. w \in BOOLEAN
    BY <1>1 DEF TlsState
  <1> HIDE DEF w
  <1>3. /\ tls' \in TlsState /\ tls'.queue = tls.queue /\ tls'.phase = tls.phase
        /\ tls'.due = tls.due /\ tls'.error = tls.error
    BY <1>1, <1>2 DEF TlsState
  <1> QED BY <1>3 DEF SameTls, TlsTypeOK, TlsState, Msg

----------------------------------------
LEMMA TlsKept == TlsInv /\ [TlsNext]_tlsvars => TlsInv'
  <1> SUFFICES ASSUME TlsInv, [TlsNext]_tlsvars PROVE TlsInv'
    OBVIOUS
  <1>1. CASE UNCHANGED tlsvars
    <2>1. UNCHANGED <<d, calls, unsent, stopped, readDue, writesOwed, tls>>
      BY <1>1 DEF tlsvars, vars
    <2>2. (Elsewhere' <=> Elsewhere) /\ (Due' <=> Due)
      BY <2>1 DEF Elsewhere, Due
    <2>3. IInv' /\ TlsTypeOK' /\ Fresh'
      BY <2>1 DEF TlsInv, IInv, TypeOK, TlsTypeOK, Fresh
    <2>4. Promised(d, Due, FALSE)' /\ (Silent(d) /\ Kept(d, stopped))'
      BY <2>1, <2>2 DEF TlsInv, Promised, Told
    <2>5. MuteCalls' /\ EndsOnce'
      BY <2>1 DEF TlsInv, MuteCalls, EndsOnce
    <2>6. OneReader'
      BY <2>1, <2>2 DEF TlsInv, OneReader
    <2> QED BY <2>3, <2>4, <2>5, <2>6 DEF TlsInv
  <1>2. CASE (Network \/ (tls.phase # "new" /\ Attach)) /\ Watch
    BY <1>2, TlsAttaches, WatchKeeps, TlsReads, TlsWrites, TlsCloses, TlsDeletes, TlsSends, TlsDelivers DEF Network, Serve
  <1>3. CASE TlsServe
    BY <1>3, TlsPasses, TlsEncrypts, TlsDecrypts DEF TlsServe
  <1> QED BY <1>1, <1>2, <1>3, TlsCreated, TlsTellsUser, TlsReceives, TlsStopped, TlsUser, TlsDestroyed
      DEF TlsNext

----------------------------------------
(* The end of a wait, after an error of the stream too.  Before the answer *)
(* the bytes are with the TLS thread, or its close that wants closed(). *)

Answered(c) ==
  c.readActive \/ R \in c.lastInformed \/ (R \in c.closeType /\ c.laterClosed > 0)

OnItsWay == R \notin d.closeType /\ (~Never(tls.queue, "received") \/ Notice(calls))

Heard == tls.due /\ Never(calls, "read") => Answered(d) \/ tls.silent \/ OnItsWay

HeardInv == TlsInv /\ Heard

LEMMA NoticeParts ==
  ASSUME NEW s \in Seq(Msg), NEW q \in Seq(Msg)
  PROVE  /\ Notice(s) \/ Notice(q) => Notice(s \o q)
         /\ s # <<>> /\ Notice(s) =>
              \/ Notice(Tail(s))
              \/ Head(s).op = "close" /\ R \in Head(s).type /\ Head(s).notify
  <1>1. ASSUME NEW i \in 1 .. Len(s), s[i].op = "close" /\ R \in s[i].type /\ s[i].notify
        PROVE  Notice(s \o q)
    <2>1. i \in 1 .. Len(s \o q) /\ (s \o q)[i] = s[i]
      BY ConcatProperties
    <2> QED BY <1>1, <2>1 DEF Notice
  <1>2. ASSUME NEW i \in 1 .. Len(q), q[i].op = "close" /\ R \in q[i].type /\ q[i].notify
        PROVE  Notice(s \o q)
    <2> DEFINE k == Len(s) + i
    <2>1. /\ Len(s) \in Nat /\ Len(q) \in Nat /\ Len(s \o q) = Len(s) + Len(q)
          /\ \A j \in 1 .. Len(s) + Len(q) : (s \o q)[j] = IF j <= Len(s) THEN s[j] ELSE q[j - Len(s)]
      BY ConcatProperties
    <2>2. k \in 1 .. Len(s) + Len(q) /\ ~(k <= Len(s)) /\ k - Len(s) = i
      BY <2>1
    <2>3. (s \o q)[k] = q[i]
      BY <2>1, <2>2
    <2> QED BY <1>2, <2>1, <2>2, <2>3 DEF Notice
  <1>3. ASSUME s # <<>>, NEW i \in 1 .. Len(s), s[i].op = "close" /\ R \in s[i].type /\ s[i].notify
        PROVE  \/ Notice(Tail(s))
               \/ Head(s).op = "close" /\ R \in Head(s).type /\ Head(s).notify
    <2>1. Head(s) = s[1] /\ Len(Tail(s)) = Len(s) - 1 /\ \A j \in 1 .. Len(Tail(s)) : Tail(s)[j] = s[j + 1]
      BY <1>3, HeadTailProperties
    <2>2. CASE i = 1
      BY <1>3, <2>1, <2>2
    <2>3. CASE i # 1
      <3>1. i - 1 \in 1 .. Len(Tail(s)) /\ (i - 1) + 1 = i
        BY <2>1, <2>3
      <3> QED BY <1>3, <2>1, <3>1 DEF Notice
    <2> QED BY <2>2, <2>3
  <1> QED BY <1>1, <1>2, <1>3 DEF Notice

(* A step of the TLS thread: d stays, the head of the queue is taken. *)
LEMMA HeardServes == HeardInv /\ TlsServe => Heard'
  <1> SUFFICES ASSUME TlsInv, Heard, TlsServe PROVE Heard'
    BY DEF HeardInv
  <1>1. /\ tls \in TlsState /\ tls.queue \in Seq(Msg) /\ calls \in Seq(Msg) /\ tls.held \in Nat
    BY TlsTypes
  <1>2. ASSUME NEW op, NEW t, NEW posted \in Seq(Call), Does(op, t, posted),
               t.queue = tls.queue, t \in TlsState, t.silent = tls.silent,
               \/ op = "read" /\ ~Never(posted, "read")
               \/ op \notin {"read", "received"} /\ t.due = tls.due
               \/ /\ op = "received" /\ (t.due => tls.due)
                  /\ ~t.due \/ ~Never(posted, "read") \/ Notice(posted)
        PROVE  Heard'
    <2>1. /\ tls.queue # <<>> /\ Head(tls.queue).op = op /\ calls' = calls \o posted
          /\ tls' = [t EXCEPT !.queue = Tail(t.queue)] /\ d' = d
      BY <1>2 DEF Does
    <2>2. /\ tls'.queue = Tail(tls.queue) /\ tls'.due = t.due /\ tls'.silent = tls.silent
      BY <1>2, <2>1 DEF TlsState
    <2>3. posted \in Seq(Msg)
      BY DEF Msg
    <2>4. /\ \A o : Never(calls', o) <=> Never(calls, o) /\ Never(posted, o)
          /\ Notice(calls) \/ Notice(posted) => Notice(calls')
      BY <1>1, <2>1, <2>3, Joined, NoticeParts
    <2>5. op # "received" => (Never(tls'.queue, "received") => Never(tls.queue, "received"))
      <3>1. \A o : Never(tls.queue, o) <=> Head(tls.queue).op # o /\ Never(Tail(tls.queue), o)
        BY <1>1, <2>1, TailOf
      <3> QED BY <2>1, <2>2, <3>1
    <2> QED BY <1>2, <2>1, <2>2, <2>4, <2>5 DEF Heard, Answered, OnItsWay
  <1>3. tls.queue # <<>> => Head(tls.queue) \in Msg
    BY <1>1, TailParts
  <1>4. CASE PassOn
    <2> DEFINE m == Head(tls.queue)
               w == [tls EXCEPT !.due = TRUE]
    <2>1. \/ Does("read", w, <<m>>) \/ Does("close", tls, <<m>>) \/ Does("delete", tls, <<m>>)
      BY <1>4 DEF PassOn
    <2>2. m \in Msg /\ m.op \in {"read", "close", "delete"}
      BY <1>3, <2>1 DEF Does
    <2>3. m \in Call /\ <<m>> \in Seq(Call) /\ (m.op = "read" => ~Never(<<m>>, "read"))
      <3>1. m \in Call /\ (Never(<<m>>, "read") <=> m.op # "read")
        BY <2>2, Single DEF Msg
      <3> HIDE DEF m
      <3> QED BY <3>1
    <2>4. w \in TlsState /\ w.queue = tls.queue /\ w.silent = tls.silent
      BY <1>1 DEF TlsState
    <2> HIDE DEF m, w
    <2>5. CASE Does("read", w, <<m>>)
      <3>1. m.op = "read"
        BY <2>5 DEF Does, m
      <3> QED BY <1>2, <2>3, <2>4, <2>5, <3>1
    <2>6. CASE Does("close", tls, <<m>>) \/ Does("delete", tls, <<m>>)
      BY <1>1, <1>2, <2>3, <2>6
    <2> QED BY <2>1, <2>5, <2>6
  <1>5. CASE Encrypt
    <2> DEFINE m == Head(tls.queue)
               h == tls.held + m.n
               e == [tls EXCEPT !.error = TRUE]
               k == [tls EXCEPT !.held = h]
    <2>1. \/ Does("write", tls, <<m>>)
          \/ Does("write", e, <<Close(ReadWriteClosed, m.notify)>>)
          \/ Does("write", k, <<Write(0, m.notify)>>)
      BY <1>5 DEF Encrypt
    <2>2. m \in Msg /\ m.op = "write"
      BY <1>3, <2>1 DEF Does
    <2>3. m \in Call
      BY <2>2 DEF Msg
    <2>4. m.n \in Nat /\ m.notify \in BOOLEAN
      BY <2>2, <2>3, CallFields
    <2>5. /\ Close(ReadWriteClosed, m.notify) \in Call /\ Write(0, m.notify) \in Call /\ h \in Nat
      BY <1>1, <2>4 DEF Close, Write, Call, CloseType, NotClosed, ReadWriteClosed
    <2> HIDE DEF m, h
    <2>6. /\ e \in TlsState /\ e.queue = tls.queue /\ e.due = tls.due /\ e.silent = tls.silent
          /\ k \in TlsState /\ k.queue = tls.queue /\ k.due = tls.due /\ k.silent = tls.silent
      BY <1>1, <2>5 DEF TlsState
    <2> HIDE DEF e, k
    <2> DEFINE c == Close(ReadWriteClosed, m.notify)
               b == Write(0, m.notify)
    <2>7. \/ Does("write", tls, <<m>>) \/ Does("write", e, <<c>>) \/ Does("write", k, <<b>>)
      BY <2>1
    <2>8. c \in Call /\ b \in Call
      BY <2>5
    <2> HIDE DEF c, b
    <2>9. <<m>> \in Seq(Call) /\ <<c>> \in Seq(Call) /\ <<b>> \in Seq(Call)
      BY <2>3, <2>8
    <2> QED BY <1>1, <1>2, <2>6, <2>7, <2>9
  <1>6. CASE Decrypt
    <2>1. ASSUME NEW t, t \in TlsState, t.queue = tls.queue, t.due = tls.due, t.silent = tls.silent,
                 NEW n \in Nat, NEW plain \in BOOLEAN, NEW ok \in BOOLEAN, Received(t, n, plain, ok)
          PROVE  Heard'
      <3> DEFINE p == SendBack(n) \o More(plain, ok)
                 u == t.due /\ ~plain
                 f == ~ok
                 w == [t EXCEPT !.due = u, !.error = f]
      <3>1. Does("received", w, p)
        BY <2>1 DEF Received
      <3>2. t.due \in BOOLEAN /\ u \in BOOLEAN /\ f \in BOOLEAN /\ (u <=> tls.due /\ ~plain)
        BY <2>1 DEF TlsState
      <3>3. p \in Seq(Call) /\ (Never(p, "read") <=> plain \/ ~ok)
        BY AnswerParts
      <3>4. ~plain /\ ~ok => Notice(p)
        <4> DEFINE c == Close(ReadWriteClosed, TRUE)
                   s == SendBack(n)
        <4>1. /\ c \in Call /\ Write(n, FALSE) \in Call /\ c.op = "close" /\ R \in c.type /\ c.notify
          BY DEF Close, Write, Call, CloseType, NotClosed, ReadWriteClosed
        <4>2. s \in Seq(Msg)
          <5>1. <<>> \in Seq(Msg)
            BY NoneLeft
          <5> DEFINE b == Write(n, FALSE)
          <5>2. b \in Msg
            BY <4>1 DEF Msg
          <5> HIDE DEF b
          <5>3. <<b>> \in Seq(Msg)
            BY <5>2, Single
          <5> QED BY <5>1, <5>3 DEF SendBack, b
        <4> HIDE DEF c, s
        <4>3. <<c>> \in Seq(Msg) /\ Notice(<<c>>)
          <5>1. Len(<<c>>) = 1 /\ 1 \in 1 .. 1 /\ <<c>>[1] = c
            OBVIOUS
          <5> QED BY <4>1, <5>1 DEF Notice, Msg
        <4>4. Notice(s \o <<c>>)
          BY <4>2, <4>3, NoticeParts
        <4> QED BY <4>4 DEF More, c, s
      <3> HIDE DEF u, f, p
      <3>5. w \in TlsState /\ w.queue = tls.queue /\ w.due = u /\ w.silent = tls.silent
        BY <2>1, <3>2 DEF TlsState
      <3> HIDE DEF w
      <3> QED BY <1>2, <3>1, <3>2, <3>3, <3>4, <3>5
    <2>2. CASE tls.error /\ Received(tls, 0, FALSE, FALSE)
      <3> DEFINE no == FALSE
      <3>1. Received(tls, 0, no, no) /\ no \in BOOLEAN /\ 0 \in Nat
        BY <2>2
      <3> HIDE DEF no
      <3> QED BY <1>1, <2>1, <3>1
    <2>3. ASSUME NEW back \in 0 .. 1, NEW plain \in BOOLEAN, NEW ok \in BOOLEAN,
                 \/ ~plain /\ Received(tls, back, FALSE, ok)
                 \/ Received(tls, back, plain, ok)
                 \/ LET sent == IF ok THEN tls.held ELSE 0 IN
                    Received([tls EXCEPT !.phase = "ready", !.held = @ - sent], back + sent, plain, ok)
          PROVE  Heard'
      <3> DEFINE no == FALSE
                 sent == IF ok THEN tls.held ELSE 0
                 left == tls.held - sent
                 n == back + sent
                 t == [tls EXCEPT !.phase = "ready", !.held = left]
      <3>1. no \in BOOLEAN /\ sent \in Nat /\ left \in Nat /\ n \in Nat /\ back \in Nat
        BY <1>1
      <3>2. Received(tls, back, no, ok) \/ Received(tls, back, plain, ok) \/ Received(t, n, plain, ok)
        BY <2>3
      <3> HIDE DEF no, sent, left, n
      <3>3. t \in TlsState /\ t.queue = tls.queue /\ t.due = tls.due /\ t.silent = tls.silent
        BY <1>1, <3>1 DEF TlsState
      <3> HIDE DEF t
      <3> QED BY <1>1, <2>1, <3>1, <3>2, <3>3
    <2> QED BY <1>6, <2>2, <2>3 DEF Decrypt
  <1> QED BY <1>4, <1>5, <1>6 DEF TlsServe

(* A step of the network thread keeps an answer, and a close that wants *)
(* closed() gives one while the read half is open. *)
LEMMA AnswersStay ==
  ASSUME TlsInv, Network
  PROVE  /\ Answered(d) => Answered(d')
         /\ \/ calls' = calls
            \/ calls # <<>> /\ calls' = Tail(calls) /\ Head(calls).op # "close" /\ (Head(calls).op = "read" => Answered(d'))
            \/ /\ calls # <<>> /\ calls' = Tail(calls) /\ Head(calls).op = "close"
               /\ Head(calls).notify /\ R \in Head(calls).type /\ R \notin d.closeType => Answered(d')
  <1> DEFINE a == Answered(d)
             no == FALSE
  <1>1. /\ d \in ConnData /\ IInv /\ a \in BOOLEAN /\ no \in BOOLEAN /\ ~no /\ Silent(d)
        /\ Promised(d, Due, no) /\ d.lastInformed \subseteq d.closeType
    BY TlsTypes DEF TlsInv, Answered, Promised, Told, ConnData
  <1>2. Promised(d, a, no)
    BY <1>1 DEF Promised, Told, Answered
  <1>3. Promised(d', a, no) => (a => Answered(d'))
    BY DEF Promised, Told, Answered
  <1> HIDE DEF no, a
  <1>4. CASE StartReadWatcher
    <2>1. Handle("read") /\ ~d.freed /\ ~d.deleteAfterWriting /\ d.conn = "attached"
      BY <1>4, HandleParts, TlsTypes DEF StartReadWatcher
    <2>2. Promised(d', TRUE, no)
      BY <1>1, <1>2, <1>4, <2>1, ReadTells
    <2>3. Answered(d')
      BY <2>2 DEF Promised, Told, Answered
    <2> QED BY <2>1, <2>3, HandleParts
  <1>5. CASE WriteToSocket
    <2>1. /\ Handle("write") /\ ~d.freed /\ ~d.deleteAfterWriting
          /\ d.conn # "attached" => ~CallMayCallBack(Head(calls))
      BY <1>5, HandleParts DEF WriteToSocket
    <2>2. IF Head(calls).notify THEN Promised(d', a, TRUE) ELSE Promised(d', a, no)
      BY <1>1, <1>2, <1>5, <2>1, WriteTells
    <2>3. Promised(d', a, no)
      BY <1>1, <2>2 DEF Promised, Told
    <2> QED BY <1>3, <2>1, <2>3, HandleParts DEF a
  <1>6. CASE CloseCall
    <2> DEFINE m == Head(calls)
    <2>1. Handle("close") /\ d' = CloseConn(d, m.type, m.notify)
      BY <1>6 DEF CloseCall
    <2>2. m \in Call /\ m.op = "close" /\ calls # <<>> /\ calls' = Tail(calls)
      BY <2>1, HandleParts
    <2>3. m.type \in CloseType /\ m.notify \in BOOLEAN
      BY <2>2, CallFields
    <2> HIDE DEF m
    <2>4. Promised(d', a, no)
      BY <1>1, <1>2, <2>1, <2>3, CloseConnPromised
    <2>5. ASSUME m.notify, R \in m.type, R \notin d.closeType PROVE Answered(d')
      <3> DEFINE e == d'
                 t == m.type
                 n == m.notify
      <3>1. e = CloseConn(d, t, n) /\ t \in CloseType /\ n \in BOOLEAN /\ n /\ R \in t
        BY <2>1, <2>3, <2>5
      <3> HIDE DEF e, t, n
      <3>2. R \in e.lastInformed
        BY <1>1, <2>5, <3>1, CloseConnTells
      <3>3. R \in d'.lastInformed
        BY <3>2 DEF e
      <3> QED BY <3>3 DEF Answered
    <2> QED BY <1>3, <2>2, <2>4, <2>5 DEF a, m
  <1>7. CASE ReadEof \/ ReadError
    <2>1. PICK type \in CloseType : d' = CloseConn(d, type, no)
      BY <1>7 DEF ReadEof, ReadError, CloseType, no
    <2>2. Promised(d', a, no)
      BY <1>1, <1>2, <2>1, CloseConnPromised
    <2> QED BY <1>3, <1>7, <2>2 DEF a, ReadEof, ReadError
  <1>8. CASE DeleteOnFinish
    <2>1. Handle("delete") /\ ~d.freed /\ ~d.deleteAfterWriting /\ d.conn = "gone"
      BY <1>8, HandleParts DEF DeleteOnFinish
    <2>2. Promised(d', a, no)
      BY <1>1, <1>2, <1>8, <2>1, DeleteTells
    <2> QED BY <1>3, <2>1, <2>2, HandleParts DEF a
  <1>9. CASE SocketWriteable
    <2>1. PICK s \in SendResults(d) : d' = Writeable(d, s) /\ d.writeActive /\ calls' = calls
      BY <1>9 DEF SocketWriteable, SocketTakes
    <2>2. /\ Told(d, a, no) /\ W \notin d.closeType /\ d.writeBuf > 0 /\ ~d.freed
          /\ d.conn # "attached" => NoCallbacks(d) /\ ~d.notifySome
          /\ d.deleteAfterWriting => d.conn = "gone" /\ d.closeAfterWriting
      BY <1>1, <1>2, <2>1 DEF TlsInv, IInv, Watched, Sound, Promised, ConnData, Silent, Kept
    <2>3. Promised(d', a, no)
      BY <1>1, <2>1, <2>2, WriteableTells
    <2> QED BY <1>3, <2>1, <2>3 DEF a
  <1>10. CASE DeliverFinished \/ DeliverSome
    <2>1. /\ d'.readActive = d.readActive /\ d'.lastInformed = d.lastInformed
          /\ d'.closeType = d.closeType /\ d'.laterClosed = d.laterClosed /\ calls' = calls
      BY <1>1, <1>10 DEF DeliverFinished, DeliverSome, ConnData
    <2> QED BY <2>1 DEF Answered
  <1> QED BY <1>4, <1>5, <1>6, <1>7, <1>8, <1>9, <1>10 DEF Network, Serve

LEMMA HeardWatch == HeardInv /\ Network /\ Watch => Heard'
  <1> SUFFICES ASSUME TlsInv, Heard, Network, Watch PROVE Heard'
    BY DEF HeardInv
  <1>1. /\ tls'.queue = tls.queue /\ tls'.due = tls.due
    BY WatchKeeps DEF SameTls
  <1>2. tls'.silent = (tls.silent \/ ClosedSilently)
    <2> DEFINE w == tls.silent \/ ClosedSilently
    <2>1. tls' = [tls EXCEPT !.silent = w]
      BY DEF Watch
    <2>2. tls \in TlsState
      BY TlsTypes
    <2> HIDE DEF w
    <2>3. tls'.silent = w
      BY <2>1, <2>2 DEF TlsState
    <2> QED BY <2>3 DEF w
  <1>3. /\ Answered(d) => Answered(d')
        /\ \/ calls' = calls
           \/ calls # <<>> /\ calls' = Tail(calls) /\ Head(calls).op # "close" /\ (Head(calls).op = "read" => Answered(d'))
           \/ /\ calls # <<>> /\ calls' = Tail(calls) /\ Head(calls).op = "close"
              /\ Head(calls).notify /\ R \in Head(calls).type /\ R \notin d.closeType => Answered(d')
    BY AnswersStay
  <1>4. calls \in Seq(Msg) /\ (Queued("received") <=> ~Never(tls.queue, "received"))
    BY TlsTypes DEF Queued, Never
  <1>5. calls # <<>> /\ calls' = Tail(calls) =>
          /\ \A o : Never(calls, o) <=> Head(calls).op # o /\ Never(calls', o)
          /\ Notice(calls) => Notice(calls') \/ (Head(calls).op = "close" /\ R \in Head(calls).type /\ Head(calls).notify)
    <2> SUFFICES ASSUME calls # <<>>, calls' = Tail(calls)
                 PROVE  /\ \A o : Never(calls, o) <=> Head(calls).op # o /\ Never(calls', o)
                        /\ Notice(calls) => Notice(calls') \/ (Head(calls).op = "close" /\ R \in Head(calls).type /\ Head(calls).notify)
      OBVIOUS
    <2>1. \A o : Never(calls, o) <=> Head(calls).op # o /\ Never(Tail(calls), o)
      BY <1>4, TailOf
    <2>2. Notice(calls) => Notice(Tail(calls)) \/ (Head(calls).op = "close" /\ R \in Head(calls).type /\ Head(calls).notify)
      BY <1>4, NoticeParts
    <2> QED BY <2>1, <2>2
  <1>6. Answered(d') \/ (Never(calls', "read") => Never(calls, "read"))
    BY <1>3, <1>5
  <1>7. OnItsWay => Answered(d') \/ (R \notin d.closeType /\ (Queued("received") \/ Notice(calls')))
    BY <1>3, <1>4, <1>5 DEF OnItsWay
  <1>8. R \in d'.lastInformed => Answered(d')
    BY DEF Answered
  <1> QED BY <1>1, <1>2, <1>3, <1>4, <1>6, <1>7, <1>8 DEF Heard, OnItsWay, ClosedSilently

LEMMA HeardPosts ==
  ASSUME TlsInv, Heard, NEW m \in Msg, d' = d, calls' = calls,
         tls' = [tls EXCEPT !.queue = Append(@, m)]
  PROVE  Heard'
  <1>1. tls'.due = tls.due /\ \A o : Never(tls'.queue, o) <=> Never(tls.queue, o) /\ m.op # o
    BY AppendParts
  <1>2. tls'.silent = tls.silent
    BY TlsTypes DEF TlsState
  <1> QED BY <1>1, <1>2 DEF Heard, Answered, OnItsWay

LEMMA CreateAnswers == TlsInv /\ Create => (Answered(d) => Answered(d'))
  <1> SUFFICES ASSUME TlsInv, Create, Answered(d) PROVE Answered(d')
    OBVIOUS
  <1>1. /\ ~d.readActive /\ R \notin d.closeType /\ d.lastInformed \subseteq d.closeType
    BY DEF Create, TlsInv, Fresh, Promised, Told, NotClosed
  <1> QED BY <1>1 DEF Answered

LEMMA HeardKept == HeardInv /\ [TlsNext]_tlsvars => HeardInv'
  <1> SUFFICES ASSUME TlsInv, Heard, [TlsNext]_tlsvars PROVE Heard'
    BY TlsKept DEF HeardInv
  <1>1. tls \in TlsState /\ d \in ConnData /\ tls.queue \in Seq(Msg)
    BY TlsTypes
  <1>2. CASE UNCHANGED tlsvars
    BY <1>2 DEF tlsvars, vars, Heard, Answered, OnItsWay
  <1>3. CASE TlsServe
    BY <1>3, HeardServes DEF HeardInv
  <1>4. CASE Network /\ Watch
    BY <1>4, HeardWatch DEF HeardInv
  <1>5. CASE tls.phase # "new" /\ Attach /\ Watch
    <2>1. /\ d'.readActive = d.readActive /\ d'.lastInformed = d.lastInformed
          /\ d'.closeType = d.closeType /\ d'.laterClosed = d.laterClosed /\ calls' = calls
      BY <1>1, <1>5 DEF Attach, ConnData
    <2>2. tls'.queue = tls.queue /\ tls'.due = tls.due
      BY <1>5, WatchKeeps DEF SameTls
    <2>3. tls'.silent = tls.silent
      <3> DEFINE w == tls.silent \/ ClosedSilently
      <3>1. tls' = [tls EXCEPT !.silent = w]
        BY <1>5 DEF Watch
      <3>2. ~ClosedSilently /\ tls.silent \in BOOLEAN
        BY <1>1, <2>1 DEF TlsState, ClosedSilently
      <3>3. w \in BOOLEAN /\ (w <=> tls.silent)
        BY <3>2
      <3> HIDE DEF w
      <3>4. tls'.silent = w
        BY <1>1, <3>1 DEF TlsState
      <3> QED BY <3>2, <3>3, <3>4
    <2> QED BY <2>1, <2>2, <2>3 DEF Heard, Answered, OnItsWay
  <1>6. CASE TlsUserRead \/ TlsUserWrite \/ TlsUserClose
    <2>1. PICK m \in Call : TlsPost(m) /\ d' = d /\ calls' = calls
      <3>1. CASE TlsUserRead
        <4>1. [op |-> "read"] \in Call
          BY DEF Call
        <4> QED BY <3>1, <4>1 DEF TlsUserRead, vars
      <3>2. CASE TlsUserWrite
        <4>1. PICK n \in 0 .. MaxWrite, notify \in BOOLEAN : TlsPost([op |-> "write", n |-> n, notify |-> notify])
          BY <3>2 DEF TlsUserWrite
        <4>2. [op |-> "write", n |-> n, notify |-> notify] \in Call
          BY ConnAssumption DEF Call
        <4> QED BY <3>2, <4>1, <4>2 DEF TlsUserWrite, vars
      <3>3. CASE TlsUserClose
        <4>1. PICK type \in UserCloses, notify \in BOOLEAN :
                TlsPost([op |-> "close", type |-> type, notify |-> notify])
          BY <3>3 DEF TlsUserClose
        <4>2. [op |-> "close", type |-> type, notify |-> notify] \in Call
          BY TlsAssumption DEF Call
        <4> QED BY <3>3, <4>1, <4>2 DEF TlsUserClose, vars
      <3> QED BY <1>6, <3>1, <3>2, <3>3
    <2>2. m \in Msg /\ tls' = [tls EXCEPT !.queue = Append(@, m)]
      BY <2>1 DEF TlsPost, Msg
    <2> QED BY <2>1, <2>2, HeardPosts
  <1>7. CASE TlsDestroy
    <2>1. ~tls.due /\ TlsPost([op |-> "delete"])
      BY <1>7 DEF TlsDestroy
    <2>2. ~tls'.due
      BY <1>1, <2>1 DEF TlsPost, TlsState
    <2> QED BY <2>2 DEF Heard
  <1>8. CASE TlsStop
    <2> DEFINE m == Close(HardClosed, FALSE)
    <2>1. m \in Msg
      BY DEF Close, Msg, Call, CloseType, HardClosed, NotClosed
    <2>2. d' = d /\ calls' = calls /\ tls' = [tls EXCEPT !.queue = Append(@, m)]
      BY <1>8 DEF TlsStop
    <2> HIDE DEF m
    <2> QED BY <2>1, <2>2, HeardPosts
  <1>9. CASE ReadCipher
    <2> DEFINE m == [op |-> "received"]
    <2>1. /\ d.readActive /\ d' = [d EXCEPT !.readActive = FALSE] /\ calls' = calls
          /\ tls' = [tls EXCEPT !.queue = Append(@, m)]
      BY <1>9 DEF ReadCipher, ReadBytes
    <2>2. m \in Msg /\ m.op = "received"
      BY DEF Msg
    <2> HIDE DEF m
    <2>3. ~Never(tls'.queue, "received")
      BY <2>1, <2>2, AppendParts
    <2>4. R \notin d'.closeType
      BY <1>1, <2>1 DEF TlsInv, IInv, Sound, ConnData
    <2> QED BY <2>3, <2>4 DEF Heard, OnItsWay
  <1>10. CASE CallUserClosed
    <2> DEFINE n == d.laterClosed - 1
               u == tls.due /\ R \notin d.closeType
    <2>1. /\ d' = [d EXCEPT !.laterClosed = n] /\ tls' = [tls EXCEPT !.due = u] /\ calls' = calls
          /\ d.lastInformed \subseteq d.closeType
      BY <1>10 DEF CallUserClosed, DeliverClosed, TlsInv, Promised, Told
    <2> HIDE DEF n, u
    <2>2. /\ d'.readActive = d.readActive /\ d'.lastInformed = d.lastInformed /\ d'.closeType = d.closeType
          /\ tls'.due = u /\ tls'.queue = tls.queue /\ tls'.silent = tls.silent
      BY <1>1, <2>1 DEF ConnData, TlsState
    <2> QED BY <2>1, <2>2 DEF Heard, Answered, OnItsWay, u
  <1>11. CASE Create
    <2>1. calls = <<>> /\ tls.queue = <<>> /\ calls' = calls /\ tls.phase = "new"
      BY <1>11 DEF Create, TlsInv, Fresh
    <2>2. tls'.queue = tls.queue /\ tls'.due = tls.due /\ tls'.silent = tls.silent
      BY <1>1, <1>11 DEF Create, TlsState
    <2>3. ~OnItsWay
      <3>1. Never(<<>>, "received") /\ ~Notice(<<>>)
        BY NoneLeft DEF Notice
      <3> QED BY <2>1, <3>1 DEF OnItsWay
    <2>4. Answered(d) => Answered(d')
      BY <1>11, CreateAnswers
    <2> QED BY <2>1, <2>2, <2>3, <2>4 DEF Heard
  <1> QED BY <1>2, <1>3, <1>4, <1>5, <1>6, <1>7, <1>8, <1>9, <1>10, <1>11 DEF TlsNext

LEMMA OneAnswerFollows == HeardInv => OneAnswer
  <1> SUFFICES ASSUME TlsInv, Heard PROVE OneAnswer
    BY DEF HeardInv
  <1> DEFINE A == {i \in 1 .. Len(tls.queue) : tls.queue[i].op = "received"}
             B == {i \in 1 .. Len(calls) : calls[i].op = "read"}
             r == IF d.readActive THEN 1 ELSE 0
  <1>1. tls.queue \in Seq(Msg) /\ calls \in Seq(Msg)
    BY TlsTypes
  <1>2. IsFiniteSet(A) /\ IsFiniteSet(B)
    <2>1. Len(tls.queue) \in Nat /\ Len(calls) \in Nat
      BY <1>1
    <2>2. IsFiniteSet(1 .. Len(tls.queue)) /\ IsFiniteSet(1 .. Len(calls))
      BY <2>1, FS_Interval
    <2> QED BY <2>2, FS_Subset
  <1>3. /\ A = {} <=> Never(tls.queue, "received")
        /\ B = {} <=> Never(calls, "read")
        /\ Once(tls.queue, "received") => \A x, y \in A : x = y
        /\ Once(calls, "read") => \A x, y \in B : x = y
    BY DEF Never, Once
  <1>4. Readers = Cardinality(A) + Cardinality(B) + r
    BY DEF Readers
  <1>5. r \in Nat /\ (r = 0 <=> ~d.readActive) /\ (d.readActive => r = 1)
    OBVIOUS
  <1> HIDE DEF A, B, r
  <1>6. /\ Cardinality(A) \in Nat /\ Cardinality(B) \in Nat
        /\ Cardinality(A) = 0 <=> A = {}
        /\ Cardinality(B) = 0 <=> B = {}
    BY <1>2, FS_CardinalityType, FS_EmptySet
  <1>7. ASSUME R \notin d.closeType PROVE Readers <= 1
    <2>1. Once(tls.queue, "received") /\ Once(calls, "read") /\ (A = {} \/ B = {})
          /\ (d.readActive => A = {} /\ B = {})
      BY <1>3, <1>7 DEF TlsInv, OneReader, Elsewhere
    <2>2. Cardinality(A) = IF A = {} THEN 0 ELSE 1
      BY <1>3, <2>1, AtMostOne
    <2>3. Cardinality(B) = IF B = {} THEN 0 ELSE 1
      BY <1>3, <2>1, AtMostOne
    <2> QED BY <1>4, <1>5, <2>1, <2>2, <2>3
  <1>8. ASSUME tls.due, Readers = 0
        PROVE  \/ R \in d.lastInformed \/ (R \in d.closeType /\ d.laterClosed > 0)
               \/ tls.error /\ R \notin d.closeType /\ Notice(calls)
               \/ tls.error /\ tls.silent
    <2>1. Cardinality(A) = 0 /\ Cardinality(B) = 0 /\ r = 0
      BY <1>4, <1>5, <1>6, <1>8
    <2>2. ~Elsewhere /\ ~d.readActive
      BY <1>3, <1>5, <1>6, <2>1 DEF Elsewhere
    <2>3. CASE ~tls.error
      <3>1. Due
        BY <1>8, <2>2, <2>3 DEF Due
      <3> QED BY <2>2, <3>1 DEF TlsInv, Promised, Told
    <2>4. CASE tls.error
      BY <1>8, <2>2, <2>4 DEF Heard, Answered, OnItsWay, Elsewhere
    <2> QED BY <2>3, <2>4
  <1> QED BY <1>7, <1>8 DEF OneAnswer

LEMMA TlsLeavesNothing == TlsInv => TlsNothingLeft
  <1> SUFFICES ASSUME TlsInv, ~stopped PROVE
        /\ d.conn = "gone" =>
             \/ d.freed \/ Queued("delete")
             \/ \E i \in 1 .. Len(calls) : calls[i].op = "delete"
             \/ d.deleteAfterWriting /\ d.closeAfterWriting /\ d.writeActive
        /\ d.freed => d.conn = "gone" /\ tls.queue = <<>> /\ calls = <<>>
    BY DEF TlsNothingLeft
  <1>1. \A s \in Seq(Msg) : OnlyCloses(s, stopped) => s = <<>>
    <2> SUFFICES ASSUME NEW s \in Seq(Msg), OnlyCloses(s, stopped), s # <<>> PROVE FALSE
      OBVIOUS
    <2>1. 1 \in 1 .. Len(s)
      <3>1. Len(s) \in Nat \ {0}
        BY EmptySeq
      <3> QED BY <3>1
    <2> QED BY <2>1 DEF OnlyCloses
  <1>2. d.freed => d.conn = "gone" /\ tls.queue = <<>> /\ calls = <<>>
    BY <1>1, TlsTypes DEF TlsInv, EndsOnce, Kept
  <1>3. /\ ~Never(tls.queue, "delete") => Queued("delete")
        /\ ~Never(calls, "delete") => \E i \in 1 .. Len(calls) : calls[i].op = "delete"
    BY DEF Never, Queued
  <1> QED BY <1>2, <1>3 DEF TlsInv, EndsOnce, Kept

(* Whatever the handshake, the errors of the stream, closes and stop() do, *)
(* and for every bound: a startReadWatcher() is on one way at most, none *)
(* is forgotten, and a connection that is gone is freed after its last *)
(* call. *)
THEOREM TlsAnswersHolds == TlsSpec => []TlsAnswers
  <1>1. HeardInv => TlsAnswers
    BY OneAnswerFollows, TlsLeavesNothing DEF TlsAnswers, HeardInv
  <1>2. TlsInit => HeardInv
    BY TlsBegins DEF TlsInit, Heard, HeardInv
  <1> QED BY <1>1, <1>2, HeardKept, PTL DEF TlsSpec

(****************************************)
(* The credentials.  The chain that is being built is a chain already, of *)
(* a key that has none yet, and while keys are taken nothing is added to *)
(* the certificates; each key of the call has a chain, waits, is the one *)
(* at hand or was refused. *)
(****************************************)

CredTypes ==
  /\ allCerts \in Seq(Certs) /\ crls \in Nat /\ trusted \subseteq Certs
  /\ chains \in Seq([certs: Seq(Certs), key: PrivateKeys, among: Nat])
  /\ loaded \in [certs: Seq(CertFiles), keys: Seq(PrivateKeys \cup {NoKey}), crls: Seq(CrlFiles)]
  /\ call \in [certs: Seq(Seq(Certs)), keys: Seq(PrivateKeys \cup {NoKey}), crls: Seq(Nat),
               trust: BOOLEAN, chain: Seq(Certs), key: PrivateKeys \cup {NoKey},
               rv: Nat, ok: BOOLEAN, of: Seq(PrivateKeys \cup {NoKey})]

ChainsHeld ==
  /\ \A n \in 1 .. Len(chains) : WholeChain(chains[n])
  /\ \A m, n \in 1 .. Len(chains) : chains[m].key = chains[n].key => m = n

ChainAtHand ==
  call.chain # <<>> =>
    /\ call.certs = <<>> /\ call.key \in PrivateKeys
    /\ ~HasChain(call.key) /\ ChainOf(call.chain, call.key, Len(allCerts))

KeysAnswered ==
  \A k \in 1 .. Len(call.of) :
    \/ ~call.ok
    \/ HasChain(call.of[k])
    \/ call.chain # <<>> /\ call.key = call.of[k]
    \/ \E j \in 1 .. Len(call.keys) : call.keys[j] = call.of[k]

CredInv == CredTypes /\ ChainsHeld /\ ChainAtHand /\ KeysAnswered

LEMMA CredBegins == CredInit => CredInv
<1> SUFFICES ASSUME CredInit PROVE CredInv
  OBVIOUS
<1> USE DEF CredInit, Nothing, Calling
<1>1. CredTypes
  BY DEF CredTypes
<1>2. ChainsHeld /\ KeysAnswered
  BY DEF ChainsHeld, KeysAnswered
<1>3. ChainAtHand
  BY DEF ChainAtHand
<1> QED BY <1>1, <1>2, <1>3 DEF CredInv

LEMMA ChainsStill ==
  ASSUME ChainsHeld, UNCHANGED <<allCerts, chains>> PROVE ChainsHeld'
<1>1. allCerts' = allCerts /\ chains' = chains
  OBVIOUS
<1>2. \A n \in 1 .. Len(chains) : WholeChain(chains[n])
  BY DEF ChainsHeld
<1>3. ASSUME NEW n \in 1 .. Len(chains) PROVE WholeChain(chains[n])'
  <2> DEFINE ch == chains[n]
  <2>1. WholeChain(ch)
    BY <1>2
  <2>2. chains[n]' = ch
    BY <1>1
  <2> HIDE DEF ch
  <2> QED BY <1>1, <2>1, <2>2 DEF WholeChain, ChainOf, Issuers
<1>4. \A m, n \in 1 .. Len(chains) : chains[m].key = chains[n].key => m = n
  BY DEF ChainsHeld
<1> QED BY <1>1, <1>2, <1>3, <1>4 DEF ChainsHeld

(* A call begins. *)
LEMMA CallBegins ==
  ASSUME CredInv, NEW certs \in Seq(Seq(Certs)), NEW keys \in Seq(PrivateKeys \cup {NoKey}),
         NEW lists \in Seq(Nat), NEW trust \in BOOLEAN,
         Begin(certs, keys, lists, trust),
         loaded' \in [certs: Seq(CertFiles), keys: Seq(PrivateKeys \cup {NoKey}), crls: Seq(CrlFiles)]
  PROVE  CredInv'
<1>1. /\ UNCHANGED <<allCerts, trusted, crls, chains>>
      /\ call' = [certs |-> certs, keys |-> keys, crls |-> lists, trust |-> trust, chain |-> <<>>,
                  key |-> NoKey, rv |-> 0, ok |-> TRUE, of |-> keys]
  BY DEF Begin, Calling
<1>2. CredTypes'
  BY <1>1 DEF CredInv, CredTypes
<1>3. ChainsHeld'
  BY <1>1, ChainsStill DEF CredInv
<1>4. ChainAtHand'
  BY <1>1 DEF ChainAtHand
<1>5. KeysAnswered'
  BY <1>1 DEF KeysAnswered
<1> QED BY <1>2, <1>3, <1>4, <1>5 DEF CredInv

LEMMA CallsKeep ==
  ASSUME CredInv,
         AddCerts \/ AddPrivateKey \/ AddRevocationLists \/ ActivateLoaded
  PROVE  CredInv'
<1>1. loaded \in [certs: Seq(CertFiles), keys: Seq(PrivateKeys \cup {NoKey}), crls: Seq(CrlFiles)]
  BY DEF CredInv, CredTypes
<1>2. Nothing \in [certs: Seq(CertFiles), keys: Seq(PrivateKeys \cup {NoKey}), crls: Seq(CrlFiles)]
  BY DEF Nothing
<1> DEFINE none == <<>>
<1>7. none \in Seq(Seq(Certs)) /\ none \in Seq(PrivateKeys \cup {NoKey}) /\ none \in Seq(Nat)
  OBVIOUS
<1>3. CASE AddCerts
  <2>1. PICK file \in CertFiles, trust \in BOOLEAN : Begin(<<file>>, <<>>, <<>>, trust)
    BY <1>3 DEF AddCerts
  <2> DEFINE one == <<file>>
  <2>2. one \in Seq(Seq(Certs))
    BY CredAssumption
  <2>3. Begin(one, none, none, trust)
    BY <2>1
  <2>4. loaded' = loaded
    BY <1>3 DEF AddCerts
  <2> HIDE DEF one, none
  <2> QED BY <1>1, <1>7, <2>2, <2>3, <2>4, CallBegins
<1>4. CASE AddPrivateKey
  <2>1. PICK key \in PrivateKeys \cup {NoKey} : Begin(<<>>, <<key>>, <<>>, FALSE)
    BY <1>4 DEF AddPrivateKey
  <2> DEFINE one == <<key>>
  <2>2. one \in Seq(PrivateKeys \cup {NoKey})
    BY CredAssumption
  <2>3. Begin(none, one, none, FALSE)
    BY <2>1
  <2>4. loaded' = loaded
    BY <1>4 DEF AddPrivateKey
  <2> HIDE DEF one, none
  <2> QED BY <1>1, <1>7, <2>2, <2>3, <2>4, CallBegins
<1>5. CASE AddRevocationLists
  <2>1. PICK file \in CrlFiles : Begin(<<>>, <<>>, <<file>>, FALSE)
    BY <1>5 DEF AddRevocationLists
  <2> DEFINE one == <<file>>
  <2>2. one \in Seq(Nat)
    BY CredAssumption
  <2>3. Begin(none, none, one, FALSE)
    BY <2>1
  <2>4. loaded' = loaded
    BY <1>5 DEF AddRevocationLists
  <2> HIDE DEF one, none
  <2> QED BY <1>1, <1>7, <2>2, <2>3, <2>4, CallBegins
<1>6. CASE ActivateLoaded
  <2>1. PICK trust \in BOOLEAN : Begin(loaded.certs, loaded.keys, loaded.crls, trust)
    BY <1>6 DEF ActivateLoaded
  <2>2. loaded.certs \in Seq(Seq(Certs))
    BY <1>1, CredAssumption, SeqMonotonic
  <2>3. loaded.crls \in Seq(Nat)
    BY <1>1, CredAssumption, SeqMonotonic
  <2>4. loaded.keys \in Seq(PrivateKeys \cup {NoKey})
    BY <1>1
  <2>5. loaded' = Nothing
    BY <1>6 DEF ActivateLoaded
  <2> QED BY <1>2, <2>1, <2>2, <2>3, <2>4, <2>5, CallBegins
<1> QED BY <1>3, <1>4, <1>5, <1>6

(* SeqOf makes sequences. *)
LEMMA FilesAreSeqs ==
  ASSUME NEW S, NEW s \in SeqOf(S, MaxFiles)
  PROVE  s \in Seq(S)
<1>1. PICK m \in 0 .. MaxFiles : s \in [1 .. m -> S]
  BY DEF SeqOf
<1>2. m \in Nat
  BY CredAssumption
<1> QED BY <1>1, <1>2, IsASeq

LEMMA LoadKeeps ==
  ASSUME CredInv, LoadFromDir PROVE CredInv'
<1>1. PICK certs \in SeqOf(CertFiles, MaxFiles), keys \in SeqOf(PrivateKeys \cup {NoKey}, MaxFiles),
           lists \in SeqOf(CrlFiles, MaxFiles) :
             loaded' = [certs |-> loaded.certs \o certs, keys |-> loaded.keys \o keys,
                        crls |-> loaded.crls \o lists]
  BY DEF LoadFromDir
<1>2. certs \in Seq(CertFiles) /\ keys \in Seq(PrivateKeys \cup {NoKey}) /\ lists \in Seq(CrlFiles)
  BY FilesAreSeqs
<1>3. UNCHANGED <<allCerts, trusted, crls, chains, call>>
  BY DEF LoadFromDir
<1>4. loaded \in [certs: Seq(CertFiles), keys: Seq(PrivateKeys \cup {NoKey}), crls: Seq(CrlFiles)]
  BY DEF CredInv, CredTypes
<1>5. loaded' \in [certs: Seq(CertFiles), keys: Seq(PrivateKeys \cup {NoKey}), crls: Seq(CrlFiles)]
  BY <1>1, <1>2, <1>4
<1>6. CredTypes'
  BY <1>3, <1>5 DEF CredInv, CredTypes
<1>7. ChainsHeld'
  BY <1>3, ChainsStill DEF CredInv
<1>8. ChainAtHand' /\ KeysAnswered'
  BY <1>3 DEF CredInv, ChainAtHand, KeysAnswered, HasChain, ChainOf
<1> QED BY <1>6, <1>7, <1>8 DEF CredInv

(* What is said of the certificates that are known stays true when one is *)
(* added. *)
LEMMA ChainsStay ==
  ASSUME CredInv, NEW c \in Certs, allCerts' = Append(allCerts, c), UNCHANGED chains
  PROVE  ChainsHeld'
<1>1. allCerts \in Seq(Certs) /\ Len(allCerts) \in Nat
  BY DEF CredInv, CredTypes
<1>2. /\ Len(allCerts') = Len(allCerts) + 1
      /\ \A i \in 1 .. Len(allCerts) : allCerts'[i] = allCerts[i]
  BY <1>1
<1>3. ASSUME NEW n \in 1 .. Len(chains) PROVE chains[n].among \in Nat
  <2> DEFINE OneChain == [certs: Seq(Certs), key: PrivateKeys, among: Nat]
  <2>1. chains \in Seq(OneChain)
    BY DEF CredInv, CredTypes
  <2>3. \A r \in OneChain : r.among \in Nat
    OBVIOUS
  <2> HIDE DEF OneChain
  <2>2. chains[n] \in OneChain
    BY <2>1
  <2> QED BY <2>2, <2>3
<1>4. ASSUME NEW n \in 1 .. Len(chains)
      PROVE  WholeChain(chains[n])'
  <2>1. WholeChain(chains[n])
    BY DEF CredInv, ChainsHeld, WholeChain
  <2>2. \A i \in 1 .. chains[n].among : allCerts'[i] = allCerts[i]
    <3> DEFINE m == chains[n].among
    <3>1. m \in Nat /\ m <= Len(allCerts)
      BY <1>3, <2>1 DEF WholeChain
    <3> HIDE DEF m
    <3>2. \A i \in 1 .. m : i \in 1 .. Len(allCerts)
      BY <1>1, <3>1
    <3>3. \A i \in 1 .. m : allCerts'[i] = allCerts[i]
      BY <1>2, <3>2
    <3> QED BY <3>3 DEF m
  <2>3. chains'[n] = chains[n]
    OBVIOUS
  <2> QED BY <1>1, <1>2, <1>3, <2>1, <2>2, <2>3 DEF WholeChain, ChainOf, Issuers
<1>5. Len(chains') = Len(chains)
  OBVIOUS
<1> QED BY <1>4, <1>5 DEF CredInv, ChainsHeld

LEMMA TakeCertKeeps ==
  ASSUME CredInv, TakeCert PROVE CredInv'
<1> DEFINE c == Head(Head(call.certs))
           rest == <<Tail(Head(call.certs))>> \o Tail(call.certs)
<1>1. call.certs \in Seq(Seq(Certs)) /\ call.certs # <<>> /\ Head(call.certs) # <<>>
  BY DEF CredInv, CredTypes, TakeCert
<1>2. Head(call.certs) \in Seq(Certs) /\ Tail(call.certs) \in Seq(Seq(Certs))
  BY <1>1
<1>3. c \in Certs /\ Tail(Head(call.certs)) \in Seq(Certs)
  BY <1>1, <1>2
<1>4. rest \in Seq(Seq(Certs))
  BY <1>2, <1>3
<1>5. call.chain = <<>>
  BY <1>1 DEF CredInv, ChainAtHand
<1>6. /\ UNCHANGED <<crls, chains, loaded>>
      /\ \/ /\ call' = [call EXCEPT !.certs = rest]
            /\ UNCHANGED <<allCerts, trusted>>
         \/ /\ call' = [call EXCEPT !.certs = rest, !.rv = @ + 1]
            /\ allCerts' = Append(allCerts, c)
            /\ trusted' = IF call.trust THEN trusted \cup {c} ELSE trusted
  BY DEF TakeCert
<1> HIDE DEF c, rest
<1>7. /\ call'.keys = call.keys /\ call'.chain = call.chain /\ call'.key = call.key
      /\ call'.of = call.of /\ call'.ok = call.ok
  BY <1>6 DEF CredInv, CredTypes
<1>8. CredTypes'
  <2>1. allCerts' \in Seq(Certs) /\ trusted' \subseteq Certs
    <3>1. allCerts \in Seq(Certs) /\ trusted \subseteq Certs
      BY DEF CredInv, CredTypes
    <3>2. Append(allCerts, c) \in Seq(Certs)
      BY <1>3, <3>1
    <3> QED BY <1>3, <1>6, <3>1, <3>2
  <2>2. call' \in [certs: Seq(Seq(Certs)), keys: Seq(PrivateKeys \cup {NoKey}), crls: Seq(Nat),
                   trust: BOOLEAN, chain: Seq(Certs), key: PrivateKeys \cup {NoKey},
                   rv: Nat, ok: BOOLEAN, of: Seq(PrivateKeys \cup {NoKey})]
    <3>1. CASE call' = [call EXCEPT !.certs = rest]
      BY <1>4, <3>1 DEF CredInv, CredTypes
    <3>2. CASE call' = [call EXCEPT !.certs = rest, !.rv = @ + 1]
      <4> DEFINE more == call.rv + 1
      <4>1. more \in Nat
        BY DEF CredInv, CredTypes
      <4>2. call' = [call EXCEPT !.certs = rest, !.rv = more]
        BY <3>2
      <4> HIDE DEF more
      <4> QED BY <1>4, <4>1, <4>2 DEF CredInv, CredTypes
    <3> QED BY <1>6, <3>1, <3>2
  <2> QED BY <1>6, <2>1, <2>2 DEF CredInv, CredTypes
<1>9. ChainsHeld'
  <2>1. CASE UNCHANGED allCerts
    BY <1>6, <2>1, ChainsStill DEF CredInv
  <2>2. CASE allCerts' = Append(allCerts, c)
    BY <1>3, <1>6, <2>2, ChainsStay
  <2> QED BY <1>6, <2>1, <2>2
<1>10. ChainAtHand'
  BY <1>5, <1>7 DEF ChainAtHand
<1>11. KeysAnswered'
  BY <1>6, <1>7 DEF CredInv, KeysAnswered, HasChain
<1> QED BY <1>8, <1>9, <1>10, <1>11 DEF CredInv

LEMMA RestKeeps ==
  ASSUME CredInv, CertsTaken \/ TakeLists PROVE CredInv'
<1>1. UNCHANGED <<allCerts, trusted, chains, loaded>>
  BY DEF CertsTaken, TakeLists
<1>2. /\ call'.keys = call.keys /\ call'.chain = call.chain /\ call'.key = call.key
      /\ call'.of = call.of /\ (call'.ok => call.ok) /\ (call.certs = <<>> => call'.certs = <<>>)
  <2>1. CASE CertsTaken
    <3> DEFINE yes == call.ok /\ call.rv > 0
    <3>1. call' = [call EXCEPT !.certs = Tail(@), !.ok = yes, !.rv = 0] /\ call.certs # <<>>
      BY <2>1 DEF CertsTaken
    <3>2. yes => call.ok
      OBVIOUS
    <3> HIDE DEF yes
    <3> QED BY <3>1, <3>2 DEF CredInv, CredTypes
  <2>2. CASE TakeLists
    <3> DEFINE yes == call.ok /\ Head(call.crls) > 0
    <3>1. call' = [call EXCEPT !.crls = Tail(@), !.ok = yes]
      BY <2>2 DEF TakeLists
    <3>2. yes => call.ok
      OBVIOUS
    <3> HIDE DEF yes
    <3> QED BY <3>1, <3>2 DEF CredInv, CredTypes
  <2> QED BY <2>1, <2>2
<1>3. CredTypes'
  <2>1. CASE CertsTaken
    <3> DEFINE yes == call.ok /\ call.rv > 0
               fewer == Tail(call.certs)
    <3>1. call' = [call EXCEPT !.certs = fewer, !.ok = yes, !.rv = 0] /\ call.certs # <<>> /\ crls' = crls
      BY <2>1 DEF CertsTaken
    <3>2. yes \in BOOLEAN
      OBVIOUS
    <3>3. fewer \in Seq(Seq(Certs))
      BY <3>1 DEF CredInv, CredTypes
    <3> HIDE DEF yes, fewer
    <3> QED BY <1>1, <3>1, <3>2, <3>3 DEF CredInv, CredTypes
  <2>2. CASE TakeLists
    <3> DEFINE yes == call.ok /\ Head(call.crls) > 0
               fewer == Tail(call.crls)
               more == crls + Head(call.crls)
    <3>1. call' = [call EXCEPT !.crls = fewer, !.ok = yes] /\ call.crls # <<>> /\ crls' = more
      BY <2>2 DEF TakeLists
    <3>2. yes \in BOOLEAN
      OBVIOUS
    <3>3. fewer \in Seq(Nat) /\ more \in Nat
      BY <3>1 DEF CredInv, CredTypes
    <3> HIDE DEF yes, fewer, more
    <3> QED BY <1>1, <3>1, <3>2, <3>3 DEF CredInv, CredTypes
  <2> QED BY <2>1, <2>2
<1>4. ChainsHeld'
  BY <1>1, ChainsStill DEF CredInv
<1>5. ChainAtHand'
  BY <1>1, <1>2 DEF CredInv, ChainAtHand, HasChain, ChainOf
<1>6. KeysAnswered'
  BY <1>1, <1>2 DEF CredInv, KeysAnswered, HasChain
<1> QED BY <1>3, <1>4, <1>5, <1>6 DEF CredInv

(* The first key is taken off: the others stay. *)
LEMMA KeysTail ==
  ASSUME CredInv, call.keys # <<>>
  PROVE  /\ Head(call.keys) \in PrivateKeys \cup {NoKey}
         /\ Tail(call.keys) \in Seq(PrivateKeys \cup {NoKey})
         /\ \A j \in 1 .. Len(call.keys) :
              \/ call.keys[j] = Head(call.keys)
              \/ \E i \in 1 .. Len(Tail(call.keys)) : Tail(call.keys)[i] = call.keys[j]
<1> DEFINE s == call.keys
<1>1. s \in Seq(PrivateKeys \cup {NoKey})
  BY DEF CredInv, CredTypes
<1>2. s # <<>>
  OBVIOUS
<1> HIDE DEF s
<1>3. Head(s) \in PrivateKeys \cup {NoKey} /\ Tail(s) \in Seq(PrivateKeys \cup {NoKey})
  BY <1>1, <1>2
<1>4. ASSUME NEW j \in 1 .. Len(s)
      PROVE  s[j] = Head(s) \/ \E i \in 1 .. Len(Tail(s)) : Tail(s)[i] = s[j]
  <2>1. CASE j = 1
    BY <1>1, <1>2, <2>1
  <2>2. CASE j # 1
    <3>1. j - 1 \in 1 .. Len(Tail(s)) /\ Tail(s)[j - 1] = s[j]
      BY <1>1, <1>2, <2>2
    <3> QED BY <3>1
  <2> QED BY <2>1, <2>2
<1> QED BY <1>3, <1>4 DEF s

LEMMA RefuseKeeps ==
  ASSUME CredInv, RefuseKey PROVE CredInv'
<1>1. /\ UNCHANGED <<allCerts, trusted, crls, chains, loaded>>
      /\ call' = [call EXCEPT !.keys = Tail(@), !.ok = FALSE]
      /\ call.keys # <<>> /\ call.chain = <<>>
  BY DEF RefuseKey, AtKey
<1>2. call'.chain = call.chain /\ call'.ok = FALSE /\ call'.of = call.of
  BY <1>1 DEF CredInv, CredTypes
<1>3. CredTypes'
  BY <1>1, KeysTail DEF CredInv, CredTypes
<1>4. ChainsHeld'
  BY <1>1, ChainsStill DEF CredInv
<1>5. ChainAtHand' /\ KeysAnswered'
  BY <1>1, <1>2 DEF ChainAtHand, KeysAnswered
<1> QED BY <1>3, <1>4, <1>5 DEF CredInv

LEMMA StartKeeps ==
  ASSUME CredInv, StartChain PROVE CredInv'
<1> DEFINE key == Head(call.keys)
<1>1. PICK i \in 1 .. Len(allCerts) :
        /\ IsFirst(i, OfKey(key))
        /\ call' = [call EXCEPT !.keys = Tail(@), !.chain = <<allCerts[i]>>, !.key = key]
  BY DEF StartChain
<1>2. /\ UNCHANGED <<allCerts, trusted, crls, chains, loaded>>
      /\ call.certs = <<>> /\ call.keys # <<>> /\ call.chain = <<>>
      /\ key # NoKey /\ ~HasChain(key)
  BY DEF StartChain, AtKey
<1>3. key \in PrivateKeys /\ Tail(call.keys) \in Seq(PrivateKeys \cup {NoKey})
  BY <1>2, KeysTail
<1>4. allCerts[i] \in Certs /\ allCerts[i].key = key
  BY <1>1 DEF IsFirst, OfKey
<1> DEFINE first == <<allCerts[i]>>
<1>5. first \in Seq(Certs) /\ Len(first) = 1 /\ first[1] = allCerts[i] /\ first # <<>>
  BY <1>4
<1>6. call' = [call EXCEPT !.keys = Tail(@), !.chain = first, !.key = key]
  BY <1>1
<1> HIDE DEF first, key
<1>7. /\ call'.certs = call.certs /\ call'.of = call.of /\ call'.ok = call.ok
      /\ call'.chain = first /\ call'.key = key /\ call'.keys = Tail(call.keys)
  BY <1>6 DEF CredInv, CredTypes
<1>8. CredTypes'
  BY <1>2, <1>3, <1>5, <1>6 DEF CredInv, CredTypes
<1>9. ChainsHeld'
  BY <1>2, ChainsStill DEF CredInv
<1>10. ChainOf(first, key, Len(allCerts))
  BY <1>1, <1>4, <1>5 DEF ChainOf
<1>11. ChainAtHand'
  BY <1>2, <1>3, <1>7, <1>10 DEF ChainAtHand, HasChain, ChainOf
<1>12. KeysAnswered'
  <2> SUFFICES ASSUME NEW k \in 1 .. Len(call.of), call.ok
               PROVE  \/ HasChain(call.of[k])
                      \/ key = call.of[k]
                      \/ \E j \in 1 .. Len(call'.keys) : call'.keys[j] = call.of[k]
    BY <1>2, <1>5, <1>7 DEF KeysAnswered, HasChain
  <2>1. HasChain(call.of[k]) \/ \E j \in 1 .. Len(call.keys) : call.keys[j] = call.of[k]
    BY <1>2 DEF CredInv, KeysAnswered
  <2> QED BY <1>2, <1>7, <2>1, KeysTail DEF key
<1> QED BY <1>8, <1>9, <1>11, <1>12 DEF CredInv

LEMMA ContinueKeeps ==
  ASSUME CredInv, ContinueChain PROVE CredInv'
<1>1. PICK i \in 1 .. Len(allCerts) :
        /\ IsFirst(i, Issuers(call.chain))
        /\ call' = [call EXCEPT !.chain = Append(@, allCerts[i])]
  BY DEF ContinueChain
<1>2. UNCHANGED <<allCerts, trusted, crls, chains, loaded>> /\ call.chain # <<>>
  BY DEF ContinueChain
<1> DEFINE s == call.chain
           t == Append(s, allCerts[i])
<1>3. s \in Seq(Certs) /\ Len(s) \in Nat
  BY DEF CredInv, CredTypes
<1>4. allCerts[i] \in Certs /\ allCerts[i].id = s[Len(s)].by /\ \A k \in 1 .. Len(s) : s[k] # allCerts[i]
  BY <1>1 DEF IsFirst, Issuers
<1>5. /\ t \in Seq(Certs) /\ t # <<>> /\ Len(t) = Len(s) + 1 /\ t[Len(s) + 1] = allCerts[i]
      /\ \A k \in 1 .. Len(s) : t[k] = s[k]
  <2> DEFINE x == allCerts[i]
  <2>1. x \in Certs /\ t = Append(s, x)
    BY <1>4
  <2> HIDE DEF x, s, t
  <2>2. t \in Seq(Certs) /\ t # <<>>
    BY <1>3, <2>1
  <2>3. Len(t) = Len(s) + 1 /\ t[Len(s) + 1] = x /\ \A k \in 1 .. Len(s) : t[k] = s[k]
    BY <1>3, <2>1
  <2> QED BY <2>2, <2>3 DEF x
<1>6. call' = [call EXCEPT !.chain = t]
  BY <1>1
<1>7. /\ call.certs = <<>> /\ call.key \in PrivateKeys /\ ~HasChain(call.key)
      /\ ChainOf(s, call.key, Len(allCerts))
  BY <1>2 DEF CredInv, ChainAtHand
<1>8. s # <<>> /\ Len(s) >= 1
  BY <1>3, <1>7 DEF ChainOf
<1>9. /\ s[1].key = call.key
      /\ \A k \in 1 .. Len(s) - 1 : s[k + 1].id = s[k].by
      /\ \A j, k \in 1 .. Len(s) : s[j] = s[k] => j = k
      /\ \A k \in 1 .. Len(s) : \E n \in 1 .. Len(allCerts) : allCerts[n] = s[k]
  BY <1>7 DEF ChainOf
<1> HIDE DEF s, t
<1>10. /\ call'.certs = call.certs /\ call'.keys = call.keys /\ call'.of = call.of
       /\ call'.ok = call.ok /\ call'.chain = t /\ call'.key = call.key
  BY <1>6 DEF CredInv, CredTypes
<1>11. CredTypes'
  BY <1>2, <1>5, <1>6 DEF CredInv, CredTypes
<1>12. ChainsHeld'
  BY <1>2, ChainsStill DEF CredInv
<1>13. ASSUME NEW k \in 1 .. Len(t) - 1 PROVE t[k + 1].id = t[k].by
  <2>1. CASE k = Len(s)
    BY <1>3, <1>4, <1>5, <1>8, <2>1
  <2>2. CASE k # Len(s)
    <3>1. k \in 1 .. Len(s) - 1 /\ k + 1 \in 1 .. Len(s)
      BY <1>3, <1>5, <2>2
    <3>2. t[k + 1] = s[k + 1] /\ t[k] = s[k]
      BY <1>3, <1>5, <3>1
    <3> QED BY <1>9, <3>1, <3>2
  <2> QED BY <2>1, <2>2
<1>14. ASSUME NEW j \in 1 .. Len(t), NEW k \in 1 .. Len(t), t[j] = t[k] PROVE j = k
  <2>1. j \in 1 .. Len(s) \/ j = Len(s) + 1
    BY <1>3, <1>5
  <2>2. k \in 1 .. Len(s) \/ k = Len(s) + 1
    BY <1>3, <1>5
  <2> QED BY <1>4, <1>5, <1>9, <1>14, <2>1, <2>2
<1>15. ASSUME NEW k \in 1 .. Len(t) PROVE \E n \in 1 .. Len(allCerts) : allCerts[n] = t[k]
  BY <1>3, <1>5, <1>9
<1>16. t[1].key = call.key
  BY <1>3, <1>5, <1>8, <1>9
<1>17. ChainOf(t, call.key, Len(allCerts))
  BY <1>5, <1>13, <1>14, <1>15, <1>16 DEF ChainOf
<1>18. ChainAtHand'
  BY <1>2, <1>7, <1>10, <1>17 DEF ChainAtHand, HasChain, ChainOf
<1>19. KeysAnswered'
  BY <1>2, <1>5, <1>10 DEF CredInv, KeysAnswered, HasChain
<1> QED BY <1>11, <1>12, <1>18, <1>19 DEF CredInv

LEMMA EndKeeps ==
  ASSUME CredInv, EndChain PROVE CredInv'
<1> DEFINE ch == [certs |-> call.chain, key |-> call.key, among |-> Len(allCerts)]
           OneChain == [certs: Seq(Certs), key: PrivateKeys, among: Nat]
<1>1. /\ UNCHANGED <<allCerts, trusted, crls, loaded>>
      /\ call' = [call EXCEPT !.chain = <<>>] /\ chains' = Append(chains, ch)
      /\ call.chain # <<>> /\ NoneOf(Issuers(call.chain))
  BY DEF EndChain
<1>2. /\ call.certs = <<>> /\ call.key \in PrivateKeys /\ ~HasChain(call.key)
      /\ ChainOf(call.chain, call.key, Len(allCerts))
  BY <1>1 DEF CredInv, ChainAtHand
<1>3. Len(allCerts) \in Nat /\ call.chain \in Seq(Certs)
  BY DEF CredInv, CredTypes
<1>4. ch \in OneChain
  BY <1>2, <1>3
<1>5. chains \in Seq(OneChain)
  BY DEF CredInv, CredTypes
<1>6. ch.certs = call.chain /\ ch.key = call.key /\ ch.among = Len(allCerts)
  OBVIOUS
<1>7. call'.chain = <<>> /\ call'.of = call.of /\ call'.ok = call.ok /\ call'.keys = call.keys
  BY <1>1 DEF CredInv, CredTypes
<1>8. WholeChain(ch)
  BY <1>1, <1>2, <1>3, <1>6 DEF WholeChain, NoneOf
<1> HIDE DEF ch, OneChain
<1>9. /\ chains' \in Seq(OneChain) /\ Len(chains') = Len(chains) + 1 /\ chains'[Len(chains) + 1] = ch
      /\ \A n \in 1 .. Len(chains) : chains'[n] = chains[n]
      /\ Len(chains) \in Nat
  BY <1>1, <1>4, <1>5
<1>10. CredTypes'
  <2>1. call' \in [certs: Seq(Seq(Certs)), keys: Seq(PrivateKeys \cup {NoKey}), crls: Seq(Nat),
                   trust: BOOLEAN, chain: Seq(Certs), key: PrivateKeys \cup {NoKey},
                   rv: Nat, ok: BOOLEAN, of: Seq(PrivateKeys \cup {NoKey})]
    <3> DEFINE none == <<>>
    <3>1. none \in Seq(Certs) /\ call' = [call EXCEPT !.chain = none]
      BY <1>1
    <3> HIDE DEF none
    <3> QED BY <3>1 DEF CredInv, CredTypes
  <2> QED BY <1>1, <1>9, <2>1 DEF CredInv, CredTypes, OneChain
<1>11. \A n \in 1 .. Len(chains) : WholeChain(chains[n])
  BY DEF CredInv, ChainsHeld
<1>12. \A n \in 1 .. Len(chains) : chains[n].key # call.key
  BY <1>2 DEF HasChain
<1>13. \A m, n \in 1 .. Len(chains) : chains[m].key = chains[n].key => m = n
  BY DEF CredInv, ChainsHeld
<1>14. \A n \in 1 .. Len(chains') : n \in 1 .. Len(chains) \/ n = Len(chains) + 1
  BY <1>9
<1>15. ASSUME NEW n \in 1 .. Len(chains') PROVE WholeChain(chains'[n])
  BY <1>8, <1>9, <1>11, <1>14
<1>16. ASSUME NEW n \in 1 .. Len(chains') PROVE WholeChain(chains[n])'
  <2>1. allCerts' = allCerts
    BY <1>1
  <2>2. PICK x : x = chains'[n]
    OBVIOUS
  <2>3. WholeChain(x)
    BY <1>15, <2>2
  <2>4. x.among <= Len(allCerts') /\ ChainOf(x.certs, x.key, x.among)'
    BY <2>1, <2>3 DEF WholeChain, ChainOf
  <2>5. \A i \in 1 .. x.among : allCerts'[i] \notin Issuers(x.certs)
    BY <2>1, <2>3 DEF WholeChain
  <2>6. x = chains[n]'
    BY <2>2
  <2>7. (chains[n].among <= Len(allCerts))'
    BY <2>4, <2>6
  <2>8. ChainOf(chains[n].certs, chains[n].key, chains[n].among)'
    BY <2>4, <2>6 DEF ChainOf
  <2>9. (\A i \in 1 .. chains[n].among : allCerts[i] \notin Issuers(chains[n].certs))'
    BY <2>5, <2>6 DEF Issuers
  <2> QED BY <2>7, <2>8, <2>9 DEF WholeChain
<1>17. ASSUME NEW m \in 1 .. Len(chains'), NEW n \in 1 .. Len(chains'), chains'[m].key = chains'[n].key
       PROVE  m = n
  BY <1>6, <1>9, <1>12, <1>13, <1>14, <1>17
<1>18. ChainsHeld'
  BY <1>16, <1>17 DEF ChainsHeld
<1>19. ChainAtHand'
  BY <1>7 DEF ChainAtHand
<1>20. \A key : HasChain(key) \/ key = call.key => HasChain(key)'
  BY <1>6, <1>9 DEF HasChain
<1>21. KeysAnswered'
  BY <1>7, <1>20 DEF CredInv, KeysAnswered
<1> QED BY <1>10, <1>18, <1>19, <1>21 DEF CredInv

LEMMA CredKept == CredInv /\ [CredNext]_credvars => CredInv'
<1> SUFFICES ASSUME CredInv, [CredNext]_credvars PROVE CredInv'
  OBVIOUS
<1>1. CASE UNCHANGED credvars
  <2>1. UNCHANGED <<allCerts, trusted, crls, chains, loaded, call>>
    BY <1>1 DEF credvars
  <2>2. ChainsHeld'
    BY <2>1, ChainsStill DEF CredInv
  <2> QED BY <2>1, <2>2 DEF CredInv, CredTypes, ChainAtHand, KeysAnswered, HasChain, ChainOf
<1>2. CASE AddCerts \/ AddPrivateKey \/ AddRevocationLists \/ ActivateLoaded
  BY <1>2, CallsKeep
<1>3. CASE LoadFromDir
  BY <1>3, LoadKeeps
<1>4. CASE TakeCert
  BY <1>4, TakeCertKeeps
<1>5. CASE CertsTaken \/ TakeLists
  BY <1>5, RestKeeps
<1>6. CASE RefuseKey
  BY <1>6, RefuseKeeps
<1>7. CASE StartChain
  BY <1>7, StartKeeps
<1>8. CASE ContinueChain
  BY <1>8, ContinueKeeps
<1>9. CASE EndChain
  BY <1>9, EndKeeps
<1> QED BY <1>1, <1>2, <1>3, <1>4, <1>5, <1>6, <1>7, <1>8, <1>9 DEF CredNext

(* The smallest of the numbers that satisfy what a set is made of. *)
LEMMA LeastOf ==
  ASSUME NEW S, S \subseteq Nat, S # {}
  PROVE  \E m \in S : \A k \in S : m <= k
<1> DEFINE L == OpToRel(<, Nat)
<1>1. IsWellFoundedOn(L, Nat)
  BY NatLessThanWellFounded
<1>2. \A x, y \in Nat : x < y => <<x, y>> \in L
  BY DEF OpToRel
<1> HIDE DEF L
<1>3. PICK m \in S : \A k \in S : ~(<<k, m>> \in L)
  BY <1>1, WFMin
<1>4. \A k \in S : m <= k
  <2> TAKE k \in S
  <2>1. k \in Nat /\ m \in Nat
    OBVIOUS
  <2>2. ~(k < m)
    BY <1>2, <1>3, <2>1
  <2> QED BY <2>1, <2>2
<1> QED BY <1>4

(* The library is given the key of the certificate it is given. *)
LEMMA KeyFits ==
  ASSUME CredInv, NEW n \in 1 .. Len(chains)
  PROVE  PrivateKeyFor(chains[n].certs[1]) = chains[n].certs[1].key
<1> DEFINE c == chains[n].certs[1]
           S == {m \in 1 .. Len(chains) : chains[m].certs[1] = c}
           First(m) == chains[m].certs[1] = c /\ \A k \in 1 .. m - 1 : chains[k].certs[1] # c
<1>1. S \subseteq Nat /\ n \in S
  OBVIOUS
<1>2. PICK m \in S : \A k \in S : m <= k
  BY <1>1, LeastOf
<1>3. First(m)
  <2>1. Len(chains) \in Nat
    BY DEF CredInv, CredTypes
  <2>2. ASSUME NEW k \in 1 .. m - 1, chains[k].certs[1] = c PROVE FALSE
    <3>1. k \in S /\ k < m
      BY <2>1, <2>2
    <3>2. m <= k
      BY <1>2, <3>1
    <3> QED BY <3>1, <3>2
  <2> QED BY <2>2
<1> DEFINE q == CHOOSE k \in 1 .. Len(chains) : First(k)
<1>4. q \in 1 .. Len(chains) /\ First(q)
  BY <1>3
<1>5. PrivateKeyFor(c) = chains[q].key
  BY DEF PrivateKeyFor
<1>6. WholeChain(chains[q])
  BY <1>4 DEF CredInv, ChainsHeld
<1>7. chains[q].certs[1].key = chains[q].key
  BY <1>6 DEF WholeChain, ChainOf
<1> QED BY <1>4, <1>5, <1>7

(* And the certificate suits what was served for. *)
LEMMA ChainSuits ==
  ASSUME CredInv, NEW context, NEW types, CertChain(context, types) # 0
  PROVE  LET n == CertChain(context, types) IN
         /\ n \in 1 .. Len(chains)
         /\ chains[n].certs[1].name \in context /\ chains[n].certs[1].algo \in types
<1> DEFINE S == {m \in 1 .. Len(chains) : Suits(m, context, types)}
           First(m) == Suits(m, context, types) /\ \A k \in 1 .. m - 1 : ~Suits(k, context, types)
<1>1. S \subseteq Nat /\ S # {}
  BY DEF CertChain
<1>2. PICK m \in S : \A k \in S : m <= k
  BY <1>1, LeastOf
<1>3. First(m)
  <2>1. Len(chains) \in Nat
    BY DEF CredInv, CredTypes
  <2>2. ASSUME NEW k \in 1 .. m - 1, Suits(k, context, types) PROVE FALSE
    <3>1. k \in S /\ k < m
      BY <2>1, <2>2
    <3>2. m <= k
      BY <1>2, <3>1
    <3> QED BY <3>1, <3>2
  <2> QED BY <2>2
<1> DEFINE q == CHOOSE k \in 1 .. Len(chains) : First(k)
<1>4. q \in 1 .. Len(chains) /\ First(q)
  BY <1>3
<1>5. CertChain(context, types) = q
  BY <1>1 DEF CertChain
<1> HIDE DEF q
<1> QED BY <1>4, <1>5 DEF Suits

(* Whatever certificates and keys there are and in whatever order they are *)
(* added, loaded and activated: each key has one chain, and it begins with *)
(* its certificate, follows the ids without repetition and ends where no *)
(* known certificate continues it; a handshake gets the private key of the *)
(* certificate it shows; and a call that answers that all went well leaves *)
(* a chain for each of its keys. *)
THEOREM CredentialsFitHolds == CredSpec => []CredentialsFit
<1>1. CredInv => CredentialsFit
  <2> SUFFICES ASSUME CredInv PROVE CredentialsFit
    OBVIOUS
  <2>1. /\ \A n \in 1 .. Len(chains) : WholeChain(chains[n])
        /\ \A m, n \in 1 .. Len(chains) : chains[m].key = chains[n].key => m = n
    BY DEF CredInv, ChainsHeld
  <2>2. ASSUME NEW context, NEW types, CertChain(context, types) # 0
        PROVE  LET n == CertChain(context, types) IN
               /\ chains[n].certs[1].name \in context /\ chains[n].certs[1].algo \in types
               /\ PrivateKeyFor(chains[n].certs[1]) = chains[n].certs[1].key
    BY <2>2, ChainSuits, KeyFits
  <2>3. Returned /\ call.ok => \A k \in 1 .. Len(call.of) : HasChain(call.of[k])
    <3> SUFFICES ASSUME Returned, call.ok, NEW k \in 1 .. Len(call.of) PROVE HasChain(call.of[k])
      OBVIOUS
    <3>1. call.keys = <<>> /\ call.chain = <<>>
      BY DEF Returned
    <3>2. Len(call.keys) = 0
      BY <3>1
    <3> QED BY <3>1, <3>2 DEF CredInv, KeysAnswered
  <2> QED BY <2>1, <2>2, <2>3 DEF CredentialsFit
<1> QED BY <1>1, CredBegins, CredKept, PTL DEF CredSpec
========================================
