----------------------------- MODULE KafkaGroup -----------------------------
(***************************************************************************)
(* A consumer in a Kafka group: the group part of KafkaConnector::Impl     *)
(* (net/impl/kafkaconnectorimpl.cpp) with the connections to brokers it    *)
(* opens for it (kafkagroupconnection.cpp, kafkametadataconnection.cpp,    *)
(* kafkaconnection.cpp).  Everything runs on the connector's thread; the   *)
(* user's calls, replies, closed sockets and timers come in any order.     *)
(* Brokers are external: each answers the requests of a connection in      *)
(* order, well or with an error, or breaks the connection.                 *)
(***************************************************************************)
EXTENDS Integers, Sequences

CONSTANTS
  Groups,    \* group ids
  NoGroup,   \* the empty group id
  Conns,     \* connections that can be open at a time
  None,      \* the null pointer
  MaxTimers, \* bound: calls of rejoinGroup waiting for their second
  MaxSent    \* bound: requests waiting on one connection

ASSUME GroupAssumption == NoGroup \notin Groups /\ None \notin Conns \cup Groups \cup {NoGroup}

VARIABLES
  k,        \* the members of Impl, and `alive`, false after a null pointer was used
  conns,     \* the connections; history: the pointer to one was taken
             \* by an older one
  reading,  \* the connection whose newBytesAvailable() runs, if any
  told      \* whose partitions groupStateChanged() was last called with

kvars == <<k, conns, reading, told>>

Apis == {"coordinator", "join", "sync", "heartbeat", "leave"}
Gone == [phase |-> "gone", kind |-> "group", leaving |-> FALSE, sent |-> <<>>, orphan |-> FALSE]

KafkaInit ==
  /\ k = [groupId |-> NoGroup, memberId |-> FALSE, joinInProgress |-> FALSE,
          coordinatorRequest |-> None, groupConnection |-> None,
          heartbeat |-> FALSE, rejoins |-> 0, alive |-> TRUE]
  /\ conns = [c \in Conns |-> Gone]
  /\ reading = None
  /\ told = "nothing"

----------------------------------------
(* The functions of the code take the members and the connections, as one  *)
(* state s = [k, conns], to those after them.                               *)

State == [k |-> k, conns |-> conns]
Become(s) == k' = s.k /\ conns' = s.conns

Free(s) == {c \in Conns : s.conns[c].phase = "gone"}
Fresh(kind) == [Gone EXCEPT !.phase = "open", !.kind = kind]
Opened(s, c, kind) == [s EXCEPT !.conns[c] = Fresh(kind)]

\* Bytes written to a connection that is closed are dropped.
Request(s, c, api) ==
  IF c = None THEN [s EXCEPT !.k.alive = FALSE]
  ELSE IF s.conns[c].phase # "open" THEN s
  ELSE [s EXCEPT !.conns[c].sent = Append(@, [api |-> api, group |-> s.k.groupId])]

\* No reply comes any more, closed() will be called.
Silent(r) == [r EXCEPT !.phase = "closed", !.sent = <<>>]

\* close(): closed() is scheduled at once, or by the startReadWatcher() that
\* ends newBytesAvailable().
Close(s, c) ==
  IF s.conns[c].phase # "open" THEN s
  ELSE IF c = reading THEN [s EXCEPT !.conns[c].phase = "closing"]
  ELSE [s EXCEPT !.conns[c] = Silent(@)]

SingleShot(s) == [s EXCEPT !.k.rejoins = IF @ < MaxTimers THEN @ + 1 ELSE @]

DoJoin(s) == Request(s, s.k.groupConnection, "join")
DoSync(s) == Request(s, s.k.groupConnection, "sync")

\* connectToCluster() finds a broker (up) or not.
AskCoordinator(s, up) ==
  IF ~up \/ Free(s) = {} THEN [s EXCEPT !.k.groupId = NoGroup]
  ELSE LET c == CHOOSE x \in Free(s) : TRUE
       IN  Request([Opened(s, c, "coordinator") EXCEPT !.k.coordinatorRequest = c], c, "coordinator")

RejoinGroup(s, up) ==
  IF s.k.joinInProgress \/ s.k.groupId = NoGroup THEN s
  ELSE LET t == [s EXCEPT !.k.joinInProgress = TRUE]
       IN  IF s.k.groupConnection = None THEN AskCoordinator(t, up) ELSE DoJoin(t)

CleanLeave(s) ==
  IF s.k.groupConnection # None /\ s.k.groupId # NoGroup /\ s.k.memberId
  THEN [Request(s, s.k.groupConnection, "leave") EXCEPT
          !.k.heartbeat = FALSE, !.k.groupConnection = None]
  ELSE s

CloseIf(s, c) == IF c = None THEN s ELSE Close(s, c)

LeaveGroup(s) ==
  LET t == CleanLeave(s)
      u == CloseIf(CloseIf(t, t.k.coordinatorRequest), t.k.groupConnection)
  IN  [u EXCEPT !.k.groupId = NoGroup, !.k.joinInProgress = FALSE]

----------------------------------------
(* Calls of the user *)

Room == \A c \in Conns : Len(conns[c].sent) < MaxSent

JoinGroup(s, g, up) ==
  LET t == IF s.k.groupId # g THEN LeaveGroup(s) ELSE s
  IN  RejoinGroup([t EXCEPT !.k.groupId = g], up)

UserJoins(g) ==
  /\ reading = None /\ Room
  /\ \E up \in BOOLEAN : Become(JoinGroup(State, g, up))
  /\ UNCHANGED <<reading, told>>

UserLeaves ==
  /\ reading = None /\ Room
  /\ Become(LeaveGroup(State))
  /\ UNCHANGED <<reading, told>>

(* Timers *)

Rejoin ==
  /\ reading = None /\ k.rejoins > 0 /\ Room
  /\ \E up \in BOOLEAN : Become(RejoinGroup([State EXCEPT !.k.rejoins = @ - 1], up))
  /\ UNCHANGED <<reading, told>>

SendGroupHeartBeat ==
  /\ reading = None /\ k.heartbeat /\ Room
  /\ Become(Request(State, k.groupConnection, "heartbeat"))
  /\ UNCHANGED <<reading, told>>

----------------------------------------
(* Replies.  newBytesAvailable() handles every reply it has, also after    *)
(* one of them closed the connection.                                      *)

\* groupConnection_ may be the one of a newer join by now: it is overwritten all
\* the same, here and when a connection is closed.
Orphan(s) ==
  IF s.k.groupConnection = None THEN s
  ELSE [s EXCEPT !.conns[s.k.groupConnection].orphan = TRUE]

ReadGroupCoordinator(s, c, ok, up) ==
  IF ok /\ up /\ Free(s) # {}
  THEN LET g == CHOOSE x \in Free(s) : TRUE
       IN  Close(DoJoin([Opened(Orphan(s), g, "group") EXCEPT !.k.groupConnection = g]), c)
  ELSE Close(s, c)

JoinReply(s, c, ok) ==
  IF ok THEN [DoSync([s EXCEPT !.k.memberId = TRUE]) EXCEPT !.k.heartbeat = s.k.groupConnection # None]
  ELSE Close(s, c)

\* What the user calls from groupStateChanged(): nothing, leaveGroup or joinGroup.
Calls == {None, NoGroup} \cup Groups
Called(s, call, up) ==
  IF call = None THEN s ELSE IF call = NoGroup THEN LeaveGroup(s) ELSE JoinGroup(s, call, up)

\* The join that the user may just have begun is no longer in progress then.
SyncReply(s, c, ok, call, up) ==
  LET t == [Called(s, call, up) EXCEPT !.k.joinInProgress = FALSE]
  IN  IF ok THEN t ELSE Close(t, c)

LeaveReply(s, c) == Close([s EXCEPT !.conns[c].leaving = TRUE], c)

Handled(s, c, r, ok, call, up) ==
  CASE r.api = "coordinator" -> ReadGroupCoordinator(s, c, ok, up)
    [] r.api = "join"        -> JoinReply(s, c, ok)
    [] r.api = "sync"        -> SyncReply(s, c, ok, call, up)
    [] r.api = "leave"       -> LeaveReply(s, c)
    [] r.api = "heartbeat"   -> IF ok THEN s ELSE RejoinGroup(s, up)

\* groupStateChanged() with the lists of a reply to SyncGroup
GroupStateChanged(r, ok) ==
  IF r.api # "sync" THEN told
  ELSE IF ~ok THEN "nothing" ELSE IF r.group = k.groupId THEN "own" ELSE "other"

(* A broker refuses the empty group. *)
Reads(c) ==
  /\ reading = None /\ conns[c].phase = "open" /\ conns[c].sent # <<>>
  /\ reading' = c
  /\ UNCHANGED <<k, conns, told>>

Reply(c) ==
  /\ reading = c /\ conns[c].sent # <<>>
  /\ \E ok, up \in BOOLEAN, call \in Calls :
       LET r == Head(conns[c].sent)
           s == [State EXCEPT !.conns[c].sent = Tail(@)]
       IN  /\ ok => r.group # NoGroup
           /\ call # None => r.api = "sync" /\ Room
           /\ Become(Handled(s, c, r, ok, call, up))
           /\ told' = GroupStateChanged(r, ok)
  /\ UNCHANGED reading

EndRead(c) ==
  /\ reading = c
  /\ reading' = None
  /\ conns' = IF conns[c].phase = "closing" THEN [conns EXCEPT ![c] = Silent(@)] ELSE conns
  /\ UNCHANGED <<k, told>>

----------------------------------------
(* A connection that breaks, and the end of one *)

Breaks(c) ==
  /\ reading = None /\ conns[c].phase = "open"
  /\ conns' = [conns EXCEPT ![c] = Silent(@)]
  /\ UNCHANGED <<k, reading, told>>

CoordinatorClosed(s) ==
  LET t == [s EXCEPT !.k.coordinatorRequest = None]
  IN  IF s.k.groupId # NoGroup /\ s.k.groupConnection = None THEN SingleShot(t) ELSE t

\* Mutant: the pointer is kept.
GroupClosedKeeps(s, c) ==
  IF s.conns[c].leaving THEN s
  ELSE LET t == [s EXCEPT !.k.heartbeat = FALSE]
       IN  IF s.k.groupId # NoGroup THEN SingleShot(t) ELSE t

GroupClosed(s, c) ==
  IF s.conns[c].leaving THEN s
  ELSE LET t == [Orphan(s) EXCEPT !.k.heartbeat = FALSE, !.k.groupConnection = None]
       IN  IF s.k.groupId # NoGroup THEN SingleShot(t) ELSE t

Closed(c) ==
  /\ reading = None /\ conns[c].phase = "closed"
  /\ LET s == IF conns[c].kind = "coordinator" THEN CoordinatorClosed(State) ELSE GroupClosed(State, c)
     IN  Become([s EXCEPT !.conns[c] = Gone])
  /\ UNCHANGED <<reading, told>>

----------------------------------------
KafkaNext ==
  /\ k.alive
  /\ \/ \E g \in Groups : UserJoins(g)
     \/ UserLeaves
     \/ Rejoin
     \/ SendGroupHeartBeat
     \/ \E c \in Conns : Reads(c) \/ Reply(c) \/ EndRead(c) \/ Breaks(c) \/ Closed(c)

KafkaSpec == KafkaInit /\ [][KafkaNext]_kvars

----------------------------------------
(* Properties *)

KafkaTypeOK ==
  /\ k \in [groupId : Groups \cup {NoGroup}, memberId : BOOLEAN, joinInProgress : BOOLEAN,
            coordinatorRequest : Conns \cup {None}, groupConnection : Conns \cup {None},
            heartbeat : BOOLEAN, rejoins : 0 .. MaxTimers, alive : BOOLEAN]
  /\ reading \in Conns \cup {None}
  /\ told \in {"nothing", "own", "other"}
  /\ \A c \in Conns :
       /\ conns[c].phase \in {"open", "closing", "closed", "gone"}
       /\ conns[c].kind \in {"group", "coordinator"}
       /\ conns[c].leaving \in BOOLEAN /\ conns[c].orphan \in BOOLEAN
       /\ conns[c].sent \in Seq([api : Apis, group : Groups \cup {NoGroup}])

(* A request to leave waits on it, an older connection has taken the       *)
(* pointer to it, or it has been closed and answers are still read.        *)
Apart(a) ==
  (\E i \in 1 .. Len(a.sent) : a.sent[i].api = "leave") \/ a.orphan \/ a.phase = "closing"

(* No pointer of Impl is left to a connection that has deleted itself, nor *)
(* to one of the wrong kind or one the group was left on; and while the    *)
(* timer of sendGroupHeartBeat() runs, which uses groupConnection_         *)
(* unchecked, there is one.  The null pointer is used by doSync() only, a  *)
(* flaw of the code: a connection that the group no longer has answers a   *)
(* join, after leaveGroup() and before the answer to the leave, after an   *)
(* older connection has taken its place (an old request for the            *)
(* coordinator is answered, an old group connection is closed), or in the  *)
(* bytes that came before it was closed.                                   *)
PointersLive ==
  /\ k.coordinatorRequest # None =>
       /\ conns[k.coordinatorRequest].phase # "gone"
       /\ conns[k.coordinatorRequest].kind = "coordinator"
  /\ k.groupConnection # None =>
       /\ conns[k.groupConnection].phase # "gone"
       /\ conns[k.groupConnection].kind = "group"
       /\ ~conns[k.groupConnection].leaving
  /\ k.heartbeat => k.groupConnection # None
  /\ ~k.alive => reading # None /\ Apart(conns[reading])

(* kafkaconnector.h: "only one group can be joined simultaneously".  The   *)
(* partitions the user is told are those of the group he asked for.        *)
OneGroup == told # "other"
========================================
