---------------------------- MODULE KafkaClient ----------------------------
(***************************************************************************)
(* A Kafka producer and reader: the part of KafkaConnector::Impl that      *)
(* finds the brokers and sends requests to the one responsible             *)
(* (net/impl/kafkaconnectorimpl.cpp), with its connections                 *)
(* (kafkametadataconnection.cpp, kafkaproduceconnection.cpp,               *)
(* kafkafetchconnection.cpp, kafkaoffsetconnection.cpp).  One thread.      *)
(* There is one topic with one partition: others have maps of their own.   *)
(* Brokers are external.                                                   *)
(***************************************************************************)
EXTENDS Integers, Sequences, FiniteSets

CONSTANTS
  Nodes,      \* node ids of brokers
  NoNode,     \* -1
  Sockets,    \* connections that can be open at a time
  NoSocket,   \* the null pointer
  Requests,   \* correlation ids of the user's requests
  MaxRetries  \* bound: calls of fetchMetaData waiting for their second

ASSUME ClientAssumption ==
  NoNode \notin Nodes /\ NoSocket \notin Sockets /\ MaxRetries \in Nat \ {0}

VARIABLES
  b,       \* the members of Impl
  socket,  \* the connections
  fate     \* of each request: what the user has heard of it

cvars == <<b, socket, fate>>

Kinds == {"produce", "fetch", "offset"}
Unused == [phase |-> "gone", kind |-> "metadata", node |-> NoNode, sent |-> <<>>, ok |-> FALSE]

ClientInit ==
  /\ b = [cluster |-> FALSE, allBrokers |-> {}, leader |-> NoNode, currentState |-> "Idle",
          produce |-> [n \in Nodes |-> NoSocket], fetch |-> [n \in Nodes |-> NoSocket],
          retries |-> 0]
  /\ socket = [x \in Sockets |-> Unused]
  /\ fate = [r \in Requests |-> "new"]

----------------------------------------
Client == [b |-> b, socket |-> socket, fate |-> fate]
Is(s) == b' = s.b /\ socket' = s.socket /\ fate' = s.fate

NotInUse(s) == {x \in Sockets : s.socket[x].phase = "gone"}
Next1(s) == CHOOSE x \in NotInUse(s) : TRUE
New(kind, node) == [Unused EXCEPT !.phase = "open", !.kind = kind, !.node = node]
CanOpen(s, up) == up /\ NotInUse(s) # {}

\* Closed: no reply comes any more, closed() will be called; a request still
\* waiting is never answered.
Drop(s, x) ==
  [s EXCEPT !.socket[x].phase = "closed", !.socket[x].sent = <<>>,
            !.fate = [r \in Requests |->
                        IF r \in {s.socket[x].sent[i] : i \in DOMAIN s.socket[x].sent}
                        THEN "silent" ELSE @[r]]]

Answer(s, r) == [s EXCEPT !.fate[r] = IF @ = "answered" THEN "twice" ELSE "answered"]

\* Mutant: gives up.
FetchMetaDataOnce(s, up) ==
  IF ~s.b.cluster THEN [s EXCEPT !.b.currentState = "Idle"]
  ELSE IF CanOpen(s, up) THEN [s EXCEPT !.socket[Next1(s)] = New("metadata", NoNode)]
  ELSE s

FetchMetaData(s, up) ==
  IF ~s.b.cluster THEN [s EXCEPT !.b.currentState = "Idle"]
  ELSE IF CanOpen(s, up) THEN [s EXCEPT !.socket[Next1(s)] = New("metadata", NoNode)]
  ELSE [s EXCEPT !.b.retries = IF @ < MaxRetries THEN @ + 1 ELSE @]

\* write() of a request: nothing comes back of one that wants no answer, and
\* one written to a closed connection is lost.
Write(s, x, r, acks) ==
  IF ~acks THEN [s EXCEPT !.fate[r] = "silent"]
  ELSE IF s.socket[x].phase = "open"
  THEN [s EXCEPT !.socket[x].sent = Append(@, r), !.fate[r] = "sent"]
  ELSE [s EXCEPT !.fate[r] = "silent"]

Refuse(s, r, acks, up) ==
  FetchMetaData(IF acks THEN Answer(s, r) ELSE [s EXCEPT !.fate[r] = "silent"], up)

----------------------------------------
(* Calls of the user; up: a connection can be opened *)

Connect(up) == Is(FetchMetaData([Client EXCEPT !.b.cluster = TRUE], up))

\* allBrokers_[nodeId] makes an entry, without address, for a node not known.
Known(s) == [s EXCEPT !.b.allBrokers = @ \cup {b.leader}]
Reach(s, up) == CanOpen(s, up) /\ b.leader \in b.allBrokers

Produce(r, acks, up) ==
  IF b.leader = NoNode THEN Is(Refuse(Client, r, acks, up))
  ELSE LET x == b.produce[b.leader]
       IN  IF x # NoSocket THEN Is(Write(Client, x, r, acks))
           ELSE IF ~Reach(Client, up) THEN Is(Refuse(Known(Client), r, acks, up))
           ELSE LET y == Next1(Client)
                IN  Is(Write([Client EXCEPT !.socket[y] = New("produce", b.leader),
                                            !.b.produce[b.leader] = y], y, r, acks))

Fetch(r, up) ==
  IF b.leader = NoNode THEN Is(Refuse(Client, r, TRUE, up))
  ELSE LET x == b.fetch[b.leader]
       IN  IF x # NoSocket THEN Is(Write(Client, x, r, TRUE))
           ELSE IF ~Reach(Client, up) THEN Is(Refuse(Known(Client), r, TRUE, up))
           ELSE LET y == Next1(Client)
                IN  Is(Write([Client EXCEPT !.socket[y] = New("fetch", b.leader),
                                            !.b.fetch[b.leader] = y], y, r, TRUE))

GetOffsets(r, up) ==
  IF b.leader = NoNode THEN Is(Refuse(Client, r, TRUE, up))
  ELSE IF ~Reach(Client, up) THEN Is(Refuse(Known(Client), r, TRUE, up))
  ELSE LET y == Next1(Client)
       IN  Is(Write([Client EXCEPT !.socket[y] = New("offset", b.leader)], y, r, TRUE))

Ask(r, up) ==
  /\ fate[r] = "new"
  /\ \/ \E acks \in BOOLEAN : Produce(r, acks, up)
     \/ Fetch(r, up)
     \/ GetOffsets(r, up)

Retry(up) ==
  /\ b.retries > 0
  /\ Is(FetchMetaData([Client EXCEPT !.b.retries = @ - 1], up))

----------------------------------------
(* Replies, in the order of the requests of a connection *)

ReadMetaData(x) ==
  /\ socket[x].phase = "open" /\ socket[x].kind = "metadata"
  /\ \E nodes \in SUBSET Nodes, l \in Nodes \cup {NoNode} :
       Is(Drop([Client EXCEPT !.b.allBrokers = nodes, !.b.leader = l], x))

Answered(x) ==
  /\ socket[x].phase = "open" /\ socket[x].kind \in {"produce", "fetch"}
  /\ socket[x].sent # <<>>
  /\ Is(Answer([Client EXCEPT !.socket[x].sent = Tail(@)], Head(socket[x].sent)))

\* Of an error the user hears nothing.
OffsetAnswered(x) ==
  /\ socket[x].phase = "open" /\ socket[x].kind = "offset"
  /\ \E ok \in BOOLEAN :
       LET r == Head(socket[x].sent)
           s == [Client EXCEPT !.socket[x].sent = <<>>]
       IN  Is(Drop(IF ok THEN Answer([s EXCEPT !.socket[x].ok = TRUE], r)
                   ELSE [s EXCEPT !.fate[r] = "silent"], x))

Broken(x) ==
  /\ socket[x].phase = "open"
  /\ Is(Drop(Client, x))

----------------------------------------
(* closed() *)

Release(s, x) == [s EXCEPT !.socket[x] = Unused]

MetadataClosed(x) ==
  LET s == Release(Client, x)
  IN  Is(IF b.allBrokers = {} THEN [s EXCEPT !.b.retries = IF @ < MaxRetries THEN @ + 1 ELSE @]
         ELSE [s EXCEPT !.b.currentState = "Ready"])

ProduceClosed(x, up) ==
  LET s == [Client EXCEPT !.b.produce = [n \in Nodes |-> IF @[n] = x THEN NoSocket ELSE @[n]]]
  IN  Is(FetchMetaData(Release(s, x), up))

FetchClosed(x, up) ==
  LET s == [Client EXCEPT !.b.fetch = [n \in Nodes |-> IF @[n] = x THEN NoSocket ELSE @[n]]]
  IN  Is(FetchMetaData(Release(s, x), up))

OffsetClosed(x, up) ==
  LET s == Release(Client, x) IN Is(IF socket[x].ok THEN s ELSE FetchMetaData(s, up))

SocketClosed(x, up) ==
  /\ socket[x].phase = "closed"
  /\ \/ socket[x].kind = "metadata" /\ MetadataClosed(x)
     \/ socket[x].kind = "produce" /\ ProduceClosed(x, up)
     \/ socket[x].kind = "fetch" /\ FetchClosed(x, up)
     \/ socket[x].kind = "offset" /\ OffsetClosed(x, up)

----------------------------------------
ClientNext ==
  \/ \E up \in BOOLEAN :
       \/ Connect(up)
       \/ Retry(up)
       \/ \E r \in Requests : Ask(r, up)
       \/ \E x \in Sockets : SocketClosed(x, up)
  \/ \E x \in Sockets : ReadMetaData(x) \/ Answered(x) \/ OffsetAnswered(x) \/ Broken(x)

ClientSpec == ClientInit /\ [][ClientNext]_cvars

----------------------------------------
(* Properties *)

ClientTypeOK ==
  /\ b \in [cluster : BOOLEAN, allBrokers : SUBSET Nodes, leader : Nodes \cup {NoNode},
            currentState : {"Idle", "Ready"},
            produce : [Nodes -> Sockets \cup {NoSocket}],
            fetch : [Nodes -> Sockets \cup {NoSocket}], retries : 0 .. MaxRetries]
  /\ \A x \in Sockets : /\ socket[x].kind \in Kinds \cup {"metadata"}
                        /\ socket[x].phase \in {"open", "closed", "gone"}
                        /\ socket[x].node \in Nodes \cup {NoNode}
                        /\ socket[x].sent \in Seq(Requests)
                        /\ socket[x].ok \in BOOLEAN
  /\ fate \in [Requests -> {"new", "sent", "answered", "twice", "silent"}]

(* The maps of connections hold exactly those that have not called         *)
(* closed() yet, under the broker they lead to: no request goes through a  *)
(* pointer to a deleted connection, none opens a second one.               *)
Live(kind, n) == {x \in Sockets : /\ socket[x].phase # "gone"
                                  /\ socket[x].kind = kind /\ socket[x].node = n}
Held(x) == IF x = NoSocket THEN {} ELSE {x}
MapsLive ==
  \A n \in Nodes : Live("produce", n) = Held(b.produce[n]) /\ Live("fetch", n) = Held(b.fetch[n])

(* A request is answered once: it waits on one open connection until then, *)
(* and what is not answered was refused by the broker or lost with its     *)
(* connection; a produce() that wants no answer gets none.                 *)
WaitingOn(r) == {x \in Sockets : \E i \in DOMAIN socket[x].sent : socket[x].sent[i] = r}
AnsweredOnce ==
  \A r \in Requests :
    /\ fate[r] # "twice"
    /\ Cardinality(WaitingOn(r)) = (IF fate[r] = "sent" THEN 1 ELSE 0)
    /\ \A x \in WaitingOn(r) : socket[x].phase = "open"

(* As long as no broker is known, the search for the cluster goes on.      *)
KeepsLooking ==
  b.cluster /\ b.allBrokers = {} =>
    \/ b.retries > 0
    \/ \E x \in Sockets : socket[x].phase # "gone" /\ socket[x].kind = "metadata"

(* Whatever breaks, a request is answered once, the client has one         *)
(* connection for each purpose and goes on looking for its cluster.        *)
ClientKept == AnsweredOnce /\ MapsLive /\ KeepsLooking
========================================
