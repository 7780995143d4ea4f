--------------------------- MODULE HttpConnection ---------------------------
(***************************************************************************)
(* One HTTP connection: the RequestParser (net/impl/requestparser.cpp) on  *)
(* its HTTP worker thread, the Request handles (net/request.cpp) that      *)
(* handlers keep and answer on other threads, and the TCP connection below *)
(* as the parser sees it.  A request is a header of two tokens and, for a  *)
(* POST, a body; TCP delivers the stream in any chunks.  A body of more    *)
(* than InMemory tokens is passed through to the handler as it comes.      *)
(***************************************************************************)
EXTENDS TCPEnd, Integers, Sequences, FiniteSets, SequencesExt

CONSTANTS
  MaxRequests,  \* requests the client sends
  BigBody,      \* length of the body of a big POST
  InMemory      \* 0x400000: a shorter body is collected before the handler is called

ASSUME HttpAssumption ==
  MaxRequests \in Nat \ {0} /\ InMemory \in Nat \ {0} /\ BigBody \in Nat /\ BigBody > InMemory

Ids   == 1 .. MaxRequests
Kind  == {"get", "post", "big", "bad"}
Token == [req: Ids, part: {"head", "end", "body"}]

Size(k) == CASE k = "post" -> 1 [] k = "big" -> BigBody [] OTHER -> 0

Head1(n)   == [req |-> n, part |-> "head"]
HeadEnd(n) == [req |-> n, part |-> "end"]
Bodies(n, len) == [i \in 1 .. len |-> [req |-> n, part |-> "body"]]
TokensOf(n, k) == <<Head1(n), HeadEnd(n)>> \o Bodies(n, Size(k))

VARIABLES
  kind,     \* what the client asks
  wire,     \* tokens not yet received
  net,      \* the TCP connection: watcher, close type, data read but not fetched
  queue,    \* calls posted to the HTTP thread
  later,    \* what execLater and deleteNext scheduled there
  p,        \* the RequestParser
  phase,    \* the HTTP thread is in its event loop, in parseRequest or in a handler
  req,      \* the handles of a request: none, in its handler, kept, gone
  answered, \* replySent of a request
  got,      \* history: the tokens a request was given
  written   \* history: the requests whose reply was written

vars == <<kind, wire, net, queue, later, p, phase, req, answered, got, written>>

Init ==
  /\ kind \in [Ids -> Kind]
  /\ wire = FoldLeft(LAMBDA s, n : s \o TokensOf(n, kind[n]), <<>>, [n \in Ids |-> n])
  /\ net = [watch |-> TRUE, closed |-> {}, informed |-> {}, telling |-> 0, data |-> <<>>]
  /\ queue = <<>> /\ later = {}
  /\ p = [header |-> <<>>, body |-> <<>>, length |-> -1, count |-> 0,
          nextReply |-> 1, replies |-> {}, refs |-> 1, detached |-> FALSE,
          pass |-> FALSE, hook |-> FALSE, alive |-> TRUE]
  /\ phase = "idle"
  /\ req = [n \in Ids |-> "none"] /\ answered = [n \in Ids |-> FALSE]
  /\ got = [n \in Ids |-> <<>>] /\ written = <<>>

----------------------------------------
(* The TCP connection, as a parser that asks for no notification sees it. *)

Receive ==
  /\ net.watch
  /\ \E n \in 1 .. Len(wire) :
       /\ net' = [net EXCEPT !.watch = FALSE, !.data = @ \o SubSeq(wire, 1, n)]
       /\ wire' = SubSeq(wire, n + 1, Len(wire))
  /\ queue' = Append(queue, [op |-> "bytes"])
  /\ UNCHANGED <<kind, later, p, phase, req, answered, got, written>>

(* The client half-closes, the connection breaks or the server is stopped. *)
Lose ==
  /\ p.alive /\ ~p.detached
  /\ \/ net.watch /\ net' = Close(net, {R})
     \/ net.closed # HardClosed /\ net' = Close(net, HardClosed)
  /\ UNCHANGED <<kind, wire, queue, later, p, phase, req, answered, got, written>>

TellClosed ==
  /\ net.telling > 0
  /\ net' = [net EXCEPT !.telling = @ - 1]
  /\ queue' = Append(queue, [op |-> "closed"])
  /\ UNCHANGED <<kind, wire, later, p, phase, req, answered, got, written>>

----------------------------------------
(* Functions of the RequestParser. *)

(* The reply that was waited for is written, and those that follow it. *)
Flushed(q) ==
  LET next == CHOOSE m \in q.nextReply + 1 .. MaxRequests + 1 :
                /\ m \notin q.replies
                /\ \A i \in q.nextReply + 1 .. m - 1 : i \in q.replies
  IN  [q EXCEPT !.nextReply = next, !.replies = {i \in @ : i > next}]

(* sendReply of request n, with q the parser and c the connection at that  *)
(* moment; writeReply closes a connection whose upload is not read.        *)
SendReply(q, c, n) ==
  IF n = q.nextReply
    THEN LET next == Flushed(q) IN
         /\ p' = next
         /\ written' = IF W \in c.closed THEN written
                       ELSE written \o [i \in 1 .. next.nextReply - n |-> n + i - 1]
         /\ net' = IF q.pass THEN Close(c, ReadWriteClosed) ELSE c
    ELSE /\ p' = [q EXCEPT !.replies = @ \cup {n}]
         /\ net' = c /\ UNCHANGED written

(* detachRequest: the last reference schedules the deletion. *)
Unref(q)    == [q EXCEPT !.refs = @ - 1]
Deleting(q) == IF q.refs = 1 THEN later \cup {"delete"} ELSE later

\* Mutant: only the first request of a connection is read.
PauseUnread(c) == IF p.count > 0 THEN c ELSE StartRead(c)

(* The end of parseRequest: wait for more bytes, unless an upload is left  *)
(* to the handler.                                                         *)
Pause(c) == IF p.pass THEN c ELSE StartRead(c)

----------------------------------------
(* The HTTP thread takes a posted call or something scheduled. *)

Handle(op) ==
  /\ phase = "idle" /\ queue # <<>> /\ Head(queue).op = op
  /\ queue' = Tail(queue)

\* Mutant: the watcher is also started when the next request is here.
PassThroughReads ==
  LET rest == SubSeq(net.data, p.length + 1, Len(net.data)) IN
  /\ p' = [p EXCEPT !.pass = FALSE, !.hook = FALSE, !.length = -1, !.header = rest]
  /\ later' = IF rest = <<>> THEN later ELSE later \cup {"parse"}
  /\ net' = StartRead([net EXCEPT !.data = <<>>])
  /\ got' = [got EXCEPT ![p.count] = @ \o SubSeq(net.data, 1, p.length)]

(* morePassThroughData: the handler reads what is there (readPassThrough)  *)
(* and starts the watcher again, unless the next request is already here.  *)
PassThroughEnds ==
  LET rest == SubSeq(net.data, p.length + 1, Len(net.data)) IN
  /\ p' = [p EXCEPT !.pass = FALSE, !.hook = FALSE, !.length = -1, !.header = rest]
  /\ later' = IF rest = <<>> THEN later ELSE later \cup {"parse"}
  /\ net' = LET c == [net EXCEPT !.data = <<>>]
            IN  IF rest = <<>> THEN StartRead(c) ELSE c
  /\ got' = [got EXCEPT ![p.count] = @ \o SubSeq(net.data, 1, p.length)]

PassThroughGoesOn ==
  /\ p' = [p EXCEPT !.length = @ - Len(net.data)]
  /\ net' = StartRead([net EXCEPT !.data = <<>>])
  /\ got' = [got EXCEPT ![p.count] = @ \o net.data]
  /\ UNCHANGED later

NewBytesPassThrough ==
  /\ Handle("bytes") /\ p.pass
  /\ IF p.hook /\ R \notin net.closed
       THEN IF Len(net.data) >= p.length THEN PassThroughEnds ELSE PassThroughGoesOn
       ELSE UNCHANGED <<p, net, got, later>>
  /\ UNCHANGED <<kind, wire, phase, req, answered, written>>

NewBytesAvailable ==
  /\ Handle("bytes") /\ ~p.pass
  /\ p' = IF p.length = -1 THEN [p EXCEPT !.header = @ \o net.data]
          ELSE [p EXCEPT !.body = @ \o net.data]
  /\ net' = [net EXCEPT !.data = <<>>]
  /\ phase' = "parse"
  /\ UNCHANGED <<kind, wire, later, req, answered, got, written>>

(* closed: the reference of the connection itself goes.  A handler that is *)
(* told then reads nothing more: readPassThrough ends when reading is over. *)
Closed ==
  /\ Handle("closed")
  /\ p' = Unref(p) /\ later' = Deleting(p)
  /\ UNCHANGED <<kind, wire, net, phase, req, answered, got, written>>

ReplyPosted ==
  /\ Handle("reply")
  /\ SendReply(p, net, Head(queue).id)
  /\ UNCHANGED <<kind, wire, later, phase, req, answered, got>>

DetachPosted ==
  /\ Handle("detach")
  /\ p' = Unref(p) /\ later' = Deleting(p)
  /\ UNCHANGED <<kind, wire, net, phase, req, answered, got, written>>

ParseLater ==
  /\ phase = "idle" /\ "parse" \in later
  /\ later' = later \ {"parse"}
  /\ phase' = "parse"
  /\ UNCHANGED <<kind, wire, net, queue, p, req, answered, got, written>>

Delete ==
  /\ phase = "idle" /\ "delete" \in later
  /\ later' = later \ {"delete"}
  /\ p' = [p EXCEPT !.alive = FALSE]
  /\ UNCHANGED <<kind, wire, net, queue, phase, req, answered, got, written>>

----------------------------------------
(* parseRequest, one round of its loop at a time. *)

HasEnd(s)  == \E i \in 1 .. Len(s) : s[i].part = "end"
EndPos(s)  == CHOOSE i \in 1 .. Len(s) : s[i].part = "end"
                        /\ \A j \in 1 .. i - 1 : s[j].part # "end"

(* The parser with its header split off; the header names the request. *)
Split ==
  IF p.length # -1 THEN p
  ELSE LET e == EndPos(p.header) IN
       [p EXCEPT !.header = SubSeq(@, 1, e),
                 !.body   = SubSeq(p.header, e + 1, Len(p.header)),
                 !.length = IF kind[Head(p.header).req] = "get" THEN -1
                            ELSE Size(kind[Head(p.header).req])]

HeaderThere == p.length # -1 \/ HasEnd(p.header)
Asked       == kind[Head(p.header).req]

AwaitHeader ==
  /\ phase = "parse" /\ ~HeaderThere
  /\ phase' = "idle" /\ net' = Pause(net)
  /\ UNCHANGED <<kind, wire, queue, later, p, req, answered, got, written>>

BadHeader ==
  /\ phase = "parse" /\ HeaderThere /\ Asked = "bad"
  /\ p' = [p EXCEPT !.header = <<Head(@)>>,
                    !.body = SubSeq(p.header, EndPos(p.header) + 1, Len(p.header))]
  /\ phase' = "idle" /\ net' = Pause(Close(net, HardClosed))
  /\ UNCHANGED <<kind, wire, queue, later, req, answered, got, written>>

AwaitBody ==
  /\ phase = "parse" /\ HeaderThere /\ Asked # "bad"
  /\ Len(Split.body) < Size(Asked) /\ Len(Split.body) < InMemory
  /\ p' = Split
  /\ phase' = "idle" /\ net' = Pause(net)
  /\ UNCHANGED <<kind, wire, queue, later, req, answered, got, written>>

(* The request is complete, or its body is to be passed through; the stream *)
(* holds no more than MaxRequests of them.                                 *)
HandOver(refs, next) ==
  LET q    == Split
      size == Size(Asked)
      n    == p.count + 1
      have == IF Len(q.body) < size THEN Len(q.body) ELSE size
  IN
  /\ phase = "parse" /\ HeaderThere /\ Asked # "bad" /\ n <= MaxRequests
  /\ Len(q.body) >= size \/ Len(q.body) >= InMemory
  /\ p' = [q EXCEPT !.header = next, !.body = <<>>,
                    !.length = IF have < size THEN size - have ELSE -1,
                    !.pass = have < size, !.count = n, !.refs = refs]
  /\ got' = [got EXCEPT ![n] = q.header \o SubSeq(q.body, 1, have)]
  /\ req' = [req EXCEPT ![n] = "handler"]
  /\ phase' = "handler"
  /\ UNCHANGED <<kind, wire, net, queue, later, answered, written>>

(* What follows the body is the next header, as far as it is there. *)
NextHeader ==
  IF Len(Split.body) < Size(Asked) THEN <<>>
  ELSE SubSeq(Split.body, Size(Asked) + 1, Len(Split.body))

\* Mutant: what follows the body is dropped.
HandDropsRest == HandOver(p.refs + 1, <<>>)

\* Mutant: the request does not hold the parser.
HandUncounted == HandOver(p.refs, NextHeader)

Hand == HandOver(p.refs + 1, NextHeader)

----------------------------------------
(* A handler runs on the HTTP thread with request n = p.count. *)

HandlerReply ==
  /\ phase = "handler" /\ ~answered[p.count]
  /\ answered' = [answered EXCEPT ![p.count] = TRUE]
  /\ SendReply(p, net, p.count)
  /\ UNCHANGED <<kind, wire, queue, later, phase, req, got>>

(* The handler copies the request, to answer it later. *)
HandlerKeep ==
  /\ phase = "handler" /\ req[p.count] = "handler"
  /\ req' = [req EXCEPT ![p.count] = "kept"]
  /\ UNCHANGED <<kind, wire, net, queue, later, p, phase, answered, got, written>>

(* It takes the upload over: setPassThroughHandler and startWatcher. *)
HandlerHook ==
  /\ phase = "handler" /\ p.pass /\ ~p.hook
  /\ p' = [p EXCEPT !.hook = TRUE]
  /\ net' = StartRead(net)
  /\ req' = [req EXCEPT ![p.count] = "kept"]
  /\ UNCHANGED <<kind, wire, queue, later, phase, answered, got, written>>

(* It takes the connection over (WebSocketService).  Only when no earlier  *)
(* request is open: the parser has no connection to write their replies to. *)
HandlerDetach ==
  /\ phase = "handler" /\ req[p.count] = "handler" /\ ~answered[p.count] /\ ~p.pass
  /\ \A n \in 1 .. p.count - 1 : req[n] = "gone"
  /\ \A i \in 1 .. Len(queue) : queue[i].op # "reply"
  /\ p' = [Unref(p) EXCEPT !.detached = TRUE] /\ later' = Deleting(p)
  /\ answered' = [answered EXCEPT ![p.count] = TRUE]
  /\ UNCHANGED <<kind, wire, net, queue, phase, req, got, written>>

(* The rest of parseRequest after the handlers have returned. *)
LoopOn(q) == IF q.detached \/ q.header = <<>> THEN "idle" ELSE "parse"

HandlerReturn ==
  LET open == IF p.detached \/ p.header # <<>> THEN net ELSE Pause(net) IN
  /\ phase = "handler"
  /\ phase' = LoopOn(p)
  /\ \/ /\ req[p.count] = "kept"
        /\ net' = open /\ UNCHANGED <<p, later, req, answered, written>>
     \/ /\ req[p.count] = "handler" /\ answered[p.count]
        /\ net' = open /\ p' = Unref(p) /\ later' = Deleting(p)
        /\ req' = [req EXCEPT ![p.count] = "gone"] /\ UNCHANGED <<answered, written>>
     \/ /\ req[p.count] = "handler" /\ ~answered[p.count]
        /\ SendReply(Unref(p), open, p.count) /\ later' = Deleting(p)
        /\ req' = [req EXCEPT ![p.count] = "gone"]
        /\ answered' = [answered EXCEPT ![p.count] = TRUE]
  /\ UNCHANGED <<kind, wire, queue, got>>

----------------------------------------
(* Another thread that keeps a request. *)

KeeperReply(n) ==
  /\ req[n] = "kept" /\ ~answered[n] /\ ~(phase = "handler" /\ n = p.count)
  /\ answered' = [answered EXCEPT ![n] = TRUE]
  /\ queue' = Append(queue, [op |-> "reply", id |-> n])
  /\ UNCHANGED <<kind, wire, net, later, p, phase, req, got, written>>

(* The last handle of an answered request goes. *)
KeeperDrop(n) ==
  /\ req[n] = "kept" /\ answered[n] /\ ~(phase = "handler" /\ n = p.count)
  /\ req' = [req EXCEPT ![n] = "gone"]
  /\ queue' = Append(queue, [op |-> "detach"])
  /\ UNCHANGED <<kind, wire, net, later, p, phase, answered, got, written>>

Abort(n) ==
  /\ req[n] \in {"handler", "kept"} /\ ~p.detached /\ net.closed # HardClosed
  /\ net' = Close(net, HardClosed)
  /\ UNCHANGED <<kind, wire, queue, later, p, phase, req, answered, got, written>>

----------------------------------------
Network == Receive \/ Lose \/ TellClosed
Events  == NewBytesPassThrough \/ NewBytesAvailable \/ Closed \/ ReplyPosted
             \/ DetachPosted \/ ParseLater \/ Delete
Parse   == AwaitHeader \/ BadHeader \/ AwaitBody \/ Hand
Handler == HandlerReply \/ HandlerKeep \/ HandlerHook \/ HandlerDetach
Keeper(n) == KeeperReply(n) \/ KeeperDrop(n)

Next == Network \/ Events \/ Parse \/ Handler \/ HandlerReturn
          \/ \E n \in Ids : Keeper(n) \/ Abort(n)

Spec == Init /\ [][Next]_vars

(* The threads are scheduled, handlers return, and whoever keeps a request *)
(* answers and drops it (the same fairness in MCHttpConnection).           *)
Fairness ==
  /\ WF_vars(TellClosed)
  /\ WF_vars(Events \/ Parse \/ HandlerReturn)
  /\ \A n \in Ids : WF_vars(Keeper(n))
FairSpec == Spec /\ Fairness

----------------------------------------
(* Properties *)

TypeOK ==
  /\ kind \in [Ids -> Kind] /\ wire \in Seq(Token)
  /\ net.watch \in BOOLEAN /\ net.closed \subseteq HardClosed
  /\ net.informed \subseteq net.closed /\ net.telling \in 0 .. 3 /\ net.data \in Seq(Token)
  /\ p.header \in Seq(Token) /\ p.body \in Seq(Token)
  /\ p.length \in -1 .. BigBody /\ p.count \in 0 .. MaxRequests
  /\ p.nextReply \in 1 .. MaxRequests + 1 /\ p.replies \subseteq Ids
  /\ p.refs \in 0 .. MaxRequests + 1
  /\ later \subseteq {"parse", "delete"} /\ phase \in {"idle", "parse", "handler"}
  /\ req \in [Ids -> {"none", "handler", "kept", "gone"}]

Posted(op) == Cardinality({i \in 1 .. Len(queue) : queue[i].op = op})

(* However TCP cuts the stream, requests are told apart exactly: each gets *)
(* its own header and a prefix of its own body, the whole body unless it   *)
(* is passed through, and the rest of the stream is still to come.         *)
FramingExact ==
  /\ \A n \in 1 .. p.count :
       \E len \in 0 .. Size(kind[n]) :
         /\ got[n] = <<Head1(n), HeadEnd(n)>> \o Bodies(n, len)
         /\ len = Size(kind[n]) \/ (n = p.count /\ p.pass)
  /\ ~p.detached /\ net.closed # HardClosed =>
       FoldLeft(LAMBDA s, n : s \o got[n], <<>>, [n \in Ids |-> n])
         \o p.header \o p.body \o net.data \o wire
       = FoldLeft(LAMBDA s, n : s \o TokensOf(n, kind[n]), <<>>, [n \in Ids |-> n])

(* Replies go out in the order of the requests, whatever the order in      *)
(* which the handlers give them, and each request gets one; a reply that   *)
(* is given waits only for an earlier request.                             *)
RepliesInOrder ==
  /\ \A i \in 1 .. Len(written) : written[i] = i
  /\ p.nextReply \notin p.replies
  /\ \A n \in Ids : answered[n] /\ ~p.detached =>
       \/ n < p.nextReply \/ n \in p.replies
       \/ \E i \in 1 .. Len(queue) : queue[i] = [op |-> "reply", id |-> n]

(* Requests that share a connection are told apart, and so are the replies *)
(* to them.                                                                *)
PipelineKept == FramingExact /\ RepliesInOrder

(* What the threads of a connection share stays valid.  The parser lives   *)
(* as long as a request or a call needs it.  readData has no lock: the     *)
(* network thread may append to it only while the HTTP thread has no       *)
(* reason to fetch it.                                                     *)
SharedSafely ==
  /\ ~p.alive =>
       /\ queue = <<>> /\ net.telling = 0 /\ ~net.watch
       /\ \A n \in Ids : req[n] \in {"none", "gone"}
  /\ net.watch => Posted("bytes") = 0 /\ "parse" \notin later /\ net.data = <<>>

(* Every request that was handed out is answered on the wire, unless the   *)
(* connection is closed or taken over.                                     *)
EveryRequestAnswered ==
  \A n \in Ids : req[n] # "none" ~> n < p.nextReply \/ p.detached

(* A connection whose read half is closed is given up and its parser       *)
(* deleted, except when an upload is not read to its end: then nobody      *)
(* starts the watcher again, closed() does not come and the parser stays.  *)
Freed == R \in net.closed ~> ~p.alive \/ p.pass

(* Neither a request nor a connection that is closed hangs.                *)
NothingHangs == EveryRequestAnswered /\ Freed
========================================
