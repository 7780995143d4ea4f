---------------------------------- MODULE RMI ----------------------------------
(***************************************************************************)
(* Remote method invocation over WebSocket connections: the browser        *)
(* (js/net/rmi.mjs, js/net/rsig.mjs), the thread of the WSCommManager, the *)
(* thread of the RMIServer (net/impl/rmiserverbase.cpp, rmiserver.h) and   *)
(* the thread of one RMIService (net/rmiservice.cpp, rsig.h).  The browser *)
(* has one request on its way, the others wait; the service answers it at  *)
(* once or later; its signal reaches the clients that registered.  When a  *)
(* connection breaks the browser opens a new one after a while.  (The      *)
(* application does not call rmi.stop, and handles its replies.)           *)
(***************************************************************************)
EXTENDS Integers, Sequences, FiniteSets

CONSTANTS
  MaxLinks,     \* connections the browser opens; the last one does not break
  MaxRequests,  \* requests the application makes
  MaxRegs,      \* registrations it makes
  MaxSignals    \* times the service fires its signal

ASSUME RMIAssumption ==
  MaxLinks \in Nat \ {0} /\ MaxRequests \in Nat /\ MaxRegs \in Nat /\ MaxSignals \in Nat

Links    == 1 .. MaxLinks
Requests == 1 .. MaxRequests
Regs     == 1 .. MaxRegs

(* Messages, by their tag and, for tag 2, by the type of the call *)
Greeting      == [op |-> "hello", no |-> 0]
Request(r) == [op |-> "request", no |-> r]
Reg(i)     == [op |-> "reg", no |-> i]
Unreg(i)   == [op |-> "unreg", no |-> i]
Reply(r)   == [op |-> "reply", no |-> r]
Signal(i)  == [op |-> "signal", no |-> i]
Gone       == [op |-> "gone", no |-> 0]

(* A call posted to a thread: it is about message m of connection c. *)
At(c, m) == [conn |-> c, msg |-> m]

VARIABLES
  client,   \* the variables of rmi.mjs (callback: the request it belongs to, 0: null)
  sock,     \* a connection: not yet there, up, down, or down and the manager knows
  up, down, \* what is on its way to the server, to the browser
  greeted,  \* connections that have said hello
  server,   \* the RMIServer: calls posted to its thread, activeRequests_
  service,  \* the service: calls posted, defaultListeners, replies it delays
  made,     \* history: requests made, registrations made, ended, signals fired
  fate,     \* history: what became of a request
  answers   \* history: the callbacks called, with the replies they got

wires  == <<sock, up, down, greeted>>
hist == <<made, fate, answers>>
rmivars == <<client, wires, server, service, hist>>

RmiInit ==
  /\ client = [ws |-> 0, open |-> FALSE, active |-> FALSE, callback |-> 0,
               waiting |-> <<>>, async |-> <<>>, rsigs |-> <<>>]
  /\ sock = [c \in Links |-> "none"] /\ greeted = {}
  /\ up = [c \in Links |-> <<>>] /\ down = [c \in Links |-> <<>>]
  /\ server  = [queue |-> <<>>, active |-> {}]
  /\ service = [queue |-> <<>>, listeners |-> <<>>, delayed |-> {}]
  /\ made = [requests |-> 0, regs |-> 0, ended |-> {}, signals |-> 0]
  /\ fate = [r \in Requests |-> "new"] /\ answers = <<>>

----------------------------------------
(* The browser.  A socket that is not up any more drops what it is given.  *)

Sent(ms) == IF sock[client.ws] = "up" THEN [up EXCEPT ![client.ws] = @ \o ms] ELSE up

\* Mutant: requestActive is not set.
SendRequestIdle(r) ==
  /\ made' = [made EXCEPT !.requests = r]
  /\ IF client.active
       THEN /\ client' = [client EXCEPT !.waiting = Append(@, r)]
            /\ fate' = [fate EXCEPT ![r] = "waits"]
            /\ UNCHANGED up
       ELSE /\ client' = [client EXCEPT !.callback = r]
            /\ fate' = [fate EXCEPT ![r] = IF client.ws # 0 THEN "sent" ELSE "thrown"]
            /\ up' = IF client.ws # 0 THEN Sent(<<Request(r)>>) ELSE up
  /\ UNCHANGED <<sock, down, greeted, server, service, answers>>

(* Between two connections ws is null: ws.send throws, and the request is  *)
(* gone when nothing else was active.                                      *)
SendRequest(r) ==
  /\ made' = [made EXCEPT !.requests = r]
  /\ IF client.active
       THEN /\ client' = [client EXCEPT !.waiting = Append(@, r)]
            /\ fate' = [fate EXCEPT ![r] = "waits"]
            /\ UNCHANGED up
       ELSE /\ client' = [client EXCEPT !.active = TRUE, !.callback = r]
            /\ fate' = [fate EXCEPT ![r] = IF client.ws # 0 THEN "sent" ELSE "thrown"]
            /\ up' = IF client.ws # 0 THEN Sent(<<Request(r)>>) ELSE up
  /\ UNCHANGED <<sock, down, greeted, server, service, answers>>

(* register() and unregister(); a broken socket may not know it yet *)
SendAsync(m) ==
  /\ client.ws # 0
  /\ IF client.open /\ sock[client.ws] = "up"
       THEN up' = Sent(<<m>>) /\ UNCHANGED client
       ELSE /\ client' \in {client, [client EXCEPT !.async = Append(@, m)]}
            /\ ~client.open => client' # client
            /\ UNCHANGED up
  /\ UNCHANGED <<sock, down, greeted, server, service, fate, answers>>

Register ==
  /\ made.regs < MaxRegs
  /\ made' = [made EXCEPT !.regs = @ + 1]
  /\ SendAsync(Reg(made.regs + 1))

Unregister ==
  \E i \in 1 .. made.regs :
    /\ i \notin made.ended
    /\ made' = [made EXCEPT !.ended = @ \cup {i}]
    /\ SendAsync(Unreg(i))

(* rmi.start, by the application first, then by its timer *)
Start ==
  \E c \in Links :
    /\ client.ws = 0
    /\ sock[c] = "none" /\ \A b \in 1 .. c - 1 : sock[b] # "none"
    /\ client' = [client EXCEPT !.ws = c, !.open = FALSE, !.active = TRUE]
    /\ sock' = [sock EXCEPT ![c] = "up"]
    /\ UNCHANGED <<up, down, greeted, server, service, hist>>

(* checkWaitingRequests: the next request is sent; when there is none, the *)
(* signals that were put off are handled.                                  *)
CheckWaiting(c) ==
  IF c.waiting # <<>>
    THEN [c EXCEPT !.callback = Head(c.waiting), !.waiting = Tail(@)]
    ELSE [c EXCEPT !.callback = 0, !.active = FALSE, !.rsigs = <<>>]
NextRequest == IF client.waiting # <<>> THEN <<Request(Head(client.waiting))>> ELSE <<>>
SentNext(f) == IF client.waiting # <<>> THEN [f EXCEPT ![Head(client.waiting)] = "sent"] ELSE f

Opening == client.ws # 0 /\ ~client.open /\ sock[client.ws] = "up"

WsOpen ==
  /\ Opening
  /\ up' = Sent(<<Greeting>> \o client.async \o NextRequest)
  /\ client' = CheckWaiting([client EXCEPT !.open = TRUE, !.async = <<>>])
  /\ fate' = SentNext(fate)
  /\ UNCHANGED <<sock, down, greeted, server, service, made, answers>>

Arrives(op) ==
  /\ client.ws # 0 /\ down[client.ws] # <<>> /\ Head(down[client.ws]).op = op
  /\ down' = [down EXCEPT ![client.ws] = Tail(@)]

NewReply ==
  LET r == Head(down[client.ws]).no IN
  /\ Arrives("reply")
  /\ answers' = IF client.callback = 0 THEN answers
                ELSE Append(answers, [request |-> client.callback, reply |-> r])
  /\ fate' = SentNext(IF client.callback = 0 THEN fate
                      ELSE [fate EXCEPT ![client.callback] = "answered"])
  /\ client' = CheckWaiting(client) /\ up' = Sent(NextRequest)
  /\ UNCHANGED <<sock, greeted, server, service, made>>

(* A signal is handled at once, or put off while requests wait. *)
NewSignal ==
  /\ Arrives("signal")
  /\ client' = IF client.waiting = <<>> THEN client
               ELSE [client EXCEPT !.rsigs = Append(@, Head(down[client.ws]).no)]
  /\ UNCHANGED <<sock, up, greeted, server, service, hist>>

(* onclose comes after the messages that have arrived.  requestCallback is *)
(* kept, but its reply can never come.                                     *)
WsClose ==
  /\ client.ws # 0 /\ sock[client.ws] \in {"down", "told"} /\ down[client.ws] = <<>>
  /\ client' = [client EXCEPT !.ws = 0, !.open = FALSE]
  /\ fate' = [r \in Requests |-> IF fate[r] = "sent" THEN "lost" ELSE fate[r]]
  /\ UNCHANGED <<wires, server, service, made, answers>>

----------------------------------------
(* The network, and the thread of the WSCommManager *)

Posted(q, c, m) == [q EXCEPT !.queue = Append(@, At(c, m))]

(* Of what is on its way a part still arrives. *)
Break(c) ==
  /\ sock[c] = "up" /\ c < MaxLinks
  /\ sock' = [sock EXCEPT ![c] = "down"]
  /\ \E i \in 0 .. Len(up[c]), j \in 0 .. Len(down[c]) :
       /\ up' = [up EXCEPT ![c] = SubSeq(@, 1, i)]
       /\ down' = [down EXCEPT ![c] = SubSeq(@, 1, j)]
  /\ UNCHANGED <<client, greeted, server, service, hist>>

NewMsg(c) ==
  /\ up[c] # <<>>
  /\ up' = [up EXCEPT ![c] = Tail(@)]
  /\ IF Head(up[c]) = Greeting THEN greeted' = greeted \cup {c} /\ UNCHANGED server
     ELSE server' = Posted(server, c, Head(up[c])) /\ UNCHANGED greeted
  /\ UNCHANGED <<client, sock, down, service, hist>>

LinkClosed(c) ==
  /\ sock[c] = "down" /\ up[c] = <<>>
  /\ sock' = [sock EXCEPT ![c] = "told"]
  /\ server' = IF c \in greeted THEN Posted(server, c, Gone) ELSE server
  /\ UNCHANGED <<client, up, down, greeted, service, hist>>

----------------------------------------
(* The thread of the RMIServer *)

ServerTakes(ops) ==
  server.queue # <<>> /\ Head(server.queue).msg.op \in ops

(* handleCall: a second request of a connection ends it; whatever is       *)
(* accepted goes to the service, as does the end of a connection.          *)
HandleCall ==
  LET e      == Head(server.queue)
      second == e.msg.op = "request" /\ e.conn \in server.active
  IN
  /\ ServerTakes({"request", "reg", "unreg", "gone"})
  /\ server' = [server EXCEPT !.queue = Tail(@),
                  !.active = IF e.msg.op = "request" THEN @ \cup {e.conn} ELSE @]
  /\ service' = IF second THEN service ELSE Posted(service, e.conn, e.msg)
  /\ sock' = IF second /\ sock[e.conn] = "up" THEN [sock EXCEPT ![e.conn] = "down"] ELSE sock
  /\ fate' = IF second THEN [fate EXCEPT ![e.msg.no] = "refused"] ELSE fate
  /\ UNCHANGED <<client, up, down, greeted, made, answers>>

(* send: any message to a connection ends its active request. *)
SendOut ==
  LET e == Head(server.queue) IN
  /\ ServerTakes({"reply", "signal"})
  /\ server' = [server EXCEPT !.queue = Tail(@), !.active = @ \ {e.conn}]
  /\ down' = IF sock[e.conn] = "up" THEN [down EXCEPT ![e.conn] = Append(@, e.msg)] ELSE down
  /\ UNCHANGED <<client, sock, up, greeted, service, hist>>

----------------------------------------
(* The thread of the service *)

ServiceTakes(op) ==
  service.queue # <<>> /\ Head(service.queue).msg.op = op
Serving == Head(service.queue)

ReplyNow ==
  /\ ServiceTakes("request")
  /\ service' = [service EXCEPT !.queue = Tail(@)]
  /\ server' = Posted(server, Serving.conn, Reply(Serving.msg.no))
  /\ UNCHANGED <<client, wires, hist>>

DelayReply ==
  /\ ServiceTakes("request")
  /\ service' = [service EXCEPT !.queue = Tail(@), !.delayed = @ \cup {Serving}]
  /\ UNCHANGED <<client, wires, server, hist>>

(* RMIReplier::send *)
SendDelayed ==
  \E e \in service.delayed :
    /\ service' = [service EXCEPT !.delayed = @ \ {e}]
    /\ server' = Posted(server, e.conn, Reply(e.msg.no))
    /\ UNCHANGED <<client, wires, hist>>

(* QVector::removeAll, and the iterator that removes as it goes: what is   *)
(* not in gone stays, in its order.                                        *)
Without(s, gone) ==
  LET left[i \in 0 .. Len(s)] ==
        IF i = 0 THEN <<>> ELSE IF s[i] \in gone THEN left[i - 1] ELSE Append(left[i - 1], s[i])
  IN  left[Len(s)]

RegClient ==
  /\ ServiceTakes("reg")
  /\ service' = [service EXCEPT !.queue = Tail(@), !.listeners = Append(@, Serving)]
  /\ UNCHANGED <<client, wires, server, hist>>

UnregClient ==
  /\ ServiceTakes("unreg")
  /\ service' = [service EXCEPT !.queue = Tail(@),
                   !.listeners = Without(@, {At(Serving.conn, Reg(Serving.msg.no))})]
  /\ UNCHANGED <<client, wires, server, hist>>

ConnectionClosed ==
  /\ ServiceTakes("gone")
  /\ service' = [service EXCEPT !.queue = Tail(@),
                   !.listeners = Without(@, {At(Serving.conn, Reg(i)) : i \in Regs})]
  /\ UNCHANGED <<client, wires, server, hist>>

(* The service fires its signal: handleRemote sends it to every listener.  *)
HandleRemote ==
  /\ made.signals < MaxSignals
  /\ made' = [made EXCEPT !.signals = @ + 1]
  /\ server' = [server EXCEPT !.queue = @ \o
       [i \in 1 .. Len(service.listeners) |->
          At(service.listeners[i].conn, Signal(service.listeners[i].msg.no))]]
  /\ UNCHANGED <<client, wires, service, fate, answers>>

----------------------------------------
Application == (\E r \in Requests : r = made.requests + 1 /\ SendRequest(r))
                 \/ Register \/ Unregister
Browser == Start \/ WsOpen \/ NewReply \/ NewSignal \/ WsClose
Manager(c) == NewMsg(c) \/ LinkClosed(c)
Server  == HandleCall \/ SendOut
RmiService == ReplyNow \/ DelayReply \/ SendDelayed \/ RegClient \/ UnregClient \/ ConnectionClosed

RmiNext == Application \/ Browser \/ Server \/ RmiService \/ HandleRemote
          \/ \E c \in Links : Break(c) \/ Manager(c)

RmiSpec == RmiInit /\ [][RmiNext]_rmivars

----------------------------------------
(* Properties *)

CallMessage == [op: {"hello", "request", "reg", "unreg", "reply", "signal", "gone"}, no: Nat]

(* Types; and a request that waits or has a callback is one the browser    *)
(* shows as active.                                                        *)
RmiTypeOK ==
  /\ client.ws \in 0 .. MaxLinks /\ client.open \in BOOLEAN /\ client.active \in BOOLEAN
  /\ client.callback \in 0 .. MaxRequests /\ client.waiting \in Seq(Requests)
  /\ client.async \in Seq(CallMessage) /\ client.rsigs \in Seq(Regs)
  /\ client.callback # 0 \/ client.waiting # <<>> \/ client.rsigs # <<>> => client.active
  /\ sock \in [Links -> {"none", "up", "down", "told"}]
  /\ up \in [Links -> Seq(CallMessage)] /\ down \in [Links -> Seq(CallMessage)]
  /\ greeted \subseteq Links /\ server.active \subseteq Links
  /\ server.queue \in Seq([conn: Links, msg: CallMessage])
  /\ service.queue \in Seq([conn: Links, msg: CallMessage])

(* A callback gets the reply to its own request, once, and callbacks come  *)
(* in the order of the requests, over any number of connections; and the   *)
(* server never takes the browser for one that sends two requests at once. *)
RepliesMatch ==
  /\ \A i \in 1 .. Len(answers) : answers[i].request = answers[i].reply
  /\ \A i \in 2 .. Len(answers) : answers[i - 1].request < answers[i].request
  /\ \A r \in Requests : fate[r] # "refused"

Pending(q, c, op) == \E i \in 1 .. Len(q) : q[i].conn = c /\ q[i].msg.op = op

(* The server keeps nothing of a connection that has gone: every listener  *)
(* belongs to a connection whose end is still to be reported or on its way *)
(* through the threads, every active request has a reply on its way.       *)
NothingKept ==
  /\ \A i \in 1 .. Len(service.listeners) :
       LET c == service.listeners[i].conn IN
       \/ sock[c] # "told"
       \/ Pending(server.queue, c, "gone") \/ Pending(service.queue, c, "gone")
  /\ \A c \in server.active :
       \/ Pending(service.queue, c, "request") \/ Pending(server.queue, c, "reply")
       \/ \E e \in service.delayed : e.conn = c

(* Browser and threads have nothing left to do by themselves: no step of   *)
(* Browser, Manager, Server or RmiService is enabled.  Only the            *)
(* application and the network may leave things undone.                    *)
AtRest ==
  /\ client.ws = 0 => \A c \in Links : sock[c] # "none"
  /\ client.ws # 0 => client.open /\ sock[client.ws] = "up" /\ down[client.ws] = <<>>
  /\ \A c \in Links : up[c] = <<>> /\ sock[c] # "down"
  /\ server.queue = <<>> /\ service.queue = <<>> /\ service.delayed = {}

(* Then every request that was accepted has its answer or was lost with    *)
(* the connection it was sent on, and no signal is still put off.  (Every  *)
(* step takes something off a list or a queue that nothing refills for     *)
(* ever, so they get there.)                                               *)
Served ==
  AtRest => /\ \A r \in Requests : fate[r] \notin {"waits", "sent"}
            /\ client.rsigs = <<>>

(* Nothing of a connection that has gone, and nothing undone, is left.     *)
NothingLeft == NothingKept /\ Served

(* Every caller gets his own answer, every listener his signals, and no    *)
(* one else's are kept.                                                    *)
CallersAnswered == RepliesMatch /\ NothingLeft
========================================
