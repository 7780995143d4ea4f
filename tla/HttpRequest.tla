---------------------------- MODULE HttpRequest ----------------------------
(***************************************************************************)
(* The client for one HTTP request at a time (net/httprequest.cpp): the    *)
(* HttpRequest object its user calls from a thread of his own, and the     *)
(* Conn object on the network thread that carries one request and its      *)
(* reply.  Over TLS the callbacks of a Conn are made by a TLS thread,      *)
(* which posts them to the network thread; without it they are made there. *)
(* What a Conn asks of its connection passes the TLS thread, too, and      *)
(* takes effect later, in the order in which it was asked.                 *)
(***************************************************************************)
EXTENDS TCPEnd, Sequences, FiniteSets, SequencesExt

CONSTANTS
  MaxStarts,   \* calls of start()
  MaxParts     \* parts a reply comes in

ASSUME HttpRequestAssumption == MaxStarts \in Nat /\ MaxParts \in Nat \ {0}

Starts == 1 .. MaxStarts
NoConn == 0
DestroyCall == 0   \* among posted calls, which are numbers of start() calls

Conn == [life: {"none", "live", "freed"}, parent: BOOLEAN, gotReply: BOOLEAN, timer: BOOLEAN,
         parts: 0 .. MaxParts, posted: Seq({"bytes", "closed"}), deletes: Nat]

VARIABLES
  user,     \* how far the user is with the object: using it, destroying it, done
  asked,    \* calls of start() so far
  inbox,    \* calls posted to the network thread
  tls,      \* which of the requests go over TLS
  current,  \* HttpRequest::conn_
  conns,    \* the Conn of each request
  sock,     \* its connection
  down,     \* over TLS: what its Conn asked for, on the way to it
  told,     \* what reply() said to each call
  harm      \* history: what went wrong, of Harms

(* late: the time ran out while a callback was on its way, or one began    *)
(* before the close that followed took effect; unheard: closed() was asked *)
(* for when all was closed, without a word, before; misused: an object was *)
(* used, or deleted, after its end.                                        *)
Harms == {"late", "unheard", "misused"}

httprequestvars == <<user, asked, inbox, tls, current, conns, sock, down, told, harm>>

NewConn == [life |-> "none", parent |-> FALSE, gotReply |-> FALSE, timer |-> FALSE,
            parts |-> 0, posted |-> <<>>, deletes |-> 0]

HttpRequestInit ==
  /\ user = "uses" /\ asked = 0 /\ inbox = <<>>
  /\ tls \in SUBSET Starts
  /\ current = NoConn
  /\ conns = [n \in Starts |-> NewConn] /\ sock = [n \in Starts |-> NewEnd]
  /\ down = [n \in Starts |-> <<>>] /\ told = [n \in Starts |-> <<>>] /\ harm = {}

----------------------------------------
(* The user. *)

AskStart ==
  /\ user = "uses" /\ asked < MaxStarts
  /\ asked' = asked + 1 /\ inbox' = Append(inbox, asked + 1)
  /\ UNCHANGED <<user, tls, current, conns, sock, down, told, harm>>

(* The destructor waits until the network thread has been there. *)
AskDestroy ==
  /\ user = "uses"
  /\ user' = "destroys" /\ inbox' = Append(inbox, DestroyCall)
  /\ UNCHANGED <<asked, tls, current, conns, sock, down, told, harm>>

----------------------------------------
(* The network thread: what a Conn asks of its connection. *)

Ask(op, type, notify) == [op |-> op, type |-> type, notify |-> notify]
Requests == Ask("start", {}, FALSE)   \* its request, and startReadWatcher
Reads   == Ask("read", {}, FALSE)
Deletes == Ask("delete", HardClosed, FALSE)   \* what is unsent: TCPConnection
Closes(type, notify) == Ask("close", type, notify)

Done(c, a) ==
  CASE a.op = "start"  -> StartRead(Write(c))
    [] a.op = "read"   -> StartRead(c)
    [] a.op = "close"  -> CloseGently(c, a.type, a.notify)
    [] a.op = "delete" -> [NewEnd EXCEPT !.closed = a.type, !.informed = a.type, !.telling = c.telling]

(* A close that should be told finds all closed, and nobody told. *)
Unheard(c, a) ==
  LET e == Done(c, a) IN
  IF a.notify /\ e.closed = c.closed /\ e.telling = 0 /\ c.informed # c.closed THEN {"unheard"} ELSE {}

(* The Conn of request n asks for a when its connection is c; harms is     *)
(* what else goes wrong.                                                   *)
Asks(n, c, a, harms) ==
  IF n \in tls
  THEN /\ sock' = [sock EXCEPT ![n] = c] /\ down' = [down EXCEPT ![n] = Append(@, a)]
       /\ harm' = harm \cup harms
  ELSE /\ sock' = [sock EXCEPT ![n] = Done(c, a)] /\ UNCHANGED down
       /\ harm' = harm \cup harms \cup Unheard(c, a)

(* A callback is scheduled while a close that should be told is on its way. *)
Closing(n)  == \E i \in 1 .. Len(down[n]) : down[n][i].notify
Crossing(n) == IF Closing(n)' /\ sock'[n].telling # sock[n].telling THEN {"late"} ELSE {}

Arrives(n) ==
  /\ down[n] # <<>> /\ down' = [down EXCEPT ![n] = Tail(@)]
  /\ sock' = [sock EXCEPT ![n] = Done(@, Head(down[n]))]
  /\ harm' = harm \cup Unheard(sock[n], Head(down[n])) \cup Crossing(n)
  /\ UNCHANGED <<user, asked, inbox, tls, current, conns, told>>

----------------------------------------
(* The network thread: posted calls. *)

Reply(n, status) == told' = [told EXCEPT ![n] = Append(@, status)]

(* start: one request at a time; the connection may not come about. *)
Start ==
  LET n == Head(inbox) IN
  /\ inbox # <<>> /\ n # DestroyCall /\ inbox' = Tail(inbox)
  /\ \/ /\ \/ current # NoConn /\ Reply(n, 429)
           \/ current = NoConn /\ Reply(n, 503)
        /\ UNCHANGED <<current, conns, sock, down, harm>>
     \/ /\ current = NoConn
        /\ current' = n
        /\ conns' = [conns EXCEPT ![n].life = "live", ![n].parent = TRUE, ![n].timer = TRUE]
        /\ Asks(n, sock[n], Requests, {})
        /\ UNCHANGED told
  /\ UNCHANGED <<user, asked, tls>>

\* Mutant: the connection is only closed, it still knows its parent.
DestroyUntold ==
  /\ inbox # <<>> /\ Head(inbox) = DestroyCall /\ inbox' = Tail(inbox)
  /\ user' = "done"
  /\ IF current = NoConn THEN UNCHANGED <<sock, down, harm>>
     ELSE Asks(current, sock[current], Closes(HardClosed, FALSE), {})
  /\ UNCHANGED <<asked, tls, current, conns, told>>

Destroy ==
  /\ inbox # <<>> /\ Head(inbox) = DestroyCall /\ inbox' = Tail(inbox)
  /\ user' = "done"
  /\ IF current = NoConn THEN UNCHANGED <<conns, sock, down, harm>>
     ELSE /\ conns' = [conns EXCEPT ![current].parent = FALSE]
          /\ Asks(current, sock[current], Closes(HardClosed, FALSE), {})
  /\ UNCHANGED <<asked, tls, current, told>>

----------------------------------------
(* The network thread: the Conn of request n. *)

Harm(n) == IF conns[n].life = "freed" \/ (conns[n].parent /\ user = "done") THEN {"misused"} ELSE {}

(* newBytesAvailable reads a part of the reply: more is to come, or it is  *)
(* not one, or it is complete.  gotReply_ is not looked at.                *)
NewReplyBytes(n, c) ==
  LET taken == [conns[n] EXCEPT !.posted = IF n \in tls THEN Tail(@) ELSE @] IN
  /\ \/ /\ conns[n].parts < MaxParts
        /\ Asks(n, c, Reads, Harm(n))
        /\ conns' = [conns EXCEPT ![n] = [taken EXCEPT !.parts = @ + 1]] /\ UNCHANGED told
     \/ /\ Asks(n, c, Closes(HardClosed, TRUE), Harm(n))
        /\ conns' = [conns EXCEPT ![n] = taken] /\ UNCHANGED told
     \/ /\ IF conns[n].parent THEN Reply(n, 200) ELSE UNCHANGED told
        /\ conns' = [conns EXCEPT ![n] = [taken EXCEPT !.gotReply = TRUE, !.timer = FALSE]]
        /\ Asks(n, c, Closes(ReadWriteClosed, TRUE), Harm(n))
  /\ UNCHANGED <<user, asked, inbox, tls, current>>

(* closed *)
ConnClosed(n, c) ==
  /\ IF conns[n].parent /\ ~conns[n].gotReply THEN Reply(n, 503) ELSE UNCHANGED told
  /\ current' = IF conns[n].parent THEN NoConn ELSE current
  /\ conns' = [conns EXCEPT ![n].timer = FALSE, ![n].deletes = @ + 1,
                            ![n].posted = IF n \in tls THEN Tail(@) ELSE @]
  /\ sock' = [sock EXCEPT ![n] = c]
  /\ harm' = harm \cup Harm(n)
  /\ UNCHANGED <<user, asked, inbox, tls, down>>

(* The TLS thread calls newBytesAvailable() or closed(), which posts. *)
Post(n, what, c) ==
  /\ n \in tls
  /\ conns' = [conns EXCEPT ![n].posted = Append(@, what)]
  /\ sock' = [sock EXCEPT ![n] = c]
  /\ harm' = harm \cup (IF conns[n].life = "freed" THEN {"misused"} ELSE {})
                  \cup (IF Closing(n) THEN {"late"} ELSE {})
  /\ UNCHANGED <<user, asked, inbox, tls, current, down, told>>

(* Bytes are there; over TLS the stream may end with them.                 *)
Bytes(n) ==
  LET c == [sock[n] EXCEPT !.watch = FALSE] IN
  /\ sock[n].watch
  /\ \/ Post(n, "bytes", c) \/ Post(n, "bytes", Close(c, ReadWriteClosed))
     \/ n \notin tls /\ NewReplyBytes(n, c)

Told(n) ==
  LET c == [sock[n] EXCEPT !.telling = @ - 1] IN
  sock[n].telling > 0 /\ (Post(n, "closed", c) \/ (n \notin tls /\ ConnClosed(n, c)))

PostedCall(n) ==
  /\ conns[n].posted # <<>>
  /\ \/ Head(conns[n].posted) = "bytes"  /\ NewReplyBytes(n, sock[n])
     \/ Head(conns[n].posted) = "closed" /\ ConnClosed(n, sock[n])

(* timeout: it may come while a callback is on its way. *)
Timeout(n) ==
  /\ conns[n].timer
  /\ IF conns[n].parent THEN Reply(n, 408) ELSE UNCHANGED told
  /\ conns' = [conns EXCEPT ![n].timer = FALSE, ![n].gotReply = conns[n].parent]
  /\ Asks(n, sock[n], Closes(HardClosed, TRUE),
          Harm(n) \cup (IF conns[n].posted # <<>> \/ sock[n].telling > 0 THEN {"late"} ELSE {}))
  /\ UNCHANGED <<user, asked, inbox, tls, current>>

DeleteConn(n) ==
  /\ conns[n].deletes > 0
  /\ conns' = [conns EXCEPT ![n] = [NewConn EXCEPT !.life = "freed", !.deletes = conns[n].deletes - 1,
                                                    !.posted = conns[n].posted]]
  /\ Asks(n, sock[n], Deletes,
          IF conns[n].life = "freed" \/ sock[n].watch THEN {"misused"} ELSE {})
  /\ UNCHANGED <<user, asked, inbox, tls, current, told>>

----------------------------------------
(* The socket of request n; over TLS an alert or an exception of the       *)
(* stream ends it, too.                                                    *)

Wire(n) ==
  /\ \/ sock[n].watch /\ sock' = [sock EXCEPT ![n] = Close(@, {R})]
     \/ sock[n].watch /\ sock' = [sock EXCEPT ![n] = Close(@, HardClosed)]
     \/ n \in tls /\ sock[n].watch
          /\ sock' = [sock EXCEPT ![n] = CloseGently([@ EXCEPT !.watch = FALSE], ReadWriteClosed, TRUE)]
     \/ sock[n].unsent /\ W \notin sock[n].closed /\ sock' = [sock EXCEPT ![n] = Sent(@)]
     \/ sock[n].unsent /\ W \notin sock[n].closed /\ sock' = [sock EXCEPT ![n] = Unsent(@, {W})]
     \/ sock[n].unsent /\ W \notin sock[n].closed /\ sock' = [sock EXCEPT ![n] = Unsent(@, HardClosed)]
  /\ UNCHANGED <<user, asked, inbox, tls, current, conns, down, told>>
  /\ harm' = harm \cup Crossing(n)

(* Nothing is said of a program that has used an object after its end. *)
HttpRequestNext ==
  /\ "misused" \notin harm
  /\ \/ AskStart \/ AskDestroy \/ Start \/ Destroy
     \/ \E n \in Starts : Bytes(n) \/ Told(n) \/ PostedCall(n) \/ Timeout(n) \/ DeleteConn(n)
                         \/ Arrives(n) \/ Wire(n)

HttpRequestSpec == HttpRequestInit /\ [][HttpRequestNext]_httprequestvars

----------------------------------------
(* Properties *)

HttpRequestTypeOK ==
  /\ user \in {"uses", "destroys", "done"} /\ asked \in 0 .. MaxStarts
  /\ current \in Starts \cup {NoConn} /\ conns \in [Starts -> Conn]
  /\ harm \subseteq Harms

(* Nothing of request n is under way: no call, no callback, no timer. *)
Idle(n) == /\ sock[n].telling = 0 /\ ~conns[n].timer /\ down[n] = <<>>
           /\ conns[n].posted = <<>> /\ conns[n].deletes = 0

(* Every start() is answered, exactly once, unless the object is destroyed *)
(* before; nothing is answered to an object that is gone; and a connection *)
(* that has answered is freed, once, and makes room for the next.  Only    *)
(* when a callback and the end of the time cross, the reply may follow the *)
(* 408, and a connection be freed twice: closed() and newBytesAvailable()  *)
(* do not look whether the timeout was there before them.  A connection    *)
(* stays for ever when all was closed without a word before closed() was   *)
(* asked for, which tcpconn.h guarantees in that case, too.                *)
RepliedOnce ==
  /\ "misused" \in harm => "late" \in harm
  /\ \A n \in Starts :
       /\ told[n] \in {<<>>, <<429>>, <<503>>, <<200>>, <<408>>, <<408, 200>>}
       /\ Len(told[n]) = 2 => "late" \in harm
       /\ conns[n].gotReply /\ conns[n].parent => told[n] # <<>>
  /\ "misused" \notin harm /\ inbox = <<>> =>
       \A n \in 1 .. asked : Idle(n) =>
         /\ told[n] # <<>> \/ user = "done" \/ "unheard" \in harm
         /\ conns[n].life = "live" \/ (current = n /\ user # "done") => "unheard" \in harm
========================================
