---------------------------- MODULE TLSConnection ----------------------------
(***************************************************************************)
(* A TCP connection with a TLS stream: a TLS thread stands between the     *)
(* user and the network thread (net/impl/tlsthread.cpp) and holds the      *)
(* stream (crypt/tlsserver.cpp, crypt/tlsclient.cpp).  Calls of the user   *)
(* pass its queue and then the one of the network thread; bytes that were  *)
(* received, and closed(), pass it the other way.  The network side is     *)
(* TCPConnection; one unit of plain text is one unit on the wire.          *)
(***************************************************************************)
EXTENDS TCPConnection

CONSTANTS
  MaxQueue,   \* most calls of users posted and not taken by the TLS thread
  UserCloses  \* the types users of the TLS stream call close() with

ASSUME TlsAssumption == UserCloses \subseteq CloseType \ {NotClosed}

VARIABLE tls
  \* phase: of the stream: "new" (made with the connection), "shake", "ready"
  \* error: an alert or an exception; nothing passes the stream any more
  \* held:  plain text written before the handshake is done
  \* queue: calls posted to the TLS thread; callClosed is taken in any order
  \* due:   history: a startReadWatcher() of the user is not yet answered
  \* silent: history: the read half was closed and nobody told, while bytes,
  \*        or a close that wants to be told, were on their way

tlsvars == <<vars, tls>>

TlsInit ==
  /\ Init
  /\ tls = [phase |-> "new", error |-> FALSE, held |-> 0, queue |-> <<>>, due |-> FALSE, silent |-> FALSE]

Queued(op)  == \E i \in 1 .. Len(tls.queue) : tls.queue[i].op = op
HeldBytes   == tls.held + FoldLeft(LAMBDA sum, m : sum + (IF m.op = "write" THEN m.n ELSE 0),
                                   0, tls.queue)
Writes(q)   == {i \in 1 .. Len(q) : q[i].op = "write"}
Notifies(q) == {i \in Writes(q) : q[i].notify}

----------------------------------------
(* The network thread makes the connection; a client has a hello to send.  *)

Create ==
  /\ tls.phase = "new" /\ tls' = [tls EXCEPT !.phase = "shake"]
  /\ \/ UNCHANGED <<d, unsent>>
     \/ LET c == [d EXCEPT !.writeBuf = 1] IN
        \E s \in SendResults(c) : d' = Writeable(c, s) /\ CountBytes(1, s)
  /\ UNCHANGED <<calls, stopped, ledger>>

(* The user, in the terms of TCPConnection.  Reads are asked for one at a  *)
(* time, and what was received is taken before the next.                   *)
TlsPost(m) ==
  /\ d.conn = "attached" /\ Len(tls.queue) < MaxQueue
  /\ tls' = [tls EXCEPT !.queue = Append(@, m)]

TlsUserRead ==
  /\ ~tls.due /\ ~Queued("read")
  /\ TlsPost([op |-> "read"]) /\ UNCHANGED vars

TlsUserWrite ==
  /\ \E n \in 0 .. MaxWrite, notify \in BOOLEAN :
       /\ notify => writesOwed + Cardinality(QueuedNotifies) + Cardinality(Notifies(tls.queue)) < MaxOwed
       /\ d.laterSome + Cardinality(QueuedWrites) + Cardinality(Writes(tls.queue)) < MaxSome
       /\ d.writeBuf + QueuedBytes + HeldBytes + n <= MaxBytes
       /\ TlsPost([op |-> "write", n |-> n, notify |-> notify])
  /\ UNCHANGED vars

TlsUserClose ==
  /\ \E type \in UserCloses, notify \in BOOLEAN :
       TlsPost([op |-> "close", type |-> type, notify |-> notify])
  /\ UNCHANGED vars

TlsDestroy ==
  /\ NothingPending
  /\ ~tls.due
  /\ \A i \in 1 .. Len(tls.queue) : tls.queue[i].op # "received" /\ ~CallMayCallBack(tls.queue[i])
  /\ TlsPost([op |-> "delete"])
  /\ d' = [d EXCEPT !.conn = "gone"]
  /\ UNCHANGED <<calls, unsent, stopped, ledger>>

----------------------------------------
(* The TLS thread: t is what is left of its state after the call.          *)

Does(op, t, posted) ==
  /\ tls.queue # <<>> /\ Head(tls.queue).op = op
  /\ Len(calls) + Len(posted) <= MaxCalls
  /\ calls' = calls \o posted
  /\ tls' = [t EXCEPT !.queue = Tail(@)]
  /\ UNCHANGED <<d, unsent, stopped, ledger>>

Close(type, notify) == [op |-> "close", type |-> type, notify |-> notify]
Write(n, notify)    == [op |-> "write", n |-> n, notify |-> notify]

(* startReadWatcher, closeConn and deleteOnFinish are passed on. *)
PassOn ==
  LET m == Head(tls.queue) IN
  \/ Does("read", [tls EXCEPT !.due = TRUE], <<m>>)
  \/ Does("close", tls, <<m>>)
  \/ Does("delete", tls, <<m>>)

(* write.  Before the end of the handshake the plain text is kept, and the *)
(* network thread is told to write nothing.                                *)
Encrypt ==
  LET m == Head(tls.queue) IN
  \/ /\ tls.phase = "ready" /\ ~tls.error
     /\ Does("write", tls, <<m>>)
  \/ /\ tls.phase = "ready" \/ tls.error
     /\ Does("write", [tls EXCEPT !.error = TRUE], <<Close(ReadWriteClosed, m.notify)>>)
  \/ /\ tls.phase = "shake" /\ ~tls.error
     /\ Does("write", [tls EXCEPT !.held = @ + m.n], <<Write(0, m.notify)>>)

(* read: what the stream made of the bytes received.  The plain text that  *)
(* was kept is sent when the handshake ends without an error.              *)
SendBack(n) == IF n = 0 THEN <<>> ELSE <<Write(n, FALSE)>>

\* Mutant: an error of the stream closes nothing.
MoreUnlessError(plain, ok) == IF plain \/ ~ok THEN <<>> ELSE <<[op |-> "read"]>>

More(plain, ok) ==
  IF plain THEN IF ok THEN <<>> ELSE <<Close(ReadWriteClosed, FALSE)>>
  ELSE IF ok THEN <<[op |-> "read"]>> ELSE <<Close(ReadWriteClosed, TRUE)>>

Received(t, back, plain, ok) ==
  /\ back > 0 => /\ d.writeBuf + QueuedBytes + back <= MaxBytes
                 /\ d.laterSome + Cardinality(QueuedWrites) < MaxSome
  /\ Does("received", [t EXCEPT !.due = @ /\ ~plain, !.error = ~ok],
          SendBack(back) \o More(plain, ok))

Decrypt ==
  \/ tls.error /\ Received(tls, 0, FALSE, FALSE)
  \/ \E back \in 0 .. 1, plain, ok \in BOOLEAN :
       /\ ~tls.error
       /\ \/ tls.phase = "shake" /\ ~plain /\ Received(tls, back, FALSE, ok)
          \/ tls.phase = "ready" /\ Received(tls, back, plain, ok)
          \/ /\ tls.phase = "shake"
             /\ LET sent == IF ok THEN tls.held ELSE 0 IN
                Received([tls EXCEPT !.phase = "ready", !.held = @ - sent],
                         back + sent, plain, ok)

(* callClosed *)
CallUserClosed ==
  /\ DeliverClosed
  /\ tls' = [tls EXCEPT !.due = @ /\ R \notin d.closeType]

TlsServe == PassOn \/ Encrypt \/ Decrypt

----------------------------------------
(* The network thread, where it meets the TLS thread. *)

\* Mutant: the watcher stays active while the TLS thread has the bytes.
ReadCipherOn ==
  /\ d.readActive /\ Len(tls.queue) < MaxQueue
  /\ tls' = [tls EXCEPT !.queue = Append(@, [op |-> "received"])]
  /\ UNCHANGED vars

(* readable: the bytes go to the TLS thread *)
ReadCipher ==
  /\ ReadBytes
  /\ tls' = [tls EXCEPT !.queue = Append(@, [op |-> "received"])]

(* stop: asks the TLS thread to close *)
TlsStop ==
  /\ tls.phase # "new" /\ ~d.freed /\ Len(tls.queue) < MaxQueue /\ ~stopped
  /\ tls' = [tls EXCEPT !.queue = Append(@, Close(HardClosed, FALSE))]
  /\ stopped' = TRUE
  /\ UNCHANGED <<d, calls, unsent, ledger>>

(* closed() is wanted when the call is handled. *)
Notice(q) == \E i \in 1 .. Len(q) : q[i].op = "close" /\ R \in q[i].type /\ q[i].notify

ClosedSilently ==
  /\ R \in d'.closeType \ (d.closeType \cup d'.lastInformed)
  /\ Queued("received") \/ Notice(calls')

Watch == tls' = [tls EXCEPT !.silent = @ \/ ClosedSilently]

Network == Serve \/ ReadEof \/ ReadError \/ SocketWriteable \/ DeliverFinished \/ DeliverSome

TlsNext ==
  \/ Create \/ TlsServe \/ CallUserClosed \/ ReadCipher \/ TlsStop
  \/ TlsUserRead \/ TlsUserWrite \/ TlsUserClose \/ TlsDestroy
  \/ (Network \/ (tls.phase # "new" /\ Attach)) /\ Watch

TlsSpec == TlsInit /\ [][TlsNext]_tlsvars

----------------------------------------
(* Properties *)

TlsTypeOK ==
  tls \in [phase: {"new", "shake", "ready"}, error: BOOLEAN, held: Nat,
           queue: Seq(Call \cup [op: {"received"}]), due: BOOLEAN, silent: BOOLEAN]

(* A startReadWatcher() of the user is on its way down, or the watcher is  *)
(* active, or bytes are on their way up, or closed() is or was, or after   *)
(* an error of the stream the close is queued that tells the user: never   *)
(* none of it, however many rounds of the handshake it takes, so it is     *)
(* answered; and never two of it, so the network thread does not append to *)
(* bytes that the TLS thread works on.  Only an error that meets a read    *)
(* half closed before, without telling anybody, leaves it unanswered:      *)
(* closeConn then has nothing to change and tells nobody.                  *)
Readers ==
  Cardinality({i \in 1 .. Len(tls.queue) : tls.queue[i].op = "received"})
    + Cardinality({i \in 1 .. Len(calls) : calls[i].op = "read"})
    + (IF d.readActive THEN 1 ELSE 0)

OneAnswer ==
  /\ R \notin d.closeType => Readers <= 1
  /\ tls.due /\ Readers = 0 =>
       \/ R \in d.lastInformed \/ (R \in d.closeType /\ d.laterClosed > 0)
       \/ tls.error /\ R \notin d.closeType /\ Notice(calls)
       \/ tls.error /\ tls.silent

(* A TCPConn that is gone leaves nothing behind, and no call is under way  *)
(* for a record that is freed.  (stop() breaks this: its close goes        *)
(* through the TLS thread and can arrive after the delete.)                *)
TlsNothingLeft ==
  ~stopped =>
    /\ d.conn = "gone" =>
         \/ d.freed \/ Queued("delete")
         \/ \E i \in 1 .. Len(calls) : calls[i].op = "delete"
         \/ d.deleteAfterWriting /\ d.closeAfterWriting /\ d.writeActive
    /\ d.freed => d.conn = "gone" /\ tls.queue = <<>> /\ calls = <<>>

(* Nothing is answered twice, forgotten or left.                           *)
TlsAnswers == OneAnswer /\ TlsNothingLeft

(* "function writeFinished will be called when all bytes got written"      *)
(* (net/tcpconn.h): no byte of that write, or of one before it, is still   *)
(* held for the handshake.  What is held comes from those writes when no   *)
(* other one is on its way to the network thread.                          *)
WrittenWhenFinished ==
  [][d'.laterFinished > d.laterFinished /\ W \notin d.closeType /\ calls' = <<>> => tls.held = 0]_tlsvars
========================================
