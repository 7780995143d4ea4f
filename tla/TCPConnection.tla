--------------------------- MODULE TCPConnection ---------------------------
(***************************************************************************)
(* One plain TCP connection of cflib::net: the TCPConnData record that the *)
(* network thread owns (net/impl/tcpmanagerimpl.cpp), the TCPConn object   *)
(* of a user thread that posts calls to it (net/tcpconn.cpp), and the      *)
(* socket below.  Every handler runs to completion on the network thread;  *)
(* a user's call is posted and handled later, a callback scheduled with    *)
(* execLater runs in a later iteration of the event loop, in any order     *)
(* (libev does not order timers that expire at the same time).             *)
(***************************************************************************)
EXTENDS Integers, Sequences, FiniteSets, SequencesExt

CONSTANTS
  MaxWrite,   \* most bytes of one write() call
  MaxBytes,   \* most bytes written and not yet taken by the socket
  MaxCalls,   \* most calls posted and not yet handled
  MaxOwed,    \* most write(_, true) calls not yet answered
  MaxSome     \* most someBytesWritten callbacks scheduled and not yet run

ASSUME ConnAssumption ==
  /\ MaxWrite \in Nat \ {0}
  /\ MaxBytes \in Nat
  /\ MaxCalls \in Nat \ {0}
  /\ MaxOwed  \in Nat
  /\ MaxSome  \in Nat \ {0}

VARIABLES
  d,          \* the TCPConnData record
  calls,      \* calls of the user posted to the network thread (its ThreadFifo)
  unsent,     \* history: bytes accepted, neither taken by the socket nor lost in an error
  stopped,    \* history: TCPManagerImpl::stop ran
  readDue,    \* history: a startReadWatcher() not yet answered
  writesOwed  \* history: write(_, true) calls not yet answered

ledger == <<readDue, writesOwed>>
vars   == <<d, calls, unsent, stopped,
            readDue, writesOwed>>

----------------------------------------
(* TCPConn::CloseType: the bits of the enum as a set. *)
R == "read"
W == "write"
NotClosed       == {}
ReadClosed      == {R}
WriteClosed     == {W}
ReadWriteClosed == {R, W}
HardClosed      == {R, W, "hard"}
CloseType == {NotClosed, ReadClosed, WriteClosed, ReadWriteClosed, HardClosed}

(* What send() returns: the number of bytes taken, or one of two errors. *)
EPipe == 0 - 1
EFail == 0 - 2

Owner == {"none", "attached", "gone"}       \* conn = 0, a live or a deleted TCPConn
Fd    == {"open", "fin", "closed", "reset"} \* what the peer was told

ConnData == [conn: Owner, readActive: BOOLEAN, writeActive: BOOLEAN,
             writeBuf: Nat, notifySome: BOOLEAN, closeAfterWriting: BOOLEAN,
             deleteAfterWriting: BOOLEAN, notifyWrite: BOOLEAN,
             closeType: CloseType, lastInformed: CloseType,
             fd: Fd, fdCloses: Nat, freed: BOOLEAN,
             laterClosed: Nat, laterFinished: Nat, laterSome: Nat]

Call == [op: {"read", "delete"}]
          \cup [op: {"write"}, n: Nat, notify: BOOLEAN]
          \cup [op: {"close"}, type: CloseType \ {NotClosed}, notify: BOOLEAN]

----------------------------------------
(* The functions of TCPManagerImpl, each from the record before to the     *)
(* record after.                                                           *)

\* Mutant: only the first close type is ever reported.
CallClosedFirst(c) ==
  IF c.lastInformed # NotClosed THEN c
  ELSE [c EXCEPT !.lastInformed = c.closeType, !.laterClosed = @ + 1]

CallClosed(c) ==
  IF c.lastInformed = c.closeType THEN c
  ELSE [c EXCEPT !.lastInformed = c.closeType, !.laterClosed = @ + 1]

(* The part of closeConn that acts on the descriptor: it moves from old to *)
(* the close type of c.                                                    *)
\* Mutant: without the early return when neither half changed.
CloseSocketAgain(c, old) ==
  IF c.closeType = HardClosed THEN [c EXCEPT !.fd = "reset", !.fdCloses = @ + 1]
  ELSE IF c.closeType = ReadWriteClosed
    THEN [c EXCEPT !.fd = "closed", !.fdCloses = @ + 1]
  ELSE IF c.closeType = WriteClosed THEN [c EXCEPT !.fd = "fin"]
  ELSE c

\* Mutant: SO_LINGER is not set, a hard close tells the peer a normal end.
CloseSocketNoLinger(c, old) ==
  IF (c.closeType \ old) \cap {R, W} = {} THEN c
  ELSE IF ReadWriteClosed \subseteq c.closeType
    THEN [c EXCEPT !.fd = "closed", !.fdCloses = @ + 1]
  ELSE IF c.closeType = WriteClosed THEN [c EXCEPT !.fd = "fin"]
  ELSE c

CloseSocket(c, old) ==
  LET now == c.closeType
  IN  IF (now \ old) \cap {R, W} = {} THEN c
      ELSE IF now = HardClosed
        THEN [c EXCEPT !.fd = "reset", !.fdCloses = @ + 1]
      ELSE IF now = ReadWriteClosed
        THEN [c EXCEPT !.fd = "closed", !.fdCloses = @ + 1]
      ELSE IF now = WriteClosed THEN [c EXCEPT !.fd = "fin"]
      ELSE c

\* Mutant: close does not wait for the write buffer.
DefersNever(c, type) == FALSE

(* closeConn puts off the write half while bytes are waiting. *)
Defers(c, type) ==
  /\ c.closeType \cup type # HardClosed
  /\ W \in type \ c.closeType
  /\ c.writeBuf > 0

CloseConn(c, type, notify) ==
  LET all     == c.closeType \cup type
      now     == IF Defers(c, type) THEN all \ {W} ELSE all
      changed == now \ c.closeType
      marked  == IF Defers(c, type)
                   THEN [c EXCEPT !.notifySome = FALSE, !.closeAfterWriting = TRUE]
                   ELSE c
      wake    == \/ notify
                 \/ R \in changed /\ c.readActive
                 \/ W \in changed /\ c.notifyWrite
      halted  == [marked EXCEPT
                    !.closeType   = now,
                    !.readActive  = IF R \in changed THEN FALSE ELSE @,
                    !.writeActive = IF W \in changed THEN FALSE ELSE @,
                    !.notifyWrite = IF W \in changed THEN FALSE ELSE @]
  IN  IF changed = {} THEN marked
      ELSE CloseSocket(IF wake THEN CallClosed(halted) ELSE halted, c.closeType)

\* Mutant: the write handler forgets connections that wait to be deleted.
DisposeNever(c) == c

(* delete conn, when the TCPConn is gone and its last byte is out *)
Dispose(c) == [c EXCEPT !.freed = c.deleteAfterWriting]

(* writeable, when send() fails, takes a part, or takes everything *)
SendFailed(c, s) ==
  Dispose(CloseConn([c EXCEPT !.writeBuf = 0],
                    IF s = EPipe THEN WriteClosed ELSE HardClosed, FALSE))

SomeWritten(c, s) == IF c.notifySome /\ s > 0 THEN c.laterSome + 1 ELSE c.laterSome

SendPart(c, s) ==
  [c EXCEPT !.writeBuf = @ - s, !.writeActive = TRUE, !.laterSome = SomeWritten(c, s)]

Drained(c, s) ==
  [c EXCEPT !.writeBuf = 0, !.writeActive = FALSE, !.laterSome = SomeWritten(c, s),
            !.notifyWrite = FALSE,
            !.laterFinished = @ + (IF c.notifyWrite THEN 1 ELSE 0)]

SendAll(c, s) ==
  IF c.closeAfterWriting
    THEN Dispose(CloseConn([c EXCEPT !.writeBuf = 0], WriteClosed, FALSE))
    ELSE Drained(c, s)

(* writeable, with s what send() returns for the writeBuf *)
Writeable(c, s) ==
  IF s < 0 THEN SendFailed(c, s)
  ELSE IF s < c.writeBuf THEN SendPart(c, s)
  ELSE SendAll(c, s)

SendResults(c) == (0 .. c.writeBuf) \cup {EPipe, EFail}

----------------------------------------
Init ==
  /\ d = [conn |-> "none", readActive |-> FALSE, writeActive |-> FALSE,
          writeBuf |-> 0, notifySome |-> FALSE, closeAfterWriting |-> FALSE,
          deleteAfterWriting |-> FALSE, notifyWrite |-> FALSE,
          closeType |-> NotClosed, lastInformed |-> NotClosed,
          fd |-> "open", fdCloses |-> 0, freed |-> FALSE,
          laterClosed |-> 0, laterFinished |-> 0, laterSome |-> 0]
  /\ calls = <<>>
  /\ unsent = 0 /\ stopped = FALSE
  /\ readDue = FALSE /\ writesOwed = 0

----------------------------------------
(* The user's TCPConn object. *)

(* The user has to "make sure no callback is still active" before it       *)
(* destroys or detaches the object (net/tcpconn.h).                        *)
CallMayCallBack(m) ==
  \/ m.op = "read"
  \/ m.op = "write" /\ (m.notify \/ d.notifySome)
  \/ m.op = "close" /\ m.notify

NothingPending ==
  /\ ~d.readActive /\ ~d.notifyWrite
  /\ d.laterClosed = 0 /\ d.laterFinished = 0 /\ d.laterSome = 0
  /\ d.notifySome => ~d.writeActive
  /\ \A i \in 1 .. Len(calls) : ~CallMayCallBack(calls[i])

Post(m) ==
  /\ d.conn = "attached"
  /\ Len(calls) < MaxCalls
  /\ calls' = Append(calls, m)

QueuedWrites   == {i \in 1 .. Len(calls) : calls[i].op = "write"}
QueuedNotifies == {i \in QueuedWrites : calls[i].notify}

QueuedBytes    == FoldLeft(LAMBDA sum, m : sum + (IF m.op = "write" THEN m.n ELSE 0), 0, calls)

(* A new TCPConn takes the connection over. *)
Attach ==
  /\ d.conn = "none" /\ ~d.freed
  /\ \E some \in BOOLEAN : d' = [d EXCEPT !.conn = "attached", !.notifySome = some]
  /\ UNCHANGED <<calls, unsent, stopped, ledger>>

Detach ==
  /\ d.conn = "attached" /\ NothingPending
  /\ d' = [d EXCEPT !.conn = "none"]
  /\ UNCHANGED <<calls, unsent, stopped, ledger>>

UserRead ==
  /\ Post([op |-> "read"])
  /\ UNCHANGED <<d, unsent, stopped, ledger>>

UserWrite ==
  /\ \E n \in 0 .. MaxWrite, notify \in BOOLEAN :
       /\ notify => writesOwed + Cardinality(QueuedNotifies) < MaxOwed
       /\ d.laterSome + Cardinality(QueuedWrites) < MaxSome
       /\ d.writeBuf + QueuedBytes + n <= MaxBytes
       /\ Post([op |-> "write", n |-> n, notify |-> notify])
  /\ UNCHANGED <<d, unsent, stopped, ledger>>

UserClose ==
  /\ \E type \in CloseType \ {NotClosed}, notify \in BOOLEAN :
       Post([op |-> "close", type |-> type, notify |-> notify])
  /\ UNCHANGED <<d, unsent, stopped, ledger>>

(* ~TCPConn: returns at once, the connection is freed by the network thread *)
Destroy ==
  /\ NothingPending
  /\ Post([op |-> "delete"])
  /\ d' = [d EXCEPT !.conn = "gone"]
  /\ UNCHANGED <<unsent, stopped, ledger>>

----------------------------------------
(* The network thread: calls of the user. *)

Handle(op) == calls # <<>> /\ Head(calls).op = op /\ calls' = Tail(calls)

StartReadWatcher ==
  /\ Handle("read")
  /\ d' = IF R \in d.closeType THEN CallClosed(d) ELSE [d EXCEPT !.readActive = TRUE]
  /\ readDue' = TRUE
  /\ UNCHANGED <<unsent, stopped, writesOwed>>

(* A write adds n unsent, the socket takes s of them or fails. *)
CountBytes(n, s) == unsent' = IF s < 0 THEN 0 ELSE unsent + n - s

WriteToSocket ==
  LET m   == Head(calls)
      buf == d.writeBuf + m.n
  IN
  /\ Handle("write")
  /\ writesOwed' = writesOwed + (IF m.notify THEN 1 ELSE 0)
  /\ \/ /\ buf = 0
        /\ d' = [d EXCEPT !.laterFinished = @ + (IF m.notify THEN 1 ELSE 0)]
        /\ UNCHANGED unsent
     \/ /\ buf > 0 /\ W \in d.closeType
        /\ d' = LET c == [d EXCEPT !.writeBuf = 0]
                IN  IF m.notify THEN CallClosed(c) ELSE c
        /\ UNCHANGED unsent
     \/ /\ buf > 0 /\ W \notin d.closeType
        /\ LET c == [d EXCEPT !.writeBuf = buf, !.notifyWrite = @ \/ m.notify]
           IN  IF c.writeActive THEN d' = c /\ CountBytes(m.n, 0)
               ELSE \E s \in SendResults(c) :
                      d' = Writeable(c, s) /\ CountBytes(m.n, s)
  /\ UNCHANGED <<stopped, readDue>>

CloseCall ==
  LET m == Head(calls) IN
  /\ Handle("close")
  /\ d' = CloseConn(d, m.type, m.notify)
  /\ UNCHANGED <<unsent, stopped, ledger>>

DeleteOnFinish ==
  /\ Handle("delete")
  /\ d' = IF d.writeActive
            THEN [CloseConn(d, ReadClosed, FALSE) EXCEPT
                    !.notifySome = FALSE, !.closeAfterWriting = TRUE,
                    !.deleteAfterWriting = TRUE]
            ELSE [CloseConn(d, ReadWriteClosed, FALSE) EXCEPT !.freed = TRUE]
  /\ UNCHANGED <<unsent, stopped, ledger>>

----------------------------------------
(* The network thread: events of the socket. *)

(* recv() got bytes: the watcher stops and the user is told *)
ReadBytes ==
  /\ d.readActive
  /\ d' = [d EXCEPT !.readActive = FALSE]
  /\ readDue' = FALSE
  /\ UNCHANGED <<calls, unsent, stopped, writesOwed>>

(* recv() returned 0 *)
ReadEof ==
  /\ d.readActive
  /\ d' = CloseConn(d, ReadClosed, FALSE)
  /\ UNCHANGED <<calls, unsent, stopped, ledger>>

(* recv() failed *)
ReadError ==
  /\ d.readActive
  /\ d' = CloseConn(d, HardClosed, FALSE)
  /\ UNCHANGED <<calls, unsent, stopped, ledger>>

(* libev runs the timers that are due before it looks at the socket again *)
SocketTakes(s) ==
  /\ d.writeActive /\ d.laterSome < MaxSome
  /\ s \in SendResults(d)
  /\ d' = Writeable(d, s)
  /\ CountBytes(0, s)
  /\ UNCHANGED <<calls, stopped, ledger>>

SocketWriteable == \E s \in SendResults(d) : SocketTakes(s)

(* TCPManagerImpl::stop closes every connection hard, silently *)
Stop ==
  /\ ~d.freed
  /\ d' = CloseConn(d, HardClosed, FALSE)
  /\ stopped' = TRUE
  /\ UNCHANGED <<calls, unsent, ledger>>

----------------------------------------
(* The network thread: callbacks that execLater scheduled. *)

(* TCPConnData::callClosed passes the close type of the moment it runs *)
DeliverClosed ==
  /\ d.laterClosed > 0
  /\ d' = [d EXCEPT !.laterClosed = @ - 1]
  /\ readDue' = (readDue /\ R \notin d.closeType)
  /\ writesOwed' = IF W \in d.closeType THEN 0 ELSE writesOwed
  /\ UNCHANGED <<calls, unsent, stopped>>

DeliverFinished ==
  /\ d.laterFinished > 0
  /\ d' = [d EXCEPT !.laterFinished = @ - 1]
  /\ writesOwed' = IF writesOwed > 0 THEN writesOwed - 1 ELSE 0
  /\ UNCHANGED <<calls, unsent, stopped, readDue>>

DeliverSome ==
  /\ d.laterSome > 0
  /\ d' = [d EXCEPT !.laterSome = @ - 1]
  /\ UNCHANGED <<calls, unsent, stopped, ledger>>

----------------------------------------
User == Attach \/ Detach \/ UserRead \/ UserWrite \/ UserClose \/ Destroy
Serve == StartReadWatcher \/ WriteToSocket \/ CloseCall \/ DeleteOnFinish
Socket == ReadBytes \/ ReadEof \/ ReadError \/ SocketWriteable
Deliver == DeliverClosed \/ DeliverFinished \/ DeliverSome

Next == User \/ Serve \/ Socket \/ Stop \/ Deliver

Spec == Init /\ [][Next]_vars

(* The event loop serves its queue and its timers, and TCP either delivers *)
(* a waiting byte or reports that the connection is broken.                *)
Progress == \E s \in SendResults(d) \ {0} : SocketTakes(s)
Fairness == WF_vars(Serve) /\ WF_vars(Deliver) /\ WF_vars(Progress)
FairSpec == Spec /\ Fairness

----------------------------------------
(* Properties *)

TypeOK ==
  /\ d \in ConnData
  /\ calls \in Seq(Call)
  /\ unsent \in Nat
  /\ stopped \in BOOLEAN
  /\ readDue \in BOOLEAN /\ writesOwed \in Nat

(* The descriptor is given back exactly when both halves are closed, once, *)
(* and no watcher waits on a half that is closed: closeConn never runs     *)
(* ::close on a number that may already belong to another connection.      *)
DescriptorClosedOnce ==
  /\ d.fdCloses = IF ReadWriteClosed \subseteq d.closeType THEN 1 ELSE 0
  /\ d.fd \in {"closed", "reset"} <=> ReadWriteClosed \subseteq d.closeType
  /\ d.fd = "fin" <=> d.closeType = WriteClosed
  /\ d.readActive => R \notin d.closeType
  /\ d.writeActive => W \notin d.closeType

(* Bytes that wait to be sent always have an active write watcher: no      *)
(* sequence of partial sends, closes and errors strands them.              *)
PendingBytesWatched ==
  W \notin d.closeType => (d.writeActive <=> d.writeBuf > 0)

(* "destructor returns immediately, but write data will be send            *)
(* completely" and "WriteClosed closes the write channel after all bytes   *)
(* have been written": a FIN follows the last accepted byte, unless a send *)
(* failed.                                                                 *)
FinAfterLastByte ==
  d.fd # "reset" =>
    /\ unsent = d.writeBuf
    /\ d.fd \in {"fin", "closed"} => unsent = 0

(* What write() accepted goes out: it is not stranded, and nothing ends    *)
(* the stream before it.                                                   *)
BytesDelivered == PendingBytesWatched /\ FinAfterLastByte

(* Once the user has seen to it that no callback is active and has let go  *)
(* of the connection, the network thread starts none: not for the bytes    *)
(* still to be sent, not for an error, not for stop().                     *)
QuietWithoutUser ==
  d.conn # "attached" =>
    /\ ~d.readActive /\ ~d.notifyWrite
    /\ d.laterClosed = 0 /\ d.laterFinished = 0 /\ d.laterSome = 0

(* A TCPConn that is gone leaves nothing behind: its record waits for the  *)
(* delete call, or drains its last bytes with the delete flag set, or is   *)
(* freed.  (stop() breaks this: it stops the watcher of a draining record, *)
(* which then is never freed.)                                             *)
NothingLeftBehind ==
  /\ QuietWithoutUser
  /\ d.conn = "gone" /\ ~stopped =>
       \/ d.freed
       \/ \E i \in 1 .. Len(calls) : calls[i].op = "delete"
       \/ d.deleteAfterWriting /\ d.closeAfterWriting /\ d.writeActive
  /\ d.freed => d.conn = "gone" /\ calls = <<>> /\ ~d.readActive /\ ~d.writeActive

(* "every call to startReadWatcher() will result in exactly one call of    *)
(* newBytesAvailable or closed", except that closed is not repeated: the   *)
(* call is answered, or the watcher is active, or closed() is on its way.  *)
(* "every call to write(data, true) will result in [...] one call of       *)
(* writeFinished or closed", for at least one of the calls outstanding.    *)
AnswersCome ==
  /\ d.readActive => readDue
  /\ readDue => \/ d.readActive
                \/ d.laterClosed > 0 /\ R \in d.closeType
                \/ R \in d.lastInformed
  /\ d.notifyWrite => d.writeActive
  /\ writesOwed > 0 => \/ d.notifyWrite
                       \/ d.laterFinished > 0
                       \/ d.laterClosed > 0 /\ W \in d.closeType
                       \/ W \in d.lastInformed

(* Neither an answer nor a record is forgotten, whoever goes first.        *)
NothingOwed == NothingLeftBehind /\ AnswersCome

(* tcpconn.h: "closed is only called once for each close state".  Each     *)
(* callback that is scheduled passes the close type of the moment it runs, *)
(* and no other follows HardClosed: two of them would report it twice.     *)
(* (They do: this is broken by two closes before the first callback runs.) *)
ClosedOncePerState == d.closeType = HardClosed => d.laterClosed <= 1

(* A requested close of the write half happens, as long as the socket      *)
(* takes bytes or fails and the user stops writing: writeToSocket accepts  *)
(* data after close(WriteClosed), each such write puts the close off.  A   *)
(* destroyed connection is freed, unless the manager was stopped.          *)
ClosesFinish ==
  /\ d.closeAfterWriting ~> W \in d.closeType \/ QueuedWrites # {}
  /\ d.conn = "gone" ~> d.freed \/ stopped

(* The connection implements the channel that tcpconn.h describes: no half *)
(* reopens, a draining half is shut only when it is empty, the descriptor  *)
(* is closed or reset once.                                                *)
Channel == INSTANCE DuplexChannel WITH
  reading <- R \notin d.closeType,
  writing <- IF W \in d.closeType THEN "shut"
             ELSE IF d.closeAfterWriting THEN "draining" ELSE "open",
  pending <- unsent,
  wire    <- d.fd
ImplementsChannel == Channel!ChannelSpec
========================================
