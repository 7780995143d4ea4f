------------------------ MODULE TCPConnectionProofs ------------------------
(* Proofs about TCPConnection, for every value of its constants. *)
EXTENDS TCPConnection, SequenceTheorems, FiniteSetTheorems, TLAPS

(****************************************)
(* The inductive invariant, as a predicate of a connection record and of *)
(* the bytes that are still unsent, so that it can be stated of the record *)
(* in the middle of a handler too. *)
(****************************************)
Sound(c, u) ==
  /\ c.fdCloses = IF ReadWriteClosed \subseteq c.closeType THEN 1 ELSE 0
  /\ c.fd \in {"closed", "reset"} <=> ReadWriteClosed \subseteq c.closeType
  /\ c.fd = "fin" <=> c.closeType = WriteClosed
  /\ c.readActive => R \notin c.closeType
  /\ c.writeActive => W \notin c.closeType
  /\ c.fd # "reset" => /\ u = c.writeBuf
                       /\ c.fd \in {"fin", "closed"} => u = 0

Watched(c) == W \notin c.closeType => (c.writeActive <=> c.writeBuf > 0)

IInv == TypeOK /\ Sound(d, unsent) /\ Watched(d)

----------------------------------------
(* What closeConn does to the fields. *)
LEMMA CloseTypeUnion ==
  ASSUME NEW s \in CloseType, NEW t \in CloseType
  PROVE  /\ s \cup t \in CloseType
         /\ s \cup t # HardClosed => (s \cup t) \ {W} \in CloseType
  BY DEF CloseType, NotClosed, ReadClosed, WriteClosed, ReadWriteClosed, HardClosed, R, W

(* The fields that decide about the socket. *)
SameSocket(c, e) ==
  /\ e.readActive = c.readActive /\ e.writeActive = c.writeActive
  /\ e.writeBuf = c.writeBuf /\ e.closeType = c.closeType
  /\ e.fd = c.fd /\ e.fdCloses = c.fdCloses

LEMMA CallClosedFacts ==
  ASSUME NEW c \in ConnData
  PROVE  CallClosed(c) \in ConnData /\ SameSocket(c, CallClosed(c))
  <1>1. ASSUME NEW t \in CloseType, NEW n \in Nat
        PROVE  LET e == [c EXCEPT !.lastInformed = t, !.laterClosed = n]
               IN  e \in ConnData /\ SameSocket(c, e)
    BY DEF ConnData, SameSocket
  <1>2. c.closeType \in CloseType /\ c.laterClosed + 1 \in Nat
    BY DEF ConnData
  <1>3. QED
    BY <1>1, <1>2 DEF CallClosed, SameSocket

LEMMA CloseSocketFacts ==
  ASSUME NEW c \in ConnData, NEW old \in CloseType, NEW e, e = CloseSocket(c, old)
  PROVE  /\ e \in ConnData
         /\ e.readActive = c.readActive /\ e.writeActive = c.writeActive
         /\ e.writeBuf = c.writeBuf /\ e.closeType = c.closeType
         /\ (c.closeType \ old) \cap {R, W} = {} => e.fd = c.fd /\ e.fdCloses = c.fdCloses
         /\ (c.closeType \ old) \cap {R, W} # {} =>
              /\ e.fd = IF c.closeType = HardClosed THEN "reset"
                        ELSE IF c.closeType = ReadWriteClosed THEN "closed"
                        ELSE IF c.closeType = WriteClosed THEN "fin" ELSE c.fd
              /\ e.fdCloses = IF ReadWriteClosed \subseteq c.closeType
                                THEN c.fdCloses + 1 ELSE c.fdCloses
  <1>1. c.closeType \in CloseType /\ c.fdCloses \in Nat BY DEF ConnData
  <1> DEFINE n == c.fdCloses + 1
  <1>a. ASSUME NEW f \in Fd, e = [c EXCEPT !.fd = f, !.fdCloses = n]
        PROVE  /\ e \in ConnData
               /\ e.readActive = c.readActive /\ e.writeActive = c.writeActive
               /\ e.writeBuf = c.writeBuf /\ e.closeType = c.closeType
               /\ e.fd = f /\ e.fdCloses = n
    <2>1. n \in Nat BY <1>1
    <2> HIDE DEF n
    <2>2. QED BY <1>a, <2>1 DEF ConnData
  <1>b. "reset" \in Fd /\ "closed" \in Fd
    BY DEF Fd
  <1>2. CASE (c.closeType \ old) \cap {R, W} = {}
    BY <1>2 DEF CloseSocket
  <1>3. CASE (c.closeType \ old) \cap {R, W} # {} /\ c.closeType = HardClosed
    <2>1. ReadWriteClosed \subseteq c.closeType
      BY <1>3 DEF HardClosed, ReadWriteClosed
    <2>2. e = [c EXCEPT !.fd = "reset", !.fdCloses = n]
      BY <1>3 DEF CloseSocket
    <2>3. QED
      BY <1>3, <1>a, <1>b, <2>1, <2>2
  <1>4. CASE (c.closeType \ old) \cap {R, W} # {} /\ c.closeType = ReadWriteClosed
    <2>1. c.closeType # HardClosed
      BY <1>4 DEF HardClosed, ReadWriteClosed, R, W
    <2>2. e = [c EXCEPT !.fd = "closed", !.fdCloses = n]
      BY <1>4, <2>1 DEF CloseSocket
    <2>3. QED
      BY <1>4, <1>a, <1>b, <2>1, <2>2
  <1>5. CASE (c.closeType \ old) \cap {R, W} # {} /\ c.closeType = WriteClosed
    <2>1. c.closeType # HardClosed /\ c.closeType # ReadWriteClosed
          /\ ~(ReadWriteClosed \subseteq c.closeType)
      BY <1>5 DEF HardClosed, ReadWriteClosed, WriteClosed, R, W
    <2>2. QED
      BY <1>5, <2>1 DEF CloseSocket, ConnData, Fd
  <1>6. CASE /\ (c.closeType \ old) \cap {R, W} # {}
             /\ c.closeType \in {NotClosed, ReadClosed}
    <2>1. c.closeType # HardClosed /\ c.closeType # ReadWriteClosed
          /\ c.closeType # WriteClosed /\ ~(ReadWriteClosed \subseteq c.closeType)
      BY <1>6 DEF HardClosed, ReadWriteClosed, WriteClosed, ReadClosed, NotClosed, R, W
    <2>2. QED
      BY <1>6, <2>1 DEF CloseSocket
  <1>7. QED
    BY <1>1, <1>2, <1>3, <1>4, <1>5, <1>6 DEF CloseType

(****************************************)
(* closeConn keeps a sound record sound.  It needs the bytes to be watched *)
(* only when the write half stays open: writeable calls it with the buffer *)
(* emptied and the watcher still running. *)
(****************************************)
LEMMA CloseConnSound ==
  ASSUME NEW c \in ConnData, NEW u \in Nat, Sound(c, u),
         NEW type \in CloseType, NEW notify \in BOOLEAN,
         Watched(c) \/ (W \in type /\ c.writeBuf = 0)
  PROVE  /\ CloseConn(c, type, notify) \in ConnData
         /\ Sound(CloseConn(c, type, notify), u)
         /\ Watched(CloseConn(c, type, notify))
  <1> DEFINE all     == c.closeType \cup type
             now     == IF Defers(c, type) THEN all \ {W} ELSE all
             changed == now \ c.closeType
             marked  == IF Defers(c, type)
                          THEN [c EXCEPT !.notifySome = FALSE, !.closeAfterWriting = TRUE]
                          ELSE c
             wake    == \/ notify
                        \/ R \in changed /\ c.readActive
                        \/ W \in changed /\ c.notifyWrite
             halted  == [marked EXCEPT
                           !.closeType   = now,
                           !.readActive  = IF R \in changed THEN FALSE ELSE @,
                           !.writeActive = IF W \in changed THEN FALSE ELSE @,
                           !.notifyWrite = IF W \in changed THEN FALSE ELSE @]
             told    == IF wake THEN CallClosed(halted) ELSE halted
             e       == CloseConn(c, type, notify)
  <1> SUFFICES e \in ConnData /\ Sound(e, u) /\ Watched(e)
    OBVIOUS
  <1>1. e = IF changed = {} THEN marked ELSE CloseSocket(told, c.closeType)
    BY DEF CloseConn
  <1>2. c.closeType \in CloseType
    BY DEF ConnData
  <1>3. now \in CloseType
    BY <1>2, CloseTypeUnion DEF Defers
  <1>4. /\ marked \in ConnData /\ SameSocket(c, marked)
    BY DEF ConnData, SameSocket
  <1>5. /\ halted \in ConnData
        /\ halted.closeType = now
        /\ halted.readActive = IF R \in changed THEN FALSE ELSE c.readActive
        /\ halted.writeActive = IF W \in changed THEN FALSE ELSE c.writeActive
        /\ halted.writeBuf = c.writeBuf
        /\ halted.fd = c.fd /\ halted.fdCloses = c.fdCloses
    <2> DEFINE r == IF R \in changed THEN FALSE ELSE marked.readActive
               w == IF W \in changed THEN FALSE ELSE marked.writeActive
               n == IF W \in changed THEN FALSE ELSE marked.notifyWrite
    <2> HIDE DEF changed, now, marked
    <2>1. r \in BOOLEAN /\ w \in BOOLEAN /\ n \in BOOLEAN
      BY <1>4 DEF ConnData
    <2>2. halted = [marked EXCEPT !.closeType = now, !.readActive = r,
                                  !.writeActive = w, !.notifyWrite = n]
      OBVIOUS
    <2>3. /\ halted \in ConnData
          /\ halted.closeType = now /\ halted.readActive = r /\ halted.writeActive = w
          /\ halted.writeBuf = marked.writeBuf
          /\ halted.fd = marked.fd /\ halted.fdCloses = marked.fdCloses
      <3> HIDE DEF halted, r, w, n
      <3>1. QED
        BY <1>3, <1>4, <2>1, <2>2 DEF ConnData
    <2>4. QED
      BY <1>4, <2>3 DEF SameSocket
  <1>6. told \in ConnData /\ SameSocket(halted, told)
    <2> HIDE DEF halted
    <2>1. QED
      BY <1>5, CallClosedFacts DEF SameSocket
  <1>7. CASE changed = {}
    <2>1. e = marked
      BY <1>1, <1>7
    <2>2. W \in type /\ c.writeBuf = 0 => W \in c.closeType
      BY <1>7 DEF Defers, ConnData
    <2>3. QED
      BY <2>1, <2>2, <1>4 DEF Sound, Watched, SameSocket
  <1>8. CASE changed # {}
    <2>1. e = CloseSocket(told, c.closeType)
      BY <1>1, <1>8
    <2> HIDE DEF changed, halted, told, e, now, marked
    <2>2. /\ e \in ConnData
          /\ e.closeType = now /\ e.writeBuf = c.writeBuf
          /\ e.readActive = IF R \in changed THEN FALSE ELSE c.readActive
          /\ e.writeActive = IF W \in changed THEN FALSE ELSE c.writeActive
          /\ changed \cap {R, W} = {} => e.fd = c.fd /\ e.fdCloses = c.fdCloses
          /\ changed \cap {R, W} # {} =>
               /\ e.fd = IF now = HardClosed THEN "reset"
                         ELSE IF now = ReadWriteClosed THEN "closed"
                         ELSE IF now = WriteClosed THEN "fin" ELSE c.fd
               /\ e.fdCloses = IF ReadWriteClosed \subseteq now
                                 THEN c.fdCloses + 1 ELSE c.fdCloses
      <3>1. told.closeType = now /\ told.closeType \ c.closeType = changed
        BY <1>5, <1>6 DEF SameSocket, changed
      <3>2. /\ e \in ConnData
            /\ e.readActive = told.readActive /\ e.writeActive = told.writeActive
            /\ e.writeBuf = told.writeBuf /\ e.closeType = now
            /\ changed \cap {R, W} = {} => e.fd = told.fd /\ e.fdCloses = told.fdCloses
            /\ changed \cap {R, W} # {} =>
                 /\ e.fd = IF now = HardClosed THEN "reset"
                           ELSE IF now = ReadWriteClosed THEN "closed"
                           ELSE IF now = WriteClosed THEN "fin" ELSE told.fd
                 /\ e.fdCloses = IF ReadWriteClosed \subseteq now
                                   THEN told.fdCloses + 1 ELSE told.fdCloses
        BY <2>1, <3>1, <1>2, <1>6, CloseSocketFacts
      <3>3. QED
        BY <3>2, <1>5, <1>6 DEF SameSocket
    <2>3. c.closeType \subseteq now /\ changed = now \ c.closeType
      BY DEF now, changed, Defers
    <2>4. /\ W \in changed => now = HardClosed \/ c.writeBuf = 0
          /\ W \notin now => Watched(c)
      BY DEF now, changed, Defers, ConnData
    <2>5. Watched(e)
      BY <2>2, <2>3, <2>4 DEF Watched
    <2>6. /\ e.readActive => R \notin now
          /\ e.writeActive => W \notin now
      BY <2>2, <2>3 DEF Sound
    <2>7. CASE changed \cap {R, W} = {}
      <3>1. /\ ReadWriteClosed \subseteq now <=> ReadWriteClosed \subseteq c.closeType
            /\ now = WriteClosed <=> c.closeType = WriteClosed
        BY <2>3, <2>7, <1>2, <1>3
           DEF ReadWriteClosed, WriteClosed, CloseType, NotClosed, ReadClosed, HardClosed, R, W
      <3>2. QED
        BY <2>2, <2>5, <2>6, <2>7, <3>1 DEF Sound
    <2>8. CASE changed \cap {R, W} # {}
      <3>1. /\ ~(ReadWriteClosed \subseteq c.closeType)
            /\ now # HardClosed /\ now # ReadWriteClosed => ~(ReadWriteClosed \subseteq now)
            /\ now = HardClosed \/ now = ReadWriteClosed => ReadWriteClosed \subseteq now
            /\ now # WriteClosed => c.closeType # WriteClosed \/ now = HardClosed \/ now = ReadWriteClosed
            /\ HardClosed # ReadWriteClosed /\ HardClosed # WriteClosed /\ ReadWriteClosed # WriteClosed
            /\ now = ReadWriteClosed \/ now = WriteClosed =>
                 W \in changed \/ c.closeType = WriteClosed
        BY <2>3, <2>8, <1>2, <1>3
           DEF ReadWriteClosed, WriteClosed, CloseType, NotClosed, ReadClosed, HardClosed, R, W
      <3>2. c.fdCloses = 0 /\ c.fd \notin {"closed", "reset"} /\ u = c.writeBuf
        BY <3>1 DEF Sound
      <3>3. now = ReadWriteClosed \/ now = WriteClosed => u = 0
        BY <2>4, <3>1, <3>2 DEF Sound
      <3>4. QED
        BY <2>2, <2>5, <2>6, <2>8, <3>1, <3>2, <3>3 DEF Sound
    <2>9. QED
      BY <2>7, <2>8
  <1>9. QED
    BY <1>7, <1>8

----------------------------------------
(* writeable keeps a record sound; v is what is left unsent. *)
LEMMA DisposeSound ==
  ASSUME NEW c \in ConnData, NEW u \in Nat, Sound(c, u), Watched(c)
  PROVE  Dispose(c) \in ConnData /\ Sound(Dispose(c), u) /\ Watched(Dispose(c))
  <1> DEFINE f == c.deleteAfterWriting
             e == Dispose(c)
  <1>1. f \in BOOLEAN /\ e = [c EXCEPT !.freed = f]
    BY DEF ConnData, Dispose
  <1>2. e \in ConnData /\ SameSocket(c, e)
    <2> HIDE DEF f, e
    <2>1. QED
      BY <1>1 DEF ConnData, SameSocket
  <1>3. QED
    BY <1>2 DEF Sound, Watched, SameSocket

LEMMA EmptiedCloses ==
  ASSUME NEW c \in ConnData, NEW u \in Nat, Sound(c, u), W \notin c.closeType,
         NEW type \in {WriteClosed, HardClosed}
  PROVE  LET e == Dispose(CloseConn([c EXCEPT !.writeBuf = 0], type, FALSE))
         IN  e \in ConnData /\ Sound(e, 0) /\ Watched(e)
  <1> DEFINE z == [c EXCEPT !.writeBuf = 0]
  <1>1. /\ z \in ConnData
        /\ z.readActive = c.readActive /\ z.writeActive = c.writeActive
        /\ z.writeBuf = 0 /\ z.closeType = c.closeType
        /\ z.fd = c.fd /\ z.fdCloses = c.fdCloses
    BY DEF ConnData
  <1>2. Sound(z, 0)
    <2> HIDE DEF z
    <2>1. QED
      BY <1>1 DEF Sound
  <1>3. type \in CloseType /\ W \in type
    BY DEF CloseType, WriteClosed, HardClosed, W
  <1>4. LET e == CloseConn(z, type, FALSE)
        IN  e \in ConnData /\ Sound(e, 0) /\ Watched(e)
    <2> HIDE DEF z
    <2>1. Watched(z) \/ (W \in type /\ z.writeBuf = 0)
      BY <1>1, <1>3
    <2>2. 0 \in Nat /\ FALSE \in BOOLEAN /\ z \in ConnData
      BY <1>1
    <2>3. QED
      BY <1>2, <1>3, <2>1, <2>2, CloseConnSound
  <1>5. QED
    BY <1>4, DisposeSound

LEMMA WriteableSound ==
  ASSUME NEW c \in ConnData, NEW u \in Nat, Sound(c, u), W \notin c.closeType,
         c.writeBuf > 0, NEW s \in SendResults(c)
  PROVE  LET e == Writeable(c, s)
             v == IF s < 0 THEN 0 ELSE u - s
         IN  v \in Nat /\ e \in ConnData /\ Sound(e, v) /\ Watched(e)
  <1>1. /\ c.writeBuf \in Nat /\ c.laterSome \in Nat /\ c.laterFinished \in Nat
        /\ c.closeType \in CloseType
    BY DEF ConnData
  <1>2. c.fd \notin {"reset", "fin", "closed"} /\ u = c.writeBuf
    BY DEF Sound, ReadWriteClosed, WriteClosed
  <1>3. /\ s \in Int /\ s <= c.writeBuf
        /\ s < 0 <=> s \in {EPipe, EFail}
        /\ s >= 0 => u - s \in Nat
    BY <1>1, <1>2 DEF SendResults, EPipe, EFail
  <1>4. SomeWritten(c, s) \in Nat
    BY <1>1 DEF SomeWritten
  <1>5. CASE s < 0
    BY <1>5, EmptiedCloses DEF Writeable, SendFailed
  <1>6. CASE s >= 0 /\ s < c.writeBuf
    <2> DEFINE b == c.writeBuf - s
               m == SomeWritten(c, s)
               e == Writeable(c, s)
    <2>1. b \in Nat /\ b > 0 /\ m \in Nat /\ b = u - s
      BY <1>1, <1>2, <1>3, <1>4, <1>6
    <2>2. e = [c EXCEPT !.writeBuf = b, !.writeActive = TRUE, !.laterSome = m]
      BY <1>3, <1>6 DEF Writeable, SendPart
    <2>3. /\ e \in ConnData
          /\ e.readActive = c.readActive /\ e.writeActive = TRUE
          /\ e.writeBuf = b /\ e.closeType = c.closeType
          /\ e.fd = c.fd /\ e.fdCloses = c.fdCloses
      <3> HIDE DEF b, m, e
      <3>1. QED
        BY <2>1, <2>2 DEF ConnData
    <2>4. Sound(e, b) /\ Watched(e)
      <3> HIDE DEF b, e
      <3>1. QED
        BY <1>2, <2>1, <2>3 DEF Sound, Watched
    <2>5. QED
      BY <1>3, <1>6, <2>1, <2>3, <2>4
  <1>7. CASE s >= 0 /\ ~(s < c.writeBuf)
    <2>1. s = c.writeBuf /\ u - s = 0
      BY <1>1, <1>2, <1>3, <1>7
    <2>2. Writeable(c, s) = SendAll(c, s)
      BY <1>3, <1>7 DEF Writeable
    <2>3. CASE c.closeAfterWriting
      BY <1>3, <1>7, <2>1, <2>2, <2>3, EmptiedCloses DEF SendAll
    <2>4. CASE ~c.closeAfterWriting
      <3> DEFINE m == SomeWritten(c, s)
                 n == c.laterFinished + (IF c.notifyWrite THEN 1 ELSE 0)
                 e == Drained(c, s)
      <3>1. m \in Nat /\ n \in Nat
        BY <1>1, <1>4
      <3>2. e = [c EXCEPT !.writeBuf = 0, !.writeActive = FALSE, !.laterSome = m,
                          !.notifyWrite = FALSE, !.laterFinished = n]
        BY DEF Drained
      <3>3. /\ e \in ConnData
            /\ e.readActive = c.readActive /\ e.writeActive = FALSE
            /\ e.writeBuf = 0 /\ e.closeType = c.closeType
            /\ e.fd = c.fd /\ e.fdCloses = c.fdCloses
        <4> HIDE DEF m, n, e
        <4>1. QED
          BY <3>1, <3>2 DEF ConnData
      <3>4. Sound(e, 0) /\ Watched(e)
        <4> HIDE DEF e
        <4>1. QED
          BY <1>2, <3>3 DEF Sound, Watched
      <3>5. QED
        BY <1>3, <1>7, <2>1, <2>2, <2>4, <3>3, <3>4 DEF SendAll
    <2>5. QED
      BY <2>3, <2>4
  <1>8. QED
    BY <1>3, <1>5, <1>6, <1>7

----------------------------------------
(* The invariant itself. *)
LEMMA InitInv == Init => IInv
  <1> SUFFICES ASSUME Init PROVE IInv
    OBVIOUS
  <1>1. d \in ConnData
    BY DEF Init, ConnData, Owner, Fd, CloseType
  <1>2. Sound(d, unsent) /\ Watched(d)
    BY DEF Init, Sound, Watched, NotClosed, ReadWriteClosed, WriteClosed, R, W
  <1>3. calls \in Seq(Call)
    <2>1. <<>> \in Seq(Call)
      OBVIOUS
    <2>2. QED
      BY <2>1 DEF Init
  <1>4. unsent \in Nat /\ writesOwed \in Nat
    BY DEF Init
  <1>5. stopped \in BOOLEAN /\ readDue \in BOOLEAN
    BY DEF Init
  <1>6. QED
    BY <1>1, <1>2, <1>3, <1>4, <1>5 DEF IInv, TypeOK

LEMMA HandleType ==
  ASSUME NEW op, calls \in Seq(Call), Handle(op)
  PROVE  calls' \in Seq(Call) /\ Head(calls) \in Call /\ Head(calls).op = op
  BY DEF Handle

(* A step that leaves the socket's side of the record alone. *)
LEMMA SameSocketInv ==
  ASSUME NEW c \in ConnData, NEW e, SameSocket(c, e), NEW u \in Nat, Sound(c, u), Watched(c)
  PROVE  Sound(e, u) /\ Watched(e)
  BY DEF SameSocket, Sound, Watched

LEMMA UserInv == IInv /\ User => IInv'
  <1> SUFFICES ASSUME IInv, User PROVE IInv'
    OBVIOUS
  <1> USE DEF IInv, TypeOK
  <1>1. ASSUME NEW m \in Call, Post(m) PROVE calls' \in Seq(Call)
    BY <1>1 DEF Post
  <1>2. CASE Attach
    <2>1. PICK some \in BOOLEAN : d' = [d EXCEPT !.conn = "attached", !.notifySome = some]
      BY <1>2 DEF Attach
    <2>2. d' \in ConnData /\ SameSocket(d, d')
      BY <2>1 DEF ConnData, Owner, SameSocket
    <2>3. QED
      BY <1>2, <2>2, SameSocketInv DEF Attach, ledger
  <1>3. CASE Detach
    <2>1. d' \in ConnData /\ SameSocket(d, d')
      BY <1>3 DEF Detach, ConnData, Owner, SameSocket
    <2>2. QED
      BY <1>3, <2>1, SameSocketInv DEF Detach, ledger
  <1>4. CASE UserRead
    <2>1. [op |-> "read"] \in Call
      BY DEF Call
    <2>2. QED
      BY <1>1, <1>4, <2>1 DEF UserRead, ledger
  <1>5. CASE UserWrite
    <2>1. PICK n \in 0 .. MaxWrite, notify \in BOOLEAN :
            Post([op |-> "write", n |-> n, notify |-> notify])
      BY <1>5 DEF UserWrite
    <2>2. [op |-> "write", n |-> n, notify |-> notify] \in Call
      BY ConnAssumption DEF Call
    <2>3. QED
      BY <1>1, <1>5, <2>1, <2>2 DEF UserWrite, ledger
  <1>6. CASE UserClose
    <2>1. PICK type \in CloseType \ {NotClosed}, notify \in BOOLEAN :
            Post([op |-> "close", type |-> type, notify |-> notify])
      BY <1>6 DEF UserClose
    <2>2. [op |-> "close", type |-> type, notify |-> notify] \in Call
      BY DEF Call
    <2>3. QED
      BY <1>1, <1>6, <2>1, <2>2 DEF UserClose, ledger
  <1>7. CASE Destroy
    <2>1. [op |-> "delete"] \in Call
      BY DEF Call
    <2>2. d' \in ConnData /\ SameSocket(d, d')
      BY <1>7 DEF Destroy, ConnData, Owner, SameSocket
    <2>3. QED
      BY <1>1, <1>7, <2>1, <2>2, SameSocketInv DEF Destroy, ledger
  <1>8. QED
    BY <1>2, <1>3, <1>4, <1>5, <1>6, <1>7 DEF User

LEMMA CallClosedInv ==
  ASSUME NEW c \in ConnData, NEW u \in Nat, Sound(c, u), Watched(c)
  PROVE  CallClosed(c) \in ConnData /\ Sound(CallClosed(c), u) /\ Watched(CallClosed(c))
  BY CallClosedFacts, SameSocketInv

LEMMA CloseConnInv ==
  ASSUME NEW c \in ConnData, NEW u \in Nat, Sound(c, u), Watched(c),
         NEW type \in CloseType \ {NotClosed}, NEW notify \in BOOLEAN
  PROVE  LET e == CloseConn(c, type, notify)
         IN  e \in ConnData /\ Sound(e, u) /\ Watched(e)
  BY CloseConnSound

LEMMA CallFields ==
  ASSUME NEW m \in Call
  PROVE  /\ m.op = "write" => m.n \in Nat /\ m.notify \in BOOLEAN
         /\ m.op = "close" => m.type \in CloseType \ {NotClosed} /\ m.notify \in BOOLEAN
  BY DEF Call

LEMMA ReadCallInv == IInv /\ StartReadWatcher => IInv'
  <1> SUFFICES ASSUME IInv, StartReadWatcher PROVE IInv'
    OBVIOUS
  <1> USE DEF IInv, TypeOK
  <1>1. calls' \in Seq(Call)
    BY HandleType DEF StartReadWatcher
  <1>2. d' \in ConnData /\ Sound(d', unsent) /\ Watched(d')
    <2>1. CASE R \in d.closeType
      BY <2>1, CallClosedInv DEF StartReadWatcher
    <2>2. CASE R \notin d.closeType
      <3> DEFINE e == [d EXCEPT !.readActive = TRUE]
      <3>1. /\ e \in ConnData
            /\ e.readActive = TRUE /\ e.writeActive = d.writeActive
            /\ e.writeBuf = d.writeBuf /\ e.closeType = d.closeType
            /\ e.fd = d.fd /\ e.fdCloses = d.fdCloses
        BY DEF ConnData
      <3>2. Sound(e, unsent) /\ Watched(e)
        <4> HIDE DEF e
        <4>1. QED
          BY <2>2, <3>1 DEF Sound, Watched
      <3>3. QED
        BY <2>2, <3>1, <3>2 DEF StartReadWatcher
    <2>3. QED
      BY <2>1, <2>2
  <1>3. unsent' = unsent /\ stopped' = stopped /\ readDue' = TRUE /\ writesOwed' = writesOwed
    BY DEF StartReadWatcher
  <1>4. QED
    BY <1>1, <1>2, <1>3

LEMMA WriteCallInv == IInv /\ WriteToSocket => IInv'
  <1> SUFFICES ASSUME IInv, WriteToSocket PROVE IInv'
    OBVIOUS
  <1> USE DEF IInv, TypeOK
  <1> DEFINE m   == Head(calls)
             buf == d.writeBuf + m.n
  <1>1. /\ calls' \in Seq(Call)
        /\ m.n \in Nat /\ m.notify \in BOOLEAN
    BY HandleType, CallFields DEF WriteToSocket
  <1>2. d.writeBuf \in Nat /\ buf \in Nat /\ d.laterFinished \in Nat /\ d.notifyWrite \in BOOLEAN
    BY <1>1 DEF ConnData
  <1>3. stopped' \in BOOLEAN /\ readDue' \in BOOLEAN /\ writesOwed' \in Nat
    BY <1>1 DEF WriteToSocket
  <1>4. unsent' \in Nat /\ d' \in ConnData /\ Sound(d', unsent') /\ Watched(d')
    <2>1. CASE buf = 0
      <3> DEFINE n == d.laterFinished + (IF m.notify THEN 1 ELSE 0)
                 e == [d EXCEPT !.laterFinished = n]
      <3>1. n \in Nat
        BY <1>1, <1>2
      <3>2. e \in ConnData /\ SameSocket(d, e)
        <4> HIDE DEF n
        <4>1. QED
          BY <3>1 DEF ConnData, SameSocket
      <3>3. d' = e /\ unsent' = unsent
        BY <1>2, <2>1 DEF WriteToSocket
      <3>4. QED
        BY <3>2, <3>3, SameSocketInv
    <2>2. CASE buf > 0 /\ W \in d.closeType
      <3> DEFINE e == [d EXCEPT !.writeBuf = 0]
      <3>1. /\ e \in ConnData
            /\ e.readActive = d.readActive /\ e.writeActive = d.writeActive
            /\ e.writeBuf = 0 /\ e.closeType = d.closeType
            /\ e.fd = d.fd /\ e.fdCloses = d.fdCloses
        BY DEF ConnData
      <3>2. d.fd # "reset" => unsent = 0
        <4>1. ReadWriteClosed \subseteq d.closeType \/ d.closeType = WriteClosed
          BY <2>2 DEF ConnData, CloseType, NotClosed, ReadClosed, WriteClosed,
                      ReadWriteClosed, HardClosed, R, W
        <4>2. QED
          BY <4>1 DEF Sound
      <3>3. Sound(e, unsent) /\ Watched(e)
        <4> HIDE DEF e
        <4>1. QED
          BY <2>2, <3>1, <3>2 DEF Sound, Watched
      <3>4. d' = (IF m.notify THEN CallClosed(e) ELSE e) /\ unsent' = unsent
        BY <2>2, <1>2 DEF WriteToSocket
      <3>5. QED
        BY <3>1, <3>3, <3>4, CallClosedInv
    <2>3. CASE buf > 0 /\ W \notin d.closeType
      <3> DEFINE f == IF m.notify THEN TRUE ELSE d.notifyWrite
                 c == [d EXCEPT !.writeBuf = buf, !.notifyWrite = d.notifyWrite \/ m.notify]
                 u == unsent + m.n
      <3>1. c = [d EXCEPT !.writeBuf = buf, !.notifyWrite = f]
        BY <1>1, <1>2
      <3>2. /\ c \in ConnData
            /\ c.readActive = d.readActive /\ c.writeActive = d.writeActive
            /\ c.writeBuf = buf /\ c.closeType = d.closeType
            /\ c.fd = d.fd /\ c.fdCloses = d.fdCloses
        <4>1. f \in BOOLEAN
          BY <1>2
        <4> HIDE DEF f, c, buf
        <4>2. QED
          BY <1>2, <3>1, <4>1 DEF ConnData
      <3>3. d.fd \notin {"reset", "fin", "closed"} /\ unsent = d.writeBuf
        BY <2>3 DEF Sound, ReadWriteClosed, WriteClosed
      <3>4. u \in Nat /\ Sound(c, u)
        <4> HIDE DEF c
        <4>1. QED
          BY <1>1, <1>2, <3>2, <3>3 DEF Sound
      <3>5. CASE d.writeActive
        <4>1. d' = c /\ unsent' = u
          BY <1>1, <1>2, <2>3, <3>2, <3>5 DEF WriteToSocket, CountBytes
        <4>2. Watched(c)
          BY <2>3, <3>2, <3>5 DEF Watched
        <4>3. QED
          BY <3>2, <3>4, <4>1, <4>2
      <3>6. CASE ~d.writeActive
        <4>1. PICK s \in SendResults(c) : d' = Writeable(c, s) /\ CountBytes(m.n, s)
          BY <1>1, <1>2, <2>3, <3>2, <3>6 DEF WriteToSocket
        <4>2. unsent' = IF s < 0 THEN 0 ELSE u - s
          <5>1. m.n \in Nat /\ unsent \in Nat
            BY <1>1
          <5>2. s \in Int
            BY <3>2, <1>2 DEF SendResults, EPipe, EFail
          <5>3. unsent' = IF s < 0 THEN 0 ELSE unsent + m.n - s
            BY <4>1 DEF CountBytes
          <5> HIDE DEF m
          <5>4. QED
            BY <5>1, <5>2, <5>3
        <4> HIDE DEF c, u
        <4>3. QED
          BY <2>3, <3>2, <3>4, <4>1, <4>2, WriteableSound
      <3>7. QED
        BY <3>5, <3>6
    <2>4. QED
      BY <1>2, <2>1, <2>2, <2>3
  <1>5. QED
    BY <1>1, <1>3, <1>4
LEMMA CloseCallInv == IInv /\ CloseCall => IInv'
  <1> SUFFICES ASSUME IInv, CloseCall PROVE IInv'
    OBVIOUS
  <1> USE DEF IInv, TypeOK
  <1> DEFINE m == Head(calls)
  <1>1. /\ calls' \in Seq(Call)
        /\ m.type \in CloseType \ {NotClosed} /\ m.notify \in BOOLEAN
    BY HandleType, CallFields DEF CloseCall
  <1>2. d' \in ConnData /\ Sound(d', unsent) /\ Watched(d')
    <2>1. d' = CloseConn(d, m.type, m.notify)
      BY DEF CloseCall
    <2> HIDE DEF m
    <2>2. QED
      BY <1>1, <2>1, CloseConnInv
  <1>3. QED
    BY <1>1, <1>2 DEF CloseCall, ledger

LEMMA DeleteCallInv == IInv /\ DeleteOnFinish => IInv'
  <1> SUFFICES ASSUME IInv, DeleteOnFinish PROVE IInv'
    OBVIOUS
  <1> USE DEF IInv, TypeOK
  <1>1. calls' \in Seq(Call)
    BY HandleType DEF DeleteOnFinish
  <1>2. ReadClosed \in CloseType \ {NotClosed} /\ ReadWriteClosed \in CloseType \ {NotClosed}
    BY DEF CloseType, ReadClosed, ReadWriteClosed, NotClosed
  <1>3. d' \in ConnData /\ Sound(d', unsent) /\ Watched(d')
    <2>1. CASE d.writeActive
      <3> DEFINE c == CloseConn(d, ReadClosed, FALSE)
      <3>1. c \in ConnData /\ Sound(c, unsent) /\ Watched(c)
        BY <1>2, CloseConnInv
      <3>2. d' = [c EXCEPT !.notifySome = FALSE, !.closeAfterWriting = TRUE,
                           !.deleteAfterWriting = TRUE]
        BY <2>1 DEF DeleteOnFinish
      <3> HIDE DEF c
      <3>3. d' \in ConnData /\ SameSocket(c, d')
        BY <3>1, <3>2 DEF ConnData, SameSocket
      <3>4. QED
        BY <3>1, <3>3, SameSocketInv
    <2>2. CASE ~d.writeActive
      <3> DEFINE c == CloseConn(d, ReadWriteClosed, FALSE)
      <3>1. c \in ConnData /\ Sound(c, unsent) /\ Watched(c)
        BY <1>2, CloseConnInv
      <3>2. d' = [c EXCEPT !.freed = TRUE]
        BY <2>2 DEF DeleteOnFinish
      <3> HIDE DEF c
      <3>3. d' \in ConnData /\ SameSocket(c, d')
        BY <3>1, <3>2 DEF ConnData, SameSocket
      <3>4. QED
        BY <3>1, <3>3, SameSocketInv
    <2>3. d.writeActive \in BOOLEAN
      BY DEF ConnData
    <2>4. QED
      BY <2>1, <2>2, <2>3
  <1>4. QED
    BY <1>1, <1>3 DEF DeleteOnFinish, ledger

LEMMA ServeInv == IInv /\ Serve => IInv'
  BY ReadCallInv, WriteCallInv, CloseCallInv, DeleteCallInv DEF Serve

LEMMA SocketInv == IInv /\ Socket => IInv'
  <1> SUFFICES ASSUME IInv, Socket PROVE IInv'
    OBVIOUS
  <1> USE DEF IInv, TypeOK
  <1>1. ReadClosed \in CloseType \ {NotClosed} /\ HardClosed \in CloseType \ {NotClosed}
    BY DEF CloseType, ReadClosed, HardClosed, NotClosed
  <1>2. CASE ReadBytes
    <2>1. d' \in ConnData /\ Sound(d', unsent) /\ Watched(d')
      <3>1. /\ d' \in ConnData
            /\ d'.readActive = FALSE /\ d'.writeActive = d.writeActive
            /\ d'.writeBuf = d.writeBuf /\ d'.closeType = d.closeType
            /\ d'.fd = d.fd /\ d'.fdCloses = d.fdCloses
        BY <1>2 DEF ReadBytes, ConnData
      <3>2. QED
        BY <3>1 DEF Sound, Watched
    <2>2. QED
      BY <1>2, <2>1 DEF ReadBytes
  <1>3. CASE ReadEof
    <2>1. d' \in ConnData /\ Sound(d', unsent) /\ Watched(d')
      BY <1>1, <1>3, CloseConnInv DEF ReadEof
    <2>2. QED
      BY <1>3, <2>1 DEF ReadEof, ledger
  <1>4. CASE ReadError
    <2>1. d' \in ConnData /\ Sound(d', unsent) /\ Watched(d')
      BY <1>1, <1>4, CloseConnInv DEF ReadError
    <2>2. QED
      BY <1>4, <2>1 DEF ReadError, ledger
  <1>5. CASE SocketWriteable
    <2>1. PICK s \in SendResults(d) : SocketTakes(s)
      BY <1>5 DEF SocketWriteable
    <2>2. d' = Writeable(d, s) /\ d.writeActive
      BY <2>1 DEF SocketTakes
    <2>3. unsent' = IF s < 0 THEN 0 ELSE unsent - s
      <3>1. s \in Int
        BY DEF SendResults, EPipe, EFail, ConnData
      <3>2. unsent' = IF s < 0 THEN 0 ELSE unsent + 0 - s
        BY <2>1 DEF SocketTakes, CountBytes
      <3>3. QED
        BY <3>1, <3>2
    <2>4. d.writeBuf > 0 /\ W \notin d.closeType
      BY <2>2 DEF Sound, Watched
    <2>5. unsent' \in Nat /\ d' \in ConnData /\ Sound(d', unsent') /\ Watched(d')
      BY <2>2, <2>3, <2>4, WriteableSound
    <2>6. QED
      BY <2>1, <2>5 DEF SocketTakes, ledger
  <1>6. QED
    BY <1>2, <1>3, <1>4, <1>5 DEF Socket

LEMMA StopInv == IInv /\ Stop => IInv'
  <1> SUFFICES ASSUME IInv, Stop PROVE IInv'
    OBVIOUS
  <1> USE DEF IInv, TypeOK
  <1>1. HardClosed \in CloseType \ {NotClosed}
    BY DEF CloseType, HardClosed, NotClosed
  <1>2. d' \in ConnData /\ Sound(d', unsent) /\ Watched(d')
    BY <1>1, CloseConnInv DEF Stop
  <1>3. QED
    BY <1>2 DEF Stop, ledger

LEMMA DeliverInv == IInv /\ Deliver => IInv'
  <1> SUFFICES ASSUME IInv, Deliver PROVE IInv'
    OBVIOUS
  <1> USE DEF IInv, TypeOK
  <1>1. /\ calls' = calls /\ unsent' = unsent /\ stopped' = stopped
        /\ readDue' \in BOOLEAN /\ writesOwed' \in Nat
    <2>1. CASE DeliverClosed
      BY <2>1 DEF DeliverClosed
    <2>2. CASE DeliverFinished
      <3>1. writesOwed > 0 => writesOwed - 1 \in Nat
        OBVIOUS
      <3>2. QED
        BY <2>2, <3>1 DEF DeliverFinished
    <2>3. CASE DeliverSome
      BY <2>3 DEF DeliverSome, ledger
    <2>4. QED
      BY <2>1, <2>2, <2>3 DEF Deliver
  <1>2. d' \in ConnData /\ SameSocket(d, d')
    <2>1. \A n \in Nat : n > 0 => n - 1 \in Nat
      OBVIOUS
    <2>2. d.laterClosed \in Nat /\ d.laterFinished \in Nat /\ d.laterSome \in Nat
      BY DEF ConnData
    <2>3. ASSUME NEW n \in Nat
          PROVE  /\ LET e == [d EXCEPT !.laterClosed = n] IN e \in ConnData /\ SameSocket(d, e)
                 /\ LET e == [d EXCEPT !.laterFinished = n] IN e \in ConnData /\ SameSocket(d, e)
                 /\ LET e == [d EXCEPT !.laterSome = n] IN e \in ConnData /\ SameSocket(d, e)
      BY DEF ConnData, SameSocket
    <2>4. CASE DeliverClosed
      BY <2>1, <2>2, <2>3, <2>4 DEF DeliverClosed
    <2>5. CASE DeliverFinished
      BY <2>1, <2>2, <2>3, <2>5 DEF DeliverFinished
    <2>6. CASE DeliverSome
      BY <2>1, <2>2, <2>3, <2>6 DEF DeliverSome
    <2>7. QED
      BY <2>4, <2>5, <2>6 DEF Deliver
  <1>3. QED
    BY <1>1, <1>2, SameSocketInv

----------------------------------------
(* The invariant is inductive: it holds at the start and every step of any *)
(* actor keeps it. *)
LEMMA NextInv == IInv /\ [Next]_vars => IInv'
  <1>1. IInv /\ UNCHANGED vars => IInv'
    BY DEF IInv, TypeOK, vars
  <1>2. QED
    BY <1>1, UserInv, ServeInv, SocketInv, StopInv, DeliverInv DEF Next

(* For every bound of the constants the inductive invariant holds of every *)
(* behaviour of the connection. *)
THEOREM Invariance == Spec => []IInv
  BY InitInv, NextInv, PTL DEF Spec

(* The record, the queue of calls and the ledger keep their types: a close *)
(* type is always one of the five of TCPConn::CloseType, no combination of *)
(* closes makes another. *)
THEOREM TypeCorrect == Spec => []TypeOK
  <1>1. IInv => TypeOK
    BY DEF IInv
  <1>2. QED
    BY <1>1, Invariance, PTL

(* closeConn closes the descriptor once, when both halves are closed, and *)
(* leaves no watcher on a closed half, whoever closes and in what order. *)
THEOREM DescriptorSafe == Spec => []DescriptorClosedOnce
  <1>1. IInv => DescriptorClosedOnce
    BY DEF IInv, Sound, DescriptorClosedOnce
  <1>2. QED
    BY <1>1, Invariance, PTL

(* writeToSocket and writeable never leave bytes behind that no watcher *)
(* will send. *)
THEOREM BytesWatched == Spec => []PendingBytesWatched
  <1>1. IInv => PendingBytesWatched
    BY DEF IInv, Watched, PendingBytesWatched
  <1>2. QED
    BY <1>1, Invariance, PTL

(* A FIN or the end of the descriptor follows the last byte accepted, *)
(* unless the connection was reset or a send failed. *)
THEOREM FinSafe == Spec => []FinAfterLastByte
  <1>1. IInv => FinAfterLastByte
    BY DEF IInv, TypeOK, Sound, FinAfterLastByte
  <1>2. QED
    BY <1>1, Invariance, PTL

(* writeToSocket, writeable and closeConn: what write() accepted is not *)
(* stranded, and nothing ends the stream before it. *)
THEOREM BytesSafe == Spec => []BytesDelivered
  BY BytesWatched, FinSafe, PTL DEF BytesDelivered

(****************************************)
(* What the user was promised.  Promised is the ledger's view of a record: *)
(* a read, and one write that asked for it, are answered or will be. *)
(* Silent is its view of the user's who let go, Kept of a record's end. *)
(****************************************)
Told(c, due, owed) ==
  /\ c.lastInformed \subseteq c.closeType
  /\ c.readActive => due
  /\ due => \/ c.readActive
            \/ c.laterClosed > 0 /\ R \in c.closeType
            \/ R \in c.lastInformed
  /\ owed => \/ c.notifyWrite
             \/ c.laterFinished > 0
             \/ c.laterClosed > 0 /\ W \in c.closeType
             \/ W \in c.lastInformed

Promised(c, due, owed) == Told(c, due, owed) /\ (c.notifyWrite => c.writeActive)

NoCallbacks(c) ==
  /\ ~c.readActive /\ ~c.notifyWrite
  /\ c.laterClosed = 0 /\ c.laterFinished = 0 /\ c.laterSome = 0

Silent(c) == c.conn # "attached" => NoCallbacks(c) /\ (c.notifySome => ~c.writeActive)

Kept(c, halted) ==
  /\ c.freed => c.conn = "gone" /\ ~c.readActive /\ ~c.writeActive
  /\ c.deleteAfterWriting =>
       c.conn = "gone" /\ c.closeAfterWriting /\ (c.writeActive \/ c.freed \/ halted)

(* The calls on their way: of a user who let go none calls back, and the *)
(* delete call is the last one. *)
SilentCalls == d.conn # "attached" => \A i \in 1 .. Len(calls) : ~CallMayCallBack(calls[i])

Deleting == \E i \in 1 .. Len(calls) : calls[i].op = "delete"

KeptCalls ==
  /\ d.freed \/ d.deleteAfterWriting => calls = <<>>
  /\ \A i \in 1 .. Len(calls) : calls[i].op = "delete" => i = Len(calls) /\ d.conn = "gone"
  /\ d.conn = "gone" => Deleting \/ d.freed \/ d.deleteAfterWriting

(* A user who waits for the answer to a write before the next: while one *)
(* is owed, no other is on its way. *)
OneOwed ==
  MaxOwed <= 1 =>
    /\ writesOwed <= 1
    /\ \A i \in QueuedNotifies : writesOwed = 0 /\ \A j \in QueuedNotifies : i = j

Owed == MaxOwed <= 1 /\ writesOwed > 0

OwedInv ==
  /\ IInv
  /\ Promised(d, readDue, Owed) /\ Silent(d) /\ Kept(d, stopped)
  /\ SilentCalls /\ KeptCalls /\ OneOwed

(* All but what the socket and callClosed change. *)
Others(c, e) ==
  /\ e.conn = c.conn /\ e.readActive = c.readActive /\ e.writeActive = c.writeActive
  /\ e.writeBuf = c.writeBuf /\ e.notifySome = c.notifySome
  /\ e.closeAfterWriting = c.closeAfterWriting /\ e.deleteAfterWriting = c.deleteAfterWriting
  /\ e.notifyWrite = c.notifyWrite /\ e.closeType = c.closeType /\ e.freed = c.freed
  /\ e.laterFinished = c.laterFinished /\ e.laterSome = c.laterSome

LEMMA CallClosedTells ==
  ASSUME NEW c \in ConnData
  PROVE  /\ Others(c, CallClosed(c)) /\ CallClosed(c) \in ConnData
         /\ CallClosed(c).lastInformed = c.closeType
         /\ CallClosed(c).laterClosed \in {c.laterClosed, c.laterClosed + 1}
  <1>1. ASSUME NEW t \in CloseType, NEW n \in Nat
        PROVE  LET e == [c EXCEPT !.lastInformed = t, !.laterClosed = n]
               IN  Others(c, e) /\ e.lastInformed = t /\ e.laterClosed = n
    BY DEF ConnData, Others
  <1>2. c.closeType \in CloseType /\ c.laterClosed + 1 \in Nat
    BY DEF ConnData
  <1>3. CASE c.lastInformed = c.closeType
    <2>1. CallClosed(c) = c
      BY <1>3 DEF CallClosed
    <2>2. QED BY <1>3, <2>1 DEF Others
  <1>4. CASE c.lastInformed # c.closeType
    <2> DEFINE t == c.closeType
               n == c.laterClosed + 1
    <2>1. CallClosed(c) = [c EXCEPT !.lastInformed = t, !.laterClosed = n]
      BY <1>4 DEF CallClosed
    <2> HIDE DEF t, n
    <2>2. t \in CloseType /\ n \in Nat
      BY <1>2 DEF t, n
    <2>3. Others(c, CallClosed(c)) /\ CallClosed(c).lastInformed = t /\ CallClosed(c).laterClosed = n
      <3> DEFINE e == CallClosed(c)
      <3>1. e = [c EXCEPT !.lastInformed = t, !.laterClosed = n]
        BY <2>1
      <3> HIDE DEF e
      <3>2. Others(c, e) /\ e.lastInformed = t /\ e.laterClosed = n
        BY <2>2, <3>1 DEF ConnData, Others
      <3>3. QED BY <3>2 DEF e
    <2>4. QED BY <2>3, CallClosedFacts DEF t, n
  <1>5. QED
    BY <1>3, <1>4, CallClosedFacts

LEMMA CloseSocketTells ==
  ASSUME NEW c \in ConnData, NEW old \in CloseType, NEW e, e = CloseSocket(c, old)
  PROVE  Others(c, e) /\ e.lastInformed = c.lastInformed /\ e.laterClosed = c.laterClosed
  <1> DEFINE n == c.fdCloses + 1
  <1>1. ASSUME NEW f \in Fd
        PROVE  LET g == [c EXCEPT !.fd = f, !.fdCloses = n]
               IN  Others(c, g) /\ g.lastInformed = c.lastInformed /\ g.laterClosed = c.laterClosed
    <2> HIDE DEF n
    <2>1. QED BY DEF ConnData, Others
  <1>2. LET g == [c EXCEPT !.fd = "fin"]
        IN  Others(c, g) /\ g.lastInformed = c.lastInformed /\ g.laterClosed = c.laterClosed
    BY DEF ConnData, Others
  <1>3. "reset" \in Fd /\ "closed" \in Fd
    BY DEF Fd
  <1>4. \/ e = [c EXCEPT !.fd = "reset", !.fdCloses = n]
        \/ e = [c EXCEPT !.fd = "closed", !.fdCloses = n]
        \/ e = [c EXCEPT !.fd = "fin"]
        \/ e = c
    BY DEF CloseSocket
  <1>5. CASE e = c
    BY <1>5 DEF Others
  <1>6. CASE e = [c EXCEPT !.fd = "fin"]
    BY <1>2, <1>6
  <1>7. CASE e = [c EXCEPT !.fd = "reset", !.fdCloses = n] \/ e = [c EXCEPT !.fd = "closed", !.fdCloses = n]
    <2> HIDE DEF n
    <2>1. QED BY <1>1, <1>3, <1>7
  <1>8. QED
    BY <1>4, <1>5, <1>6, <1>7

(* closeConn: what stops is told, and nothing else changes what is due. *)
LEMMA CloseConnTells ==
  ASSUME NEW c \in ConnData, c.lastInformed \subseteq c.closeType,
         NEW type \in CloseType, NEW notify \in BOOLEAN,
         NEW e, e = CloseConn(c, type, notify)
  PROVE  /\ e \in ConnData
         /\ e.conn = c.conn /\ e.deleteAfterWriting = c.deleteAfterWriting /\ e.freed = c.freed
         /\ e.laterFinished = c.laterFinished /\ e.laterSome = c.laterSome
         /\ c.closeAfterWriting => e.closeAfterWriting
         /\ e.notifySome => c.notifySome
         /\ c.closeType \subseteq e.closeType /\ e.closeType \subseteq c.closeType \cup type
         /\ W \in type /\ c.writeBuf = 0 => W \in e.closeType
         /\ e.lastInformed \subseteq e.closeType /\ c.lastInformed \subseteq e.lastInformed
         /\ e.readActive => c.readActive
         /\ c.readActive => e.readActive \/ R \in e.lastInformed
         /\ notify /\ R \in type /\ R \notin c.closeType => R \in e.lastInformed
         /\ W \in e.closeType \ c.closeType =>
              ~e.writeActive /\ ~e.notifyWrite /\ (c.notifyWrite => W \in e.lastInformed)
         /\ W \notin e.closeType \ c.closeType =>
              e.writeActive = c.writeActive /\ e.notifyWrite = c.notifyWrite
         /\ e.laterClosed \in Nat /\ e.laterClosed >= c.laterClosed
         /\ ~notify /\ ~c.readActive /\ ~c.notifyWrite => e.laterClosed = c.laterClosed
  <1> DEFINE all     == c.closeType \cup type
             now     == IF Defers(c, type) THEN all \ {W} ELSE all
             changed == now \ c.closeType
             marked  == IF Defers(c, type)
                          THEN [c EXCEPT !.notifySome = FALSE, !.closeAfterWriting = TRUE]
                          ELSE c
             wake    == \/ notify
                        \/ R \in changed /\ c.readActive
                        \/ W \in changed /\ c.notifyWrite
             r       == IF R \in changed THEN FALSE ELSE c.readActive
             w       == IF W \in changed THEN FALSE ELSE c.writeActive
             n       == IF W \in changed THEN FALSE ELSE c.notifyWrite
             halted  == [marked EXCEPT
                           !.closeType   = now,
                           !.readActive  = IF R \in changed THEN FALSE ELSE @,
                           !.writeActive = IF W \in changed THEN FALSE ELSE @,
                           !.notifyWrite = IF W \in changed THEN FALSE ELSE @]
             told    == IF wake THEN CallClosed(halted) ELSE halted
  <1>1. e = IF changed = {} THEN marked ELSE CloseSocket(told, c.closeType)
    BY DEF CloseConn
  <1>2. /\ c.closeType \in CloseType /\ c.lastInformed \in CloseType /\ c.laterClosed \in Nat
        /\ c.readActive \in BOOLEAN /\ c.writeActive \in BOOLEAN /\ c.notifyWrite \in BOOLEAN
    BY DEF ConnData
  <1>3. now \in CloseType
    BY <1>2, CloseTypeUnion DEF Defers
  <1>4. /\ c.closeType \subseteq now /\ now \subseteq c.closeType \cup type
        /\ changed = now \ c.closeType
        /\ W \in type /\ c.writeBuf = 0 => W \in now
        /\ R \in type => R \in now
    BY DEF Defers, ConnData, R, W
  <1>5. /\ marked \in ConnData
        /\ marked.conn = c.conn /\ marked.deleteAfterWriting = c.deleteAfterWriting /\ marked.freed = c.freed
        /\ marked.laterFinished = c.laterFinished /\ marked.laterSome = c.laterSome
        /\ c.closeAfterWriting => marked.closeAfterWriting
        /\ marked.notifySome => c.notifySome
        /\ marked.closeType = c.closeType /\ marked.lastInformed = c.lastInformed
        /\ marked.readActive = c.readActive /\ marked.writeActive = c.writeActive
        /\ marked.notifyWrite = c.notifyWrite /\ marked.laterClosed = c.laterClosed
    BY DEF ConnData
  <1>6. CASE changed = {}
    <2>1. e = marked /\ now = c.closeType
      BY <1>1, <1>4, <1>6
    <2> HIDE DEF marked, now, changed
    <2>2. QED
      BY <1>2, <1>4, <1>5, <2>1
  <1>7. CASE changed # {}
    <2>1. e = CloseSocket(told, c.closeType)
      BY <1>1, <1>7
    <2>2. halted = [marked EXCEPT !.closeType = now, !.readActive = r, !.writeActive = w, !.notifyWrite = n]
      <3>1. r = (IF R \in changed THEN FALSE ELSE marked.readActive)
            /\ w = (IF W \in changed THEN FALSE ELSE marked.writeActive)
            /\ n = (IF W \in changed THEN FALSE ELSE marked.notifyWrite)
        BY <1>5
      <3> HIDE DEF changed, now, marked, r, w, n
      <3>2. QED BY <3>1
    <2>3. r \in BOOLEAN /\ w \in BOOLEAN /\ n \in BOOLEAN
      BY <1>2
    <2>4. /\ halted \in ConnData
          /\ halted.closeType = now /\ halted.readActive = r /\ halted.writeActive = w
          /\ halted.notifyWrite = n
          /\ halted.conn = marked.conn /\ halted.deleteAfterWriting = marked.deleteAfterWriting
          /\ halted.freed = marked.freed /\ halted.laterFinished = marked.laterFinished
          /\ halted.laterSome = marked.laterSome
          /\ halted.closeAfterWriting = marked.closeAfterWriting
          /\ halted.notifySome = marked.notifySome /\ halted.lastInformed = marked.lastInformed
          /\ halted.laterClosed = marked.laterClosed
      <3> HIDE DEF halted, r, w, n, now, marked, changed
      <3>1. halted \in ConnData
        <4>1. marked \in ConnData
          BY <1>5
        <4>2. QED BY <1>3, <2>2, <2>3, <4>1 DEF ConnData
      <3>2. /\ halted.closeType = now /\ halted.readActive = r /\ halted.writeActive = w
            /\ halted.notifyWrite = n
        BY <1>5, <2>2 DEF ConnData
      <3>3. /\ halted.conn = marked.conn /\ halted.deleteAfterWriting = marked.deleteAfterWriting
            /\ halted.freed = marked.freed /\ halted.laterFinished = marked.laterFinished
            /\ halted.laterSome = marked.laterSome
        BY <1>5, <2>2 DEF ConnData
      <3>4. /\ halted.closeAfterWriting = marked.closeAfterWriting
            /\ halted.notifySome = marked.notifySome /\ halted.lastInformed = marked.lastInformed
            /\ halted.laterClosed = marked.laterClosed
        BY <1>5, <2>2 DEF ConnData
      <3>5. QED BY <3>1, <3>2, <3>3, <3>4
    <2> HIDE DEF halted, marked, now, changed, wake
    <2>5. /\ told \in ConnData /\ Others(halted, told)
          /\ wake => told.lastInformed = now /\ told.laterClosed \in {c.laterClosed, c.laterClosed + 1}
          /\ ~wake => told.lastInformed = c.lastInformed /\ told.laterClosed = c.laterClosed
      BY <1>5, <2>4, CallClosedTells DEF Others
    <2> HIDE DEF told
    <2>6. /\ e \in ConnData
          /\ Others(told, e) /\ e.lastInformed = told.lastInformed /\ e.laterClosed = told.laterClosed
      <3>1. e \in ConnData
        BY <1>2, <2>1, <2>5, CloseSocketFacts
      <3>2. QED BY <1>2, <2>1, <2>5, <3>1, CloseSocketTells
    <2>7. /\ e.closeType = now /\ e.readActive = r /\ e.writeActive = w /\ e.notifyWrite = n
          /\ e.conn = c.conn /\ e.deleteAfterWriting = c.deleteAfterWriting
          /\ e.freed = c.freed /\ e.laterFinished = c.laterFinished
          /\ e.laterSome = c.laterSome
          /\ c.closeAfterWriting => e.closeAfterWriting
          /\ e.notifySome => c.notifySome
      BY <1>5, <2>4, <2>5, <2>6 DEF Others
    <2>8. /\ e.lastInformed \subseteq e.closeType /\ c.lastInformed \subseteq e.lastInformed
          /\ wake => e.lastInformed = now
          /\ e.laterClosed \in Nat /\ e.laterClosed >= c.laterClosed
          /\ ~wake => e.laterClosed = c.laterClosed
      BY <1>2, <1>4, <2>5, <2>6, <2>7
    <2>9. QED
      BY <1>2, <1>4, <2>6, <2>7, <2>8 DEF wake
  <1>8. QED
    BY <1>6, <1>7

LEMMA CloseConnPromised ==
  ASSUME NEW c \in ConnData, NEW due \in BOOLEAN, NEW owed \in BOOLEAN, Promised(c, due, owed),
         NEW type \in CloseType, NEW notify \in BOOLEAN,
         NEW e, e = CloseConn(c, type, notify)
  PROVE  /\ Promised(e, due, owed)
         /\ Silent(c) /\ (c.conn = "attached" \/ ~notify) => Silent(e)
         /\ e.conn = c.conn /\ e.deleteAfterWriting = c.deleteAfterWriting
         /\ e.freed = c.freed /\ (e.notifySome => c.notifySome)
         /\ c.closeType \subseteq e.closeType
  <1>1. c.laterClosed \in Nat /\ c.laterFinished \in Nat
    BY DEF ConnData
  <1>2. QED
    BY <1>1, CloseConnTells DEF Promised, Told, Silent, NoCallbacks

----------------------------------------
(* What a handler that closes or sends leaves to the queue. *)
Stays(c, e) ==
  /\ e.conn = c.conn /\ e.deleteAfterWriting = c.deleteAfterWriting
  /\ e.freed => c.freed \/ c.deleteAfterWriting
  /\ e.notifySome => c.notifySome
  /\ c.closeType \subseteq e.closeType

(* writeable: c has bytes to send, maybe just added by write. *)
LEMMA EmptiedTells ==
  ASSUME NEW c \in ConnData, NEW due \in BOOLEAN, NEW owed \in BOOLEAN, Told(c, due, owed),
         W \notin c.closeType, ~c.freed,
         c.conn # "attached" => NoCallbacks(c),
         c.deleteAfterWriting => c.conn = "gone" /\ c.closeAfterWriting,
         NEW type \in {WriteClosed, HardClosed}, NEW halted
  PROVE  LET e == Dispose(CloseConn([c EXCEPT !.writeBuf = 0], type, FALSE))
         IN  Promised(e, due, owed) /\ Silent(e) /\ Kept(e, halted) /\ Stays(c, e)
  <1> DEFINE z == [c EXCEPT !.writeBuf = 0]
             y == CloseConn(z, type, FALSE)
             e == Dispose(y)
  <1>1. /\ z \in ConnData /\ z.writeBuf = 0 /\ z.conn = c.conn /\ z.freed = c.freed
        /\ z.readActive = c.readActive /\ z.writeActive = c.writeActive /\ z.notifyWrite = c.notifyWrite
        /\ z.closeType = c.closeType /\ z.lastInformed = c.lastInformed
        /\ z.deleteAfterWriting = c.deleteAfterWriting /\ z.closeAfterWriting = c.closeAfterWriting
        /\ z.notifySome = c.notifySome
        /\ z.laterClosed = c.laterClosed /\ z.laterFinished = c.laterFinished /\ z.laterSome = c.laterSome
    BY DEF ConnData
  <1>2. type \in CloseType /\ W \in type /\ z.lastInformed \subseteq z.closeType
    BY <1>1 DEF CloseType, WriteClosed, HardClosed, W, Told
  <1> HIDE DEF z
  <1>3. /\ y \in ConnData
        /\ y.conn = c.conn /\ y.deleteAfterWriting = c.deleteAfterWriting
        /\ y.laterFinished = c.laterFinished /\ y.laterSome = c.laterSome
        /\ c.closeAfterWriting => y.closeAfterWriting
        /\ y.notifySome => c.notifySome
        /\ c.closeType \subseteq y.closeType /\ W \in y.closeType
        /\ y.lastInformed \subseteq y.closeType /\ c.lastInformed \subseteq y.lastInformed
        /\ y.readActive => c.readActive
        /\ c.readActive => y.readActive \/ R \in y.lastInformed
        /\ ~y.writeActive /\ ~y.notifyWrite /\ (c.notifyWrite => W \in y.lastInformed)
        /\ y.laterClosed \in Nat /\ y.laterClosed >= c.laterClosed
        /\ ~c.readActive /\ ~c.notifyWrite => y.laterClosed = c.laterClosed
    <2> DEFINE no == FALSE
    <2>1. /\ y = CloseConn(z, type, no) /\ no \in BOOLEAN /\ ~no
          /\ z \in ConnData /\ W \notin z.closeType
      BY <1>1
    <2> HIDE DEF y, no
    <2>2. /\ y \in ConnData
          /\ y.conn = z.conn /\ y.deleteAfterWriting = z.deleteAfterWriting
          /\ y.laterFinished = z.laterFinished /\ y.laterSome = z.laterSome
          /\ z.closeAfterWriting => y.closeAfterWriting
          /\ y.notifySome => z.notifySome
          /\ z.closeType \subseteq y.closeType /\ W \in y.closeType
          /\ y.lastInformed \subseteq y.closeType /\ z.lastInformed \subseteq y.lastInformed
          /\ y.readActive => z.readActive
          /\ z.readActive => y.readActive \/ R \in y.lastInformed
          /\ W \in y.closeType \ z.closeType =>
               ~y.writeActive /\ ~y.notifyWrite /\ (z.notifyWrite => W \in y.lastInformed)
          /\ y.laterClosed \in Nat /\ y.laterClosed >= z.laterClosed
          /\ ~z.readActive /\ ~z.notifyWrite => y.laterClosed = z.laterClosed
      BY <1>1, <1>2, <2>1, CloseConnTells
    <2>3. QED BY <1>1, <2>1, <2>2
  <1> HIDE DEF y
  <1>4. /\ e.conn = y.conn /\ e.deleteAfterWriting = y.deleteAfterWriting /\ e.freed = y.deleteAfterWriting
        /\ e.laterFinished = y.laterFinished /\ e.laterSome = y.laterSome
        /\ e.notifySome = y.notifySome
        /\ e.closeAfterWriting = y.closeAfterWriting /\ e.closeType = y.closeType
        /\ e.lastInformed = y.lastInformed /\ e.readActive = y.readActive /\ e.writeActive = y.writeActive
        /\ e.notifyWrite = y.notifyWrite /\ e.laterClosed = y.laterClosed
    BY <1>3 DEF ConnData, Dispose
  <1>6. c.laterClosed \in Nat /\ c.laterFinished \in Nat
    BY DEF ConnData
  <1> HIDE DEF e
  <1>7. Promised(e, due, owed)
    BY <1>3, <1>4, <1>6 DEF Promised, Told
  <1>8. Silent(e) /\ Kept(e, halted) /\ Stays(c, e)
    BY <1>3, <1>4, <1>6 DEF Silent, NoCallbacks, Kept, Stays
  <1>9. QED
    BY <1>7, <1>8 DEF e, y, z

LEMMA WriteableTells ==
  ASSUME NEW c \in ConnData, NEW due \in BOOLEAN, NEW owed \in BOOLEAN, Told(c, due, owed),
         W \notin c.closeType, ~c.freed, c.writeBuf > 0,
         c.conn # "attached" => NoCallbacks(c) /\ ~c.notifySome,
         c.deleteAfterWriting => c.conn = "gone" /\ c.closeAfterWriting,
         NEW s \in SendResults(c), NEW halted
  PROVE  LET e == Writeable(c, s)
         IN  Promised(e, due, owed) /\ Silent(e) /\ Kept(e, halted) /\ Stays(c, e)
  <1>1. c.writeBuf \in Nat /\ c.laterSome \in Nat /\ c.laterFinished \in Nat /\ c.notifyWrite \in BOOLEAN
    BY DEF ConnData
  <1>2. s \in Int
    BY <1>1 DEF SendResults, EPipe, EFail
  <1>3. CASE s < 0
    BY <1>3, EmptiedTells DEF Writeable, SendFailed
  <1>4. CASE s >= 0 /\ s < c.writeBuf
    <2> DEFINE b == c.writeBuf - s
               m == SomeWritten(c, s)
               e == Writeable(c, s)
    <2>1. b \in Nat /\ m \in Nat /\ (~c.notifySome => m = c.laterSome)
      BY <1>1, <1>2, <1>4 DEF SomeWritten
    <2>2. e = [c EXCEPT !.writeBuf = b, !.writeActive = TRUE, !.laterSome = m]
      BY <1>2, <1>4 DEF Writeable, SendPart
    <2> HIDE DEF b, m, e
    <2>3. /\ e.conn = c.conn /\ e.deleteAfterWriting = c.deleteAfterWriting /\ e.freed = c.freed
          /\ e.laterFinished = c.laterFinished /\ e.laterSome = m /\ e.notifySome = c.notifySome
          /\ e.closeAfterWriting = c.closeAfterWriting /\ e.closeType = c.closeType
          /\ e.lastInformed = c.lastInformed /\ e.readActive = c.readActive /\ e.writeActive = TRUE
          /\ e.notifyWrite = c.notifyWrite /\ e.laterClosed = c.laterClosed
      BY <2>1, <2>2 DEF ConnData
    <2>4. Promised(e, due, owed) /\ Silent(e) /\ Kept(e, halted) /\ Stays(c, e)
      BY <2>1, <2>3 DEF Promised, Told, Silent, NoCallbacks, Kept, Stays
    <2>5. QED BY <2>4 DEF e
  <1>5. CASE s >= 0 /\ ~(s < c.writeBuf)
    <2>1. Writeable(c, s) = SendAll(c, s)
      BY <1>2, <1>5 DEF Writeable
    <2>2. CASE c.closeAfterWriting
      BY <2>1, <2>2, EmptiedTells DEF SendAll
    <2>3. CASE ~c.closeAfterWriting
      <3> DEFINE m == SomeWritten(c, s)
                 n == c.laterFinished + (IF c.notifyWrite THEN 1 ELSE 0)
                 e == Drained(c, s)
      <3>1. /\ m \in Nat /\ n \in Nat /\ (~c.notifySome => m = c.laterSome)
            /\ (c.notifyWrite => n > 0) /\ (~c.notifyWrite => n = c.laterFinished)
        BY <1>1 DEF SomeWritten
      <3>2. e = [c EXCEPT !.writeBuf = 0, !.writeActive = FALSE, !.laterSome = m,
                          !.notifyWrite = FALSE, !.laterFinished = n]
        BY DEF Drained
      <3> HIDE DEF m, n, e
      <3>3. /\ e.conn = c.conn /\ e.deleteAfterWriting = c.deleteAfterWriting /\ e.freed = c.freed
            /\ e.laterFinished = n /\ e.laterSome = m /\ e.notifySome = c.notifySome
            /\ e.closeAfterWriting = c.closeAfterWriting /\ e.closeType = c.closeType
            /\ e.lastInformed = c.lastInformed /\ e.readActive = c.readActive /\ e.writeActive = FALSE
            /\ e.notifyWrite = FALSE /\ e.laterClosed = c.laterClosed
        BY <3>1, <3>2 DEF ConnData
      <3>4. Promised(e, due, owed) /\ Silent(e) /\ Kept(e, halted) /\ Stays(c, e)
        BY <1>1, <2>3, <3>1, <3>3 DEF Promised, Told, Silent, NoCallbacks, Kept, Stays
      <3>5. QED BY <2>1, <2>3, <3>4 DEF SendAll, e
    <2>4. QED
      BY <2>2, <2>3
  <1>6. QED
    BY <1>2, <1>3, <1>4, <1>5

----------------------------------------
(* The queue of calls *)

LEMMA HandleFacts ==
  ASSUME OwedInv, NEW op, Handle(op)
  PROVE  /\ calls # <<>> /\ Len(calls) \in Nat \ {0} /\ Len(calls') = Len(calls) - 1
         /\ \A i \in 1 .. Len(calls') : calls'[i] = calls[i + 1] /\ i + 1 \in 1 .. Len(calls)
         /\ Head(calls) = calls[1] /\ Head(calls) \in Call /\ Head(calls).op = op
         /\ ~d.freed /\ ~d.deleteAfterWriting
         /\ d.conn # "attached" => ~CallMayCallBack(Head(calls))
         /\ \A i \in QueuedNotifies' : i + 1 \in QueuedNotifies
         /\ op = "write" /\ Head(calls).notify => 1 \in QueuedNotifies
  <1>1. calls # <<>> /\ calls' = Tail(calls) /\ calls \in Seq(Call) /\ Head(calls).op = op
    BY DEF Handle, OwedInv, IInv, TypeOK
  <1>2. /\ Len(calls) \in Nat \ {0} /\ Len(calls') = Len(calls) - 1
        /\ Head(calls) = calls[1] /\ Head(calls) \in Call
    BY <1>1
  <1>3. \A i \in 1 .. Len(calls') : calls'[i] = calls[i + 1] /\ i + 1 \in 1 .. Len(calls)
    BY <1>1, <1>2, HeadTailProperties
  <1>4. \A i \in QueuedNotifies' : i + 1 \in QueuedNotifies
    BY <1>3 DEF QueuedNotifies, QueuedWrites
  <1>5. op = "write" /\ Head(calls).notify => 1 \in QueuedNotifies
    BY <1>1, <1>2 DEF QueuedNotifies, QueuedWrites
  <1>6. ~d.freed /\ ~d.deleteAfterWriting /\ (d.conn # "attached" => ~CallMayCallBack(Head(calls)))
    <2>1. ~d.freed /\ ~d.deleteAfterWriting
      BY <1>1 DEF OwedInv, KeptCalls
    <2>2. 1 \in 1 .. Len(calls)
      BY <1>2
    <2>3. d.conn # "attached" => ~CallMayCallBack(calls[1])
      BY <2>2 DEF OwedInv, SilentCalls
    <2> QED BY <1>2, <2>1, <2>3
  <1> QED BY <1>1, <1>2, <1>3, <1>4, <1>5, <1>6

(* A call that ends nothing leaves the others as they were. *)
LEMMA QueueKept ==
  ASSUME OwedInv, NEW op, Handle(op), op # "delete", Stays(d, d')
  PROVE  SilentCalls' /\ KeptCalls'
  <1>1. \A i \in 1 .. Len(calls') : calls'[i] = calls[i + 1] /\ i + 1 \in 1 .. Len(calls)
    BY HandleFacts
  <1>2. /\ Len(calls) \in Nat \ {0} /\ Len(calls') = Len(calls) - 1
        /\ calls[1].op = op /\ ~d.freed /\ ~d.deleteAfterWriting
    BY HandleFacts
  <1>3. SilentCalls'
    BY <1>1 DEF OwedInv, SilentCalls, CallMayCallBack, Stays
  <1>4. \A i \in 1 .. Len(calls') : calls'[i].op = "delete" => i = Len(calls') /\ d'.conn = "gone"
    <2> SUFFICES ASSUME NEW i \in 1 .. Len(calls'), calls'[i].op = "delete"
                 PROVE  i = Len(calls') /\ d'.conn = "gone"
      OBVIOUS
    <2>1. calls[i + 1].op = "delete" /\ i + 1 \in 1 .. Len(calls)
      BY <1>1
    <2>2. i + 1 = Len(calls) /\ d.conn = "gone"
      BY <2>1 DEF OwedInv, KeptCalls
    <2> QED BY <1>2, <2>2 DEF Stays
  <1>5. ASSUME d'.conn = "gone" PROVE Deleting'
    <2>1. PICK i \in 1 .. Len(calls) : calls[i].op = "delete"
      BY <1>2, <1>5 DEF OwedInv, KeptCalls, Deleting, Stays
    <2>2. i - 1 \in 1 .. Len(calls') /\ (i - 1) + 1 = i
      BY <1>2, <2>1
    <2>3. calls'[i - 1].op = "delete"
      BY <1>1, <2>1, <2>2
    <2> QED BY <2>2, <2>3 DEF Deleting
  <1> QED BY <1>2, <1>3, <1>4, <1>5 DEF KeptCalls, Stays

(* The call of the head being handled, at most one write that asks for an *)
(* answer is still on its way. *)
LEMMA HandledOnce ==
  ASSUME OwedInv, NEW op, Handle(op), writesOwed' \in Nat,
         writesOwed' <= writesOwed \/ (op = "write" /\ Head(calls).notify /\ writesOwed' = writesOwed + 1)
  PROVE  OneOwed'
  <1>1. /\ \A i \in QueuedNotifies' : i + 1 \in QueuedNotifies
        /\ op = "write" /\ Head(calls).notify => 1 \in QueuedNotifies
        /\ \A i \in QueuedNotifies' : i \in 1 .. Len(calls')
        /\ writesOwed \in Nat
    BY HandleFacts DEF QueuedNotifies, QueuedWrites, OwedInv, IInv, TypeOK
  <1>2. CASE writesOwed' <= writesOwed
    <2> SUFFICES ASSUME MaxOwed <= 1
                 PROVE  /\ writesOwed' <= 1
                        /\ \A i \in QueuedNotifies' : writesOwed' = 0 /\ \A j \in QueuedNotifies' : i = j
      BY ConnAssumption DEF OneOwed
    <2>1. /\ writesOwed <= 1
          /\ \A i \in QueuedNotifies : writesOwed = 0 /\ \A j \in QueuedNotifies : i = j
      BY DEF OwedInv, OneOwed
    <2>2. ASSUME NEW i \in QueuedNotifies'
          PROVE  writesOwed' = 0 /\ \A j \in QueuedNotifies' : i = j
      <3>1. i + 1 \in QueuedNotifies /\ i \in Int
        BY <1>1
      <3>2. writesOwed = 0 /\ \A j \in QueuedNotifies : i + 1 = j
        BY <2>1, <3>1
      <3>3. ASSUME NEW j \in QueuedNotifies' PROVE i = j
        <4>1. j + 1 \in QueuedNotifies /\ j \in Int
          BY <1>1
        <4> QED BY <3>1, <3>2, <4>1
      <3> QED BY <1>1, <1>2, <3>2, <3>3
    <2> QED BY <1>1, <1>2, <2>1, <2>2
  <1>3. CASE op = "write" /\ Head(calls).notify /\ writesOwed' = writesOwed + 1
    <2> SUFFICES ASSUME MaxOwed <= 1
                 PROVE  writesOwed' <= 1 /\ QueuedNotifies' = {}
      BY ConnAssumption DEF OneOwed
    <2>1. 1 \in QueuedNotifies /\ writesOwed = 0 /\ \A j \in QueuedNotifies : 1 = j
      BY <1>1, <1>3 DEF OwedInv, OneOwed
    <2>2. ASSUME NEW i \in QueuedNotifies' PROVE FALSE
      <3>1. i + 1 \in QueuedNotifies /\ i \in 1 .. Len(calls')
        BY <1>1
      <3>2. Len(calls') \in Int
        BY HandleFacts
      <3> QED BY <2>1, <3>1, <3>2
    <2> QED BY <1>3, <2>1, <2>2
  <1> QED BY <1>2, <1>3

LEMMA PostFacts ==
  ASSUME OwedInv, NEW m \in Call, Post(m)
  PROVE  /\ d.conn = "attached" /\ ~d.freed /\ ~d.deleteAfterWriting
         /\ Len(calls) \in Nat /\ Len(calls') = Len(calls) + 1 /\ calls'[Len(calls) + 1] = m
         /\ \A i \in 1 .. Len(calls) : calls'[i] = calls[i] /\ calls[i].op # "delete"
         /\ QueuedNotifies' = IF m.op = "write" /\ m.notify
                                THEN QueuedNotifies \cup {Len(calls) + 1} ELSE QueuedNotifies
  <1>1. d.conn = "attached" /\ calls' = Append(calls, m) /\ calls \in Seq(Call)
    BY DEF Post, OwedInv, IInv, TypeOK
  <1>2. /\ Len(calls) \in Nat /\ Len(calls') = Len(calls) + 1 /\ calls'[Len(calls) + 1] = m
        /\ \A i \in 1 .. Len(calls) : calls'[i] = calls[i]
    BY <1>1
  <1>3. /\ ~d.freed /\ ~d.deleteAfterWriting
        /\ \A i \in 1 .. Len(calls) : calls[i].op # "delete"
    BY <1>1 DEF OwedInv, Kept, KeptCalls
  <1>4. QueuedNotifies' = IF m.op = "write" /\ m.notify
                            THEN QueuedNotifies \cup {Len(calls) + 1} ELSE QueuedNotifies
    BY <1>2 DEF QueuedNotifies, QueuedWrites
  <1> QED BY <1>1, <1>2, <1>3, <1>4

----------------------------------------
(* The invariant *)

LEMMA OwedBegins == Init => OwedInv
  <1> SUFFICES ASSUME Init PROVE OwedInv
    OBVIOUS
  <1>1. Len(calls) = 0 /\ QueuedNotifies = {}
    BY DEF Init, QueuedNotifies, QueuedWrites
  <1>2. Promised(d, readDue, Owed)
    BY DEF Init, Promised, Told, Owed
  <1>3. Silent(d) /\ Kept(d, stopped)
    BY DEF Init, Silent, NoCallbacks, Kept
  <1>4. SilentCalls /\ KeptCalls /\ OneOwed
    BY <1>1 DEF Init, SilentCalls, KeptCalls, OneOwed
  <1> QED BY <1>2, <1>3, <1>4, InitInv DEF OwedInv

LEMMA OwedUser == OwedInv /\ User => OwedInv'
  <1> SUFFICES ASSUME OwedInv, User PROVE OwedInv'
    OBVIOUS
  <1>1. IInv' /\ d \in ConnData
    BY UserInv DEF OwedInv, IInv, TypeOK
  <1>2. CASE Attach
    <2>1. PICK some \in BOOLEAN : d' = [d EXCEPT !.conn = "attached", !.notifySome = some]
      BY <1>2 DEF Attach
    <2>2. d.conn = "none" /\ UNCHANGED <<calls, unsent, stopped, readDue, writesOwed>>
      BY <1>2 DEF Attach, ledger
    <2>3. /\ d'.conn = "attached" /\ d'.freed = d.freed /\ d'.deleteAfterWriting = d.deleteAfterWriting
          /\ Promised(d', readDue, Owed) <=> Promised(d, readDue, Owed)
      BY <1>1, <2>1 DEF ConnData, Promised, Told
    <2>4. Promised(d, readDue, Owed)' /\ Silent(d)' /\ Kept(d, stopped)'
      BY <2>2, <2>3 DEF OwedInv, Silent, Kept, Owed
    <2> QED BY <1>1, <2>2, <2>3, <2>4
            DEF OwedInv, SilentCalls, Kept, KeptCalls, Deleting, OneOwed, QueuedNotifies, QueuedWrites
  <1>3. CASE Detach
    <2>1. /\ d' = [d EXCEPT !.conn = "none"] /\ d.conn = "attached" /\ NothingPending
          /\ UNCHANGED <<calls, unsent, stopped, readDue, writesOwed>>
      BY <1>3 DEF Detach, ledger
    <2>2. /\ d'.conn = "none" /\ d'.freed = d.freed /\ d'.deleteAfterWriting = d.deleteAfterWriting
          /\ d'.notifySome = d.notifySome /\ d'.writeActive = d.writeActive
          /\ Promised(d', readDue, Owed) <=> Promised(d, readDue, Owed)
          /\ NoCallbacks(d') <=> NoCallbacks(d)
      BY <1>1, <2>1 DEF ConnData, Promised, Told, NoCallbacks
    <2>3. Promised(d, readDue, Owed)' /\ Silent(d)' /\ Kept(d, stopped)'
      BY <2>1, <2>2 DEF OwedInv, Silent, Kept, Owed, NothingPending, NoCallbacks
    <2>4. SilentCalls'
      BY <2>1, <2>2 DEF SilentCalls, NothingPending, CallMayCallBack
    <2> QED BY <1>1, <2>1, <2>2, <2>3, <2>4
            DEF OwedInv, Kept, KeptCalls, Deleting, OneOwed, QueuedNotifies, QueuedWrites
  <1>4. ASSUME NEW m \in Call, Post(m), m.op # "delete", UNCHANGED <<d, stopped, readDue, writesOwed>>, OneOwed'
        PROVE  OwedInv'
    <2>1. /\ d.conn = "attached" /\ ~d.freed /\ ~d.deleteAfterWriting
          /\ Len(calls) \in Nat /\ Len(calls') = Len(calls) + 1 /\ calls'[Len(calls) + 1] = m
          /\ \A i \in 1 .. Len(calls) : calls'[i] = calls[i] /\ calls[i].op # "delete"
      BY <1>4, PostFacts
    <2>2. \A i \in 1 .. Len(calls') : calls'[i].op # "delete"
      BY <1>4, <2>1
    <2>3. Promised(d, readDue, Owed)' /\ Silent(d)' /\ Kept(d, stopped)'
      BY <1>4 DEF OwedInv, Owed
    <2>4. SilentCalls' /\ KeptCalls'
      BY <1>4, <2>1, <2>2 DEF SilentCalls, KeptCalls
    <2> QED BY <1>1, <1>4, <2>3, <2>4 DEF OwedInv
  <1>5. ASSUME NEW m \in Call, Post(m), ~(m.op = "write" /\ m.notify), UNCHANGED writesOwed PROVE OneOwed'
    <2>1. QueuedNotifies' = QueuedNotifies
      BY <1>5, PostFacts
    <2> QED BY <1>5, <2>1 DEF OwedInv, OneOwed
  <1>6. CASE UserRead
    <2> DEFINE m == [op |-> "read"]
    <2>1. m \in Call /\ m.op = "read" /\ Post(m)
      BY <1>6 DEF UserRead, Call
    <2> HIDE DEF m
    <2>2. UNCHANGED <<d, stopped, readDue, writesOwed>>
      BY <1>6 DEF UserRead, ledger
    <2> QED BY <1>4, <1>5, <2>1, <2>2
  <1>7. CASE UserClose
    <2>1. PICK type \in CloseType \ {NotClosed}, notify \in BOOLEAN :
            Post([op |-> "close", type |-> type, notify |-> notify])
      BY <1>7 DEF UserClose
    <2> DEFINE m == [op |-> "close", type |-> type, notify |-> notify]
    <2>2. m \in Call /\ m.op = "close" /\ Post(m)
      BY <2>1 DEF Call
    <2> HIDE DEF m
    <2>3. UNCHANGED <<d, stopped, readDue, writesOwed>>
      BY <1>7 DEF UserClose, ledger
    <2> QED BY <1>4, <1>5, <2>2, <2>3
  <1>8. CASE UserWrite
    <2>1. PICK n \in 0 .. MaxWrite, notify \in BOOLEAN :
            /\ notify => writesOwed + Cardinality(QueuedNotifies) < MaxOwed
            /\ Post([op |-> "write", n |-> n, notify |-> notify])
      BY <1>8 DEF UserWrite
    <2> DEFINE m == [op |-> "write", n |-> n, notify |-> notify]
    <2>2. m \in Call /\ m.op = "write" /\ m.notify = notify /\ Post(m)
      BY <2>1, ConnAssumption DEF Call
    <2> HIDE DEF m
    <2>3. UNCHANGED <<d, stopped, readDue, writesOwed>>
      BY <1>8 DEF UserWrite, ledger
    <2>4. CASE ~notify
      BY <1>4, <1>5, <2>2, <2>3, <2>4
    <2>5. CASE notify
      <3>1. IsFiniteSet(QueuedNotifies) /\ Cardinality(QueuedNotifies) \in Nat
            /\ (Cardinality(QueuedNotifies) = 0 <=> QueuedNotifies = {})
        <4>1. Len(calls) \in Nat
          BY <2>2, PostFacts
        <4>2. IsFiniteSet(1 .. Len(calls))
          BY <4>1, FS_Interval
        <4>3. IsFiniteSet(QueuedNotifies)
          BY <4>2, FS_Subset DEF QueuedNotifies, QueuedWrites
        <4> QED BY <4>3, FS_CardinalityType, FS_EmptySet
      <3>2. MaxOwed <= 1 => QueuedNotifies = {} /\ writesOwed = 0
        BY <2>1, <2>5, <3>1, ConnAssumption DEF OwedInv, IInv, TypeOK
      <3>3. QueuedNotifies' = QueuedNotifies \cup {Len(calls) + 1}
        BY <2>2, <2>5, PostFacts
      <3>4. OneOwed'
        BY <2>3, <3>2, <3>3 DEF OneOwed
      <3> QED BY <1>4, <2>2, <2>3, <3>4
    <2> QED BY <2>4, <2>5
  <1>9. CASE Destroy
    <2> DEFINE m == [op |-> "delete"]
    <2>1. m \in Call /\ m.op = "delete" /\ Post(m)
      BY <1>9 DEF Destroy, Call
    <2> HIDE DEF m
    <2>2. /\ d' = [d EXCEPT !.conn = "gone"] /\ NothingPending
          /\ UNCHANGED <<stopped, readDue, writesOwed>>
      BY <1>9 DEF Destroy, ledger
    <2>3. /\ d'.conn = "gone" /\ d'.freed = d.freed /\ d'.deleteAfterWriting = d.deleteAfterWriting
          /\ d'.notifySome = d.notifySome /\ d'.writeActive = d.writeActive
          /\ Promised(d', readDue, Owed) <=> Promised(d, readDue, Owed)
          /\ NoCallbacks(d') <=> NoCallbacks(d)
      BY <1>1, <2>2 DEF ConnData, Promised, Told, NoCallbacks
    <2>4. /\ d.conn = "attached" /\ ~d.freed /\ ~d.deleteAfterWriting
          /\ Len(calls) \in Nat /\ Len(calls') = Len(calls) + 1 /\ calls'[Len(calls) + 1] = m
          /\ \A i \in 1 .. Len(calls) : calls'[i] = calls[i] /\ calls[i].op # "delete"
      BY <2>1, PostFacts
    <2>5. Promised(d, readDue, Owed)' /\ Silent(d)' /\ Kept(d, stopped)'
      BY <2>2, <2>3, <2>4 DEF OwedInv, Silent, Kept, Owed, NothingPending, NoCallbacks
    <2>6. SilentCalls'
      BY <2>1, <2>2, <2>3, <2>4 DEF SilentCalls, NothingPending, CallMayCallBack
    <2>7. KeptCalls'
      <3>1. Len(calls) + 1 \in 1 .. Len(calls')
        BY <2>4
      <3>2. Deleting'
        BY <2>1, <2>4, <3>1 DEF Deleting
      <3> QED BY <2>3, <2>4, <3>2 DEF KeptCalls
    <2> QED BY <1>1, <1>5, <2>1, <2>2, <2>5, <2>6, <2>7 DEF OwedInv
  <1> QED BY <1>2, <1>3, <1>6, <1>7, <1>8, <1>9 DEF User

(* A record that is neither freed nor waits to be, and is closed. *)
LEMMA OwedClose ==
  ASSUME OwedInv, ~d.freed, ~d.deleteAfterWriting,
         NEW type \in CloseType, NEW notify \in BOOLEAN, d.conn = "attached" \/ ~notify,
         d' = CloseConn(d, type, notify), UNCHANGED ledger
  PROVE  (Promised(d, readDue, Owed) /\ Silent(d) /\ Kept(d, stopped))' /\ Stays(d, d')
  <1>1. d \in ConnData /\ readDue \in BOOLEAN /\ Owed \in BOOLEAN
    BY DEF OwedInv, IInv, TypeOK, Owed
  <1>2. /\ Promised(d', readDue, Owed) /\ Silent(d')
        /\ d'.conn = d.conn /\ d'.deleteAfterWriting = d.deleteAfterWriting
        /\ d'.freed = d.freed /\ (d'.notifySome => d.notifySome)
        /\ d.closeType \subseteq d'.closeType
    BY <1>1, CloseConnPromised DEF OwedInv
  <1>3. readDue' = readDue /\ (Owed' <=> Owed)
    BY DEF ledger, Owed
  <1> QED BY <1>1, <1>2, <1>3 DEF Kept, Stays, Promised, Told

----------------------------------------
(* What the calls that the network thread takes leave of the promises. *)

LEMMA ReadTells ==
  ASSUME IInv, StartReadWatcher, d.conn = "attached", ~d.freed, ~d.deleteAfterWriting,
         NEW due \in BOOLEAN, NEW owed \in BOOLEAN, Promised(d, due, owed)
  PROVE  /\ Promised(d', TRUE, owed) /\ Silent(d') /\ Kept(d', stopped) /\ Stays(d, d')
         /\ d'.freed = d.freed
  <1>1. d \in ConnData
    BY DEF IInv, TypeOK
  <1>2. /\ Promised(d', TRUE, owed)
        /\ d'.conn = d.conn /\ d'.deleteAfterWriting = d.deleteAfterWriting
        /\ d'.freed = d.freed /\ d'.notifySome = d.notifySome /\ d'.closeType = d.closeType
    <2>1. CASE R \in d.closeType
      <3>1. d' = CallClosed(d)
        BY <2>1 DEF StartReadWatcher
      <3>2. CASE d.lastInformed = d.closeType
        BY <2>1, <3>1, <3>2 DEF CallClosed, Promised, Told
      <3>3. CASE d.lastInformed # d.closeType
        <4> DEFINE n == d.laterClosed + 1
        <4>1. n \in Nat /\ n > 0
          BY <1>1 DEF ConnData
        <4>2. d' = [d EXCEPT !.lastInformed = d.closeType, !.laterClosed = n]
          BY <3>1, <3>3 DEF CallClosed
        <4> HIDE DEF n
        <4>3. /\ d'.conn = d.conn /\ d'.deleteAfterWriting = d.deleteAfterWriting
              /\ d'.freed = d.freed /\ d'.notifySome = d.notifySome
              /\ d'.lastInformed = d.closeType /\ d'.laterClosed = n /\ d'.closeType = d.closeType
              /\ d'.readActive = d.readActive /\ d'.writeActive = d.writeActive
              /\ d'.notifyWrite = d.notifyWrite /\ d'.laterFinished = d.laterFinished
          BY <1>1, <4>2 DEF ConnData
        <4> QED BY <2>1, <4>1, <4>3 DEF Promised, Told
      <3> QED BY <3>2, <3>3
    <2>2. CASE R \notin d.closeType
      <3>1. d' = [d EXCEPT !.readActive = TRUE]
        BY <2>2 DEF StartReadWatcher
      <3>2. /\ d'.conn = d.conn /\ d'.deleteAfterWriting = d.deleteAfterWriting
            /\ d'.freed = d.freed /\ d'.notifySome = d.notifySome
            /\ d'.lastInformed = d.lastInformed /\ d'.laterClosed = d.laterClosed
            /\ d'.closeType = d.closeType
            /\ d'.readActive = TRUE /\ d'.writeActive = d.writeActive
            /\ d'.notifyWrite = d.notifyWrite /\ d'.laterFinished = d.laterFinished
        BY <1>1, <3>1 DEF ConnData
      <3> QED BY <2>2, <3>2 DEF Promised, Told
    <2> QED BY <2>1, <2>2
  <1> QED BY <1>2 DEF Stays, Silent, Kept

LEMMA WriteTells ==
  ASSUME IInv, WriteToSocket, ~d.freed, ~d.deleteAfterWriting,
         d.conn # "attached" => ~CallMayCallBack(Head(calls)),
         NEW due \in BOOLEAN, NEW owed \in BOOLEAN, Promised(d, due, owed), Silent(d)
  PROVE  /\ IF Head(calls).notify THEN Promised(d', due, TRUE) ELSE Promised(d', due, owed)
         /\ Silent(d') /\ Kept(d', stopped) /\ Stays(d, d')
  <1> DEFINE m   == Head(calls)
             buf == d.writeBuf + m.n
             o   == IF m.notify THEN TRUE ELSE owed
  <1>1. Handle("write") /\ d \in ConnData /\ m \in Call /\ m.op = "write"
    BY HandleType DEF WriteToSocket, IInv, TypeOK
  <1>2. ~d.freed /\ ~d.deleteAfterWriting
    OBVIOUS
  <1>3. m.n \in Nat /\ m.notify \in BOOLEAN
    BY <1>1, CallFields
  <1>4. d.conn # "attached" => ~m.notify /\ ~d.notifySome
    BY <1>1 DEF CallMayCallBack
  <1>5. /\ d.writeBuf \in Nat /\ buf \in Nat /\ d.laterFinished \in Nat /\ d.laterClosed \in Nat
        /\ d.notifyWrite \in BOOLEAN /\ d.writeActive \in BOOLEAN
    BY <1>1, <1>3 DEF ConnData
  <1>6. Told(d, due, owed) /\ o \in BOOLEAN /\ (o => owed \/ m.notify)
    BY <1>3 DEF Promised
  <1> HIDE DEF o
  <1>7. Promised(d', due, o) /\ Silent(d') /\ Kept(d', stopped) /\ Stays(d, d')
    <2>1. CASE buf = 0
      <3> DEFINE n == d.laterFinished + (IF m.notify THEN 1 ELSE 0)
      <3>1. n \in Nat /\ (m.notify => n > 0) /\ (~m.notify => n = d.laterFinished)
            /\ n >= d.laterFinished
        BY <1>3, <1>5
      <3>2. d' = [d EXCEPT !.laterFinished = n]
        BY <1>5, <2>1 DEF WriteToSocket
      <3> HIDE DEF n, m
      <3>3. /\ d'.conn = d.conn /\ d'.deleteAfterWriting = d.deleteAfterWriting
            /\ d'.freed = d.freed /\ d'.notifySome = d.notifySome
            /\ d'.lastInformed = d.lastInformed /\ d'.laterClosed = d.laterClosed
            /\ d'.closeType = d.closeType /\ d'.laterSome = d.laterSome
            /\ d'.readActive = d.readActive /\ d'.writeActive = d.writeActive
            /\ d'.notifyWrite = d.notifyWrite /\ d'.laterFinished = n
        BY <1>1, <3>1, <3>2 DEF ConnData
      <3>4. Promised(d', due, o) /\ Silent(d')
        BY <1>4, <1>5, <1>6, <3>1, <3>3 DEF Promised, Told, Silent, NoCallbacks
      <3> QED BY <1>2, <3>3, <3>4 DEF Kept, Stays
    <2>2. CASE buf > 0 /\ W \in d.closeType
      <3> DEFINE z == [d EXCEPT !.writeBuf = 0]
                 l == IF m.notify THEN d.closeType ELSE d.lastInformed
                 n == IF m.notify /\ d.lastInformed # d.closeType THEN d.laterClosed + 1 ELSE d.laterClosed
      <3>1. d' = (IF m.notify THEN CallClosed(z) ELSE z)
        BY <1>5, <2>2 DEF WriteToSocket
      <3>2. /\ z.conn = d.conn /\ z.deleteAfterWriting = d.deleteAfterWriting
            /\ z.freed = d.freed /\ z.notifySome = d.notifySome
            /\ z.lastInformed = d.lastInformed /\ z.laterClosed = d.laterClosed
            /\ z.closeType = d.closeType /\ z.laterSome = d.laterSome
            /\ z.readActive = d.readActive /\ z.writeActive = d.writeActive
            /\ z.notifyWrite = d.notifyWrite /\ z.laterFinished = d.laterFinished
            /\ z \in ConnData
        BY <1>1 DEF ConnData
      <3>3. n \in Nat /\ n >= d.laterClosed /\ (~m.notify => n = d.laterClosed)
            /\ l \subseteq d.closeType /\ (m.notify => W \in l) /\ d.lastInformed \subseteq l
        BY <1>3, <1>5, <2>2 DEF Promised, Told
      <3> HIDE DEF z
      <3>4. /\ d'.conn = d.conn /\ d'.deleteAfterWriting = d.deleteAfterWriting
            /\ d'.freed = d.freed /\ d'.notifySome = d.notifySome
            /\ d'.lastInformed = l /\ d'.laterClosed = n
            /\ d'.closeType = d.closeType /\ d'.laterSome = d.laterSome
            /\ d'.readActive = d.readActive /\ d'.writeActive = d.writeActive
            /\ d'.notifyWrite = d.notifyWrite /\ d'.laterFinished = d.laterFinished
        <4> HIDE DEF m
        <4>1. CASE m.notify /\ d.lastInformed # d.closeType
          <5> DEFINE k == d.laterClosed + 1
          <5>1. k \in Nat
            BY <1>5
          <5>2. d' = [z EXCEPT !.lastInformed = d.closeType, !.laterClosed = k]
            BY <3>1, <3>2, <4>1 DEF CallClosed
          <5>3. l = d.closeType /\ n = k
            BY <4>1
          <5> HIDE DEF k, l, n
          <5> QED BY <3>2, <5>1, <5>2, <5>3 DEF ConnData
        <4>2. CASE ~(m.notify /\ d.lastInformed # d.closeType)
          <5>1. d' = z /\ l = d.lastInformed /\ n = d.laterClosed
            BY <1>3, <3>1, <3>2, <4>2 DEF CallClosed
          <5> HIDE DEF l, n
          <5> QED BY <3>2, <5>1
        <4> QED BY <4>1, <4>2
      <3> HIDE DEF l, n, m
      <3>5. Promised(d', due, o) /\ Silent(d')
        BY <1>4, <1>5, <1>6, <2>2, <3>3, <3>4 DEF Promised, Told, Silent, NoCallbacks
      <3> QED BY <1>2, <3>4, <3>5 DEF Kept, Stays
    <2>3. CASE buf > 0 /\ W \notin d.closeType
      <3> DEFINE f == IF m.notify THEN TRUE ELSE d.notifyWrite
                 c == [d EXCEPT !.writeBuf = buf, !.notifyWrite = d.notifyWrite \/ m.notify]
      <3>1. c = [d EXCEPT !.writeBuf = buf, !.notifyWrite = f] /\ f \in BOOLEAN
        BY <1>3, <1>5
      <3>2. /\ c \in ConnData /\ c.writeBuf = buf
            /\ c.conn = d.conn /\ c.deleteAfterWriting = d.deleteAfterWriting
            /\ c.freed = d.freed /\ c.notifySome = d.notifySome
            /\ c.lastInformed = d.lastInformed /\ c.laterClosed = d.laterClosed
            /\ c.closeType = d.closeType /\ c.laterSome = d.laterSome
            /\ c.readActive = d.readActive /\ c.writeActive = d.writeActive
            /\ c.notifyWrite = f /\ c.laterFinished = d.laterFinished
        <4> HIDE DEF f, c, buf
        <4> QED BY <1>1, <1>5, <3>1 DEF ConnData
      <3>3. Told(c, due, o)
        <4> HIDE DEF c, m
        <4> QED BY <1>3, <1>6, <3>1, <3>2 DEF Told
      <3>4. Promised(d', due, o) /\ Silent(d') /\ Kept(d', stopped) /\ Stays(c, d')
        <4>1. CASE d.writeActive
          <5>1. d' = c
            BY <2>3, <3>2, <4>1 DEF WriteToSocket
          <5> HIDE DEF c, m
          <5> QED BY <1>2, <1>4, <3>1, <3>2, <3>3, <4>1, <5>1
                  DEF Promised, Silent, NoCallbacks, Kept, Stays
        <4>2. CASE ~d.writeActive
          <5>1. PICK s \in SendResults(c) : d' = Writeable(c, s)
            BY <2>3, <3>2, <4>2 DEF WriteToSocket
          <5>2. /\ W \notin c.closeType /\ ~c.freed /\ c.writeBuf > 0
                /\ c.conn # "attached" => NoCallbacks(c) /\ ~c.notifySome
                /\ ~c.deleteAfterWriting
            <6> HIDE DEF c
            <6> QED BY <1>2, <1>4, <2>3, <3>1, <3>2 DEF Silent, NoCallbacks
          <5> HIDE DEF c
          <5> QED BY <1>1, <1>6, <3>2, <3>3, <5>1, <5>2, WriteableTells
        <4> QED BY <1>5, <4>1, <4>2
      <3> HIDE DEF c
      <3> QED BY <3>2, <3>3, <3>4 DEF Promised, Told, Stays
    <2> QED BY <1>5, <2>1, <2>2, <2>3
  <1> QED BY <1>7 DEF o

LEMMA DeleteTells ==
  ASSUME IInv, DeleteOnFinish, d.conn = "gone", ~d.freed, ~d.deleteAfterWriting,
         NEW due \in BOOLEAN, NEW owed \in BOOLEAN, Promised(d, due, owed), Silent(d)
  PROVE  /\ Promised(d', due, owed) /\ Silent(d') /\ Kept(d', stopped) /\ d'.conn = "gone"
         /\ d'.freed \/ d'.deleteAfterWriting
         /\ d.closeType \subseteq d'.closeType /\ (d'.notifySome => d.notifySome)
  <1>1. d \in ConnData
    BY DEF IInv, TypeOK
  <1>2. d.conn = "gone" /\ ~d.freed /\ ~d.deleteAfterWriting
    OBVIOUS
  <1>3. ~d.readActive /\ ~d.notifyWrite /\ (d.notifySome => ~d.writeActive) /\ d.writeActive \in BOOLEAN
        /\ Promised(d, due, owed) /\ Silent(d)
    BY <1>1, <1>2 DEF Silent, NoCallbacks, ConnData
  <1>4. ReadClosed \in CloseType /\ ReadWriteClosed \in CloseType
    BY DEF CloseType
  <1>5. Promised(d', due, owed) /\ Silent(d') /\ Kept(d', stopped) /\ d'.conn = "gone"
        /\ (d'.freed \/ d'.deleteAfterWriting)
        /\ d.closeType \subseteq d'.closeType /\ (d'.notifySome => d.notifySome)
    <2> DEFINE no == FALSE
    <2>1. no \in BOOLEAN /\ ~no
      OBVIOUS
    <2>2. CASE d.writeActive
      <3> DEFINE e == CloseConn(d, ReadClosed, no)
      <3>1. d' = [e EXCEPT !.notifySome = FALSE, !.closeAfterWriting = TRUE, !.deleteAfterWriting = TRUE]
        BY <2>2 DEF DeleteOnFinish
      <3> HIDE DEF no
      <3>2. /\ e \in ConnData /\ Promised(e, due, owed) /\ Silent(e)
            /\ e.conn = d.conn /\ e.freed = d.freed /\ d.closeType \subseteq e.closeType
        BY <1>1, <1>3, <1>4, <2>1, CloseConnPromised, CloseConnTells DEF Promised, Told
      <3>3. e.writeActive
        <4>1. /\ e.closeType \subseteq d.closeType \cup ReadClosed
              /\ W \notin e.closeType \ d.closeType => e.writeActive = d.writeActive
          BY <1>1, <1>3, <1>4, <2>1, CloseConnTells DEF Promised, Told
        <4>2. W \notin ReadClosed
          BY DEF W, R, ReadClosed
        <4> QED BY <2>2, <4>1, <4>2
      <3> HIDE DEF e
      <3>4. /\ d'.conn = e.conn /\ d'.deleteAfterWriting = TRUE /\ d'.freed = e.freed
            /\ d'.notifySome = FALSE /\ d'.closeAfterWriting = TRUE
            /\ d'.lastInformed = e.lastInformed /\ d'.laterClosed = e.laterClosed
            /\ d'.closeType = e.closeType /\ d'.laterSome = e.laterSome
            /\ d'.readActive = e.readActive /\ d'.writeActive = e.writeActive
            /\ d'.notifyWrite = e.notifyWrite /\ d'.laterFinished = e.laterFinished
        BY <3>1, <3>2 DEF ConnData
      <3> QED BY <1>2, <3>2, <3>3, <3>4 DEF Promised, Told, Silent, NoCallbacks, Kept
    <2>3. CASE ~d.writeActive
      <3> DEFINE e == CloseConn(d, ReadWriteClosed, no)
      <3>1. d' = [e EXCEPT !.freed = TRUE]
        BY <2>3 DEF DeleteOnFinish
      <3> HIDE DEF no
      <3>2. /\ e \in ConnData /\ Promised(e, due, owed) /\ Silent(e)
            /\ e.conn = d.conn /\ e.deleteAfterWriting = d.deleteAfterWriting
            /\ d.closeType \subseteq e.closeType /\ (e.notifySome => d.notifySome)
        BY <1>1, <1>3, <1>4, <2>1, CloseConnPromised, CloseConnTells DEF Promised, Told
      <3>3. ~e.writeActive /\ ~e.readActive
        BY <1>1, <1>3, <1>4, <2>1, <2>3, CloseConnTells DEF Promised, Told
      <3> HIDE DEF e
      <3>4. /\ d'.conn = e.conn /\ d'.deleteAfterWriting = e.deleteAfterWriting /\ d'.freed = TRUE
            /\ d'.notifySome = e.notifySome
            /\ d'.lastInformed = e.lastInformed /\ d'.laterClosed = e.laterClosed
            /\ d'.closeType = e.closeType /\ d'.laterSome = e.laterSome
            /\ d'.readActive = e.readActive /\ d'.writeActive = e.writeActive
            /\ d'.notifyWrite = e.notifyWrite /\ d'.laterFinished = e.laterFinished
        BY <3>1, <3>2 DEF ConnData
      <3> QED BY <1>2, <3>2, <3>3, <3>4 DEF Promised, Told, Silent, NoCallbacks, Kept
    <2> QED BY <1>3, <2>2, <2>3
  <1> QED BY <1>5

----------------------------------------
LEMMA OwedRead == OwedInv /\ StartReadWatcher => OwedInv'
  <1> SUFFICES ASSUME OwedInv, StartReadWatcher PROVE OwedInv'
    OBVIOUS
  <1>1. /\ Handle("read") /\ readDue' = TRUE /\ UNCHANGED <<stopped, writesOwed>>
        /\ IInv /\ IInv' /\ readDue \in BOOLEAN /\ Owed \in BOOLEAN
    BY ServeInv DEF StartReadWatcher, OwedInv, IInv, TypeOK, Serve, Owed
  <1>2. /\ d.conn # "attached" => ~CallMayCallBack(Head(calls))
        /\ Head(calls).op = "read" /\ ~d.freed /\ ~d.deleteAfterWriting
    BY <1>1, HandleFacts
  <1>3. d.conn = "attached"
    BY <1>2 DEF CallMayCallBack
  <1>4. Promised(d', TRUE, Owed) /\ Silent(d') /\ Kept(d', stopped) /\ Stays(d, d')
    BY <1>1, <1>2, <1>3, ReadTells DEF OwedInv
  <1>5. SilentCalls' /\ KeptCalls'
    BY <1>1, <1>4, QueueKept
  <1>6. (Promised(d, readDue, Owed) /\ Silent(d) /\ Kept(d, stopped))'
    BY <1>1, <1>4 DEF Owed
  <1>7. OneOwed'
    BY <1>1, HandledOnce DEF OwedInv, IInv, TypeOK
  <1> QED BY <1>1, <1>5, <1>6, <1>7 DEF OwedInv

LEMMA OwedWrite == OwedInv /\ WriteToSocket => OwedInv'
  <1> SUFFICES ASSUME OwedInv, WriteToSocket PROVE OwedInv'
    OBVIOUS
  <1> DEFINE m == Head(calls)
  <1>1. /\ Handle("write") /\ UNCHANGED <<stopped, readDue>>
        /\ writesOwed' = writesOwed + (IF m.notify THEN 1 ELSE 0)
        /\ IInv /\ IInv' /\ readDue \in BOOLEAN /\ writesOwed \in Nat /\ Owed \in BOOLEAN
    BY ServeInv DEF WriteToSocket, OwedInv, IInv, TypeOK, Serve, Owed
  <1>2. /\ d.conn # "attached" => ~CallMayCallBack(m)
        /\ m \in Call /\ m.op = "write" /\ ~d.freed /\ ~d.deleteAfterWriting
    BY <1>1, HandleFacts
  <1>3. m.n \in Nat /\ m.notify \in BOOLEAN
    BY <1>2, CallFields
  <1>4. /\ IF m.notify THEN Promised(d', readDue, TRUE) ELSE Promised(d', readDue, Owed)
        /\ Silent(d') /\ Kept(d', stopped) /\ Stays(d, d')
    BY <1>1, <1>2, WriteTells DEF OwedInv
  <1>5. (Promised(d, readDue, Owed) /\ Silent(d) /\ Kept(d, stopped))'
    BY <1>1, <1>3, <1>4 DEF Owed, Promised, Told
  <1>6. SilentCalls' /\ KeptCalls'
    BY <1>1, <1>4, QueueKept
  <1>7. OneOwed'
    <2>1. /\ writesOwed' \in Nat
          /\ writesOwed' <= writesOwed \/ (Head(calls).notify /\ writesOwed' = writesOwed + 1)
      BY <1>1, <1>3
    <2> QED BY <1>1, <2>1, HandledOnce
  <1> QED BY <1>1, <1>5, <1>6, <1>7 DEF OwedInv

LEMMA OwedCloseCall == OwedInv /\ CloseCall => OwedInv'
  <1> SUFFICES ASSUME OwedInv, CloseCall PROVE OwedInv'
    OBVIOUS
  <1> DEFINE m == Head(calls)
  <1>1. /\ Handle("close") /\ UNCHANGED <<stopped, ledger>> /\ d' = CloseConn(d, m.type, m.notify)
        /\ IInv' /\ writesOwed' = writesOwed /\ writesOwed \in Nat
    BY ServeInv DEF CloseCall, OwedInv, IInv, TypeOK, Serve, ledger
  <1>2. /\ d.conn # "attached" => ~CallMayCallBack(m)
        /\ m \in Call /\ m.op = "close" /\ ~d.freed /\ ~d.deleteAfterWriting
    BY <1>1, HandleFacts
  <1>3. m.type \in CloseType /\ m.notify \in BOOLEAN /\ (d.conn = "attached" \/ ~m.notify)
    BY <1>2, CallFields DEF CallMayCallBack
  <1> HIDE DEF m
  <1>4. (Promised(d, readDue, Owed) /\ Silent(d) /\ Kept(d, stopped))' /\ Stays(d, d')
    BY <1>1, <1>2, <1>3, OwedClose
  <1>5. SilentCalls' /\ KeptCalls'
    BY <1>1, <1>4, QueueKept
  <1>6. OneOwed'
    BY <1>1, HandledOnce
  <1> QED BY <1>1, <1>4, <1>5, <1>6 DEF OwedInv

LEMMA OwedDelete == OwedInv /\ DeleteOnFinish => OwedInv'
  <1> SUFFICES ASSUME OwedInv, DeleteOnFinish PROVE OwedInv'
    OBVIOUS
  <1>1. /\ Handle("delete") /\ UNCHANGED <<stopped, ledger>>
        /\ IInv' /\ writesOwed' = writesOwed /\ writesOwed \in Nat /\ readDue' = readDue
        /\ IInv /\ readDue \in BOOLEAN /\ Owed \in BOOLEAN /\ (Owed' <=> Owed)
    BY ServeInv DEF DeleteOnFinish, OwedInv, IInv, TypeOK, Serve, ledger, Owed
  <1>2. d.conn = "gone" /\ calls' = <<>> /\ ~d.freed /\ ~d.deleteAfterWriting
    <2>1. /\ Len(calls) \in Nat \ {0} /\ Len(calls') = Len(calls) - 1 /\ calls[1].op = "delete"
          /\ ~d.freed /\ ~d.deleteAfterWriting
      BY <1>1, HandleFacts
    <2>2. 1 \in 1 .. Len(calls)
      BY <2>1
    <2>3. 1 = Len(calls) /\ d.conn = "gone"
      BY <2>1, <2>2 DEF OwedInv, KeptCalls
    <2>4. calls' \in Seq(Call)
      BY <1>1 DEF IInv, TypeOK
    <2>5. Len(calls') = 0
      <3>1. Len(calls') = Len(calls) - 1 /\ Len(calls) = 1
        BY <2>1, <2>3
      <3> QED BY <3>1
    <2> QED BY <2>1, <2>3, <2>4, <2>5, EmptySeq
  <1>5. Promised(d', readDue, Owed) /\ Silent(d') /\ Kept(d', stopped) /\ d'.conn = "gone"
        /\ (d'.freed \/ d'.deleteAfterWriting)
    BY <1>1, <1>2, DeleteTells DEF OwedInv
  <1>6. (Promised(d, readDue, Owed) /\ Silent(d) /\ Kept(d, stopped))'
    BY <1>1, <1>5 DEF Promised, Told
  <1>7. Len(calls') = 0
    BY <1>2
  <1>8. SilentCalls' /\ KeptCalls'
    BY <1>2, <1>5, <1>7 DEF SilentCalls, KeptCalls
  <1>9. OneOwed'
    BY <1>1, HandledOnce
  <1> QED BY <1>1, <1>6, <1>8, <1>9 DEF OwedInv

LEMMA OwedServe == OwedInv /\ Serve => OwedInv'
  BY OwedRead, OwedWrite, OwedCloseCall, OwedDelete DEF Serve

(* A step of the network thread that takes no call. *)
LEMMA OwedEvent ==
  ASSUME OwedInv, IInv', calls' = calls, OneOwed',
         (Promised(d, readDue, Owed) /\ Silent(d) /\ Kept(d, stopped))',
         Stays(d, d'), d.freed => d'.freed
  PROVE  OwedInv'
  <1>1. SilentCalls'
    BY DEF OwedInv, SilentCalls, CallMayCallBack, Stays
  <1>2. KeptCalls'
    BY DEF OwedInv, KeptCalls, Deleting, Stays
  <1> QED BY <1>1, <1>2 DEF OwedInv

LEMMA OwedSocket == OwedInv /\ Socket => OwedInv'
  <1> SUFFICES ASSUME OwedInv, Socket PROVE OwedInv'
    OBVIOUS
  <1>1. /\ IInv' /\ d \in ConnData /\ readDue \in BOOLEAN /\ Owed \in BOOLEAN
        /\ Promised(d, readDue, Owed) /\ Watched(d) /\ Sound(d, unsent)
    BY SocketInv DEF OwedInv, IInv, TypeOK, Owed
  <1>2. UNCHANGED <<calls, stopped, writesOwed>> /\ (Owed' <=> Owed)
    BY DEF Socket, ReadBytes, ReadEof, ReadError, SocketWriteable, SocketTakes, ledger, Owed
  <1>3. OneOwed'
    BY <1>2 DEF OwedInv, OneOwed, QueuedNotifies, QueuedWrites
  <1>4. ~d.freed
    BY DEF OwedInv, Kept, Socket, ReadBytes, ReadEof, ReadError, SocketWriteable, SocketTakes
  <1>5. (Promised(d, readDue, Owed) /\ Silent(d) /\ Kept(d, stopped))' /\ Stays(d, d')
    <2>1. d.readActive => d.conn = "attached" /\ ~d.deleteAfterWriting
      BY DEF OwedInv, Silent, NoCallbacks, Kept
    <2>2. CASE ReadBytes
      <3>1. d' = [d EXCEPT !.readActive = FALSE] /\ readDue' = FALSE /\ d.readActive
        BY <2>2 DEF ReadBytes
      <3>2. /\ d'.conn = d.conn /\ d'.deleteAfterWriting = d.deleteAfterWriting
            /\ d'.freed = d.freed /\ d'.notifySome = d.notifySome
            /\ d'.lastInformed = d.lastInformed /\ d'.laterClosed = d.laterClosed
            /\ d'.closeType = d.closeType
            /\ d'.readActive = FALSE /\ d'.writeActive = d.writeActive
            /\ d'.notifyWrite = d.notifyWrite /\ d'.laterFinished = d.laterFinished
        BY <1>1, <3>1 DEF ConnData
      <3>3. Promised(d', FALSE, Owed) /\ Silent(d') /\ Kept(d', stopped) /\ Stays(d, d')
        BY <1>1, <1>4, <2>1, <3>1, <3>2 DEF Promised, Told, Silent, Kept, Stays
      <3> QED BY <1>2, <3>1, <3>3 DEF Promised, Told
    <2>3. CASE ReadEof \/ ReadError
      <3> DEFINE no == FALSE
      <3>1. PICK type \in CloseType : d' = CloseConn(d, type, no)
        BY <2>3 DEF ReadEof, ReadError, CloseType
      <3>2. no \in BOOLEAN /\ d.conn = "attached" /\ ~d.deleteAfterWriting /\ UNCHANGED ledger
        BY <2>1, <2>3 DEF ReadEof, ReadError
      <3> HIDE DEF no
      <3> QED BY <1>4, <3>1, <3>2, OwedClose
    <2>4. CASE SocketWriteable
      <3>1. PICK s \in SendResults(d) : d' = Writeable(d, s) /\ d.writeActive /\ UNCHANGED ledger
        BY <2>4 DEF SocketWriteable, SocketTakes
      <3>2. /\ d.writeBuf > 0 /\ W \notin d.closeType /\ Told(d, readDue, Owed)
            /\ d.conn # "attached" => NoCallbacks(d) /\ ~d.notifySome
            /\ d.deleteAfterWriting => d.conn = "gone" /\ d.closeAfterWriting
        BY <1>1, <3>1 DEF Watched, Sound, OwedInv, Silent, Kept, Promised
      <3>3. Promised(d', readDue, Owed) /\ Silent(d') /\ Kept(d', stopped) /\ Stays(d, d')
        BY <1>1, <1>4, <3>1, <3>2, WriteableTells
      <3> QED BY <1>2, <3>1, <3>3 DEF ledger, Promised, Told
    <2> QED BY <2>2, <2>3, <2>4 DEF Socket
  <1> QED BY <1>1, <1>2, <1>3, <1>4, <1>5, OwedEvent

LEMMA OwedStop == OwedInv /\ Stop => OwedInv'
  <1> SUFFICES ASSUME OwedInv, Stop PROVE OwedInv'
    OBVIOUS
  <1> DEFINE no == FALSE
  <1>1. /\ IInv' /\ d \in ConnData /\ readDue \in BOOLEAN /\ Owed \in BOOLEAN
        /\ Promised(d, readDue, Owed) /\ no \in BOOLEAN /\ ~no /\ HardClosed \in CloseType
    BY StopInv DEF OwedInv, IInv, TypeOK, Owed, CloseType
  <1>2. /\ UNCHANGED <<calls, ledger>> /\ stopped' = TRUE /\ (Owed' <=> Owed) /\ ~d.freed
        /\ d' = CloseConn(d, HardClosed, no)
    BY DEF Stop, ledger, Owed
  <1> HIDE DEF no
  <1>3. OneOwed'
    BY <1>2 DEF OwedInv, OneOwed, QueuedNotifies, QueuedWrites, ledger
  <1>4. /\ Promised(d', readDue, Owed) /\ Silent(d')
        /\ d'.conn = d.conn /\ d'.deleteAfterWriting = d.deleteAfterWriting
        /\ d'.freed = d.freed /\ (d'.notifySome => d.notifySome)
        /\ d.closeType \subseteq d'.closeType
    BY <1>1, <1>2, CloseConnPromised DEF OwedInv
  <1>5. d.closeAfterWriting => d'.closeAfterWriting
    BY <1>1, <1>2, CloseConnTells DEF Promised, Told
  <1>6. (Promised(d, readDue, Owed) /\ Silent(d) /\ Kept(d, stopped))' /\ Stays(d, d')
    BY <1>2, <1>4, <1>5 DEF OwedInv, Kept, Stays, ledger, Promised, Told
  <1> QED BY <1>1, <1>2, <1>3, <1>6, OwedEvent

LEMMA OwedDeliver == OwedInv /\ Deliver => OwedInv'
  <1> SUFFICES ASSUME OwedInv, Deliver PROVE OwedInv'
    OBVIOUS
  <1>1. /\ IInv' /\ d \in ConnData /\ readDue \in BOOLEAN /\ writesOwed \in Nat
        /\ Promised(d, readDue, Owed) /\ Silent(d) /\ Kept(d, stopped)
        /\ d.laterClosed \in Nat /\ d.laterFinished \in Nat /\ d.laterSome \in Nat
    BY DeliverInv DEF OwedInv, IInv, TypeOK, ConnData
  <1>2. UNCHANGED <<calls, stopped>>
    BY DEF Deliver, DeliverClosed, DeliverFinished, DeliverSome
  <1>3. writesOwed' \in Nat /\ writesOwed' <= writesOwed
        /\ (writesOwed' = writesOwed \/ writesOwed' = 0 \/ writesOwed' = writesOwed - 1)
    <2>1. CASE DeliverClosed
      BY <1>1, <2>1 DEF DeliverClosed
    <2>2. CASE DeliverFinished
      BY <1>1, <2>2 DEF DeliverFinished
    <2>3. CASE DeliverSome
      BY <1>1, <2>3 DEF DeliverSome, ledger
    <2> QED BY <2>1, <2>2, <2>3 DEF Deliver
  <1>4. OneOwed' /\ (MaxOwed <= 1 => writesOwed <= 1)
    <2>1. QueuedNotifies' = QueuedNotifies
      BY <1>2 DEF QueuedNotifies, QueuedWrites
    <2>2. MaxOwed <= 1 =>
            /\ writesOwed <= 1
            /\ \A i \in QueuedNotifies : writesOwed = 0 /\ \A j \in QueuedNotifies : i = j
      BY DEF OwedInv, OneOwed
    <2> QED BY <1>1, <1>3, <2>1, <2>2 DEF OneOwed
  <1>5. /\ Stays(d, d') /\ d'.freed = d.freed
        /\ (Promised(d, readDue, Owed) /\ Silent(d) /\ Kept(d, stopped))'
    <2>1. CASE DeliverClosed
      <3> DEFINE n == d.laterClosed - 1
      <3>1. /\ d' = [d EXCEPT !.laterClosed = n] /\ n \in Nat /\ d.laterClosed # 0
            /\ readDue' = (readDue /\ R \notin d.closeType)
            /\ writesOwed' = IF W \in d.closeType THEN 0 ELSE writesOwed
        BY <1>1, <2>1 DEF DeliverClosed
      <3> HIDE DEF n
      <3>2. /\ d'.conn = d.conn /\ d'.deleteAfterWriting = d.deleteAfterWriting
            /\ d'.freed = d.freed /\ d'.notifySome = d.notifySome
            /\ d'.closeAfterWriting = d.closeAfterWriting
            /\ d'.lastInformed = d.lastInformed /\ d'.laterClosed = n
            /\ d'.closeType = d.closeType
            /\ d'.readActive = d.readActive /\ d'.writeActive = d.writeActive
            /\ d'.notifyWrite = d.notifyWrite /\ d'.laterFinished = d.laterFinished
        BY <1>1, <3>1 DEF ConnData
      <3>3. (readDue' => readDue /\ R \notin d.closeType) /\ (Owed' => Owed /\ W \notin d.closeType)
        <4>1. readDue' => readDue /\ R \notin d.closeType
          BY <3>1
        <4>2. W \in d.closeType => ~(writesOwed' > 0)
          BY <3>1
        <4>3. W \notin d.closeType => writesOwed' = writesOwed
          BY <3>1
        <4> QED BY <4>1, <4>2, <4>3 DEF Owed
      <3>4. d.readActive => readDue'
        BY <1>1, <3>1 DEF Promised, Told, OwedInv, IInv, Sound
      <3>5. Promised(d', readDue', Owed')
        BY <1>1, <3>2, <3>3, <3>4 DEF Promised, Told
      <3> QED BY <1>1, <1>2, <3>1, <3>2, <3>5 DEF Silent, NoCallbacks, Kept, Stays
    <2>2. CASE DeliverFinished
      <3> DEFINE n == d.laterFinished - 1
      <3>1. /\ d' = [d EXCEPT !.laterFinished = n] /\ n \in Nat /\ d.laterFinished # 0
            /\ readDue' = readDue
            /\ writesOwed' = IF writesOwed > 0 THEN writesOwed - 1 ELSE 0
        BY <1>1, <2>2 DEF DeliverFinished
      <3> HIDE DEF n
      <3>2. /\ d'.conn = d.conn /\ d'.deleteAfterWriting = d.deleteAfterWriting
            /\ d'.freed = d.freed /\ d'.notifySome = d.notifySome
            /\ d'.closeAfterWriting = d.closeAfterWriting
            /\ d'.lastInformed = d.lastInformed /\ d'.laterClosed = d.laterClosed
            /\ d'.closeType = d.closeType
            /\ d'.readActive = d.readActive /\ d'.writeActive = d.writeActive
            /\ d'.notifyWrite = d.notifyWrite /\ d'.laterFinished = n
        BY <1>1, <3>1 DEF ConnData
      <3>3. ~Owed'
        BY <1>1, <1>4, <3>1 DEF Owed
      <3>4. Promised(d', readDue', Owed')
        BY <1>1, <3>1, <3>2, <3>3 DEF Promised, Told
      <3> QED BY <1>1, <1>2, <3>1, <3>2, <3>4 DEF Silent, NoCallbacks, Kept, Stays
    <2>3. CASE DeliverSome
      <3> DEFINE n == d.laterSome - 1
      <3>1. /\ d' = [d EXCEPT !.laterSome = n] /\ n \in Nat /\ d.laterSome # 0
            /\ readDue' = readDue /\ writesOwed' = writesOwed
        BY <1>1, <2>3 DEF DeliverSome, ledger
      <3> HIDE DEF n
      <3>2. /\ d'.conn = d.conn /\ d'.deleteAfterWriting = d.deleteAfterWriting
            /\ d'.freed = d.freed /\ d'.notifySome = d.notifySome
            /\ d'.closeAfterWriting = d.closeAfterWriting
            /\ d'.lastInformed = d.lastInformed /\ d'.laterClosed = d.laterClosed
            /\ d'.closeType = d.closeType
            /\ d'.readActive = d.readActive /\ d'.writeActive = d.writeActive
            /\ d'.notifyWrite = d.notifyWrite /\ d'.laterFinished = d.laterFinished
        BY <1>1, <3>1 DEF ConnData
      <3>3. Promised(d', readDue', Owed')
        BY <1>1, <3>1, <3>2 DEF Promised, Told, Owed
      <3> QED BY <1>1, <1>2, <3>1, <3>2, <3>3 DEF Silent, NoCallbacks, Kept, Stays
    <2> QED BY <2>1, <2>2, <2>3 DEF Deliver
  <1> QED BY <1>1, <1>2, <1>4, <1>5, OwedEvent

LEMMA OwedNext == OwedInv /\ [Next]_vars => OwedInv'
  <1>1. OwedInv /\ UNCHANGED vars => OwedInv'
    <2> SUFFICES ASSUME OwedInv, UNCHANGED vars PROVE OwedInv'
      OBVIOUS
    <2>1. IInv'
      BY NextInv DEF OwedInv
    <2>2. UNCHANGED <<d, calls, stopped, readDue, writesOwed>>
      BY DEF vars, ledger
    <2>3. OneOwed' /\ Stays(d, d')
          /\ (Promised(d, readDue, Owed) /\ Silent(d) /\ Kept(d, stopped))'
      BY <2>2 DEF OwedInv, OneOwed, QueuedNotifies, QueuedWrites, Stays, Owed
    <2> QED BY <2>1, <2>2, <2>3, OwedEvent
  <1>2. QED
    BY <1>1, OwedUser, OwedServe, OwedSocket, OwedStop, OwedDeliver DEF Next

LEMMA OwedAlways == Spec => []OwedInv
  BY OwedBegins, OwedNext, PTL DEF Spec

LEMMA OwedNothingLeft == OwedInv => NothingLeftBehind
  <1> SUFFICES ASSUME OwedInv PROVE NothingLeftBehind
    OBVIOUS
  <1>1. QuietWithoutUser
    BY DEF OwedInv, Silent, NoCallbacks, QuietWithoutUser
  <1> QED BY <1>1 DEF OwedInv, Kept, KeptCalls, Deleting, NothingLeftBehind

(* For every bound: once the user has let go, no callback runs, the record *)
(* of a destroyed connection is freed or still has a reason to live (until *)
(* the manager is stopped), and a freed record is touched no more. *)
THEOREM NothingLeft == Spec => []NothingLeftBehind
  BY OwedAlways, OwedNothingLeft, PTL

(* For every bound but MaxOwed, a user who waits for the answer to one *)
(* write(data, true) before the next gets an answer to each, and to each *)
(* startReadWatcher.  (Writes that wait at once share the one flag *)
(* notifyWrite_, of them only the last is sure of its answer.) *)
THEOREM NothingOwedHolds == ASSUME MaxOwed <= 1 PROVE Spec => []NothingOwed
  <1>1. OwedInv => NothingOwed
    <2> SUFFICES ASSUME OwedInv PROVE AnswersCome
      BY OwedNothingLeft DEF NothingOwed
    <2>1. Owed <=> writesOwed > 0
      BY DEF Owed
    <2> QED BY <2>1 DEF OwedInv, Promised, Told, AnswersCome
  <1> QED BY <1>1, OwedAlways, PTL

----------------------------------------
(****************************************)
(* The connection implements the channel of DuplexChannel.  A draining *)
(* half has bytes left (Drains), which is what makes the next shut of it *)
(* the write of its last byte.  Each handler takes the record from c with *)
(* u bytes unsent to e with v, as one of the actions of the channel. *)
(****************************************)
Half(c) ==
  IF W \in c.closeType THEN "shut" ELSE IF c.closeAfterWriting THEN "draining" ELSE "open"

Drains(c) == c.closeAfterWriting /\ W \notin c.closeType => c.writeBuf > 0

Transfers(c, u, e, v) ==
  /\ Half(c) # "shut" /\ v \in Nat
  /\ Half(c) = "draining" => v > 0
  /\ (R \in e.closeType <=> R \in c.closeType) /\ Half(e) = Half(c) /\ e.fd = c.fd

Closes(c, u, e, v) ==
  /\ R \in c.closeType => R \in e.closeType
  /\ \/ Half(e) = Half(c) /\ v = u
     \/ Half(c) # "shut" /\ Half(e) = "draining" /\ v = u /\ u > 0
     \/ Half(c) # "shut" /\ Half(e) = "shut" /\ v = 0
  /\ e.fd = IF c.fd = "reset" THEN "reset"
            ELSE IF Half(e) # "shut" THEN "open"
            ELSE IF R \notin e.closeType THEN "fin" ELSE "closed"

Aborts(c, u, e, v) ==
  /\ R \in e.closeType /\ Half(e) = "shut" /\ v \in {u, 0}
  /\ e.fd = IF R \in c.closeType /\ Half(c) = "shut" THEN c.fd ELSE "reset"

Moves(c, u, e, v) == Transfers(c, u, e, v) \/ Closes(c, u, e, v) \/ Aborts(c, u, e, v)

ChanInv == IInv /\ Drains(d)

(* The close type after closeConn(type). *)
Now(c, type) ==
  IF Defers(c, type) THEN (c.closeType \cup type) \ {W} ELSE c.closeType \cup type

LEMMA CloseConnHalves ==
  ASSUME NEW c \in ConnData, NEW type \in CloseType, NEW notify \in BOOLEAN,
         NEW e, e = CloseConn(c, type, notify)
  PROVE  LET now == Now(c, type)
         IN  /\ e.closeType = now /\ e.writeBuf = c.writeBuf
             /\ e.closeAfterWriting <=> c.closeAfterWriting \/ Defers(c, type)
             /\ (now \ c.closeType) \cap {R, W} = {} => e.fd = c.fd
             /\ (now \ c.closeType) \cap {R, W} # {} =>
                  e.fd = IF now = HardClosed THEN "reset"
                         ELSE IF now = ReadWriteClosed THEN "closed"
                         ELSE IF now = WriteClosed THEN "fin" ELSE c.fd
  <1> DEFINE now     == Now(c, type)
             changed == now \ c.closeType
             marked  == IF Defers(c, type)
                          THEN [c EXCEPT !.notifySome = FALSE, !.closeAfterWriting = TRUE]
                          ELSE c
             wake    == \/ notify
                        \/ R \in changed /\ c.readActive
                        \/ W \in changed /\ c.notifyWrite
             r       == IF R \in changed THEN FALSE ELSE c.readActive
             w       == IF W \in changed THEN FALSE ELSE c.writeActive
             n       == IF W \in changed THEN FALSE ELSE c.notifyWrite
             halted  == [marked EXCEPT
                           !.closeType   = now,
                           !.readActive  = IF R \in changed THEN FALSE ELSE @,
                           !.writeActive = IF W \in changed THEN FALSE ELSE @,
                           !.notifyWrite = IF W \in changed THEN FALSE ELSE @]
             told    == IF wake THEN CallClosed(halted) ELSE halted
  <1> SUFFICES /\ e.closeType = now /\ e.writeBuf = c.writeBuf
               /\ e.closeAfterWriting <=> c.closeAfterWriting \/ Defers(c, type)
               /\ changed \cap {R, W} = {} => e.fd = c.fd
               /\ changed \cap {R, W} # {} =>
                    e.fd = IF now = HardClosed THEN "reset"
                           ELSE IF now = ReadWriteClosed THEN "closed"
                           ELSE IF now = WriteClosed THEN "fin" ELSE c.fd
    OBVIOUS
  <1>1. e = IF changed = {} THEN marked ELSE CloseSocket(told, c.closeType)
    BY DEF CloseConn, Now
  <1>2. c.closeType \in CloseType /\ now \in CloseType /\ c.closeType \subseteq now
    <2>1. c.closeType \in CloseType
      BY DEF ConnData
    <2> QED BY <2>1, CloseTypeUnion DEF Defers, Now
  <1>3. /\ marked \in ConnData /\ marked.closeType = c.closeType /\ marked.writeBuf = c.writeBuf
        /\ marked.fd = c.fd
        /\ marked.closeAfterWriting <=> c.closeAfterWriting \/ Defers(c, type)
        /\ marked.readActive = c.readActive /\ marked.writeActive = c.writeActive
        /\ marked.notifyWrite = c.notifyWrite
    BY DEF ConnData
  <1> HIDE DEF now
  <1>4. CASE changed = {}
    <2>1. e = marked /\ now = c.closeType
      BY <1>1, <1>2, <1>4
    <2> HIDE DEF marked
    <2> QED BY <1>3, <1>4, <2>1
  <1>5. CASE changed # {}
    <2>1. e = CloseSocket(told, c.closeType)
      BY <1>1, <1>5
    <2>2. halted = [marked EXCEPT !.closeType = now, !.readActive = r, !.writeActive = w, !.notifyWrite = n]
      <3>1. r = (IF R \in changed THEN FALSE ELSE marked.readActive)
            /\ w = (IF W \in changed THEN FALSE ELSE marked.writeActive)
            /\ n = (IF W \in changed THEN FALSE ELSE marked.notifyWrite)
        BY <1>3
      <3> HIDE DEF changed, marked, r, w, n
      <3>2. QED BY <3>1
    <2>3. r \in BOOLEAN /\ w \in BOOLEAN /\ n \in BOOLEAN
      BY DEF ConnData
    <2>4. /\ halted \in ConnData /\ halted.closeType = now /\ halted.writeBuf = c.writeBuf
          /\ halted.fd = c.fd /\ halted.closeAfterWriting = marked.closeAfterWriting
      <3> HIDE DEF halted, r, w, n, marked, changed
      <3>1. now \in CloseType /\ marked \in ConnData
        BY <1>2, <1>3
      <3>2. halted \in ConnData
        BY ONLY <2>2, <2>3, <3>1 DEF ConnData
      <3>3. /\ halted.closeType = now /\ halted.writeBuf = marked.writeBuf
            /\ halted.fd = marked.fd /\ halted.closeAfterWriting = marked.closeAfterWriting
        BY ONLY <2>2, <2>3, <3>1 DEF ConnData
      <3>4. marked.writeBuf = c.writeBuf /\ marked.fd = c.fd
        BY <1>3
      <3> QED BY ONLY <3>2, <3>3, <3>4
    <2> HIDE DEF halted, marked, wake, r, w, n
    <2>5. told \in ConnData /\ Others(halted, told) /\ told.fd = c.fd
      BY <2>4, CallClosedTells, CallClosedFacts DEF Others, SameSocket
    <2> HIDE DEF told
    <2>6. told.closeType = now /\ told.closeType \ c.closeType = changed
      BY <2>4, <2>5 DEF Others
    <2>7. /\ changed \cap {R, W} = {} => e.fd = told.fd
          /\ changed \cap {R, W} # {} =>
               e.fd = IF now = HardClosed THEN "reset"
                      ELSE IF now = ReadWriteClosed THEN "closed"
                      ELSE IF now = WriteClosed THEN "fin" ELSE told.fd
      <3> HIDE DEF changed
      <3>1. c.closeType \in CloseType /\ told \in ConnData
        BY <1>2, <2>5
      <3> QED BY ONLY <2>1, <2>6, <3>1, CloseSocketFacts
    <2>8. Others(told, e)
      BY <1>2, <2>1, <2>5, CloseSocketTells
    <2> HIDE DEF changed
    <2> QED BY <1>3, <2>4, <2>5, <2>6, <2>7, <2>8 DEF Others
  <1> QED BY <1>4, <1>5

(* closeConn is a close or an abort of the channel. *)
LEMMA CloseConnMoves ==
  ASSUME NEW c \in ConnData, NEW u \in Nat, Sound(c, u), Drains(c),
         NEW type \in CloseType, NEW notify \in BOOLEAN,
         NEW e, e = CloseConn(c, type, notify)
  PROVE  Moves(c, u, e, u) /\ Drains(e)
  <1> DEFINE now == Now(c, type)
  <1>1. /\ e.closeType = now /\ e.writeBuf = c.writeBuf
        /\ e.closeAfterWriting <=> c.closeAfterWriting \/ Defers(c, type)
        /\ (now \ c.closeType) \cap {R, W} = {} => e.fd = c.fd
        /\ (now \ c.closeType) \cap {R, W} # {} =>
             e.fd = IF now = HardClosed THEN "reset"
                    ELSE IF now = ReadWriteClosed THEN "closed"
                    ELSE IF now = WriteClosed THEN "fin" ELSE c.fd
    BY CloseConnHalves
  <1>2. c.closeType \in CloseType /\ now \in CloseType /\ c.closeType \subseteq now
    <2>1. c.closeType \in CloseType
      BY DEF ConnData
    <2> QED BY <2>1, CloseTypeUnion DEF Defers, Now
  <1>3. /\ c.writeBuf \in Nat /\ c.fd \in Fd /\ c.closeAfterWriting \in BOOLEAN
        /\ W \in now \/ W \notin type \/ c.writeBuf > 0
    BY DEF ConnData, Defers, Now
  <1>4. Defers(c, type) => W \notin c.closeType /\ c.writeBuf > 0 /\ W \notin now
    BY DEF Defers, Now
  <1>5. W \in now \ c.closeType => now = HardClosed \/ c.writeBuf = 0
    BY <1>3 DEF Defers, Now
  <1> HIDE DEF now
  <1>6. Drains(e)
    BY <1>1, <1>2, <1>4 DEF Drains
  <1>7. CASE now = HardClosed
    <2>1. R \in now /\ W \in now
      BY <1>7 DEF HardClosed
    <2>2. Half(e) = "shut"
      BY <1>1, <2>1 DEF Half
    <2>3. (now \ c.closeType) \cap {R, W} = {} <=> R \in c.closeType /\ W \in c.closeType
      BY <2>1
    <2>4. e.fd = IF R \in c.closeType /\ Half(c) = "shut" THEN c.fd ELSE "reset"
      BY <1>1, <1>7, <2>3 DEF Half
    <2> QED BY <1>1, <1>6, <2>1, <2>2, <2>4 DEF Moves, Aborts
  <1>8. CASE now # HardClosed
    <2>1. now \in {NotClosed, ReadClosed, WriteClosed, ReadWriteClosed}
      BY <1>2, <1>8 DEF CloseType
    <2>2. CASE ReadWriteClosed \subseteq c.closeType
      <3>1. R \in c.closeType /\ W \in c.closeType /\ R \in now /\ W \in now
        BY <1>2, <2>2 DEF ReadWriteClosed
      <3>2. e.fd = c.fd /\ Half(c) = "shut" /\ Half(e) = "shut"
        BY <1>1, <3>1 DEF Half
      <3>3. c.fd \in {"closed", "reset"}
        BY <2>2 DEF Sound
      <3> QED BY <1>1, <1>6, <3>1, <3>2, <3>3 DEF Moves, Closes
    <2>3. CASE ~(ReadWriteClosed \subseteq c.closeType)
      <3>1. /\ c.closeType \in {NotClosed, ReadClosed, WriteClosed}
            /\ c.fd = IF c.closeType = WriteClosed THEN "fin" ELSE "open"
            /\ u = c.writeBuf /\ (c.closeType = WriteClosed => u = 0)
        <4>1. c.closeType \in {NotClosed, ReadClosed, WriteClosed}
          BY <1>2, <2>3 DEF CloseType, ReadWriteClosed, HardClosed
        <4>2. c.fd \notin {"closed", "reset"} /\ (c.fd = "fin" <=> c.closeType = WriteClosed)
          BY <2>3 DEF Sound
        <4>3. c.fd \in {"fin", "open"}
          BY <1>3, <4>2 DEF Fd
        <4> QED BY <4>1, <4>2, <4>3 DEF Sound
      <3>2. e.fd = IF W \notin now THEN "open" ELSE IF R \notin now THEN "fin" ELSE "closed"
        BY <1>1, <1>2, <2>1, <3>1 DEF NotClosed, ReadClosed, WriteClosed, ReadWriteClosed, HardClosed, R, W
      <3>3. R \in c.closeType => R \in e.closeType
        BY <1>1, <1>2
      <3>4. \/ Half(e) = Half(c)
            \/ Half(c) # "shut" /\ Half(e) = "draining" /\ u > 0
            \/ Half(c) # "shut" /\ Half(e) = "shut" /\ u = 0
        <4>1. CASE W \in c.closeType
          BY <1>1, <1>2, <4>1 DEF Half
        <4>2. CASE W \notin c.closeType /\ W \in now
          BY <1>1, <1>5, <1>8, <3>1, <4>2 DEF Half
        <4>3. CASE W \notin c.closeType /\ W \notin now
          BY <1>1, <1>4, <3>1, <4>3 DEF Half
        <4> QED BY <4>1, <4>2, <4>3
      <3>5. c.fd # "reset" /\ (Half(e) = "shut" <=> W \in now)
        BY <1>1, <3>1 DEF Half
      <3> QED BY <1>1, <1>6, <3>2, <3>3, <3>4, <3>5 DEF Moves, Closes
    <2> QED BY <2>2, <2>3
  <1> QED BY <1>7, <1>8

(* A buffer that a failed or a last send emptied: its half is shut. *)
LEMMA EmptiedMoves ==
  ASSUME NEW c \in ConnData, NEW u \in Nat, Sound(c, u), W \notin c.closeType, NEW x \in Nat,
         NEW type \in {WriteClosed, HardClosed},
         NEW e, e = Dispose(CloseConn([c EXCEPT !.writeBuf = 0], type, FALSE))
  PROVE  Moves(c, x, e, 0) /\ Drains(e)
  <1> DEFINE z == [c EXCEPT !.writeBuf = 0]
             k == CloseConn(z, type, FALSE)
  <1>1. /\ z \in ConnData /\ z.writeBuf = 0 /\ z.closeType = c.closeType
        /\ z.fd = c.fd /\ z.closeAfterWriting = c.closeAfterWriting
    BY DEF ConnData
  <1>2. type \in CloseType /\ W \in type /\ FALSE \in BOOLEAN
    BY DEF CloseType, WriteClosed, HardClosed
  <1>3. c.closeType \in {NotClosed, ReadClosed}
    BY DEF ConnData, CloseType, NotClosed, ReadClosed, WriteClosed, ReadWriteClosed, HardClosed, R, W
  <1>4. c.fd = "open"
    <2>1. c.fd \notin {"closed", "reset", "fin"}
      BY <1>3 DEF Sound, NotClosed, ReadClosed, WriteClosed, ReadWriteClosed, R, W
    <2> QED BY <2>1 DEF ConnData, Fd
  <1> HIDE DEF z
  <1>5. Now(z, type) = c.closeType \cup type
    BY <1>1 DEF Now, Defers
  <1>6. /\ k.closeType = c.closeType \cup type
        /\ (k.closeType \ c.closeType) \cap {R, W} # {} =>
             k.fd = IF k.closeType = HardClosed THEN "reset"
                    ELSE IF k.closeType = ReadWriteClosed THEN "closed"
                    ELSE IF k.closeType = WriteClosed THEN "fin" ELSE c.fd
        /\ k \in ConnData
    <2>1. k \in ConnData
      <3>1. Sound(z, 0)
        <4>1. z.readActive = c.readActive /\ z.writeActive = c.writeActive /\ z.fdCloses = c.fdCloses
          BY DEF z, ConnData
        <4> QED BY <1>1, <1>4, <4>1 DEF Sound
      <3> DEFINE no == FALSE
      <3>2. no \in BOOLEAN /\ k = CloseConn(z, type, no)
        BY DEF k
      <3>3. type \in CloseType /\ W \in type
        BY <1>2
      <3>4. z \in ConnData /\ z.writeBuf = 0 /\ 0 \in Nat
        BY <1>1
      <3> HIDE DEF no, k
      <3>5. CloseConn(z, type, no) \in ConnData
        BY ONLY <3>1, <3>2, <3>3, <3>4, CloseConnSound
      <3> QED BY <3>2, <3>5
    <2> HIDE DEF k
    <2> DEFINE no == FALSE
    <2>2. k = CloseConn(z, type, no) /\ no \in BOOLEAN
      BY DEF k
    <2> HIDE DEF no
    <2>4. z \in ConnData /\ type \in CloseType
      BY <1>1, <1>2
    <2>3. LET now == Now(z, type)
          IN  /\ k.closeType = now
              /\ (now \ z.closeType) \cap {R, W} # {} =>
                   k.fd = IF now = HardClosed THEN "reset"
                          ELSE IF now = ReadWriteClosed THEN "closed"
                          ELSE IF now = WriteClosed THEN "fin" ELSE z.fd
      BY ONLY <2>2, <2>4, CloseConnHalves
    <2> QED BY <1>1, <1>5, <2>1, <2>3
  <1> HIDE DEF k
  <1>7. e.closeType = k.closeType /\ e.fd = k.fd
    <2> DEFINE f == k.deleteAfterWriting
    <2>1. e = Dispose(k)
      BY DEF k, z
    <2>2. e = [k EXCEPT !.freed = f]
      BY <2>1 DEF Dispose
    <2> HIDE DEF f
    <2> QED BY <1>6, <2>2 DEF ConnData
  <1>8. Half(e) = "shut" /\ Half(c) # "shut" /\ W \in k.closeType \ c.closeType
    BY <1>2, <1>6, <1>7 DEF Half
  <1>9. CASE type = HardClosed
    <2>1. k.closeType = HardClosed /\ R \in k.closeType
      BY <1>3, <1>6, <1>9 DEF HardClosed, NotClosed, ReadClosed
    <2>2. e.fd = "reset"
      BY <1>6, <1>7, <1>8, <2>1
    <2> QED BY <1>7, <1>8, <2>1, <2>2 DEF Moves, Aborts, Drains, Half
  <1>10. CASE type = WriteClosed
    <2>1. k.closeType = IF R \in c.closeType THEN ReadWriteClosed ELSE WriteClosed
      BY <1>3, <1>6, <1>10 DEF NotClosed, ReadClosed, WriteClosed, ReadWriteClosed, R, W
    <2>2. k.fd = IF R \in k.closeType THEN "closed" ELSE "fin"
      BY <1>6, <1>8, <2>1 DEF WriteClosed, ReadWriteClosed, HardClosed, R, W
    <2>3. Drains(e)
      BY <1>7, <1>8 DEF Drains
    <2> QED BY <1>4, <1>6, <1>7, <1>8, <2>2, <2>3 DEF Moves, Closes
  <1> QED BY <1>9, <1>10

(* writeable, for any number x of bytes unsent before. *)
LEMMA WriteableMoves ==
  ASSUME NEW c \in ConnData, NEW u \in Nat, Sound(c, u), W \notin c.closeType, c.writeBuf > 0,
         NEW s \in SendResults(c), NEW x \in Nat
  PROVE  LET v == IF s < 0 THEN 0 ELSE u - s
         IN  Moves(c, x, Writeable(c, s), v) /\ Drains(Writeable(c, s))
  <1> DEFINE v == IF s < 0 THEN 0 ELSE u - s
             e == Writeable(c, s)
  <1>1. /\ c.writeBuf \in Nat /\ c.laterSome \in Nat /\ c.laterFinished \in Nat
        /\ u = c.writeBuf
    BY DEF ConnData, Sound, ReadWriteClosed
  <1>2. s \in Int /\ s <= c.writeBuf /\ (s < 0 <=> s \in {EPipe, EFail})
    BY <1>1 DEF SendResults, EPipe, EFail
  <1>3. CASE s < 0
    BY <1>2, <1>3, EmptiedMoves DEF Writeable, SendFailed
  <1>4. CASE s >= 0 /\ s < c.writeBuf
    <2> DEFINE b == c.writeBuf - s
               m == SomeWritten(c, s)
    <2>1. b \in Nat /\ b > 0 /\ b = v
      BY <1>1, <1>2, <1>4
    <2>2. e = [c EXCEPT !.writeBuf = b, !.writeActive = TRUE, !.laterSome = m]
      BY <1>2, <1>4 DEF Writeable, SendPart
    <2>3. /\ e.writeBuf = b /\ e.closeType = c.closeType /\ e.fd = c.fd
          /\ e.closeAfterWriting = c.closeAfterWriting
      <3> HIDE DEF b, m, e
      <3> QED BY <2>2 DEF ConnData
    <2> HIDE DEF b, e, v
    <2>4. Transfers(c, x, e, v)
      BY <2>1, <2>3 DEF Transfers, Half
    <2> QED BY <2>1, <2>3, <2>4 DEF Moves, Drains, e, v
  <1>5. CASE s >= 0 /\ ~(s < c.writeBuf)
    <2>1. s = c.writeBuf /\ v = 0 /\ e = SendAll(c, s)
      BY <1>1, <1>2, <1>5 DEF Writeable
    <2>2. CASE c.closeAfterWriting
      BY <2>1, <2>2, EmptiedMoves DEF SendAll
    <2>3. CASE ~c.closeAfterWriting
      <3> DEFINE m == SomeWritten(c, s)
                 n == c.laterFinished + (IF c.notifyWrite THEN 1 ELSE 0)
      <3>1. e = [c EXCEPT !.writeBuf = 0, !.writeActive = FALSE, !.laterSome = m,
                          !.notifyWrite = FALSE, !.laterFinished = n]
        BY <2>1, <2>3 DEF SendAll, Drained
      <3>2. e.closeType = c.closeType /\ e.fd = c.fd /\ e.closeAfterWriting = c.closeAfterWriting
        <4> HIDE DEF m, n, e
        <4> QED BY <3>1 DEF ConnData
      <3> HIDE DEF e, v
      <3>3. Transfers(c, x, e, v)
        BY <2>1, <2>3, <3>2 DEF Transfers, Half
      <3> QED BY <2>3, <3>2, <3>3 DEF Moves, Drains, e, v
    <2> QED BY <2>2, <2>3
  <1> QED BY <1>2, <1>3, <1>4, <1>5

----------------------------------------
(* The steps of the connection as steps of the channel. *)
Still(c, e) ==
  /\ e.closeType = c.closeType /\ e.closeAfterWriting = c.closeAfterWriting
  /\ e.fd = c.fd /\ e.writeBuf = c.writeBuf

ChannelStep ==
  /\ Drains(d')
  /\ \/ Moves(d, unsent, d', unsent')
     \/ Half(d') = Half(d) /\ d'.fd = d.fd /\ d'.closeType = d.closeType /\ unsent' = unsent

LEMMA StillSteps ==
  ASSUME ChanInv, Still(d, d'), unsent' = unsent PROVE ChannelStep
  BY DEF ChanInv, Drains, Still, ChannelStep, Half

LEMMA CloseSteps ==
  ASSUME ChanInv, NEW type \in CloseType, NEW notify \in BOOLEAN,
         d' = CloseConn(d, type, notify), unsent' = unsent
  PROVE  ChannelStep
  BY CloseConnMoves DEF ChanInv, IInv, TypeOK, ChannelStep

LEMMA UserSteps == ChanInv /\ User => ChannelStep
  <1> SUFFICES ASSUME ChanInv, User PROVE ChannelStep
    OBVIOUS
  <1>1. d \in ConnData
    BY DEF ChanInv, IInv, TypeOK
  <1>2. Still(d, d') /\ unsent' = unsent
    <2>1. CASE Attach
      <3>1. PICK some \in BOOLEAN : d' = [d EXCEPT !.conn = "attached", !.notifySome = some]
        BY <2>1 DEF Attach
      <3> QED BY <1>1, <2>1, <3>1 DEF Attach, Still, ConnData
    <2>2. CASE Detach
      BY <1>1, <2>2 DEF Detach, Still, ConnData
    <2>3. CASE UserRead
      BY <2>3 DEF UserRead, Still
    <2>4. CASE UserWrite
      BY <2>4 DEF UserWrite, Still
    <2>5. CASE UserClose
      BY <2>5 DEF UserClose, Still
    <2>6. CASE Destroy
      BY <1>1, <2>6 DEF Destroy, Still, ConnData
    <2> QED BY <2>1, <2>2, <2>3, <2>4, <2>5, <2>6 DEF User
  <1> QED BY <1>2, StillSteps

LEMMA ToldStill ==
  ASSUME NEW c \in ConnData PROVE Still(c, CallClosed(c))
  BY CallClosedTells, CallClosedFacts DEF Others, SameSocket, Still

LEMMA ReadSteps == ChanInv /\ StartReadWatcher => ChannelStep
  <1> SUFFICES ASSUME ChanInv, StartReadWatcher PROVE ChannelStep
    OBVIOUS
  <1>1. d \in ConnData
    BY DEF ChanInv, IInv, TypeOK
  <1>2. Still(d, d')
    <2>1. CASE R \in d.closeType
      BY <1>1, <2>1, ToldStill DEF StartReadWatcher
    <2>2. CASE R \notin d.closeType
      BY <1>1, <2>2 DEF StartReadWatcher, Still, ConnData
    <2> QED BY <2>1, <2>2
  <1> QED BY <1>2, StillSteps DEF StartReadWatcher

LEMMA WriteSteps == ChanInv /\ WriteToSocket => ChannelStep
  <1> SUFFICES ASSUME ChanInv, WriteToSocket PROVE ChannelStep
    OBVIOUS
  <1> DEFINE m   == Head(calls)
             buf == d.writeBuf + m.n
  <1>1. /\ d \in ConnData /\ unsent \in Nat /\ Sound(d, unsent) /\ Watched(d) /\ Drains(d)
        /\ calls \in Seq(Call)
    BY DEF ChanInv, IInv, TypeOK
  <1>2. m.n \in Nat /\ m.notify \in BOOLEAN
    BY <1>1, HandleType, CallFields DEF WriteToSocket
  <1>3. d.writeBuf \in Nat /\ buf \in Nat /\ d.laterFinished \in Nat /\ d.notifyWrite \in BOOLEAN
    BY <1>1, <1>2 DEF ConnData
  <1>4. CASE buf = 0
    <2> DEFINE n == d.laterFinished + (IF m.notify THEN 1 ELSE 0)
    <2>1. d' = [d EXCEPT !.laterFinished = n] /\ unsent' = unsent
      BY <1>3, <1>4 DEF WriteToSocket
    <2> HIDE DEF n
    <2>2. Still(d, d')
      BY <1>1, <2>1 DEF Still, ConnData
    <2> QED BY <2>1, <2>2, StillSteps
  <1>5. CASE buf > 0 /\ W \in d.closeType
    <2> DEFINE c == [d EXCEPT !.writeBuf = 0]
    <2>1. d' = (IF m.notify THEN CallClosed(c) ELSE c) /\ unsent' = unsent
      BY <1>3, <1>5 DEF WriteToSocket
    <2>2. /\ c \in ConnData /\ c.closeType = d.closeType /\ c.fd = d.fd
          /\ c.closeAfterWriting = d.closeAfterWriting
      BY <1>1 DEF ConnData
    <2> HIDE DEF c
    <2>3. /\ d'.closeType = d.closeType /\ d'.fd = d.fd
          /\ d'.closeAfterWriting = d.closeAfterWriting
      BY <2>1, <2>2, ToldStill DEF Still
    <2> QED BY <1>5, <2>1, <2>3 DEF ChannelStep, Drains, Half
  <1>6. CASE buf > 0 /\ W \notin d.closeType
    <2> DEFINE f == IF m.notify THEN TRUE ELSE d.notifyWrite
               c == [d EXCEPT !.writeBuf = buf, !.notifyWrite = d.notifyWrite \/ m.notify]
               u == unsent + m.n
    <2>1. c = [d EXCEPT !.writeBuf = buf, !.notifyWrite = f]
      BY <1>2, <1>3
    <2>2. /\ c \in ConnData
          /\ c.readActive = d.readActive /\ c.writeActive = d.writeActive
          /\ c.writeBuf = buf /\ c.closeType = d.closeType
          /\ c.fd = d.fd /\ c.fdCloses = d.fdCloses
          /\ c.closeAfterWriting = d.closeAfterWriting
      <3>1. f \in BOOLEAN
        BY <1>3
      <3> HIDE DEF f, c, buf
      <3> QED BY <1>1, <1>3, <2>1, <3>1 DEF ConnData
    <2>3. d.fd \notin {"reset", "fin", "closed"} /\ unsent = d.writeBuf
      BY <1>1, <1>6 DEF Sound, ReadWriteClosed, WriteClosed
    <2>4. u \in Nat /\ Sound(c, u) /\ u = buf
      <3> HIDE DEF c
      <3> QED BY <1>1, <1>2, <1>3, <2>2, <2>3 DEF Sound
    <2>5. CASE d.writeActive
      <3>1. d' = c /\ unsent' = u
        BY <1>1, <1>2, <1>3, <1>6, <2>2, <2>5 DEF WriteToSocket, CountBytes
      <3> HIDE DEF c, u, buf
      <3>2. Transfers(d, unsent, d', unsent')
        BY <1>6, <2>2, <2>4, <3>1 DEF Transfers, Half
      <3> QED BY <1>6, <2>2, <3>1, <3>2 DEF ChannelStep, Moves, Drains
    <2>6. CASE ~d.writeActive
      <3>1. PICK s \in SendResults(c) : d' = Writeable(c, s) /\ CountBytes(m.n, s)
        BY <1>2, <1>3, <1>6, <2>2, <2>6 DEF WriteToSocket
      <3>2. unsent' = IF s < 0 THEN 0 ELSE u - s
        <4>1. s \in Int
          BY <2>2, <1>3 DEF SendResults, EPipe, EFail
        <4>2. unsent' = IF s < 0 THEN 0 ELSE unsent + m.n - s
          BY <3>1 DEF CountBytes
        <4> HIDE DEF m
        <4> QED BY <1>1, <1>2, <4>1, <4>2
      <3> HIDE DEF c, u, buf
      <3>3. Moves(c, unsent, d', unsent') /\ Drains(d')
        BY <1>1, <1>6, <2>2, <2>4, <3>1, <3>2, WriteableMoves
      <3>4. Moves(d, unsent, d', unsent')
        BY <2>2, <3>3 DEF Moves, Transfers, Closes, Aborts, Half
      <3> QED BY <3>3, <3>4 DEF ChannelStep
    <2> QED BY <2>5, <2>6
  <1> QED BY <1>3, <1>4, <1>5, <1>6

LEMMA CloseCallSteps == ChanInv /\ CloseCall => ChannelStep
  <1> SUFFICES ASSUME ChanInv, CloseCall PROVE ChannelStep
    OBVIOUS
  <1> DEFINE m == Head(calls)
  <1>1. m.type \in CloseType /\ m.notify \in BOOLEAN
    BY HandleType, CallFields DEF CloseCall, ChanInv, IInv, TypeOK
  <1>2. d' = CloseConn(d, m.type, m.notify) /\ unsent' = unsent
    BY DEF CloseCall
  <1> HIDE DEF m
  <1> QED BY <1>1, <1>2, CloseSteps

LEMMA DeleteSteps == ChanInv /\ DeleteOnFinish => ChannelStep
  <1> SUFFICES ASSUME ChanInv, DeleteOnFinish PROVE ChannelStep
    OBVIOUS
  <1>1. /\ d \in ConnData /\ unsent \in Nat /\ Sound(d, unsent) /\ Watched(d) /\ Drains(d)
        /\ unsent' = unsent
    BY DEF ChanInv, IInv, TypeOK, DeleteOnFinish
  <1>2. ReadClosed \in CloseType /\ ReadWriteClosed \in CloseType
    BY DEF CloseType
  <1>3. CASE d.writeActive
    <2> DEFINE c == CloseConn(d, ReadClosed, FALSE)
    <2>1. c \in ConnData /\ Moves(d, unsent, c, unsent)
      BY <1>1, <1>2, CloseConnMoves, CloseConnSound
    <2>2. /\ c.closeType = d.closeType \cup {R} /\ c.writeBuf = d.writeBuf
          /\ c.fd = IF R \notin d.closeType THEN "open" ELSE d.fd
      <3>1. W \notin d.closeType /\ ~Defers(d, ReadClosed)
        BY <1>1, <1>3 DEF Sound, Defers, ReadClosed, R, W
      <3>2. Now(d, ReadClosed) = d.closeType \cup {R}
        BY <3>1 DEF Now, ReadClosed
      <3>3. d.closeType \in {NotClosed, ReadClosed} /\ d.fd = "open"
        <4>1. d.closeType \in {NotClosed, ReadClosed}
          BY <1>1, <3>1 DEF ConnData, CloseType, WriteClosed, ReadWriteClosed, HardClosed
        <4>2. d.fd \notin {"closed", "reset", "fin"}
          BY <1>1, <3>1 DEF Sound, WriteClosed, ReadWriteClosed
        <4> QED BY <1>1, <4>1, <4>2 DEF ConnData, Fd
      <3>4. /\ c.closeType = d.closeType \cup {R} /\ c.writeBuf = d.writeBuf
            /\ ((d.closeType \cup {R}) \ d.closeType) \cap {R, W} = {} => c.fd = d.fd
            /\ ((d.closeType \cup {R}) \ d.closeType) \cap {R, W} # {} =>
                 c.fd = IF d.closeType \cup {R} = HardClosed THEN "reset"
                        ELSE IF d.closeType \cup {R} = ReadWriteClosed THEN "closed"
                        ELSE IF d.closeType \cup {R} = WriteClosed THEN "fin" ELSE d.fd
        <4> DEFINE no == FALSE
        <4>2. c = CloseConn(d, ReadClosed, no) /\ no \in BOOLEAN
          OBVIOUS
        <4> HIDE DEF no, c
        <4>1. LET now == Now(d, ReadClosed)
              IN  /\ c.closeType = now /\ c.writeBuf = d.writeBuf
                  /\ (now \ d.closeType) \cap {R, W} = {} => c.fd = d.fd
                  /\ (now \ d.closeType) \cap {R, W} # {} =>
                       c.fd = IF now = HardClosed THEN "reset"
                              ELSE IF now = ReadWriteClosed THEN "closed"
                              ELSE IF now = WriteClosed THEN "fin" ELSE d.fd
          BY ONLY <1>1, <1>2, <4>2, CloseConnHalves
        <4> QED BY <3>2, <4>1
      <3>5. d.closeType \cup {R} \notin {HardClosed, ReadWriteClosed, WriteClosed}
        BY <3>3 DEF NotClosed, ReadClosed, WriteClosed, ReadWriteClosed, HardClosed, R, W
      <3> QED BY <3>3, <3>4, <3>5
    <2>3. d' = [c EXCEPT !.notifySome = FALSE, !.closeAfterWriting = TRUE, !.deleteAfterWriting = TRUE]
      BY <1>3 DEF DeleteOnFinish
    <2> HIDE DEF c
    <2>4. /\ d'.closeType = c.closeType /\ d'.fd = c.fd /\ d'.writeBuf = c.writeBuf
          /\ d'.closeAfterWriting
      BY <2>1, <2>3 DEF ConnData
    <2>5. W \notin d.closeType /\ d.writeBuf > 0 /\ d.fd = "open" /\ unsent = d.writeBuf
      <3>1. W \notin d.closeType /\ d.writeBuf > 0
        BY <1>1, <1>3 DEF Sound, Watched
      <3>2. d.fd \notin {"closed", "reset", "fin"}
        BY <1>1, <3>1 DEF Sound, WriteClosed, ReadWriteClosed
      <3> QED BY <1>1, <3>1, <3>2 DEF ConnData, Fd, Sound
    <2>6. Half(d) # "shut" /\ Half(d') = "draining" /\ R \in d'.closeType /\ d'.fd = "open"
      BY <2>2, <2>4, <2>5 DEF Half, R, W
    <2>7. Drains(d')
      BY <2>2, <2>4, <2>5 DEF Drains
    <2> QED BY <1>1, <2>5, <2>6, <2>7 DEF ChannelStep, Moves, Closes
  <1>4. CASE ~d.writeActive
    <2> DEFINE c == CloseConn(d, ReadWriteClosed, FALSE)
    <2>1. c \in ConnData /\ Moves(d, unsent, c, unsent) /\ Drains(c)
      BY <1>1, <1>2, CloseConnMoves, CloseConnSound
    <2>2. d' = [c EXCEPT !.freed = TRUE]
      BY <1>4 DEF DeleteOnFinish
    <2> HIDE DEF c
    <2>3. Still(c, d')
      BY <2>1, <2>2 DEF ConnData, Still
    <2>4. Moves(d, unsent, d', unsent) /\ Drains(d')
      BY <2>1, <2>3 DEF Moves, Transfers, Closes, Aborts, Half, Still, Drains
    <2> QED BY <1>1, <2>4 DEF ChannelStep
  <1>5. d.writeActive \in BOOLEAN
    BY <1>1 DEF ConnData
  <1> QED BY <1>3, <1>4, <1>5

LEMMA SocketSteps == ChanInv /\ Socket => ChannelStep
  <1> SUFFICES ASSUME ChanInv, Socket PROVE ChannelStep
    OBVIOUS
  <1>1. d \in ConnData /\ unsent \in Nat /\ Sound(d, unsent) /\ Watched(d) /\ Drains(d)
    BY DEF ChanInv, IInv, TypeOK
  <1>2. CASE ReadBytes
    <2>1. Still(d, d') /\ unsent' = unsent
      BY <1>1, <1>2 DEF ReadBytes, Still, ConnData
    <2> QED BY <2>1, StillSteps
  <1>3. CASE ReadEof
    BY <1>3, CloseSteps DEF ReadEof, CloseType
  <1>4. CASE ReadError
    BY <1>4, CloseSteps DEF ReadError, CloseType
  <1>5. CASE SocketWriteable
    <2>1. PICK s \in SendResults(d) : SocketTakes(s)
      BY <1>5 DEF SocketWriteable
    <2>2. d' = Writeable(d, s) /\ d.writeActive
      BY <2>1 DEF SocketTakes
    <2>3. unsent' = IF s < 0 THEN 0 ELSE unsent - s
      <3>1. s \in Int
        BY <1>1 DEF SendResults, EPipe, EFail, ConnData
      <3>2. unsent' = IF s < 0 THEN 0 ELSE unsent + 0 - s
        BY <2>1 DEF SocketTakes, CountBytes
      <3> QED BY <1>1, <3>1, <3>2
    <2>4. d.writeBuf > 0 /\ W \notin d.closeType
      BY <1>1, <2>2 DEF Sound, Watched
    <2>5. Moves(d, unsent, d', unsent') /\ Drains(d')
      BY <1>1, <2>2, <2>3, <2>4, WriteableMoves
    <2> QED BY <2>5 DEF ChannelStep
  <1> QED BY <1>2, <1>3, <1>4, <1>5 DEF Socket

LEMMA DeliverSteps == ChanInv /\ Deliver => ChannelStep
  <1> SUFFICES ASSUME ChanInv, Deliver PROVE ChannelStep
    OBVIOUS
  <1>1. d \in ConnData
    BY DEF ChanInv, IInv, TypeOK
  <1>2. ASSUME NEW n
        PROVE  /\ Still(d, [d EXCEPT !.laterClosed = n]) /\ Still(d, [d EXCEPT !.laterFinished = n])
               /\ Still(d, [d EXCEPT !.laterSome = n])
    BY <1>1 DEF ConnData, Still
  <1>3. Still(d, d') /\ unsent' = unsent
    <2>1. CASE DeliverClosed
      BY <1>2, <2>1 DEF DeliverClosed
    <2>2. CASE DeliverFinished
      BY <1>2, <2>2 DEF DeliverFinished
    <2>3. CASE DeliverSome
      BY <1>2, <2>3 DEF DeliverSome
    <2> QED BY <2>1, <2>2, <2>3 DEF Deliver
  <1> QED BY <1>3, StillSteps

LEMMA NextSteps == ChanInv /\ [Next]_vars => ChanInv' /\ ChannelStep
  <1> SUFFICES ASSUME ChanInv, [Next]_vars PROVE ChanInv' /\ ChannelStep
    OBVIOUS
  <1>1. IInv'
    BY NextInv DEF ChanInv
  <1>2. ChannelStep
    <2>1. CASE UNCHANGED vars
      <3>1. Still(d, d') /\ unsent' = unsent
        BY <2>1 DEF vars, Still
      <3> QED BY <3>1, StillSteps
    <2>2. CASE Serve
      BY <2>2, ReadSteps, WriteSteps, CloseCallSteps, DeleteSteps DEF Serve
    <2>3. CASE Stop
      BY <2>3, CloseSteps DEF Stop, CloseType
    <2> QED BY <2>1, <2>2, <2>3, UserSteps, SocketSteps, DeliverSteps DEF Next
  <1> QED BY <1>1, <1>2 DEF ChanInv, ChannelStep, Drains

LEMMA StepsRefine == ChannelStep => [Channel!ChannelNext]_(Channel!chanVars)
  <1> SUFFICES ASSUME ChannelStep PROVE [Channel!ChannelNext]_(Channel!chanVars)
    OBVIOUS
  <1>1. CASE Transfers(d, unsent, d', unsent')
    <2>1. Channel!Transfer
      BY <1>1 DEF Transfers, Half, Channel!Transfer
    <2> QED BY <2>1 DEF Channel!ChannelNext
  <1>2. CASE Closes(d, unsent, d', unsent')
    <2>1. Channel!CloseHalves
      BY <1>2 DEF Closes, Half, Channel!CloseHalves
    <2> QED BY <2>1 DEF Channel!ChannelNext
  <1>3. CASE Aborts(d, unsent, d', unsent')
    <2>1. Channel!Abort
      BY <1>3 DEF Aborts, Half, Channel!Abort
    <2> QED BY <2>1 DEF Channel!ChannelNext
  <1>4. CASE Half(d') = Half(d) /\ d'.fd = d.fd /\ d'.closeType = d.closeType /\ unsent' = unsent
    <2>1. UNCHANGED Channel!chanVars
      BY <1>4 DEF Half, Channel!chanVars
    <2> QED BY <2>1
  <1> QED BY <1>1, <1>2, <1>3, <1>4 DEF ChannelStep, Moves

(* Whatever the users, the socket and stop() do and in whatever order, for *)
(* every bound, the connection is the channel that tcpconn.h promises: no *)
(* half opens again, a draining half is shut only after its last byte, the *)
(* descriptor is released once. *)
THEOREM Refinement == Spec => ImplementsChannel
  <1>1. Init => ChanInv /\ Channel!ChannelInit
    <2>1. Init => Drains(d)
      BY DEF Init, Drains
    <2>2. Init => Channel!ChannelInit
      BY DEF Init, Channel!ChannelInit, NotClosed, R, W
    <2> QED BY <2>1, <2>2, InitInv DEF ChanInv
  <1>2. ChanInv /\ [Next]_vars => ChanInv' /\ [Channel!ChannelNext]_(Channel!chanVars)
    BY NextSteps, StepsRefine
  <1> QED BY <1>1, <1>2, PTL DEF Spec, ImplementsChannel, Channel!ChannelSpec
========================================
