---------------------------- MODULE EventLoopProofs ----------------------------
(****************************************)
(* What is proved of cflib/util: the ring of ThreadFifo implements the *)
(* queue of BoundedFifo, a loop does not go to sleep on work, mails are *)
(* handed over in turn, the kernel reports on what is watched, timers are *)
(* called in the order they are due, and the log tells who did what. *)
(****************************************)
EXTENDS ThreadFifo, AsyncWake, IOWatchers, TimerHeap, Mailer, LogFile,
        SequenceTheorems, FiniteSetTheorems, WellFoundedInduction, TLAPS

(****************************************)
(* The inductive invariant *)
(****************************************)

InRing(u) == pc[u] \notin {"idle", "lock"}

(* The spinlock is taken while a thread is inside, and admits one. *)
OneInside ==
  /\ \A u \in Users : InRing(u) => sl
  /\ \A u, v \in Users : InRing(u) /\ InRing(v) => u = v

Storing == \E u \in Users : pc[u] \in {"store", "stored"}

(* writer_ is as far ahead of reader_ as there are values between them; a *)
(* thread moves it after it has counted. *)
Span  == IF Storing THEN count - 1 ELSE IF Taking THEN count + 1 ELSE count
Apart == writer = (reader + Span) % Max

(* What a thread inside knows of the ring *)
Knows(u) ==
  /\ pc[u] \in {"store", "stored"} => op[u].op = "put" /\ count > 0
  /\ pc[u] = "stored" => buffer[writer] = op[u].data
  /\ pc[u] \in {"load", "loaded"} => op[u].op = "take" /\ count < Max
  /\ pc[u] = "loaded" => rv[u] = buffer[reader]
  /\ pc[u] = "unlock" /\ op[u].op = "put" =>
       \/ rv[u] = TRUE /\ count > 0 /\ buffer[(reader + count - 1) % Max] = op[u].data
       \/ rv[u] = FALSE /\ count = Max
  /\ pc[u] = "unlock" /\ op[u].op = "take" =>
       \/ rv[u] = NoData /\ count = 0
       \/ rv[u] \in Data /\ count < Max /\ rv[u] = buffer[(reader - 1 + Max) % Max]

(* Every place between reader_ and writer_ holds a value. *)
RingFilled == \A i \in 1 .. Length : buffer[(Start + i - 1) % Max] \in Data

IInv == TypeOK /\ OneInside /\ Apart /\ RingFilled /\ \A u \in Users : Knows(u)

(****************************************)
(* Arithmetic of the ring *)
(****************************************)

(* A remainder of a number below three times the size. *)
LEMMA Wrap ==
  ASSUME NEW a \in Int, 0 <= a, a < 3 * Max
  PROVE  a % Max = IF a < Max THEN a ELSE IF a < 2 * Max THEN a - Max ELSE a - 2 * Max
<1>1. CASE a < Max
  BY <1>1, FifoAssumption, SMT
<1>2. CASE a >= Max /\ a < 2 * Max
  BY <1>2, FifoAssumption, SMT
<1>3. CASE a >= 2 * Max
  BY <1>3, FifoAssumption, SMT
<1> QED BY <1>1, <1>2, <1>3, FifoAssumption

(* A place of the ring *)
LEMMA RingPlace ==
  ASSUME NEW a \in Int
  PROVE  a % Max \in Index
BY FifoAssumption, SMT DEF Index

(****************************************)
(* The thread inside decides how the ring is read. *)
(****************************************)

(* Nobody inside: the count is the length. *)
LEMMA Nobody ==
  ASSUME \A u \in Users : ~InRing(u)
  PROVE  Length = count /\ Start = reader /\ Span = count
BY DEF InRing, Length, Start, Span, Adding, Taking, Removed, Storing

(* One thread inside: its place and its result tell the rest. *)
LEMMA Somebody ==
  ASSUME NEW u \in Users, InRing(u), OneInside
  PROVE  /\ Storing <=> pc[u] \in {"store", "stored"}
         /\ Adding <=> \/ pc[u] \in {"store", "stored"}
                       \/ pc[u] = "unlock" /\ op[u].op = "put" /\ rv[u] = TRUE
         /\ Taking <=> pc[u] \in {"load", "loaded"}
         /\ Removed <=> pc[u] = "unlock" /\ op[u].op = "take" /\ rv[u] # NoData
BY DEF InRing, OneInside, Adding, Taking, Removed, Storing

(****************************************)
(* Every step keeps the invariant. *)
(****************************************)

LEMMA OperationType ==
  ASSUME NEW o \in Operation
  PROVE  \/ o.op = "put" /\ o.data \in Data
         \/ o.op = "take"
BY DEF Operation

(* A step of a thread that is inside does not let another one in. *)
LEMMA Exclusion == ASSUME TypeOK, OneInside, [Next]_vars PROVE OneInside'
<1> SUFFICES ASSUME Next PROVE OneInside'
  BY DEF vars, ring, OneInside, InRing
<1> PICK u \in Users : Begin(u) \/ Lock(u) \/ Put(u) \/ Take(u) \/ Unlock(u)
  BY DEF Next
<1>1. pc' = [pc EXCEPT ![u] = pc'[u]]
  BY DEF TypeOK, Begin, Lock, Put, Take, Unlock, Goto, PutCount, PutFull, Store, NextWriter,
         TakeCount, TakeEmpty, Load, NextReader
<1>2. CASE Begin(u) \/ Lock(u)
  BY <1>2 DEF TypeOK, OneInside, InRing, Begin, Lock, Goto
<1>3. CASE Put(u) \/ Take(u)
  <2>1. InRing(u) /\ sl' = sl
    BY <1>3 DEF InRing, Put, Take, Goto, PutCount, PutFull, Store, NextWriter,
                TakeCount, TakeEmpty, Load, NextReader
  <2> QED BY <1>1, <2>1 DEF TypeOK, OneInside, InRing
<1>4. CASE Unlock(u)
  BY <1>4 DEF TypeOK, OneInside, InRing, Unlock, Goto
<1> QED BY <1>2, <1>3, <1>4

LEMMA Types == ASSUME IInv, [Next]_vars PROVE TypeOK'
<1> SUFFICES ASSUME Next PROVE TypeOK'
  BY DEF IInv, TypeOK, vars, ring
<1> PICK u \in Users : Begin(u) \/ Lock(u) \/ Put(u) \/ Take(u) \/ Unlock(u)
  BY DEF Next
<1> USE DEF IInv, TypeOK, Goto, Returning, ring
<1>1. CASE Begin(u)
  <2>1. PICK o \in Operation : op' = [op EXCEPT ![u] = o]
    BY <1>1 DEF Begin
  <2>2. op' \in [Users -> Operation]
    BY <2>1
  <2>3. pc' \in [Users -> {"idle", "lock", "count", "store", "stored", "load", "loaded", "unlock"}]
    BY <1>1 DEF Begin
  <2>4. rv' \in [Users -> Data \cup {NoData} \cup BOOLEAN]
    BY <1>1 DEF Begin
  <2>5. UNCHANGED <<count, reader, writer, buffer, sl>>
    BY <1>1 DEF Begin
  <2> QED BY <2>2, <2>3, <2>4, <2>5
<1>2. CASE Lock(u) \/ Unlock(u)
  BY <1>2 DEF Lock, Unlock
<1>3. CASE PutCount(u)
  BY <1>3, FifoAssumption DEF PutCount
<1>9. CASE PutFull(u)
  <2>1. rv' \in [Users -> Data \cup {NoData} \cup BOOLEAN]
    BY <1>9 DEF PutFull
  <2> QED BY <1>9, <2>1 DEF PutFull
<1>4. CASE Store(u)
  <2>1. op[u].data \in Data
    BY <1>4, OperationType DEF Store, Knows
  <2> QED BY <1>4, <2>1 DEF Store
<1>5. CASE NextWriter(u)
  <2>1. writer' \in Index
    BY <1>5, RingPlace DEF NextWriter, Index
  <2>2. rv' \in [Users -> Data \cup {NoData} \cup BOOLEAN]
    BY <1>5 DEF NextWriter
  <2> QED BY <1>5, <2>1, <2>2 DEF NextWriter
<1>6. CASE TakeCount(u) \/ TakeEmpty(u)
  BY <1>6, FifoAssumption DEF TakeCount, TakeEmpty
<1>7. CASE Load(u)
  BY <1>7 DEF Load
<1>8. CASE NextReader(u)
  <2>1. reader' \in Index
    BY <1>8, RingPlace DEF NextReader, Index
  <2> QED BY <1>8, <2>1 DEF NextReader
<1> QED BY <1>1, <1>2, <1>3, <1>4, <1>5, <1>6, <1>7, <1>8, <1>9 DEF Put, Take

(* What one thread inside knows, the others need not. *)
LEMMA OneKnows ==
  ASSUME NEW u \in Users, OneInside', InRing(u)', Knows(u)'
  PROVE  \A v \in Users : Knows(v)'
BY DEF OneInside, InRing, Knows

(****************************************)
(* One lemma for each kind of step: it keeps the rest of the invariant, *)
(* and is a step of the queue or changes nothing of it. *)
(****************************************)

Rest == Apart /\ RingFilled /\ \A v \in Users : Knows(v)
Same == Contents' = Contents /\ Doing' = Doing

(* The queue is what the ring shows. *)
LEMMA SameContents ==
  ASSUME Length' = Length,
         \A i \in 1 .. Length : buffer'[(Start' + i - 1) % Max] = buffer[(Start + i - 1) % Max]
  PROVE  Contents' = Contents /\ (RingFilled => RingFilled')
BY DEF Contents, RingFilled

(* Waiting for the lock and getting it changes nothing of the ring. *)
LEMMA OutsideStep ==
  ASSUME IInv, TypeOK', NEW u \in Users, Begin(u) \/ Lock(u)
  PROVE  /\ Rest'
         /\ Contents' = Contents
<1> DEFINE Out == {"idle", "lock", "count"}
<1>1. /\ pc[u] \in Out /\ pc'[u] \in Out /\ UNCHANGED <<count, reader, writer, buffer>>
      /\ \A v \in Users \ {u} : pc'[v] = pc[v] /\ op'[v] = op[v] /\ rv'[v] = rv[v]
  BY DEF IInv, TypeOK, Begin, Lock, Goto, Returning, ring
<1>2. (Storing' <=> Storing) /\ (Adding' <=> Adding) /\ (Taking' <=> Taking) /\ (Removed' <=> Removed)
  BY <1>1 DEF Storing, Adding, Taking, Removed
<1>3. Length' = Length /\ Start' = Start /\ Span' = Span
  BY <1>1, <1>2 DEF Length, Start, Span
<1>4. Apart' /\ RingFilled' /\ Contents' = Contents
  BY <1>1, <1>3, SameContents DEF IInv, Apart
<1>5. \A v \in Users : Knows(v)'
  <2> SUFFICES ASSUME NEW v \in Users PROVE Knows(v)'
    OBVIOUS
  <2>1. Knows(v)
    BY DEF IInv
  <2>2. CASE v = u
    BY <1>1, <2>2 DEF Knows
  <2>3. CASE v # u
    BY <1>1, <2>1, <2>3 DEF Knows
  <2> QED BY <2>2, <2>3
<1> QED BY <1>4, <1>5 DEF Rest

LEMMA BeginStep ==
  ASSUME IInv, TypeOK', NEW u \in Users, Begin(u)
  PROVE  Rest' /\ Fifo!Invoke(u)
<1>1. Rest' /\ Contents' = Contents
  BY OutsideStep
<1>2. PICK o \in Operation : op' = [op EXCEPT ![u] = o]
  BY DEF Begin
<1>3. "result" \in DOMAIN Doing[u]
  BY DEF Begin, Goto, Doing
<1>4. Doing' = [Doing EXCEPT ![u] = o]
  BY <1>2 DEF Begin, Goto, Returning, Doing, IInv, TypeOK
<1>5. o \in {Fifo!PutOp(v) : v \in Data} \cup {Fifo!TakeOp}
  BY DEF Operation, Fifo!PutOp, Fifo!TakeOp
<1> QED BY <1>1, <1>3, <1>4, <1>5 DEF Fifo!Invoke

LEMMA LockStep ==
  ASSUME IInv, TypeOK', NEW u \in Users, Lock(u)
  PROVE  Rest' /\ Same
<1>1. Rest' /\ Contents' = Contents
  BY OutsideStep
<1>2. Doing' = Doing
  BY DEF Lock, Goto, Doing, IInv, TypeOK
<1> QED BY <1>1, <1>2 DEF Same

(* A thread inside that stays inside goes on with its operation. *)
LEMMA SameDoing ==
  ASSUME TypeOK, NEW u \in Users, pc[u] # "idle", pc'[u] # "idle", op' = op,
         pc' = [pc EXCEPT ![u] = pc'[u]],
         \A v \in Users \ {u} : rv'[v] = rv[v]
  PROVE  Doing' = Doing
<1>1. \A v \in Users : (IF pc'[v] = "idle" THEN [result |-> rv'[v]] ELSE op'[v])
                         = (IF pc[v] = "idle" THEN [result |-> rv[v]] ELSE op[v])
  BY DEF TypeOK
<1> QED BY <1>1 DEF Doing

LEMMA PutCountStep ==
  ASSUME IInv, TypeOK', OneInside', NEW u \in Users, PutCount(u)
  PROVE  Rest' /\ Same
<1>1. /\ pc[u] = "count" /\ pc'[u] = "store" /\ pc' = [pc EXCEPT ![u] = "store"]
      /\ count' = count + 1 /\ UNCHANGED <<reader, writer, buffer, op, rv>>
      /\ count \in Nat /\ op[u].op = "put"
  BY DEF PutCount, Goto, IInv, TypeOK
<1>2. Length = count /\ Start = reader /\ Span = count
  BY <1>1, Somebody DEF IInv, InRing, Length, Start, Span
<1>3. Storing' /\ Adding' /\ ~Removed'
  BY <1>1 DEF Storing, Adding, Removed, InRing, OneInside
<1>4. Length' = count /\ Start' = reader /\ Span' = count
  BY <1>1, <1>3 DEF Length, Start, Span
<1>5. Contents' = Contents /\ RingFilled' /\ Apart'
  BY <1>1, <1>2, <1>4, SameContents DEF IInv, Apart
<1>6. Knows(u)'
  BY <1>1 DEF Knows
<1>7. Doing' = Doing
  BY <1>1, SameDoing DEF IInv
<1> QED BY <1>1, <1>5, <1>6, <1>7, OneKnows DEF Rest, Same, InRing

LEMMA PutFullStep ==
  ASSUME IInv, TypeOK', OneInside', NEW u \in Users, PutFull(u)
  PROVE  Rest' /\ Same
<1>1. /\ pc[u] = "count" /\ pc'[u] = "unlock" /\ pc' = [pc EXCEPT ![u] = "unlock"]
      /\ rv'[u] = FALSE /\ \A v \in Users \ {u} : rv'[v] = rv[v]
      /\ UNCHANGED <<count, reader, writer, buffer, op>>
      /\ count = Max /\ op[u].op = "put"
  BY DEF PutFull, Goto, Returning, ring, IInv, TypeOK
<1>2. Length = count /\ Start = reader /\ Span = count
  BY <1>1, Somebody DEF IInv, InRing, Length, Start, Span
<1>3. ~Storing' /\ ~Adding' /\ ~Taking' /\ ~Removed'
  BY <1>1 DEF Storing, Adding, Taking, Removed, InRing, OneInside
<1>4. Length' = count /\ Start' = reader /\ Span' = count
  BY <1>1, <1>3 DEF Length, Start, Span
<1>5. Contents' = Contents /\ RingFilled' /\ Apart'
  BY <1>1, <1>2, <1>4, SameContents DEF IInv, Apart
<1>6. Knows(u)'
  BY <1>1 DEF Knows
<1>7. Doing' = Doing
  BY <1>1, SameDoing DEF IInv
<1> QED BY <1>1, <1>5, <1>6, <1>7, OneKnows DEF Rest, Same, InRing

LEMMA StoreStep ==
  ASSUME IInv, TypeOK', OneInside', NEW u \in Users, Store(u)
  PROVE  Rest' /\ Same
<1>1. /\ pc[u] = "store" /\ pc'[u] = "stored" /\ pc' = [pc EXCEPT ![u] = "stored"]
      /\ buffer' = [buffer EXCEPT ![writer] = op[u].data]
      /\ UNCHANGED <<count, reader, writer, op, rv>>
  BY DEF Store, Goto, IInv, TypeOK
<1>2. /\ op[u].op = "put" /\ count \in 1 .. Max
      /\ reader \in 0 .. Max - 1 /\ writer \in Index /\ DOMAIN buffer = Index
  BY <1>1, FifoAssumption DEF IInv, Knows, TypeOK, Index
<1>3. Length = count - 1 /\ Start = reader /\ Span = count - 1
  BY <1>1, Somebody DEF IInv, InRing, Length, Start, Span
<1>4. Storing' /\ Adding' /\ ~Removed'
  BY <1>1 DEF Storing, Adding, Removed, InRing, OneInside
<1>5. Length' = count - 1 /\ Start' = reader /\ Span' = count - 1
  BY <1>1, <1>4 DEF Length, Start, Span
<1>6. writer = (reader + count - 1) % Max
  BY <1>2, <1>3 DEF IInv, Apart
<1>7. \A i \in 1 .. count - 1 : (reader + i - 1) % Max # writer
  BY <1>2, <1>6, Wrap, FifoAssumption
<1>8. \A i \in 1 .. Length : buffer'[(Start' + i - 1) % Max] = buffer[(Start + i - 1) % Max]
  <2> SUFFICES ASSUME NEW i \in 1 .. count - 1
               PROVE  buffer'[(reader + i - 1) % Max] = buffer[(reader + i - 1) % Max]
    BY <1>1, <1>3, <1>5
  <2> DEFINE j == (reader + i - 1) % Max
  <2>1. j # writer
    BY <1>7
  <2>2. j \in DOMAIN buffer
    BY <1>2, RingPlace
  <2> HIDE DEF j
  <2>3. buffer'[j] = buffer[j]
    BY <1>1, <2>1, <2>2
  <2> QED BY <2>3 DEF j
<1>9. Contents' = Contents /\ RingFilled' /\ Apart'
  BY <1>1, <1>3, <1>5, <1>8, SameContents DEF IInv, Apart
<1>10. Knows(u)'
  BY <1>1, <1>2 DEF Knows
<1>11. Doing' = Doing
  BY <1>1, SameDoing DEF IInv
<1> QED BY <1>1, <1>9, <1>10, <1>11, OneKnows DEF Rest, Same, InRing

LEMMA NextWriterStep ==
  ASSUME IInv, TypeOK', OneInside', NEW u \in Users, NextWriter(u)
  PROVE  Rest' /\ Same
<1>1. /\ pc[u] = "stored" /\ pc'[u] = "unlock" /\ pc' = [pc EXCEPT ![u] = "unlock"]
      /\ rv'[u] = TRUE /\ \A v \in Users \ {u} : rv'[v] = rv[v]
      /\ writer' = (writer + 1) % Max /\ UNCHANGED <<count, reader, buffer, op>>
  BY DEF NextWriter, Goto, Returning, IInv, TypeOK
<1>2. /\ op[u].op = "put" /\ count \in 1 .. Max /\ reader \in 0 .. Max - 1
      /\ buffer[writer] = op[u].data
  BY <1>1, FifoAssumption DEF IInv, Knows, TypeOK, Index
<1>3. Length = count - 1 /\ Start = reader /\ Span = count - 1
  BY <1>1, Somebody DEF IInv, InRing, Length, Start, Span
<1>4. Adding' /\ ~Storing' /\ ~Taking' /\ ~Removed'
  BY <1>1, <1>2 DEF Storing, Adding, Taking, Removed, InRing, OneInside
<1>5. Length' = count - 1 /\ Start' = reader /\ Span' = count
  BY <1>1, <1>4 DEF Length, Start, Span
<1>6. writer = (reader + count - 1) % Max
  BY <1>2, <1>3 DEF IInv, Apart
<1>7. writer' = (reader + count) % Max
  BY <1>1, <1>2, <1>6, Wrap, FifoAssumption
<1>8. Contents' = Contents /\ RingFilled'
  BY <1>1, <1>3, <1>5, SameContents DEF IInv
<1>9. Apart'
  BY <1>1, <1>5, <1>7 DEF Apart
<1>10. Knows(u)'
  BY <1>1, <1>2, <1>6 DEF Knows
<1>11. Doing' = Doing
  BY <1>1, SameDoing DEF IInv
<1> QED BY <1>1, <1>8, <1>9, <1>10, <1>11, OneKnows DEF Rest, Same, InRing

LEMMA TakeCountStep ==
  ASSUME IInv, TypeOK', OneInside', NEW u \in Users, TakeCount(u)
  PROVE  Rest' /\ Same
<1>1. /\ pc[u] = "count" /\ pc'[u] = "load" /\ pc' = [pc EXCEPT ![u] = "load"]
      /\ count' = count - 1 /\ UNCHANGED <<reader, writer, buffer, op, rv>>
      /\ count \in 1 .. Max /\ op[u].op = "take"
  BY FifoAssumption DEF TakeCount, Goto, IInv, TypeOK
<1>2. Length = count /\ Start = reader /\ Span = count
  BY <1>1, Somebody DEF IInv, InRing, Length, Start, Span
<1>3. Taking' /\ ~Storing' /\ ~Adding' /\ ~Removed'
  BY <1>1 DEF Storing, Adding, Taking, Removed, InRing, OneInside
<1>4. Length' = count /\ Start' = reader /\ Span' = count
  BY <1>1, <1>3 DEF Length, Start, Span
<1>5. Contents' = Contents /\ RingFilled' /\ Apart'
  BY <1>1, <1>2, <1>4, SameContents DEF IInv, Apart
<1>6. Knows(u)'
  BY <1>1, FifoAssumption DEF Knows
<1>7. Doing' = Doing
  BY <1>1, SameDoing DEF IInv
<1> QED BY <1>1, <1>5, <1>6, <1>7, OneKnows DEF Rest, Same, InRing

LEMMA TakeEmptyStep ==
  ASSUME IInv, TypeOK', OneInside', NEW u \in Users, TakeEmpty(u)
  PROVE  Rest' /\ Same
<1>1. /\ pc[u] = "count" /\ pc'[u] = "unlock" /\ pc' = [pc EXCEPT ![u] = "unlock"]
      /\ rv'[u] = NoData /\ \A v \in Users \ {u} : rv'[v] = rv[v]
      /\ UNCHANGED <<count, reader, writer, buffer, op>>
      /\ count = 0 /\ op[u].op = "take"
  BY DEF TakeEmpty, Goto, Returning, ring, IInv, TypeOK
<1>2. Length = count /\ Start = reader /\ Span = count
  BY <1>1, Somebody DEF IInv, InRing, Length, Start, Span
<1>3. ~Storing' /\ ~Adding' /\ ~Taking' /\ ~Removed'
  BY <1>1 DEF Storing, Adding, Taking, Removed, InRing, OneInside
<1>4. Length' = count /\ Start' = reader /\ Span' = count
  BY <1>1, <1>3 DEF Length, Start, Span
<1>5. Contents' = Contents /\ RingFilled' /\ Apart'
  BY <1>1, <1>2, <1>4, SameContents DEF IInv, Apart
<1>6. Knows(u)'
  BY <1>1 DEF Knows
<1>7. Doing' = Doing
  BY <1>1, SameDoing DEF IInv
<1> QED BY <1>1, <1>5, <1>6, <1>7, OneKnows DEF Rest, Same, InRing

LEMMA LoadStep ==
  ASSUME IInv, TypeOK', OneInside', NEW u \in Users, Load(u)
  PROVE  Rest' /\ Same
<1>1. /\ pc[u] = "load" /\ pc'[u] = "loaded" /\ pc' = [pc EXCEPT ![u] = "loaded"]
      /\ rv'[u] = buffer[reader] /\ \A v \in Users \ {u} : rv'[v] = rv[v]
      /\ UNCHANGED <<count, reader, writer, buffer, op>>
  BY DEF Load, Goto, Returning, ring, IInv, TypeOK
<1>2. op[u].op = "take" /\ count < Max
  BY <1>1 DEF IInv, Knows
<1>3. Length = count + 1 /\ Start = reader /\ Span = count + 1
  BY <1>1, Somebody DEF IInv, InRing, Length, Start, Span
<1>4. Taking' /\ ~Storing' /\ ~Adding' /\ ~Removed'
  BY <1>1 DEF Storing, Adding, Taking, Removed, InRing, OneInside
<1>5. Length' = count + 1 /\ Start' = reader /\ Span' = count + 1
  BY <1>1, <1>4 DEF Length, Start, Span
<1>6. Contents' = Contents /\ RingFilled' /\ Apart'
  BY <1>1, <1>3, <1>5, SameContents DEF IInv, Apart
<1>7. Knows(u)'
  BY <1>1, <1>2 DEF Knows
<1>8. Doing' = Doing
  BY <1>1, SameDoing DEF IInv
<1> QED BY <1>1, <1>6, <1>7, <1>8, OneKnows DEF Rest, Same, InRing

LEMMA NextReaderStep ==
  ASSUME IInv, TypeOK', OneInside', NEW u \in Users, NextReader(u)
  PROVE  Rest' /\ Same
<1>1. /\ pc[u] = "loaded" /\ pc'[u] = "unlock" /\ pc' = [pc EXCEPT ![u] = "unlock"]
      /\ reader' = (reader + 1) % Max /\ UNCHANGED <<count, writer, buffer, op, rv>>
  BY DEF NextReader, Goto, IInv, TypeOK
<1>2. /\ op[u].op = "take" /\ count \in 0 .. Max - 1 /\ reader \in 0 .. Max - 1
      /\ rv[u] = buffer[reader]
  BY <1>1, FifoAssumption DEF IInv, Knows, TypeOK, Index
<1>3. Length = count + 1 /\ Start = reader /\ Span = count + 1
  BY <1>1, Somebody DEF IInv, InRing, Length, Start, Span
<1>4. rv[u] \in Data
  <2>1. (reader + 1 - 1) % Max = reader
    BY <1>2, Wrap, FifoAssumption
  <2>2. 1 \in 1 .. Length
    BY <1>2, <1>3
  <2>3. buffer[(reader + 1 - 1) % Max] \in Data
    BY <1>3, <2>2 DEF IInv, RingFilled
  <2> QED BY <1>2, <2>1, <2>3
<1>5. Removed' /\ ~Storing' /\ ~Adding' /\ ~Taking'
  BY <1>1, <1>2, <1>4, FifoAssumption DEF Storing, Adding, Taking, Removed, InRing, OneInside
<1>6. Length' = count + 1 /\ Start' = reader' - 1 + Max /\ Span' = count
  BY <1>1, <1>5 DEF Length, Start, Span
<1>7. reader' = IF reader = Max - 1 THEN 0 ELSE reader + 1
  BY <1>1, <1>2, Wrap, FifoAssumption
<1>8. \A i \in 1 .. count + 1 : (reader' - 1 + Max + i - 1) % Max = (reader + i - 1) % Max
  BY <1>2, <1>7, Wrap, FifoAssumption
<1>9. Contents' = Contents /\ RingFilled'
  BY <1>1, <1>3, <1>6, <1>8, SameContents DEF IInv
<1>10. Apart'
  <2>1. (reader + count + 1) % Max = (reader' + count) % Max
    BY <1>2, <1>7, Wrap, FifoAssumption
  <2> QED BY <1>1, <1>2, <1>3, <1>6, <2>1 DEF IInv, Apart
<1>11. Knows(u)'
  <2>1. (reader' - 1 + Max) % Max = reader
    BY <1>2, <1>7, Wrap, FifoAssumption
  <2>2. pc'[u] = "unlock" /\ op'[u].op = "take" /\ op'[u].op # "put"
    BY <1>1, <1>2
  <2>3. rv'[u] \in Data /\ count' < Max /\ rv'[u] = buffer'[(reader' - 1 + Max) % Max]
    BY <1>1, <1>2, <1>4, <2>1, FifoAssumption
  <2> QED BY <2>2, <2>3 DEF Knows
<1>12. Doing' = Doing
  BY <1>1, SameDoing DEF IInv
<1> QED BY <1>1, <1>9, <1>10, <1>11, <1>12, OneKnows DEF Rest, Same, InRing

(* The values inside are a sequence of data. *)
LEMMA ContentsSeq ==
  ASSUME RingFilled, Length \in Nat
  PROVE  /\ Contents \in Seq(Data) /\ Len(Contents) = Length
         /\ \A i \in 1 .. Length : Contents[i] = buffer[(Start + i - 1) % Max]
<1>1. Contents \in [1 .. Length -> Data]
  BY DEF Contents, RingFilled
<1>2. Contents \in Seq(Data)
  BY <1>1, SeqDef
<1>3. Len(Contents) = Length
  BY <1>1, <1>2, LenProperties
<1> QED BY <1>2, <1>3 DEF Contents

(* A sequence that has one value more at its end *)
LEMMA Appended ==
  ASSUME NEW s \in Seq(Data), NEW t \in Seq(Data), NEW v \in Data,
         Len(t) = Len(s) + 1, t[Len(t)] = v, \A i \in 1 .. Len(s) : t[i] = s[i]
  PROVE  t = Append(s, v)
<1>1. Append(s, v) \in Seq(Data) /\ Len(Append(s, v)) = Len(s) + 1
  BY AppendProperties
<1>2. \A i \in 1 .. Len(s) + 1 : Append(s, v)[i] = t[i]
  BY AppendProperties, LenProperties
<1> QED BY <1>1, <1>2, SeqEqual

(* A sequence that has lost its first value *)
LEMMA Beheaded ==
  ASSUME NEW s \in Seq(Data), NEW t \in Seq(Data),
         Len(s) = Len(t) + 1, \A i \in 1 .. Len(t) : t[i] = s[i + 1]
  PROVE  s # <<>> /\ t = Tail(s) /\ Head(s) = s[1]
<1>1. s # <<>>
  BY LenProperties, EmptySeq
<1>2. Tail(s) \in Seq(Data) /\ Len(Tail(s)) = Len(t)
  BY <1>1, HeadTailProperties, LenProperties
<1>3. \A i \in 1 .. Len(t) : Tail(s)[i] = t[i]
  BY <1>1, <1>2, HeadTailProperties
<1>4. t = Tail(s)
  BY <1>2, <1>3, SeqEqual
<1> QED BY <1>1, <1>4, HeadTailProperties

(* Where the operation takes effect *)
LEMMA UnlockStep ==
  ASSUME IInv, TypeOK', OneInside', NEW u \in Users, Unlock(u)
  PROVE  Rest' /\ (Fifo!AbstractPut(u) \/ Fifo!AbstractTake(u))
<1>1. /\ pc[u] = "unlock" /\ pc' = [pc EXCEPT ![u] = "idle"]
      /\ UNCHANGED <<count, reader, writer, buffer, op, rv>>
  BY DEF Unlock, Goto, ring
<1>2. count \in 0 .. Max /\ reader \in 0 .. Max - 1 /\ Max \in Nat
  BY FifoAssumption DEF IInv, TypeOK, Index
<1>3. InRing(u) /\ \A v \in Users : ~InRing(v)'
  BY <1>1 DEF IInv, TypeOK, OneInside, InRing
<1>4. Length' = count /\ Start' = reader /\ Span' = count
  BY <1>1, <1>3 DEF InRing, Length, Start, Span, Adding, Taking, Removed, Storing
<1>5. Span = count
  BY <1>1, <1>3, Somebody DEF IInv, Span
<1>6. Apart' /\ \A v \in Users : Knows(v)'
  BY <1>1, <1>3, <1>4, <1>5 DEF IInv, Apart, Knows, InRing
<1>7. Doing[u] = op[u] /\ Doing' = [Doing EXCEPT ![u] = Fifo!Result(rv[u])]
  BY <1>1 DEF Doing, Fifo!Result, IInv, TypeOK
<1>8. op[u].op = "put" => op[u].data \in Data /\ op[u] = Fifo!PutOp(op[u].data)
  BY DEF IInv, TypeOK, Operation, Fifo!PutOp
<1>9. op[u].op = "take" => op[u] = Fifo!TakeOp
  BY DEF IInv, TypeOK, Operation, Fifo!TakeOp
<1>10. RingFilled
  BY DEF IInv
<1>11. CASE op[u].op = "put" /\ rv[u] = TRUE
  <2>1. /\ count \in 1 .. Max /\ buffer[(reader + count - 1) % Max] = op[u].data
        /\ Length = count - 1 /\ Start = reader
    <3>1. count > 0 /\ buffer[(reader + count - 1) % Max] = op[u].data
      BY <1>1, <1>11 DEF IInv, Knows
    <3>2. Adding /\ ~Removed
      BY <1>1, <1>3, <1>11, Somebody DEF IInv
    <3> QED BY <1>2, <3>1, <3>2 DEF Length, Start
  <2>2. RingFilled'
    BY <1>1, <1>4, <1>8, <1>10, <1>11, <2>1 DEF RingFilled
  <2>3. /\ Contents \in Seq(Data) /\ Len(Contents) = count - 1
        /\ \A i \in 1 .. count - 1 : Contents[i] = buffer[(reader + i - 1) % Max]
    BY <1>10, <2>1, ContentsSeq
  <2>4. /\ Contents' \in Seq(Data) /\ Len(Contents') = count
        /\ \A i \in 1 .. count : Contents'[i] = buffer[(reader + i - 1) % Max]
    BY <1>1, <1>2, <1>4, <2>2, SeqDef, LenProperties DEF Contents, RingFilled
  <2>5. Contents' = Append(Contents, op[u].data)
    <3>1. Contents'[Len(Contents')] = op[u].data
      BY <2>1, <2>4
    <3>2. \A i \in 1 .. Len(Contents) : Contents'[i] = Contents[i]
      BY <2>1, <2>3, <2>4
    <3>3. op[u].data \in Data /\ Len(Contents') = Len(Contents) + 1
      BY <1>8, <1>11, <2>1, <2>3, <2>4
    <3> QED BY <2>3, <2>4, <3>1, <3>2, <3>3, Appended
  <2>6. Fifo!AbstractPut(u)
    <3>1. op[u].data \in Data /\ Doing[u] = Fifo!PutOp(op[u].data)
      BY <1>7, <1>8, <1>11
    <3>2. Len(Contents) < Max
      BY <1>2, <2>1, <2>3
    <3>3. Doing' = [Doing EXCEPT ![u] = Fifo!Result(TRUE)]
      BY <1>7, <1>11, Zenon
    <3> QED BY <2>5, <3>1, <3>2, <3>3 DEF Fifo!AbstractPut
  <2> QED BY <1>6, <2>2, <2>6 DEF Rest
<1>12. CASE op[u].op = "put" /\ rv[u] # TRUE
  <2>1. rv[u] = FALSE /\ count = Max
    BY <1>1, <1>12 DEF IInv, Knows
  <2>2. Length = count /\ Start = reader
    BY <1>1, <1>3, <1>12, Somebody DEF IInv, Length, Start
  <2>3. Contents' = Contents /\ RingFilled'
    BY <1>1, <1>4, <1>10, <2>2, SameContents
  <2>4. Len(Contents) = Max
    BY <1>2, <1>10, <2>1, <2>2, ContentsSeq
  <2>5. Fifo!AbstractPut(u)
    <3>1. op[u].data \in Data /\ Doing[u] = Fifo!PutOp(op[u].data)
      BY <1>7, <1>8, <1>12
    <3>2. ~(Len(Contents) < Max)
      BY <1>2, <2>4
    <3>3. Doing' = [Doing EXCEPT ![u] = Fifo!Result(FALSE)]
      BY <1>7, <2>1, Zenon
    <3> QED BY <2>3, <3>1, <3>2, <3>3 DEF Fifo!AbstractPut
  <2> QED BY <1>6, <2>3, <2>5 DEF Rest
<1>13. CASE op[u].op = "take" /\ rv[u] = NoData
  <2>1. Length = count /\ Start = reader
    BY <1>1, <1>3, <1>13, Somebody DEF IInv, Length, Start
  <2>2. count = 0
    BY <1>1, <1>13, FifoAssumption DEF IInv, Knows
  <2>3. Contents' = Contents /\ RingFilled'
    BY <1>1, <1>4, <1>10, <2>1, SameContents
  <2>4. Contents = <<>>
    BY <1>10, <2>1, <2>2, ContentsSeq, EmptySeq
  <2>5. Fifo!AbstractTake(u)
    BY <1>7, <1>9, <1>13, <2>3, <2>4 DEF Fifo!AbstractTake
  <2> QED BY <1>6, <2>3, <2>5 DEF Rest
<1>14. CASE op[u].op = "take" /\ rv[u] # NoData
  <2>1. /\ count < Max /\ rv[u] = buffer[(reader - 1 + Max) % Max]
        /\ Length = count + 1 /\ Start = reader - 1 + Max
    BY <1>1, <1>3, <1>14, Somebody DEF IInv, Knows, Length, Start
  <2>2. \A i \in 1 .. count : (reader - 1 + Max + (i + 1) - 1) % Max = (reader + i - 1) % Max
    BY <1>2, <2>1, Wrap, FifoAssumption
  <2>3. /\ Contents \in Seq(Data) /\ Len(Contents) = count + 1
        /\ \A i \in 1 .. count + 1 : Contents[i] = buffer[(reader - 1 + Max + i - 1) % Max]
    BY <1>2, <1>10, <2>1, ContentsSeq
  <2>4. RingFilled'
    <3> SUFFICES ASSUME NEW i \in 1 .. count
                 PROVE  buffer[(reader + i - 1) % Max] \in Data
      BY <1>1, <1>4 DEF RingFilled
    <3>1. i + 1 \in 1 .. Length
      BY <1>2, <2>1
    <3> QED BY <1>10, <2>1, <2>2, <3>1 DEF RingFilled
  <2>5. /\ Contents' \in Seq(Data) /\ Len(Contents') = count
        /\ \A i \in 1 .. count : Contents'[i] = buffer[(reader + i - 1) % Max]
    BY <1>1, <1>2, <1>4, <2>4, SeqDef, LenProperties DEF Contents, RingFilled
  <2>6. \A i \in 1 .. count : Contents'[i] = Contents[i + 1]
    <3> SUFFICES ASSUME NEW i \in 1 .. count PROVE Contents'[i] = Contents[i + 1]
      OBVIOUS
    <3>1. i + 1 \in 1 .. count + 1
      BY <1>2
    <3> QED BY <2>2, <2>3, <2>5, <3>1
  <2>7. Contents # <<>> /\ Contents' = Tail(Contents) /\ Head(Contents) = Contents[1]
    BY <2>3, <2>5, <2>6, Beheaded
  <2>8. Contents[1] = rv[u]
    <3>1. 1 \in 1 .. count + 1 /\ reader - 1 + Max + 1 - 1 = reader - 1 + Max
      BY <1>2
    <3> QED BY <2>1, <2>3, <3>1
  <2>9. Fifo!AbstractTake(u)
    BY <1>7, <1>9, <1>14, <2>7, <2>8 DEF Fifo!AbstractTake
  <2> QED BY <1>6, <2>4, <2>9 DEF Rest
<1> QED BY <1>11, <1>12, <1>13, <1>14, OperationType DEF IInv, TypeOK

(****************************************)
(* The theorems *)
(****************************************)

LEMMA Initially == ASSUME Init PROVE IInv /\ Fifo!FifoInit
<1>1. TypeOK
  <2>1. [op |-> "take"] \in Operation
    BY DEF Operation
  <2>2. op \in [Users -> Operation]
    BY <2>1 DEF Init
  <2>3. buffer \in [Index -> Data \cup {NoData}]
    BY DEF Init
  <2>4. rv \in [Users -> Data \cup {NoData} \cup BOOLEAN]
    BY DEF Init
  <2>5. count \in 0 .. Max /\ reader \in Index /\ writer \in Index
    BY FifoAssumption DEF Init, Index
  <2> QED BY <2>2, <2>3, <2>4, <2>5 DEF Init, TypeOK
<1>2. \A u \in Users : ~InRing(u) /\ Knows(u)
  BY DEF Init, InRing, Knows
<1>3. Length = 0 /\ Start = 0 /\ Span = 0
  BY <1>2, Nobody DEF Init
<1>4. Apart
  BY <1>3, Wrap, FifoAssumption DEF Init, Apart
<1>5. RingFilled
  BY <1>3 DEF RingFilled
<1>6. Contents = <<>>
  BY <1>3, <1>5, ContentsSeq, EmptySeq
<1>7. Doing = [u \in Users |-> Fifo!Result(NoData)]
  BY DEF Init, Doing, Fifo!Result
<1> QED BY <1>1, <1>2, <1>4, <1>5, <1>6, <1>7 DEF IInv, OneInside, Fifo!FifoInit

(* A step of the ring keeps the invariant, and is one of the queue or *)
(* changes nothing of it. *)
LEMMA Step == ASSUME IInv, [Next]_vars PROVE IInv' /\ [Fifo!FifoNext]_<<Contents, Doing>>
<1>1. TypeOK' /\ OneInside'
  BY Types, Exclusion DEF IInv
<1>2. CASE UNCHANGED vars
  <2>1. UNCHANGED <<Length, Start, Span, Contents, Doing>>
    BY <1>2 DEF vars, ring, Length, Start, Span, Contents, Doing, Adding, Taking, Removed, Storing
  <2>2. Rest'
    BY <1>2, <2>1 DEF vars, ring, IInv, Rest, Apart, RingFilled, Knows
  <2> QED BY <1>1, <2>1, <2>2 DEF IInv, Rest
<1>3. CASE Next
  <2> PICK u \in Users : Begin(u) \/ Lock(u) \/ Put(u) \/ Take(u) \/ Unlock(u)
    BY <1>3 DEF Next
  <2>1. CASE Begin(u)
    BY <1>1, <2>1, BeginStep DEF IInv, Rest, Fifo!FifoNext
  <2>2. CASE Lock(u)
    BY <1>1, <2>2, LockStep DEF IInv, Rest, Same
  <2>3. CASE Put(u)
    BY <1>1, <2>3, PutCountStep, PutFullStep, StoreStep, NextWriterStep DEF Put, IInv, Rest, Same
  <2>4. CASE Take(u)
    BY <1>1, <2>4, TakeCountStep, TakeEmptyStep, LoadStep, NextReaderStep DEF Take, IInv, Rest, Same
  <2>5. CASE Unlock(u)
    BY <1>1, <2>5, UnlockStep DEF IInv, Rest, Fifo!FifoNext
  <2> QED BY <2>1, <2>2, <2>3, <2>4, <2>5
<1> QED BY <1>2, <1>3

(* The fields of the ring keep their types: the count stays between zero *)
(* and the size, the indices in the ring. *)
THEOREM TypeCorrect == Spec => []TypeOK
<1>1. Init => IInv
  BY Initially
<1>2. IInv /\ [Next]_vars => IInv'
  BY Step
<1>3. IInv => TypeOK
  BY DEF IInv
<1> QED BY <1>1, <1>2, <1>3, PTL DEF Spec

(* At most one thread is between the acquire and the release. *)
THEOREM MutualExclusion == Spec => []OneInside
<1>1. Init => IInv
  BY Initially
<1>2. IInv /\ [Next]_vars => IInv'
  BY Step
<1>3. IInv => OneInside
  BY DEF IInv
<1> QED BY <1>1, <1>2, <1>3, PTL DEF Spec

(* put() and take() behave as one step each of a bounded queue: nothing is *)
(* lost, repeated or overtaken, a put fails only when the ring is full and *)
(* a take yields nothing only when it is empty. *)
THEOREM Refinement == Spec => ImplementsFifo
<1>1. Init => IInv /\ Fifo!FifoInit
  BY Initially
<1>2. IInv /\ [Next]_vars => IInv' /\ [Fifo!FifoNext]_<<Contents, Doing>>
  BY Step
<1>3. [Fifo!FifoNext]_<<Contents, Doing>> => [Fifo!FifoNext]_(Fifo!fifoVars)
  BY DEF Fifo!fifoVars
<1> QED BY <1>1, <1>2, <1>3, PTL DEF Spec, ImplementsFifo, Fifo!FifoSpec

----------------------------------------
(****************************************)
(* ev_async_send: what stands between work that was put and the loop that *)
(* goes to sleep.  Each line hands the knowledge on to the next: work is *)
(* followed by sent, sent by async_pending, async_pending by a write to *)
(* the pipe or pipe_write_skipped, and that by a sender who takes it back *)
(* while the loop sleeps. *)
(****************************************)
Noticed == pipe \/ fed \cap {"read", "custom"} # {} \/ flag.skipped
             \/ lpc \in {"skipped", "pending", "clear"}

WakeInv ==
  /\ WakeTypeOK
  /\ \A s \in work : spc[s] = "sent" \/ flag.sent \/ "async" \in fed
  /\ flag.sent => \/ flag.pending \/ lpc \in {"scan", "taken"}
                  \/ \E s \in Senders : spc[s] \in {"test", "flag"}
  /\ flag.pending => Noticed \/ \E s \in Senders : spc[s] \in {"skip", "unskip", "write"}
  /\ lpc = "poll" /\ wait /\ flag.skipped =>
       \E s \in Senders : spc[s] \in {"wanted", "unskip"}
  /\ lpc \in {"check", "poll", "unwant"} => flag.wanted
  /\ lpc \in {"reify", "check", "poll"} => fed = {}

LEMMA WakeBegins == WakeInit => WakeInv
<1> SUFFICES ASSUME WakeInit PROVE WakeInv
  OBVIOUS
<1>1. flag \in [sent: BOOLEAN, pending: BOOLEAN, skipped: BOOLEAN, wanted: BOOLEAN]
  BY DEF WakeInit
<1>2. ~flag.sent /\ ~flag.pending /\ ~flag.skipped
  BY DEF WakeInit
<1>3. spc \in [Senders -> {"idle"}]
  BY DEF WakeInit
<1> QED BY <1>1, <1>2, <1>3 DEF WakeInit, WakeInv, WakeTypeOK, Noticed

LEMMA WakeKept == WakeInv /\ [WakeNext]_wvars => WakeInv'
<1> SUFFICES ASSUME WakeInv, [WakeNext]_wvars PROVE WakeInv'
  OBVIOUS
<1> USE DEF WakeInv, WakeTypeOK, Noticed, Goes, LoopGoes, Write
<1>1. ASSUME NEW s \in Senders, Post(s) PROVE WakeInv'
  BY <1>1 DEF Post
<1>2. ASSUME NEW s \in Senders, Sent(s) PROVE WakeInv'
  BY <1>2 DEF Sent
<1>3. ASSUME NEW s \in Senders, Test(s) PROVE WakeInv'
  BY <1>3 DEF Test
<1>4. ASSUME NEW s \in Senders, SetPending(s) PROVE WakeInv'
  BY <1>4 DEF SetPending
<1>5. ASSUME NEW s \in Senders, SetSkipped(s) PROVE WakeInv'
  BY <1>5 DEF SetSkipped
<1>6. ASSUME NEW s \in Senders, TestWanted(s) PROVE WakeInv'
  BY <1>6 DEF TestWanted
<1>7. ASSUME NEW s \in Senders, Unskip(s) PROVE WakeInv'
  BY <1>7 DEF Unskip
<1>8. ASSUME NEW s \in Senders, WritePipe(s) PROVE WakeInv'
  BY <1>8 DEF WritePipe
<1>9. CASE Wanted
  BY <1>9 DEF Wanted
<1>10. CASE Check
  BY <1>10 DEF Check
<1>11. CASE PollReturns \/ OtherEvent
  BY <1>11 DEF PollReturns, OtherEvent, Polled
<1>12. CASE Unwant
  BY <1>12 DEF Unwant
<1>13. CASE FeedSkipped
  BY <1>13 DEF FeedSkipped
<1>14. CASE InvokePipe
  BY <1>14 DEF InvokePipe
<1>15. CASE ClearSkipped
  BY <1>15 DEF ClearSkipped
<1>16. CASE TestPending
  BY <1>16 DEF TestPending
<1>17. CASE ClearFlag
  BY <1>17 DEF ClearFlag
<1>18. CASE Scan
  BY <1>18 DEF Scan
<1>19. CASE Taken
  BY <1>19 DEF Taken
<1>20. CASE AsyncCallback
  BY <1>20 DEF AsyncCallback
<1>21. CASE NextIteration
  BY <1>21 DEF NextIteration
<1>22. CASE UNCHANGED wvars
  BY <1>22 DEF wvars
<1> QED
  BY <1>1, <1>2, <1>3, <1>4, <1>5, <1>6, <1>7, <1>8, <1>9, <1>10, <1>11, <1>12, <1>13, <1>14,
     <1>15, <1>16, <1>17, <1>18, <1>19, <1>20, <1>21, <1>22 DEF WakeNext, Loop, Send

(* However the accesses of the senders and of the loop to the four flags *)
(* interleave, the loop does not go to sleep on work. *)
THEOREM NeverSleepsOnWork == WakeSpec => [](WakeTypeOK /\ NoSleepOnWork)
<1>1. WakeInv => WakeTypeOK /\ NoSleepOnWork
  BY DEF WakeInv, WakeTypeOK, Noticed, NoSleepOnWork
<1> QED BY <1>1, WakeBegins, WakeKept, PTL DEF WakeSpec

----------------------------------------
(****************************************)
(* The mailer.  The queue is what was taken behind what was handed over, *)
(* with the mail that is being handed over before it. *)
(****************************************)
MailCall == [call : {"initThreadData", "doSend", "startProcess", "deleteThreadData"},
             mail : Mails \cup {NoMail}]

MailTypes ==
  /\ MailerTypeOK
  /\ posted \in Seq(MailCall) /\ taken \in Seq(Mails) /\ handed \in Seq(Mails)
  /\ \A k \in 1 .. Len(posted) : posted[k].call = "doSend" => posted[k].mail \in Mails

\* n mails of the queue have been handed over.
Behind(n) ==
  /\ n <= Len(queue) /\ Len(taken) = Len(handed) + Len(queue) - n
  /\ \A i \in 1 .. Len(handed) : handed[i] = taken[i]
  /\ \A i \in n + 1 .. Len(queue) : queue[i] = taken[Len(handed) + i - n]

Starting == {k \in 1 .. Len(posted) : posted[k].call = "startProcess"}

MailInv ==
  /\ MailTypes
  /\ process.state = "running" => /\ queue # <<>> /\ queue[1] = process.mail
                                  /\ Behind(1) /\ Starting = {}
  /\ process.state # "running" => \/ Behind(0) /\ (queue # <<>> => failed \/ ending \in {"done", "gone"} \/ Starting # {})
                                  \/ (failed \/ ending \in {"done", "gone"}) /\ Behind(1) /\ Starting = {}
  /\ \A j, k \in Starting : j = k
  /\ Starting # {} => queue # <<>>
  /\ \A k \in 1 .. Len(posted) : posted[k].call = "initThreadData" => k = 1 /\ process.state = "none" /\ ending \notin {"done", "gone"}
  /\ process.state = "none" /\ ending \notin {"done", "gone"} =>
       queue = <<>> /\ (sendmail => posted # <<>> /\ posted[1].call = "initThreadData")
  /\ nulled => ending \in {"done", "gone"}

LEMMA MailBegins == MailerInit => MailInv
<1> SUFFICES ASSUME MailerInit PROVE MailInv
  OBVIOUS
<1>1. PICK enabled \in BOOLEAN :
       /\ sendmail \in IF enabled THEN BOOLEAN ELSE {FALSE}
       /\ posted = IF enabled THEN <<Call("initThreadData")>> ELSE <<>>
  BY DEF MailerInit
<1>2. Call("initThreadData") \in MailCall /\ Call("initThreadData").call = "initThreadData"
  BY DEF Call, MailCall
<1>3. /\ posted \in Seq(MailCall) /\ Len(posted) \in 0 .. 1
      /\ \A k \in 1 .. Len(posted) : k = 1 /\ posted[k].call = "initThreadData"
      /\ sendmail => Len(posted) = 1
  <2>1. CASE enabled
    <3>1. posted = <<Call("initThreadData")>>
      BY <1>1, <2>1
    <3> QED BY <1>2, <2>1, <3>1
  <2>2. CASE ~enabled
    BY <1>1, <2>2
  <2> QED BY <2>1, <2>2
<1>4. MailTypes
  <2>1. queue \in Seq(Mails) /\ taken \in Seq(Mails) /\ handed \in Seq(Mails)
    BY EmptySeq DEF MailerInit
  <2>2. process \in [state : {"none", "idle", "running"}, mail : Mails \cup {NoMail}]
    BY DEF MailerInit, NoProcess
  <2>3. sendmail \in BOOLEAN
    BY <1>1
  <2> QED BY <1>3, <2>1, <2>2, <2>3 DEF MailerInit, MailTypes, MailerTypeOK
<1>5. Starting = {} /\ Behind(0)
  BY <1>3 DEF MailerInit, Starting, Behind
<1>6. sendmail => posted # <<>> /\ posted[1].call = "initThreadData"
  BY <1>3
<1> QED BY <1>3, <1>4, <1>5, <1>6 DEF MailerInit, MailInv, NoProcess

LEMMA PostedAppend ==
  ASSUME MailInv, NEW c \in MailCall, posted' = Append(posted, c)
  PROVE  /\ posted' \in Seq(MailCall) /\ Len(posted') = Len(posted) + 1 /\ Len(posted) \in Nat
         /\ posted'[Len(posted) + 1] = c
         /\ \A k \in 1 .. Len(posted) : posted'[k] = posted[k]
         /\ Starting' = IF c.call = "startProcess" THEN Starting \cup {Len(posted) + 1} ELSE Starting
<1>1. /\ posted' \in Seq(MailCall) /\ Len(posted') = Len(posted) + 1 /\ Len(posted) \in Nat
         /\ posted'[Len(posted) + 1] = c
         /\ \A k \in 1 .. Len(posted) : posted'[k] = posted[k]
  BY DEF MailInv, MailTypes
<1> QED BY <1>1 DEF Starting

LEMMA PostedTail ==
  ASSUME MailInv, posted # <<>>, posted' = Tail(posted)
  PROVE  /\ posted' \in Seq(MailCall) /\ Len(posted) \in Nat \ {0} /\ Len(posted') = Len(posted) - 1
         /\ Head(posted) = posted[1] /\ Head(posted) \in MailCall
         /\ \A k \in 1 .. Len(posted') : posted'[k] = posted[k + 1] /\ k + 1 \in 1 .. Len(posted)
         /\ Starting' = {k \in 1 .. Len(posted') : k + 1 \in Starting}
<1>1. /\ posted' \in Seq(MailCall) /\ Len(posted) \in Nat \ {0} /\ Len(posted') = Len(posted) - 1
      /\ Head(posted) = posted[1] /\ Head(posted) \in MailCall
  BY DEF MailInv, MailTypes
<1>2. \A k \in 1 .. Len(posted') : posted'[k] = posted[k + 1] /\ k + 1 \in 1 .. Len(posted)
  BY <1>1, HeadTailProperties DEF MailInv, MailTypes
<1> QED BY <1>1, <1>2 DEF Starting

LEMMA MailKept == MailInv /\ [MailerNext]_mailvars => MailInv'
<1> SUFFICES ASSUME MailInv, [MailerNext]_mailvars PROVE MailInv'
  OBVIOUS
<1>1. ASSUME NEW m \in Mails, SendMail(m) PROVE MailInv'
  <2>1. DoSend(m) \in MailCall /\ DoSend(m).call = "doSend" /\ DoSend(m).mail = m
    BY DEF DoSend, MailCall
  <2>2. posted' = Append(posted, DoSend(m))
    BY <1>1 DEF SendMail
  <2> HIDE DEF DoSend
  <2>3. /\ posted' \in Seq(MailCall) /\ Len(posted') = Len(posted) + 1 /\ Len(posted) \in Nat
        /\ posted'[Len(posted) + 1] = DoSend(m)
        /\ \A k \in 1 .. Len(posted) : posted'[k] = posted[k]
        /\ Starting' = Starting
    BY <2>1, <2>2, PostedAppend
  <2>4. MailTypes'
    BY <1>1, <2>1, <2>3 DEF SendMail, MailInv, MailTypes, MailerTypeOK
  <2>5. posted # <<>> => posted' # <<>> /\ posted'[1] = posted[1]
    BY <2>3 DEF MailInv, MailTypes
  <2>6. /\ ending' = ending /\ process' = process /\ queue' = queue /\ sendmail' = sendmail
        /\ taken' = taken /\ handed' = handed /\ failed' = failed /\ nulled' = nulled
    BY <1>1 DEF SendMail
  <2>7. \A n \in {0, 1} : Behind(n) => Behind(n)'
    BY <2>6 DEF Behind
  <2>8. \A k \in 1 .. Len(posted') : posted'[k].call = "initThreadData" => k \in 1 .. Len(posted) /\ posted'[k] = posted[k]
    BY <2>1, <2>3
  <2>9. process.state = "running" => queue # <<>> /\ queue[1] = process.mail /\ Behind(1)' /\ Starting = {}
    BY <2>7 DEF MailInv
  <2>10. process.state # "running" =>
           \/ Behind(0)' /\ (queue # <<>> => failed \/ ending \in {"done", "gone"} \/ Starting # {})
           \/ (failed \/ ending \in {"done", "gone"}) /\ Behind(1)' /\ Starting = {}
    BY <2>7 DEF MailInv
  <2>11. process.state = "none" /\ ending \notin {"done", "gone"} =>
           queue = <<>> /\ (sendmail => posted' # <<>> /\ posted'[1].call = "initThreadData")
    BY <2>5 DEF MailInv
  <2>12. \A k \in 1 .. Len(posted') : posted'[k].call = "initThreadData" =>
           k = 1 /\ process.state = "none" /\ ending \notin {"done", "gone"}
    BY <2>8 DEF MailInv
  <2>13. /\ \A j, k \in Starting : j = k
         /\ Starting # {} => queue # <<>>
         /\ nulled => ending \in {"done", "gone"}
    BY DEF MailInv
  <2> HIDE DEF MailTypes, Behind, Starting
  <2> QED BY <2>3, <2>4, <2>6, <2>9, <2>10, <2>11, <2>12, <2>13 DEF MailInv
<1>2. CASE DeleteMailer
  <2> DEFINE c == Call("deleteThreadData")
  <2>1. c \in MailCall /\ c.call = "deleteThreadData"
    BY DEF Call, MailCall
  <2>2. posted' = Append(posted, c)
    BY <1>2 DEF DeleteMailer
  <2> HIDE DEF c
  <2>3. /\ posted' \in Seq(MailCall) /\ Len(posted') = Len(posted) + 1 /\ Len(posted) \in Nat
        /\ posted'[Len(posted) + 1].call = "deleteThreadData"
        /\ \A k \in 1 .. Len(posted) : posted'[k] = posted[k]
        /\ Starting' = Starting
    BY <2>1, <2>2, PostedAppend
  <2>4. MailTypes'
    BY <1>2, <2>3 DEF DeleteMailer, MailInv, MailTypes, MailerTypeOK
  <2>5. posted # <<>> => posted' # <<>> /\ posted'[1] = posted[1]
    BY <2>3 DEF MailInv, MailTypes
  <2>6. /\ ending = "no" /\ ending' = "asked" /\ process' = process /\ queue' = queue /\ sendmail' = sendmail
        /\ taken' = taken /\ handed' = handed /\ failed' = failed /\ nulled' = nulled
    BY <1>2 DEF DeleteMailer
  <2>7. \A n \in {0, 1} : Behind(n) => Behind(n)'
    BY <2>6 DEF Behind
  <2>8. \A k \in 1 .. Len(posted') : posted'[k].call = "initThreadData" => k \in 1 .. Len(posted) /\ posted'[k] = posted[k]
    BY <2>3
  <2>9. process.state = "running" => queue # <<>> /\ queue[1] = process.mail /\ Behind(1)' /\ Starting = {}
    BY <2>7 DEF MailInv
  <2>10. process.state # "running" =>
           \/ Behind(0)' /\ (queue # <<>> => failed \/ Starting # {})
           \/ failed /\ Behind(1)' /\ Starting = {}
    BY <2>6, <2>7 DEF MailInv
  <2>11. process.state = "none" =>
           queue = <<>> /\ (sendmail => posted' # <<>> /\ posted'[1].call = "initThreadData")
    BY <2>5, <2>6 DEF MailInv
  <2>12. \A k \in 1 .. Len(posted') : posted'[k].call = "initThreadData" => k = 1 /\ process.state = "none"
    BY <2>8 DEF MailInv
  <2>13. /\ \A j, k \in Starting : j = k
         /\ Starting # {} => queue # <<>>
         /\ ~nulled
    BY <2>6 DEF MailInv
  <2> HIDE DEF MailTypes, Behind, Starting
  <2> QED BY <2>3, <2>4, <2>6, <2>9, <2>10, <2>11, <2>12, <2>13 DEF MailInv
<1>3. CASE TakeCall
  <2> DEFINE c == Head(posted)
  <2>0. posted # <<>> /\ posted' = Tail(posted)
    BY <1>3 DEF TakeCall
  <2>1. /\ posted' \in Seq(MailCall) /\ Len(posted) \in Nat \ {0} /\ Len(posted') = Len(posted) - 1
        /\ c = posted[1] /\ c \in MailCall
        /\ \A k \in 1 .. Len(posted') : posted'[k] = posted[k + 1] /\ k + 1 \in 1 .. Len(posted)
        /\ Starting' = {k \in 1 .. Len(posted') : k + 1 \in Starting}
    BY <2>0, PostedTail
  <2>2. /\ \A k \in 1 .. Len(posted') : posted'[k].call # "initThreadData"
        /\ \A k \in 1 .. Len(posted') : posted'[k].call = "doSend" => posted'[k].mail \in Mails
        /\ \A j, k \in Starting' : j = k
        /\ c.call = "startProcess" => Starting' = {} /\ Starting # {}
        /\ c.call # "startProcess" => (Starting' = {} <=> Starting = {})
    <3>1. \A k \in 1 .. Len(posted') : posted'[k].call # "initThreadData"
      <4> SUFFICES ASSUME NEW k \in 1 .. Len(posted'), posted'[k].call = "initThreadData" PROVE FALSE
        OBVIOUS
      <4>1. k + 1 \in 1 .. Len(posted) /\ posted[k + 1].call = "initThreadData" /\ k + 1 # 1
        BY <2>1
      <4> QED BY <4>1 DEF MailInv
    <3>2. \A k \in 1 .. Len(posted') : posted'[k].call = "doSend" => posted'[k].mail \in Mails
      BY <2>1 DEF MailInv, MailTypes
    <3>3. ASSUME NEW j \in Starting', NEW k \in Starting' PROVE j = k
      <4>1. j + 1 \in Starting /\ k + 1 \in Starting /\ j \in Nat /\ k \in Nat
        BY <2>1
      <4>2. j + 1 = k + 1
        BY <4>1 DEF MailInv
      <4> QED BY <4>1, <4>2
    <3>4. 1 \in Starting <=> c.call = "startProcess"
      BY <2>1 DEF Starting
    <3>5. \A k \in Starting : k # 1 => k - 1 \in Starting'
      <4> SUFFICES ASSUME NEW k \in Starting, k # 1 PROVE k - 1 \in Starting'
        OBVIOUS
      <4>1. k \in 1 .. Len(posted)
        BY DEF Starting
      <4>2. k - 1 \in 1 .. Len(posted') /\ (k - 1) + 1 = k
        BY <2>1, <4>1
      <4> QED BY <2>1, <4>2
    <3>6. \A k \in Starting' : k + 1 \in Starting /\ k + 1 # 1
      BY <2>1
    <3>7. \A j, k \in Starting : j = k
      BY DEF MailInv
    <3> QED BY <3>1, <3>2, <3>3, <3>4, <3>5, <3>6, <3>7
  <2> HIDE DEF c
  <2>3. CASE c.call = "initThreadData" /\ TakeInit
    <3>1. process.state = "none" /\ ending \notin {"done", "gone"}
      BY <2>1, <2>3 DEF MailInv
    <3> QED BY <2>1, <2>2, <2>3, <3>1 DEF TakeInit, MailInv, MailTypes, MailerTypeOK, Behind, Ready
  <2>4. CASE c.call = "doSend" /\ DropMail
    BY <2>1, <2>2, <2>4 DEF DropMail, MailInv, MailTypes, MailerTypeOK, Behind
  <2>5. CASE c.call = "doSend" /\ TakeMail(c.mail)
    <3> DEFINE m == c.mail
    <3>1. m \in Mails /\ sendmail /\ queue' = Append(queue, m) /\ taken' = Append(taken, m)
          /\ UNCHANGED <<sendmail, ending, failed>>
          /\ (Starting' = {} <=> Starting = {})
      BY <2>1, <2>2, <2>5 DEF TakeMail, MailInv, MailTypes
    <3> HIDE DEF m
    <3>2. /\ queue' \in Seq(Mails) /\ Len(queue') = Len(queue) + 1 /\ Len(queue) \in Nat
          /\ queue'[Len(queue) + 1] = m /\ \A i \in 1 .. Len(queue) : queue'[i] = queue[i]
          /\ taken' \in Seq(Mails) /\ Len(taken') = Len(taken) + 1 /\ Len(taken) \in Nat
          /\ taken'[Len(taken) + 1] = m /\ \A i \in 1 .. Len(taken) : taken'[i] = taken[i]
          /\ Len(handed) \in Nat
      BY <3>1 DEF MailInv, MailTypes, MailerTypeOK
    <3>3. ending \notin {"done", "gone"} => process.state # "none"
      BY <2>1, <2>5, <3>1 DEF MailInv
    <3>4. CASE queue # <<>>
      <4>1. UNCHANGED <<process, handed, nulled>>
        BY <2>5, <3>4 DEF TakeMail
      <4>2. ASSUME NEW n \in {0, 1}, Behind(n) PROVE Behind(n)'
        <5>1. /\ n <= Len(queue') /\ Len(taken') = Len(handed') + Len(queue') - n
              /\ Len(handed) <= Len(taken) /\ Len(taken) = Len(handed) + Len(queue) - n
              /\ handed' = handed /\ n \in Nat
          BY <3>2, <4>1, <4>2 DEF Behind
        <5>2. \A i \in 1 .. Len(handed) : handed[i] = taken'[i]
          BY <3>2, <4>2, <5>1 DEF Behind
        <5>3. ASSUME NEW i \in n + 1 .. Len(queue') PROVE queue'[i] = taken'[Len(handed) + i - n]
          <6>1. CASE i = Len(queue) + 1
            <7>1. Len(handed) + i - n = Len(taken) + 1
              BY <3>2, <5>1, <6>1
            <7> QED BY <3>2, <6>1, <7>1
          <6>2. CASE i # Len(queue) + 1
            <7>1. i \in n + 1 .. Len(queue) /\ i \in 1 .. Len(queue) /\ Len(handed) + i - n \in 1 .. Len(taken)
              BY <3>2, <5>1, <6>2
            <7>2. queue[i] = taken[Len(handed) + i - n]
              BY <4>2, <7>1 DEF Behind
            <7> QED BY <3>2, <7>1, <7>2
          <6> QED BY <6>1, <6>2
        <5> QED BY <5>1, <5>2, <5>3 DEF Behind
      <4>3. MailTypes'
        BY <2>1, <2>2, <3>1, <3>2, <4>1 DEF MailInv, MailTypes, MailerTypeOK
      <4>4. queue' # <<>> /\ queue'[1] = queue[1]
        <5>1. Len(queue) # 0 /\ Len(queue') # 0
          BY <3>2, <3>4 DEF MailInv, MailTypes, MailerTypeOK
        <5> QED BY <3>2, <5>1
      <4> QED BY <2>2, <3>1, <3>3, <3>4, <4>1, <4>2, <4>3, <4>4 DEF MailInv
    <3>5. CASE queue = <<>>
      <4>1. StartProcess(m) /\ process.state # "running" /\ Starting = {} /\ Behind(0) /\ Len(queue) = 0
        BY <2>5, <3>5 DEF TakeMail, MailInv, Behind, m
      <4>2. queue' # <<>> /\ queue'[1] = m
        <5>1. Len(queue') = 1 /\ Len(queue) + 1 = 1
          BY <3>2, <4>1
        <5> QED BY <3>2, <5>1
      <4>3. CASE process.state = "none"
        <5>1. nulled' = TRUE /\ UNCHANGED <<process, handed>>
          BY <4>1, <4>3 DEF StartProcess
        <5>2. MailTypes'
          BY <2>1, <2>2, <3>1, <3>2, <5>1 DEF MailInv, MailTypes, MailerTypeOK
        <5>3. Behind(0)'
          BY <3>2, <4>1, <5>1 DEF Behind
        <5> QED BY <2>2, <3>1, <3>3, <4>1, <4>2, <4>3, <5>1, <5>2, <5>3 DEF MailInv
      <4>4. CASE process.state = "idle"
        <5>1. /\ process' = [state |-> "running", mail |-> m] /\ handed' = Append(handed, m)
              /\ nulled' = nulled
          BY <4>1, <4>4 DEF StartProcess
        <5>2. /\ handed' \in Seq(Mails) /\ Len(handed') = Len(handed) + 1
              /\ handed'[Len(handed) + 1] = m /\ \A i \in 1 .. Len(handed) : handed'[i] = handed[i]
          BY <3>1, <5>1 DEF MailInv, MailTypes
        <5>3. MailTypes'
          BY <2>1, <2>2, <3>1, <3>2, <5>1, <5>2 DEF MailInv, MailTypes, MailerTypeOK
        <5>4. Behind(1)'
          BY <3>2, <4>1, <5>2 DEF Behind
        <5> QED BY <2>2, <3>1, <4>1, <4>2, <4>4, <5>1, <5>3, <5>4 DEF MailInv
      <4> QED BY <4>1, <4>3, <4>4 DEF MailInv, MailTypes, MailerTypeOK
    <3> QED BY <3>4, <3>5
  <2>6. CASE c.call = "startProcess" /\ TakeStart
    <3> DEFINE m == Head(queue)
    <3>1. /\ queue # <<>> /\ m \in Mails /\ m = queue[1] /\ Len(queue) \in Nat \ {0}
          /\ StartProcess(m) /\ UNCHANGED <<sendmail, queue, ending, taken, failed>>
          /\ Starting' = {} /\ process.state # "running" /\ Behind(0)
      BY <2>2, <2>6 DEF TakeStart, MailInv, MailTypes, MailerTypeOK
    <3> HIDE DEF m
    <3>2. CASE process.state = "none"
      <4>1. nulled' = TRUE /\ UNCHANGED <<process, handed>> /\ ending \in {"done", "gone"}
        BY <3>1, <3>2 DEF StartProcess, MailInv
      <4>2. MailTypes'
        BY <2>1, <2>2, <3>1, <4>1 DEF MailInv, MailTypes, MailerTypeOK
      <4> QED BY <2>2, <3>1, <3>2, <4>1, <4>2 DEF MailInv, Behind
    <3>3. CASE process.state = "idle"
      <4>1. /\ process' = [state |-> "running", mail |-> m] /\ handed' = Append(handed, m)
            /\ nulled' = nulled
        BY <3>1, <3>3 DEF StartProcess
      <4>2. /\ handed' \in Seq(Mails) /\ Len(handed') = Len(handed) + 1 /\ Len(handed) \in Nat
            /\ handed'[Len(handed) + 1] = m /\ \A i \in 1 .. Len(handed) : handed'[i] = handed[i]
        BY <3>1, <4>1 DEF MailInv, MailTypes
      <4>3. MailTypes'
        BY <2>1, <2>2, <3>1, <4>1, <4>2 DEF MailInv, MailTypes, MailerTypeOK
      <4>4. Len(taken) \in Nat
        BY DEF MailInv, MailTypes
      <4>5. Behind(1)'
        <5>1. queue[1] = taken[Len(handed) + 1 - 0]
          BY <3>1 DEF Behind
        <5> QED BY <3>1, <4>2, <4>4, <5>1 DEF Behind
      <4> QED BY <2>2, <3>1, <3>3, <4>1, <4>3, <4>5 DEF MailInv
    <3> QED BY <3>1, <3>2, <3>3 DEF MailInv, MailTypes, MailerTypeOK
  <2>7. CASE c.call = "deleteThreadData" /\ TakeDelete
    BY <2>1, <2>2, <2>7 DEF TakeDelete, MailInv, MailTypes, MailerTypeOK, Behind, NoProcess
  <2> QED BY <1>3, <2>3, <2>4, <2>5, <2>6, <2>7 DEF TakeCall, c
<1>4. CASE Finished
  <2>1. /\ process.state = "running" /\ process' = Ready /\ queue' = Tail(queue)
        /\ posted' = IF Len(queue) > 1 THEN Append(posted, Call("startProcess")) ELSE posted
        /\ UNCHANGED <<sendmail, ending, taken, handed, failed, nulled>>
        /\ queue # <<>> /\ Behind(1) /\ Starting = {}
    BY <1>4 DEF Finished, MailInv
  <2>2. /\ queue' \in Seq(Mails) /\ Len(queue') = Len(queue) - 1 /\ Len(queue) \in Nat \ {0}
        /\ \A i \in 1 .. Len(queue') : queue'[i] = queue[i + 1]
    BY <2>1, HeadTailProperties DEF MailInv, MailTypes, MailerTypeOK
  <2>3. Behind(0)'
    <3>1. Len(handed) \in Nat /\ Len(taken) \in Nat
      BY DEF MailInv, MailTypes
    <3>2. Len(taken) = Len(handed) + Len(queue')
      BY <2>1, <2>2, <3>1 DEF Behind
    <3>3. \A i \in 1 .. Len(queue') : queue'[i] = taken[Len(handed) + i]
      <4> TAKE i \in 1 .. Len(queue')
      <4>1. i + 1 \in 1 + 1 .. Len(queue) /\ queue'[i] = queue[i + 1] BY <2>2
      <4>2. queue[i + 1] = taken[Len(handed) + (i + 1) - 1] BY <2>1, <4>1 DEF Behind
      <4> QED BY <3>1, <4>1, <4>2
    <3> QED BY <2>1, <2>2, <3>1, <3>2, <3>3 DEF Behind
  <2>4. Call("startProcess") \in MailCall /\ Call("startProcess").call = "startProcess"
    BY DEF Call, MailCall
  <2>5. /\ posted' \in Seq(MailCall) /\ Len(posted) \in Nat
        /\ Len(posted') = IF Len(queue) > 1 THEN Len(posted) + 1 ELSE Len(posted)
        /\ \A k \in 1 .. Len(posted) : posted'[k] = posted[k]
        /\ Len(queue) > 1 => posted'[Len(posted) + 1].call = "startProcess"
        /\ Starting' = IF Len(queue) > 1 THEN {Len(posted) + 1} ELSE {}
    <3>1. CASE Len(queue) > 1
      BY <2>1, <2>4, <3>1, PostedAppend
    <3>2. CASE ~(Len(queue) > 1)
      BY <2>1, <3>2 DEF MailInv, MailTypes, Starting
    <3> QED BY <3>1, <3>2
  <2>6. MailTypes'
    BY <2>1, <2>2, <2>5 DEF MailInv, MailTypes, MailerTypeOK, Ready
  <2>7. queue' # <<>> <=> Len(queue) > 1
    BY <2>2
  <2> QED BY <2>1, <2>3, <2>5, <2>6, <2>7 DEF MailInv, Ready
<1>5. CASE FailedToStart
  BY <1>5 DEF FailedToStart, MailInv, MailTypes, MailerTypeOK, Behind, Ready, Starting
<1>6. CASE UNCHANGED mailvars
  <2>1. UNCHANGED <<sendmail, queue, process, posted, ending, taken, handed, failed, nulled>>
    BY <1>6 DEF mailvars
  <2>2. MailTypes' BY <2>1 DEF MailInv, MailTypes, MailerTypeOK
  <2>3. Starting' = Starting BY <2>1 DEF Starting
  <2>4. (Behind(0)' <=> Behind(0)) /\ (Behind(1)' <=> Behind(1)) BY <2>1 DEF Behind
  <2> QED BY <2>1, <2>2, <2>3, <2>4 DEF MailInv
<1>7. CASE ThreadEnds
  <2>1. UNCHANGED <<sendmail, queue, process, posted, taken, handed, failed, nulled>>
        /\ ending = "done" /\ ending' = "gone"
    BY <1>7 DEF ThreadEnds
  <2>2. MailTypes' BY <2>1 DEF MailInv, MailTypes, MailerTypeOK
  <2>3. Starting' = Starting BY <2>1 DEF Starting
  <2>4. (Behind(0)' <=> Behind(0)) /\ (Behind(1)' <=> Behind(1)) BY <2>1 DEF Behind
  <2> QED BY <2>1, <2>2, <2>3, <2>4 DEF MailInv
<1> QED BY <1>1, <1>2, <1>3, <1>4, <1>5, <1>6, <1>7 DEF MailerNext

(* send(), doSend, startProcess, finished() and the shutdown: mails are *)
(* handed over in turn, whatever fails and whenever the mailer is deleted. *)
THEOREM MailsInTurnHolds == MailerSpec => []MailsInTurn
<1>1. MailInv => MailsInTurn
  <2> SUFFICES ASSUME MailInv PROVE MailsInTurn
    OBVIOUS
  <2>1. \E n \in 0 .. Len(taken) : handed = SubSeq(taken, 1, n)
    <3>1. \E n \in {0, 1} : Behind(n)
      BY DEF MailInv
    <3>2. Len(handed) \in 0 .. Len(taken) /\ \A i \in 1 .. Len(handed) : handed[i] = taken[i]
      BY <3>1 DEF MailInv, MailTypes, MailerTypeOK, Behind
    <3>3. \A i \in 1 .. Len(handed) : taken[i] \in Mails
      BY <3>2 DEF MailInv, MailTypes
    <3> DEFINE n == Len(handed)
               s == SubSeq(taken, 1, n)
    <3>4. n \in Nat /\ 1 \in Int /\ n \in Int
      BY <3>2
    <3>5. /\ s \in Seq(Mails) /\ Len(s) = (IF 1 <= n THEN n - 1 + 1 ELSE 0)
          /\ \A i \in 1 .. n - 1 + 1 : s[i] = taken[1 + i - 1]
      BY <3>3, <3>4, SubSeqProperties
    <3>6. Len(s) = n /\ \A i \in 1 .. n : s[i] = handed[i]
      BY <3>2, <3>4, <3>5
    <3>7. handed \in Seq(Mails)
      BY DEF MailInv, MailTypes
    <3> HIDE DEF s
    <3>8. handed = s
      BY <3>5, <3>6, <3>7, SeqEqual
    <3> QED BY <3>2, <3>8 DEF s
  <2>2. process.state = "running" => queue # <<>> /\ Head(queue) = process.mail
    BY DEF MailInv, MailTypes, MailerTypeOK
  <2>3. queue # <<>> /\ process.state # "running" =>
       \/ failed \/ Deleted
       \/ \E k \in 1 .. Len(posted) : posted[k].call = "startProcess"
    BY DEF MailInv, Starting, Deleted
  <2> QED BY <2>1, <2>2, <2>3 DEF MailInv, MailsInTurn, Deleted
<1> QED BY <1>1, MailBegins, MailKept, PTL DEF MailerSpec

----------------------------------------
(****************************************)
(* Descriptors, their watchers and the kernel *)
(****************************************)

(* The registrations and the pending events there can be *)
Registrable == [fd : Fds, file : Conns, mask : (SUBSET Events) \ {{}}, fresh : BOOLEAN]
Feedable    == [w : Watchers \cup {NoWatcher}, of : Conns \cup {NoFd}]

LEMMA IOTypes ==
  ASSUME IOTypeOK
  PROVE  /\ conn \in [Conns -> Fds \cup {NoFd}] /\ head \in [Fds -> SUBSET Watchers]
         /\ events \in [Fds -> SUBSET Events] /\ emask \in [Fds -> SUBSET Events]
         /\ reify \in [Fds -> SUBSET {"reify", "iofdset"}]
         /\ iofdset \subseteq Watchers /\ rearm \in BOOLEAN
         /\ fedio \in Seq(Feedable)
         /\ phase \in {"callbacks", "wait", "poll"}
         /\ reg \subseteq Registrable /\ todo \subseteq Registrable
BY DEF IOTypeOK, Registrable, Feedable

LEMMA WatcherParts ==
  ASSUME NEW w \in Watchers
  PROVE  w = <<w[1], w[2]>> /\ w[1] \in Conns /\ w[2] \in Events /\ w # NoWatcher
BY DEF Watchers, NoWatcher

LEMMA Registration ==
  ASSUME NEW g \in Fds, NEW x \in Conns, NEW m \in SUBSET Events, m # {}
  PROVE  [fd |-> g, file |-> x, mask |-> m, fresh |-> TRUE] \in Registrable
<1> DEFINE Masks == (SUBSET Events) \ {{}}
<1>1. m \in Masks  OBVIOUS
<1> HIDE DEF Masks
<1>2. [fd |-> g, file |-> x, mask |-> m, fresh |-> TRUE] \in [fd : Fds, file : Conns, mask : Masks, fresh : BOOLEAN]
  BY <1>1
<1> QED  BY <1>2 DEF Registrable, Masks

LEMMA NewMask ==
  ASSUME NEW q \in Registrable, NEW m \in SUBSET Events, NEW p, p = [q EXCEPT !.mask = m]
  PROVE  /\ p.fd = q.fd /\ p.file = q.file /\ p.mask = m /\ p.fresh = q.fresh
         /\ m # {} => p \in Registrable
<1> DEFINE Masks == (SUBSET Events) \ {{}}
<1>1. m # {} => m \in Masks  OBVIOUS
<1>2. q \in [fd : Fds, file : Conns, mask : Masks, fresh : BOOLEAN]  BY DEF Registrable
<1> HIDE DEF Masks
<1>3. /\ p.fd = q.fd /\ p.file = q.file /\ p.mask = m /\ p.fresh = q.fresh
      /\ m # {} => p \in [fd : Fds, file : Conns, mask : Masks, fresh : BOOLEAN]
  BY <1>1, <1>2
<1> QED  BY <1>3 DEF Registrable, Masks

LEMMA IOInitInv == ASSUME IOInit PROVE IOInv
<1> USE DEF IOInit
<1>1. IOTypeOK
  <2>1. fedio \in Seq(Feedable)  BY DEF IOInit
  <2> QED  BY <2>1 DEF IOTypeOK, Feedable
<1>2. HeadsOwned  BY WatchersAssumption DEF HeadsOwned
<1>3. ChangesNoted  BY DEF ChangesNoted, Wants
<1>4. Generations /\ Told /\ UnderWay  BY DEF Generations, Told, UnderWay
<1>5. EventsTrue  BY DEF EventsTrue
<1> QED  BY <1>1, <1>2, <1>3, <1>4, <1>5 DEF IOInv

(****************************************)
(* What EventsTrue needs of a step that feeds nothing. *)
(****************************************)
LEMMA EventsStay ==
  ASSUME EventsTrue, fedio' = fedio, \A w \in Watchers : IsActive(w) => IsActive(w)', IOTypeOK
  PROVE  EventsTrue'
<1> SUFFICES ASSUME NEW i \in DOMAIN fedio, fedio[i].w # NoWatcher
             PROVE  IsActive(fedio[i].w)' /\ fedio[i].of = fedio[i].w[1] /\ Pending(fedio[i].w)' = {i}
  BY DEF EventsTrue
<1>1. fedio[i].w \in Watchers
  <2>1. fedio[i] \in Feedable  BY IOTypes, ElementOfSeq
  <2> QED  BY <2>1 DEF Feedable
<1>2. IsActive(fedio[i].w) /\ fedio[i].of = fedio[i].w[1] /\ Pending(fedio[i].w) = {i}  BY DEF EventsTrue
<1>3. Pending(fedio[i].w)' = Pending(fedio[i].w)  BY DEF Pending
<1> QED  BY <1>1, <1>2, <1>3

LEMMA FedElement ==
  ASSUME IOTypeOK, NEW i \in DOMAIN fedio
  PROVE  fedio[i] \in Feedable /\ (fedio[i].w # NoWatcher => fedio[i].w \in Watchers)
<1>1. fedio[i] \in Feedable  BY IOTypes, ElementOfSeq
<1> QED  BY <1>1 DEF Feedable

LEMMA OpenInv ==
  ASSUME IOInv, NEW x \in Conns, NEW f \in Fds, Open(x, f)
  PROVE  IOInv'
<1> USE DEF Open, anfds
<1>t. IOTypeOK  BY DEF IOInv
<1>1. IOTypeOK'
  <2>1. {<<x, e>> : e \in Events} \subseteq Watchers  BY DEF Watchers
  <2> QED  BY <1>t, <2>1 DEF IOTypeOK
<1>c. \A y \in Conns : conn'[y] = IF y = x THEN f ELSE conn[y]  BY <1>t, IOTypes
<1>2. HeadsOwned'
  <2>1. ASSUME NEW g \in Fds, NEW w \in head[g]  PROVE conn'[w[1]] = g /\ w \notin iofdset'
    <3>1. w \in Watchers /\ conn[w[1]] = g /\ w \notin iofdset  BY <1>t, IOTypes DEF IOInv, HeadsOwned
    <3>2. w[1] # x  BY <3>1, WatchersAssumption
    <3> QED  BY <3>1, <3>2, <1>c, WatcherParts
  <2>2. ASSUME NEW y \in Conns, NEW z \in Conns, conn'[y] = conn'[z], conn'[y] # NoFd  PROVE y = z
    BY <2>2, <1>c DEF IOInv, HeadsOwned
  <2> QED  BY <2>1, <2>2 DEF HeadsOwned
<1>3. ChangesNoted'  BY DEF IOInv, ChangesNoted, Wants
<1>4. Generations'
  <2>1. \A r \in reg : r.file \in Conns /\ r.file # x  BY <1>t, IOTypes DEF Registrable
  <2> QED  BY <2>1, <1>c DEF IOInv, Generations
<1>5. Told'
  <2> SUFFICES ASSUME NEW g \in Fds, NEW y \in Conns,
                      conn'[y] = g, Started(y)', events[g] # {}, "iofdset" \notin reify[g]
               PROVE  emask[g] = events[g] /\ \E r \in reg : r.fd = g /\ r.file = y
    BY DEF Told
  <2>1. y # x /\ Started(y)  BY DEF Started
  <2> QED  BY <2>1, <1>c DEF IOInv, Told
<1>6. UnderWay'  BY DEF UnderWay
<1>7. EventsTrue'
  <2>1. \A w \in Watchers : IsActive(w) => IsActive(w)'  BY DEF IsActive
  <2> QED  BY <1>t, <2>1, EventsStay DEF IOInv
<1> QED  BY <1>1, <1>2, <1>3, <1>4, <1>5, <1>6, <1>7 DEF IOInv

LEMMA IoStartInv ==
  ASSUME IOInv, NEW w \in Watchers, IoStart(w)
  PROVE  IOInv'
<1> DEFINE f == conn[w[1]]
           flags == {"reify"} \cup IF w \in iofdset THEN {"iofdset"} ELSE {}
<1>t. IOTypeOK  BY DEF IOInv
<1>w. w = <<w[1], w[2]>> /\ w[1] \in Conns /\ w[2] \in Events  BY WatcherParts
<1>f. f \in Fds /\ f # NoFd  BY <1>t, <1>w, IOTypes DEF IoStart
<1>u. /\ phase = "callbacks" /\ phase' = phase
      /\ \A g \in Fds : head'[g] = (IF g = f THEN head[g] \cup {w} ELSE head[g])
      /\ \A g \in Fds : reify'[g] = (IF g = f THEN reify[g] \cup flags ELSE reify[g])
      /\ iofdset' = iofdset \ {w}
      /\ conn' = conn /\ events' = events /\ emask' = emask /\ fedio' = fedio /\ rearm' = rearm
      /\ todo' = todo /\ reg' = reg
  BY <1>t, <1>f, IOTypes DEF IoStart, FdChange
<1>1. IOTypeOK'
  <2>1. head' \in [Fds -> SUBSET Watchers] /\ reify' \in [Fds -> SUBSET {"reify", "iofdset"}]
    BY <1>t, <1>f, IOTypes DEF IoStart, FdChange
  <2> QED  BY <1>t, <1>u, <2>1 DEF IOTypeOK
<1> HIDE DEF f
<1>2. HeadsOwned'
  <2>1. ASSUME NEW g \in Fds, NEW v \in head'[g]  PROVE conn[v[1]] = g /\ v \notin iofdset'
    <3>1. CASE v = w /\ g = f  BY <3>1, <1>u DEF f
    <3>2. CASE v \in head[g]  BY <3>2, <1>u DEF IOInv, HeadsOwned
    <3> QED  BY <3>1, <3>2, <1>u
  <2> QED  BY <2>1, <1>u DEF IOInv, HeadsOwned
<1>3. ChangesNoted'
  <2>1. ASSUME NEW g \in Fds, reify'[g] = {}  PROVE events[g] = Wants(g)'
    <3>1. g # f  BY <1>u, <2>1
    <3>2. Wants(g)' = Wants(g)  BY <3>1, <1>u DEF Wants
    <3> QED  BY <3>1, <3>2, <1>u, <2>1 DEF IOInv, ChangesNoted
  <2> QED  BY <2>1, <1>u DEF ChangesNoted
<1>4. Generations'  BY <1>u DEF IOInv, Generations
<1>5. Told'
  <2> SUFFICES ASSUME NEW g \in Fds, NEW y \in Conns,
                      conn[y] = g, Started(y)', events[g] # {}, "iofdset" \notin reify'[g]
               PROVE  emask[g] = events[g] /\ \E r \in reg : r.fd = g /\ r.file = y
    BY <1>u DEF Told
  <2>1. "iofdset" \notin reify[g]  BY <1>u
  <2>2. Started(y)
    <3>1. CASE w \in iofdset
      <4>1. g # f  BY <3>1, <1>u
      <4>2. y # w[1]  BY <4>1 DEF f
      <4> QED  BY <4>2, <1>u, <1>w DEF Started
    <3>2. CASE w \notin iofdset  BY <3>2, <1>u DEF Started
    <3> QED  BY <3>1, <3>2
  <2> QED  BY <2>1, <2>2 DEF IOInv, Told
<1>6. UnderWay'  BY <1>u DEF UnderWay
<1>7. EventsTrue'
  <2>1. \A v \in Watchers : IsActive(v) => IsActive(v)'  BY <1>u DEF IsActive
  <2> QED  BY <1>t, <1>u, <2>1, EventsStay DEF IOInv
<1> QED  BY <1>1, <1>2, <1>3, <1>4, <1>5, <1>6, <1>7 DEF IOInv

(****************************************)
(* What stopping the watchers ws of a descriptor does: no callback of *)
(* theirs is left. *)
(****************************************)
LEMMA StoppedSays ==
  ASSUME IOTypeOK, EventsTrue, NEW f \in Fds, NEW ws \in SUBSET Watchers, Stopped(f, ws)
  PROVE  /\ \A g \in Fds : head'[g] = (IF g = f THEN head[g] \ ws ELSE head[g])
         /\ \A g \in Fds : reify'[g] = (IF g = f /\ ws \cap head[f] # {} THEN reify[g] \cup {"reify"} ELSE reify[g])
         /\ head' \in [Fds -> SUBSET Watchers] /\ reify' \in [Fds -> SUBSET {"reify", "iofdset"}]
         /\ fedio' \in Seq(Feedable)
         /\ (\A w \in ws : IsActive(w) => w \in head[f]) => EventsTrue'
<1> DEFINE gone == [w |-> NoWatcher, of |-> NoFd]
<1>1. /\ head' = [head EXCEPT ![f] = @ \ ws]
      /\ reify' = [reify EXCEPT ![f] = @ \cup IF ws \cap head[f] = {} THEN {} ELSE {"reify"}]
      /\ fedio' = [i \in DOMAIN fedio |-> IF fedio[i].w \in ws THEN gone ELSE fedio[i]]
  BY DEF Stopped, ClearPending, FdChange
<1>2. gone \in Feedable  BY DEF Feedable
<1>3. gone.w = NoWatcher  OBVIOUS
<1> HIDE DEF gone
<1>4. fedio' \in Seq(Feedable)
  <2>1. \A i \in DOMAIN fedio : fedio[i] \in Feedable  BY FedElement
  <2>2. DOMAIN fedio = 1 .. Len(fedio) /\ Len(fedio) \in Nat  BY IOTypes, LenProperties
  <2>3. \A i \in 1 .. Len(fedio) : (IF fedio[i].w \in ws THEN gone ELSE fedio[i]) \in Feedable
    BY <2>1, <2>2, <1>2
  <2> QED  BY <2>2, <2>3, <1>1, IsASeq
<1>5. ASSUME \A w \in ws : IsActive(w) => w \in head[f]  PROVE EventsTrue'
  <2> SUFFICES ASSUME NEW i \in DOMAIN fedio', NEW w, w = fedio'[i].w, w # NoWatcher
               PROVE  /\ \E g \in Fds : w \in head'[g]
                      /\ fedio'[i].of = w[1]
                      /\ {j \in DOMAIN fedio' : fedio'[j].w = w} = {i}
    BY DEF EventsTrue, IsActive, Pending
  <2>1. i \in DOMAIN fedio /\ fedio'[i] = fedio[i] /\ w \notin ws  BY <1>1, <1>3
  <2>2. IsActive(w) /\ fedio[i].of = w[1] /\ Pending(w) = {i}
    BY <2>1 DEF EventsTrue
  <2>4. \E g \in Fds : w \in head'[g]
    <3>1. PICK g \in Fds : w \in head[g]  BY <2>2 DEF IsActive
    <3>2. head'[g] = (IF g = f THEN head[g] \ ws ELSE head[g])  BY <1>1, IOTypes
    <3> QED  BY <3>1, <3>2, <2>1
  <2>5. {j \in DOMAIN fedio' : fedio'[j].w = w} = {j \in DOMAIN fedio : fedio[j].w = w}
    <3>1. DOMAIN fedio' = DOMAIN fedio  BY <1>1
    <3>2. \A j \in DOMAIN fedio : fedio'[j].w = w <=> fedio[j].w = w
      <4> TAKE j \in DOMAIN fedio
      <4>1. CASE fedio[j].w \in ws  BY <4>1, <1>1, <1>3, <2>1
      <4>2. CASE fedio[j].w \notin ws  BY <4>2, <1>1
      <4> QED  BY <4>1, <4>2
    <3> QED  BY <3>1, <3>2
  <2> QED  BY <2>1, <2>2, <2>4, <2>5 DEF Pending
<1>6. head' \in [Fds -> SUBSET Watchers] /\ reify' \in [Fds -> SUBSET {"reify", "iofdset"}]  BY <1>1, IOTypes
<1>7. \A g \in Fds : head'[g] = (IF g = f THEN head[g] \ ws ELSE head[g])  BY <1>1, IOTypes
<1>8. \A g \in Fds : reify'[g] = (IF g = f /\ ws \cap head[f] # {} THEN reify[g] \cup {"reify"} ELSE reify[g])
  BY <1>1, IOTypes
<1> QED  BY <1>4, <1>5, <1>6, <1>7, <1>8

LEMMA IoStopInv ==
  ASSUME IOInv, NEW w \in Watchers, IoStop(w)
  PROVE  IOInv'
<1>t. IOTypeOK /\ EventsTrue  BY DEF IOInv
<1>1. PICK f \in Fds : w \in head[f]  BY DEF IoStop, IsActive
<1>2. conn[w[1]] = f  BY <1>1 DEF IOInv, HeadsOwned
<1>3. Stopped(f, {w})  BY <1>2 DEF IoStop
<1>4. \A v \in {w} : IsActive(v) => v \in head[f]  BY <1>1
<1>u. /\ phase = "callbacks" /\ phase' = phase
      /\ iofdset' = iofdset
      /\ conn' = conn /\ events' = events /\ emask' = emask /\ rearm' = rearm
      /\ todo' = todo /\ reg' = reg
  BY DEF IoStop
<1>s. /\ \A g \in Fds : head'[g] = (IF g = f THEN head[g] \ {w} ELSE head[g])
      /\ \A g \in Fds : reify'[g] = (IF g = f THEN reify[g] \cup {"reify"} ELSE reify[g])
      /\ head' \in [Fds -> SUBSET Watchers] /\ reify' \in [Fds -> SUBSET {"reify", "iofdset"}]
      /\ fedio' \in Seq(Feedable) /\ EventsTrue'
  <2>1. {w} \in SUBSET Watchers /\ {w} \cap head[f] # {}  BY <1>1
  <2> QED  BY <1>t, <1>3, <1>4, <2>1, StoppedSays
<1>5. IOTypeOK'  BY <1>t, <1>u, <1>s DEF IOTypeOK, Feedable
<1>6. HeadsOwned'  BY <1>u, <1>s DEF IOInv, HeadsOwned
<1>7. ChangesNoted'
  <2>1. ASSUME NEW g \in Fds, reify'[g] = {}  PROVE events[g] = Wants(g)'
    <3>1. g # f  BY <1>s, <2>1
    <3>2. Wants(g)' = Wants(g)  BY <3>1, <1>s DEF Wants
    <3> QED  BY <3>1, <3>2, <1>s, <2>1 DEF IOInv, ChangesNoted
  <2> QED  BY <2>1, <1>u DEF ChangesNoted
<1>8. Generations'  BY <1>u DEF IOInv, Generations
<1>9. Told'
  <2>1. \A g \in Fds : "iofdset" \notin reify'[g] => "iofdset" \notin reify[g]  BY <1>s
  <2> QED  BY <1>u, <2>1 DEF IOInv, Told, Started
<1>10. UnderWay'  BY <1>u DEF UnderWay
<1> QED  BY <1>s, <1>5, <1>6, <1>7, <1>8, <1>9, <1>10 DEF IOInv

LEMMA CloseInv ==
  ASSUME IOInv, NEW x \in Conns, NEW shared \in BOOLEAN, Close(x, shared)
  PROVE  IOInv'
<1> DEFINE ws == {x} \X Events
<1>t. IOTypeOK /\ EventsTrue  BY DEF IOInv
<1>1. PICK f \in Fds : conn[x] = f  BY <1>t, IOTypes DEF Close
<1>u. /\ phase = "callbacks" /\ phase' = phase
      /\ iofdset' = iofdset
      /\ events' = events /\ emask' = emask /\ rearm' = rearm /\ todo' = todo
      /\ \A y \in Conns : conn'[y] = IF y = x THEN NoFd ELSE conn[y]
      /\ conn' \in [Conns -> Fds \cup {NoFd}]
      /\ reg' \subseteq reg /\ \A r \in reg : r.file # x => r \in reg'
  BY <1>t, IOTypes DEF Close
<1>h. \A g \in Fds : \A v \in head[g] : v = <<v[1], v[2]>> /\ v[1] \in Conns /\ v[2] \in Events
  BY <1>t, IOTypes, WatcherParts
<1>w. \A v \in Watchers : v \in ws <=> v[1] = x  BY DEF Watchers
<1>2. \A v \in ws : IsActive(v) => v \in head[f]
  BY <1>1 DEF IOInv, HeadsOwned, IsActive
<1>s. /\ \A g \in Fds : head'[g] = (IF g = f THEN head[g] \ ws ELSE head[g])
      /\ \A g \in Fds : reify'[g] = (IF g = f /\ ws \cap head[f] # {} THEN reify[g] \cup {"reify"} ELSE reify[g])
      /\ head' \in [Fds -> SUBSET Watchers] /\ reify' \in [Fds -> SUBSET {"reify", "iofdset"}]
      /\ fedio' \in Seq(Feedable) /\ EventsTrue'
  <2>1. ws \in SUBSET Watchers  BY DEF Watchers
  <2>2. Stopped(f, ws)  BY <1>1 DEF Close
  <2> HIDE DEF ws
  <2> QED  BY <1>t, <1>2, <2>1, <2>2, StoppedSays
<1> HIDE DEF ws
<1>5. IOTypeOK'  BY <1>t, <1>u, <1>s DEF IOTypeOK, Feedable
<1>6. HeadsOwned'
  <2>1. ASSUME NEW g \in Fds, NEW v \in head'[g]  PROVE conn'[v[1]] = g /\ v \notin iofdset'
    <3>1. v \in head[g] /\ v \in Watchers /\ conn[v[1]] = g /\ v \notin iofdset
      BY <1>s, <1>t, IOTypes DEF IOInv, HeadsOwned
    <3>2. v[1] # x
      <4>1. ASSUME v[1] = x  PROVE FALSE
        <5>1. g = f  BY <4>1, <3>1, <1>1
        <5> QED  BY <5>1, <4>1, <3>1, <1>w, <1>s
      <4> QED  BY <4>1
    <3> QED  BY <3>1, <3>2, <1>u, WatcherParts
  <2>2. ASSUME NEW y \in Conns, NEW z \in Conns, conn'[y] = conn'[z], conn'[y] # NoFd  PROVE y = z
    BY <2>2, <1>u DEF IOInv, HeadsOwned
  <2> QED  BY <2>1, <2>2 DEF HeadsOwned
<1>7. ChangesNoted'
  <2>1. ASSUME NEW g \in Fds, reify'[g] = {}  PROVE events[g] = Wants(g)'
    <3>1. g # f \/ ws \cap head[f] = {}  BY <1>s, <2>1
    <3>2. head'[g] = head[g] /\ reify[g] = {}  BY <3>1, <1>s, <2>1
    <3>3. Wants(g)' = Wants(g)  BY <3>2 DEF Wants
    <3> QED  BY <3>2, <3>3 DEF IOInv, ChangesNoted
  <2> QED  BY <2>1, <1>u DEF ChangesNoted
<1>8. Generations'
  <2>1. \A r \in reg' : r.file \in Conns /\ r.fd \in Fds  BY <1>u, <1>t, IOTypes DEF Registrable
  <2>2. \A r \in reg' : conn'[r.file] = r.fd => conn[r.file] = r.fd  BY <2>1, <1>u, WatchersAssumption
  <2> QED  BY <2>2, <1>u DEF IOInv, Generations
<1>9. Told'
  <2> SUFFICES ASSUME NEW g \in Fds, NEW y \in Conns,
                      conn'[y] = g, Started(y)', events[g] # {}, "iofdset" \notin reify'[g]
               PROVE  emask[g] = events[g] /\ \E r \in reg' : r.fd = g /\ r.file = y
    BY <1>u DEF Told
  <2>1. y # x /\ conn[y] = g  BY <1>u, WatchersAssumption
  <2>2. Started(y) /\ "iofdset" \notin reify[g]  BY <1>u, <1>s DEF Started
  <2>3. emask[g] = events[g] /\ \E r \in reg : r.fd = g /\ r.file = y  BY <2>1, <2>2 DEF IOInv, Told
  <2> QED  BY <2>3, <2>1, <1>u
<1>10. UnderWay'  BY <1>u DEF UnderWay
<1> QED  BY <1>s, <1>5, <1>6, <1>7, <1>8, <1>9, <1>10 DEF IOInv

LEMMA ChildExitsInv == ASSUME IOInv, ChildExits PROVE IOInv'
<1>t. IOTypeOK /\ EventsTrue  BY DEF IOInv
<1>u. /\ conn' = conn /\ head' = head /\ events' = events /\ emask' = emask /\ reify' = reify
      /\ iofdset' = iofdset /\ fedio' = fedio /\ rearm' = rearm /\ phase' = phase /\ todo' = todo
      /\ reg' = {r \in reg : conn[r.file] # NoFd}
  BY DEF ChildExits, anfds
<1>1. IOTypeOK'  BY <1>t, <1>u DEF IOTypeOK
<1>2. HeadsOwned' /\ ChangesNoted'  BY <1>u DEF IOInv, HeadsOwned, ChangesNoted, Wants
<1>3. Generations' /\ UnderWay'  BY <1>u DEF IOInv, Generations, UnderWay
<1>4. Told'
  <2> SUFFICES ASSUME NEW g \in Fds, NEW y \in Conns,
                      conn[y] = g, Started(y), events[g] # {}, "iofdset" \notin reify[g]
               PROVE  emask[g] = events[g] /\ \E r \in reg' : r.fd = g /\ r.file = y
    BY <1>u DEF Told, Started
  <2>1. PICK r \in reg : emask[g] = events[g] /\ r.fd = g /\ r.file = y  BY DEF IOInv, Told
  <2>2. r \in reg'  BY <2>1, <1>u, WatchersAssumption
  <2> QED  BY <2>1, <2>2
<1>5. EventsTrue'
  <2>1. \A v \in Watchers : IsActive(v) => IsActive(v)'  BY <1>u DEF IsActive
  <2> QED  BY <1>t, <1>u, <2>1, EventsStay
<1> QED  BY <1>1, <1>2, <1>3, <1>4, <1>5 DEF IOInv

LEMMA FileOf ==
  ASSUME HeadsOwned, NEW f \in Fds, NEW x \in Conns, conn[x] = f
  PROVE  File(f) = x
<1>1. f # NoFd  BY WatchersAssumption
<1> QED  BY <1>1 DEF HeadsOwned, File

(****************************************)
(* The kernel is told before the loop blocks: what fd_reify leaves. *)
(****************************************)
LEMMA PollInv == ASSUME IOInv, Poll PROVE IOInv'
<1>t. IOTypeOK /\ EventsTrue /\ HeadsOwned  BY DEF IOInv
<1>u. /\ conn' = conn /\ head' = head /\ iofdset' = iofdset /\ fedio' = fedio /\ todo' = todo
      /\ phase' = "wait" /\ rearm' = FALSE /\ reg' = Registrations
      /\ events' = [f \in Fds |-> IF Flags(f) = {} THEN events[f] ELSE Wants(f)]
      /\ emask' = [f \in Fds |-> IF EpollModify(f) THEN Wants(f) ELSE OldMask(f)]
      /\ reify' = [f \in Fds |-> {}]
  BY DEF Poll
<1>w. \A f \in Fds : Wants(f) \in SUBSET Events
  BY <1>t, IOTypes DEF Wants, Watchers
<1>m. \A f \in Fds : OldMask(f) \in SUBSET Events  BY <1>t, IOTypes DEF OldMask
<1>e. \A f \in Fds : events'[f] = Wants(f)
  <2> TAKE f \in Fds
  <2>1. CASE Flags(f) = {}
    <3>1. reify[f] = {}  BY <2>1 DEF Flags
    <3> QED  BY <2>1, <3>1, <1>u DEF IOInv, ChangesNoted
  <2>2. CASE Flags(f) # {}  BY <2>2, <1>u
  <2> QED  BY <2>1, <2>2
<1>k. \A f \in Fds : emask'[f] = IF EpollModify(f) THEN Wants(f) ELSE OldMask(f)  BY <1>u
<1>o. OldReg \subseteq reg /\ (rearm => OldReg = {}) /\ (~rearm => OldReg = reg)  BY DEF OldReg
<1>r. \A r \in Registrations :
         \/ /\ Register(r.fd) /\ r.fd \in Fds /\ r.file = File(r.fd) /\ r.mask = Wants(r.fd) /\ r.fresh = TRUE
            /\ r = [fd |-> r.fd, file |-> File(r.fd), mask |-> Wants(r.fd), fresh |-> TRUE]
         \/ \E q \in OldReg : /\ Register(q.fd) => q.file # File(q.fd)
                              /\ r = [q EXCEPT !.fresh = @ /\ ~Register(q.fd)]
  BY DEF Registrations
<1>q. \A q \in OldReg : (~Register(q.fd)) => q \in Registrations
  <2> SUFFICES ASSUME NEW q \in OldReg, ~Register(q.fd)  PROVE q \in Registrations
    OBVIOUS
  <2>1. q \in Registrable  BY <1>o, <1>t, IOTypes
  <2>2. [q EXCEPT !.fresh = @ /\ ~Register(q.fd)] = q
    <3>1. (q.fresh /\ ~Register(q.fd)) = q.fresh  BY <2>1 DEF Registrable
    <3> QED  BY <3>1, <2>1 DEF Registrable
  <2> QED  BY <2>2 DEF Registrations
<1>n. \A q \in OldReg : LET r == [q EXCEPT !.fresh = @ /\ ~Register(q.fd)] IN
         r.fd = q.fd /\ r.file = q.file /\ r.mask = q.mask /\ r.fresh = (q.fresh /\ ~Register(q.fd)) /\ r \in Registrable
  BY <1>o, <1>t, IOTypes DEF Registrable
<1>i. \A f \in Fds : Register(f) => Wants(f) # {}  BY DEF Register, EpollModify
<1>x. \A f \in Fds : Register(f) => File(f) \in Conns
  <2> SUFFICES ASSUME NEW f \in Fds, Register(f)  PROVE File(f) \in Conns
    OBVIOUS
  <2>1. PICK w \in head[f] : TRUE  BY <1>i DEF Wants
  <2>2. w[1] \in Conns /\ conn[w[1]] = f  BY <1>t, IOTypes, WatcherParts DEF HeadsOwned
  <2> QED  BY <2>2, <1>t, FileOf
<1>1. IOTypeOK'
  <2>1. events' \in [Fds -> SUBSET Events] /\ emask' \in [Fds -> SUBSET Events]
        /\ reify' \in [Fds -> SUBSET {"reify", "iofdset"}]
    BY <1>u, <1>w, <1>m, <1>t, IOTypes
  <2>2. reg' \subseteq Registrable
    <3> SUFFICES ASSUME NEW r \in Registrations  PROVE r \in Registrable
      BY <1>u
    <3>1. CASE /\ Register(r.fd) /\ r.fd \in Fds
               /\ r = [fd |-> r.fd, file |-> File(r.fd), mask |-> Wants(r.fd), fresh |-> TRUE]
      <4>1. \A g \in Fds, x \in Conns, m \in SUBSET Events : m # {} =>
              [fd |-> g, file |-> x, mask |-> m, fresh |-> TRUE] \in Registrable
        BY Registration
      <4>2. File(r.fd) \in Conns  BY <3>1, <1>x
      <4>3. Wants(r.fd) \in SUBSET Events  BY <3>1, <1>w
      <4>4. Wants(r.fd) # {}  BY <3>1, <1>i
      <4> HIDE DEF Wants, File
      <4>5. [fd |-> r.fd, file |-> File(r.fd), mask |-> Wants(r.fd), fresh |-> TRUE] \in Registrable
        BY <3>1, <4>1, <4>2, <4>3, <4>4
      <4> QED  BY <3>1, <4>5
    <3>2. CASE \E q \in OldReg : r = [q EXCEPT !.fresh = @ /\ ~Register(q.fd)]
      BY <3>2, <1>n
    <3> QED  BY <3>1, <3>2, <1>r
  <2> QED  BY <1>t, <1>u, <2>1, <2>2 DEF IOTypeOK, Registrable
<1>2. HeadsOwned'  BY <1>t, <1>u DEF HeadsOwned
<1>3. ChangesNoted'  BY <1>u, <1>e DEF ChangesNoted, Wants
<1>4. Generations'
  <2>1. ASSUME NEW r \in Registrations, conn[r.file] = r.fd
        PROVE  r.fresh /\ r.mask = emask'[r.fd]
    <3>1. CASE Register(r.fd) /\ r.fd \in Fds /\ r.mask = Wants(r.fd) /\ r.fresh = TRUE
      BY <3>1, <1>k DEF Register
    <3>2. ASSUME NEW q \in OldReg, Register(q.fd) => q.file # File(q.fd),
                 r = [q EXCEPT !.fresh = @ /\ ~Register(q.fd)]
          PROVE  r.fresh /\ r.mask = emask'[r.fd]
      <4>1. /\ r.fd = q.fd /\ r.file = q.file /\ r.mask = q.mask /\ q \in reg /\ ~rearm
            /\ q.fd \in Fds /\ q.file \in Conns /\ r.fresh = (q.fresh /\ ~Register(q.fd))
        BY <3>2, <1>n, <1>o, <1>t, IOTypes DEF Registrable
      <4>2. File(q.fd) = q.file  BY <4>1, <2>1, <1>t, FileOf
      <4>3. ~Register(q.fd)  BY <4>2, <3>2
      <4>4. q.fresh /\ q.mask = emask[q.fd]  BY <4>1, <2>1 DEF IOInv, Generations
      <4>5. OldMask(q.fd) = emask[q.fd]  BY <4>1 DEF OldMask, Rearmed
      <4>6. emask'[q.fd] = q.mask  BY <4>1, <4>3, <4>4, <4>5, <1>k DEF Register
      <4> QED  BY <4>1, <4>3, <4>4, <4>6
    <3> QED  BY <3>1, <3>2, <1>r
  <2>2. ASSUME NEW r \in Registrations, NEW q \in Registrations, r.fd = q.fd, r.fresh, q.fresh
        PROVE  r = q
    <3>1. \A p \in Registrations : p.fresh /\ Register(p.fd) =>
            p = [fd |-> p.fd, file |-> File(p.fd), mask |-> Wants(p.fd), fresh |-> TRUE]
      <4> SUFFICES ASSUME NEW p \in Registrations, p.fresh, Register(p.fd)
                   PROVE  p = [fd |-> p.fd, file |-> File(p.fd), mask |-> Wants(p.fd), fresh |-> TRUE]
        OBVIOUS
      <4>1. ASSUME NEW o \in OldReg, p = [o EXCEPT !.fresh = @ /\ ~Register(o.fd)]  PROVE FALSE
        BY <4>1, <1>n
      <4> QED  BY <4>1, <1>r
    <3>2. \A p \in Registrations : ~Register(p.fd) => p \in OldReg
      <4> SUFFICES ASSUME NEW p \in Registrations, ~Register(p.fd)  PROVE p \in OldReg
        OBVIOUS
      <4>1. PICK o \in OldReg : p = [o EXCEPT !.fresh = @ /\ ~Register(o.fd)]  BY <1>r
      <4>2. p.fd = o.fd /\ o \in Registrable  BY <4>1, <1>n, <1>o, <1>t, IOTypes
      <4>3. (o.fresh /\ ~Register(o.fd)) = o.fresh  BY <4>2 DEF Registrable
      <4> QED  BY <4>1, <4>2, <4>3 DEF Registrable
    <3>3. CASE Register(r.fd)
      <4>1. r = [fd |-> r.fd, file |-> File(r.fd), mask |-> Wants(r.fd), fresh |-> TRUE]  BY <3>1, <3>3, <2>2
      <4>2. q = [fd |-> q.fd, file |-> File(q.fd), mask |-> Wants(q.fd), fresh |-> TRUE]  BY <3>1, <3>3, <2>2
      <4> QED  BY <4>1, <4>2, <2>2
    <3>4. CASE ~Register(r.fd)
      <4>1. r \in reg /\ q \in reg  BY <3>4, <3>2, <2>2, <1>o
      <4> QED  BY <4>1, <2>2 DEF IOInv, Generations
    <3> QED  BY <3>3, <3>4
  <2> QED  BY <2>1, <2>2, <1>u DEF Generations
<1>5. Told'
  <2> SUFFICES ASSUME NEW f \in Fds, NEW x \in Conns, conn[x] = f, Started(x), Wants(f) # {}
               PROVE  emask'[f] = Wants(f) /\ \E r \in Registrations : r.fd = f /\ r.file = x
    BY <1>u, <1>e DEF Told, Started
  <2>0. File(f) = x  BY <1>t, FileOf
  <2>1. CASE EpollModify(f)
    <3>1. emask'[f] = Wants(f)  BY <2>1, <1>k
    <3>2. CASE Register(f)
      <4>1. [fd |-> f, file |-> File(f), mask |-> Wants(f), fresh |-> TRUE] \in Registrations
        BY <3>2 DEF Registrations
      <4> QED  BY <4>1, <3>1, <2>0
    <3>3. CASE ~Register(f)
      <4>1. PICK r \in OldReg : r.fd = f /\ r.file = x  BY <3>3, <2>1, <2>0 DEF Register, Registered
      <4> QED  BY <4>1, <3>1, <3>3, <1>q
    <3> QED  BY <3>2, <3>3
  <2>2. CASE ~EpollModify(f)
    <3>1. ~FdReify(f)  BY <2>2 DEF EpollModify
    <3>2. "iofdset" \notin Flags(f) /\ (Flags(f) = {} \/ OldEvents(f) = Wants(f))  BY <3>1 DEF FdReify
    <3>3. ~Rearmed(f) /\ "iofdset" \notin reify[f]  BY <3>2 DEF Flags
    <3>4. events[f] = Wants(f)
      <4>1. CASE Flags(f) = {}
        <5>1. reify[f] = {}  BY <4>1 DEF Flags
        <5> QED  BY <5>1 DEF IOInv, ChangesNoted
      <4>2. CASE OldEvents(f) = Wants(f)  BY <4>2, <3>3 DEF OldEvents
      <4> QED  BY <4>1, <4>2, <3>2
    <3>5. PICK r \in reg : emask[f] = events[f] /\ r.fd = f /\ r.file = x
      BY <3>3, <3>4 DEF IOInv, Told
    <3>6. ~rearm  BY <3>3, <3>4 DEF Rearmed
    <3>7. r \in OldReg /\ OldMask(f) = emask[f]  BY <3>6, <1>o DEF OldMask, Rearmed
    <3>8. r \in Registrations  BY <3>7, <3>5, <2>2, <1>q DEF Register
    <3>9. emask'[f] = Wants(f)  BY <2>2, <3>4, <3>5, <3>7, <1>k
    <3> QED  BY <3>8, <3>9, <3>5
  <2> QED  BY <2>1, <2>2
<1>6. UnderWay'  BY <1>u DEF UnderWay
<1>7. EventsTrue'
  <2>1. \A v \in Watchers : IsActive(v) => IsActive(v)'  BY <1>u DEF IsActive
  <2> QED  BY <1>t, <1>u, <2>1, EventsStay
<1> QED  BY <1>1, <1>2, <1>3, <1>4, <1>5, <1>6, <1>7 DEF IOInv

LEMMA EpollWaitInv == ASSUME IOInv, EpollWait PROVE IOInv'
<1>t. IOTypeOK /\ EventsTrue  BY DEF IOInv
<1>u. /\ conn' = conn /\ head' = head /\ events' = events /\ emask' = emask /\ reify' = reify
      /\ iofdset' = iofdset /\ fedio' = fedio /\ rearm' = rearm /\ reg' = reg
      /\ phase = "wait" /\ phase' = "poll" /\ todo' \subseteq reg
  BY DEF EpollWait, anfds
<1>1. IOTypeOK'  BY <1>t, <1>u DEF IOTypeOK
<1>2. HeadsOwned' /\ ChangesNoted' /\ Generations'
  BY <1>u DEF IOInv, HeadsOwned, ChangesNoted, Generations, Wants
<1>5. Told'  BY <1>u DEF IOInv, Told, Started
<1>3. UnderWay'
  <2> SUFFICES ASSUME NEW r \in todo', NEW q \in reg, r.fresh, q.fd = r.fd, conn[q.file] = q.fd
               PROVE  q.file = r.file
    BY <1>u DEF UnderWay
  <2>1. q.fresh /\ r \in reg  BY <1>u DEF IOInv, Generations
  <2>2. q = r  BY <2>1 DEF IOInv, Generations
  <2> QED  BY <2>2
<1>4. EventsTrue'
  <2>1. \A v \in Watchers : IsActive(v) => IsActive(v)'  BY <1>u DEF IsActive
  <2> QED  BY <1>t, <1>u, <2>1, EventsStay
<1> QED  BY <1>1, <1>2, <1>3, <1>4, <1>5 DEF IOInv

LEMMA PollEndsInv == ASSUME IOInv, PollEnds PROVE IOInv'
<1>t. IOTypeOK /\ EventsTrue  BY DEF IOInv
<1>u. /\ conn' = conn /\ head' = head /\ events' = events /\ emask' = emask /\ reify' = reify
      /\ iofdset' = iofdset /\ fedio' = fedio /\ rearm' = rearm /\ reg' = reg /\ todo' = todo
      /\ phase' = "callbacks"
  BY DEF PollEnds, anfds
<1>1. IOTypeOK'  BY <1>t, <1>u DEF IOTypeOK
<1>2. HeadsOwned' /\ ChangesNoted' /\ Generations' /\ Told' /\ UnderWay'
  <2>1. HeadsOwned' /\ Generations'  BY <1>u DEF IOInv, HeadsOwned, Generations
  <2>2. ChangesNoted'  BY <1>u DEF IOInv, ChangesNoted, Wants
  <2>3. Told'  BY <1>u DEF IOInv, Told, Started
  <2>4. UnderWay'  BY <1>u DEF IOInv, UnderWay
  <2> QED  BY <2>1, <2>2, <2>3, <2>4
<1>4. EventsTrue'
  <2>1. \A v \in Watchers : IsActive(v) => IsActive(v)'  BY <1>u DEF IsActive
  <2> QED  BY <1>t, <1>u, <2>1, EventsStay
<1> QED  BY <1>1, <1>2, <1>4 DEF IOInv

LEMMA InvokeInv == ASSUME IOInv, Invoke PROVE IOInv'
<1>t. IOTypeOK /\ EventsTrue  BY DEF IOInv
<1>u. /\ conn' = conn /\ head' = head /\ events' = events /\ emask' = emask /\ reify' = reify
      /\ iofdset' = iofdset /\ rearm' = rearm /\ reg' = reg /\ todo' = todo /\ phase' = phase
      /\ fedio # <<>> /\ fedio' = SubSeq(fedio, 1, Len(fedio) - 1)
  BY DEF Invoke, anfds
<1>l. fedio \in Seq(Feedable) /\ Len(fedio) \in Nat \ {0}  BY <1>t, <1>u, IOTypes, EmptySeq, LenProperties
<1>s. /\ fedio' \in Seq(Feedable) /\ DOMAIN fedio' = 1 .. Len(fedio) - 1
      /\ \A i \in 1 .. Len(fedio) - 1 : fedio'[i] = fedio[i]
  BY <1>l, <1>u, SubSeqProperties
<1>1. IOTypeOK'  BY <1>t, <1>u, <1>s DEF IOTypeOK, Feedable
<1>2. HeadsOwned' /\ ChangesNoted' /\ Generations' /\ Told' /\ UnderWay'
  <2>1. HeadsOwned' /\ Generations'  BY <1>u DEF IOInv, HeadsOwned, Generations
  <2>2. ChangesNoted'  BY <1>u DEF IOInv, ChangesNoted, Wants
  <2>3. Told'  BY <1>u DEF IOInv, Told, Started
  <2>4. UnderWay'  BY <1>u DEF IOInv, UnderWay
  <2> QED  BY <2>1, <2>2, <2>3, <2>4
<1>3. EventsTrue'
  <2> SUFFICES ASSUME NEW i \in DOMAIN fedio', NEW w, w = fedio'[i].w, w # NoWatcher
               PROVE  /\ \E g \in Fds : w \in head[g]
                      /\ fedio'[i].of = w[1]
                      /\ {j \in DOMAIN fedio' : fedio'[j].w = w} = {i}
    BY <1>u DEF EventsTrue, IsActive, Pending
  <2>d. DOMAIN fedio = 1 .. Len(fedio)  BY <1>l, LenProperties
  <2>1. i \in DOMAIN fedio /\ fedio'[i] = fedio[i]  BY <1>s, <1>l, <2>d
  <2>2. IsActive(w) /\ fedio[i].of = w[1] /\ Pending(w) = {i}  BY <2>1, <1>t DEF EventsTrue
  <2>3. \A j \in DOMAIN fedio' : j \in DOMAIN fedio /\ fedio'[j] = fedio[j]  BY <1>s, <1>l, <2>d
  <2>4. {j \in DOMAIN fedio' : fedio'[j].w = w} = {i}
    BY <2>1, <2>2, <2>3 DEF Pending
  <2> QED  BY <2>1, <2>2, <2>4 DEF IsActive
<1> QED  BY <1>1, <1>2, <1>3 DEF IOInv

(****************************************)
(* An event of the current generation is of the connection whose watchers *)
(* its descriptor has. *)
(****************************************)
LEMMA OwnFile ==
  ASSUME IOInv, phase = "poll", NEW r \in todo, r.fresh, NEW w \in head[r.fd]
  PROVE  w[1] = r.file
<1>t. IOTypeOK  BY DEF IOInv
<1>1. r.fd \in Fds  BY <1>t, IOTypes DEF Registrable
<1>2. w \in Watchers /\ conn[w[1]] = r.fd /\ w \notin iofdset  BY <1>1, <1>t, IOTypes DEF IOInv, HeadsOwned
<1>3. w[1] \in Conns /\ w[2] \in Events /\ w = <<w[1], w[2]>>  BY <1>2, WatcherParts
<1>4. Started(w[1])  BY <1>2, <1>3 DEF Started
<1>5. reify[r.fd] = {} /\ events[r.fd] = Wants(r.fd)  BY <1>1 DEF IOInv, ChangesNoted
<1>6. events[r.fd] # {}  BY <1>5 DEF Wants
<1>7. PICK q \in reg : q.fd = r.fd /\ q.file = w[1]
  BY <1>1, <1>2, <1>3, <1>4, <1>5, <1>6 DEF IOInv, Told
<1> QED  BY <1>7, <1>2 DEF IOInv, UnderWay

(****************************************)
(* Feeding an event to the watchers of its own file. *)
(****************************************)
LEMMA FdEventSays ==
  ASSUME IOTypeOK, EventsTrue, NEW f \in Fds, NEW got, NEW file \in Conns, FdEvent(f, got, file),
         \A w \in head[f] : w[1] = file, head' = head
  PROVE  fedio' \in Seq(Feedable) /\ EventsTrue'
<1> DEFINE ws == {w \in head[f] : w[2] \in got /\ Pending(w) = {}}
           n == Cardinality(ws)
<1>1. PICK list \in [1 .. n -> ws] :
        /\ \A i, j \in DOMAIN list : list[i] = list[j] => i = j
        /\ fedio' = fedio \o [i \in DOMAIN list |-> [w |-> list[i], of |-> file]]
  BY DEF FdEvent
<1>2. n \in Nat
  <2>1. IsFiniteSet(Events)
    <3>1. Events = {"read"} \cup {"write"}  BY DEF Events
    <3> QED  BY <3>1, FS_Singleton, FS_Union
  <2>2. IsFiniteSet(Watchers)  BY <2>1, WatchersAssumption, FS_Product DEF Watchers
  <2>3. ws \subseteq Watchers  BY IOTypes
  <2> QED  BY <2>2, <2>3, FS_Subset, FS_CardinalityType
<1>3. \A w \in ws : w \in head[f] /\ Pending(w) = {} /\ w \in Watchers /\ w[1] = file  BY IOTypes
<1> HIDE DEF ws, n
<1> DEFINE more == [i \in 1 .. n |-> [w |-> list[i], of |-> file]]
<1>4. \A i \in 1 .. n : [w |-> list[i], of |-> file] \in Feedable  BY <1>1, <1>3 DEF Feedable
<1>5. more \in Seq(Feedable) /\ Len(more) = n /\ \A i \in 1 .. n : more[i] = [w |-> list[i], of |-> file]
  BY <1>2, <1>4, IsASeq
<1>6. fedio' = fedio \o more  BY <1>1
<1> HIDE DEF more
<1>7. fedio \in Seq(Feedable) /\ Len(fedio) \in Nat /\ DOMAIN fedio = 1 .. Len(fedio)  BY IOTypes, LenProperties
<1>8. /\ fedio' \in Seq(Feedable) /\ DOMAIN fedio' = 1 .. Len(fedio) + n
      /\ \A i \in 1 .. Len(fedio) : fedio'[i] = fedio[i]
      /\ \A i \in Len(fedio) + 1 .. Len(fedio) + n : fedio'[i] = more[i - Len(fedio)]
  BY <1>2, <1>5, <1>6, <1>7, ConcatProperties
<1>9. EventsTrue'
  <2> SUFFICES ASSUME NEW i \in DOMAIN fedio', NEW w, w = fedio'[i].w, w # NoWatcher
               PROVE  /\ \E g \in Fds : w \in head[g]
                      /\ fedio'[i].of = w[1]
                      /\ {j \in DOMAIN fedio' : fedio'[j].w = w} = {i}
    BY DEF EventsTrue, IsActive, Pending
  <2>1. \A j \in DOMAIN fedio' : j \in 1 .. Len(fedio) \/ (j \in Len(fedio) + 1 .. Len(fedio) + n /\ j - Len(fedio) \in 1 .. n)
    BY <1>2, <1>7, <1>8
  <2>m. \A j \in Len(fedio) + 1 .. Len(fedio) + n :
          j - Len(fedio) \in 1 .. n /\ fedio'[j].w = list[j - Len(fedio)] /\ fedio'[j].of = file
    <3> TAKE j \in Len(fedio) + 1 .. Len(fedio) + n
    <3>1. j - Len(fedio) \in 1 .. n  BY <1>2, <1>7
    <3>2. fedio'[j] = more[j - Len(fedio)]  BY <1>8
    <3>3. more[j - Len(fedio)] = [w |-> list[j - Len(fedio)], of |-> file]  BY <3>1, <1>5
    <3> QED  BY <3>1, <3>2, <3>3
  <2>2. CASE i \in 1 .. Len(fedio)
    <3>1. fedio'[i] = fedio[i] /\ i \in DOMAIN fedio  BY <2>2, <1>7, <1>8
    <3>2. IsActive(w) /\ fedio[i].of = w[1] /\ Pending(w) = {i}  BY <3>1 DEF EventsTrue
    <3>3. w \notin ws  BY <3>2, <1>3
    <3>4. \A j \in DOMAIN fedio' : fedio'[j].w = w <=> j = i
      <4> TAKE j \in DOMAIN fedio'
      <4>1. CASE j \in 1 .. Len(fedio)
        <5>1. fedio'[j] = fedio[j] /\ j \in DOMAIN fedio  BY <4>1, <1>7, <1>8
        <5> QED  BY <5>1, <3>2, <3>1 DEF Pending
      <4>2. CASE j \in Len(fedio) + 1 .. Len(fedio) + n
        <5>1. fedio'[j].w \in ws  BY <4>2, <2>m, <1>1
        <5>2. i # j  BY <4>2, <2>2, <1>7
        <5> QED  BY <5>1, <5>2, <3>3
      <4> QED  BY <4>1, <4>2, <2>1
    <3>5. {j \in DOMAIN fedio' : fedio'[j].w = w} = {i}  BY <3>4
    <3> QED  BY <3>1, <3>2, <3>5 DEF IsActive
  <2>3. CASE i \in Len(fedio) + 1 .. Len(fedio) + n
    <3>1. w = list[i - Len(fedio)] /\ i - Len(fedio) \in 1 .. n /\ fedio'[i].of = file  BY <2>3, <2>m
    <3>2. w \in ws  BY <3>1, <1>1
    <3>3. w \in head[f] /\ Pending(w) = {} /\ w[1] = file  BY <3>2, <1>3
    <3>4. \A j \in DOMAIN fedio' : fedio'[j].w = w <=> j = i
      <4> TAKE j \in DOMAIN fedio'
      <4>1. CASE j \in 1 .. Len(fedio)
        <5>1. fedio'[j] = fedio[j] /\ j \in DOMAIN fedio  BY <4>1, <1>7, <1>8
        <5>2. fedio[j].w # w  BY <5>1, <3>3 DEF Pending
        <5>3. i # j  BY <4>1, <2>3, <1>7
        <5> QED  BY <5>1, <5>2, <5>3
      <4>2. CASE j \in Len(fedio) + 1 .. Len(fedio) + n
        <5>1. fedio'[j].w = list[j - Len(fedio)] /\ j - Len(fedio) \in 1 .. n  BY <4>2, <2>m
        <5>2. DOMAIN list = 1 .. n  BY <1>1
        <5>3. fedio'[j].w = w <=> j - Len(fedio) = i - Len(fedio)  BY <5>1, <5>2, <3>1, <1>1
        <5>4. j - Len(fedio) = i - Len(fedio) <=> j = i  BY <4>2, <2>3, <1>7
        <5> QED  BY <5>3, <5>4
      <4> QED  BY <4>1, <4>2, <2>1
    <3>5. {j \in DOMAIN fedio' : fedio'[j].w = w} = {i}  BY <3>4
    <3> QED  BY <3>1, <3>3, <3>5
  <2> QED  BY <2>1, <2>2, <2>3
<1> QED  BY <1>8, <1>9

(****************************************)
(* One event of those that epoll_wait returned. *)
(****************************************)
LEMMA ReportInv ==
  ASSUME IOInv, NEW r \in todo, NEW got \in (SUBSET Events) \ {{}}, Report(r, got)
  PROVE  IOInv'
<1> DEFINE f == r.fd
           mine == {q \in reg : q.fd = f /\ conn[q.file] = f}
           want == events[f]
<1>t. IOTypeOK /\ EventsTrue  BY DEF IOInv
<1>r. r \in Registrable /\ f \in Fds /\ r.file \in Conns  BY <1>t, IOTypes DEF Registrable
<1>u. /\ conn' = conn /\ head' = head /\ events' = events /\ reify' = reify /\ iofdset' = iofdset
      /\ phase = "poll" /\ phase' = "poll" /\ todo' \subseteq todo
  BY DEF Report
<1>h. HeadsOwned' /\ ChangesNoted'  BY <1>u DEF IOInv, HeadsOwned, ChangesNoted, Wants
<1>a. \A v \in Watchers : IsActive(v) => IsActive(v)'  BY <1>u DEF IsActive
<1>f. ASSUME r.fresh, FdEvent(f, got, r.file)  PROVE fedio' \in Seq(Feedable) /\ EventsTrue'
  <2>1. \A w \in head[f] : w[1] = r.file  BY <1>f, <1>u, OwnFile
  <2> HIDE DEF f
  <2> QED  BY <1>f, <2>1, <1>t, <1>r, <1>u, FdEventSays
<1>1. CASE rearm' \in BOOLEAN /\ UNCHANGED <<emask, reg>> /\ fedio' \in Seq(Feedable) /\ EventsTrue'
  <2>1. IOTypeOK'  BY <1>1, <1>t, <1>u DEF IOTypeOK, Feedable
  <2>2. Generations' /\ Told' /\ UnderWay'  BY <1>1, <1>u DEF IOInv, Generations, Told, Started, UnderWay
  <2> QED  BY <1>1, <2>1, <2>2, <1>h DEF IOInv
<1>2. CASE ~r.fresh /\ rearm' = TRUE /\ UNCHANGED <<emask, fedio, reg>>
  <2>1. EventsTrue'  BY <1>2, <1>t, <1>a, EventsStay
  <2>2. fedio' \in Seq(Feedable)  BY <1>2, <1>t, IOTypes
  <2> QED  BY <2>1, <2>2, <1>1, <1>2
<1>3. CASE r.fresh /\ FdEvent(f, got, r.file) /\ UNCHANGED <<emask, rearm, reg>>
  BY <1>3, <1>f, <1>1, <1>t DEF IOTypeOK
<1>4. CASE r.fresh /\ Mend(f, got, r.file)
  <2>e. /\ \A g \in Fds : emask'[g] = IF g = f THEN want ELSE emask[g]
        /\ emask' \in [Fds -> SUBSET Events] /\ want \in SUBSET Events
    BY <1>4, <1>r, <1>t, IOTypes DEF Mend
  <2>1. CASE mine = {} /\ rearm' = TRUE /\ UNCHANGED <<fedio, reg>>
    <3>1. IOTypeOK'  BY <2>1, <2>e, <1>t, <1>u DEF IOTypeOK
    <3>2. Generations'
      <4>1. \A q \in reg : conn[q.file] = q.fd => q.fd # f  BY <2>1
      <4>2. \A q \in reg : q.fd \in Fds  BY <1>t, IOTypes DEF Registrable
      <4> QED  BY <4>1, <4>2, <2>1, <2>e, <1>u DEF IOInv, Generations
    <3>3. Told'  BY <2>1, <2>e, <1>u DEF IOInv, Told, Started
    <3>4. UnderWay'  BY <2>1, <1>u DEF IOInv, UnderWay
    <3>5. EventsTrue'  BY <2>1, <1>t, <1>a, EventsStay
    <3> QED  BY <3>1, <3>2, <3>3, <3>4, <3>5, <1>h DEF IOInv
  <2>2. CASE /\ mine # {} /\ FdEvent(f, got, r.file) /\ UNCHANGED rearm
             /\ reg' = (reg \ mine) \cup IF want = {} THEN {} ELSE {[q EXCEPT !.mask = want] : q \in mine}
    <3>0. fedio' \in Seq(Feedable) /\ EventsTrue'  BY <1>4, <2>2, <1>f
    <3>q. \A q \in reg : q.fd \in Fds /\ q \in Registrable  BY <1>t, IOTypes DEF Registrable
    <3>m. ASSUME NEW q \in mine, NEW p, p = [q EXCEPT !.mask = want]
          PROVE  /\ p.fd = f /\ p.file = q.file /\ p.mask = want /\ p.fresh = q.fresh
                 /\ want # {} => p \in Registrable
      <4>1. q \in Registrable /\ q.fd = f  BY <3>q
      <4> QED  BY <3>m, <4>1, <2>e, NewMask
    <3>p. \A p \in reg' : \/ p \in reg /\ p \notin mine
                          \/ want # {} /\ \E q \in mine : p = [q EXCEPT !.mask = want]
      BY <2>2
    <3>n. \A q \in mine : q \in reg /\ q.fd = f /\ conn[q.file] = f  OBVIOUS
    <3>i. \A q \in reg : (q.fd # f \/ conn[q.file] # f) => q \in reg'  BY <2>2
    <3>j. \A q \in mine : want # {} => [q EXCEPT !.mask = want] \in reg'  BY <2>2
    <3>k. \A q \in reg : q \notin mine /\ conn[q.file] = q.fd => q.fd # f  OBVIOUS
    <3> HIDE DEF mine, want
    <3>1. IOTypeOK'
      <4>1. reg' \subseteq Registrable  BY <3>p, <3>m, <3>q
      <4> QED  BY <4>1, <3>0, <2>2, <2>e, <1>t, <1>u DEF IOTypeOK, Feedable, Registrable
    <3>2. Generations'
      <4>1. ASSUME NEW p \in reg', conn[p.file] = p.fd  PROVE p.fresh /\ p.mask = emask'[p.fd]
        <5>1. CASE p \in reg /\ p \notin mine
          <6>1. p.fd # f  BY <5>1, <4>1, <3>k
          <6>2. p.fd \in Fds  BY <5>1, <3>q
          <6>3. p.fresh /\ p.mask = emask[p.fd]  BY <5>1, <4>1 DEF IOInv, Generations
          <6> QED  BY <6>1, <6>2, <6>3, <2>e
        <5>2. ASSUME NEW q \in mine, p = [q EXCEPT !.mask = want]  PROVE p.fresh /\ p.mask = emask'[p.fd]
          <6>1. q.fresh  BY <3>n DEF IOInv, Generations
          <6> QED  BY <6>1, <5>2, <3>m, <2>e, <1>r
        <5> QED  BY <5>1, <5>2, <3>p
      <4>2. ASSUME NEW p \in reg', NEW o \in reg', p.fd = o.fd, p.fresh, o.fresh  PROVE p = o
        <5>1. ASSUME NEW s \in reg', s.fresh
              PROVE  \E q \in reg : q.fd = s.fd /\ q.fresh /\
                       s = IF q \in mine THEN [q EXCEPT !.mask = want] ELSE q
          BY <5>1, <3>p, <3>m, <3>n
        <5>2. PICK q \in reg : q.fd = p.fd /\ q.fresh /\ p = IF q \in mine THEN [q EXCEPT !.mask = want] ELSE q
          BY <4>2, <5>1
        <5>3. PICK l \in reg : l.fd = o.fd /\ l.fresh /\ o = IF l \in mine THEN [l EXCEPT !.mask = want] ELSE l
          BY <4>2, <5>1
        <5>4. q = l  BY <5>2, <5>3, <4>2 DEF IOInv, Generations
        <5> QED  BY <5>2, <5>3, <5>4
      <4> QED  BY <4>1, <4>2, <1>u DEF Generations
    <3>3. Told'
      <4> SUFFICES ASSUME NEW g \in Fds, NEW y \in Conns,
                          conn[y] = g, Started(y), events[g] # {}, "iofdset" \notin reify[g]
                   PROVE  emask'[g] = events[g] /\ \E q \in reg' : q.fd = g /\ q.file = y
        BY <1>u DEF Told, Started
      <4>1. PICK q \in reg : emask[g] = events[g] /\ q.fd = g /\ q.file = y  BY DEF IOInv, Told
      <4>2. CASE g # f  BY <4>1, <4>2, <3>i, <2>e
      <4>3. CASE g = f
        <5>1. q \in mine /\ want = events[g]  BY <4>1, <4>3 DEF mine, want
        <5>2. [q EXCEPT !.mask = want] \in reg'  BY <5>1, <3>j
        <5> QED  BY <5>1, <5>2, <3>m, <4>1, <4>3, <2>e
      <4> QED  BY <4>2, <4>3
    <3>4. UnderWay'
      <4> SUFFICES ASSUME NEW s \in todo, NEW p \in reg', s.fresh, p.fd = s.fd, conn[p.file] = p.fd
                   PROVE  p.file = s.file
        BY <1>u DEF UnderWay
      <4>1. \E q \in reg : q.fd = p.fd /\ q.file = p.file  BY <3>p, <3>m, <3>n
      <4> QED  BY <4>1, <1>u DEF IOInv, UnderWay
    <3> QED  BY <3>0, <3>1, <3>2, <3>3, <3>4, <1>h DEF IOInv
  <2> QED  BY <1>4, <2>1, <2>2 DEF Mend
<1> QED  BY <1>2, <1>3, <1>4 DEF Report

LEMMA IOStep == ASSUME IOInv, [IONext]_iovars PROVE IOInv'
<1>1. ASSUME NEW x \in Conns, NEW f \in Fds, Open(x, f)  PROVE IOInv'  BY <1>1, OpenInv
<1>2. ASSUME NEW w \in Watchers, IoStart(w)  PROVE IOInv'  BY <1>2, IoStartInv
<1>3. ASSUME NEW w \in Watchers, IoStop(w)  PROVE IOInv'  BY <1>3, IoStopInv
<1>4. ASSUME NEW x \in Conns, NEW shared \in BOOLEAN, Close(x, shared)  PROVE IOInv'  BY <1>4, CloseInv
<1>5. ASSUME NEW r \in todo, NEW got \in (SUBSET Events) \ {{}}, Report(r, got)  PROVE IOInv'  BY <1>5, ReportInv
<1>6. CASE UNCHANGED iovars
  <2> USE <1>6 DEF iovars, anfds
  <2>1. IOTypeOK' /\ HeadsOwned' /\ Generations'  BY DEF IOInv, IOTypeOK, HeadsOwned, Generations
  <2>2. ChangesNoted'  BY DEF IOInv, ChangesNoted, Wants
  <2>3. Told'  BY DEF IOInv, Told, Started
  <2>4. UnderWay'  BY DEF IOInv, UnderWay
  <2>5. EventsTrue'
    <3>1. \A v \in Watchers : IsActive(v) => IsActive(v)'  BY DEF IsActive
    <3> QED  BY <3>1, EventsStay DEF IOInv
  <2> QED  BY <2>1, <2>2, <2>3, <2>4, <2>5 DEF IOInv
<1> QED
  BY <1>1, <1>2, <1>3, <1>4, <1>5, <1>6, ChildExitsInv, PollInv, EpollWaitInv, PollEndsInv, InvokeInv DEF IONext

LEMMA IOInvSuffices == ASSUME IOInv PROVE WatchersTrue
<1>t. IOTypeOK  BY DEF IOInv
<1>1. KernelInSync
  <2> SUFFICES ASSUME phase = "wait", NEW w \in Watchers, NEW f \in Fds, w \in head[f]
               PROVE  \E r \in reg : r.file = w[1] /\ r.fd = conn[w[1]] /\ r.fresh /\ w[2] \in r.mask
    BY DEF KernelInSync, IsActive
  <2>1. conn[w[1]] = f /\ w \notin iofdset  BY DEF IOInv, HeadsOwned
  <2>2. w[1] \in Conns /\ w[2] \in Events /\ w = <<w[1], w[2]>>  BY WatcherParts
  <2>3. Started(w[1])  BY <2>1, <2>2 DEF Started
  <2>4. reify[f] = {} /\ events[f] = Wants(f)  BY DEF IOInv, ChangesNoted
  <2>5. w[2] \in events[f]  BY <2>4 DEF Wants
  <2>6. PICK r \in reg : emask[f] = events[f] /\ r.fd = f /\ r.file = w[1]
    BY <2>1, <2>2, <2>3, <2>4, <2>5 DEF IOInv, Told
  <2>7. r.fresh /\ r.mask = emask[f]  BY <2>6, <2>1 DEF IOInv, Generations
  <2> QED  BY <2>1, <2>5, <2>6, <2>7
<1> QED  BY <1>1 DEF IOInv, WatchersTrue

(* Whatever descriptors are closed and reused, shared with children, *)
(* started and stopped in whatever order (ev.c, ev_epoll.c): whoever waits *)
(* is registered with the kernel, and no callback runs for an event of *)
(* another connection's file. *)
THEOREM WatchersTrueHolds == IOSpec => []WatchersTrue
<1>1. IOInit => IOInv  BY IOInitInv
<1>2. IOInv /\ [IONext]_iovars => IOInv'  BY IOStep
<1>3. IOInv => WatchersTrue  BY IOInvSuffices
<1> QED  BY <1>1, <1>2, <1>3, PTL DEF IOSpec

----------------------------------------
(****************************************)
(* The heap of the timers.  upheap and downheap are recursive functions: *)
(* that they are defined, and what they return, is shown of the least *)
(* place for which it would not hold. *)
(****************************************)

(* The smallest of the numbers that satisfy what a set is made of. *)
LEMMA LeastOf ==
  ASSUME NEW S, S \subseteq Nat, S # {}
  PROVE  \E m \in S : \A k \in S : m <= k
<1> DEFINE L == OpToRel(<, Nat)
<1>1. IsWellFoundedOn(L, Nat)
  BY NatLessThanWellFounded
<1>2. \A x, y \in Nat : x < y => <<x, y>> \in L
  BY DEF OpToRel
<1> HIDE DEF L
<1>3. PICK m \in S : \A k \in S : ~(<<k, m>> \in L)
  BY <1>1, WFMin
<1>4. \A k \in S : m <= k
  <2> TAKE k \in S
  <2>1. k \in Nat /\ m \in Nat
    OBVIOUS
  <2>2. ~(k < m)
    BY <1>2, <1>3, <2>1
  <2> QED BY <2>1, <2>2
<1> QED BY <1>4

(****************************************)
(* A loop that goes from place to place by next, nearer to an end with *)
(* each turn (rank): it stops with base, and a turn writes val where it *)
(* was. *)
(****************************************)
Turn(D, stop, next, base, val, f) ==
  [i \in D |-> IF stop[i] THEN base[i] ELSE [f[next[i]] EXCEPT ![i] = val[i]]]

Nears(D, stop, next, rank, m) ==
  /\ rank \in [D -> Nat] /\ m \in Nat
  /\ \A i \in D : rank[i] <= m
  /\ \A i \in D : ~stop[i] => next[i] \in D /\ rank[next[i]] < rank[i]

Ends(D, stop, next, base, val) == \E f : f = Turn(D, stop, next, base, val, f)

LEMMA LoopEnds ==
  ASSUME NEW D, NEW stop, NEW next, NEW base, NEW val, NEW rank, NEW m,
         Nears(D, stop, next, rank, m)
  PROVE  Ends(D, stop, next, base, val)
<1>0. /\ rank \in [D -> Nat] /\ m \in Nat
      /\ \A i \in D : rank[i] <= m
      /\ \A i \in D : ~stop[i] => next[i] \in D /\ rank[next[i]] < rank[i]
  BY DEF Nears
<1> SUFFICES \E f : f = Turn(D, stop, next, base, val, f)
  BY DEF Ends
<1> DEFINE Part(n) == {i \in D : rank[i] <= n}
           Ok(n) == \E f : f = Turn(Part(n), stop, next, base, val, f)
           Bad == {n \in Nat : ~Ok(n)}
<1>1. CASE Bad = {}
  <2>1. Ok(m)  BY <1>0, <1>1
  <2>2. Part(m) = D  BY <1>0
  <2> QED  BY <2>1, <2>2
<1>2. CASE Bad # {}
  <2>1. PICK n \in Bad : \A k \in Bad : n <= k
    <3>1. Bad \subseteq Nat  OBVIOUS
    <3> HIDE DEF Bad
    <3> QED  BY <1>2, <3>1, LeastOf
  <2>2. n \in Nat /\ ~Ok(n)  OBVIOUS
  <2>3. \E f : \A i \in Part(n) : rank[i] < n =>
           f[i] = IF stop[i] THEN base[i] ELSE [f[next[i]] EXCEPT ![i] = val[i]]
    <3>1. CASE n = 0
      <4>1. \A i \in Part(n) : ~(rank[i] < n)  BY <1>0, <3>1
      <4> QED  BY <4>1
    <3>2. CASE n # 0
      <4>1. n - 1 \in Nat /\ ~(n <= n - 1)  BY <2>2, <3>2
      <4>2. Ok(n - 1)  BY <4>1, <2>1
      <4>3. PICK f : f = Turn(Part(n - 1), stop, next, base, val, f)  BY <4>2
      <4>4. \A i \in Part(n) : rank[i] < n => i \in Part(n - 1)  BY <1>0, <2>2, <4>1
      <4>5. \A i \in Part(n - 1) : f[i] = IF stop[i] THEN base[i] ELSE [f[next[i]] EXCEPT ![i] = val[i]]
        BY <4>3 DEF Turn
      <4> HIDE DEF Part
      <4> QED  BY <4>4, <4>5
    <3> QED  BY <3>1, <3>2
  <2>4. PICK f : \A i \in Part(n) : rank[i] < n =>
           f[i] = IF stop[i] THEN base[i] ELSE [f[next[i]] EXCEPT ![i] = val[i]]
    BY <2>3
  <2> DEFINE g == Turn(Part(n), stop, next, base, val, f)
  <2>5. \A i \in Part(n) : g[i] = IF stop[i] THEN base[i] ELSE [f[next[i]] EXCEPT ![i] = val[i]]
    BY DEF Turn
  <2>6. \A i \in Part(n) : ~stop[i] => next[i] \in Part(n) /\ rank[next[i]] < n
    BY <1>0, <2>2
  <2>7. \A i \in Part(n) : ~stop[i] => g[next[i]] = f[next[i]]
    <3> SUFFICES ASSUME NEW i \in Part(n), ~stop[i]  PROVE g[next[i]] = f[next[i]]
      OBVIOUS
    <3>1. next[i] \in Part(n) /\ rank[next[i]] < n  BY <2>6
    <3>2. ASSUME NEW j \in Part(n), rank[j] < n  PROVE g[j] = f[j]
      <4> HIDE DEF g, Part
      <4> QED  BY <3>2, <2>4, <2>5
    <3> HIDE DEF g, Part
    <3> QED  BY <3>1, <3>2
  <2>8. g = Turn(Part(n), stop, next, base, val, g)
    <3>1. g = [i \in Part(n) |-> IF stop[i] THEN base[i] ELSE [f[next[i]] EXCEPT ![i] = val[i]]]
      BY DEF Turn
    <3>2. Turn(Part(n), stop, next, base, val, g)
            = [i \in Part(n) |-> IF stop[i] THEN base[i] ELSE [g[next[i]] EXCEPT ![i] = val[i]]]
      BY DEF Turn
    <3> HIDE DEF g, Part
    <3> QED  BY <3>1, <3>2, <2>7
  <2> QED  BY <2>2, <2>8
<1> QED  BY <1>1, <1>2

LEMMA Grows ==
  ASSUME NEW b \in Nat, NEW x \in Int, NEW y \in Int, x <= y
  PROVE  b * x <= b * y
BY SMTT(20)

LEMMA Spread ==
  ASSUME NEW b \in Nat, NEW x \in Int
  PROVE  b * (x + 1) = b * x + b
BY SMTT(20)

LEMMA Quotient ==
  ASSUME NEW a \in Nat, NEW b \in Nat \ {0}
  PROVE  /\ a \div b \in Nat
         /\ b * (a \div b) <= a
         /\ a < b * (a \div b) + b
<1>1. a = b * (a \div b) + (a % b)
  BY Z3
<1>2. a % b \in 0 .. b - 1
  BY Z3
<1>3. a \div b \in Int
  BY Z3
<1> DEFINE q == a \div b
<1> DEFINE r == a % b
<1> DEFINE p == b * q
<1>4. p \in Int BY <1>3
<1>5. p <= a /\ a < p + b
  <2> HIDE DEF p, r
  <2>1. a = p + r BY <1>1 DEF p, r
  <2>2. r \in 0 .. b - 1 BY <1>2 DEF r
  <2> QED BY <1>4, <2>1, <2>2
<1>6. q \in Nat
  <2>0. q \in Int BY <1>3
  <2> HIDE DEF q
  <2> SUFFICES ASSUME q < 0 PROVE FALSE BY <2>0
  <2>1. q + 1 <= 0 BY <2>0
  <2>2. b * (q + 1) <= b * 0
    <3>1. q + 1 \in Int /\ 0 \in Int BY <2>0
    <3> QED BY <2>1, <3>1, Grows
  <2>3. b * (q + 1) = b * q + b BY <2>0, Spread
  <2>4. b * 0 = 0 OBVIOUS
  <2> QED BY <2>2, <2>3, <2>4, <1>5, <1>4
<1> QED BY <1>5, <1>6

LEMMA Squeezed ==
  ASSUME NEW b \in Nat \ {0}, NEW x \in Int, NEW y \in Int, NEW a \in Int,
         b * x <= a, a < b * x + b, b * y <= a, a < b * y + b
  PROVE  x = y
<1>1. CASE x < y
  <2>1. x + 1 <= y BY <1>1
  <2>2. b * (x + 1) <= b * y BY <2>1, SMTT(20)
  <2>3. b * (x + 1) = b * x + b BY SMTT(20)
  <2>4. b * x \in Int /\ b * y \in Int OBVIOUS
  <2> QED BY <2>2, <2>3, <2>4
<1>2. CASE y < x
  <2>1. y + 1 <= x BY <1>2
  <2>2. b * (y + 1) <= b * x BY <2>1, SMTT(20)
  <2>3. b * (y + 1) = b * y + b BY SMTT(20)
  <2>4. b * x \in Int /\ b * y \in Int OBVIOUS
  <2> QED BY <2>2, <2>3, <2>4
<1> QED BY <1>1, <1>2

LEMMA ParentFacts ==
  ASSUME NEW c \in Nat, c >= 2
  PROVE  /\ Parent(c) \in Nat /\ 1 <= Parent(c) /\ Parent(c) < c
         /\ Branches * (Parent(c) - 1) + 2 <= c
         /\ c <= Branches * (Parent(c) - 1) + Branches + 1
<1> DEFINE q == (c - 2) \div Branches
<1>0. Branches \in Nat /\ Branches >= 2 BY TimerAssumption
<1>1. q \in Nat /\ Branches * q <= c - 2 /\ c - 2 < Branches * q + Branches
  BY <1>0, Quotient
<1>2. Parent(c) = q + 1 BY DEF Parent
<1> HIDE DEF q
<1>3. Parent(c) - 1 = q BY <1>1, <1>2
<1>4. Branches * q >= 2 * q BY <1>0, <1>1, SMTT(20)
<1>5. Branches * q \in Int BY <1>0, <1>1
<1> QED BY <1>0, <1>1, <1>2, <1>3, <1>4, <1>5

LEMMA ParentIs ==
  ASSUME NEW k \in Nat \ {0}, NEW c \in Nat,
         Branches * (k - 1) + 2 <= c, c <= Branches * k + 1
  PROVE  c >= 2 /\ Parent(c) = k
<1>0. Branches \in Nat /\ Branches >= 2 BY TimerAssumption
<1>1. Branches * (k - 1) >= 0 BY <1>0, SMTT(20)
<1>2. Branches * (k - 1) \in Int /\ Branches * k \in Int BY <1>0
<1>3. c >= 2 BY <1>1, <1>2
<1>4. Branches * k = Branches * (k - 1) + Branches BY <1>0, SMTT(20)
<1> DEFINE p == Parent(c)
<1>5. p \in Nat /\ Branches * (p - 1) + 2 <= c /\ c <= Branches * (p - 1) + Branches + 1
  BY <1>3, ParentFacts
<1> HIDE DEF p
<1>6. Branches * (p - 1) \in Int BY <1>0, <1>5
<1>7. p - 1 = k - 1
  <2>1. Branches * (p - 1) <= c - 2 /\ c - 2 < Branches * (p - 1) + Branches BY <1>0, <1>5, <1>6
  <2>2. Branches * (k - 1) <= c - 2 /\ c - 2 < Branches * (k - 1) + Branches BY <1>0, <1>4, <1>2
  <2>3. p - 1 \in Int /\ k - 1 \in Int /\ c - 2 \in Int /\ Branches \in Nat \ {0} BY <1>0, <1>5
  <2> QED BY <2>1, <2>2, <2>3, Squeezed
<1>8. p = k BY <1>5, <1>7
<1> QED BY <1>3, <1>8 DEF p

LEMMA ChildrenAre ==
  ASSUME NEW S, NEW h \in Seq(S), NEW k \in Nat \ {0}
  PROVE  Children(h, k) = {c \in DOMAIN h \ {1} : Parent(c) = k}
<1>0. Branches \in Nat /\ Branches >= 2 BY TimerAssumption
<1>1. ASSUME NEW c \in Children(h, k) PROVE c \in DOMAIN h \ {1} /\ Parent(c) = k
  <2>1. c \in Branches * (k - 1) + 2 .. Branches * k + 1 /\ c \in DOMAIN h BY DEF Children
  <2>2. Branches * (k - 1) \in Int /\ Branches * k \in Int BY <1>0
  <2>3. c \in Nat /\ c >= 1 BY <2>1
  <2>4. Branches * (k - 1) + 2 <= c /\ c <= Branches * k + 1 BY <2>1, <2>2
  <2> QED BY <2>1, <2>3, <2>4, ParentIs
<1>2. ASSUME NEW c \in DOMAIN h \ {1}, Parent(c) = k PROVE c \in Children(h, k)
  <2>1. c \in Nat /\ c >= 2 OBVIOUS
  <2>2. Branches * (k - 1) + 2 <= c /\ c <= Branches * (k - 1) + Branches + 1 BY <1>2, <2>1, ParentFacts
  <2>3. Branches * k = Branches * (k - 1) + Branches BY <1>0, SMTT(20)
  <2>4. Branches * (k - 1) \in Int /\ Branches * k \in Int BY <1>0
  <2>5. c \in Branches * (k - 1) + 2 .. Branches * k + 1 BY <2>1, <2>2, <2>3, <2>4, <1>0
  <2> QED BY <2>5 DEF Children
<1> QED BY <1>1, <1>2

----------------------------------------

(* What is in the heap. *)
Entries == [w : Timers, at : Nat]

(* Places of the heap, and those above them. *)
LEMMA Places ==
  ASSUME NEW h \in Seq(Entries)
  PROVE  /\ Len(h) \in Nat /\ DOMAIN h = 1 .. Len(h)
         /\ \A j \in DOMAIN h : j \in Nat /\ j >= 1 /\ h[j] \in Entries /\ h[j].at \in Nat
         /\ \A j \in DOMAIN h \ {1} : Parent(j) \in DOMAIN h /\ Parent(j) < j
<1>1. Len(h) \in Nat /\ DOMAIN h = 1 .. Len(h)
  OBVIOUS
<1>2. \A j \in DOMAIN h : j \in Nat /\ j >= 1 /\ h[j] \in Entries
  BY <1>1
<1>3. \A e \in Entries : e.at \in Nat
  BY DEF Entries
<1>4. ASSUME NEW j \in DOMAIN h \ {1}
      PROVE  Parent(j) \in DOMAIN h /\ Parent(j) < j
  <2>1. j \in Nat /\ j >= 2 /\ j <= Len(h) BY <1>1, <1>2
  <2> QED BY <1>1, <2>1, ParentFacts
<1> QED BY <1>1, <1>2, <1>3, <1>4

(****************************************)
(* Up: h is a heap but for place k, which is due too late for none below *)
(* it.  With the hole at i, the elements above it are not changed yet. *)
(****************************************)
FitsBelow(h, k) ==
  /\ \A j \in DOMAIN h \ {1} : j # k => h[Parent(j)].at <= h[j].at
  /\ k # 1 => \A j \in DOMAIN h \ {1} : Parent(j) = k => h[Parent(k)].at <= h[j].at

OnWayUp(h, k, i) == i = k \/ (i < k /\ i <= Parent(k) /\ h[k].at < h[i].at)

OfHeap(h, g) ==
  /\ g \in [DOMAIN h -> Entries]
  /\ \A j \in DOMAIN h : \E m \in DOMAIN h : g[j] = h[m]

MovedUp(h, k, i, g) ==
  /\ OfHeap(h, g)
  /\ \A j \in DOMAIN h : j > i => g[j] = h[j]
  /\ g[i] = h[k] \/ (i # 1 /\ g[i] = h[Parent(i)])
  /\ \A j \in DOMAIN h \ {1} : Parent(j) # i /\ (j # k \/ i = k) => g[Parent(j)].at <= g[j].at

UpStops(h, k, i) == i = 1 \/ h[Parent(i)].at <= h[k].at

LEMMA UpStop ==
  ASSUME NEW h \in Seq(Entries), NEW k \in DOMAIN h, FitsBelow(h, k),
         NEW i \in DOMAIN h, OnWayUp(h, k, i), UpStops(h, k, i),
         NEW g, g = [h EXCEPT ![i] = h[k]]
  PROVE  MovedUp(h, k, i, g)
<1>1. \A j \in DOMAIN h : j \in Nat /\ j >= 1 /\ h[j].at \in Int
  BY Places
<1>2. \A j \in DOMAIN h \ {1} : Parent(j) \in DOMAIN h /\ Parent(j) < j
  BY Places
<1>3. DOMAIN g = DOMAIN h /\ g[i] = h[k] /\ \A j \in DOMAIN h : j # i => g[j] = h[j]
  OBVIOUS
<1>4. OfHeap(h, g)
  BY <1>3 DEF OfHeap
<1>5. \A j \in DOMAIN h : j > i => g[j] = h[j]
  BY <1>1, <1>3
<1>6. ASSUME NEW j \in DOMAIN h \ {1}, Parent(j) # i, j # k \/ i = k
      PROVE  g[Parent(j)].at <= g[j].at
  <2>1. g[Parent(j)] = h[Parent(j)] BY <1>2, <1>3, <1>6
  <2>2. CASE j = i
    BY <1>3, <1>6, <2>1, <2>2 DEF UpStops
  <2>3. CASE j # i
    <3>1. j # k BY <1>6, <2>3
    <3> QED BY <1>3, <2>1, <2>3, <3>1 DEF FitsBelow
  <2> QED BY <2>2, <2>3
<1> QED BY <1>3, <1>4, <1>5, <1>6 DEF MovedUp

LEMMA UpTurn ==
  ASSUME NEW h \in Seq(Entries), NEW k \in DOMAIN h, FitsBelow(h, k),
         NEW i \in DOMAIN h, OnWayUp(h, k, i), ~UpStops(h, k, i),
         NEW f, MovedUp(h, k, Parent(i), f),
         NEW g, g = [f EXCEPT ![i] = h[Parent(i)]]
  PROVE  MovedUp(h, k, i, g)
<1> DEFINE p == Parent(i)
<1>1. \A j \in DOMAIN h : j \in Nat /\ j >= 1 /\ h[j].at \in Int
  BY Places
<1>2. \A j \in DOMAIN h \ {1} : Parent(j) \in DOMAIN h /\ Parent(j) < j
  BY Places
<1>3. i # 1 /\ p \in DOMAIN h /\ p < i /\ h[k].at < h[p].at
  BY <1>1, <1>2 DEF UpStops
<1>4. DOMAIN f = DOMAIN h BY DEF MovedUp, OfHeap
<1>5. DOMAIN g = DOMAIN h /\ g[i] = h[p] /\ \A j \in DOMAIN h : j # i => g[j] = f[j]
  BY <1>4
<1>6. p < k
  BY <1>1, <1>3 DEF OnWayUp
<1>7. f[p] = h[k] \/ (p # 1 /\ f[p] = h[Parent(p)])
  BY DEF MovedUp
<1> HIDE DEF p
<1>8. f[p].at <= h[p].at /\ f[p].at \in Int
  <2>1. CASE f[p] = h[k] BY <1>1, <1>3, <2>1
  <2>2. CASE p # 1 /\ f[p] = h[Parent(p)]
    <3>1. h[Parent(p)].at <= h[p].at BY <1>1, <1>3, <1>6, <2>2 DEF FitsBelow
    <3> QED BY <1>1, <1>2, <1>3, <2>2, <3>1
  <2> QED BY <1>7, <2>1, <2>2
<1>9. OfHeap(h, g)
  <2>1. OfHeap(h, f) BY DEF MovedUp
  <2>2. f \in [DOMAIN h -> Entries] BY <2>1 DEF OfHeap
  <2>3. h[p] \in Entries BY <1>3, Places
  <2>4. g \in [DOMAIN h -> Entries] BY <2>2, <2>3 DEF p
  <2> QED BY <1>3, <1>5, <2>1, <2>4 DEF OfHeap
<1>10. \A j \in DOMAIN h : j > p => f[j] = h[j]
  BY DEF MovedUp, p
<1>11. \A j \in DOMAIN h : j > i => g[j] = h[j]
  BY <1>1, <1>3, <1>5, <1>10
<1>12. ASSUME NEW j \in DOMAIN h \ {1}, Parent(j) # i, j # k \/ i = k
      PROVE  g[Parent(j)].at <= g[j].at
  <2>1. g[Parent(j)] = f[Parent(j)] BY <1>2, <1>5, <1>12
  <2>2. CASE j = i
    BY <1>3, <1>5, <1>8, <2>1, <2>2 DEF p
  <2>3. CASE j # i
    <3>1. j # k /\ g[j] = f[j] BY <1>5, <1>12, <2>3
    <3>2. CASE Parent(j) = p
      <4>1. j > p BY <1>2, <3>2
      <4>2. g[j] = h[j] BY <1>10, <3>1, <4>1
      <4>3. h[p].at <= h[j].at BY <3>1, <3>2 DEF FitsBelow
      <4> QED BY <1>1, <1>3, <1>8, <2>1, <3>2, <4>2, <4>3
    <3>3. CASE Parent(j) # p
      BY <2>1, <3>1, <3>3 DEF MovedUp, p
    <3> QED BY <3>2, <3>3
  <2> QED BY <2>2, <2>3
<1> QED BY <1>3, <1>5, <1>9, <1>11, <1>12 DEF MovedUp, p

(* Down: h is a heap but for place k, which may be due too late for those *)
(* below it.  With the hole at i, the elements below it are not there yet. *)
FitsAbove(h, k) ==
  /\ \A j \in DOMAIN h \ {1} : Parent(j) # k => h[Parent(j)].at <= h[j].at
  /\ k # 1 => \A j \in DOMAIN h \ {1} : Parent(j) = k => h[Parent(k)].at <= h[j].at

OnWayDown(h, k, i) == i = k \/ (i > k /\ h[i].at < h[k].at)

MovedDown(h, k, i, g) ==
  /\ OfHeap(h, g)
  /\ \A j \in DOMAIN h : j < i => g[j] = h[j]
  /\ \A j \in DOMAIN h : j # i => h[j].at <= g[j].at
  /\ g[i] = h[k] \/ \E c \in DOMAIN h \ {1} : Parent(c) = i /\ g[i] = h[c]
  /\ \A j \in DOMAIN h \ {1} : j # i /\ (Parent(j) # k \/ i = k) => g[Parent(j)].at <= g[j].at

DownStops(h, k, i) == Children(h, i) = {} \/ h[k].at <= h[Least(h, i)].at

LEMMA LeastDue ==
  ASSUME NEW h \in Seq(Entries), NEW i \in DOMAIN h, Children(h, i) # {}
  PROVE  /\ Least(h, i) \in DOMAIN h \ {1} /\ Parent(Least(h, i)) = i
         /\ \A j \in DOMAIN h \ {1} : Parent(j) = i => h[Least(h, i)].at <= h[j].at
<1> DEFINE C == Children(h, i)
           Ats == {h[c].at : c \in C}
<1>1. C = {c \in DOMAIN h \ {1} : Parent(c) = i}
  BY Places, ChildrenAre
<1>2. \A c \in C : c \in Nat /\ h[c].at \in Nat
  BY <1>1, Places
<1>3. Ats \subseteq Nat /\ Ats # {}
  BY <1>2
<1>4. PICK a \in Ats : \A b \in Ats : a <= b
  <2> HIDE DEF Ats
  <2> QED BY <1>3, LeastOf
<1> DEFINE F == {c \in C : h[c].at = a}
<1>5. F \subseteq Nat /\ F # {}
  BY <1>2
<1>6. PICK c \in F : \A d \in F : c <= d
  <2> HIDE DEF F
  <2> QED BY <1>5, LeastOf
<1>7. \A d \in C : h[c].at < h[d].at \/ (h[c].at = h[d].at /\ c <= d)
  <2> TAKE d \in C
  <2>1. h[c].at = a /\ a <= h[d].at /\ h[d].at \in Nat /\ a \in Nat BY <1>2, <1>4, <1>6
  <2>2. CASE h[d].at = a BY <2>1, <2>2, <1>6
  <2>3. CASE h[d].at # a BY <2>1, <2>3
  <2> QED BY <2>2, <2>3
<1>8. c \in C
  OBVIOUS
<1> HIDE DEF C, Ats, F
<1>9. /\ Least(h, i) \in C
      /\ \A d \in C : h[Least(h, i)].at < h[d].at \/ (h[Least(h, i)].at = h[d].at /\ Least(h, i) <= d)
  BY <1>7, <1>8 DEF Least, C
<1>10. \A d \in C : h[Least(h, i)].at <= h[d].at
  BY <1>2, <1>9
<1> QED BY <1>1, <1>9, <1>10

LEMMA DownStop ==
  ASSUME NEW h \in Seq(Entries), NEW k \in DOMAIN h, FitsAbove(h, k),
         NEW i \in DOMAIN h, OnWayDown(h, k, i), DownStops(h, k, i),
         NEW g, g = [h EXCEPT ![i] = h[k]]
  PROVE  MovedDown(h, k, i, g)
<1>1. \A j \in DOMAIN h : j \in Nat /\ j >= 1 /\ h[j].at \in Int
  BY Places
<1>2. \A j \in DOMAIN h \ {1} : Parent(j) \in DOMAIN h /\ Parent(j) < j
  BY Places
<1>3. DOMAIN g = DOMAIN h /\ g[i] = h[k] /\ \A j \in DOMAIN h : j # i => g[j] = h[j]
  OBVIOUS
<1>4. OfHeap(h, g)
  BY <1>3 DEF OfHeap
<1>5. \A j \in DOMAIN h : j < i => g[j] = h[j]
  BY <1>1, <1>3
<1>6. \A j \in DOMAIN h : j # i => h[j].at <= g[j].at
  BY <1>1, <1>3
<1>7. ASSUME NEW j \in DOMAIN h \ {1}, j # i, Parent(j) # k \/ i = k
      PROVE  g[Parent(j)].at <= g[j].at
  <2>1. g[j] = h[j] BY <1>3, <1>7
  <2>2. CASE Parent(j) = i
    <3>1. j \in Children(h, i) BY <2>2, Places, ChildrenAre
    <3>2. h[k].at <= h[Least(h, i)].at BY <3>1 DEF DownStops
    <3>3. Least(h, i) \in DOMAIN h /\ h[Least(h, i)].at <= h[j].at BY <2>2, <3>1, LeastDue
    <3> QED BY <1>1, <1>3, <2>1, <2>2, <3>2, <3>3
  <2>3. CASE Parent(j) # i
    BY <1>2, <1>3, <1>7, <2>1, <2>3 DEF FitsAbove
  <2> QED BY <2>2, <2>3
<1> QED BY <1>3, <1>4, <1>5, <1>6, <1>7 DEF MovedDown

LEMMA DownTurn ==
  ASSUME NEW h \in Seq(Entries), NEW k \in DOMAIN h, FitsAbove(h, k),
         NEW i \in DOMAIN h, OnWayDown(h, k, i), ~DownStops(h, k, i),
         NEW f, MovedDown(h, k, Least(h, i), f),
         NEW g, g = [f EXCEPT ![i] = h[Least(h, i)]]
  PROVE  MovedDown(h, k, i, g)
<1> DEFINE c == Least(h, i)
<1>1. \A j \in DOMAIN h : j \in Nat /\ j >= 1 /\ h[j].at \in Int
  BY Places
<1>2. \A j \in DOMAIN h \ {1} : Parent(j) \in DOMAIN h /\ Parent(j) < j
  BY Places
<1>3. /\ c \in DOMAIN h \ {1} /\ Parent(c) = i /\ ~(h[k].at <= h[c].at)
      /\ \A j \in DOMAIN h \ {1} : Parent(j) = i => h[c].at <= h[j].at
  BY LeastDue DEF DownStops
<1>4. DOMAIN f = DOMAIN h BY DEF MovedDown, OfHeap
<1>5. DOMAIN g = DOMAIN h /\ g[i] = h[c] /\ \A j \in DOMAIN h : j # i => g[j] = f[j]
  BY <1>4
<1>6. /\ OfHeap(h, f)
      /\ \A j \in DOMAIN h : j < c => f[j] = h[j]
      /\ \A j \in DOMAIN h : j # c => h[j].at <= f[j].at
      /\ f[c] = h[k] \/ \E d \in DOMAIN h \ {1} : Parent(d) = c /\ f[c] = h[d]
      /\ \A j \in DOMAIN h \ {1} : j # c /\ (Parent(j) # k \/ c = k) => f[Parent(j)].at <= f[j].at
  BY DEF MovedDown
<1> HIDE DEF c
<1>7. i < c /\ k < c
  BY <1>1, <1>2, <1>3 DEF OnWayDown
<1>8. h[c].at <= f[c].at
  <2>1. CASE f[c] = h[k] BY <1>1, <1>3, <2>1
  <2>2. CASE \E d \in DOMAIN h \ {1} : Parent(d) = c /\ f[c] = h[d]
    <3>1. PICK d \in DOMAIN h \ {1} : Parent(d) = c /\ f[c] = h[d] BY <2>2
    <3>2. c # k BY <1>1, <1>7
    <3> QED BY <3>1, <3>2 DEF FitsAbove
  <2> QED BY <1>6, <2>1, <2>2
<1>9. OfHeap(h, g)
  <2>1. f \in [DOMAIN h -> Entries] BY <1>6 DEF OfHeap
  <2>2. h[c] \in Entries BY <1>3, Places
  <2>3. g \in [DOMAIN h -> Entries] BY <2>1, <2>2 DEF c
  <2> QED BY <1>3, <1>5, <1>6, <2>3 DEF OfHeap
<1>10. \A j \in DOMAIN h : j < i => g[j] = h[j]
  BY <1>1, <1>3, <1>5, <1>6, <1>7
<1>11. \A j \in DOMAIN h : j # i => h[j].at <= g[j].at
  BY <1>5, <1>6, <1>8
<1>12. ASSUME NEW j \in DOMAIN h \ {1}, j # i, Parent(j) # k \/ i = k
      PROVE  g[Parent(j)].at <= g[j].at
  <2>1. g[j] = f[j] BY <1>5, <1>12
  <2>2. CASE Parent(j) = i
    <3>1. g[Parent(j)] = h[c] BY <1>5, <2>2
    <3>2. h[c].at <= h[j].at BY <1>3, <2>2
    <3>3. h[j].at <= f[j].at BY <1>6, <1>8
    <3>4. f[j].at \in Int BY <1>1, <1>6 DEF OfHeap
    <3> QED BY <1>1, <1>3, <2>1, <3>1, <3>2, <3>3, <3>4
  <2>3. CASE Parent(j) # i
    <3>1. j # c /\ Parent(j) # k BY <1>3, <1>12, <2>3
    <3>2. g[Parent(j)] = f[Parent(j)] BY <1>2, <1>5, <2>3
    <3> QED BY <1>6, <2>1, <3>1, <3>2
  <2> QED BY <2>2, <2>3
<1> QED BY <1>3, <1>5, <1>9, <1>10, <1>11, <1>12 DEF MovedDown, c

(* upheap comes to an end, with the element where it belongs. *)
LEMMA UpHeapMoves ==
  ASSUME NEW h \in Seq(Entries), NEW k \in DOMAIN h, FitsBelow(h, k)
  PROVE  MovedUp(h, k, k, UpHeap(h, k))
<1> DEFINE D == DOMAIN h
           stop == [i \in D |-> UpStops(h, k, i)]
           next == [i \in D |-> Parent(i)]
           base == [i \in D |-> [h EXCEPT ![i] = h[k]]]
           val  == [i \in D |-> h[Parent(i)]]
           rank == [i \in D |-> i]
           Body(f) == [i \in D |-> IF i = 1 \/ h[Parent(i)].at <= h[k].at THEN [h EXCEPT ![i] = h[k]]
                                   ELSE [f[Parent(i)] EXCEPT ![i] = h[Parent(i)]]]
<1>1. /\ Len(h) \in Nat /\ D = 1 .. Len(h)
      /\ \A i \in D : i \in Nat /\ i <= Len(h)
      /\ \A i \in D \ {1} : Parent(i) \in D /\ Parent(i) < i
  BY Places
<1>2. ASSUME NEW f  PROVE Body(f) = Turn(D, stop, next, base, val, f)
  BY <1>1 DEF Turn, UpStops
<1>3. rank \in [D -> Nat] /\ \A i \in D : rank[i] <= Len(h)
  BY <1>1
<1>4. \A i \in D : ~stop[i] => next[i] \in D /\ rank[next[i]] < rank[i]
  BY <1>1 DEF UpStops
<1>5. \E f : f = Turn(D, stop, next, base, val, f)
  <2>1. Nears(D, stop, next, rank, Len(h))
    <3> HIDE DEF D, stop, next, rank
    <3> QED BY <1>1, <1>3, <1>4 DEF Nears
  <2>2. Ends(D, stop, next, base, val)
    <3> HIDE DEF D, stop, next, base, val, rank
    <3> QED BY <2>1, LoopEnds
  <2> HIDE DEF D, stop, next, base, val
  <2> QED BY <2>2 DEF Ends
<1>6. \E f : f = Body(f)
  <2> HIDE DEF D, stop, next, base, val, rank, Body
  <2> QED BY <1>2, <1>5
<1> DEFINE up == CHOOSE f : f = Body(f)
<1>7. up = Body(up)
  <2> HIDE DEF Body
  <2> QED BY <1>6
<1>8. UpHeap(h, k) = up[k]
  BY DEF UpHeap
<1>9. \A i \in D : up[i] = IF UpStops(h, k, i) THEN [h EXCEPT ![i] = h[k]]
                           ELSE [up[Parent(i)] EXCEPT ![i] = h[Parent(i)]]
  <2> HIDE DEF up
  <2> QED BY <1>7 DEF UpStops
<1> HIDE DEF up, Body, stop, next, base, val, rank
<1> DEFINE Bad == {i \in D : OnWayUp(h, k, i) /\ ~MovedUp(h, k, i, up[i])}
<1>10. CASE Bad # {}
  <2>1. Bad \subseteq Nat BY <1>1
  <2>2. PICK i \in Bad : \A j \in Bad : i <= j
    <3> HIDE DEF Bad
    <3> QED BY <1>10, <2>1, LeastOf
  <2>3. i \in D /\ OnWayUp(h, k, i) /\ ~MovedUp(h, k, i, up[i])
    OBVIOUS
  <2>4. ~UpStops(h, k, i)
    BY <1>9, <2>3, UpStop
  <2> DEFINE p == Parent(i)
  <2>5. i # 1 /\ p \in D /\ p < i /\ ~(h[p].at <= h[k].at)
    BY <1>1, <2>3, <2>4 DEF UpStops
  <2>6. h[p].at \in Nat /\ h[k].at \in Nat /\ k \in Nat /\ i \in Nat /\ p \in Nat
    BY <1>1, <2>3, <2>5, Places
  <2>7. OnWayUp(h, k, p)
    <3>1. CASE i = k BY <2>5, <2>6, <3>1 DEF OnWayUp
    <3>2. CASE i < k /\ i <= Parent(k)
      <4>1. k # 1 /\ k \in D BY <1>1, <2>6, <3>2, <2>3
      <4>2. Parent(k) \in Nat BY <1>1, <4>1
      <4> QED BY <2>5, <2>6, <3>2, <4>2 DEF OnWayUp
    <3> QED BY <2>3, <3>1, <3>2 DEF OnWayUp
  <2>8. p \notin Bad BY <2>5, <2>6, <2>2
  <2>9. MovedUp(h, k, p, up[p]) BY <2>5, <2>7, <2>8
  <2>10. up[i] = [up[p] EXCEPT ![i] = h[p]] BY <1>9, <2>3, <2>4
  <2> QED BY <2>3, <2>4, <2>9, <2>10, UpTurn
<1>11. CASE Bad = {}
  BY <1>8, <1>11 DEF OnWayUp
<1> QED BY <1>10, <1>11

(* downheap likewise. *)
LEMMA DownHeapMoves ==
  ASSUME NEW h \in Seq(Entries), NEW k \in DOMAIN h, FitsAbove(h, k)
  PROVE  MovedDown(h, k, k, DownHeap(h, k))
<1> DEFINE D == DOMAIN h
           stop == [i \in D |-> DownStops(h, k, i)]
           next == [i \in D |-> Least(h, i)]
           base == [i \in D |-> [h EXCEPT ![i] = h[k]]]
           val  == [i \in D |-> h[Least(h, i)]]
           rank == [i \in D |-> Len(h) - i]
           Body(f) == [i \in D |-> IF Children(h, i) = {} \/ h[k].at <= h[Least(h, i)].at THEN [h EXCEPT ![i] = h[k]]
                                   ELSE [f[Least(h, i)] EXCEPT ![i] = h[Least(h, i)]]]
<1>1. /\ Len(h) \in Nat /\ D = 1 .. Len(h)
      /\ \A i \in D : i \in Nat /\ i <= Len(h)
  BY Places
<1>2. ASSUME NEW f  PROVE Body(f) = Turn(D, stop, next, base, val, f)
  BY <1>1 DEF Turn, DownStops
<1>3. \A i \in D : ~DownStops(h, k, i) => Least(h, i) \in D /\ i < Least(h, i)
  <2> TAKE i \in D
  <2> HAVE ~DownStops(h, k, i)
  <2>1. Least(h, i) \in D \ {1} /\ Parent(Least(h, i)) = i BY LeastDue DEF DownStops
  <2> QED BY <2>1, Places
<1>4. rank \in [D -> Nat] /\ \A i \in D : rank[i] <= Len(h)
  BY <1>1
<1>5. \A i \in D : ~stop[i] => next[i] \in D /\ rank[next[i]] < rank[i]
  BY <1>1, <1>3
<1>6. \E f : f = Turn(D, stop, next, base, val, f)
  <2>1. Nears(D, stop, next, rank, Len(h))
    <3> HIDE DEF D, stop, next, rank
    <3> QED BY <1>1, <1>4, <1>5 DEF Nears
  <2>2. Ends(D, stop, next, base, val)
    <3> HIDE DEF D, stop, next, base, val, rank
    <3> QED BY <2>1, LoopEnds
  <2> HIDE DEF D, stop, next, base, val
  <2> QED BY <2>2 DEF Ends
<1>7. \E f : f = Body(f)
  <2> HIDE DEF D, stop, next, base, val, rank, Body
  <2> QED BY <1>2, <1>6
<1> DEFINE down == CHOOSE f : f = Body(f)
<1>8. down = Body(down)
  <2> HIDE DEF Body
  <2> QED BY <1>7
<1>9. DownHeap(h, k) = down[k]
  BY DEF DownHeap
<1>10. \A i \in D : down[i] = IF DownStops(h, k, i) THEN [h EXCEPT ![i] = h[k]]
                              ELSE [down[Least(h, i)] EXCEPT ![i] = h[Least(h, i)]]
  <2> HIDE DEF down
  <2> QED BY <1>8 DEF DownStops
<1> HIDE DEF down, Body, stop, next, base, val, rank
<1> DEFINE Fails(i) == OnWayDown(h, k, i) /\ ~MovedDown(h, k, i, down[i])
           Bad == {n \in 0 .. Len(h) : \E i \in D : n = Len(h) - i /\ Fails(i)}
<1>11. CASE Bad # {}
  <2>1. Bad \subseteq Nat BY <1>1
  <2>2. PICK n \in Bad : \A j \in Bad : n <= j
    <3> HIDE DEF Bad
    <3> QED BY <1>11, <2>1, LeastOf
  <2>3. PICK i \in D : n = Len(h) - i /\ Fails(i)
    OBVIOUS
  <2>4. ~DownStops(h, k, i)
    BY <1>10, <2>3, DownStop
  <2> DEFINE c == Least(h, i)
  <2>5. c \in D /\ i < c /\ c \in Nat /\ i \in Nat /\ k \in Nat
    BY <1>1, <1>3, <2>4
  <2>6. h[c].at \in Nat /\ h[k].at \in Nat /\ ~(h[k].at <= h[c].at)
    BY <2>4, <2>5, Places DEF DownStops
  <2>7. OnWayDown(h, k, c)
    BY <2>3, <2>5, <2>6 DEF OnWayDown
  <2>8. ~Fails(c)
    <3>1. Len(h) - c \in 0 .. Len(h) /\ ~(n <= Len(h) - c) BY <1>1, <2>3, <2>5
    <3>2. Len(h) - c \notin Bad BY <2>2, <3>1
    <3> HIDE DEF Fails
    <3> QED BY <2>5, <3>1, <3>2
  <2>9. MovedDown(h, k, c, down[c]) BY <2>7, <2>8
  <2>10. down[i] = [down[c] EXCEPT ![i] = h[c]] BY <1>10, <2>4
  <2> QED BY <2>3, <2>4, <2>9, <2>10, DownTurn
<1>12. CASE Bad = {}
  <2>1. Len(h) - k \in 0 .. Len(h) BY <1>1
  <2>2. ~Fails(k)
    <3> HIDE DEF Fails
    <3> QED BY <1>12, <2>1
  <2> QED BY <1>9, <2>2 DEF OnWayDown
<1> QED BY <1>11, <1>12

----------------------------------------

(* h with the elements of g: none new, and a heap. *)
HeapOf(h, g) ==
  /\ g \in Seq(Entries) /\ Len(g) = Len(h)
  /\ OfHeap(h, g)
  /\ InOrder(g)

LEMMA Permuted ==
  ASSUME NEW h \in Seq(Entries), NEW g, OfHeap(h, g)
  PROVE  g \in Seq(Entries) /\ Len(g) = Len(h) /\ DOMAIN g = DOMAIN h
<1>1. Len(h) \in Nat /\ DOMAIN h = 1 .. Len(h)
  BY Places
<1>2. g \in [1 .. Len(h) -> Entries]
  BY <1>1 DEF OfHeap
<1>3. g \in Seq(Entries)
  BY <1>1, <1>2, SeqDef
<1> QED BY <1>1, <1>2, <1>3

LEMMA UpHeapOrders ==
  ASSUME NEW h \in Seq(Entries), NEW k \in DOMAIN h, FitsBelow(h, k)
  PROVE  HeapOf(h, UpHeap(h, k))
<1> DEFINE g == UpHeap(h, k)
<1>1. MovedUp(h, k, k, g)
  BY UpHeapMoves
<1> HIDE DEF g
<1>2. OfHeap(h, g) /\ g \in Seq(Entries) /\ Len(g) = Len(h) /\ DOMAIN g = DOMAIN h
  BY <1>1, Permuted DEF MovedUp
<1>3. /\ \A j \in DOMAIN h : j \in Nat /\ j >= 1 /\ h[j].at \in Int
      /\ \A j \in DOMAIN h \ {1} : Parent(j) \in DOMAIN h /\ Parent(j) < j
  BY Places
<1>4. ASSUME NEW j \in DOMAIN h \ {1}  PROVE g[Parent(j)].at <= g[j].at
  <2>1. CASE Parent(j) # k
    BY <1>1, <2>1 DEF MovedUp
  <2>2. CASE Parent(j) = k
    <3>1. j > k /\ j # k BY <1>3, <2>2
    <3>2. g[j] = h[j] BY <1>1, <3>1 DEF MovedUp
    <3>3. CASE g[k] = h[k]
      BY <2>2, <3>1, <3>2, <3>3 DEF FitsBelow
    <3>4. CASE k # 1 /\ g[k] = h[Parent(k)]
      BY <2>2, <3>2, <3>4 DEF FitsBelow
    <3> QED BY <1>1, <3>3, <3>4 DEF MovedUp
  <2> QED BY <2>1, <2>2
<1>5. InOrder(g)
  BY <1>2, <1>4 DEF InOrder
<1> QED BY <1>2, <1>5 DEF HeapOf, g

LEMMA DownHeapOrders ==
  ASSUME NEW h \in Seq(Entries), NEW k \in DOMAIN h, FitsAbove(h, k)
  PROVE  HeapOf(h, DownHeap(h, k))
<1> DEFINE g == DownHeap(h, k)
<1>1. MovedDown(h, k, k, g)
  BY DownHeapMoves
<1> HIDE DEF g
<1>2. OfHeap(h, g) /\ g \in Seq(Entries) /\ Len(g) = Len(h) /\ DOMAIN g = DOMAIN h
  BY <1>1, Permuted DEF MovedDown
<1>3. /\ \A j \in DOMAIN h : j \in Nat /\ j >= 1 /\ h[j].at \in Int
      /\ \A j \in DOMAIN h \ {1} : Parent(j) \in DOMAIN h /\ Parent(j) < j
  BY Places
<1>4. ASSUME NEW j \in DOMAIN h \ {1}  PROVE g[Parent(j)].at <= g[j].at
  <2>1. CASE j # k
    BY <1>1, <2>1 DEF MovedDown
  <2>2. CASE j = k
    <3>1. Parent(k) \in DOMAIN h /\ Parent(k) < k /\ Parent(k) # k BY <1>3, <2>2
    <3>2. g[Parent(k)] = h[Parent(k)] BY <1>1, <3>1 DEF MovedDown
    <3>3. CASE g[k] = h[k]
      BY <2>2, <3>1, <3>2, <3>3 DEF FitsAbove
    <3>4. CASE \E c \in DOMAIN h \ {1} : Parent(c) = k /\ g[k] = h[c]
      BY <2>2, <3>2, <3>4 DEF FitsAbove
    <3> QED BY <1>1, <3>3, <3>4 DEF MovedDown
  <2> QED BY <2>1, <2>2
<1>5. InOrder(g)
  BY <1>2, <1>4 DEF InOrder
<1> QED BY <1>2, <1>5 DEF HeapOf, g

(* A timer that is put in. *)
LEMMA InsertOrders ==
  ASSUME NEW h \in Seq(Entries), InOrder(h), NEW t \in Timers, NEW at \in Nat
  PROVE  HeapOf(Append(h, [w |-> t, at |-> at]), Insert(h, t, at))
<1> DEFINE g == Append(h, [w |-> t, at |-> at])
<1>1. /\ g \in Seq(Entries) /\ Len(g) = Len(h) + 1 /\ Len(g) \in DOMAIN g
      /\ \A j \in DOMAIN g : j # Len(g) => j \in DOMAIN h /\ g[j] = h[j]
  BY DEF Entries
<1>2. Insert(h, t, at) = UpHeap(g, Len(g))
  BY DEF Insert
<1> HIDE DEF g
<1>3. /\ \A j \in DOMAIN g : j \in Nat /\ j <= Len(g)
      /\ \A j \in DOMAIN g \ {1} : Parent(j) \in DOMAIN g /\ Parent(j) < j
  BY <1>1, Places
<1>4. \A j \in DOMAIN g \ {1} : Parent(j) # Len(g)
  <2> TAKE j \in DOMAIN g \ {1}
  <2>1. j \in Nat /\ j <= Len(g) /\ Parent(j) \in Nat /\ Parent(j) < j /\ Len(g) \in Nat BY <1>1, <1>3
  <2> QED BY <2>1
<1>5. FitsBelow(g, Len(g))
  BY <1>1, <1>3, <1>4 DEF FitsBelow, InOrder
<1> QED BY <1>1, <1>2, <1>5, UpHeapOrders DEF g

(* A timer that is taken out. *)
LEMMA TakeOutOrders ==
  ASSUME NEW h \in Seq(Entries), InOrder(h), NEW k \in DOMAIN h
  PROVE  /\ TakeOut(h, k) \in Seq(Entries) /\ InOrder(TakeOut(h, k))
         /\ \A j \in DOMAIN TakeOut(h, k) : \E m \in DOMAIN h : TakeOut(h, k)[j] = h[m]
<1> DEFINE rest == SubSeq(h, 1, Len(h) - 1)
           n == Len(h)
           g == [rest EXCEPT ![k] = h[n]]
<1>1. /\ n \in Nat /\ DOMAIN h = 1 .. n /\ n >= 1 /\ n \in DOMAIN h /\ k \in Nat /\ k <= n
      /\ \A j \in DOMAIN h : j \in Nat /\ j >= 1 /\ j <= n /\ h[j] \in Entries /\ h[j].at \in Nat
      /\ \A j \in DOMAIN h \ {1} : Parent(j) \in DOMAIN h /\ Parent(j) < j
  BY Places
<1>2. /\ rest \in Seq(Entries) /\ DOMAIN rest = 1 .. n - 1
      /\ \A j \in DOMAIN rest : j \in DOMAIN h /\ rest[j] = h[j]
  OBVIOUS
<1>3. TakeOut(h, k) = IF k = n THEN rest ELSE AdjustHeap(g, k)
  BY DEF TakeOut
<1>4. InOrder(rest)
  <2> SUFFICES ASSUME NEW j \in DOMAIN rest \ {1}  PROVE rest[Parent(j)].at <= rest[j].at
    BY DEF InOrder
  <2>1. j \in DOMAIN h \ {1} /\ rest[j] = h[j] /\ j <= n - 1 BY <1>1, <1>2
  <2>2. Parent(j) \in DOMAIN rest BY <1>1, <1>2, <2>1
  <2> HIDE DEF rest
  <2> QED BY <1>2, <2>1, <2>2 DEF InOrder
<1> HIDE DEF rest, n
<1>5. CASE k = n
  BY <1>2, <1>3, <1>4, <1>5
<1>6. CASE k # n
  <2>1. k \in DOMAIN rest BY <1>1, <1>2, <1>6
  <2>2. /\ g \in Seq(Entries) /\ DOMAIN g = DOMAIN rest /\ k \in DOMAIN g /\ g[k] = h[n]
        /\ \A j \in DOMAIN g : j # k => g[j] = rest[j]
    BY <1>1, <1>2, <2>1
  <2> HIDE DEF g
  <2>3. \A j \in DOMAIN g \ {1} :
          Parent(j) \in DOMAIN g /\ Parent(j) < j /\ rest[Parent(j)].at <= rest[j].at
    BY <1>4, <2>2, Places DEF InOrder
  <2>4. \A j \in DOMAIN g : j \in Nat /\ rest[j].at \in Nat /\ g[j].at \in Nat
    BY <1>1, <1>2, <2>2
  <2>5. \A j \in DOMAIN g \ {1} : j # k /\ Parent(j) # k => g[Parent(j)].at <= g[j].at
    BY <2>2, <2>3
  <2>6. k # 1 => \A j \in DOMAIN g \ {1} : Parent(j) = k => g[Parent(k)].at <= g[j].at
    <3> SUFFICES ASSUME k # 1, NEW j \in DOMAIN g \ {1}, Parent(j) = k
                 PROVE  g[Parent(k)].at <= g[j].at
      OBVIOUS
    <3>1. Parent(k) \in DOMAIN g /\ Parent(k) # k /\ j # k BY <2>2, <2>3, <2>4
    <3>2. rest[Parent(k)].at <= rest[k].at /\ rest[k].at <= rest[j].at BY <2>2, <2>3
    <3> QED BY <2>2, <2>4, <3>1, <3>2
  <2>7. HeapOf(g, AdjustHeap(g, k))
    <3>1. CASE k > 1 /\ g[k].at <= g[Parent(k)].at
      <4>1. \A j \in DOMAIN g \ {1} : Parent(j) = k => g[k].at <= g[j].at
        <5> SUFFICES ASSUME NEW j \in DOMAIN g \ {1}, Parent(j) = k  PROVE g[k].at <= g[j].at
          OBVIOUS
        <5>1. g[Parent(k)].at <= g[j].at /\ Parent(k) \in DOMAIN g BY <2>2, <2>3, <2>4, <2>6, <3>1
        <5> QED BY <2>2, <2>4, <3>1, <5>1
      <4>2. FitsBelow(g, k) BY <2>5, <2>6, <4>1 DEF FitsBelow
      <4> QED BY <2>2, <3>1, <4>2, UpHeapOrders DEF AdjustHeap
    <3>2. CASE ~(k > 1 /\ g[k].at <= g[Parent(k)].at)
      <4>1. k # 1 => g[Parent(k)].at <= g[k].at
        <5>1. k # 1 => k > 1 /\ k \in DOMAIN g \ {1} BY <1>1, <2>2, <2>4
        <5>2. k # 1 => g[k].at \in Nat /\ g[Parent(k)].at \in Nat BY <2>3, <2>4, <5>1
        <5> QED BY <3>2, <5>1, <5>2
      <4>2. FitsAbove(g, k) BY <2>5, <2>6, <4>1 DEF FitsAbove
      <4> QED BY <2>2, <3>2, <4>2, DownHeapOrders DEF AdjustHeap
    <3> QED BY <3>1, <3>2
  <2> DEFINE r == AdjustHeap(g, k)
  <2>8. r \in Seq(Entries) /\ InOrder(r) /\ OfHeap(g, r) /\ DOMAIN r = DOMAIN g
    BY <2>2, <2>7, Permuted DEF HeapOf
  <2>9. TakeOut(h, k) = r BY <1>3, <1>6
  <2> HIDE DEF r
  <2>10. \A m \in DOMAIN g : \E l \in DOMAIN h : g[m] = h[l] BY <1>1, <1>2, <2>2
  <2>11. \A j \in DOMAIN r : \E m \in DOMAIN h : r[j] = h[m] BY <2>8, <2>10 DEF OfHeap
  <2> QED BY <2>8, <2>9, <2>11
<1> QED BY <1>5, <1>6

(* The first of a heap is due first. *)
LEMMA FirstIsDue ==
  ASSUME NEW h \in Seq(Entries), InOrder(h), NEW k \in DOMAIN h
  PROVE  1 \in DOMAIN h /\ h[1].at <= h[k].at
<1> DEFINE Bad == {j \in DOMAIN h : ~(h[1].at <= h[j].at)}
<1>1. /\ \A j \in DOMAIN h : j \in Nat /\ j >= 1 /\ h[j].at \in Nat
      /\ \A j \in DOMAIN h \ {1} : Parent(j) \in DOMAIN h /\ Parent(j) < j
      /\ 1 \in DOMAIN h
  BY Places
<1>2. CASE Bad # {}
  <2>1. Bad \subseteq Nat BY <1>1
  <2>2. PICK j \in Bad : \A i \in Bad : j <= i
    <3> HIDE DEF Bad
    <3> QED BY <1>2, <2>1, LeastOf
  <2>3. j \in DOMAIN h \ {1} /\ ~(h[1].at <= h[j].at) BY <1>1
  <2>4. Parent(j) \in DOMAIN h /\ Parent(j) < j /\ Parent(j) \in Nat /\ j \in Nat BY <1>1, <2>3
  <2>5. h[1].at <= h[Parent(j)].at
    <3>1. Parent(j) \notin Bad BY <2>2, <2>4
    <3> QED BY <2>4, <3>1
  <2>6. h[Parent(j)].at <= h[j].at BY <2>3 DEF InOrder
  <2> QED BY <1>1, <2>3, <2>4, <2>5, <2>6
<1> QED BY <1>1, <1>2

----------------------------------------

(****************************************)
(* The inductive invariant *)
(****************************************)

Ascends(s) == \A i, j \in DOMAIN s : i < j => s[i].at <= s[j].at

TimerTypes ==
  /\ heap \in Seq(Entries)
  /\ timer \in [Timers -> [at : Int, repeat : Nat]]
  /\ now \in Nat
  /\ expired \in Seq(Entries)
  /\ pendings \in Seq([w : Timers \cup {NoTimer}, at : Nat])

(* What has expired was due before what is left, and before now. *)
ExpiredFirst ==
  /\ \A i, j \in DOMAIN expired : i < j => expired[i].at <= expired[j].at
  /\ \A i \in DOMAIN expired : expired[i].at < now /\ \A k \in DOMAIN heap : expired[i].at <= heap[k].at
  /\ loop = "callbacks" => expired = <<>>

TimerInv == TimerTypes /\ InOrder(heap) /\ ExpiredFirst /\ DueInOrder

LEMMA TimerInvInit == TimerInit => TimerInv
<1> SUFFICES ASSUME TimerInit  PROVE TimerInv
  OBVIOUS
<1>0. TimerCount \in Nat \ {0} /\ Running \subseteq Nat
  BY TimerAssumption
<1>1. PICK at \in [Timers -> Running] : heap = [k \in Timers |-> [w |-> k, at |-> at[k]]]
  BY DEF TimerInit
<1>2. heap \in [1 .. TimerCount -> Entries]
  BY <1>0, <1>1 DEF Timers, Entries
<1>3. heap \in Seq(Entries)
  BY <1>0, <1>2, SeqDef
<1>4. timer \in [Timers -> [at : Int, repeat : Nat]]
  <2> DEFINE T(t) == IF Active(t) THEN heap[t].at ELSE 0
  <2>1. \A t \in Timers : T(t) \in Int
    <3> TAKE t \in Timers
    <3>1. heap[t] \in Entries BY <1>2 DEF Timers
    <3>2. heap[t].at \in Nat BY <3>1 DEF Entries
    <3> QED BY <3>2
  <2>2. timer = [t \in Timers |-> [at |-> T(t), repeat |-> 0]]
    BY DEF TimerInit
  <2> HIDE DEF T
  <2> QED BY <2>1, <2>2
<1>5. now = 0 /\ expired = <<>> /\ pendings = <<>> /\ InOrder(heap)
  BY DEF TimerInit
<1>6. TimerTypes
  BY <1>3, <1>4, <1>5 DEF TimerTypes
<1>7. ExpiredFirst
  BY <1>5 DEF ExpiredFirst
<1>8. \A k \in DOMAIN heap : heap[k].at >= 0
  BY <1>3, Places
<1>9. DueInOrder
  BY <1>5, <1>8 DEF DueInOrder
<1> QED BY <1>5, <1>6, <1>7, <1>9 DEF TimerInv

LEMMA TimerInvNext == TimerInv /\ [TimerNext]_tvars => TimerInv'
<1> SUFFICES ASSUME TimerInv, [TimerNext]_tvars  PROVE TimerInv'
  OBVIOUS
<1>0. TimerTypes /\ InOrder(heap) /\ ExpiredFirst /\ DueInOrder
  BY DEF TimerInv
<1>1. ASSUME NEW t \in Timers, TimerStop(t)  PROVE TimerInv'
  <2>1. loop = "callbacks" /\ expired = <<>> /\ UNCHANGED <<now, expired, loop>>
    BY <1>0, <1>1 DEF TimerStop, Calls, ExpiredFirst
  <2>2. /\ heap' \in Seq(Entries) /\ InOrder(heap)'
        /\ \A j \in DOMAIN heap' : \E m \in DOMAIN heap : heap'[j] = heap[m]
    <3>1. CASE \E k \in Place(t) : heap' = TakeOut(heap, k)
      <4>1. PICK k \in DOMAIN heap : heap' = TakeOut(heap, k) BY <3>1 DEF Place
      <4>2. heap \in Seq(Entries) /\ InOrder(heap) BY <1>0 DEF TimerTypes
      <4>3. /\ TakeOut(heap, k) \in Seq(Entries) /\ InOrder(TakeOut(heap, k))
            /\ \A j \in DOMAIN TakeOut(heap, k) : \E m \in DOMAIN heap : TakeOut(heap, k)[j] = heap[m]
        BY <4>2, TakeOutOrders
      <4>4. InOrder(heap') BY <4>1, <4>3
      <4>5. InOrder(heap)' BY <4>4 DEF InOrder, Parent
      <4> QED BY <4>1, <4>3, <4>5
    <3>2. CASE UNCHANGED heap
      <4>1. InOrder(heap)' BY <1>0, <3>2 DEF InOrder, Parent
      <4> QED BY <1>0, <3>2, <4>1 DEF TimerTypes
    <3> QED BY <1>1, <3>1, <3>2 DEF TimerStop
  <2>3. timer' \in [Timers -> [at : Int, repeat : Nat]]
    <3>1. timer' = timer \/ timer' = [timer EXCEPT ![t].at = timer[t].at - now]
      BY <1>1 DEF TimerStop
    <3>2. timer[t].at - now \in Int
      <4>1. timer[t] \in [at : Int, repeat : Nat] /\ now \in Nat BY <1>0 DEF TimerTypes
      <4> QED BY <4>1
    <3> QED BY <1>0, <3>1, <3>2 DEF TimerTypes
  <2>4. /\ pendings' \in Seq([w : Timers \cup {NoTimer}, at : Nat])
        /\ DOMAIN pendings' = DOMAIN pendings
        /\ \A i \in DOMAIN pendings : pendings'[i].at = pendings[i].at
    <3>1. pendings' = Cleared(t) BY <1>1 DEF TimerStop
    <3> DEFINE R == [w : Timers \cup {NoTimer}, at : Nat]
               C == Cleared(t)
    <3>2. pendings \in Seq(R) /\ Len(pendings) \in Nat /\ DOMAIN pendings = 1 .. Len(pendings)
      BY <1>0 DEF TimerTypes
    <3>3. \A r \in R : r.at \in Nat /\ [r EXCEPT !.w = NoTimer] \in R /\ [r EXCEPT !.w = NoTimer].at = r.at
      OBVIOUS
    <3> HIDE DEF R
    <3>4. \A i \in DOMAIN pendings : pendings[i] \in R BY <3>2
    <3>5. /\ C \in [1 .. Len(pendings) -> R]
          /\ \A i \in DOMAIN pendings : C[i].at = pendings[i].at
      BY <3>2, <3>3, <3>4 DEF Cleared
    <3> HIDE DEF C
    <3>6. C \in Seq(R) BY <3>2, <3>5, SeqDef
    <3>7. DOMAIN C = DOMAIN pendings BY <3>2, <3>5
    <3> QED BY <3>1, <3>5, <3>6, <3>7 DEF C, R
  <2>5. TimerTypes'
    BY <1>0, <2>1, <2>2, <2>3, <2>4 DEF TimerTypes
  <2>6. ExpiredFirst'
    BY <2>1 DEF ExpiredFirst
  <2>7. DueInOrder'
    BY <1>0, <2>1, <2>2, <2>4 DEF DueInOrder
  <2> QED BY <2>2, <2>5, <2>6, <2>7 DEF TimerInv
<1>2. ASSUME NEW t \in Timers, NEW after \in 0 .. MaxDelay, NEW repeat \in 0 .. MaxDelay,
             TimerStart(t, after, repeat)
      PROVE  TimerInv'
  <2>0. after \in Nat /\ repeat \in Nat BY TimerAssumption
  <2> DEFINE at == IF Active(t) THEN after ELSE after + now
  <2>1. loop = "callbacks" /\ expired = <<>> /\ UNCHANGED <<now, expired, pendings, loop>>
    BY <1>0, <1>2 DEF TimerStart, Calls, ExpiredFirst
  <2>2. at \in Nat /\ now \in Nat /\ (~Active(t) => at >= now)
    BY <1>0, <2>0 DEF TimerTypes
  <2>3. /\ timer' = [timer EXCEPT ![t] = [at |-> at, repeat |-> repeat]]
        /\ heap' = IF Active(t) THEN heap ELSE Insert(heap, t, at)
    BY <1>2 DEF TimerStart
  <2> HIDE DEF at
  <2>4. /\ heap' \in Seq(Entries) /\ InOrder(heap)'
        /\ \A j \in DOMAIN heap' : heap'[j].at >= now
    <3>0. heap \in Seq(Entries) /\ InOrder(heap) /\ \A j \in DOMAIN heap : heap[j].at >= now
      BY <1>0, <2>1 DEF TimerTypes, DueInOrder
    <3>1. CASE Active(t)
      <4>1. heap' = heap BY <2>3, <3>1
      <4>2. InOrder(heap)' BY <3>0, <4>1 DEF InOrder, Parent
      <4> QED BY <3>0, <4>1, <4>2
    <3>2. CASE ~Active(t)
      <4> DEFINE a == Append(heap, [w |-> t, at |-> at])
                 g == Insert(heap, t, at)
      <4>1. HeapOf(a, g) BY <2>2, <3>0, InsertOrders
      <4>2. /\ a \in Seq(Entries) /\ DOMAIN a = 1 .. Len(heap) + 1
            /\ \A j \in DOMAIN a : a[j].at >= now
        BY <2>2, <3>0, <3>2 DEF Entries
      <4>3. heap' = g BY <2>3, <3>2
      <4> HIDE DEF a, g
      <4>4. g \in Seq(Entries) /\ InOrder(g) /\ OfHeap(a, g) /\ DOMAIN g = DOMAIN a
        BY <4>1, <4>2, Permuted DEF HeapOf
      <4>5. \A j \in DOMAIN g : g[j].at >= now BY <4>2, <4>4 DEF OfHeap
      <4>6. InOrder(heap') BY <4>3, <4>4
      <4>7. InOrder(heap)' BY <4>6 DEF InOrder, Parent
      <4> QED BY <4>3, <4>4, <4>5, <4>7
    <3> QED BY <3>1, <3>2
  <2>5. timer' \in [Timers -> [at : Int, repeat : Nat]]
    BY <1>0, <2>0, <2>2, <2>3 DEF TimerTypes
  <2>6. TimerTypes'
    BY <1>0, <2>1, <2>4, <2>5 DEF TimerTypes
  <2>7. ExpiredFirst'
    BY <2>1 DEF ExpiredFirst
  <2>8. DueInOrder'
    BY <1>0, <2>1, <2>4 DEF DueInOrder
  <2> QED BY <2>4, <2>6, <2>7, <2>8 DEF TimerInv
<1>3. CASE TimeUpdate
  <2>1. /\ loop = "callbacks" /\ pendings = <<>> /\ expired = <<>>
        /\ now' \in now .. MaxNow /\ loop' = "reify" /\ UNCHANGED <<heap, timer, expired, pendings>>
    BY <1>0, <1>3 DEF TimeUpdate, ExpiredFirst
  <2>2. now' \in Nat
    BY <1>0, <2>1, TimerAssumption DEF TimerTypes
  <2>3. TimerTypes'
    BY <1>0, <2>1, <2>2 DEF TimerTypes
  <2>4. InOrder(heap)'
    BY <1>0, <2>1 DEF InOrder, Parent
  <2>5. ExpiredFirst' /\ DueInOrder'
    BY <2>1 DEF ExpiredFirst, DueInOrder
  <2> QED BY <2>3, <2>4, <2>5 DEF TimerInv
<1>4. ASSUME loop = "reify", Due, UNCHANGED <<now, pendings, loop>>,
             heap' \in Seq(Entries), InOrder(heap'),
             \A j \in DOMAIN heap' : heap'[j].at >= now \/ \E m \in DOMAIN heap : heap'[j] = heap[m],
             timer' \in [Timers -> [at : Int, repeat : Nat]],
             expired' = Append(expired, Head(heap))
      PROVE  TimerInv'
  <2>1. /\ heap \in Seq(Entries) /\ 1 \in DOMAIN heap /\ Head(heap) = heap[1]
        /\ heap[1] \in Entries /\ heap[1].at \in Nat /\ heap[1].at < now /\ now \in Nat
    <3>1. heap \in Seq(Entries) /\ heap # <<>> /\ Head(heap).at < now /\ now \in Nat
      BY <1>0, <1>4 DEF Due, TimerTypes
    <3>2. 1 \in DOMAIN heap /\ Head(heap) = heap[1] BY <3>1
    <3> QED BY <3>1, <3>2, Places
  <2>2. \A k \in DOMAIN heap : heap[1].at <= heap[k].at
    BY <1>0, <2>1, FirstIsDue
  <2>3. /\ expired \in Seq(Entries) /\ expired' \in Seq(Entries)
        /\ DOMAIN expired' = 1 .. Len(expired) + 1 /\ Len(expired) \in Nat
        /\ \A i \in DOMAIN expired' : i \in Nat
        /\ \A i \in DOMAIN expired' : i = Len(expired) + 1 \/ (i \in DOMAIN expired /\ expired'[i] = expired[i])
        /\ expired'[Len(expired) + 1] = heap[1]
    BY <1>0, <1>4, <2>1 DEF TimerTypes
  <2>4. \A i \in DOMAIN expired : /\ expired[i].at < now /\ expired[i].at \in Nat
                                  /\ expired[i].at <= heap[1].at
                                  /\ \A k \in DOMAIN heap : expired[i].at <= heap[k].at
    BY <1>0, <2>1, <2>3, Places DEF ExpiredFirst
  <2>5. \A i \in DOMAIN expired' : expired'[i].at < now /\ expired'[i].at \in Nat /\ expired'[i].at <= heap[1].at
    BY <2>1, <2>3, <2>4
  <2>6. \A i, j \in DOMAIN expired' : i < j => expired'[i].at <= expired'[j].at
    <3> SUFFICES ASSUME NEW i \in DOMAIN expired', NEW j \in DOMAIN expired', i < j
                 PROVE  expired'[i].at <= expired'[j].at
      OBVIOUS
    <3>1. CASE j = Len(expired) + 1 BY <2>3, <2>5, <3>1
    <3>2. CASE j # Len(expired) + 1
      <4>1. j \in DOMAIN expired /\ j <= Len(expired) /\ i \in Nat /\ j \in Nat BY <2>3, <3>2
      <4>2. i \in DOMAIN expired BY <2>3, <4>1
      <4> QED BY <1>0, <2>3, <4>1, <4>2 DEF ExpiredFirst
    <3> QED BY <3>1, <3>2
  <2>7. \A i \in DOMAIN expired' : \A k \in DOMAIN heap' : expired'[i].at <= heap'[k].at
    <3> SUFFICES ASSUME NEW i \in DOMAIN expired', NEW k \in DOMAIN heap'
                 PROVE  expired'[i].at <= heap'[k].at
      OBVIOUS
    <3>0. heap'[k].at \in Nat BY <1>4, Places
    <3>1. CASE heap'[k].at >= now BY <2>1, <2>5, <3>0, <3>1
    <3>2. CASE \E m \in DOMAIN heap : heap'[k] = heap[m]
      <4>1. PICK m \in DOMAIN heap : heap'[k] = heap[m] BY <3>2
      <4> QED BY <2>1, <2>2, <2>5, <3>0, <4>1
    <3> QED BY <1>4, <3>1, <3>2
  <2>8. TimerTypes'
    BY <1>0, <1>4, <2>3 DEF TimerTypes
  <2>9. ExpiredFirst'
    BY <1>4, <2>5, <2>6, <2>7 DEF ExpiredFirst
  <2>10. DueInOrder'
    BY <1>0, <1>4 DEF DueInOrder
  <2>11. InOrder(heap)'
    BY <1>4 DEF InOrder, Parent
  <2> QED BY <2>8, <2>9, <2>10, <2>11 DEF TimerInv
<1>5. ASSUME Due  PROVE heap \in Seq(Entries) /\ 1 \in DOMAIN heap /\ Head(heap) = heap[1] /\ heap[1] \in Entries
  <2>1. heap \in Seq(Entries) /\ heap # <<>>
    BY <1>0, <1>5 DEF Due, TimerTypes
  <2>2. 1 \in DOMAIN heap /\ Head(heap) = heap[1] BY <2>1
  <2> QED BY <2>1, <2>2, Places
<1>6. CASE ExpireOnce
  <2> DEFINE t == Head(heap).w
  <2>1. /\ loop = "reify" /\ Due /\ UNCHANGED <<now, pendings, loop>>
        /\ timer' = [timer EXCEPT ![t].at = timer[t].at - now]
        /\ heap' = TakeOut(heap, 1) /\ expired' = Append(expired, Head(heap))
    BY <1>6 DEF ExpireOnce
  <2>2. t \in Timers BY <1>5, <2>1 DEF Entries
  <2> HIDE DEF t
  <2>3. timer' \in [Timers -> [at : Int, repeat : Nat]]
    <3>1. timer[t] \in [at : Int, repeat : Nat] /\ now \in Nat BY <1>0, <2>2 DEF TimerTypes
    <3>2. timer[t].at - now \in Int BY <3>1
    <3> QED BY <1>0, <2>1, <2>2, <3>2 DEF TimerTypes
  <2>4. /\ TakeOut(heap, 1) \in Seq(Entries) /\ InOrder(TakeOut(heap, 1))
        /\ \A j \in DOMAIN TakeOut(heap, 1) : \E m \in DOMAIN heap : TakeOut(heap, 1)[j] = heap[m]
    BY <1>0, <1>5, <2>1, TakeOutOrders
  <2>5. /\ heap' \in Seq(Entries) /\ InOrder(heap')
        /\ \A j \in DOMAIN heap' : \E m \in DOMAIN heap : heap'[j] = heap[m]
    BY <2>1, <2>4
  <2> QED BY <1>4, <2>1, <2>3, <2>5
<1>7. CASE ExpireRepeated
  <2> DEFINE t  == Head(heap).w
             a  == timer[t].at + timer[t].repeat
             at == IF a < now THEN now ELSE a
             h  == [heap EXCEPT ![1].at = at]
             g  == DownHeap(h, 1)
  <2>1. /\ loop = "reify" /\ Due /\ UNCHANGED <<now, pendings, loop>>
        /\ timer' = [timer EXCEPT ![t].at = at]
        /\ heap' = g /\ expired' = Append(expired, Head(heap))
    BY <1>7 DEF ExpireRepeated
  <2>2. t \in Timers BY <1>5, <2>1 DEF Entries
  <2> HIDE DEF t
  <2>3. at \in Nat /\ at >= now /\ now \in Nat
    <3>1. timer[t] \in [at : Int, repeat : Nat] /\ now \in Nat BY <1>0, <2>2 DEF TimerTypes
    <3>2. a \in Int BY <3>1
    <3> HIDE DEF a
    <3> QED BY <3>1, <3>2
  <2> HIDE DEF at
  <2>4. timer' \in [Timers -> [at : Int, repeat : Nat]]
    <3>1. timer[t] \in [at : Int, repeat : Nat] BY <1>0, <2>2 DEF TimerTypes
    <3> DEFINE r == [timer[t] EXCEPT !.at = at]
    <3>2. r \in [at : Int, repeat : Nat] BY <2>3, <3>1
    <3>3. timer' = [timer EXCEPT ![t] = r] BY <2>1
    <3> HIDE DEF r
    <3> QED BY <1>0, <2>2, <3>2, <3>3 DEF TimerTypes
  <2>5. /\ h \in Seq(Entries) /\ DOMAIN h = DOMAIN heap /\ 1 \in DOMAIN h /\ h[1].at = at
        /\ \A j \in DOMAIN h : j # 1 => h[j] = heap[j]
    <3>1. heap \in Seq(Entries) /\ 1 \in DOMAIN heap /\ heap[1] \in Entries BY <1>5, <2>1
    <3> DEFINE e == [heap[1] EXCEPT !.at = at]
    <3>2. e \in Entries /\ e.at = at
      BY <2>3, <3>1 DEF Entries
    <3>3. h = [heap EXCEPT ![1] = e]
      BY <3>1
    <3> HIDE DEF e, h
    <3> QED BY <3>1, <3>2, <3>3
  <2> HIDE DEF h
  <2>6. \A j \in DOMAIN h \ {1} : Parent(j) # 1 => h[Parent(j)].at <= h[j].at
    <3> SUFFICES ASSUME NEW j \in DOMAIN h \ {1}, Parent(j) # 1  PROVE h[Parent(j)].at <= h[j].at
      OBVIOUS
    <3>1. Parent(j) \in DOMAIN h BY <2>5, Places
    <3> QED BY <1>0, <2>5, <3>1 DEF InOrder
  <2>7. HeapOf(h, g)
    BY <2>5, <2>6, DownHeapOrders DEF FitsAbove
  <2> HIDE DEF g
  <2>8. g \in Seq(Entries) /\ InOrder(g) /\ OfHeap(h, g) /\ DOMAIN g = DOMAIN h
    BY <2>5, <2>7, Permuted DEF HeapOf
  <2>9. \A j \in DOMAIN g : g[j].at >= now \/ \E m \in DOMAIN heap : g[j] = heap[m]
    BY <2>3, <2>5, <2>8 DEF OfHeap
  <2>10. heap' \in Seq(Entries) /\ InOrder(heap')
    BY <2>1, <2>8
  <2> QED BY <1>4, <2>1, <2>4, <2>9, <2>10
<1>8. CASE Fed
  <2>1. /\ loop = "reify" /\ ~Due /\ expired' = <<>> /\ loop' = "callbacks"
        /\ pendings' = [i \in DOMAIN expired |-> expired[Len(expired) + 1 - i]]
        /\ UNCHANGED <<heap, timer, now>>
    BY <1>8 DEF Fed
  <2>2. /\ expired \in Seq(Entries) /\ Len(expired) \in Nat /\ DOMAIN expired = 1 .. Len(expired)
        /\ \A i \in DOMAIN expired : i \in Nat /\ expired[i] \in Entries
    BY <1>0, Places DEF TimerTypes
  <2>3. /\ DOMAIN pendings' = 1 .. Len(expired)
        /\ \A i \in DOMAIN pendings' : /\ i \in Nat /\ Len(expired) + 1 - i \in DOMAIN expired
                                       /\ pendings'[i] = expired[Len(expired) + 1 - i]
    BY <2>1, <2>2
  <2>4. pendings' \in Seq([w : Timers \cup {NoTimer}, at : Nat])
    <3> DEFINE R == [w : Timers \cup {NoTimer}, at : Nat]
    <3>1. Entries \subseteq R BY DEF Entries
    <3> HIDE DEF R
    <3>2. pendings' \in [1 .. Len(expired) -> R]
      BY <2>1, <2>2, <2>3, <3>1
    <3>3. pendings' \in Seq(R) BY <2>2, <3>2, SeqDef
    <3> QED BY <3>3 DEF R
  <2>5. \A k \in DOMAIN heap : heap[k].at >= now
    <3> SUFFICES ASSUME NEW k \in DOMAIN heap  PROVE heap[k].at >= now
      OBVIOUS
    <3>1. heap \in Seq(Entries) /\ now \in Nat BY <1>0 DEF TimerTypes
    <3>2. heap # <<>> /\ 1 \in DOMAIN heap /\ Head(heap) = heap[1] BY <3>1
    <3>3. heap[1].at <= heap[k].at BY <1>0, <3>1, FirstIsDue
    <3>4. heap[1].at \in Nat /\ heap[k].at \in Nat BY <3>1, <3>2, Places
    <3>5. ~(heap[1].at < now) BY <2>1, <3>2 DEF Due
    <3> QED BY <3>1, <3>3, <3>4, <3>5
  <2>6. \A i, j \in DOMAIN pendings' : i < j => pendings'[j].at <= pendings'[i].at
    <3> SUFFICES ASSUME NEW i \in DOMAIN pendings', NEW j \in DOMAIN pendings', i < j
                 PROVE  pendings'[j].at <= pendings'[i].at
      OBVIOUS
    <3>1. Len(expired) + 1 - j < Len(expired) + 1 - i BY <2>2, <2>3
    <3> QED BY <1>0, <2>3, <3>1 DEF ExpiredFirst
  <2>7. \A i \in DOMAIN pendings' : pendings'[i].at < now
    BY <1>0, <2>3 DEF ExpiredFirst
  <2>8. TimerTypes'
    BY <1>0, <2>1, <2>4 DEF TimerTypes
  <2>9. InOrder(heap)'
    BY <1>0, <2>1 DEF InOrder, Parent
  <2>10. ExpiredFirst'
    BY <2>1 DEF ExpiredFirst
  <2>11. DueInOrder'
    BY <2>1, <2>5, <2>6, <2>7 DEF DueInOrder
  <2> QED BY <2>8, <2>9, <2>10, <2>11 DEF TimerInv
<1>9. CASE Callback
  <2>1. /\ UNCHANGED <<heap, timer, now, expired, loop>> /\ pendings # <<>>
        /\ pendings' = SubSeq(pendings, 1, Len(pendings) - 1)
    BY <1>9 DEF Callback
  <2> DEFINE R == [w : Timers \cup {NoTimer}, at : Nat]
  <2>2. pendings \in Seq(R)
    BY <1>0 DEF TimerTypes
  <2> HIDE DEF R
  <2>3. /\ pendings' \in Seq(R)
        /\ \A i \in DOMAIN pendings' : i \in DOMAIN pendings /\ pendings'[i] = pendings[i]
    BY <2>1, <2>2
  <2>4. TimerTypes'
    BY <1>0, <2>1, <2>3 DEF TimerTypes, R
  <2>5. InOrder(heap)'
    BY <1>0, <2>1 DEF InOrder, Parent
  <2>6. ExpiredFirst'
    BY <1>0, <2>1 DEF ExpiredFirst
  <2>7. DueInOrder'
    BY <1>0, <2>1, <2>3 DEF DueInOrder
  <2> QED BY <2>4, <2>5, <2>6, <2>7 DEF TimerInv
<1>10. CASE UNCHANGED tvars
  <2>1. UNCHANGED <<heap, timer, now, expired, pendings, loop>>
    BY <1>10 DEF tvars
  <2>2. TimerTypes' /\ ExpiredFirst' /\ DueInOrder'
    BY <1>0, <2>1 DEF TimerTypes, ExpiredFirst, DueInOrder
  <2>3. InOrder(heap)'
    BY <1>0, <2>1 DEF InOrder, Parent
  <2> QED BY <2>2, <2>3 DEF TimerInv
<1> QED
  BY <1>1, <1>2, <1>3, <1>6, <1>7, <1>8, <1>9, <1>10 DEF TimerNext

Turns == loop \in {"callbacks", "reify"} /\ calls \in 0 .. MaxCalls

LEMMA TurnsHold == TimerSpec => []Turns
<1>1. TimerInit => Turns
  BY TimerAssumption DEF TimerInit, Turns
<1>2. Turns /\ [TimerNext]_tvars => Turns'
  <2> SUFFICES ASSUME Turns, [TimerNext]_tvars  PROVE Turns'
    OBVIOUS
  <2>1. \/ UNCHANGED <<loop, calls>>
        \/ loop' \in {"callbacks", "reify"} /\ calls' = calls
        \/ calls < MaxCalls /\ calls' = calls + 1 /\ loop' = loop
    BY DEF TimerNext, TimerStop, TimerStart, Calls, TimeUpdate, ExpireOnce, ExpireRepeated, Fed,
           Callback, tvars
  <2> QED BY <2>1, TimerAssumption DEF Turns
<1> QED BY <1>1, <1>2, PTL DEF TimerSpec

(* For any number of timers, any arity of the heap and any calls of *)
(* start() and stop() in callbacks, timers are called in the order they *)
(* were due, none early, and none that is due is left behind. *)
THEOREM DueInOrderHolds == TimerSpec => [](TimerTypeOK /\ DueInOrder)
<1>1. TimerInv /\ Turns => TimerTypeOK /\ DueInOrder
  BY DEF TimerInv, TimerTypes, Entries, Turns, TimerTypeOK
<1> QED
  BY <1>1, TimerInvInit, TimerInvNext, TurnsHold, PTL DEF TimerSpec

(****************************************)
(* The log *)
(****************************************)

(* Induction up to a number, over what a set is made of. *)
LEMMA UpTo ==
  ASSUME NEW S, NEW n \in Nat, 0 \in S, \A i \in 0 .. n - 1 : i \in S => i + 1 \in S
  PROVE  0 .. n \subseteq S
<1> DEFINE Bad == (0 .. n) \ S
<1>1. CASE Bad # {}
  <2>1. PICK i \in Bad : \A j \in Bad : i <= j
    <3>1. Bad \subseteq Nat OBVIOUS
    <3> HIDE DEF Bad
    <3> QED BY <1>1, <3>1, LeastOf
  <2>2. i # 0 /\ i \in 0 .. n /\ i \notin S OBVIOUS
  <2>3. i - 1 \in 0 .. n - 1 /\ i - 1 \in 0 .. n /\ ~(i <= i - 1) BY <2>2
  <2>4. i - 1 \in S BY <2>1, <2>3
  <2>5. (i - 1) + 1 = i BY <2>2
  <2> QED BY <2>2, <2>3, <2>4, <2>5
<1> QED BY <1>1

----------------------------------------
(* Escaped, letter by letter. *)

Letters == STRING \cup {"<", ">", "0", "9", "A", "%", "1", "2", "3", "4", "5", "6", "7"}
Text == Seq(Letters)

Joined(f, l, n) == f = [i \in 0 .. n |-> IF i = 0 THEN <<>> ELSE f[i - 1] \o Shows(l[i])]

LEMMA JoinedExist ==
  ASSUME NEW l, NEW n \in Nat
  PROVE  \E f : Joined(f, l, n)
<1> DEFINE S == {i \in Nat : \E f : Joined(f, l, i)}
<1>1. 0 \in S
  <2> DEFINE f == [i \in 0 .. 0 |-> <<>>]
  <2>1. Joined(f, l, 0) BY DEF Joined
  <2> QED BY <2>1
<1>2. ASSUME NEW i \in 0 .. n - 1, i \in S  PROVE i + 1 \in S
  <2>1. PICK f : Joined(f, l, i) BY <1>2
  <2>2. i \in Nat OBVIOUS
  <2> DEFINE g == [j \in 0 .. i + 1 |-> IF j = 0 THEN <<>> ELSE f[j - 1] \o Shows(l[j])]
  <2>3. \A j \in 0 .. i : f[j] = IF j = 0 THEN <<>> ELSE f[j - 1] \o Shows(l[j]) BY <2>1 DEF Joined
  <2>4. \A j \in 0 .. i + 1 : g[j] = IF j = 0 THEN <<>> ELSE f[j - 1] \o Shows(l[j]) OBVIOUS
  <2>5. \A j \in 0 .. i : j \in 0 .. i + 1 BY <2>2
  <2>6. \A j \in 0 .. i : g[j] = f[j] BY <2>3, <2>4, <2>5
  <2>7. \A j \in 0 .. i + 1 : j # 0 => j - 1 \in 0 .. i BY <2>2
  <2>8. \A j \in 0 .. i + 1 : (IF j = 0 THEN <<>> ELSE f[j - 1] \o Shows(l[j]))
                              = IF j = 0 THEN <<>> ELSE g[j - 1] \o Shows(l[j])
    BY <2>6, <2>7
  <2>9. g = [j \in 0 .. i + 1 |-> IF j = 0 THEN <<>> ELSE g[j - 1] \o Shows(l[j])] BY <2>8
  <2>10. Joined(g, l, i + 1)
    <3> HIDE DEF g
    <3> QED BY <2>9 DEF Joined
  <2> QED BY <2>2, <2>10
<1> HIDE DEF S
<1>3. 0 .. n \subseteq S BY <1>1, <1>2, UpTo
<1>4. n \in S BY <1>3
<1> QED BY <1>4 DEF S

LEMMA ShowsText ==
  ASSUME NEW c \in Letters
  PROVE  Shows(c) \in Text /\ \A i \in DOMAIN Shows(c) : Shows(c)[i] \notin NotASCII
<1>1. "<" \notin NotASCII /\ ">" \notin NotASCII /\ "0" \notin NotASCII /\ "9" \notin NotASCII
      /\ "A" \notin NotASCII
  BY DEF NotASCII
<1>2. CASE c = "\n" /\ c \in NotASCII
  <2>1. Shows(c) = <<"<", "0", "A", ">">> BY <1>2 DEF Shows, Hex
  <2>2. "<" \in Letters /\ "0" \in Letters /\ "A" \in Letters /\ ">" \in Letters BY DEF Letters
  <2>3. <<"<", "0", "A", ">">> \in Seq(Letters) BY <2>2
  <2>4. \A i \in 1 .. 4 : <<"<", "0", "A", ">">>[i] \in {"<", "0", "A", ">"} OBVIOUS
  <2>5. DOMAIN <<"<", "0", "A", ">">> = 1 .. 4 OBVIOUS
  <2> QED BY <1>1, <2>1, <2>3, <2>4, <2>5 DEF Text
<1>3. CASE c # "\n" /\ c \in NotASCII
  <2>1. Shows(c) = <<"<", "0", "9", ">">> BY <1>3 DEF Shows, Hex
  <2>2. "<" \in Letters /\ "0" \in Letters /\ "9" \in Letters /\ ">" \in Letters BY DEF Letters
  <2>3. <<"<", "0", "9", ">">> \in Seq(Letters) BY <2>2
  <2>4. \A i \in 1 .. 4 : <<"<", "0", "9", ">">>[i] \in {"<", "0", "9", ">"} OBVIOUS
  <2>5. DOMAIN <<"<", "0", "9", ">">> = 1 .. 4 OBVIOUS
  <2> QED BY <1>1, <2>1, <2>3, <2>4, <2>5 DEF Text
<1>4. CASE c \notin NotASCII
  <2>1. Shows(c) = <<c>> BY <1>4 DEF Shows
  <2>2. <<c>> \in Seq(Letters) OBVIOUS
  <2>4. DOMAIN <<c>> = 1 .. 1 /\ <<c>>[1] = c OBVIOUS
  <2>3. \A i \in 1 .. 1 : i = 1 OBVIOUS
  <2> QED BY <1>4, <2>1, <2>2, <2>3, <2>4 DEF Text
<1> QED BY <1>2, <1>3, <1>4

Plain(text) == text \in Text /\ \A i \in DOMAIN text : text[i] \notin NotASCII

LEMMA PlainJoined ==
  ASSUME NEW a, NEW b, Plain(a), Plain(b)
  PROVE  Plain(a \o b)
<1>1. a \in Text /\ b \in Text BY DEF Plain
<1>2. a \o b \in Text BY <1>1 DEF Text
<1>3. /\ Len(a \o b) = Len(a) + Len(b) /\ Len(a) \in Nat /\ Len(b) \in Nat
      /\ DOMAIN (a \o b) = 1 .. Len(a) + Len(b)
      /\ \A i \in 1 .. Len(a) + Len(b) : (a \o b)[i] = IF i <= Len(a) THEN a[i] ELSE b[i - Len(a)]
  BY <1>1 DEF Text
<1>4. ASSUME NEW i \in 1 .. Len(a) + Len(b)  PROVE (a \o b)[i] \notin NotASCII
  <2>1. CASE i <= Len(a)
    <3>1. i \in DOMAIN a BY <1>1, <1>3, <2>1 DEF Text
    <3> QED BY <1>3, <2>1, <3>1 DEF Plain
  <2>2. CASE ~(i <= Len(a))
    <3>1. i - Len(a) \in DOMAIN b BY <1>1, <1>3, <2>2 DEF Text
    <3> QED BY <1>3, <2>2, <3>1 DEF Plain
  <2> QED BY <2>1, <2>2
<1> QED BY <1>2, <1>3, <1>4 DEF Plain

(* The function by which a text is escaped. *)
UpToOf(text) == CHOOSE f : f = [n \in 0 .. Len(text) |-> IF n = 0 THEN <<>> ELSE f[n - 1] \o Shows(text[n])]

LEMMA EscapedBy ==
  ASSUME NEW text \in Text
  PROVE  /\ Escaped(text) = UpToOf(text)[Len(text)]
         /\ UpToOf(text)[0] = <<>>
         /\ \A n \in 1 .. Len(text) : UpToOf(text)[n] = UpToOf(text)[n - 1] \o Shows(text[n])
         /\ \A n \in 0 .. Len(text) : Plain(UpToOf(text)[n])
<1> DEFINE u == UpToOf(text)
<1>0. Len(text) \in Nat BY DEF Text
<1>1. Escaped(text) = u[Len(text)] BY DEF Escaped, UpToOf
<1>2. PICK f : f = [n \in 0 .. Len(text) |-> IF n = 0 THEN <<>> ELSE f[n - 1] \o Shows(text[n])]
  BY <1>0, JoinedExist DEF Joined
<1>3. u = [n \in 0 .. Len(text) |-> IF n = 0 THEN <<>> ELSE u[n - 1] \o Shows(text[n])]
  BY <1>2 DEF UpToOf
<1> HIDE DEF u
<1>4. \A n \in 0 .. Len(text) : u[n] = IF n = 0 THEN <<>> ELSE u[n - 1] \o Shows(text[n])
  BY <1>3
<1>5. 0 \in 0 .. Len(text) /\ u[0] = <<>> BY <1>0, <1>4
<1>6. ASSUME NEW n \in 1 .. Len(text)  PROVE u[n] = u[n - 1] \o Shows(text[n])
  <2>1. n \in 0 .. Len(text) /\ n # 0 BY <1>0
  <2> QED BY <1>4, <2>1
<1> DEFINE S == {n \in Nat : Plain(u[n])}
<1>7. 0 \in S
  <2>1. Plain(<<>>) BY DEF Plain, Text
  <2> QED BY <1>5, <2>1
<1>8. ASSUME NEW n \in 0 .. Len(text) - 1, n \in S  PROVE n + 1 \in S
  <2>1. n + 1 \in 1 .. Len(text) /\ n + 1 \in Nat /\ (n + 1) - 1 = n BY <1>0
  <2>2. text[n + 1] \in Letters BY <2>1 DEF Text
  <2>3. Plain(Shows(text[n + 1])) BY <2>2, ShowsText DEF Plain
  <2>4. Plain(u[n] \o Shows(text[n + 1])) BY <1>8, <2>3, PlainJoined
  <2>5. u[n + 1] = u[n] \o Shows(text[n + 1]) BY <1>6, <2>1
  <2> QED BY <2>1, <2>4, <2>5
<1>9. 0 .. Len(text) \subseteq S
  <2> HIDE DEF S
  <2> QED BY <1>0, <1>7, <1>8, UpTo
<1>10. \A n \in 0 .. Len(text) : Plain(u[n]) BY <1>9
<1> QED BY <1>1, <1>5, <1>6, <1>10 DEF u

LEMMA EscapedPlain ==
  ASSUME NEW text \in Text
  PROVE  Plain(Escaped(text))
<1>1. Len(text) \in 0 .. Len(text) BY DEF Text
<1> QED BY <1>1, EscapedBy

LEMMA EscapedJoined ==
  ASSUME NEW a \in Text, NEW b \in Text
  PROVE  Escaped(a \o b) = Escaped(a) \o Escaped(b)
<1> DEFINE c == a \o b
           u == UpToOf(a)
           v == UpToOf(b)
           w == UpToOf(c)
<1>1. /\ c \in Text /\ Len(c) = Len(a) + Len(b) /\ Len(a) \in Nat /\ Len(b) \in Nat
      /\ \A i \in 1 .. Len(a) : c[i] = a[i]
      /\ \A i \in 1 .. Len(b) : c[Len(a) + i] = b[i]
  BY DEF Text
<1> HIDE DEF c
<1>2. /\ Escaped(a) = u[Len(a)] /\ u[0] = <<>>
      /\ \A n \in 1 .. Len(a) : u[n] = u[n - 1] \o Shows(a[n])
      /\ \A n \in 0 .. Len(a) : Plain(u[n])
  BY EscapedBy
<1>3. /\ Escaped(b) = v[Len(b)] /\ v[0] = <<>>
      /\ \A n \in 1 .. Len(b) : v[n] = v[n - 1] \o Shows(b[n])
      /\ \A n \in 0 .. Len(b) : Plain(v[n])
  BY EscapedBy
<1>4. /\ Escaped(c) = w[Len(c)] /\ w[0] = <<>>
      /\ \A n \in 1 .. Len(c) : w[n] = w[n - 1] \o Shows(c[n])
  BY <1>1, EscapedBy
<1> HIDE DEF u, v, w
<1> DEFINE S == {n \in Nat : n <= Len(a) => w[n] = u[n]}
<1>5. 0 \in S BY <1>2, <1>4
<1>6. ASSUME NEW n \in 0 .. Len(a) - 1, n \in S  PROVE n + 1 \in S
  <2>1. n + 1 \in 1 .. Len(a) /\ n + 1 \in 1 .. Len(c) /\ n + 1 \in Nat /\ (n + 1) - 1 = n /\ n <= Len(a)
    BY <1>1
  <2>2. w[n] = u[n] BY <1>6, <2>1
  <2>3. w[n + 1] = w[n] \o Shows(c[n + 1]) /\ u[n + 1] = u[n] \o Shows(a[n + 1]) BY <1>2, <1>4, <2>1
  <2>4. c[n + 1] = a[n + 1] BY <1>1, <2>1
  <2> QED BY <2>1, <2>2, <2>3, <2>4
<1>7. 0 .. Len(a) \subseteq S
  <2> HIDE DEF S
  <2> QED BY <1>1, <1>5, <1>6, UpTo
<1>8. w[Len(a)] = u[Len(a)]
  <2>1. Len(a) \in 0 .. Len(a) BY <1>1
  <2> QED BY <1>7, <2>1
<1> HIDE DEF S
<1> DEFINE m == Len(a)
           P == {n \in Nat : w[m + n] = u[m] \o v[n]}
<1>9. 0 \in P
  <2>1. m + 0 = m BY <1>1
  <2>2. u[m] \in Text BY <1>1, <1>2 DEF Plain
  <2>3. u[m] \o <<>> = u[m] BY <2>2 DEF Text
  <2> QED BY <1>3, <1>8, <2>1, <2>3
<1>10. ASSUME NEW n \in 0 .. Len(b) - 1, n \in P  PROVE n + 1 \in P
  <2>1. /\ n + 1 \in 1 .. Len(b) /\ m + (n + 1) \in 1 .. Len(c) /\ n + 1 \in Nat /\ (n + 1) - 1 = n
        /\ (m + (n + 1)) - 1 = m + n /\ n \in 0 .. Len(b)
    BY <1>1
  <2>2. w[m + (n + 1)] = w[m + n] \o Shows(c[m + (n + 1)]) BY <1>4, <2>1
  <2>3. v[n + 1] = v[n] \o Shows(b[n + 1]) BY <1>3, <2>1
  <2>4. c[m + (n + 1)] = b[n + 1] /\ b[n + 1] \in Letters BY <1>1, <2>1 DEF Text
  <2>5. w[m + n] = u[m] \o v[n] BY <1>10
  <2>6. u[m] \in Text /\ v[n] \in Text /\ Shows(b[n + 1]) \in Text
    <3>1. m \in 0 .. Len(a) BY <1>1
    <3>2. Shows(b[n + 1]) \in Text BY <2>4, ShowsText
    <3> QED BY <1>2, <1>3, <2>1, <3>1, <3>2 DEF Plain
  <2>7. (u[m] \o v[n]) \o Shows(b[n + 1]) = u[m] \o (v[n] \o Shows(b[n + 1]))
    <3> DEFINE x == u[m]
               y == v[n]
               z == Shows(b[n + 1])
    <3>1. x \in Seq(Letters) /\ y \in Seq(Letters) /\ z \in Seq(Letters) BY <2>6 DEF Text
    <3> HIDE DEF x, y, z
    <3>2. (x \o y) \o z = x \o (y \o z) BY <3>1, ConcatAssociative
    <3> QED BY <3>2 DEF x, y, z
  <2>8. w[m + (n + 1)] = u[m] \o v[n + 1] BY <2>2, <2>3, <2>4, <2>5, <2>7
  <2> QED BY <2>1, <2>8
<1>11. 0 .. Len(b) \subseteq P
  <2> HIDE DEF P
  <2> QED BY <1>1, <1>9, <1>10, UpTo
<1>12. w[m + Len(b)] = u[m] \o v[Len(b)]
  <2>1. Len(b) \in 0 .. Len(b) BY <1>1
  <2> QED BY <1>11, <2>1
<1> QED BY <1>1, <1>2, <1>3, <1>4, <1>12 DEF c

(* What is inside a text stays inside a longer one, and an escaped one. *)
Inside(part, t) == \E x, y \in Text : t = (x \o part) \o y

LEMMA TextJoined ==
  ASSUME NEW a \in Text, NEW b \in Text
  PROVE  a \o b \in Text
BY DEF Text

LEMMA TextAssociative ==
  ASSUME NEW a \in Text, NEW b \in Text, NEW c \in Text
  PROVE  (a \o b) \o c = a \o (b \o c)
BY ConcatAssociative DEF Text

LEMMA InsideFirst ==
  ASSUME NEW part \in Text, NEW z \in Text
  PROVE  Inside(part, part \o z)
<1>1. <<>> \in Text BY DEF Text
<1>2. <<>> \o part = part BY DEF Text
<1>3. part \o z = (<<>> \o part) \o z BY <1>2
<1> QED BY <1>1, <1>3 DEF Inside

LEMMA InsideLonger ==
  ASSUME NEW part \in Text, NEW t, NEW z \in Text, Inside(part, t)
  PROVE  Inside(part, z \o t)
<1>1. PICK x \in Text, y \in Text : t = (x \o part) \o y BY DEF Inside
<1> DEFINE w == z \o x
<1>2. w \in Text BY TextJoined
<1>3. (w \o part) \o y = z \o t
  <2>1. w \o part = z \o (x \o part) BY TextAssociative
  <2>2. x \o part \in Text BY TextJoined
  <2>3. (z \o (x \o part)) \o y = z \o ((x \o part) \o y) BY <2>2, TextAssociative
  <2> HIDE DEF w
  <2> QED BY <1>1, <2>1, <2>3
<1> HIDE DEF w
<1> QED BY <1>2, <1>3 DEF Inside

LEMMA InsideEscaped ==
  ASSUME NEW part \in Text, NEW t, Inside(part, t)
  PROVE  Inside(Escaped(part), Escaped(t))
<1>1. PICK x \in Text, y \in Text : t = (x \o part) \o y BY DEF Inside
<1>2. x \o part \in Text BY TextJoined
<1>3. Escaped(t) = Escaped(x \o part) \o Escaped(y) BY <1>1, <1>2, EscapedJoined
<1>4. Escaped(x \o part) = Escaped(x) \o Escaped(part) BY EscapedJoined
<1>5. Escaped(x) \in Text /\ Escaped(y) \in Text BY EscapedPlain DEF Plain
<1> QED BY <1>3, <1>4, <1>5 DEF Inside

LEMMA InsideWithin ==
  ASSUME NEW part \in Text, NEW t, Inside(part, t)
  PROVE  Within(part, t)
<1>1. PICK x \in Text, y \in Text : t = (x \o part) \o y BY DEF Inside
<1> DEFINE k == Len(x)
           n == Len(part)
<1>2. k \in Nat /\ n \in Nat /\ Len(y) \in Nat BY DEF Text
<1>3. /\ t \in Seq(Letters) /\ Len(t) = (k + n) + Len(y)
      /\ \A i \in 1 .. n : t[k + i] = part[i]
  <2>1. /\ x \o part \in Text /\ Len(x \o part) = k + n
        /\ \A i \in 1 .. n : (x \o part)[k + i] = part[i]
    BY DEF Text
  <2> DEFINE w == x \o part
  <2>2. w \in Text /\ Len(w) = k + n /\ \A i \in 1 .. n : w[k + i] = part[i] BY <2>1
  <2> HIDE DEF w
  <2>3. /\ w \o y \in Seq(Letters) /\ Len(w \o y) = (k + n) + Len(y)
        /\ \A j \in 1 .. k + n : (w \o y)[j] = w[j]
    <3>1. w \in Seq(Letters) /\ y \in Seq(Letters) BY <2>2 DEF Text
    <3>2. w \o y \in Seq(Letters) /\ Len(w \o y) = Len(w) + Len(y) BY <3>1
    <3>3. \A j \in 1 .. Len(w) : (w \o y)[j] = w[j] BY <3>1
    <3> QED BY <2>2, <3>2, <3>3
  <2>4. \A i \in 1 .. n : k + i \in 1 .. k + n BY <1>2
  <2> QED BY <1>1, <2>2, <2>3, <2>4 DEF w
<1> HIDE DEF k, n
<1>4. k \in 0 .. Len(t) - n BY <1>2, <1>3
<1>5. SubSeq(t, k + 1, k + n) = part
  <2>1. /\ SubSeq(t, k + 1, k + n) \in Seq(Letters) /\ Len(SubSeq(t, k + 1, k + n)) = n
        /\ \A i \in 1 .. n : SubSeq(t, k + 1, k + n)[i] = t[k + i]
    BY <1>2, <1>3
  <2>2. Len(part) = n /\ part \in Seq(Letters) BY DEF n, Text
  <2> QED BY <1>3, <2>1, <2>2, SeqEqual
<1> QED BY <1>4, <1>5 DEF Within, n

----------------------------------------
(* Filled, from the end of the format to its beginning. *)

LEMMA Backwards ==
  ASSUME NEW S, NEW n \in Nat, n + 1 \in S, n + 2 \in S,
         \A p \in 1 .. n : (p + 1 \in S /\ p + 2 \in S) => p \in S
  PROVE  1 .. n + 2 \subseteq S
<1> DEFINE P == {i \in Nat : n + 2 - i < 1 \/ (n + 2 - i \in S /\ n + 1 - i \in S)}
<1>1. 0 \in P
  <2>1. n + 2 - 0 = n + 2 /\ n + 1 - 0 = n + 1 OBVIOUS
  <2> QED BY <2>1
<1>2. ASSUME NEW i \in 0 .. n - 1, i \in P  PROVE i + 1 \in P
  <2> DEFINE p == n - i
  <2>1. p \in 1 .. n /\ n + 2 - i = p + 2 /\ n + 1 - i = p + 1 /\ n + 2 - (i + 1) = p + 1 /\ n + 1 - (i + 1) = p
    OBVIOUS
  <2> HIDE DEF p
  <2>2. ~(p + 2 < 1) BY <2>1
  <2>3. p + 2 \in S /\ p + 1 \in S BY <1>2, <2>1, <2>2
  <2>4. p \in S BY <2>1, <2>3
  <2>5. i + 1 \in Nat OBVIOUS
  <2> QED BY <2>1, <2>3, <2>4, <2>5
<1>3. 0 .. n \subseteq P
  <2> HIDE DEF P
  <2> QED BY <1>1, <1>2, UpTo
<1>4. ASSUME NEW p \in 1 .. n + 2  PROVE p \in S
  <2>1. CASE p = n + 2 BY <2>1
  <2>2. CASE p # n + 2
    <3> DEFINE i == n + 1 - p
    <3>1. i \in 0 .. n /\ n + 1 - i = p /\ ~(n + 2 - i < 1) BY <2>2
    <3> HIDE DEF i
    <3>2. n + 1 - i \in S BY <1>3, <3>1
    <3> QED BY <3>1, <3>2
  <2> QED BY <2>1, <2>2
<1> QED BY <1>4

Filling(n, piece, skip) ==
  \E f : f = [p \in 1 .. n + 2 |-> IF p > n THEN <<>> ELSE piece[p] \o f[p + skip[p]]]

LEMMA FillExists ==
  ASSUME NEW n \in Nat, NEW piece, NEW skip \in [1 .. n -> {1, 2}]
  PROVE  Filling(n, piece, skip)
<1> DEFINE Good(f, i) == \A p \in n + 1 - i .. n + 2 :
                           f[p] = IF p > n THEN <<>> ELSE piece[p] \o f[p + skip[p]]
           S == {i \in Nat : \E f : Good(f, i)}
<1>1. 0 \in S
  <2> DEFINE f == [p \in n + 1 .. n + 2 |-> <<>>]
  <2>1. \A p \in n + 1 - 0 .. n + 2 : p > n /\ p \in n + 1 .. n + 2 OBVIOUS
  <2>2. Good(f, 0) BY <2>1
  <2> QED BY <2>2
<1>2. ASSUME NEW i \in 0 .. n - 1, i \in S  PROVE i + 1 \in S
  <2>1. PICK f : Good(f, i) BY <1>2
  <2> DEFINE m == n - i
             g == [p \in m .. n + 2 |-> IF p = m THEN piece[m] \o f[m + skip[m]] ELSE f[p]]
  <2>2. m \in 1 .. n /\ n + 1 - i = m + 1 /\ n + 1 - (i + 1) = m /\ i + 1 \in Nat OBVIOUS
  <2> HIDE DEF m
  <2>3. \A p \in m + 1 .. n + 2 : f[p] = IF p > n THEN <<>> ELSE piece[p] \o f[p + skip[p]]
    BY <2>1, <2>2
  <2>4. /\ g[m] = piece[m] \o f[m + skip[m]]
        /\ \A p \in m + 1 .. n + 2 : g[p] = f[p]
    <3>1. m \in m .. n + 2 BY <2>2
    <3>2. \A p \in m + 1 .. n + 2 : p \in m .. n + 2 /\ p # m BY <2>2
    <3>3. g[m] = piece[m] \o f[m + skip[m]] BY <3>1
    <3>4. \A p \in m + 1 .. n + 2 : g[p] = f[p] BY <3>2
    <3> QED BY <3>3, <3>4
  <2> HIDE DEF g
  <2>5. \A p \in m .. n : skip[p] \in {1, 2} /\ p + skip[p] \in m + 1 .. n + 2 BY <2>2
  <2>6. \A p \in m .. n : g[p + skip[p]] = f[p + skip[p]] BY <2>4, <2>5
  <2>7. ASSUME NEW p \in m .. n + 2
        PROVE  g[p] = IF p > n THEN <<>> ELSE piece[p] \o g[p + skip[p]]
    <3>1. CASE p = m
      <4>1. m \in m .. n /\ ~(m > n) BY <2>2
      <4>2. g[m + skip[m]] = f[m + skip[m]] BY <2>6, <4>1
      <4>3. g[m] = piece[m] \o g[m + skip[m]] BY <2>4, <4>2
      <4> QED BY <3>1, <4>1, <4>3
    <3>2. CASE p # m
      <4>1. p \in m + 1 .. n + 2 BY <2>2, <3>2
      <4>2. CASE p > n BY <2>3, <2>4, <4>1, <4>2
      <4>3. CASE ~(p > n)
        <5>1. p \in m .. n BY <2>2, <4>3
        <5> QED BY <2>3, <2>4, <2>6, <4>1, <4>3, <5>1
      <4> QED BY <4>2, <4>3
    <3> QED BY <3>1, <3>2
  <2>8. Good(g, i + 1) BY <2>2, <2>7
  <2> HIDE DEF Good
  <2> QED BY <2>2, <2>8
<1>3. 0 .. n \subseteq S
  <2> HIDE DEF S
  <2> QED BY <1>1, <1>2, UpTo
<1>4. PICK f : Good(f, n)
  <2> HIDE DEF Good
  <2>1. n \in 0 .. n OBVIOUS
  <2>2. n \in S
    <3> HIDE DEF S
    <3> QED BY <1>3, <2>1
  <2> QED BY <2>2
<1> DEFINE g == [p \in 1 .. n + 2 |-> f[p]]
<1>5. n + 1 - n = 1 OBVIOUS
<1>6. \A p \in 1 .. n + 2 : f[p] = IF p > n THEN <<>> ELSE piece[p] \o f[p + skip[p]]
  BY <1>4, <1>5
<1>7. \A p \in 1 .. n : p + skip[p] \in 1 .. n + 2
  <2> TAKE p \in 1 .. n
  <2>1. skip[p] \in {1, 2} OBVIOUS
  <2> QED BY <2>1
<1>8. \A p \in 1 .. n : g[p + skip[p]] = f[p + skip[p]] BY <1>7
<1>9. ASSUME NEW p \in 1 .. n + 2
      PROVE  f[p] = IF p > n THEN <<>> ELSE piece[p] \o g[p + skip[p]]
  <2>1. CASE p > n BY <1>6, <2>1
  <2>2. CASE ~(p > n)
    <3>1. p \in 1 .. n BY <2>2
    <3> QED BY <1>6, <1>8, <2>2, <3>1
  <2> QED BY <2>1, <2>2
<1>10. g = [p \in 1 .. n + 2 |-> IF p > n THEN <<>> ELSE piece[p] \o g[p + skip[p]]]
  <2> DEFINE V(p) == IF p > n THEN <<>> ELSE piece[p] \o g[p + skip[p]]
  <2>1. \A p \in 1 .. n + 2 : f[p] = V(p) BY <1>9
  <2> HIDE DEF V
  <2>2. g = [p \in 1 .. n + 2 |-> V(p)] BY <2>1
  <2> QED BY <2>2 DEF V
<1> HIDE DEF g
<1> QED BY <1>10 DEF Filling

(* The arguments whose place is p. *)
NamedAt(str, args, p) ==
  {k \in 1 .. Len(args) : /\ str[p] = "%" /\ p < Len(str)
                          /\ str[p + 1] = Digits[k]}

FromOf(str, args) ==
  CHOOSE f : f = [p \in 1 .. Len(str) + 2 |->
                    IF p > Len(str) THEN <<>>
                    ELSE IF NamedAt(str, args, p) # {}
                         THEN args[CHOOSE k \in NamedAt(str, args, p) : TRUE] \o f[p + 2]
                    ELSE <<str[p]>> \o f[p + 1]]

LEMMA FilledBy ==
  ASSUME NEW str \in Text, NEW args \in Seq(Text)
  PROVE  /\ Filled(str, args) = FromOf(str, args)[1]
         /\ FromOf(str, args)[Len(str) + 1] = <<>> /\ FromOf(str, args)[Len(str) + 2] = <<>>
         /\ \A p \in 1 .. Len(str) :
              \/ NamedAt(str, args, p) = {} /\ FromOf(str, args)[p] = <<str[p]>> \o FromOf(str, args)[p + 1]
              \/ \E k \in NamedAt(str, args, p) :
                   FromOf(str, args)[p] = args[k] \o FromOf(str, args)[p + 2]
         /\ \A p \in 1 .. Len(str) + 2 : FromOf(str, args)[p] \in Text
<1> DEFINE n == Len(str)
           Named(p) == NamedAt(str, args, p)
           piece == [p \in 1 .. n |-> IF Named(p) # {} THEN args[CHOOSE k \in Named(p) : TRUE] ELSE <<str[p]>>]
           skip == [p \in 1 .. n |-> IF Named(p) # {} THEN 2 ELSE 1]
           W(f, p) == IF p > n THEN <<>>
                      ELSE IF Named(p) # {} THEN args[CHOOSE k \in Named(p) : TRUE] \o f[p + 2]
                      ELSE <<str[p]>> \o f[p + 1]
           u == FromOf(str, args)
<1>0. n \in Nat BY DEF Text
<1>1. Filled(str, args) = u[1] BY DEF Filled, FromOf, NamedAt
<1>2. skip \in [1 .. n -> {1, 2}] OBVIOUS
<1>3. PICK f : f = [p \in 1 .. n + 2 |-> IF p > n THEN <<>> ELSE piece[p] \o f[p + skip[p]]]
  <2> HIDE DEF piece, skip, n
  <2>1. Filling(n, piece, skip) BY <1>0, <1>2, FillExists
  <2> QED BY <2>1 DEF Filling
<1>4. \A p \in 1 .. n + 2 : (IF p > n THEN <<>> ELSE piece[p] \o f[p + skip[p]]) = W(f, p)
  <2> TAKE p \in 1 .. n + 2
  <2>1. CASE p > n BY <2>1
  <2>2. CASE ~(p > n)
    <3>1. p \in 1 .. n BY <1>0, <2>2
    <3>2. CASE Named(p) # {}
      <4>1. piece[p] = args[CHOOSE k \in Named(p) : TRUE] /\ skip[p] = 2 BY <3>1, <3>2
      <4> HIDE DEF piece, skip, Named
      <4> QED BY <2>2, <3>2, <4>1
    <3>3. CASE Named(p) = {}
      <4>1. piece[p] = <<str[p]>> /\ skip[p] = 1 BY <3>1, <3>3
      <4> HIDE DEF piece, skip, Named
      <4> QED BY <2>2, <3>3, <4>1
    <3> QED BY <3>2, <3>3
  <2> QED BY <2>1, <2>2
<1>5. f = [p \in 1 .. n + 2 |-> W(f, p)]
  <2> DEFINE V(p) == IF p > n THEN <<>> ELSE piece[p] \o f[p + skip[p]]
  <2>1. \A p \in 1 .. n + 2 : V(p) = W(f, p) BY <1>4
  <2>2. f = [p \in 1 .. n + 2 |-> V(p)] BY <1>3
  <2> HIDE DEF V, W
  <2> QED BY <2>1, <2>2
<1>6. u = [p \in 1 .. n + 2 |-> W(u, p)]
  <2>1. u = CHOOSE g : g = [p \in 1 .. n + 2 |-> W(g, p)] BY DEF FromOf
  <2> HIDE DEF W, u, n
  <2> QED BY <1>5, <2>1
<1> HIDE DEF u, piece, skip
<1>7. \A p \in 1 .. n + 2 : u[p] = W(u, p)
  <2> HIDE DEF W
  <2> QED BY <1>6
<1>8. u[n + 1] = <<>> /\ u[n + 2] = <<>>
  <2>1. n + 1 \in 1 .. n + 2 /\ n + 2 \in 1 .. n + 2 /\ n + 1 > n /\ n + 2 > n BY <1>0
  <2> HIDE DEF n
  <2> QED BY <1>7, <2>1
<1>9. ASSUME NEW p \in 1 .. n
      PROVE  \/ Named(p) = {} /\ u[p] = <<str[p]>> \o u[p + 1]
             \/ \E k \in Named(p) : u[p] = args[k] \o u[p + 2]
  <2>1. p \in 1 .. n + 2 /\ ~(p > n) BY <1>0
  <2>2. u[p] = W(u, p) BY <1>7, <2>1
  <2> HIDE DEF Named
  <2>3. CASE Named(p) # {}
    <3> DEFINE k == CHOOSE k \in Named(p) : TRUE
    <3>1. k \in Named(p) BY <2>3
    <3>2. u[p] = args[k] \o u[p + 2] BY <2>1, <2>2, <2>3
    <3> HIDE DEF k
    <3> QED BY <3>1, <3>2
  <2>4. CASE Named(p) = {} BY <2>1, <2>2, <2>4
  <2> QED BY <2>3, <2>4
<1> DEFINE S == {p \in Nat : u[p] \in Text}
<1>10. n + 1 \in S /\ n + 2 \in S
  <2>1. <<>> \in Text BY DEF Text
  <2> QED BY <1>0, <1>8, <2>1
<1>11. ASSUME NEW p \in 1 .. n, p + 1 \in S, p + 2 \in S  PROVE p \in S
  <2>1. u[p + 1] \in Text /\ u[p + 2] \in Text /\ p \in Nat BY <1>11
  <2>2. CASE u[p] = <<str[p]>> \o u[p + 1]
    <3>1. str[p] \in Letters BY DEF Text
    <3>2. <<str[p]>> \in Text BY <3>1 DEF Text
    <3> QED BY <2>1, <2>2, <3>2, TextJoined
  <2>3. CASE \E k \in Named(p) : u[p] = args[k] \o u[p + 2]
    <3>1. PICK k \in Named(p) : u[p] = args[k] \o u[p + 2] BY <2>3
    <3>2. k \in 1 .. Len(args) BY DEF NamedAt
    <3>3. args[k] \in Text BY <3>2
    <3> QED BY <2>1, <3>1, <3>3, TextJoined
  <2> QED BY <1>9, <2>2, <2>3
<1>12. 1 .. n + 2 \subseteq S
  <2> HIDE DEF S, n
  <2> QED BY <1>0, <1>10, <1>11, Backwards
<1>13. \A p \in 1 .. n + 2 : u[p] \in Text BY <1>12
<1> HIDE DEF S
<1> QED BY <1>1, <1>8, <1>9, <1>13 DEF u

LEMMA DigitsAre ==
  /\ Len(Digits) = 7
  /\ \A k \in 1 .. 7 : Digits[k] \in Letters /\ Digits[k] # "%"
  /\ \A j, k \in 1 .. 7 : Digits[j] = Digits[k] => j = k
<1>1. Len(Digits) = 7 BY DEF Digits
<1>2. /\ Digits[1] = "1" /\ Digits[2] = "2" /\ Digits[3] = "3" /\ Digits[4] = "4"
      /\ Digits[5] = "5" /\ Digits[6] = "6" /\ Digits[7] = "7"
  BY DEF Digits
<1>3. \A k \in 1 .. 7 : k = 1 \/ k = 2 \/ k = 3 \/ k = 4 \/ k = 5 \/ k = 6 \/ k = 7
  OBVIOUS
<1>4. \A k \in 1 .. 7 : Digits[k] \in Letters /\ Digits[k] # "%" BY <1>2, <1>3 DEF Letters
<1>5. ASSUME NEW j \in 1 .. 7, NEW k \in 1 .. 7, Digits[j] = Digits[k]  PROVE j = k
  BY <1>2, <1>3, <1>5
<1> QED BY <1>1, <1>4, <1>5

LEMMA SeqGrows ==
  ASSUME NEW A, NEW B, A \subseteq B
  PROVE  Seq(A) \subseteq Seq(B)
<1>1. ASSUME NEW s \in Seq(A)  PROVE s \in Seq(B)
  <2> DEFINE n == Len(s)
  <2>1. n \in Nat /\ s \in [1 .. n -> A] OBVIOUS
  <2> HIDE DEF n
  <2>2. s \in [1 .. n -> B] BY <2>1
  <2> QED BY <2>1, <2>2
<1> QED BY <1>1

LEMMA FormatText ==
  ASSUME NEW made \in Formats
  PROVE  made.str \in Text /\ made.args \in Seq(Text) /\ Len(made.args) <= 7
<1>1. made.str \in Seq(STRING) /\ made.args \in Seq(Seq(STRING)) BY FormatsAssumption
<1>2. STRING \subseteq Letters BY DEF Letters
<1>4. Seq(STRING) \subseteq Text BY <1>2, SeqGrows DEF Text
<1>3. made.str \in Text BY <1>1, <1>4
<1>5. made.args \in Seq(Text)
  <2>1. Seq(Seq(STRING)) \subseteq Seq(Text) BY <1>4, SeqGrows
  <2> QED BY <1>1, <2>1
<1> QED BY <1>3, <1>5, DigitsAre, FormatsAssumption

(* An argument that a format names is inside the text. *)
LEMMA NamedInside ==
  ASSUME NEW str \in Text, NEW args \in Seq(Text), Len(args) <= 7, NEW k \in 1 .. Len(args),
         Within(<<"%", Digits[k]>>, str)
  PROVE  Inside(args[k], Filled(str, args))
<1> DEFINE n == Len(str)
           from == FromOf(str, args)
           sign == <<"%", Digits[k]>>
<1>0. n \in Nat /\ str \in Seq(Letters) /\ Len(args) \in Nat /\ k \in 1 .. 7 BY DEF Text
<1>1. args[k] \in Text OBVIOUS
<1>2. Len(sign) = 2 /\ sign[1] = "%" /\ sign[2] = Digits[k] OBVIOUS
<1> HIDE DEF sign
<1>3. PICK j \in 0 .. n - 2 : SubSeq(str, j + 1, j + 2) = sign BY <1>2 DEF Within, sign
<1> DEFINE q == j + 1
<1>4. q \in 1 .. n /\ q < n /\ q + 1 = j + 2 BY <1>0
<1>5. str[q] = "%" /\ str[q + 1] = Digits[k]
  <2>1. j + 1 \in Int /\ j + 2 \in Int /\ \A i \in j + 1 .. j + 2 : str[i] \in Letters
    <3>1. j + 1 .. j + 2 \subseteq 1 .. n /\ j \in Int BY <1>0, <1>4
    <3> QED BY <1>0, <3>1
  <2>2. \A i \in 1 .. (j + 2) - (j + 1) + 1 : SubSeq(str, j + 1, j + 2)[i] = str[(j + 1) + i - 1]
    BY <2>1, SubSeqProperties
  <2>3. (j + 2) - (j + 1) + 1 = 2 /\ (j + 1) + 1 - 1 = q /\ (j + 1) + 2 - 1 = q + 1 BY <1>0
  <2> HIDE DEF q
  <2> DEFINE piece == SubSeq(str, j + 1, j + 2)
  <2>5. \A i \in 1 .. 2 : piece[i] = str[(j + 1) + i - 1] BY <2>2, <2>3
  <2>6. piece = sign BY <1>3
  <2> HIDE DEF piece
  <2>7. piece[1] = str[(j + 1) + 1 - 1] BY <2>5
  <2>8. piece[2] = str[(j + 1) + 2 - 1] BY <2>5
  <2>4. sign[1] = str[q] /\ sign[2] = str[q + 1] BY <2>3, <2>6, <2>7, <2>8
  <2> QED BY <1>2, <2>4
<1> HIDE DEF q
<1>6. /\ Filled(str, args) = from[1]
      /\ \A p \in 1 .. n :
           \/ NamedAt(str, args, p) = {} /\ from[p] = <<str[p]>> \o from[p + 1]
           \/ \E i \in NamedAt(str, args, p) : from[p] = args[i] \o from[p + 2]
      /\ \A p \in 1 .. n + 2 : from[p] \in Text
  BY FilledBy
<1> HIDE DEF from
<1>7. Inside(args[k], from[q])
  <2>1. k \in NamedAt(str, args, q) BY <1>4, <1>5 DEF NamedAt
  <2>2. PICK i \in NamedAt(str, args, q) : from[q] = args[i] \o from[q + 2] BY <1>4, <1>6, <2>1
  <2>3. i \in 1 .. Len(args) /\ Digits[i] = Digits[k] BY <1>5 DEF NamedAt
  <2>4. i \in 1 .. 7 BY <1>0, <2>3
  <2>5. i = k BY <1>0, <2>3, <2>4, DigitsAre
  <2>6. q + 2 \in 1 .. n + 2 BY <1>0, <1>4
  <2> QED BY <1>1, <1>6, <2>2, <2>5, <2>6, InsideFirst
<1> DEFINE S == {p \in Nat : p <= q => Inside(args[k], from[p])}
           m == q - 1
<1>8. m \in Nat /\ m + 1 = q /\ m + 2 = q + 1 BY <1>0, <1>4
<1>9. m + 1 \in S /\ m + 2 \in S BY <1>4, <1>7, <1>8
<1>10. ASSUME NEW p \in 1 .. m, p + 1 \in S, p + 2 \in S  PROVE p \in S
  <2>1. p \in 1 .. n /\ p < q /\ p + 1 <= q /\ p \in Nat /\ p + 1 \in 1 .. n /\ p + 1 \in 1 .. n + 2
    BY <1>0, <1>4, <1>8
  <2>2. CASE NamedAt(str, args, p) = {} /\ from[p] = <<str[p]>> \o from[p + 1]
    <3>1. Inside(args[k], from[p + 1]) BY <1>10, <2>1
    <3>2. str[p] \in Letters BY <1>0, <2>1
    <3>3. <<str[p]>> \in Text BY <3>2 DEF Text
    <3>4. Inside(args[k], from[p]) BY <1>1, <2>2, <3>1, <3>3, InsideLonger
    <3> QED BY <2>1, <3>4
  <2>3. CASE \E i \in NamedAt(str, args, p) : from[p] = args[i] \o from[p + 2]
    <3>1. PICK i \in NamedAt(str, args, p) : from[p] = args[i] \o from[p + 2] BY <2>3
    <3>2. i \in 1 .. Len(args) /\ str[p + 1] = Digits[i] BY DEF NamedAt
    <3>3. i \in 1 .. 7 BY <1>0, <3>2
    <3>4. str[p + 1] # "%" BY <3>2, <3>3, DigitsAre
    <3>5. p + 1 # q BY <1>5, <3>4
    <3>6. p + 2 <= q BY <1>4, <2>1, <3>5
    <3>7. Inside(args[k], from[p + 2]) BY <1>10, <2>1, <3>6
    <3>8. args[i] \in Text BY <3>2
    <3>9. Inside(args[k], from[p]) BY <1>1, <3>1, <3>7, <3>8, InsideLonger
    <3> QED BY <2>1, <3>9
  <2> QED BY <1>6, <2>1, <2>2, <2>3
<1>11. 1 .. m + 2 \subseteq S
  <2> HIDE DEF S, m
  <2> QED BY <1>8, <1>9, <1>10, Backwards
<1>12. 1 \in 1 .. m + 2 /\ 1 <= q BY <1>4, <1>8
<1>13. Inside(args[k], from[1]) BY <1>11, <1>12
<1> QED BY <1>6, <1>13

LEMMA JoinedParts ==
  ASSUME NEW a \in Seq(Letters), NEW b \in Seq(Letters)
  PROVE  /\ a \o b \in Seq(Letters) /\ Len(a \o b) = Len(a) + Len(b)
         /\ \A i \in 1 .. Len(a) + Len(b) : (a \o b)[i] = IF i <= Len(a) THEN a[i] ELSE b[i - Len(a)]
OBVIOUS

LEMMA PartGrows ==
  ASSUME NEW str \in Text, NEW p \in 1 .. Len(str)
  PROVE  /\ <<str[p]>> \o SubSeq(str, p + 1, Len(str)) = SubSeq(str, p, Len(str))
         /\ p < Len(str) => <<str[p], str[p + 1]>> \o SubSeq(str, p + 2, Len(str)) = SubSeq(str, p, Len(str))
<1> DEFINE n == Len(str)
<1>0. n \in Nat /\ str \in Seq(Letters) BY DEF Text
<1>1. /\ SubSeq(str, p, n) \in Seq(Letters) /\ Len(SubSeq(str, p, n)) = n - p + 1
      /\ \A i \in 1 .. n - p + 1 : SubSeq(str, p, n)[i] = str[p + i - 1]
  BY <1>0
<1>2. /\ SubSeq(str, p + 1, n) \in Seq(Letters) /\ Len(SubSeq(str, p + 1, n)) = n - p
      /\ \A i \in 1 .. n - p : SubSeq(str, p + 1, n)[i] = str[p + i]
  BY <1>0
<1> HIDE DEF n
<1>3. <<str[p]>> \o SubSeq(str, p + 1, n) = SubSeq(str, p, n)
  <2> DEFINE a == SubSeq(str, p + 1, n)
             b == SubSeq(str, p, n)
             c == <<str[p]>>
  <2>1. c \in Seq(Letters) /\ Len(c) = 1 /\ c[1] = str[p] BY <1>0 DEF n
  <2> HIDE DEF a, b, c
  <2>2. /\ c \o a \in Seq(Letters) /\ Len(c \o a) = 1 + (n - p)
        /\ \A i \in 1 .. 1 + (n - p) : (c \o a)[i] = IF i <= 1 THEN c[i] ELSE a[i - 1]
    <3>1. a \in Seq(Letters) /\ Len(a) = n - p BY <1>2 DEF a, n
    <3>2. /\ c \o a \in Seq(Letters) /\ Len(c \o a) = Len(c) + Len(a)
          /\ \A i \in 1 .. Len(c) + Len(a) : (c \o a)[i] = IF i <= Len(c) THEN c[i] ELSE a[i - Len(c)]
      BY <2>1, <3>1, JoinedParts
    <3> QED BY <2>1, <3>1, <3>2
  <2>3. ASSUME NEW i \in 1 .. 1 + (n - p)  PROVE (c \o a)[i] = b[i]
    <3>1. CASE i = 1
      <4>1. b[1] = str[p + 1 - 1] BY <1>0, <1>1 DEF b, n
      <4> QED BY <1>0, <2>1, <2>2, <3>1, <4>1 DEF n
    <3>2. CASE i # 1
      <4>1. i - 1 \in 1 .. n - p /\ ~(i <= 1) BY <1>0, <3>2 DEF n
      <4>2. a[i - 1] = str[p + (i - 1)] BY <1>2, <4>1 DEF a
      <4>3. b[i] = str[p + i - 1] BY <1>0, <1>1 DEF b, n
      <4> QED BY <2>2, <4>1, <4>2, <4>3
    <3> QED BY <3>1, <3>2
  <2>4. b \in Seq(Letters) /\ Len(b) = 1 + (n - p) BY <1>0, <1>1 DEF b, n
  <2>5. c \o a = b BY <2>2, <2>3, <2>4, SeqEqual
  <2> QED BY <2>5 DEF a, b, c
<1>4. ASSUME p < n  PROVE <<str[p], str[p + 1]>> \o SubSeq(str, p + 2, n) = SubSeq(str, p, n)
  <2> DEFINE a == SubSeq(str, p + 2, n)
             b == SubSeq(str, p, n)
             c == <<str[p], str[p + 1]>>
  <2>0. str[p] \in Letters /\ str[p + 1] \in Letters BY <1>0, <1>4 DEF n
  <2>1. c \in Seq(Letters) /\ Len(c) = 2 /\ c[1] = str[p] /\ c[2] = str[p + 1] BY <2>0
  <2>6. /\ a \in Seq(Letters) /\ Len(a) = n - p - 1
        /\ \A i \in 1 .. n - p - 1 : a[i] = str[p + i + 1]
    BY <1>0, <1>4 DEF n
  <2> HIDE DEF a, b, c
  <2>2. /\ c \o a \in Seq(Letters) /\ Len(c \o a) = 2 + (n - p - 1)
        /\ \A i \in 1 .. 2 + (n - p - 1) : (c \o a)[i] = IF i <= 2 THEN c[i] ELSE a[i - 2]
    <3>2. /\ c \o a \in Seq(Letters) /\ Len(c \o a) = Len(c) + Len(a)
          /\ \A i \in 1 .. Len(c) + Len(a) : (c \o a)[i] = IF i <= Len(c) THEN c[i] ELSE a[i - Len(c)]
      BY <2>1, <2>6, JoinedParts
    <3> QED BY <2>1, <2>6, <3>2
  <2>3. ASSUME NEW i \in 1 .. 2 + (n - p - 1)  PROVE (c \o a)[i] = b[i]
    <3>0. b[i] = str[p + i - 1] BY <1>0, <1>1 DEF b, n
    <3>1. CASE i = 1
      <4>1. p + 1 - 1 = p BY <1>0 DEF n
      <4> QED BY <2>1, <2>2, <3>0, <3>1, <4>1
    <3>3. CASE i = 2
      <4>1. p + 2 - 1 = p + 1 BY <1>0 DEF n
      <4> QED BY <2>1, <2>2, <3>0, <3>3, <4>1
    <3>2. CASE i # 1 /\ i # 2
      <4>1. i - 2 \in 1 .. n - p - 1 /\ ~(i <= 2) /\ p + (i - 2) + 1 = p + i - 1 BY <1>0, <3>2 DEF n
      <4>2. a[i - 2] = str[p + (i - 2) + 1] BY <2>6, <4>1
      <4> QED BY <2>2, <3>0, <4>1, <4>2
    <3> QED BY <3>1, <3>2, <3>3
  <2>4. b \in Seq(Letters) /\ Len(b) = 2 + (n - p - 1) BY <1>0, <1>1 DEF b, n
  <2>5. c \o a = b BY <2>2, <2>3, <2>4, SeqEqual
  <2> QED BY <2>5 DEF a, b, c
<1> QED BY <1>3, <1>4 DEF n

(* A format whose arguments are their own names stands as it is. *)
LEMMA OwnNames ==
  ASSUME NEW str \in Text, NEW args \in Seq(Text), Len(args) <= 7
  PROVE  Filled(str, [k \in DOMAIN args |-> <<"%", Digits[k]>>]) = str
<1> DEFINE n == Len(str)
           names == [k \in DOMAIN args |-> <<"%", Digits[k]>>]
           from == FromOf(str, names)
<1>0. n \in Nat /\ str \in Seq(Letters) /\ Len(args) \in Nat BY DEF Text
<1>1. names \in Seq(Text) /\ Len(names) = Len(args) /\ \A k \in 1 .. Len(args) : names[k] = <<"%", Digits[k]>>
  <2>1. \A k \in 1 .. Len(args) : Digits[k] \in Letters BY <1>0, DigitsAre
  <2>2. "%" \in Letters BY DEF Letters
  <2>3. \A k \in 1 .. Len(args) : <<"%", Digits[k]>> \in Text BY <2>1, <2>2 DEF Text
  <2>4. DOMAIN args = 1 .. Len(args) OBVIOUS
  <2>5. names \in [1 .. Len(args) -> Text] BY <2>3, <2>4
  <2> HIDE DEF names
  <2>6. names \in Seq(Text) /\ Len(names) = Len(args) BY <1>0, <2>5
  <2> QED BY <2>4, <2>6 DEF names
<1> HIDE DEF names
<1>2. /\ Filled(str, names) = from[1]
      /\ from[n + 1] = <<>> /\ from[n + 2] = <<>>
      /\ \A p \in 1 .. n :
           \/ NamedAt(str, names, p) = {} /\ from[p] = <<str[p]>> \o from[p + 1]
           \/ \E k \in NamedAt(str, names, p) : from[p] = names[k] \o from[p + 2]
  BY <1>1, FilledBy
<1> HIDE DEF from
<1> DEFINE S == {p \in Nat : from[p] = SubSeq(str, p, n)}
<1>3. n + 1 \in S /\ n + 2 \in S
  <2>1. SubSeq(str, n + 1, n) = <<>> /\ SubSeq(str, n + 2, n) = <<>> BY <1>0
  <2>2. from[n + 1] = SubSeq(str, n + 1, n) BY <1>2, <2>1
  <2>3. from[n + 2] = SubSeq(str, n + 2, n) BY <1>2, <2>1
  <2> HIDE DEF n
  <2> QED BY <1>0, <2>2, <2>3
<1>4. ASSUME NEW p \in 1 .. n, p + 1 \in S, p + 2 \in S  PROVE p \in S
  <2>0. p \in 1 .. Len(str) BY DEF n
  <2>1. from[p + 1] = SubSeq(str, p + 1, n) /\ from[p + 2] = SubSeq(str, p + 2, n) /\ p \in Nat BY <1>4
  <2>2. CASE from[p] = <<str[p]>> \o from[p + 1] BY <2>1, <2>2, PartGrows
  <2>3. CASE \E k \in NamedAt(str, names, p) : from[p] = names[k] \o from[p + 2]
    <3>1. PICK k \in NamedAt(str, names, p) : from[p] = names[k] \o from[p + 2] BY <2>3
    <3>2. k \in 1 .. Len(args) /\ str[p] = "%" /\ p < n /\ str[p + 1] = Digits[k] BY <1>1 DEF NamedAt
    <3>3. names[k] = <<str[p], str[p + 1]>> BY <1>1, <3>2
    <3>4. <<str[p], str[p + 1]>> \o SubSeq(str, p + 2, n) = SubSeq(str, p, n) BY <3>2, PartGrows
    <3> QED BY <2>1, <3>1, <3>3, <3>4
  <2> QED BY <1>2, <2>2, <2>3
<1>5. 1 .. n + 2 \subseteq S
  <2> HIDE DEF S, n
  <2> QED BY <1>0, <1>3, <1>4, Backwards
<1>6. 1 \in 1 .. n + 2 BY <1>0
<1>7. from[1] = SubSeq(str, 1, n) BY <1>5, <1>6
<1>8. SubSeq(str, 1, n) = str
  <2>1. /\ SubSeq(str, 1, n) \in Seq(Letters) /\ Len(SubSeq(str, 1, n)) = n
        /\ \A i \in 1 .. n : SubSeq(str, 1, n)[i] = str[i]
    BY <1>0
  <2> QED BY <1>0, <2>1, SeqEqual
<1> QED BY <1>2, <1>7, <1>8 DEF names

(* What a line says of the text it was made of. *)
Made == [str : Text, args : Seq(Text)]
NothingMade == [str |-> <<>>, args |-> <<>>]

Names(args) == [k \in DOMAIN args |-> <<"%", Digits[k]>>]

LineTold(made, text, plain) ==
  /\ plain => \A k \in DOMAIN text : text[k] \notin NotASCII
  /\ \A k \in DOMAIN made.args :
       Within(<<"%", Digits[k]>>, made.str) =>
         Within(IF plain THEN Escaped(made.args[k]) ELSE made.args[k], text)
  /\ Filled(made.str, Names(made.args)) = made.str

LEMMA MadeTold ==
  ASSUME NEW made \in Made, Len(made.args) <= 7, NEW plain \in BOOLEAN
  PROVE  LET text == Filled(made.str, made.args)
         IN  LineTold(made, IF plain THEN Escaped(text) ELSE text, plain)
<1> DEFINE str == made.str
           args == made.args
           text == Filled(str, args)
           shown == IF plain THEN Escaped(text) ELSE text
<1>1. str \in Text /\ args \in Seq(Text) /\ Len(args) <= 7 BY DEF Made
<1> HIDE DEF str, args
<1>2. Len(str) + 1 \in 1 .. Len(str) + 2 /\ 1 \in 1 .. Len(str) + 2 BY <1>1 DEF Text
<1>3. text \in Text
  <2>1. \A p \in 1 .. Len(str) + 2 : FromOf(str, args)[p] \in Text BY <1>1, FilledBy
  <2>2. text = FromOf(str, args)[1] BY <1>1, FilledBy
  <2> QED BY <1>2, <2>1, <2>2
<1> HIDE DEF text
<1>4. plain => \A k \in DOMAIN shown : shown[k] \notin NotASCII BY <1>3, EscapedPlain DEF Plain
<1>5. ASSUME NEW k \in DOMAIN args, Within(<<"%", Digits[k]>>, str)
      PROVE  Within(IF plain THEN Escaped(args[k]) ELSE args[k], shown)
  <2>1. k \in 1 .. Len(args) /\ args[k] \in Text BY <1>1
  <2>2. Inside(args[k], text) BY <1>1, <1>5, <2>1, NamedInside DEF text
  <2>3. CASE plain
    <3>1. Escaped(args[k]) \in Text BY <2>1, EscapedPlain DEF Plain
    <3>2. Inside(Escaped(args[k]), Escaped(text)) BY <2>1, <2>2, InsideEscaped
    <3>3. Within(Escaped(args[k]), Escaped(text)) BY <3>1, <3>2, InsideWithin
    <3> QED BY <2>3, <3>3
  <2>4. CASE ~plain
    <3>1. Within(args[k], text) BY <2>1, <2>2, InsideWithin
    <3> QED BY <2>4, <3>1
  <2> QED BY <2>3, <2>4
<1>6. Filled(str, Names(args)) = str BY <1>1, OwnNames DEF Names
<1> HIDE DEF shown
<1>7. LineTold(made, shown, plain) BY <1>4, <1>5, <1>6 DEF LineTold, str, args
<1> QED BY <1>7 DEF shown, text, str, args

LEMMA FormatsMade ==
  ASSUME NEW made \in Formats
  PROVE  made \in Made /\ Len(made.args) <= 7
<1>1. made \in [str : Seq(STRING), args : Seq(Seq(STRING))] BY FormatsAssumption
<1>2. made = [str |-> made.str, args |-> made.args] BY <1>1
<1> QED BY <1>2, FormatText DEF Made

LEMMA NothingIsMade ==
  NothingMade \in Made /\ Len(NothingMade.args) <= 7
<1>1. NothingMade.str = <<>> /\ NothingMade.args = <<>> BY DEF NothingMade
<1>2. <<>> \in Text /\ <<>> \in Seq(Text) BY DEF Text
<1>3. NothingMade \in Made BY <1>2 DEF NothingMade, Made
<1>4. Len(<<>>) <= 7 OBVIOUS
<1> QED BY <1>1, <1>3, <1>4

----------------------------------------
(* How many of the traces of a thread were written. *)

Count(s) == Cardinality({k \in DOMAIN s : s[k]})

LEMMA CountBounds ==
  ASSUME NEW s \in Seq(BOOLEAN)
  PROVE  Count(s) \in Nat /\ Count(s) <= Len(s) /\ IsFiniteSet({k \in DOMAIN s : s[k]})
<1> DEFINE S == {k \in DOMAIN s : s[k]}
           n == Len(s)
<1>1. n \in Nat /\ S \in SUBSET (1 .. n) OBVIOUS
<1> HIDE DEF S, n
<1>2. IsFiniteSet(1 .. n) /\ Cardinality(1 .. n) = n
  <2>1. /\ IsFiniteSet(1 .. n)
        /\ Cardinality(1 .. n) = IF 1 > n THEN 0 ELSE n - 1 + 1
    BY <1>1, FS_Interval
  <2> QED BY <1>1, <2>1
<1>3. IsFiniteSet(S) /\ Cardinality(S) <= n BY <1>1, <1>2, FS_Subset
<1>4. Cardinality(S) \in Nat BY <1>3, FS_CardinalityType
<1> QED BY <1>3, <1>4 DEF S, n, Count

LEMMA CountAppend ==
  ASSUME NEW s \in Seq(BOOLEAN), NEW b \in BOOLEAN
  PROVE  Count(Append(s, b)) = Count(s) + IF b THEN 1 ELSE 0
<1> DEFINE S == {k \in DOMAIN s : s[k]}
           u == Append(s, b)
           T == {k \in DOMAIN u : u[k]}
           n == Len(s)
<1>1. /\ n \in Nat /\ DOMAIN s = 1 .. n /\ DOMAIN u = 1 .. n + 1
      /\ u[n + 1] = b /\ \A k \in 1 .. n : u[k] = s[k]
  OBVIOUS
<1> HIDE DEF u, n
<1>2. 1 .. n + 1 = (1 .. n) \cup {n + 1} /\ n + 1 \notin 1 .. n BY <1>1
<1>3. IsFiniteSet(S) /\ Count(s) \in Nat BY CountBounds
<1>4. CASE b
  <2>1. u[n + 1] BY <1>1, <1>4
  <2>2. T = S \cup {n + 1} /\ n + 1 \notin S BY <1>1, <1>2, <2>1
  <2> HIDE DEF S, T
  <2>3. Cardinality(T) = Cardinality(S) + 1 BY <1>3, <2>2, FS_AddElement
  <2> QED BY <1>4, <2>3 DEF Count, S, T, u
<1>5. CASE ~b
  <2>1. ~u[n + 1] BY <1>1, <1>5
  <2>2. T = S BY <1>1, <1>2, <2>1
  <2> HIDE DEF S, T
  <2>3. Count(u) = Count(s) BY <2>2 DEF Count, S, T
  <2> QED BY <1>3, <1>5, <2>3 DEF u
<1> QED BY <1>4, <1>5

LEMMA CountFront ==
  ASSUME NEW s \in Seq(BOOLEAN), s # <<>>
  PROVE  /\ SubSeq(s, 1, Len(s) - 1) \in Seq(BOOLEAN) /\ Len(SubSeq(s, 1, Len(s) - 1)) = Len(s) - 1
         /\ s[Len(s)] \in BOOLEAN
         /\ Count(s) = Count(SubSeq(s, 1, Len(s) - 1)) + IF s[Len(s)] THEN 1 ELSE 0
<1> DEFINE n == Len(s)
           u == SubSeq(s, 1, n - 1)
           b == s[n]
<1>1. n \in Nat /\ n >= 1 /\ b \in BOOLEAN OBVIOUS
<1> HIDE DEF b
<1>2. u \in Seq(BOOLEAN) /\ Len(u) = n - 1 /\ \A k \in 1 .. n - 1 : u[k] = s[k]
  <2>1. u \in Seq(BOOLEAN) BY <1>1
  <2>2. Len(u) = n - 1 BY <1>1
  <2>3. ASSUME NEW k \in 1 .. n - 1  PROVE u[k] = s[k]
    <3>1. k \in Int /\ k >= 1 /\ k <= n - 1 /\ 1 + k - 1 = k BY <1>1
    <3> QED BY <1>1, <3>1, SubSeqProperties
  <2> QED BY <2>1, <2>2, <2>3
<1> HIDE DEF u, b
<1>3. s = Append(u, b)
  <2> DEFINE v == Append(u, b)
  <2>1. /\ v \in Seq(BOOLEAN) /\ Len(v) = (n - 1) + 1 /\ v[(n - 1) + 1] = b
        /\ \A k \in 1 .. n - 1 : v[k] = u[k]
    BY <1>1, <1>2
  <2>2. (n - 1) + 1 = n BY <1>1
  <2>3. ASSUME NEW k \in 1 .. n  PROVE v[k] = s[k]
    <3>1. CASE k = n BY <2>1, <2>2, <3>1 DEF b
    <3>2. CASE k # n
      <4>1. k \in 1 .. n - 1 BY <1>1, <3>2
      <4> QED BY <1>2, <2>1, <4>1
    <3> QED BY <3>1, <3>2
  <2> HIDE DEF v
  <2>4. v = s BY <2>1, <2>2, <2>3, SeqEqual
  <2> QED BY <2>4 DEF v
<1>4. Count(s) = Count(u) + IF b THEN 1 ELSE 0 BY <1>1, <1>2, <1>3, CountAppend
<1> QED BY <1>1, <1>2, <1>4 DEF u, b

(* A remainder is a number below the divisor, and what is below the *)
(* divisor is its own remainder. *)
LEMMA SmallRemainder ==
  ASSUME NEW a \in Int, NEW d \in Nat \ {0}
  PROVE  a % d \in 0 .. d - 1 /\ (a \in 0 .. d - 1 => a % d = a)
<1> DEFINE q == a \div d
           r == a % d
<1>1. r \in 0 .. d - 1 BY Z3
<1>2. q \in Int /\ a = d * q + r
  <2>1. a = d * (a \div d) + (a % d) BY Z3
  <2>2. a \div d \in Int BY Z3
  <2> QED BY <2>1, <2>2
<1> HIDE DEF q, r
<1>3. ASSUME a \in 0 .. d - 1  PROVE r = a
  <2>1. \A x, y \in Int : x <= y => d * x <= d * y BY SMTT(20)
  <2>2. d * 1 = d /\ d * (-1) = -d /\ d * 0 = 0 BY SMTT(20)
  <2>3. CASE q >= 1
    <3>1. d * 1 <= d * q BY <1>2, <2>1, <2>3
    <3>2. d * q \in Int BY <1>2
    <3> QED BY <1>1, <1>2, <1>3, <2>2, <3>1, <3>2
  <2>4. CASE q <= -1
    <3>1. d * q <= d * (-1) BY <1>2, <2>1, <2>4
    <3>2. d * q \in Int BY <1>2
    <3> QED BY <1>1, <1>2, <1>3, <2>2, <3>1, <3>2
  <2>5. CASE q = 0 BY <1>1, <1>2, <2>2, <2>5
  <2> QED BY <1>2, <2>3, <2>4, <2>5
<1> QED BY <1>1, <1>3 DEF r

(****************************************)
(* The inductive invariant.  A thread that has no number has written no *)
(* trace; the numbers given so far are those from one to the size of the *)
(* table. *)
(****************************************)

Numbered(i) ==
  /\ DOMAIN i \subseteq LogThreads /\ IsFiniteSet(DOMAIN i)
  /\ i \in [DOMAIN i -> [indent : 0 .. Unsigned - 1, number : 1 .. Cardinality(DOMAIN i)]]
  /\ \A t, o \in DOMAIN i : t # o => i[t].number # i[o].number

Indented ==
  /\ \A t \in LogThreads \ DOMAIN infos : Shown(t) = 0
  /\ \A t \in DOMAIN infos \ mixed : infos[t].indent = 2 * Shown(t)

LineInv ==
  line # NoLine =>
    /\ line.of \in LogThreads
    /\ line.of \notin mixed => line.pad = 2 * (Shown(line.of) - IF line.kind = "enter" THEN 1 ELSE 0)
    /\ LineTold(line.made, line.text, line.kind = "message")

LogTypes ==
  /\ active \in {"no", "yes", "aborted"} /\ level \in LogLevels \cup {0}
  /\ mixed \subseteq LogThreads
  /\ traces \in [LogThreads -> Seq(BOOLEAN)] /\ \A t \in LogThreads : Len(traces[t]) <= MaxOpen

LogInv == LogTypes /\ Numbered(infos) /\ Indented /\ LineInv

LEMMA ShownCounts ==
  ASSUME LogTypes, NEW t \in LogThreads
  PROVE  Shown(t) = Count(traces[t]) /\ Shown(t) \in 0 .. MaxOpen /\ traces[t] \in Seq(BOOLEAN)
<1>1. traces[t] \in Seq(BOOLEAN) /\ Len(traces[t]) <= MaxOpen BY DEF LogTypes
<1>2. Count(traces[t]) \in Nat /\ Count(traces[t]) <= Len(traces[t]) BY <1>1, CountBounds
<1>3. MaxOpen \in Nat /\ Len(traces[t]) \in Nat BY <1>1, LogAssumption
<1>4. Shown(t) = Count(traces[t]) BY DEF Shown, Count
<1> QED BY <1>1, <1>2, <1>3, <1>4

LEMMA LogBegins == LogInit => LogInv
<1> SUFFICES ASSUME LogInit  PROVE LogInv OBVIOUS
<1>1. LogTypes
  <2>1. traces = [t \in LogThreads |-> <<>>] BY DEF LogInit
  <2>2. <<>> \in Seq(BOOLEAN) /\ Len(<<>>) = 0 OBVIOUS
  <2>3. traces \in [LogThreads -> Seq(BOOLEAN)] BY <2>1, <2>2
  <2>4. \A t \in LogThreads : Len(traces[t]) <= MaxOpen BY <2>1, <2>2, LogAssumption
  <2> QED BY <2>3, <2>4 DEF LogInit, LogTypes
<1>2. infos = <<>> /\ DOMAIN infos = {} BY DEF LogInit
<1>3. Numbered(infos)
  <2>1. IsFiniteSet({}) BY FS_EmptySet
  <2>2. infos = [x \in {} |-> 0] BY <1>2
  <2>3. infos \in [{} -> [indent : 0 .. Unsigned - 1, number : 1 .. Cardinality({})]] BY <2>2
  <2> QED BY <1>2, <2>1, <2>3 DEF Numbered
<1>4. Indented
  <2>1. ASSUME NEW t \in LogThreads  PROVE Shown(t) = 0
    <3>1. traces[t] = <<>> BY DEF LogInit
    <3>2. {k \in DOMAIN <<>> : <<>>[k]} = {} OBVIOUS
    <3> QED BY <3>1, <3>2, FS_EmptySet DEF Shown
  <2> QED BY <1>2, <2>1 DEF Indented
<1>5. LineInv BY DEF LogInit, LineInv
<1> QED BY <1>1, <1>3, <1>4, <1>5 DEF LogInv

----------------------------------------
(* A line that is written. *)

LEMMA KnownNumbered ==
  ASSUME Numbered(infos), NEW t \in LogThreads
  PROVE  /\ Numbered(Known(t)) /\ DOMAIN Known(t) = DOMAIN infos \cup {t}
         /\ \A o \in DOMAIN infos : Known(t)[o] = infos[o]
         /\ t \notin DOMAIN infos => Known(t)[t].indent = 0
<1>1. CASE t \in DOMAIN infos
  <2>1. Known(t) = infos BY <1>1 DEF Known
  <2> QED BY <1>1, <2>1
<1>2. CASE t \notin DOMAIN infos
  <2> DEFINE D == DOMAIN infos
             c == Cardinality(D)
             new == [indent |-> 0, number |-> c + 1]
             known == Known(t)
  <2>1. known = [x \in D \cup {t} |-> IF x = t THEN new ELSE infos[x]] BY <1>2 DEF Known
  <2>2. D \subseteq LogThreads /\ IsFiniteSet(D) /\ infos \in [D -> [indent : 0 .. Unsigned - 1, number : 1 .. c]]
        /\ \A x, y \in D : x # y => infos[x].number # infos[y].number
    BY DEF Numbered
  <2>3. c \in Nat BY <2>2, FS_CardinalityType
  <2>4. IsFiniteSet(D \cup {t}) /\ Cardinality(D \cup {t}) = c + 1 BY <1>2, <2>2, FS_AddElement
  <2>5. new \in [indent : 0 .. Unsigned - 1, number : 1 .. c + 1] /\ new.number = c + 1 /\ new.indent = 0
    BY <2>3, LogAssumption
  <2> HIDE DEF D, c, new, known
  <2>6. DOMAIN known = D \cup {t} /\ known[t] = new /\ \A x \in D : known[x] = infos[x]
    BY <1>2, <2>1 DEF D
  <2>7. \A x \in D : /\ known[x] \in [indent : 0 .. Unsigned - 1, number : 1 .. c + 1]
                     /\ known[x].number # c + 1
    <3> TAKE x \in D
    <3>1. infos[x] \in [indent : 0 .. Unsigned - 1, number : 1 .. c] BY <2>2
    <3>2. infos[x].number \in 1 .. c /\ infos[x].number \in 1 .. c + 1 /\ infos[x].number # c + 1
          /\ infos[x] = [indent |-> infos[x].indent, number |-> infos[x].number]
          /\ infos[x].indent \in 0 .. Unsigned - 1
      BY <2>3, <3>1
    <3> QED BY <2>6, <3>2
  <2>8. known \in [D \cup {t} -> [indent : 0 .. Unsigned - 1, number : 1 .. c + 1]]
    BY <2>1, <2>5, <2>6, <2>7
  <2>9. ASSUME NEW x \in D \cup {t}, NEW y \in D \cup {t}, x # y
        PROVE  known[x].number # known[y].number
    <3>1. CASE x \in D /\ y \in D BY <2>2, <2>6, <2>9, <3>1
    <3>2. CASE x = t /\ y \in D BY <2>5, <2>6, <2>7, <3>2
    <3>3. CASE x \in D /\ y = t BY <2>5, <2>6, <2>7, <3>3
    <3> QED BY <2>9, <3>1, <3>2, <3>3
  <2>10. Numbered(known) BY <2>2, <2>4, <2>6, <2>8, <2>9 DEF Numbered
  <2> QED BY <1>2, <2>5, <2>6, <2>10 DEF known, D
<1> QED BY <1>1, <1>2

LEMMA IndentNumbered ==
  ASSUME NEW i, Numbered(i), NEW t \in DOMAIN i, NEW a \in 0 .. Unsigned - 1
  PROVE  LET j == [i EXCEPT ![t].indent = a]
         IN  /\ Numbered(j) /\ DOMAIN j = DOMAIN i
             /\ j[t].indent = a
             /\ \A o \in DOMAIN i : o # t => j[o] = i[o]
<1> DEFINE D == DOMAIN i
           R == [indent : 0 .. Unsigned - 1, number : 1 .. Cardinality(D)]
           j == [i EXCEPT ![t].indent = a]
           new == [i[t] EXCEPT !.indent = a]
<1>1. i \in [D -> R] /\ t \in D BY DEF Numbered
<1>2. i[t] \in R BY <1>1
<1>3. new \in R /\ new.indent = a /\ new.number = i[t].number BY <1>2
<1>4. j = [i EXCEPT ![t] = new] OBVIOUS
<1> HIDE DEF D, R, j, new
<1>5. j \in [D -> R] /\ DOMAIN j = D /\ j[t] = new /\ \A o \in D : o # t => j[o] = i[o]
  BY <1>1, <1>3, <1>4
<1>6. \A o \in D : j[o].number = i[o].number BY <1>3, <1>5
<1>7. \A x, y \in D : x # y => j[x].number # j[y].number BY <1>6 DEF Numbered, D
<1>8. Numbered(j) BY <1>5, <1>7 DEF Numbered, D, R
<1> QED BY <1>3, <1>5, <1>8 DEF j, D

LEMMA ShownCountsNext ==
  ASSUME LogTypes', NEW t \in LogThreads
  PROVE  Shown(t)' = Count(traces'[t]) /\ Shown(t)' \in 0 .. MaxOpen /\ traces'[t] \in Seq(BOOLEAN)
<1>1. traces'[t] \in Seq(BOOLEAN) /\ Len(traces'[t]) <= MaxOpen BY DEF LogTypes
<1>2. Count(traces'[t]) \in Nat /\ Count(traces'[t]) <= Len(traces'[t]) BY <1>1, CountBounds
<1>3. MaxOpen \in Nat /\ Len(traces'[t]) \in Nat BY <1>1, LogAssumption
<1>4. Shown(t)' = Count(traces'[t]) BY DEF Shown, Count
<1> QED BY <1>1, <1>2, <1>3, <1>4

(* By how many the traces that were written change. *)
More(kind) == IF kind = "enter" THEN 1 ELSE IF kind = "leave" THEN -1 ELSE 0

LEMMA WriteStep ==
  ASSUME LogInv, NEW t \in LogThreads, NEW kind \in {"message", "enter", "leave"}, NEW cat,
         NEW made \in Made, Len(made.args) <= 7,
         active = "yes", WriteLog(t, kind, cat, made),
         LogTypes', mixed \subseteq mixed',
         \A o \in LogThreads : o # t => Shown(o)' = Shown(o),
         t \notin mixed' => Shown(t)' = Shown(t) + More(kind)
  PROVE  LogInv'
<1> DEFINE known == Known(t)
           before == known[t].indent
           after == (before + Shift(kind)) % Unsigned
           text == Filled(made.str, made.args)
           shown == IF kind = "message" THEN Escaped(text) ELSE text
           pad == Spaces(IF kind = "leave" THEN after ELSE before)
           new == [kind |-> kind, pad |-> pad, text |-> shown, of |-> t, made |-> made]
<1>1. infos' = [known EXCEPT ![t].indent = after] /\ line' = new BY DEF WriteLog
<1>2. /\ Numbered(known) /\ DOMAIN known = DOMAIN infos \cup {t}
      /\ \A o \in DOMAIN infos : known[o] = infos[o]
      /\ t \notin DOMAIN infos => known[t].indent = 0
  BY KnownNumbered DEF LogInv
<1>3. before \in 0 .. Unsigned - 1 /\ t \in DOMAIN known
  <2>1. known[t] \in [indent : 0 .. Unsigned - 1, number : 1 .. Cardinality(DOMAIN known)]
    BY <1>2 DEF Numbered
  <2> HIDE DEF known
  <2> QED BY <1>2, <2>1
<1>4. Shift(kind) = 2 * More(kind) /\ More(kind) \in -1 .. 1
  <2>1. CASE kind = "enter" BY <2>1 DEF Shift, More
  <2>2. CASE kind = "leave" BY <2>2 DEF Shift, More
  <2>3. CASE kind = "message" BY <2>3 DEF Shift, More
  <2> QED BY <2>1, <2>2, <2>3
<1>5. Unsigned \in Nat \ {0} /\ MaxOpen \in Nat /\ 4 * MaxOpen < Unsigned BY LogAssumption
<1>6. before + Shift(kind) \in Int
  <2> HIDE DEF before
  <2> QED BY <1>3, <1>4, <1>5
<1>7. after \in 0 .. Unsigned - 1 /\ (before + Shift(kind) \in 0 .. Unsigned - 1 => after = before + Shift(kind))
  BY <1>5, <1>6, SmallRemainder
<1>8. LineTold(made, shown, kind = "message")
  <2>1. LineTold(made, IF kind = "message" THEN Escaped(text) ELSE text, kind = "message") BY MadeTold
  <2> QED BY <2>1
<1> HIDE DEF known, shown, text
<1>9. /\ Numbered(infos') /\ DOMAIN infos' = DOMAIN infos \cup {t}
      /\ infos'[t].indent = after
      /\ \A o \in DOMAIN infos : o # t => infos'[o] = infos[o]
  <2> HIDE DEF after
  <2> DEFINE j == [known EXCEPT ![t].indent = after]
  <2>1. /\ Numbered(j) /\ DOMAIN j = DOMAIN known /\ j[t].indent = after
        /\ \A o \in DOMAIN known : o # t => j[o] = known[o]
    BY <1>2, <1>3, <1>7, IndentNumbered
  <2> HIDE DEF j
  <2>2. infos' = j BY <1>1 DEF j
  <2> QED BY <1>2, <2>1, <2>2
<1> HIDE DEF before, after, pad
<1>10. ASSUME t \notin mixed'
       PROVE  after = 2 * Shown(t)' /\ pad = 2 * (Shown(t)' - IF kind = "enter" THEN 1 ELSE 0)
  <2>1. Shown(t) \in 0 .. MaxOpen /\ Shown(t)' \in 0 .. MaxOpen BY ShownCounts, ShownCountsNext DEF LogInv
  <2>2. before = 2 * Shown(t)
    <3>1. CASE t \in DOMAIN infos
      <4>1. t \in DOMAIN infos \ mixed BY <1>10, <3>1
      <4> QED BY <1>2, <3>1, <4>1 DEF LogInv, Indented, before
    <3>2. CASE t \notin DOMAIN infos
      <4>1. Shown(t) = 0 BY <3>2 DEF LogInv, Indented
      <4> QED BY <1>2, <3>2, <4>1 DEF before
    <3> QED BY <3>1, <3>2
  <2>3. Shown(t)' = Shown(t) + More(kind) BY <1>10
  <2> DEFINE x == Shown(t)
             y == Shown(t)'
  <2> HIDE DEF x, y
  <2>4. before + Shift(kind) = 2 * y
    <3>1. x \in Int /\ y \in Int /\ y = x + More(kind) /\ before = 2 * x BY <2>1, <2>2, <2>3, <1>4 DEF x, y
    <3> QED BY <1>4, <3>1
  <2>5. after = 2 * y
    <3>1. y \in 0 .. MaxOpen BY <2>1 DEF y
    <3>2. 2 * y \in 0 .. Unsigned - 1 BY <1>5, <3>1
    <3> QED BY <1>7, <2>4, <3>2
  <2>6. Spaces(2 * x) = 2 * x /\ Spaces(2 * y) = 2 * y
    <3>1. x \in 0 .. MaxOpen /\ y \in 0 .. MaxOpen BY <2>1 DEF x, y
    <3>2. 2 * (2 * x) < Unsigned /\ 2 * (2 * y) < Unsigned BY <1>5, <3>1
    <3> QED BY <3>2 DEF Spaces
  <2>7. pad = 2 * (y - IF kind = "enter" THEN 1 ELSE 0)
    <3>0. x \in Int /\ y \in Int /\ y = x + More(kind) /\ before = 2 * x BY <2>1, <2>2, <2>3, <1>4 DEF x, y
    <3>1. CASE kind = "leave"
      <4>1. pad = Spaces(after) BY <3>1 DEF pad
      <4>2. pad = 2 * y BY <2>5, <2>6, <4>1
      <4> QED BY <3>0, <3>1, <4>2
    <3>2. CASE kind = "enter"
      <4>1. pad = Spaces(before) BY <3>2 DEF pad
      <4>2. pad = 2 * x BY <2>6, <3>0, <4>1
      <4>3. x = y - 1 BY <3>0, <3>2 DEF More
      <4> QED BY <3>0, <3>2, <4>2, <4>3
    <3>3. CASE kind = "message"
      <4>1. pad = Spaces(before) BY <3>3 DEF pad
      <4>2. pad = 2 * x BY <2>6, <3>0, <4>1
      <4>3. x = y BY <3>0, <3>3 DEF More
      <4> QED BY <3>0, <3>3, <4>2, <4>3
    <3> QED BY <3>1, <3>2, <3>3
  <2> QED BY <2>5, <2>7 DEF y
<1>11. Indented'
  <2>1. ASSUME NEW o \in LogThreads \ DOMAIN infos'  PROVE Shown(o)' = 0
    <3>1. o # t /\ o \notin DOMAIN infos BY <1>9
    <3> QED BY <3>1 DEF LogInv, Indented
  <2>2. ASSUME NEW o \in DOMAIN infos' \ mixed'  PROVE infos'[o].indent = 2 * Shown(o)'
    <3>1. CASE o = t BY <1>9, <1>10, <2>2, <3>1
    <3>2. CASE o # t
      <4>1. o \in DOMAIN infos \ mixed /\ o \in LogThreads BY <1>9, <3>2 DEF Numbered
      <4>2. infos'[o].indent = infos[o].indent BY <1>9, <3>2, <4>1
      <4>3. Shown(o)' = Shown(o) BY <3>2, <4>1
      <4> QED BY <4>1, <4>2, <4>3 DEF LogInv, Indented
    <3> QED BY <3>1, <3>2
  <2> QED BY <2>1, <2>2 DEF Indented
<1>12. LineInv'
  <2>1. new.of = t /\ new.kind = kind /\ new.pad = pad /\ new.text = shown /\ new.made = made OBVIOUS
  <2> HIDE DEF new
  <2>2. line'.of \notin mixed' =>
          line'.pad = 2 * (Shown(t)' - IF line'.kind = "enter" THEN 1 ELSE 0)
    BY <1>1, <1>10, <2>1
  <2>3. LineTold(line'.made, line'.text, line'.kind = "message") BY <1>1, <1>8, <2>1
  <2>4. line'.of = t BY <1>1, <2>1
  <2> QED BY <2>2, <2>3, <2>4 DEF LineInv
<1> QED BY <1>9, <1>11, <1>12 DEF LogInv

LEMMA NothingWritten ==
  ASSUME LogInv, UNCHANGED <<infos, line>>,
         LogTypes', mixed \subseteq mixed',
         \A o \in LogThreads \ mixed' : Shown(o)' = Shown(o),
         \A o \in LogThreads \ DOMAIN infos : Shown(o)' = 0
  PROVE  LogInv'
<1>1. Numbered(infos') BY DEF LogInv, Numbered
<1>2. Indented'
  <2>1. ASSUME NEW o \in DOMAIN infos \ mixed'  PROVE infos[o].indent = 2 * Shown(o)'
    <3>1. o \in LogThreads \ mixed' /\ o \in DOMAIN infos \ mixed BY DEF LogInv, Numbered
    <3> QED BY <3>1 DEF LogInv, Indented
  <2> QED BY <2>1 DEF Indented
<1>3. LineInv'
  <2>1. ASSUME line # NoLine
        PROVE  /\ line.of \in LogThreads
               /\ line.of \notin mixed' =>
                    line.pad = 2 * (Shown(line.of)' - IF line.kind = "enter" THEN 1 ELSE 0)
               /\ LineTold(line.made, line.text, line.kind = "message")
    BY <2>1 DEF LogInv, LineInv
  <2> QED BY <2>1 DEF LineInv
<1> QED BY <1>1, <1>2, <1>3 DEF LogInv

LEMMA MessageStep ==
  ASSUME LogInv, NEW t \in LogThreads, NEW cat, NEW made \in Formats, WriteLog(t, "message", cat, made),
         active' \in {active, "aborted"}, UNCHANGED <<level, traces, mixed>>
  PROVE  LogInv'
<1>1. LogTypes' BY DEF LogInv, LogTypes
<1>2. \A o \in LogThreads : Shown(o)' = Shown(o) BY DEF Shown
<1>3. CASE active = "yes"
  <2>1. More("message") = 0 BY DEF More
  <2>2. Shown(t) \in 0 .. MaxOpen BY ShownCounts DEF LogInv
  <2>3. Shown(t)' = Shown(t) + More("message") BY <1>2, <2>1, <2>2
  <2> QED BY <1>1, <1>2, <1>3, <2>3, FormatsMade, WriteStep
<1>4. CASE active # "yes"
  <2>1. UNCHANGED <<infos, line>> BY <1>4 DEF WriteLog
  <2>2. \A o \in LogThreads \ DOMAIN infos : Shown(o)' = 0 BY <1>2 DEF LogInv, Indented
  <2> QED BY <1>1, <1>2, <2>1, <2>2, NothingWritten
<1> QED BY <1>3, <1>4

LEMMA EnterStep ==
  ASSUME LogInv, NEW t \in LogThreads, NEW made \in Formats, Enter(t, made)
  PROVE  LogInv'
<1> DEFINE w == Written(FuncTrace)
<1>1. w \in BOOLEAN BY DEF Written
<1>2. /\ Len(traces[t]) < MaxOpen /\ traces' = [traces EXCEPT ![t] = Append(@, w)]
      /\ UNCHANGED <<active, level, mixed>>
  BY DEF Enter
<1>3. w => active = "yes" /\ WriteLog(t, "enter", FuncTrace, made) BY DEF Enter, Written
<1>4. ~w => UNCHANGED <<infos, line>> BY DEF Enter, Written, WriteLog
<1> HIDE DEF w
<1>5. /\ traces \in [LogThreads -> Seq(BOOLEAN)] /\ traces[t] \in Seq(BOOLEAN)
      /\ Len(traces[t]) \in Nat /\ \A o \in LogThreads : Len(traces[o]) <= MaxOpen
  BY DEF LogInv, LogTypes
<1>6. /\ traces'[t] = Append(traces[t], w) /\ \A o \in LogThreads : o # t => traces'[o] = traces[o]
      /\ traces' \in [LogThreads -> Seq(BOOLEAN)]
  <2>1. Append(traces[t], w) \in Seq(BOOLEAN) BY <1>1, <1>5
  <2> DEFINE more == Append(traces[t], w)
  <2>2. traces' = [traces EXCEPT ![t] = more] BY <1>2
  <2> HIDE DEF more
  <2>3. /\ traces'[t] = more /\ \A o \in LogThreads : o # t => traces'[o] = traces[o]
        /\ traces' \in [LogThreads -> Seq(BOOLEAN)]
    BY <1>5, <2>1, <2>2 DEF more
  <2> QED BY <2>3 DEF more
<1>7. LogTypes'
  <2>1. Len(traces'[t]) = Len(traces[t]) + 1 BY <1>1, <1>5, <1>6
  <2>2. Len(traces'[t]) <= MaxOpen BY <1>2, <1>5, <2>1, LogAssumption
  <2>3. \A o \in LogThreads : Len(traces'[o]) <= MaxOpen BY <1>5, <1>6, <2>2
  <2> QED BY <1>2, <1>6, <2>3 DEF LogInv, LogTypes
<1>8. \A o \in LogThreads : o # t => Shown(o)' = Shown(o)
  <2> TAKE o \in LogThreads
  <2>1. o # t => traces'[o] = traces[o] BY <1>6
  <2> QED BY <2>1 DEF Shown
<1>9. Shown(t)' = Shown(t) + IF w THEN 1 ELSE 0
  <2>1. Count(traces'[t]) = Count(traces[t]) + IF w THEN 1 ELSE 0 BY <1>1, <1>5, <1>6, CountAppend
  <2>2. Shown(t) = Count(traces[t]) BY ShownCounts DEF LogInv
  <2>3. Shown(t)' = Count(traces'[t]) BY <1>7, ShownCountsNext
  <2> QED BY <2>1, <2>2, <2>3
<1>10. Shown(t) \in Nat BY ShownCounts, LogAssumption DEF LogInv
<1>11. CASE w
  <2>1. Shown(t)' = Shown(t) + More("enter") BY <1>9, <1>10, <1>11 DEF More
  <2> QED BY <1>2, <1>3, <1>7, <1>8, <1>11, <2>1, FormatsMade, WriteStep
<1>12. CASE ~w
  <2>1. \A o \in LogThreads : Shown(o)' = Shown(o) BY <1>8, <1>9, <1>10, <1>12
  <2>2. \A o \in LogThreads \ DOMAIN infos : Shown(o)' = 0 BY <2>1 DEF LogInv, Indented
  <2> QED BY <1>2, <1>4, <1>7, <1>12, <2>1, <2>2, NothingWritten
<1> QED BY <1>1, <1>11, <1>12

LEMMA LeaveStep ==
  ASSUME LogInv, NEW t \in LogThreads, Leave(t)
  PROVE  LogInv'
<1> DEFINE w == Written(FuncTrace)
           s == traces[t]
           last == s[Len(s)]
           front == SubSeq(s, 1, Len(s) - 1)
<1>1. w \in BOOLEAN BY DEF Written
<1>2. /\ s # <<>> /\ traces' = [traces EXCEPT ![t] = front]
      /\ mixed' = IF last # w THEN mixed \cup {t} ELSE mixed
      /\ UNCHANGED <<active, level>>
  BY DEF Leave
<1>3. w => active = "yes" /\ WriteLog(t, "leave", FuncTrace, NothingMade) BY DEF Leave, Written, NothingMade
<1>4. ~w => UNCHANGED <<infos, line>> BY DEF Leave, Written, WriteLog
<1>5. /\ traces \in [LogThreads -> Seq(BOOLEAN)] /\ s \in Seq(BOOLEAN)
      /\ Len(s) \in Nat /\ \A o \in LogThreads : Len(traces[o]) <= MaxOpen
  BY DEF LogInv, LogTypes
<1>6. Count(s) = Shown(t) BY ShownCounts DEF LogInv
<1> HIDE DEF w, s
<1>7. /\ front \in Seq(BOOLEAN) /\ Len(front) = Len(s) - 1 /\ last \in BOOLEAN
      /\ Count(s) = Count(front) + IF last THEN 1 ELSE 0
  BY <1>2, <1>5, CountFront
<1> HIDE DEF last, front
<1>8. /\ traces'[t] = front /\ \A o \in LogThreads : o # t => traces'[o] = traces[o]
      /\ traces' \in [LogThreads -> Seq(BOOLEAN)]
  BY <1>2, <1>5, <1>7
<1>9. mixed \subseteq mixed' /\ mixed' \subseteq LogThreads /\ (t \notin mixed' => (last <=> w))
  BY <1>1, <1>2, <1>7 DEF LogInv, LogTypes
<1>10. LogTypes'
  <2>1. Len(front) <= MaxOpen
    <3>1. Len(s) <= MaxOpen BY <1>5 DEF s
    <3> QED BY <1>5, <1>7, <3>1, LogAssumption
  <2>2. \A o \in LogThreads : Len(traces'[o]) <= MaxOpen BY <1>5, <1>8, <2>1
  <2> QED BY <1>2, <1>8, <1>9, <2>2 DEF LogInv, LogTypes
<1>11. \A o \in LogThreads : o # t => Shown(o)' = Shown(o)
  <2> TAKE o \in LogThreads
  <2>1. o # t => traces'[o] = traces[o] BY <1>8
  <2> QED BY <2>1 DEF Shown
<1>12. Shown(t)' = Count(front) /\ Count(front) \in Nat
  <2>1. Shown(t)' = Count(traces'[t]) BY <1>10, ShownCountsNext
  <2> QED BY <1>7, <1>8, <2>1, CountBounds
<1>13. CASE w
  <2>1. t \notin mixed' => Shown(t)' = Shown(t) + More("leave")
    <3> SUFFICES ASSUME t \notin mixed'  PROVE Shown(t)' = Shown(t) + More("leave") OBVIOUS
    <3>1. last BY <1>9, <1>13
    <3>2. Shown(t) = Count(front) + 1 BY <1>6, <1>7, <3>1
    <3>3. More("leave") = -1 BY DEF More
    <3> QED BY <1>12, <3>2, <3>3
  <2> QED BY <1>3, <1>9, <1>10, <1>11, <1>13, <2>1, NothingIsMade, WriteStep
<1>14. CASE ~w
  <2>1. \A o \in LogThreads \ mixed' : Shown(o)' = Shown(o)
    <3> TAKE o \in LogThreads \ mixed'
    <3>1. CASE o = t
      <4>1. ~last BY <1>9, <1>14, <3>1
      <4>2. Shown(t) = Count(front) BY <1>6, <1>7, <1>12, <4>1
      <4> QED BY <1>12, <3>1, <4>2
    <3>2. CASE o # t BY <1>11, <3>2
    <3> QED BY <3>1, <3>2
  <2>2. \A o \in LogThreads \ DOMAIN infos : Shown(o)' = 0
    <3> TAKE o \in LogThreads \ DOMAIN infos
    <3>0. Shown(o) = 0 BY DEF LogInv, Indented
    <3>1. CASE o = t
      <4>1. Count(front) + (IF last THEN 1 ELSE 0) = 0 BY <1>6, <1>7, <3>0, <3>1
      <4>2. Count(front) = 0
        <5>1. CASE last BY <1>12, <4>1, <5>1
        <5>2. CASE ~last BY <1>12, <4>1, <5>2
        <5> QED BY <5>1, <5>2
      <4> QED BY <1>12, <3>1, <4>2
    <3>2. CASE o # t BY <1>11, <3>0, <3>2
    <3> QED BY <3>1, <3>2
  <2> QED BY <1>4, <1>9, <1>10, <1>14, <2>1, <2>2, NothingWritten
<1> QED BY <1>1, <1>13, <1>14

(* Steps that write nothing and leave the traces alone. *)
LEMMA QuietStep ==
  ASSUME LogInv, UNCHANGED <<infos, traces, line, mixed>>,
         active' \in {"no", "yes", "aborted"}, level' \in LogLevels \cup {0}
  PROVE  LogInv'
<1>1. LogTypes' BY DEF LogInv, LogTypes
<1>2. \A o \in LogThreads : Shown(o)' = Shown(o) BY DEF Shown
<1>3. \A o \in LogThreads \ DOMAIN infos : Shown(o)' = 0 BY <1>2 DEF LogInv, Indented
<1> QED BY <1>1, <1>2, <1>3, NothingWritten

LEMMA LogStep == LogInv /\ [LogNext]_logvars => LogInv'
<1> SUFFICES ASSUME LogInv, [LogNext]_logvars  PROVE LogInv' OBVIOUS
<1>0. active \in {"no", "yes", "aborted"} /\ level \in LogLevels \cup {0} BY DEF LogInv, LogTypes
<1>1. ASSUME NEW t \in LogThreads, NEW made \in Formats, NEW cat, Message(t, cat, made)  PROVE LogInv'
  <2>1. WriteLog(t, "message", cat, made) /\ active' \in {active, "aborted"}
        /\ UNCHANGED <<level, traces, mixed>>
    BY <1>1 DEF Message
  <2> QED BY <2>1, MessageStep
<1>2. ASSUME NEW t \in LogThreads, NEW made \in Formats, NEW cat, NEW fatal \in BOOLEAN,
             QtMessage(t, cat, fatal, made)
      PROVE  LogInv'
  <2>1. WriteLog(t, "message", cat, made) /\ active' \in {active, "aborted"}
        /\ UNCHANGED <<level, traces, mixed>>
    BY <1>2 DEF QtMessage
  <2> QED BY <2>1, MessageStep
<1>3. ASSUME NEW t \in LogThreads, NEW made \in Formats, Enter(t, made)  PROVE LogInv'
  BY <1>3, EnterStep
<1>4. ASSUME NEW t \in LogThreads, Leave(t)  PROVE LogInv'
  BY <1>4, LeaveStep
<1>5. ASSUME NEW t \in LogThreads, LevelCallback(t)  PROVE LogInv'
  BY <1>0, <1>5, QuietStep DEF LevelCallback
<1>6. CASE StartLog BY <1>0, <1>6, QuietStep DEF StartLog
<1>7. ASSUME NEW l \in LogLevels, SetLogLevel(l)  PROVE LogInv'
  BY <1>0, <1>7, QuietStep DEF SetLogLevel
<1>8. CASE SetLevelCallback(Warn) BY <1>0, <1>8, QuietStep DEF SetLevelCallback
<1>9. CASE UNCHANGED logvars BY <1>0, <1>9, QuietStep DEF logvars
<1>10. ASSUME NEW t \in LogThreads, NEW made \in Formats,
              \/ Enter(t, made)
              \/ \E cat \in {Debug, Warn} : Message(t, cat, made)
              \/ QtMessage(t, Warn, FALSE, made) \/ QtMessage(t, Critical, TRUE, made)
       PROVE  LogInv'
  BY <1>1, <1>2, <1>3, <1>10
<1> QED BY <1>4, <1>5, <1>6, <1>7, <1>8, <1>9, <1>10 DEF LogNext

LEMMA LogFollows == LogInv => LogTypeOK /\ LogTells
<1> SUFFICES ASSUME LogInv  PROVE LogTypeOK /\ LogTells OBVIOUS
<1>1. LogTypeOK
  <2>1. \A t \in DOMAIN infos : infos[t].indent \in 0 .. Unsigned - 1 /\ infos[t].number \in Nat
    <3> TAKE t \in DOMAIN infos
    <3>1. infos[t] \in [indent : 0 .. Unsigned - 1, number : 1 .. Cardinality(DOMAIN infos)]
      BY DEF LogInv, Numbered
    <3>2. Cardinality(DOMAIN infos) \in Nat BY FS_CardinalityType DEF LogInv, Numbered
    <3> QED BY <3>1, <3>2
  <2> QED BY <2>1 DEF LogInv, LogTypes, Numbered, LogTypeOK
<1>2. ColumnsTell BY DEF LogInv, Numbered, Indented, LineInv, ColumnsTell
<1>3. TextTells BY DEF LogInv, LineInv, LineTold, Names, TextTells
<1> QED BY <1>1, <1>2, <1>3 DEF LogTells

(* For any number of threads, of traces within one another below a quarter *)
(* of the range of a uint, and any formats and arguments: the columns and *)
(* the text of every line tell what they should. *)
THEOREM LogTellsHolds == LogSpec => [](LogTypeOK /\ LogTells)
<1>1. LogInit => LogInv BY LogBegins
<1>2. LogInv /\ [LogNext]_logvars => LogInv' BY LogStep
<1>3. LogInv => LogTypeOK /\ LogTells BY LogFollows
<1> QED BY <1>1, <1>2, <1>3, PTL DEF LogSpec

========================================
