----------------------------- MODULE ThreadFifo -----------------------------
(***************************************************************************)
(* The ring buffer of util/threadfifo.h, step by step: every access to     *)
(* count_, buffer_, reader_ and writer_ is a step of its own, between the  *)
(* acquire and the release of the spinlock sl_.                            *)
(***************************************************************************)
EXTENDS Integers, Sequences

CONSTANTS
  Users,    \* threads that put and take
  Data,     \* what they put: pointers to functors
  NoData,   \* T(), the null pointer
  Max       \* max_

ASSUME FifoAssumption == Max \in Nat \ {0} /\ NoData \notin Data /\ NoData \notin BOOLEAN

VARIABLES
  count, reader, writer, buffer,
  sl,     \* the spinlock is taken
  pc,     \* where a thread is in put or take
  op,     \* the operation of a thread
  rv      \* its result

ring == <<count, reader, writer, buffer>>
vars == <<ring, sl, pc, op, rv>>

Index == 0 .. Max - 1
Operation == [op: {"put"}, data: Data] \cup [op: {"take"}]

Init ==
  /\ count = 0 /\ reader = 0 /\ writer = 0
  /\ buffer \in [Index -> {NoData}]
  /\ sl = FALSE
  /\ pc = [u \in Users |-> "idle"]
  /\ op = [u \in Users |-> [op |-> "take"]]
  /\ rv = [u \in Users |-> NoData]

Goto(u, from, to) == pc[u] = from /\ pc' = [pc EXCEPT ![u] = to]
Returning(u, r)   == rv' = [rv EXCEPT ![u] = r]

----------------------------------------
Begin(u) ==
  /\ Goto(u, "idle", "lock")
  /\ \E o \in Operation : op' = [op EXCEPT ![u] = o]
  /\ Returning(u, NoData)
  /\ UNCHANGED <<ring, sl>>

(* while (!sl_.testAndSetAcquire(0, 1)) *)
Lock(u) ==
  /\ ~sl
  /\ Goto(u, "lock", "count")
  /\ sl' = TRUE
  /\ UNCHANGED <<ring, op, rv>>

Unlock(u) ==
  /\ Goto(u, "unlock", "idle")
  /\ sl' = FALSE
  /\ UNCHANGED <<ring, op, rv>>

----------------------------------------
(* put *)

\* Mutant: one value too many.
PutCountOver(u) ==
  /\ op[u].op = "put" /\ count <= Max
  /\ Goto(u, "count", "store")
  /\ count' = count + 1
  /\ UNCHANGED <<reader, writer, buffer, sl, op, rv>>

PutCount(u) ==
  /\ op[u].op = "put" /\ count < Max
  /\ Goto(u, "count", "store")
  /\ count' = count + 1
  /\ UNCHANGED <<reader, writer, buffer, sl, op, rv>>

PutFull(u) ==
  /\ op[u].op = "put" /\ count = Max
  /\ Goto(u, "count", "unlock")
  /\ Returning(u, FALSE)
  /\ UNCHANGED <<ring, sl, op>>

Store(u) ==
  /\ Goto(u, "store", "stored")
  /\ buffer' = [buffer EXCEPT ![writer] = op[u].data]
  /\ UNCHANGED <<count, reader, writer, sl, op, rv>>

NextWriter(u) ==
  /\ Goto(u, "stored", "unlock")
  /\ writer' = (writer + 1) % Max
  /\ Returning(u, TRUE)
  /\ UNCHANGED <<count, reader, buffer, sl, op>>

----------------------------------------
(* take *)

TakeCount(u) ==
  /\ op[u].op = "take" /\ count > 0
  /\ Goto(u, "count", "load")
  /\ count' = count - 1
  /\ UNCHANGED <<reader, writer, buffer, sl, op, rv>>

TakeEmpty(u) ==
  /\ op[u].op = "take" /\ count = 0
  /\ Goto(u, "count", "unlock")
  /\ Returning(u, NoData)
  /\ UNCHANGED <<ring, sl, op>>

Load(u) ==
  /\ Goto(u, "load", "loaded")
  /\ Returning(u, buffer[reader])
  /\ UNCHANGED <<ring, sl, op>>

\* Mutant: the reader does not move.
NextReaderStays(u) ==
  Goto(u, "loaded", "unlock") /\ UNCHANGED <<ring, sl, op, rv>>

NextReader(u) ==
  /\ Goto(u, "loaded", "unlock")
  /\ reader' = (reader + 1) % Max
  /\ UNCHANGED <<count, writer, buffer, sl, op, rv>>

----------------------------------------
Put(u)  == PutCount(u) \/ PutFull(u) \/ Store(u) \/ NextWriter(u)
Take(u) == TakeCount(u) \/ TakeEmpty(u) \/ Load(u) \/ NextReader(u)

Next == \E u \in Users : Begin(u) \/ Lock(u) \/ Put(u) \/ Take(u) \/ Unlock(u)

Spec == Init /\ [][Next]_vars

----------------------------------------
(* Properties *)

TypeOK ==
  /\ count \in 0 .. Max /\ reader \in Index /\ writer \in Index
  /\ buffer \in [Index -> Data \cup {NoData}]
  /\ sl \in BOOLEAN
  /\ pc \in [Users -> {"idle", "lock", "count", "store", "stored", "load", "loaded", "unlock"}]
  /\ op \in [Users -> Operation]
  /\ rv \in [Users -> Data \cup {NoData} \cup BOOLEAN]

(* A value is between ++count_ and the release, or between --count_ and    *)
(* the release.                                                            *)
Adding  == \E u \in Users : pc[u] \in {"store", "stored"}
                              \/ (pc[u] = "unlock" /\ op[u].op = "put" /\ rv[u] = TRUE)
Taking  == \E u \in Users : pc[u] \in {"load", "loaded"}
Removed == \E u \in Users : pc[u] = "unlock" /\ op[u].op = "take" /\ rv[u] # NoData

(* The values that the other threads believe inside: how many, where they *)
(* begin, and which.                                                       *)
Length == IF Adding THEN count - 1
          ELSE IF Taking \/ Removed THEN count + 1 ELSE count
Start  == IF Removed THEN reader - 1 + Max ELSE reader
Contents == [i \in 1 .. Length |-> buffer[(Start + i - 1) % Max]]

(* What a thread is about; it has the result of the last call when idle.   *)
Doing == [u \in Users |-> IF pc[u] = "idle" THEN [result |-> rv[u]] ELSE op[u]]

(* The ring implements a queue: operations take effect when they release   *)
(* the lock, no value is lost, repeated or overtaken.                      *)
Fifo == INSTANCE BoundedFifo WITH
  queue <- Contents,
  doing <- Doing
ImplementsFifo == Fifo!FifoSpec
========================================
