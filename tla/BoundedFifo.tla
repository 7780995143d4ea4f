---------------------------- MODULE BoundedFifo ----------------------------
(***************************************************************************)
(* What ThreadFifo promises to the threads that share it: put and take     *)
(* take effect one at a time between their call and their return, a put    *)
(* into a full queue fails, a take from an empty queue yields nothing, and *)
(* values leave in the order they came.                                    *)
(***************************************************************************)
EXTENDS Naturals, Sequences

CONSTANTS Users, Data, NoData, Max

VARIABLES
  queue,   \* the values inside
  doing    \* what a thread is about: an operation, or the result of the last one

fifoVars == <<queue, doing>>

PutOp(v)  == [op |-> "put", data |-> v]
TakeOp    == [op |-> "take"]
Result(r) == [result |-> r]

FifoInit == queue = <<>> /\ doing = [u \in Users |-> Result(NoData)]

Invoke(u) ==
  /\ "result" \in DOMAIN doing[u]
  /\ \E o \in {PutOp(v) : v \in Data} \cup {TakeOp} : doing' = [doing EXCEPT ![u] = o]
  /\ UNCHANGED queue

AbstractPut(u) ==
  \E v \in Data :
    /\ doing[u] = PutOp(v)
    /\ IF Len(queue) < Max
         THEN queue' = Append(queue, v) /\ doing' = [doing EXCEPT ![u] = Result(TRUE)]
         ELSE UNCHANGED queue /\ doing' = [doing EXCEPT ![u] = Result(FALSE)]

AbstractTake(u) ==
  /\ doing[u] = TakeOp
  /\ IF queue # <<>>
       THEN queue' = Tail(queue) /\ doing' = [doing EXCEPT ![u] = Result(Head(queue))]
       ELSE UNCHANGED queue /\ doing' = [doing EXCEPT ![u] = Result(NoData)]

FifoNext == \E u \in Users : Invoke(u) \/ AbstractPut(u) \/ AbstractTake(u)

FifoSpec == FifoInit /\ [][FifoNext]_fifoVars
========================================
