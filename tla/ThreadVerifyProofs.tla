-------------------------- MODULE ThreadVerifyProofs --------------------------
(****************************************)
(* For any number of callers and pool threads, and any size of the queue: *)
(* types, RunByOne, FrameLives and BegunInOrder of ThreadVerify. *)
(****************************************)
EXTENDS ThreadVerify, SequenceTheorems, TLAPS

(****************************************)
(* The inductive invariant *)
(****************************************)

Q == externalCalls
LastNo(c) == IF call[c] = NoCall THEN 0 ELSE call[c].no

(* Calls of one caller wait in the order of their numbers, and have not *)
(* begun. *)
InOrder ==
  /\ \A i, j \in 1 .. Len(Q) : i < j /\ Q[i].by = Q[j].by => Q[i].no < Q[j].no
  /\ \A i \in 1 .. Len(Q) : begun[Q[i].by] < Q[i].no /\ Q[i].no <= LastNo(Q[i].by)
  /\ \A i \in 1 .. Len(Q) : at[Q[i].by] = "put" => Q[i].no < LastNo(Q[i].by)

(* What runs has begun, and runs on one thread. *)
RunsOnce ==
  /\ \A t \in Threads : running[t] # NoCall => running[t].no <= begun[running[t].by]
  /\ \A s, t \in Threads : running[s] = running[t] /\ running[s] # NoCall => s = t

(* What a caller knows: its last call is its own; a call that is not yet *)
(* queued has not begun; its semaphore is free unless a synced call of its *)
(* has run, and written what it returns, and it has not yet noticed. *)
CallerKnows(c) ==
  /\ call[c] # NoCall => call[c].by = c
  /\ begun[c] <= LastNo(c)
  /\ at[c] # "idle" => call[c] # NoCall
  /\ at[c] = "put" => begun[c] < LastNo(c)
  /\ at[c] = "wake" => waking[c] < ThreadCount
  /\ at[c] = "acquire" => call[c].kind = "synced"
  /\ sem[c] => /\ at[c] \in {"wake", "acquire"} /\ call[c].kind = "synced"
               /\ result[c] = call[c].no

ThreadKnows(t) == loop[t] = "run" <=> running[t] # NoCall

IInv ==
  /\ TypeOK /\ InOrder /\ RunsOnce /\ FrameLives
  /\ \A c \in Callers : CallerKnows(c)
  /\ \A t \in Threads : ThreadKnows(t)

(****************************************)
(* Types *)
(****************************************)

LEMMA FunctorType ==
  ASSUME NEW f \in Functor
  PROVE  /\ f.by \in Callers /\ f.no \in 1 .. MaxCalls /\ f.no \in Nat
         /\ f.kind \in {"async", "synced", "stop"} /\ f # NoCall
BY PoolAssumption DEF Functor

(* The last call of a caller *)
LEMMA LastType ==
  ASSUME TypeOK, NEW c \in Callers
  PROVE  LastNo(c) \in Nat /\ (call[c] # NoCall => call[c] \in Functor)
BY FunctorType DEF TypeOK, LastNo

(* What a queue holds after an Append, and after its head was taken *)
LEMMA Put1 ==
  ASSUME NEW s \in Seq(Functor), NEW f \in Functor
  PROVE  /\ Append(s, f) \in Seq(Functor) /\ Len(Append(s, f)) = Len(s) + 1 /\ Len(s) \in Nat
         /\ \A i \in 1 .. Len(s) : Append(s, f)[i] = s[i] /\ s[i] \in Functor
         /\ Append(s, f)[Len(s) + 1] = f
BY AppendProperties, LenProperties, ElementOfSeq

LEMMA Take1 ==
  ASSUME NEW s \in Seq(Functor), s # <<>>
  PROVE  /\ Head(s) \in Functor /\ Head(s) = s[1] /\ Len(s) \in Nat \ {0}
         /\ Tail(s) \in Seq(Functor) /\ Len(Tail(s)) = Len(s) - 1
         /\ \A i \in 1 .. Len(s) - 1 : Tail(s)[i] = s[i + 1] /\ s[i + 1] \in Functor
<1>1. Len(s) \in Nat \ {0}
  BY EmptySeq
<1>2. \A i \in 1 .. Len(s) : s[i] \in Functor
  BY ElementOfSeq
<1>3. \A i \in 1 .. Len(s) - 1 : s[i + 1] \in Functor
  BY <1>1, <1>2
<1> QED BY <1>1, <1>3, HeadTailProperties

LEMMA Types == ASSUME IInv, [Next]_vars PROVE TypeOK'
<1>0. CASE UNCHANGED vars
  BY <1>0 DEF IInv, TypeOK, vars, calling
<1> USE DEF IInv, TypeOK, calling
<1>1. ASSUME NEW c \in Callers, Call(c) PROVE TypeOK'
  <2>1. PICK kind \in {"async", "synced", "stop"} :
          /\ NewFunctor(c, kind).no <= MaxCalls
          /\ call' = [call EXCEPT ![c] = NewFunctor(c, kind)]
          /\ at' \in {[at EXCEPT ![c] = "put"], [at EXCEPT ![c] = AfterCall(kind)]}
    BY <1>1 DEF Call
  <2> DEFINE no == IF call[c] = NoCall THEN 1 ELSE call[c].no + 1
  <2>2. no \in 1 .. MaxCalls
    BY <2>1, FunctorType, PoolAssumption DEF NewFunctor
  <2>3. NewFunctor(c, kind) \in Functor
    BY <2>2 DEF Functor, NewFunctor
  <2>4. call' \in [Callers -> Functor \cup {NoCall}]
    BY <2>1, <2>3
  <2>5. at' \in [Callers -> {"idle", "put", "wake", "acquire", "join"}]
    BY <2>1 DEF AfterCall
  <2> QED BY <1>1, <2>4, <2>5 DEF Call
<1>2. ASSUME NEW c \in Callers, Put(c) PROVE TypeOK'
  <2>1. call[c] \in Functor
    BY <1>2, LastType DEF Put, Queued, CallerKnows
  <2>2. externalCalls' \in Seq(Functor) /\ Len(externalCalls') <= QueueSize
    BY <1>2, <2>1, Put1, PoolAssumption DEF Put, Queued
  <2>3. waking' \in [Callers -> 0 .. ThreadCount]
    BY <1>2, PoolAssumption DEF Put, Queued
  <2> QED BY <1>2, <2>2, <2>3 DEF Put, Queued
<1>3. ASSUME NEW c \in Callers, Wake(c) PROVE TypeOK'
  <2>1. waking[c] + 1 \in 0 .. ThreadCount
    BY <1>3, PoolAssumption DEF Wake, CallerKnows
  <2>2. call[c] \in Functor
    BY <1>3, LastType DEF Wake, CallerKnows
  <2>3. at' \in [Callers -> {"idle", "put", "wake", "acquire", "join"}]
    BY <1>3, <2>2, FunctorType DEF Wake, AfterCall
  <2> QED BY <1>3, <2>1, <2>3 DEF Wake
<1>4. ASSUME NEW c \in Callers, Acquire(c) \/ Join(c) PROVE TypeOK'
  <2>1. result' \in [Callers -> 0 .. MaxCalls]
    <3>1. 0 \in 0 .. MaxCalls
      BY PoolAssumption
    <3>2. CASE Acquire(c)
      BY <3>1, <3>2 DEF Acquire
    <3>3. CASE Join(c)
      BY <3>3 DEF Join
    <3> QED BY <1>4, <3>2, <3>3
  <2> QED BY <1>4, <2>1 DEF Acquire, Join
<1>5. ASSUME NEW t \in Threads, Async(t) \/ WokeUp(t) PROVE TypeOK'
  BY <1>5 DEF Async, WokeUp
<1>6. ASSUME NEW t \in Threads, Take(t) PROVE TypeOK'
  <2>1. CASE NoneLeft(t)
    BY <1>6, <2>1 DEF Take, NoneLeft
  <2>2. CASE externalCalls # <<>> /\ Taken(t, Tail(externalCalls))
    <3>1. /\ Head(externalCalls) \in Functor /\ Len(externalCalls) \in Nat
          /\ Tail(externalCalls) \in Seq(Functor) /\ Len(Tail(externalCalls)) <= QueueSize
      BY <2>2, Take1, PoolAssumption
    <3>2. begun' \in [Callers -> 0 .. MaxCalls]
      BY <2>2, <3>1, FunctorType, PoolAssumption DEF Taken
    <3>3. stage' \in [Threads -> 0 .. 2 * ThreadCount]
      BY <2>2, PoolAssumption DEF Taken
    <3> QED BY <1>6, <2>2, <3>1, <3>2, <3>3 DEF Take, Taken
  <2> QED BY <1>6, <2>1, <2>2 DEF Take
<1>7. ASSUME NEW t \in Threads, Finish(t) PROVE TypeOK'
  <2>1. running[t] # NoCall /\ running[t] \in Functor
    BY <1>7 DEF Finish, Returns, ThreadKnows
  <2>2. result' \in [Callers -> 0 .. MaxCalls] /\ sem' \in [Callers -> BOOLEAN]
    BY <1>7, <2>1, FunctorType, PoolAssumption DEF Finish, WriteResult, Release
  <2> QED BY <1>7, <2>2 DEF Finish, Returns
<1>8. ASSUME NEW t \in Threads, StopLoop(t) PROVE TypeOK'
  <2>1. stage[t] + 1 \in 0 .. 2 * ThreadCount
    BY <1>8, PoolAssumption DEF StopLoop
  <2> QED BY <1>8, <2>1 DEF StopLoop
<1>9. ASSUME NEW t \in Threads, Leave(t) PROVE TypeOK'
  BY <1>9 DEF Leave
<1>10. CASE End
  BY <1>10 DEF End
<1> QED BY <1>0, <1>1, <1>2, <1>3, <1>4, <1>5, <1>6, <1>7, <1>8, <1>9, <1>10
        DEF Next, Proceed, Work

(****************************************)
(* The rest of the invariant, one lemma for each kind of step *)
(****************************************)

Rest ==
  /\ InOrder /\ RunsOnce /\ FrameLives
  /\ \A c \in Callers : CallerKnows(c)
  /\ \A t \in Threads : ThreadKnows(t)

(* Steps that neither begin nor end a functor, nor belong to a caller *)
LEMMA QuietStep ==
  ASSUME IInv, UNCHANGED <<externalCalls, running, begun, at, call, waking, sem, result>>,
         \A t \in Threads : loop'[t] = "run" <=> loop[t] = "run"
  PROVE  Rest'
<1>1. InOrder' /\ RunsOnce'
  BY DEF IInv, InOrder, RunsOnce, Q, LastNo
<1>2. FrameLives'
  BY DEF IInv, FrameLives, FrameOutlivesCall, RunningFrameLives
<1>3. \A c \in Callers : CallerKnows(c)'
  BY DEF IInv, CallerKnows, LastNo
<1>4. \A t \in Threads : ThreadKnows(t)'
  BY DEF IInv, ThreadKnows
<1> QED BY <1>1, <1>2, <1>3, <1>4 DEF Rest

(* A synced call that waits or runs has its caller in the middle of it. *)
LEMMA Waits ==
  ASSUME IInv, NEW c \in Callers, at[c] \notin {"wake", "acquire"} \/ sem[c]
  PROVE  /\ \A i \in 1 .. Len(Q) : Q[i].by = c => Q[i].kind # "synced"
         /\ \A t \in Threads : running[t] # NoCall /\ running[t].by = c => running[t].kind # "synced"
BY DEF IInv, FrameLives, FrameOutlivesCall, RunningFrameLives, Q

(* Types of what the queue and the threads hold *)
LEMMA Held ==
  ASSUME TypeOK
  PROVE  /\ \A i \in 1 .. Len(Q) : Q[i] \in Functor /\ Q[i].by \in Callers /\ Q[i].no \in Nat
         /\ \A t \in Threads : running[t] # NoCall =>
              running[t] \in Functor /\ running[t].by \in Callers /\ running[t].no \in Nat
         /\ \A c \in Callers : begun[c] \in Nat /\ LastNo(c) \in Nat
         /\ Len(Q) \in Nat
<1>1. \A i \in 1 .. Len(Q) : Q[i] \in Functor
  BY ElementOfSeq DEF TypeOK, Q
<1>2. Len(Q) \in Nat
  BY LenProperties DEF TypeOK, Q
<1>3. \A i \in 1 .. Len(Q) : Q[i].by \in Callers /\ Q[i].no \in Nat
  BY <1>1, FunctorType
<1>4. \A t \in Threads : running[t] # NoCall =>
        running[t] \in Functor /\ running[t].by \in Callers /\ running[t].no \in Nat
  BY FunctorType DEF TypeOK
<1>5. \A c \in Callers : begun[c] \in Nat /\ LastNo(c) \in Nat
  <2>1. \A c \in Callers : begun[c] \in Nat
    BY DEF TypeOK
  <2>2. \A c \in Callers : LastNo(c) \in Nat
    BY LastType
  <2> QED BY <2>1, <2>2
<1> QED BY <1>1, <1>2, <1>3, <1>4, <1>5

LEMMA CallStep ==
  ASSUME IInv, NEW c \in Callers, Call(c)
  PROVE  Rest'
<1> USE DEF Q
<1>1. /\ at[c] = "idle" /\ UNCHANGED <<externalCalls, loop, running, waking, sem, result, begun>>
      /\ \A d \in Callers \ {c} : call'[d] = call[d] /\ at'[d] = at[d]
  BY DEF Call, IInv, TypeOK
<1>2. PICK kind \in {"async", "synced", "stop"} :
        /\ call'[c] = [by |-> c, no |-> IF call[c] = NoCall THEN 1 ELSE call[c].no + 1, kind |-> kind]
        /\ call'[c] \in Functor
        /\ at'[c] \in {"put", AfterCall(kind)}
  <2>1. TypeOK'
    BY Types DEF Next
  <2>2. PICK kind \in {"async", "synced", "stop"} :
          /\ NewFunctor(c, kind).no <= MaxCalls
          /\ call' = [call EXCEPT ![c] = NewFunctor(c, kind)]
          /\ at' \in {[at EXCEPT ![c] = "put"], [at EXCEPT ![c] = AfterCall(kind)]}
    BY DEF Call
  <2>3. call'[c] = [by |-> c, no |-> IF call[c] = NoCall THEN 1 ELSE call[c].no + 1, kind |-> kind]
    BY <2>2 DEF IInv, TypeOK, NewFunctor
  <2>4. call'[c].by = c
    BY <2>3
  <2>5. at'[c] \in {"put", AfterCall(kind)}
    BY <2>2 DEF IInv, TypeOK
  <2>6. call'[c] \in Functor
    <3>1. call[c] # NoCall => call[c] \in Functor /\ call[c].no \in Nat
      BY FunctorType DEF IInv, TypeOK
    <3>2. (IF call[c] = NoCall THEN 1 ELSE call[c].no + 1) \in 1 .. MaxCalls
      BY <2>2, <3>1, PoolAssumption DEF NewFunctor
    <3> QED BY <2>3, <3>2 DEF Functor
  <2> QED BY <2>3, <2>5, <2>6
<1>3. /\ call'[c] # NoCall /\ call'[c].by = c /\ call'[c].kind = kind
      /\ LastNo(c)' = LastNo(c) + 1 /\ LastNo(c) \in Nat
  BY <1>2, FunctorType, Held DEF LastNo, IInv
<1>4. \A d \in Callers \ {c} : LastNo(d)' = LastNo(d)
  BY <1>1 DEF LastNo
<1>5. InOrder'
  <2> SUFFICES ASSUME NEW i \in 1 .. Len(Q)
               PROVE  /\ Q[i].no <= LastNo(Q[i].by)'
                      /\ at'[Q[i].by] = "put" => Q[i].no < LastNo(Q[i].by)'
    BY <1>1 DEF InOrder, IInv
  <2>1. Q[i].by \in Callers /\ Q[i].no \in Nat /\ Q[i].no <= LastNo(Q[i].by)
    BY Held DEF IInv, InOrder
  <2> QED BY <1>1, <1>3, <1>4, <2>1 DEF IInv, InOrder
<1>6. RunsOnce'
  BY <1>1 DEF IInv, RunsOnce
<1>7. FrameLives'
  <2>1. FrameOutlivesCall'
    BY <1>1, Waits, Held DEF IInv, FrameLives, FrameOutlivesCall
  <2>2. RunningFrameLives'
    BY <1>1, Waits, Held DEF IInv, FrameLives, RunningFrameLives
  <2> QED BY <2>1, <2>2 DEF FrameLives
<1>8. CallerKnows(c)'
  <2>1. ~sem[c] /\ begun[c] <= LastNo(c) /\ begun[c] \in Nat
    BY <1>1, Held DEF IInv, CallerKnows
  <2>2. at'[c] \in {"put", "idle", "acquire", "join"} /\ (at'[c] = "acquire" => kind = "synced")
    BY <1>2 DEF AfterCall
  <2> QED BY <1>1, <1>3, <2>1, <2>2 DEF CallerKnows
<1>9. \A d \in Callers \ {c} : CallerKnows(d)'
  BY <1>1, <1>4 DEF IInv, CallerKnows
<1>10. \A t \in Threads : ThreadKnows(t)'
  BY <1>1 DEF IInv, ThreadKnows
<1> QED BY <1>5, <1>6, <1>7, <1>8, <1>9, <1>10 DEF Rest

LEMMA PutStep ==
  ASSUME IInv, NEW c \in Callers, Put(c)
  PROVE  Rest'
<1>1. /\ at[c] = "put" /\ at'[c] = "wake" /\ externalCalls' = Append(externalCalls, call[c])
      /\ waking'[c] = 0 /\ UNCHANGED <<loop, running, call, sem, result, begun>>
      /\ \A d \in Callers \ {c} : at'[d] = at[d] /\ waking'[d] = waking[d]
  BY DEF Put, Queued, IInv, TypeOK
<1>2. /\ call[c] \in Functor /\ call[c] # NoCall /\ call[c].by = c /\ ~sem[c]
      /\ call[c].no = LastNo(c) /\ begun[c] < LastNo(c) /\ LastNo(c) \in Nat
  BY <1>1, LastType DEF IInv, CallerKnows, LastNo
<1>3. /\ Len(Q') = Len(Q) + 1 /\ Len(Q) \in Nat /\ Q'[Len(Q) + 1] = call[c]
      /\ \A i \in 1 .. Len(Q) : Q'[i] = Q[i]
  BY <1>1, <1>2, Put1 DEF IInv, TypeOK, Q
<1>4. \A d \in Callers : LastNo(d)' = LastNo(d)
  BY <1>1 DEF LastNo
<1>5. InOrder'
  <2>1. \A i \in 1 .. Len(Q) : Q[i].by = c => Q[i].no < call[c].no
    BY <1>1, <1>2 DEF IInv, InOrder
  <2>2. \A i, j \in 1 .. Len(Q') : i < j /\ Q'[i].by = Q'[j].by => Q'[i].no < Q'[j].no
    <3> SUFFICES ASSUME NEW i \in 1 .. Len(Q) + 1, NEW j \in 1 .. Len(Q) + 1,
                        i < j, Q'[i].by = Q'[j].by
                 PROVE  Q'[i].no < Q'[j].no
      BY <1>3
    <3>1. i \in 1 .. Len(Q) /\ Q'[i] = Q[i]
      BY <1>3
    <3>2. CASE j = Len(Q) + 1
      BY <1>2, <1>3, <2>1, <3>1, <3>2
    <3>3. CASE j # Len(Q) + 1
      <4>1. j \in 1 .. Len(Q) /\ Q'[j] = Q[j]
        BY <1>3, <3>3
      <4> QED BY <3>1, <4>1 DEF IInv, InOrder
    <3> QED BY <3>2, <3>3
  <2>3. \A i \in 1 .. Len(Q') : begun[Q'[i].by] < Q'[i].no /\ Q'[i].no <= LastNo(Q'[i].by)
    BY <1>2, <1>3 DEF IInv, InOrder
  <2>4. \A i \in 1 .. Len(Q') : Q'[i].by \in Callers
    BY <1>2, <1>3, Held DEF IInv
  <2>5. \A i \in 1 .. Len(Q') : at'[Q'[i].by] = "put" => Q'[i].no < LastNo(Q'[i].by)
    BY <1>1, <1>2, <1>3, <2>4 DEF IInv, InOrder
  <2> QED BY <1>1, <1>4, <2>2, <2>3, <2>4, <2>5 DEF InOrder
<1>6. RunsOnce'
  BY <1>1 DEF IInv, RunsOnce
<1>7. FrameLives'
  <2>1. \A i \in 1 .. Len(Q) : Q[i].kind = "synced" =>
          Q[i].by \in Callers /\ Q[i].by # c /\ call[Q[i].by] = Q[i]
          /\ at[Q[i].by] \in {"wake", "acquire"} /\ ~sem[Q[i].by]
    BY <1>1, Waits, Held DEF IInv, FrameLives, FrameOutlivesCall, Q
  <2>2. \A i \in 1 .. Len(Q') : Q'[i].kind = "synced" =>
          call'[Q'[i].by] = Q'[i] /\ at'[Q'[i].by] \in {"wake", "acquire"} /\ ~sem'[Q'[i].by]
    BY <1>1, <1>2, <1>3, <2>1
  <2>3. FrameOutlivesCall'
    BY <2>2 DEF FrameOutlivesCall, Q
  <2>4. RunningFrameLives'
    BY <1>1, Waits, Held DEF IInv, FrameLives, RunningFrameLives
  <2> QED BY <2>3, <2>4 DEF FrameLives
<1>8. \A d \in Callers : CallerKnows(d)'
  BY <1>1, <1>2, <1>4, PoolAssumption DEF IInv, CallerKnows
<1>9. \A t \in Threads : ThreadKnows(t)'
  BY <1>1 DEF IInv, ThreadKnows
<1> QED BY <1>5, <1>6, <1>7, <1>8, <1>9 DEF Rest

(* A caller that wakes threads: the queue has its call already. *)
LEMMA WakeStep ==
  ASSUME IInv, NEW c \in Callers, Wake(c)
  PROVE  Rest'
<1>1. /\ at[c] = "wake" /\ waking'[c] = waking[c] + 1
      /\ UNCHANGED <<externalCalls, loop, running, call, sem, result, begun>>
      /\ \A d \in Callers \ {c} : at'[d] = at[d] /\ waking'[d] = waking[d]
      /\ \/ at'[c] = "wake" /\ waking[c] + 1 < ThreadCount
         \/ at'[c] = AfterCall(call[c].kind)
  BY DEF Wake, IInv, TypeOK
<1>2. /\ call[c] \in Functor /\ call[c] # NoCall /\ call[c].kind \in {"async", "synced", "stop"}
      /\ sem[c] => call[c].kind = "synced"
  BY <1>1, LastType, FunctorType DEF IInv, CallerKnows
<1>3. /\ at'[c] \in {"wake", "idle", "acquire", "join"}
      /\ call[c].kind = "synced" => at'[c] \in {"wake", "acquire"}
      /\ at'[c] = "acquire" => call[c].kind = "synced"
  BY <1>1, <1>2 DEF AfterCall
<1>4. \A d \in Callers : LastNo(d)' = LastNo(d)
  BY <1>1 DEF LastNo
<1>5. InOrder'
  <2>1. \A i \in 1 .. Len(Q) : at'[Q[i].by] = "put" => at[Q[i].by] = "put"
    BY <1>1, <1>3, Held DEF IInv
  <2>2. UNCHANGED <<Q, begun>>
    BY <1>1 DEF Q
  <2> QED BY <1>4, <2>1, <2>2, Held DEF IInv, InOrder
<1>6. RunsOnce'
  BY <1>1 DEF IInv, RunsOnce
<1>7. FrameLives'
  <2>1. FrameOutlivesCall'
    BY <1>1, <1>3, Held DEF IInv, FrameLives, FrameOutlivesCall, Q
  <2>2. RunningFrameLives'
    BY <1>1, <1>3, Held DEF IInv, FrameLives, RunningFrameLives
  <2> QED BY <2>1, <2>2 DEF FrameLives
<1>8. CallerKnows(c)'
  <2>1. /\ call[c].by = c /\ begun[c] <= LastNo(c)
        /\ sem[c] => result[c] = call[c].no
    BY <1>2 DEF IInv, CallerKnows
  <2>2. at'[c] = "wake" => waking'[c] < ThreadCount
    BY <1>1, <1>2 DEF AfterCall
  <2> QED BY <1>1, <1>2, <1>3, <1>4, <2>1, <2>2 DEF CallerKnows
<1>9. \A d \in Callers \ {c} : CallerKnows(d)'
  BY <1>1, <1>4 DEF IInv, CallerKnows
<1>10. \A t \in Threads : ThreadKnows(t)'
  BY <1>1 DEF IInv, ThreadKnows
<1> QED BY <1>5, <1>6, <1>7, <1>8, <1>9, <1>10 DEF Rest

(* A caller whose call has ended goes on. *)
LEMMA ReturnStep ==
  ASSUME IInv, NEW c \in Callers, Acquire(c) \/ Join(c)
  PROVE  Rest'
<1>1. /\ at[c] \in {"acquire", "join"} /\ at'[c] = "idle" /\ ~sem'[c]
      /\ at[c] = "acquire" => sem[c]
      /\ UNCHANGED <<externalCalls, loop, running, call, waking, begun>>
      /\ \A d \in Callers \ {c} : at'[d] = at[d] /\ sem'[d] = sem[d] /\ result'[d] = result[d]
  BY DEF Acquire, Join, IInv, TypeOK, CallerKnows
<1>2. /\ \A i \in 1 .. Len(Q) : Q[i].by = c => Q[i].kind # "synced"
      /\ \A t \in Threads : running[t] # NoCall /\ running[t].by = c => running[t].kind # "synced"
  BY <1>1, Waits
<1>3. \A d \in Callers : LastNo(d)' = LastNo(d)
  BY <1>1 DEF LastNo
<1>4. InOrder'
  <2>1. \A i \in 1 .. Len(Q) : at'[Q[i].by] = "put" => at[Q[i].by] = "put"
    BY <1>1, Held DEF IInv
  <2>2. UNCHANGED <<Q, begun>>
    BY <1>1 DEF Q
  <2> QED BY <1>3, <2>1, <2>2, Held DEF IInv, InOrder
<1>5. RunsOnce'
  BY <1>1 DEF IInv, RunsOnce
<1>6. FrameLives'
  <2>1. FrameOutlivesCall'
    BY <1>1, <1>2, Held DEF IInv, FrameLives, FrameOutlivesCall, Q
  <2>2. RunningFrameLives'
    BY <1>1, <1>2, Held DEF IInv, FrameLives, RunningFrameLives
  <2> QED BY <2>1, <2>2 DEF FrameLives
<1>7. \A d \in Callers : CallerKnows(d)'
  BY <1>1, <1>3 DEF IInv, CallerKnows
<1>8. \A t \in Threads : ThreadKnows(t)'
  BY <1>1 DEF IInv, ThreadKnows
<1> QED BY <1>4, <1>5, <1>6, <1>7, <1>8 DEF Rest

(* A thread takes the first call: it has not begun anywhere. *)
LEMMA TakenStep ==
  ASSUME IInv, NEW t \in Threads, loop[t] = "take", externalCalls # <<>>,
         Taken(t, Tail(externalCalls)), UNCHANGED <<at, call, waking, sem, result>>
  PROVE  Rest'
<1> DEFINE f == Q[1]
<1>1. /\ f \in Functor /\ f = Head(externalCalls) /\ Len(Q) \in Nat \ {0} /\ f.by \in Callers
      /\ f.no \in Nat /\ f # NoCall
  BY Take1, FunctorType DEF IInv, TypeOK, Q
<1>2. /\ running' = [running EXCEPT ![t] = f] /\ begun' = [begun EXCEPT ![f.by] = f.no]
      /\ loop' = [loop EXCEPT ![t] = "run"] /\ Q' = Tail(Q)
  BY <1>1 DEF Taken, Q
<1>3. /\ Len(Q') = Len(Q) - 1
      /\ \A i \in 1 .. Len(Q) - 1 : Q'[i] = Q[i + 1]
  BY <1>2, Take1 DEF IInv, TypeOK, Q
<1>4. /\ running'[t] = f /\ \A s \in Threads \ {t} : running'[s] = running[s]
      /\ begun'[f.by] = f.no /\ \A c \in Callers \ {f.by} : begun'[c] = begun[c]
      /\ loop'[t] = "run" /\ \A s \in Threads \ {t} : loop'[s] = loop[s]
  BY <1>1, <1>2 DEF IInv, TypeOK
<1>5. begun[f.by] < f.no /\ f.no <= LastNo(f.by) /\ (at[f.by] = "put" => f.no < LastNo(f.by))
  BY <1>1 DEF IInv, InOrder
<1>6. \A c \in Callers : LastNo(c)' = LastNo(c)
  BY DEF LastNo
<1>7. InOrder'
  <2>1. \A i \in 1 .. Len(Q) - 1 :
          /\ i + 1 \in 1 .. Len(Q) /\ 1 < i + 1
          /\ Q[i + 1].by \in Callers /\ Q[i + 1].no \in Nat
    BY <1>1, Held DEF IInv
  <2>2. \A i \in 1 .. Len(Q) - 1 : begun'[Q[i + 1].by] < Q[i + 1].no
    <3> SUFFICES ASSUME NEW i \in 1 .. Len(Q) - 1 PROVE begun'[Q[i + 1].by] < Q[i + 1].no
      OBVIOUS
    <3>1. CASE Q[i + 1].by = f.by
      BY <1>1, <1>4, <2>1, <3>1 DEF IInv, InOrder
    <3>2. CASE Q[i + 1].by # f.by
      BY <1>4, <2>1, <3>2 DEF IInv, InOrder
    <3> QED BY <3>1, <3>2
  <2>3. \A i, j \in 1 .. Len(Q) - 1 : i < j /\ Q[i + 1].by = Q[j + 1].by => Q[i + 1].no < Q[j + 1].no
    BY <1>1, <2>1 DEF IInv, InOrder
  <2>4. \A i \in 1 .. Len(Q) - 1 :
          /\ Q[i + 1].no <= LastNo(Q[i + 1].by)
          /\ at[Q[i + 1].by] = "put" => Q[i + 1].no < LastNo(Q[i + 1].by)
    BY <2>1 DEF IInv, InOrder
  <2>5. \A i, j \in 1 .. Len(Q') : i < j /\ Q'[i].by = Q'[j].by => Q'[i].no < Q'[j].no
    BY <1>3, <2>3
  <2>6. \A i \in 1 .. Len(Q') : begun'[Q'[i].by] < Q'[i].no /\ Q'[i].no <= LastNo(Q'[i].by)
    BY <1>3, <2>2, <2>4
  <2>7. \A i \in 1 .. Len(Q') : at[Q'[i].by] = "put" => Q'[i].no < LastNo(Q'[i].by)
    BY <1>3, <2>4
  <2> QED BY <2>5, <2>6, <2>7 DEF InOrder, LastNo
<1>8. RunsOnce'
  <2>1. \A s \in Threads : running[s] # NoCall => running[s] # f
    BY <1>1, <1>5, Held DEF IInv, RunsOnce
  <2>2. \A s \in Threads : running'[s] # NoCall => running'[s].no <= begun'[running'[s].by]
    <3> SUFFICES ASSUME NEW s \in Threads, running'[s] # NoCall
                 PROVE  running'[s].no <= begun'[running'[s].by]
      OBVIOUS
    <3>1. CASE s = t
      BY <1>1, <1>4, <3>1
    <3>2. CASE s # t
      <4>1. /\ running'[s] = running[s] /\ running[s].by \in Callers /\ running[s].no \in Nat
            /\ running[s].no <= begun[running[s].by] /\ begun[running[s].by] \in Nat
        BY <1>4, <3>2, Held DEF IInv, RunsOnce
      <4>2. CASE running[s].by = f.by
        BY <1>1, <1>4, <1>5, <4>1, <4>2
      <4>3. CASE running[s].by # f.by
        BY <1>4, <4>1, <4>3
      <4> QED BY <4>2, <4>3
    <3> QED BY <3>1, <3>2
  <2>3. \A r, s \in Threads : running'[r] = running'[s] /\ running'[r] # NoCall => r = s
    BY <1>4, <2>1 DEF IInv, RunsOnce
  <2> QED BY <2>2, <2>3 DEF RunsOnce
<1>9. FrameLives'
  <2>1. FrameOutlivesCall'
    <3> SUFFICES ASSUME NEW i \in 1 .. Len(Q) - 1, Q[i + 1].kind = "synced"
                 PROVE  /\ call[Q[i + 1].by] = Q[i + 1] /\ at[Q[i + 1].by] \in {"wake", "acquire"}
                        /\ ~sem[Q[i + 1].by]
      BY <1>3 DEF FrameOutlivesCall, Q
    <3>1. i + 1 \in 1 .. Len(Q)
      BY <1>1
    <3> QED BY <3>1 DEF IInv, FrameLives, FrameOutlivesCall, Q
  <2>2. f.kind = "synced" => call[f.by] = f /\ at[f.by] \in {"wake", "acquire"} /\ ~sem[f.by]
    BY <1>1 DEF IInv, FrameLives, FrameOutlivesCall, Q
  <2>3. RunningFrameLives'
    BY <1>4, <2>2 DEF IInv, FrameLives, RunningFrameLives
  <2> QED BY <2>1, <2>3 DEF FrameLives
<1>10. \A c \in Callers : CallerKnows(c)'
  <2> SUFFICES ASSUME NEW c \in Callers PROVE CallerKnows(c)'
    OBVIOUS
  <2>1. begun'[c] <= LastNo(c) /\ (at[c] = "put" => begun'[c] < LastNo(c))
    BY <1>4, <1>5 DEF IInv, CallerKnows
  <2> QED BY <1>6, <2>1 DEF IInv, CallerKnows
<1>11. \A s \in Threads : ThreadKnows(s)'
  BY <1>1, <1>4 DEF IInv, ThreadKnows
<1> QED BY <1>7, <1>8, <1>9, <1>10, <1>11 DEF Rest

(* A functor returns; a synced one releases the semaphore of its caller, *)
(* whose frame holds no other. *)
LEMMA FinishStep ==
  ASSUME IInv, NEW t \in Threads, Finish(t)
  PROVE  Rest'
<1> DEFINE f == running[t]
<1>1. /\ f # NoCall /\ f \in Functor /\ f.by \in Callers /\ f.no \in Nat
      /\ f.no <= begun[f.by]
  BY Held DEF Finish, Returns, IInv, ThreadKnows, RunsOnce
<1>2. /\ running'[t] = NoCall /\ \A s \in Threads \ {t} : running'[s] = running[s]
      /\ loop'[t] = "take" /\ \A s \in Threads \ {t} : loop'[s] = loop[s]
      /\ UNCHANGED <<externalCalls, at, call, waking, begun>>
      /\ \A c \in Callers : sem'[c] # sem[c] => c = f.by /\ f.kind = "synced"
      /\ \A c \in Callers : IF f.kind = "synced" /\ c = f.by THEN result'[c] = f.no
                            ELSE result'[c] = result[c] /\ sem'[c] = sem[c]
  BY DEF Finish, Returns, WriteResult, Release, calling, IInv, TypeOK
<1>3. \A c \in Callers : LastNo(c)' = LastNo(c)
  BY <1>2 DEF LastNo
<1>4. InOrder'
  BY <1>2, <1>3, Held DEF IInv, InOrder, Q
<1>5. RunsOnce'
  BY <1>2 DEF IInv, RunsOnce
<1>6. f.kind = "synced" => call[f.by] = f /\ at[f.by] \in {"wake", "acquire"}
  BY <1>1 DEF IInv, FrameLives, RunningFrameLives
<1>7. FrameLives'
  <2>1. \A i \in 1 .. Len(Q) : Q[i] # f
    BY <1>1, Held DEF IInv, InOrder
  <2>2. \A i \in 1 .. Len(Q) : Q[i].kind = "synced" => sem'[Q[i].by] = sem[Q[i].by]
    BY <1>2, <1>6, <2>1, Held DEF IInv, FrameLives, FrameOutlivesCall, Q
  <2>3. FrameOutlivesCall'
    BY <1>2, <2>2 DEF IInv, FrameLives, FrameOutlivesCall, Q
  <2>4. \A s \in Threads \ {t} : running[s] # NoCall /\ running[s].kind = "synced" =>
          sem'[running[s].by] = sem[running[s].by]
    <3>1. \A s \in Threads \ {t} : running[s] # NoCall => running[s] # f
      BY <1>1 DEF IInv, RunsOnce
    <3> QED BY <1>2, <1>6, <3>1, Held DEF IInv, FrameLives, RunningFrameLives
  <2>5. RunningFrameLives'
    BY <1>2, <2>4 DEF IInv, FrameLives, RunningFrameLives
  <2> QED BY <2>3, <2>5 DEF FrameLives
<1>8. \A c \in Callers : CallerKnows(c)'
  BY <1>2, <1>3, <1>6 DEF IInv, CallerKnows
<1>9. \A s \in Threads : ThreadKnows(s)'
  BY <1>2 DEF IInv, ThreadKnows
<1> QED BY <1>4, <1>5, <1>7, <1>8, <1>9 DEF Rest

(****************************************)
(* The theorems *)
(****************************************)

LEMMA Initially == ASSUME Init PROVE IInv
<1>1. TypeOK
  BY EmptySeq, PoolAssumption DEF Init, TypeOK
<1>2. Len(Q) = 0
  BY EmptySeq DEF Init, Q
<1>3. InOrder /\ RunsOnce /\ FrameLives
  BY <1>2 DEF Init, InOrder, RunsOnce, FrameLives, FrameOutlivesCall, RunningFrameLives, Q
<1>4. \A c \in Callers : CallerKnows(c)
  <2> SUFFICES ASSUME NEW c \in Callers PROVE CallerKnows(c)
    OBVIOUS
  <2>1. call[c] = NoCall /\ at[c] = "idle" /\ begun[c] = 0 /\ ~sem[c]
    BY DEF Init
  <2> QED BY <2>1 DEF CallerKnows, LastNo
<1>5. \A t \in Threads : ThreadKnows(t)
  BY DEF Init, ThreadKnows
<1> QED BY <1>1, <1>3, <1>4, <1>5 DEF IInv

LEMMA Step == ASSUME IInv, [Next]_vars PROVE IInv'
<1>1. TypeOK'
  BY Types
<1>2. CASE UNCHANGED vars
  BY <1>1, <1>2, QuietStep DEF vars, calling, IInv, Rest
<1>3. ASSUME NEW c \in Callers, Call(c) \/ Proceed(c) PROVE Rest'
  BY <1>3, CallStep, PutStep, WakeStep, ReturnStep DEF Proceed
<1>4. ASSUME NEW t \in Threads, Work(t) PROVE Rest'
  <2>1. CASE Async(t) \/ WokeUp(t) \/ StopLoop(t) \/ Leave(t)
    <3>1. \A s \in Threads : loop'[s] = "run" <=> loop[s] = "run"
      BY <2>1 DEF Async, WokeUp, StopLoop, Leave, IInv, TypeOK
    <3>2. UNCHANGED <<externalCalls, running, begun, at, call, waking, sem, result>>
      BY <2>1 DEF Async, WokeUp, StopLoop, Leave, calling
    <3> QED BY <3>1, <3>2, QuietStep
  <2>2. CASE Take(t)
    <3>1. CASE NoneLeft(t)
      <4>1. \A s \in Threads : loop'[s] = "run" <=> loop[s] = "run"
        BY <2>2, <3>1 DEF Take, NoneLeft, IInv, TypeOK
      <4> QED BY <2>2, <3>1, <4>1, QuietStep DEF Take, NoneLeft, calling
    <3>2. CASE externalCalls # <<>> /\ Taken(t, Tail(externalCalls))
      BY <2>2, <3>2, TakenStep DEF Take, calling
    <3> QED BY <2>2, <3>1, <3>2 DEF Take
  <2>3. CASE Finish(t)
    BY <2>3, FinishStep
  <2> QED BY <1>4, <2>1, <2>2, <2>3 DEF Work
<1>5. CASE End
  <2>1. \A s \in Threads : loop'[s] = "run" <=> loop[s] = "run"
    BY <1>5 DEF End, IInv, TypeOK
  <2> QED BY <1>1, <1>5, <2>1, QuietStep DEF End, calling, IInv, Rest
<1> QED BY <1>1, <1>2, <1>3, <1>4, <1>5 DEF Next, IInv, Rest

LEMMA Invariance == Spec => []IInv
<1>1. Init => IInv
  BY Initially
<1>2. IInv /\ [Next]_vars => IInv'
  BY Step
<1> QED BY <1>1, <1>2, PTL DEF Spec

(* The queue never holds more than it may, for any number of callers. *)
THEOREM TypeCorrect == Spec => []TypeOK
<1>1. IInv => TypeOK
  BY DEF IInv
<1> QED BY <1>1, Invariance, PTL

(* No functor waits twice, runs on two threads, or runs while it waits: it *)
(* is run once and deleted once, whichever threads of the pool take calls. *)
THEOREM RunByOneHolds == Spec => []RunByOne
<1>1. IInv => RunByOne
  <2> SUFFICES ASSUME IInv PROVE RunByOne
    OBVIOUS
  <2>1. \A i, j \in 1 .. Len(externalCalls) : externalCalls[i] = externalCalls[j] => i = j
    <3> SUFFICES ASSUME NEW i \in 1 .. Len(Q), NEW j \in 1 .. Len(Q), Q[i] = Q[j], i < j
                 PROVE  FALSE
      BY Held DEF IInv, Q
    <3> QED BY Held DEF IInv, InOrder
  <2>2. \A t \in Threads : running[t] # NoCall => ~InQueue(running[t])
    BY Held DEF IInv, InOrder, RunsOnce, InQueue, Q
  <2> QED BY <2>1, <2>2 DEF RunByOne, IInv, RunsOnce
<1> QED BY <1>1, Invariance, PTL

(* A synced caller stays in its call while the functor that refers to its *)
(* frame waits or runs. *)
THEOREM FrameLivesHolds == Spec => []FrameLives
<1>1. IInv => FrameLives
  BY DEF IInv
<1> QED BY <1>1, Invariance, PTL

(* Whatever the threads and the callers, a call is run once, and the frame *)
(* of its caller lives as long as it may be run; a synced caller goes on *)
(* with what its own call has returned. *)
THEOREM CallsSafeHolds == Spec => []CallsSafe
<1>1. IInv => OwnResult
  BY DEF IInv, OwnResult, CallerKnows
<1> QED BY <1>1, Invariance, RunByOneHolds, FrameLivesHolds, PTL DEF CallsSafe

(* Calls of one caller begin in the order in which they were made. *)
THEOREM BegunInOrderHolds == Spec => BegunInOrder
<1>1. IInv /\ [Next]_vars => [\A c \in Callers : begun'[c] # begun[c] => begun'[c] > begun[c]]_vars
  <2> SUFFICES ASSUME IInv, Next, NEW c \in Callers, begun'[c] # begun[c]
               PROVE  begun'[c] > begun[c]
    OBVIOUS
  <2>1. PICK t \in Threads : Take(t) /\ externalCalls # <<>> /\ Taken(t, Tail(externalCalls))
    BY DEF Next, Proceed, Work, Call, Put, Queued, Wake, Acquire, Join, Async, WokeUp, Take,
           NoneLeft, Finish, Returns, StopLoop, Leave, End, calling
  <2>2. /\ Head(externalCalls) = Q[1] /\ Len(Q) \in Nat \ {0} /\ Q[1] \in Functor
        /\ Q[1].by \in Callers /\ Q[1].no \in Nat
    BY <2>1, Take1, FunctorType DEF IInv, TypeOK, Q
  <2>3. begun' = [begun EXCEPT ![Q[1].by] = Q[1].no]
    BY <2>1, <2>2 DEF Taken
  <2>4. c = Q[1].by /\ begun'[c] = Q[1].no
    BY <2>2, <2>3 DEF IInv, TypeOK
  <2>5. begun[c] \in Nat /\ begun[Q[1].by] < Q[1].no
    BY <2>2, Held DEF IInv, InOrder
  <2> QED BY <2>2, <2>4, <2>5
<1> QED BY <1>1, Invariance, PTL DEF Spec, BegunInOrder
========================================
