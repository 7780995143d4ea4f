---------------------------- MODULE ThreadVerify ----------------------------
(***************************************************************************)
(* cflib::util::ThreadVerify with a pool of libev threads                  *)
(* (util/threadverify.cpp, util/impl/threadverifyimpl.cpp): other threads  *)
(* queue functors, every thread of the pool is woken and takes what it     *)
(* finds; a synced caller waits on a semaphore in its own stack frame; a   *)
(* shutdown call breaks the loops.  Thread 0 is the                        *)
(* ThreadHolderWorkerPool itself, the others are its Workers; with one     *)
(* thread it is the Net thread of a TCPManager.  The queue is the sequence *)
(* of calls that ThreadFifo keeps.                                         *)
(***************************************************************************)
EXTENDS Integers, Sequences

CONSTANTS
  Callers,      \* threads that call into the pool
  ThreadCount,  \* threads of the pool
  QueueSize,    \* capacity of externalCalls_ (1024 in the code)
  MaxCalls,     \* calls that one caller makes
  NoCall        \* "no functor"

Threads == 0 .. ThreadCount - 1

(* verifyThreadCall, verifySyncedThreadCall and shutdownThread *)
Functor == [by: Callers, no: 1 .. MaxCalls, kind: {"async", "synced", "stop"}]

ASSUME PoolAssumption ==
  /\ ThreadCount \in Nat \ {0} /\ QueueSize \in Nat \ {0} /\ MaxCalls \in Nat
  /\ NoCall \notin Functor

VARIABLES
  externalCalls,  \* the queue
  sent,           \* the wakeup watcher of a thread was sent and has not yet fired
  stopLoop,       \* stopLoop_ of a thread
  loop,           \* where a thread is
  running,        \* the functor a thread runs
  stage,          \* how far the stopLoop() that a thread runs has come
  isActive,       \* isActive_ of thread 0
  at,             \* where a caller is
  call,           \* the last call of a caller
  waking,         \* the next thread a caller wakes
  sem,            \* a caller's semaphore was released
  result,         \* the call that has written to the frame of a caller's call; 0: none
  begun           \* history: the number of the last call begun, of a caller

calling == <<at, call, waking>>
vars == <<externalCalls, sent, stopLoop, loop, running, stage, isActive,
          calling, sem, result, begun>>

Init ==
  /\ externalCalls = <<>>
  /\ sent     = [t \in Threads |-> FALSE]
  /\ stopLoop = [t \in Threads |-> FALSE]
  /\ loop     = [t \in Threads |-> "wait"]
  /\ running  = [t \in Threads |-> NoCall]
  /\ stage    = [t \in Threads |-> 0]
  /\ isActive = TRUE
  /\ at     = [c \in Callers |-> "idle"]
  /\ call   = [c \in Callers |-> NoCall]
  /\ waking = [c \in Callers |-> 0]
  /\ sem    = [c \in Callers |-> FALSE]
  /\ result = [c \in Callers |-> 0]
  /\ begun  = [c \in Callers |-> 0]

----------------------------------------
(* A caller. *)

(* Where a caller goes after execCall. *)
AfterCall(kind) ==
  CASE kind = "async" -> "idle" [] kind = "synced" -> "acquire" [] kind = "stop" -> "join"

(* A functor has copies of the arguments, but for a synced call references *)
(* to those of the caller; whatever their number, it is made in one way.   *)
NewFunctor(c, kind) ==
  [by |-> c, no |-> IF call[c] = NoCall THEN 1 ELSE call[c].no + 1, kind |-> kind]

(* execCall looks at isActive_, which thread 0 writes without a lock: after *)
(* it was cleared the caller may still see the old value.                   *)
Call(c) ==
  /\ at[c] = "idle"
  /\ \E kind \in {"async", "synced", "stop"} :
       /\ NewFunctor(c, kind).no <= MaxCalls
       /\ kind = "stop" => loop[0] # "ended"
       /\ call' = [call EXCEPT ![c] = NewFunctor(c, kind)]
       /\ \/ at' = [at EXCEPT ![c] = "put"]
          \/ ~isActive /\ at' = [at EXCEPT ![c] = AfterCall(kind)]
  /\ UNCHANGED <<externalCalls, sent, stopLoop, loop, running, stage, isActive,
                 waking, sem, result, begun>>

Queued(c, calls, next) ==
  /\ at[c] = "put"
  /\ externalCalls' = calls
  /\ at' = [at EXCEPT ![c] = next]
  /\ waking' = [waking EXCEPT ![c] = 0]
  /\ UNCHANGED <<sent, stopLoop, loop, running, stage, isActive, call, sem, result, begun>>

\* Mutant: the newest call comes first.
PutFront(c) ==
  /\ Len(externalCalls) < QueueSize
  /\ Queued(c, <<call[c]>> \o externalCalls, "wake")

\* Mutant: nobody is woken.
PutSilent(c) ==
  /\ Len(externalCalls) < QueueSize
  /\ Queued(c, Append(externalCalls, call[c]), AfterCall(call[c].kind))

(* ThreadFifo::put; while the queue is full, execCall sleeps and tries again *)
Put(c) ==
  /\ Len(externalCalls) < QueueSize
  /\ Queued(c, Append(externalCalls, call[c]), "wake")

(* doCall wakes every thread of the pool, one after the other. *)
Wake(c) ==
  LET next == waking[c] + 1 IN
  /\ at[c] = "wake"
  /\ sent' = [sent EXCEPT ![waking[c]] = TRUE]
  /\ waking' = [waking EXCEPT ![c] = next]
  /\ at' = IF next < ThreadCount THEN at
           ELSE [at EXCEPT ![c] = AfterCall(call[c].kind)]
  /\ UNCHANGED <<externalCalls, stopLoop, loop, running, stage, isActive, call,
                 sem, result, begun>>

(* sem.acquire() of a synced call, which then returns: its frame is gone. *)
Acquire(c) ==
  /\ at[c] = "acquire" /\ sem[c]
  /\ sem' = [sem EXCEPT ![c] = FALSE]
  /\ result' = [result EXCEPT ![c] = 0]
  /\ at' = [at EXCEPT ![c] = "idle"]
  /\ UNCHANGED <<externalCalls, sent, stopLoop, loop, running, stage, isActive,
                 call, waking, begun>>

(* verifyThread_->wait() of stopVerifyThread *)
Join(c) ==
  /\ at[c] = "join" /\ loop[0] = "ended"
  /\ at' = [at EXCEPT ![c] = "idle"]
  /\ UNCHANGED <<externalCalls, sent, stopLoop, loop, running, stage, isActive,
                 call, waking, sem, result, begun>>

----------------------------------------
(* A thread of the pool. *)

(* libev clears the watcher's flag before it invokes the callback. *)
Async(t) ==
  /\ loop[t] = "wait" /\ sent[t]
  /\ sent' = [sent EXCEPT ![t] = FALSE]
  /\ loop' = [loop EXCEPT ![t] = "woken"]
  /\ UNCHANGED <<externalCalls, stopLoop, running, stage, isActive, calling, sem, result, begun>>

(* The callback first looks whether the loop is to be left. *)
WokeUp(t) ==
  /\ loop[t] = "woken"
  /\ loop' = [loop EXCEPT ![t] = IF stopLoop[t] THEN "break" ELSE "take"]
  /\ UNCHANGED <<externalCalls, sent, stopLoop, running, stage, isActive, calling,
                 sem, result, begun>>

(* Thread t gets the first call; rest is what the queue keeps. *)
Taken(t, rest) ==
  LET f == Head(externalCalls) IN
  /\ externalCalls' = rest
  /\ running' = [running EXCEPT ![t] = f]
  /\ begun' = [begun EXCEPT ![f.by] = f.no]
  /\ stage' = [stage EXCEPT ![t] = 0]
  /\ loop' = [loop EXCEPT ![t] = "run"]

NoneLeft(t) ==
  /\ externalCalls = <<>>
  /\ loop' = [loop EXCEPT ![t] = "wait"]
  /\ UNCHANGED <<externalCalls, running, begun, stage>>

\* Mutant: the semaphore is released before the functor has run.
TakeReleases(t) ==
  /\ loop[t] = "take"
  /\ externalCalls # <<>> /\ Taken(t, Tail(externalCalls))
  /\ sem' = IF Head(externalCalls).kind = "synced"
              THEN [sem EXCEPT ![Head(externalCalls).by] = TRUE] ELSE sem
  /\ UNCHANGED <<sent, stopLoop, isActive, calling, result>>

(* externalCalls_.take() in the loop of wokeUp *)
Take(t) ==
  /\ loop[t] = "take"
  /\ NoneLeft(t) \/ (externalCalls # <<>> /\ Taken(t, Tail(externalCalls)))
  /\ UNCHANGED <<sent, stopLoop, isActive, calling, sem, result>>

(* The functor returns and is deleted, the thread looks for the next one. *)
Returns(t) ==
  /\ loop[t] = "run"
  /\ running[t].kind = "stop" => stage[t] = 2 * ThreadCount
  /\ running' = [running EXCEPT ![t] = NoCall]
  /\ loop' = [loop EXCEPT ![t] = "take"]
  /\ UNCHANGED <<externalCalls, sent, stopLoop, stage, isActive, calling, begun>>

(* What a synced call returns, by value or by reference, is written to the *)
(* frame of the caller; then the semaphore there is released.              *)
WriteResult(f) == result' = IF f.kind = "synced" THEN [result EXCEPT ![f.by] = f.no] ELSE result
Release(f)     == sem' = IF f.kind = "synced" THEN [sem EXCEPT ![f.by] = TRUE] ELSE sem

Finish(t) == Returns(t) /\ WriteResult(running[t]) /\ Release(running[t])

(* stopLoop() of the shutdown call: for thread after thread, set its flag, *)
(* then wake it.                                                           *)
StopLoop(t) ==
  LET n == stage[t] \div 2 IN
  /\ loop[t] = "run" /\ running[t].kind = "stop" /\ stage[t] < 2 * ThreadCount
  /\ stage' = [stage EXCEPT ![t] = @ + 1]
  /\ IF stage[t] % 2 = 0
       THEN stopLoop' = [stopLoop EXCEPT ![n] = TRUE] /\ UNCHANGED sent
       ELSE sent' = [sent EXCEPT ![n] = TRUE] /\ UNCHANGED stopLoop
  /\ UNCHANGED <<externalCalls, loop, running, isActive, calling, sem, result, begun>>

(* ev_run returns; thread 0 waits for its workers before it ends *)
Leave(t) ==
  /\ loop[t] = "break"
  /\ loop' = [loop EXCEPT ![t] = IF t = 0 THEN "join" ELSE "ended"]
  /\ isActive' = IF t = 0 THEN FALSE ELSE isActive
  /\ UNCHANGED <<externalCalls, sent, stopLoop, running, stage, calling, sem, result, begun>>

End ==
  /\ loop[0] = "join" /\ \A t \in Threads \ {0} : loop[t] = "ended"
  /\ loop' = [loop EXCEPT ![0] = "ended"]
  /\ UNCHANGED <<externalCalls, sent, stopLoop, running, stage, isActive, calling,
                 sem, result, begun>>

----------------------------------------
Proceed(c) == Put(c) \/ Wake(c) \/ Acquire(c) \/ Join(c)
Work(t) == Async(t) \/ WokeUp(t) \/ Take(t) \/ Finish(t) \/ StopLoop(t) \/ Leave(t)

Next == \/ \E c \in Callers : Call(c) \/ Proceed(c)
        \/ \E t \in Threads : Work(t)
        \/ End

Spec == Init /\ [][Next]_vars

(* Every thread is scheduled, every functor returns. *)
Fairness ==
  /\ \A c \in Callers : WF_vars(Proceed(c))
  /\ \A t \in Threads : WF_vars(Work(t))
  /\ WF_vars(End)
FairSpec == Spec /\ Fairness

----------------------------------------
(* Properties *)

TypeOK ==
  /\ externalCalls \in Seq(Functor) /\ Len(externalCalls) <= QueueSize
  /\ sent \in [Threads -> BOOLEAN] /\ stopLoop \in [Threads -> BOOLEAN]
  /\ loop \in [Threads -> {"wait", "woken", "take", "run", "break", "join", "ended"}]
  /\ running \in [Threads -> Functor \cup {NoCall}]
  /\ stage \in [Threads -> 0 .. 2 * ThreadCount]
  /\ isActive \in BOOLEAN
  /\ at \in [Callers -> {"idle", "put", "wake", "acquire", "join"}]
  /\ call \in [Callers -> Functor \cup {NoCall}]
  /\ waking \in [Callers -> 0 .. ThreadCount]
  /\ sem \in [Callers -> BOOLEAN] /\ result \in [Callers -> 0 .. MaxCalls]
  /\ begun \in [Callers -> 0 .. MaxCalls]

InQueue(f) == \E i \in 1 .. Len(externalCalls) : externalCalls[i] = f
Runs(f)    == \E t \in Threads : running[t] = f

(* A functor is run once: it waits in the queue at one place, or one       *)
(* thread runs it, never both (the thread deletes it afterwards).          *)
RunByOne ==
  /\ \A i, j \in 1 .. Len(externalCalls) : externalCalls[i] = externalCalls[j] => i = j
  /\ \A s, t \in Threads : running[s] = running[t] /\ running[s] # NoCall => s = t
  /\ \A t \in Threads : running[t] # NoCall => ~InQueue(running[t])

(* The semaphore and the arguments of a synced call live in the frame of   *)
(* the caller: it does not leave the call while the functor waits or runs. *)
FrameOutlivesCall ==
  \A i \in 1 .. Len(externalCalls) :
    externalCalls[i].kind = "synced" =>
      LET c == externalCalls[i].by
      IN  call[c] = externalCalls[i] /\ at[c] \in {"wake", "acquire"} /\ ~sem[c]
RunningFrameLives ==
  \A t \in Threads :
    running[t] # NoCall /\ running[t].kind = "synced" =>
      LET c == running[t].by
      IN  call[c] = running[t] /\ at[c] \in {"wake", "acquire"} /\ ~sem[c]
FrameLives == FrameOutlivesCall /\ RunningFrameLives

(* A synced caller that goes on has what its own call returned. *)
OwnResult == \A c \in Callers : at[c] = "acquire" /\ sem[c] => result[c] = call[c].no

(* A call is run once, while it may be run what it refers to lives, and    *)
(* its caller goes on with what it returned.                               *)
CallsSafe == RunByOne /\ FrameLives /\ OwnResult

(* The calls of one caller begin in the order they were made, also in a    *)
(* pool of several threads, where they may overlap.                        *)
BegunInOrder ==
  [][\A c \in Callers : begun'[c] # begun[c] => begun'[c] > begun[c]]_vars

(* A synced call returns, and a queued call is begun, unless the pool is   *)
(* stopped: a call that comes after the shutdown call may wait for ever.   *)
(* Once its shutdown call is queued, stopVerifyThread returns.             *)
Stopping == \E t \in Threads : stopLoop[t]
CallsServed ==
  /\ \A c \in Callers : at[c] = "acquire" ~> at[c] # "acquire" \/ Stopping
  /\ externalCalls # <<>> ~> externalCalls = <<>> \/ Stopping
  /\ \A c \in Callers : at[c] = "join" ~> at[c] = "idle"
========================================
