----------------------------- MODULE TimerHeap -----------------------------
(***************************************************************************)
(* The timers of the event loop: the heap of the vendored libev            *)
(* (util/libev/ev.c), with the uses of it in util/evtimer.cpp (EVTimer),   *)
(* util/timer.cpp and ThreadHolderLibEV::execLater (ev_once).  One thread. *)
(* The heap holds a copy of the due time of each timer: EVTimer may change *)
(* the timer's own while it is in the heap.                                *)
(***************************************************************************)
EXTENDS Integers, Sequences

CONSTANTS
  TimerCount,  \* timers that exist at a time
  NoTimer,     \* pending_w
  Branches,    \* DHEAP
  Running,     \* bound: due times of the timers already running
  MaxNow,      \* bound: of the clock
  MaxDelay,    \* bound: of the time until a timer is due
  MaxCalls     \* bound: calls of the user

ASSUME TimerAssumption ==
  /\ TimerCount \in Nat \ {0} /\ Branches \in Nat \ {0, 1} /\ Running \subseteq Nat
  /\ MaxNow \in Nat /\ MaxDelay \in Nat /\ MaxCalls \in Nat

VARIABLES
  heap,      \* [w, at] of the timers that run: place k of the code is k - HEAP0 + 1
  timer,     \* of each timer: at, repeat
  now,       \* mn_now
  expired,   \* rfeeds; with the time each was due, as history
  pendings,  \* the last is called first
  loop,      \* "callbacks" or "reify"
  calls      \* of the user

tvars == <<heap, timer, now, expired, pendings, loop, calls>>

Timers == 1 .. TimerCount

----------------------------------------
(* The heap *)

Parent(k) == (k - 2) \div Branches + 1
Children(h, k) == (Branches * (k - 1) + 2 .. Branches * k + 1) \cap DOMAIN h

\* The first of the children that are due first.
Least(h, k) ==
  CHOOSE c \in Children(h, k) :
    \A d \in Children(h, k) : h[c].at < h[d].at \/ (h[c].at = h[d].at /\ c <= d)

DownHeap(h, k) ==
  LET down[i \in DOMAIN h] ==
        IF Children(h, i) = {} \/ h[k].at <= h[Least(h, i)].at THEN [h EXCEPT ![i] = h[k]]
        ELSE [down[Least(h, i)] EXCEPT ![i] = h[Least(h, i)]]
  IN  down[k]

UpHeap(h, k) ==
  LET up[i \in DOMAIN h] ==
        IF i = 1 \/ h[Parent(i)].at <= h[k].at THEN [h EXCEPT ![i] = h[k]]
        ELSE [up[Parent(i)] EXCEPT ![i] = h[Parent(i)]]
  IN  up[k]

\* Mutant: the last element is never due before those above its new place.
AdjustDown(h, k) == DownHeap(h, k)

AdjustHeap(h, k) ==
  IF k > 1 /\ h[k].at <= h[Parent(k)].at THEN UpHeap(h, k) ELSE DownHeap(h, k)

Insert(h, t, at) == LET g == Append(h, [w |-> t, at |-> at]) IN UpHeap(g, Len(g))

\* The last element takes the place.
TakeOut(h, k) ==
  LET rest == SubSeq(h, 1, Len(h) - 1)
  IN  IF k = Len(h) THEN rest ELSE AdjustHeap([rest EXCEPT ![k] = h[Len(h)]], k)

Place(t)  == {k \in DOMAIN heap : heap[k].w = t}
Active(t) == Place(t) # {}

InOrder(h) == \A k \in DOMAIN h \ {1} : h[Parent(k)].at <= h[k].at

TimerInit ==
  /\ \E at \in [Timers -> Running] :
       heap = [k \in Timers |-> [w |-> k, at |-> at[k]]]
  /\ InOrder(heap)
  /\ timer = [t \in Timers |-> [at |-> IF Active(t) THEN heap[t].at ELSE 0, repeat |-> 0]]
  /\ now = 0 /\ expired = <<>> /\ pendings = <<>>
  /\ loop = "callbacks" /\ calls = 0

----------------------------------------
(* Calls of the user, in callbacks *)

Calls == loop = "callbacks" /\ calls < MaxCalls /\ calls' = calls + 1

\* Mutant: the heap reads the due time from the timer.
TimerStartUncached(t, after, repeat) ==
  /\ Calls
  /\ LET at == IF Active(t) THEN after ELSE after + now
     IN  /\ timer' = [timer EXCEPT ![t] = [at |-> at, repeat |-> repeat]]
         /\ heap' = IF Active(t) THEN [k \in DOMAIN heap |-> IF k \in Place(t) THEN [heap[k] EXCEPT !.at = at]
                                                             ELSE heap[k]]
                    ELSE Insert(heap, t, at)
  /\ UNCHANGED <<now, expired, pendings, loop>>

\* EVTimer::start: a timer that runs goes on, with other times to repeat.
TimerStart(t, after, repeat) ==
  /\ Calls
  /\ LET at == IF Active(t) THEN after ELSE after + now
     IN  /\ timer' = [timer EXCEPT ![t] = [at |-> at, repeat |-> repeat]]
         /\ heap' = IF Active(t) THEN heap ELSE Insert(heap, t, at)
  /\ UNCHANGED <<now, expired, pendings, loop>>

Cleared(t) == [i \in DOMAIN pendings |-> IF pendings[i].w = t THEN [pendings[i] EXCEPT !.w = NoTimer]
                                         ELSE pendings[i]]

TimerStop(t) ==
  /\ Calls
  /\ pendings' = Cleared(t)
  /\ \/ /\ \E k \in Place(t) : heap' = TakeOut(heap, k)
        /\ timer' = [timer EXCEPT ![t].at = @ - now]
     \/ ~Active(t) /\ UNCHANGED <<heap, timer>>
  /\ UNCHANGED <<now, expired, loop>>

----------------------------------------
(* An iteration of the loop: the clock, timers_reify, the callbacks *)

TimeUpdate ==
  /\ loop = "callbacks" /\ pendings = <<>>
  /\ now' \in now .. MaxNow
  /\ loop' = "reify"
  /\ UNCHANGED <<heap, timer, expired, pendings, calls>>

Due == heap # <<>> /\ Head(heap).at < now

ExpireOnce ==
  /\ loop = "reify" /\ Due
  /\ LET t == Head(heap).w
     IN  /\ timer[t].repeat = 0
         /\ timer' = [timer EXCEPT ![t].at = @ - now]
         /\ heap' = TakeOut(heap, 1)
         /\ expired' = Append(expired, Head(heap))
  /\ UNCHANGED <<now, pendings, loop, calls>>

ExpireRepeated ==
  /\ loop = "reify" /\ Due
  /\ LET t  == Head(heap).w
         a  == timer[t].at + timer[t].repeat
         at == IF a < now THEN now ELSE a
     IN  /\ timer[t].repeat # 0
         /\ timer' = [timer EXCEPT ![t].at = at]
         /\ heap' = DownHeap([heap EXCEPT ![1].at = at], 1)
         /\ expired' = Append(expired, Head(heap))
  /\ UNCHANGED <<now, pendings, loop, calls>>

\* feed_reverse_done
Fed ==
  /\ loop = "reify" /\ ~Due
  /\ pendings' = [i \in DOMAIN expired |-> expired[Len(expired) + 1 - i]] /\ expired' = <<>>
  /\ loop' = "callbacks"
  /\ UNCHANGED <<heap, timer, now, calls>>

Callback ==
  /\ loop = "callbacks" /\ pendings # <<>>
  /\ pendings' = SubSeq(pendings, 1, Len(pendings) - 1)
  /\ UNCHANGED <<heap, timer, now, expired, loop, calls>>

----------------------------------------
TimerNext ==
  \/ \E t \in Timers : TimerStop(t) \/ \E after \in 0 .. MaxDelay, repeat \in 0 .. MaxDelay : TimerStart(t, after, repeat)
  \/ TimeUpdate \/ ExpireOnce \/ ExpireRepeated \/ Fed \/ Callback

TimerSpec == TimerInit /\ [][TimerNext]_tvars

----------------------------------------
(* Properties *)

TimerTypeOK ==
  /\ heap \in Seq([w : Timers, at : Nat])
  /\ timer \in [Timers -> [at : Int, repeat : Nat]]
  /\ now \in Nat /\ loop \in {"callbacks", "reify"} /\ calls \in 0 .. MaxCalls
  /\ expired \in Seq([w : Timers, at : Nat])
  /\ pendings \in Seq([w : Timers \cup {NoTimer}, at : Nat])

(* Timers are called in the order of the times they were due, none before  *)
(* its time, and none that is due is left in the heap for a later          *)
(* iteration; start() and stop() of any timer in any callback included.    *)
DueInOrder ==
  /\ \A i, j \in DOMAIN pendings : i < j => pendings[j].at <= pendings[i].at
  /\ \A i \in DOMAIN pendings : pendings[i].at < now
  /\ loop = "callbacks" => \A k \in DOMAIN heap : heap[k].at >= now
========================================
