---------------------------- MODULE BrowserEvents ----------------------------
(***************************************************************************)
(* The events of the browser library (js/util/ev.mjs): an EV calls the     *)
(* functions bound to it, one after the other; a function that is called   *)
(* may bind and unbind functions, disable the event and fire it again.     *)
(* With a throttle, calls that come too early are put off and the last of  *)
(* them stands for all; util.throttle (js/util/util.mjs) does the same for *)
(* a function.  And the layer that shows that the page is waiting          *)
(* (initWaitingLayer, js/net/netutil.mjs), which listens to such an event. *)
(*                                                                         *)
(* One EV is looked at; the functions bound to it have scopes, the objects *)
(* they are unbound by.  The clock is not set back.                        *)
(***************************************************************************)
EXTENDS Integers, Sequences, SequencesExt, FiniteSets

CONSTANTS
  Scopes,       \* objects functions are bound with
  Throttle,     \* least time between two calls of an EV that has a throttle
  MaxTime,      \* bound: the clock
  MaxBinds,     \* bound: listeners bound
  MaxFires,     \* bound: calls of fire
  MaxNested     \* bound: firings within one another

NoFiring == 0    \* the arguments of a firing are its number

VARIABLES
  ev,       \* the EV
  stack,    \* firings that go on, the innermost last
  now,      \* the time
  fires,    \* calls of fire
  times,    \* history: when a firing that was throttled began
  delivered,\* history: the arguments of the firing that began last
  layer     \* the waiting layer

evvars == <<ev, stack, now, fires, times, delivered>>

EVInit ==
  /\ ev \in [throttle : {0, Throttle},
             last     : {-Throttle},      \* throttleLast, long ago
             params   : {NoFiring},        \* throttleParams
             due      : {-1},             \* the timer of a firing put off, -1: none
             enabled  : {TRUE},
             ids      : {0},              \* listenerId
             listener : {<<>>}]           \* the scope of each listener
  /\ stack = <<>> /\ now = 0 /\ fires = 0 /\ times = <<>> /\ delivered = NoFiring

LayerInit == layer = [backdrop |-> FALSE, timer |-> FALSE, keep |-> FALSE, shown |-> 0]

Listening == DOMAIN ev.listener

----------------------------------------
(* doFire: the keys are collected, then those still there are called.      *)

\* Mutant: what was collected is called even if it was unbound since.
CallableCollected(frame) == frame.keys

Callable(frame) == frame.keys \cap Listening

DoFire(e, arg, below) ==
  /\ delivered' = arg
  /\ IF e.enabled /\ DOMAIN e.listener # {}
     THEN stack' = Append(below, [keys |-> DOMAIN e.listener, arg |-> arg,
                                  stayed |-> DOMAIN e.listener, called |-> {}])
     ELSE stack' = below

(* The next listener, in the order of their ids; or the end. *)
Deliver ==
  /\ stack # <<>>
  /\ LET top == Last(stack) IN
       IF Callable(top) = {} THEN stack' = Front(stack)
       ELSE LET id == CHOOSE k \in Callable(top) : \A j \in Callable(top) : k <= j IN
            stack' = [stack EXCEPT ![Len(stack)].keys = @ \ (1 .. id),
                                   ![Len(stack)].called = @ \cup {id}]
  /\ UNCHANGED <<ev, now, fires, times, delivered>>

----------------------------------------
(* What the page does, or a listener while it is called. *)

MayAct == Len(stack) < MaxNested

Bind(scope) ==
  /\ MayAct /\ ev.ids < MaxBinds
  /\ ev' = [ev EXCEPT !.ids = @ + 1,
                      !.listener = [k \in Listening \cup {ev.ids + 1} |->
                                      IF k \in Listening THEN ev.listener[k] ELSE scope]]
  /\ UNCHANGED <<stack, now, fires, times, delivered>>

(* unbindAll: all functions of a scope.  It throws when there are none. *)
UnbindAll(scope) ==
  LET gone == {k \in Listening : ev.listener[k] = scope} IN
  /\ MayAct /\ gone # {}
  /\ ev' = [ev EXCEPT !.listener = [k \in Listening \ gone |-> ev.listener[k]]]
  /\ stack' = [k \in DOMAIN stack |-> [stack[k] EXCEPT !.stayed = @ \ (gone \ stack[k].called)]]
  /\ UNCHANGED <<now, fires, times, delivered>>

SetEnabled ==
  /\ MayAct /\ ev' = [ev EXCEPT !.enabled = ~@]
  /\ UNCHANGED <<stack, now, fires, times, delivered>>

(* fire: now, or when the throttle allows it, with the last arguments. *)
Fire ==
  /\ MayAct /\ fires < MaxFires /\ fires' = fires + 1
  /\ UNCHANGED now
  /\ IF ev.throttle = 0
     THEN DoFire(ev, fires', stack) /\ UNCHANGED <<ev, times>>
     ELSE IF ev.params # NoFiring
     THEN ev' = [ev EXCEPT !.params = fires'] /\ UNCHANGED <<stack, times, delivered>>
     ELSE IF now - ev.last >= ev.throttle
     THEN /\ ev' = [ev EXCEPT !.last = now] /\ times' = Append(times, now)
          /\ DoFire(ev', fires', stack)
     ELSE /\ ev' = [ev EXCEPT !.params = fires', !.due = ev.last + ev.throttle]
          /\ UNCHANGED <<stack, times, delivered>>

(* The browser calls the timer when it is due, not while a firing goes on. *)
ThrottleTimer ==
  /\ stack = <<>> /\ ev.due # -1 /\ now >= ev.due
  /\ ev' = [ev EXCEPT !.last = now, !.params = NoFiring, !.due = -1]
  /\ times' = Append(times, now)
  /\ DoFire(ev', ev.params, <<>>)
  /\ UNCHANGED <<now, fires>>

Tick == now < MaxTime /\ now' = now + 1 /\ UNCHANGED <<ev, stack, fires, times, delivered>>

EVNext ==
  \/ Deliver \/ SetEnabled \/ Fire \/ ThrottleTimer \/ Tick
  \/ \E s \in Scopes : Bind(s) \/ UnbindAll(s)

EVSpec == EVInit /\ [][EVNext]_evvars

----------------------------------------
(* The listener of rmi.ev.loading: a call begins or has ended, or the page *)
(* asks for the layer to stay ("on") and to go ("off").  A wait that ends  *)
(* within half a second is covered by the backdrop only.                   *)
Uncovered == [layer EXCEPT !.backdrop = FALSE, !.timer = FALSE,
                           !.shown = IF layer.timer THEN @ ELSE @ - 1]

On ==
  layer' = IF layer.backdrop
           THEN [layer EXCEPT !.keep = TRUE, !.timer = FALSE, !.shown = IF layer.timer THEN @ + 1 ELSE @]
           ELSE [layer EXCEPT !.keep = TRUE, !.backdrop = TRUE, !.shown = @ + 1]

Off == layer' = IF layer.backdrop THEN [Uncovered EXCEPT !.keep = FALSE] ELSE [layer EXCEPT !.keep = FALSE]

CallBegins == ~layer.keep /\ ~layer.backdrop /\ layer' = [layer EXCEPT !.backdrop = TRUE, !.timer = TRUE]
CallsEnded == ~layer.keep /\ layer.backdrop /\ layer' = Uncovered
LayerTimer == layer.timer /\ layer' = [layer EXCEPT !.timer = FALSE, !.shown = @ + 1]

LayerNext == On \/ Off \/ CallBegins \/ CallsEnded \/ LayerTimer

LayerSpec == LayerInit /\ [][LayerNext]_layer

----------------------------------------
(* Properties *)

EVTypeOK ==
  /\ ev.throttle \in {0, Throttle} /\ now \in 0 .. MaxTime /\ fires \in 0 .. MaxFires
  /\ Listening \subseteq 1 .. ev.ids /\ Len(stack) <= MaxNested

(* A firing calls the functions that were bound when it began and still    *)
(* are when it comes to them ("newly added or removed listeners will not   *)
(* be called", ev.mjs), and it leaves none of them out; a throttled event  *)
(* begins no two firings within its time, and the arguments given last are *)
(* the ones that are delivered, at once or by a timer that is set.         *)
FiringsKept ==
  /\ \A k \in DOMAIN stack :
       /\ stack[k].called \subseteq stack[k].stayed
       /\ stack[k].keys \cap Listening \subseteq stack[k].stayed
       /\ stack[k].stayed \subseteq stack[k].called \cup stack[k].keys
  /\ ev.throttle > 0 =>
       /\ \A k \in 1 .. Len(times) - 1 : times[k + 1] - times[k] >= ev.throttle
       /\ ev.params # NoFiring <=> ev.due # -1
       /\ fires = IF ev.params # NoFiring THEN ev.params ELSE delivered

(* The layer is shown once, exactly while the page waits longer than the   *)
(* half second or was asked to keep it, and hidden as often as shown.      *)
LayerKept ==
  /\ layer.shown = IF layer.backdrop /\ ~layer.timer THEN 1 ELSE 0
  /\ layer.timer => layer.backdrop /\ ~layer.keep
  /\ layer.keep => layer.shown = 1

EventsKept == FiringsKept /\ LayerKept
========================================
