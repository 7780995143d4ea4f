----------------------------- MODULE AsyncWake -----------------------------
(***************************************************************************)
(* How a thread wakes the event loop of another one: ev_async_send of the  *)
(* vendored libev (util/libev/ev.c), as ThreadHolderLibEV::wakeUp uses it  *)
(* (util/impl/threadverifyimpl.cpp).  Sender and loop share four flags     *)
(* without a lock; every access to one is a step of its own.  The memory   *)
(* fences between the accesses are what makes one order of all steps a     *)
(* faithful model.                                                         *)
(***************************************************************************)
EXTENDS Naturals, FiniteSets

CONSTANT Senders  \* threads that call wakeUp()

VARIABLES
  flag,   \* sent of the watcher, async_pending, pipe_write_skipped and pipe_write_wanted
  pipe,   \* the eventfd is readable
  fed,    \* what is pending: of pipe_w "read", "custom", of the watcher "async"
  lpc,    \* where the loop is
  wait,   \* waittime is not zero
  spc,    \* where a sender is
  work    \* of whom there is work for the loop

wvars == <<flag, pipe, fed, lpc, wait, spc, work>>

WakeInit ==
  /\ flag = [sent |-> FALSE, pending |-> FALSE, skipped |-> FALSE, wanted |-> FALSE]
  /\ pipe = FALSE /\ fed = {}
  /\ lpc = "reify" /\ wait = FALSE
  /\ spc = [s \in Senders |-> "idle"]
  /\ work = {}

LoopGoes(from, to)  == lpc = from /\ lpc' = to
Goes(s, from, to)   == spc[s] = from /\ spc' = [spc EXCEPT ![s] = to]
Write(name, value)  == flag' = [flag EXCEPT ![name] = value]

----------------------------------------
(* ev_async_send *)

Post(s) ==
  /\ Goes(s, "idle", "sent")
  /\ work' = work \cup {s}
  /\ UNCHANGED <<flag, pipe, fed, lpc, wait>>

Sent(s) == Goes(s, "sent", "test") /\ Write("sent", TRUE) /\ UNCHANGED <<pipe, fed, lpc, wait, work>>

\* if (*flag) return: another sender is on its way.
Test(s) ==
  /\ Goes(s, "test", IF flag.pending THEN "idle" ELSE "flag")
  /\ UNCHANGED <<flag, pipe, fed, lpc, wait, work>>

SetPending(s) ==
  Goes(s, "flag", "skip") /\ Write("pending", TRUE) /\ UNCHANGED <<pipe, fed, lpc, wait, work>>

SetSkipped(s) ==
  Goes(s, "skip", "wanted") /\ Write("skipped", TRUE) /\ UNCHANGED <<pipe, fed, lpc, wait, work>>

TestWanted(s) ==
  /\ Goes(s, "wanted", IF flag.wanted THEN "unskip" ELSE "idle")
  /\ UNCHANGED <<flag, pipe, fed, lpc, wait, work>>

Unskip(s) ==
  Goes(s, "unskip", "write") /\ Write("skipped", FALSE) /\ UNCHANGED <<pipe, fed, lpc, wait, work>>

WritePipe(s) ==
  Goes(s, "write", "idle") /\ pipe' = TRUE /\ UNCHANGED <<flag, fed, lpc, wait, work>>

Send(s) ==
  \/ Post(s) \/ Sent(s) \/ Test(s) \/ SetPending(s) \/ SetSkipped(s)
  \/ TestWanted(s) \/ Unskip(s) \/ WritePipe(s)

----------------------------------------
(* One iteration of ev_run *)

Wanted ==
  /\ LoopGoes("reify", "check")
  /\ Write("wanted", TRUE)
  /\ UNCHANGED <<pipe, fed, wait, spc, work>>

\* Mutant: does not ask for writes that were skipped.
CheckNot == LoopGoes("check", "poll") /\ wait' = TRUE /\ UNCHANGED <<flag, pipe, fed, spc, work>>

Check ==
  /\ LoopGoes("check", "poll")
  /\ wait' = ~flag.skipped
  /\ UNCHANGED <<flag, pipe, fed, spc, work>>

Polled ==
  /\ LoopGoes("poll", "unwant")
  /\ fed' = IF pipe THEN fed \cup {"read"} ELSE fed
  /\ wait' = FALSE
  /\ UNCHANGED <<flag, pipe, spc, work>>

PollReturns == (~wait \/ pipe) /\ Polled

\* A descriptor or a timer of somebody else wakes the loop.
OtherEvent == wait /\ ~pipe /\ Polled

Unwant == LoopGoes("unwant", "feed") /\ Write("wanted", FALSE) /\ UNCHANGED <<pipe, fed, wait, spc, work>>

FeedSkipped ==
  /\ LoopGoes("feed", "invoke")
  /\ fed' = IF flag.skipped THEN fed \cup {"custom"} ELSE fed
  /\ UNCHANGED <<flag, pipe, wait, spc, work>>

\* pipe_w has the highest priority: pipecb runs before the other callbacks.
InvokePipe ==
  /\ fed \cap {"read", "custom"} # {}
  /\ LoopGoes("invoke", "skipped")
  /\ pipe' = IF "read" \in fed THEN FALSE ELSE pipe
  /\ fed' = fed \ {"read", "custom"}
  /\ UNCHANGED <<flag, wait, spc, work>>

ClearSkipped ==
  LoopGoes("skipped", "pending") /\ Write("skipped", FALSE) /\ UNCHANGED <<pipe, fed, wait, spc, work>>

TestPending ==
  /\ LoopGoes("pending", IF flag.pending THEN "clear" ELSE "invoke")
  /\ UNCHANGED <<flag, pipe, fed, wait, spc, work>>

ClearFlag ==
  LoopGoes("clear", "scan") /\ Write("pending", FALSE) /\ UNCHANGED <<pipe, fed, wait, spc, work>>

Scan ==
  /\ LoopGoes("scan", IF flag.sent THEN "taken" ELSE "invoke")
  /\ UNCHANGED <<flag, pipe, fed, wait, spc, work>>

Taken ==
  /\ LoopGoes("taken", "invoke")
  /\ Write("sent", FALSE)
  /\ fed' = fed \cup {"async"}
  /\ UNCHANGED <<pipe, wait, spc, work>>

\* wokeUp() takes the calls that were put before.
AsyncCallback ==
  /\ lpc = "invoke" /\ fed = {"async"}
  /\ fed' = {} /\ work' = {}
  /\ UNCHANGED <<flag, pipe, lpc, wait, spc>>

NextIteration == fed = {} /\ LoopGoes("invoke", "reify") /\ UNCHANGED <<flag, pipe, fed, wait, spc, work>>

Loop ==
  \/ Wanted \/ Check \/ PollReturns \/ Unwant \/ FeedSkipped \/ InvokePipe \/ ClearSkipped
  \/ TestPending \/ ClearFlag \/ Scan \/ Taken \/ AsyncCallback \/ NextIteration

----------------------------------------
WakeNext == Loop \/ OtherEvent \/ \E s \in Senders : Send(s)

WakeSpec ==
  /\ WakeInit /\ [][WakeNext]_wvars /\ WF_wvars(Loop)
  /\ \A s \in Senders : WF_wvars(Send(s) /\ ~Post(s))

----------------------------------------
(* Properties *)

WakeTypeOK ==
  /\ flag \in [sent: BOOLEAN, pending: BOOLEAN, skipped: BOOLEAN, wanted: BOOLEAN]
  /\ pipe \in BOOLEAN /\ wait \in BOOLEAN
  /\ fed \in SUBSET {"read", "custom", "async"}
  /\ lpc \in {"reify", "check", "poll", "unwant", "feed", "invoke", "skipped", "pending",
              "clear", "scan", "taken"}
  /\ spc \in [Senders -> {"idle", "sent", "test", "flag", "skip", "wanted", "unskip", "write"}]
  /\ work \subseteq Senders

(* The loop never sleeps on work: when it blocks in its poll with nothing  *)
(* to wake it and there is work, a sender is still inside ev_async_send.   *)
NoSleepOnWork ==
  lpc = "poll" /\ wait /\ ~pipe /\ work # {} => \E s \in Senders : spc[s] # "idle"

(* Whatever was put before a wake-up is taken, though nothing but the pipe *)
(* wakes the loop for sure, and it never sleeps on it.                     *)
Woken == [][NoSleepOnWork']_wvars /\ \A s \in Senders : s \in work ~> s \notin work
========================================
