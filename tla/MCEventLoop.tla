---------------------------- MODULE MCEventLoop ----------------------------
(* The instances of the modules of cflib/util that TLC checks, one part at *)
(* a time: the queue of calls from other threads, the wake-up that follows *)
(* a call, descriptors, timers; the log file and the mailer.               *)
EXTENDS ThreadFifo, AsyncWake, IOWatchers, TimerHeap, LogFile, Mailer

VARIABLE part

ofLoop   == <<wvars, iovars, tvars>>
loopvars == <<part, vars, ofLoop, logvars, mailvars>>

(* Texts with placeholders and line ends: in the format and in what is     *)
(* filled in.                                                              *)
SomeFormats ==
  {[str |-> <<"\n", "%", "1", "%", "2">>, args |-> <<<<"a", "\n">>>>],
   [str |-> <<"%", "2", "a", "%", "1">>, args |-> <<<<"%", "2">>, <<"a">>>>]}

LoopInit ==
  /\ part \in {"fifo", "wake", "io", "timers", "log", "mails"}
  /\ Init /\ WakeInit /\ IOInit /\ TimerInit /\ LogInit /\ MailerInit
  /\ part # "timers" => heap = [k \in Timers |-> [w |-> k, at |-> 0]]
  /\ part # "mails" => posted = <<>>

InLoop ==
  \/ part = "wake"   /\ WakeNext  /\ UNCHANGED <<iovars, tvars>>
  \/ part = "io"     /\ IONext    /\ UNCHANGED <<wvars, tvars>>
  \/ part = "timers" /\ TimerNext /\ UNCHANGED <<wvars, iovars>>

InPart ==
  \/ part = "fifo"   /\ Next       /\ UNCHANGED <<ofLoop, logvars, mailvars>>
  \/ InLoop /\ UNCHANGED <<vars, logvars, mailvars>>
  \/ part = "log"    /\ LogNext    /\ UNCHANGED <<vars, ofLoop, mailvars>>
  \/ part = "mails"  /\ MailerNext /\ UNCHANGED <<vars, ofLoop, logvars>>

LoopNext == InPart /\ UNCHANGED part

Elsewhere == UNCHANGED <<part, vars, iovars, tvars, logvars, mailvars>>
LoopSpec ==
  /\ LoopInit /\ [][LoopNext]_loopvars
  /\ WF_loopvars(part = "wake" /\ Loop /\ Elsewhere)
  /\ \A s \in Senders : WF_loopvars(part = "wake" /\ Send(s) /\ ~Post(s) /\ Elsewhere)
========================================
