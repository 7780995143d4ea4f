------------------------------- MODULE Mailer -------------------------------
(***************************************************************************)
(* The mailer (util/mailer.cpp): a thread with an event loop of Qt hands   *)
(* mails, one after the other, to a process of sendmail.  Calls from other *)
(* threads and execLater are events of that thread, taken in the order in  *)
(* which they were posted; what QProcess reports comes between two events. *)
(* deleteThreadData runs in the thread as its last call; Qt may still take *)
(* the events that were posted by then.                                    *)
(***************************************************************************)
EXTENDS Naturals, Sequences

CONSTANTS
  Mails,   \* mails that are sent, each once
  NoMail

ASSUME MailerAssumption == NoMail \notin Mails

VARIABLES
  sendmail,  \* is there an executable: sendmailPath_
  posted,    \* calls on their way to the thread
  process,   \* process_: none before initThreadData and after deleteThreadData
  queue,     \* queue_
  ending,    \* ~Mailer: "no", "asked" when its shutdown was posted, "done" when it was taken,
             \* "gone" when instance_ is null
  taken,     \* history: the mails the queue took, in order
  handed,    \* history: the mails a process was started with, in order
  failed,    \* history: a process could not be started
  nulled     \* history: a mail was to be handed to a process that had been deleted

mailvars == <<sendmail, posted, process, queue, ending, taken, handed, failed, nulled>>

Call(f)    == [call |-> f, mail |-> NoMail]
DoSend(m)  == [call |-> "doSend", mail |-> m]
Ready      == [state |-> "idle", mail |-> NoMail]
NoProcess  == [state |-> "none", mail |-> NoMail]

(* The constructor: a mailer that is switched off has neither. *)
MailerInit ==
  /\ \E enabled \in BOOLEAN :
       /\ sendmail \in IF enabled THEN BOOLEAN ELSE {FALSE}
       /\ posted = IF enabled THEN <<Call("initThreadData")>> ELSE <<>>
  /\ process = NoProcess /\ queue = <<>> /\ ending = "no"
  /\ taken = <<>> /\ handed = <<>> /\ failed = FALSE /\ nulled = FALSE

Asked(m) == (\E k \in 1 .. Len(taken) : taken[k] = m) \/ \E k \in 1 .. Len(posted) : posted[k].mail = m

----------------------------------------
(* Other threads. *)

(* Mailer::send, as long as there is an instance: instance_ is reset only  *)
(* when the thread has ended.                                              *)
SendMail(m) ==
  /\ ending # "gone" /\ ~Asked(m)
  /\ posted' = Append(posted, DoSend(m))
  /\ UNCHANGED <<sendmail, process, queue, ending, taken, handed, failed, nulled>>

(* ~Mailer: stopVerifyThread. *)
DeleteMailer ==
  /\ ending = "no" /\ ending' = "asked"
  /\ posted' = Append(posted, Call("deleteThreadData"))
  /\ UNCHANGED <<sendmail, process, queue, taken, handed, failed, nulled>>

----------------------------------------
(* The thread of the mailer. *)

(* startProcess: QProcess takes no second program while one runs. *)
StartProcess(first) ==
  IF process.state = "none" THEN nulled' = TRUE /\ UNCHANGED <<process, handed>>
  ELSE /\ UNCHANGED nulled
       /\ IF process.state = "running" THEN UNCHANGED <<process, handed>>
          ELSE process' = [state |-> "running", mail |-> first] /\ handed' = Append(handed, first)

TakeInit ==
  /\ process' = Ready
  /\ UNCHANGED <<sendmail, queue, ending, taken, handed, failed, nulled>>

(* doSend: the first mail of the queue starts the process. *)
TakeMail(m) ==
  /\ sendmail
  /\ queue' = Append(queue, m) /\ taken' = Append(taken, m)
  /\ IF queue = <<>> THEN StartProcess(m) ELSE UNCHANGED <<process, handed, nulled>>
  /\ UNCHANGED <<sendmail, ending, failed>>

(* Without an executable, or when it lacks an address, it is dropped. *)
DropMail == UNCHANGED <<sendmail, process, queue, ending, taken, handed, failed, nulled>>

TakeStart ==
  /\ StartProcess(Head(queue))
  /\ UNCHANGED <<sendmail, queue, ending, taken, failed>>

(* deleteThreadData kills what still runs: nobody hears of its end. *)
TakeDelete ==
  /\ process' = NoProcess /\ ending' = "done"
  /\ UNCHANGED <<sendmail, queue, taken, handed, failed, nulled>>

(* The thread has ended, with what was posted too late: instance_ is reset. *)
ThreadEnds ==
  /\ ending = "done" /\ ending' = "gone"
  /\ UNCHANGED <<sendmail, posted, process, queue, taken, handed, failed, nulled>>

TakeCall ==
  /\ ending # "gone"
  /\ posted # <<>> /\ posted' = Tail(posted)
  /\ LET c == Head(posted) IN
       \/ c.call = "initThreadData"   /\ TakeInit
       \/ c.call = "doSend"           /\ (TakeMail(c.mail) \/ DropMail)
       \/ c.call = "startProcess"     /\ TakeStart
       \/ c.call = "deleteThreadData" /\ TakeDelete

\* Mutant: only the first mail is waited for.
FinishedWaits ==
  /\ process.state = "running"
  /\ process' = Ready
  /\ queue' = Tail(queue)
  /\ posted' = IF Len(queue) > 2 THEN Append(posted, Call("startProcess")) ELSE posted
  /\ UNCHANGED <<sendmail, ending, taken, handed, failed, nulled>>

(* The program ended, well or not: finished().  The next mail is started   *)
(* by an event of its own.                                                 *)
Finished ==
  /\ process.state = "running"
  /\ process' = Ready
  /\ queue' = Tail(queue)
  /\ posted' = IF Len(queue) > 1 THEN Append(posted, Call("startProcess")) ELSE posted
  /\ UNCHANGED <<sendmail, ending, taken, handed, failed, nulled>>

(* The program could not be started: errorOccurred() writes to the log, and *)
(* finished() is not called.                                               *)
FailedToStart ==
  /\ process.state = "running"
  /\ process' = Ready /\ failed' = TRUE
  /\ UNCHANGED <<sendmail, posted, queue, ending, taken, handed, nulled>>

MailerNext ==
  \/ \E m \in Mails : SendMail(m)
  \/ DeleteMailer \/ TakeCall \/ ThreadEnds \/ Finished \/ FailedToStart

MailerSpec == MailerInit /\ [][MailerNext]_mailvars

----------------------------------------
(* Properties *)

MailerTypeOK ==
  /\ sendmail \in BOOLEAN /\ failed \in BOOLEAN /\ nulled \in BOOLEAN
  /\ process \in [state : {"none", "idle", "running"}, mail : Mails \cup {NoMail}]
  /\ queue \in Seq(Mails) /\ ending \in {"no", "asked", "done", "gone"}

(* deleteThreadData was taken. *)
Deleted == ending \in {"done", "gone"}

(* Mails are handed over in the order in which the queue took them, each   *)
(* once, and one at a time: the process works on the first of the queue.   *)
(* Nothing stays in the queue while nobody works on it, unless a program   *)
(* could not be started: then the queue stands still for ever.  A deleted  *)
(* process is met only by events that follow the shutdown.                 *)
MailsInTurn ==
  /\ \E n \in 0 .. Len(taken) : handed = SubSeq(taken, 1, n)
  /\ process.state = "running" => queue # <<>> /\ Head(queue) = process.mail
  /\ queue # <<>> /\ process.state # "running" =>
       \/ failed \/ Deleted
       \/ \E k \in 1 .. Len(posted) : posted[k].call = "startProcess"
  /\ nulled => Deleted
========================================
