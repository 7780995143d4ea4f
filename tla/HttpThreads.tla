---------------------------- MODULE HttpThreads ----------------------------
(***************************************************************************)
(* The threads of an HttpServer (net/httpserver.cpp, impl/httpthread.cpp): *)
(* connections are handed to them in turn, by the thread of the TCP        *)
(* manager, and the destructor of the server waits until each has seen the *)
(* end of its parsers.  activeRequests_ is a plain counter, raised by one  *)
(* thread and lowered by another: each update is a read and a write.       *)
(***************************************************************************)
EXTENDS Integers, FiniteSets

CONSTANTS
  Parsers,     \* connections that are accepted
  ThreadCount  \* HTTP threads

ASSUME HttpThreadsAssumption == IsFiniteSet(Parsers) /\ ThreadCount \in Nat \ {0}

Threads == 0 .. ThreadCount - 1
Nobody  == -1
NoValue == -2   \* no update under way

VARIABLES
  parser,     \* a parser: not accepted yet, being built, alive, being deleted, gone
  thread,     \* the thread of each
  counter,    \* threadCounter_
  active,     \* activeRequests_ of each thread; below zero it would wrap around
  raising,    \* what the TCP thread read of the counter it is raising
  lowering,   \* what each HTTP thread read of its counter
  leaving,    \* shutdown_
  waitPosted, \* waitForRequestsToFinish is on its way
  sem,        \* sem_
  server,     \* stop() ran; the thread that is being deleted; the threads deleted
  lost        \* history: the parsers whose start, or whose end, was written between the
              \* two halves of the other update of the counter, one of which is lost

threadsvars == <<parser, thread, counter, active, raising, lowering, leaving, waitPosted, sem, server, lost>>

HttpThreadsInit ==
  /\ parser = [q \in Parsers |-> "none"] /\ thread = [q \in Parsers |-> Nobody]
  /\ counter = 0 /\ active = [t \in Threads |-> 0]
  /\ raising = NoValue /\ lowering = [t \in Threads |-> NoValue]
  /\ leaving = {} /\ waitPosted = {} /\ sem = [t \in Threads |-> 0]
  /\ server = [stopped |-> FALSE, at |-> Nobody, deleted |-> {}]
  /\ lost = [raises |-> {}, ends |-> {}]

Building(q) == parser[q] = "building"
OnThread(t) == {q \in Parsers : thread[q] = t}

\* An update of the counter of a thread is under way, up or down.
Raises(t) == \E q \in OnThread(t) : Building(q)
Lowers(t) == \E q \in OnThread(t) : parser[q] = "deleting"

----------------------------------------
(* The thread of the TCP manager. *)

(* newConnection picks the next thread, newRequest reads its counter, *)
NewConnection(q) ==
  /\ ~server.stopped /\ parser[q] = "none" /\ \A t \in Threads : ~Raises(t)
  /\ counter' = counter + 1
  /\ LET t == counter' % ThreadCount IN
       thread' = [thread EXCEPT ![q] = t] /\ raising' = active[t]
  /\ parser' = [parser EXCEPT ![q] = "building"]
  /\ UNCHANGED <<active, lowering, leaving, waitPosted, sem, server, lost>>

(* writes it back and builds the parser. *)
NewRequest(q) ==
  /\ Building(q)
  /\ active' = [active EXCEPT ![thread[q]] = raising + 1]
  /\ raising' = NoValue
  /\ parser' = [parser EXCEPT ![q] = "alive"]
  /\ lost' = IF Lowers(thread[q]) THEN [lost EXCEPT !.raises = @ \cup {q}] ELSE lost
  /\ UNCHANGED <<thread, counter, lowering, leaving, waitPosted, sem, server>>

----------------------------------------
(* An HTTP thread. *)

(* A parser is deleted: requestFinished reads the counter, *)
ParserEnds(t, q) ==
  /\ thread[q] = t /\ parser[q] = "alive" /\ ~Lowers(t)
  /\ parser' = [parser EXCEPT ![q] = "deleting"]
  /\ lowering' = [lowering EXCEPT ![t] = active[t]]
  /\ UNCHANGED <<thread, counter, active, raising, leaving, waitPosted, sem, server, lost>>

\* Mutant: the end of the last parser is not announced.
RequestFinishedSilent(t, q) ==
  /\ thread[q] = t /\ parser[q] = "deleting"
  /\ parser' = [parser EXCEPT ![q] = "gone"]
  /\ active' = [active EXCEPT ![t] = lowering[t] - 1]
  /\ lowering' = [lowering EXCEPT ![t] = NoValue]
  /\ lost' = IF Raises(t) THEN [lost EXCEPT !.ends = @ \cup {q}] ELSE lost
  /\ UNCHANGED <<thread, counter, raising, leaving, waitPosted, sem, server>>

(* and writes it back; the last one lets the destructor go on. *)
RequestFinished(t, q) ==
  /\ thread[q] = t /\ parser[q] = "deleting"
  /\ parser' = [parser EXCEPT ![q] = "gone"]
  /\ active' = [active EXCEPT ![t] = lowering[t] - 1]
  /\ lowering' = [lowering EXCEPT ![t] = NoValue]
  /\ sem' = IF t \in leaving /\ active'[t] = 0 THEN [sem EXCEPT ![t] = @ + 1] ELSE sem
  /\ lost' = IF Raises(t) THEN [lost EXCEPT !.ends = @ \cup {q}] ELSE lost
  /\ UNCHANGED <<thread, counter, raising, leaving, waitPosted, server>>

WaitForRequestsToFinish(t) ==
  /\ t \in waitPosted /\ ~Lowers(t)
  /\ waitPosted' = waitPosted \ {t}
  /\ IF active[t] = 0 THEN sem' = [sem EXCEPT ![t] = @ + 1] /\ UNCHANGED leaving
     ELSE leaving' = leaving \cup {t} /\ UNCHANGED sem
  /\ UNCHANGED <<parser, thread, counter, active, raising, lowering, server, lost>>

----------------------------------------
(* The thread that deletes the server. *)

(* stop() is done by the TCP thread, between two connections; then the     *)
(* first HttpThread is deleted.                                            *)
Stop ==
  /\ ~server.stopped /\ \A t \in Threads : ~Raises(t)
  /\ server' = [server EXCEPT !.stopped = TRUE, !.at = 0] /\ waitPosted' = {0}
  /\ UNCHANGED <<parser, thread, counter, active, raising, lowering, leaving, sem, lost>>

(* ~HttpThread gets the semaphore and ends the thread; the next one follows. *)
ThreadDeleted ==
  LET t == server.at IN
  /\ t \in Threads /\ sem[t] > 0 /\ ~Lowers(t)
  /\ sem' = [sem EXCEPT ![t] = @ - 1]
  /\ server' = [server EXCEPT !.deleted = @ \cup {t}, !.at = t + 1]
  /\ waitPosted' = waitPosted \cup ({t + 1} \cap Threads)
  /\ UNCHANGED <<parser, thread, counter, active, raising, lowering, leaving, lost>>

HttpThreadsNext ==
  \/ Stop \/ ThreadDeleted
  \/ \E q \in Parsers : NewConnection(q) \/ NewRequest(q)
  \/ \E t \in Threads : \/ WaitForRequestsToFinish(t)
                        \/ t \notin server.deleted
                             /\ \E q \in Parsers : ParserEnds(t, q) \/ RequestFinished(t, q)

HttpThreadsSpec == HttpThreadsInit /\ [][HttpThreadsNext]_threadsvars

----------------------------------------
(* Properties *)

HttpThreadsTypeOK ==
  /\ parser \in [Parsers -> {"none", "building", "alive", "deleting", "gone"}]
  /\ active \in [Threads -> Int] /\ sem \in [Threads -> Nat]
  /\ leaving \subseteq Threads /\ server.deleted \subseteq Threads

(* Two updates of one counter may overlap, and the one that is written     *)
(* first is lost.  A thread is ended only after the last of its parsers,   *)
(* but for as many parsers as it was given while the end of another one    *)
(* was being counted; and when all are gone, the destructor that waits for *)
(* the thread is let go, unless one of its counts was lost.                *)
ThreadsOutlive ==
  /\ \A t \in server.deleted :
       Cardinality({q \in OnThread(t) : parser[q] # "gone"}) <= Cardinality(OnThread(t) \cap lost.raises)
  /\ LET t == server.at IN
       /\ t \in Threads /\ (\A q \in OnThread(t) : parser[q] = "gone")
       /\ OnThread(t) \cap (lost.raises \cup lost.ends) = {}
       => sem[t] > 0 \/ t \in waitPosted
========================================
