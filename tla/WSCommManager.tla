--------------------------- MODULE WSCommManager ---------------------------
(***************************************************************************)
(* Sessions over WebSocket connections: WSCommManager (net/wscommmanager.h)*)
(* on top of WebSocketService (net/websocketservice.cpp), both on one      *)
(* service thread.  A client says hello with the client id it holds; its   *)
(* connection joins that session or opens a new one, and reading stops     *)
(* until a checker, on any thread, has accepted the session.  A session    *)
(* survives its connections until the session timeout.                     *)
(*                                                                         *)
(* Client id and data id of a session are fresh random numbers, here one   *)
(* number that is never used twice.  Messages are told apart by what the   *)
(* manager does with them.  TCPConn calls closed() once for each close     *)
(* state, as tcpconn.h promises (ClosedOncePerState shows where not).     *)
(***************************************************************************)
EXTENDS Integers, Sequences, FiniteSets, SequencesExt

CONSTANTS
  Conns,      \* connections, in connections_ once they are added
  MaxFrames   \* frames a client sends on one connection

ASSUME WSAssumption == IsFiniteSet(Conns) /\ MaxFrames \in Nat \ {0}

Ids == 1 .. Cardinality(Conns)   \* a connection opens at most one session

Hello(d) == [op |-> "hello", id |-> d]   \* tag 1; 0: no id, or an unknown one
Message  == [op |-> "msg",   id |-> 0]   \* a handler takes it
Bad      == [op |-> "bad",   id |-> 0]   \* broken, or a text nobody handles
Bye      == [op |-> "bye",   id |-> 0]   \* close frame
Frame    == {Hello(d) : d \in Ids \cup {0}} \cup {Message, Bad, Bye}

Tell(c) == [op |-> "tell", conn |-> c]
Read(c) == [op |-> "read", conn |-> c]

VARIABLES
  checker,    \* a ConnDataChecker is set
  tcp,        \* per connection: state, read watcher, end of stream, close told
  inbox,      \* per connection: calls posted by the network thread
  buf,        \* per connection: frames received and not handled
  work,       \* what the service thread has left to do before its next event
  dataId,     \* connId2dataId_, 0 for none
  known,      \* the keys of connInfos_
  info,       \* their values
  clientIds,  \* clientIds_
  issued,     \* number of sessions opened so far
  checks,     \* checkConnData calls, and answers of the checker, on their way
  told,       \* history: what listeners and handlers saw of a connection
  checked     \* history: sessions accepted since they last had no connection

net  == <<tcp, inbox>>
maps == <<dataId, known, info, clientIds, issued, checked>>
vars == <<checker, net, buf, work, maps, checks, told>>

NoInfo == [conns |-> {}, verified |-> TRUE, lastClosed |-> "never"]

Init ==
  /\ checker \in BOOLEAN
  /\ tcp = [c \in Conns |-> [st |-> "none", watch |-> FALSE, eof |-> FALSE,
                             tell |-> "no", sent |-> 0]]
  /\ inbox = [c \in Conns |-> <<>>] /\ buf = [c \in Conns |-> <<>>]
  /\ work = <<>>
  /\ dataId = [c \in Conns |-> 0]
  /\ known = {} /\ info = [d \in Ids |-> NoInfo] /\ clientIds = {} /\ issued = 0
  /\ checks = {}
  /\ told = [c \in Conns |-> <<>>] /\ checked = {}

----------------------------------------
(* The network thread *)

Post(c, call) == inbox' = [inbox EXCEPT ![c] = Append(@, call)]

Receive(c) ==
  /\ tcp[c].watch
  /\ \E n \in 1 .. MaxFrames - tcp[c].sent : \E fs \in [1 .. n -> Frame] :
       /\ \A i \in 1 .. n : fs[i].id <= issued
       /\ tcp' = [tcp EXCEPT ![c].watch = FALSE, ![c].sent = @ + n]
       /\ Post(c, [op |-> "bytes", frames |-> fs])
  /\ UNCHANGED <<checker, buf, work, maps, checks, told>>

(* The client closes its half: closed(ReadClosed). *)
EndOfStream(c) ==
  /\ tcp[c].watch
  /\ tcp' = [tcp EXCEPT ![c].watch = FALSE, ![c].eof = TRUE]
  /\ Post(c, [op |-> "eof"])
  /\ UNCHANGED <<checker, buf, work, maps, checks, told>>

(* TCPConn::close(type, true) with both halves. *)
Shut(t, c) == [t EXCEPT ![c].watch = FALSE,
                        ![c].tell = IF @ = "no" THEN "due" ELSE @]

StartReadWatcher(t, c) ==
  IF t[c].eof \/ t[c].tell # "no" THEN t ELSE [t EXCEPT ![c].watch = TRUE]

(* The connection breaks, or checkTimeout gives it up. *)
Lose(c) ==
  /\ tcp[c].st = "up" /\ tcp[c].tell = "no"
  /\ tcp' = Shut(tcp, c)
  /\ UNCHANGED <<checker, inbox, buf, work, maps, checks, told>>

TellClosed(c) ==
  /\ tcp[c].tell = "due"
  /\ tcp' = [tcp EXCEPT ![c].tell = "done"]
  /\ Post(c, [op |-> "closed"])
  /\ UNCHANGED <<checker, buf, work, maps, checks, told>>

----------------------------------------
(* Events of the service thread *)

Idle == work = <<>>

AddConnection(c) ==
  /\ Idle /\ tcp[c].st = "none"
  /\ tcp' = [tcp EXCEPT ![c].st = "up", ![c].watch = TRUE]
  /\ UNCHANGED <<checker, inbox, buf, work, maps, checks, told>>

NewBytesAvailable(c) ==
  /\ Idle /\ inbox[c] # <<>> /\ Head(inbox[c]).op = "bytes"
  /\ inbox' = [inbox EXCEPT ![c] = Tail(@)]
  /\ buf' = [buf EXCEPT ![c] = @ \o Head(inbox[c]).frames]
  /\ work' = <<Read(c)>>
  /\ UNCHANGED <<checker, tcp, maps, checks, told>>

(* A connection leaves its session; the last one leaves it unverified. *)
\* Mutant: a session keeps the connections that left it.
LeaveForgets(c) ==
  /\ dataId' = [dataId EXCEPT ![c] = 0]
  /\ UNCHANGED <<info, checked>>

\* Mutant: the time of the last close is not noted.
LeaveUntimed(c) ==
  LET d == dataId[c]
      rest == info[d].conns \ {c}
  IN
  /\ dataId' = [dataId EXCEPT ![c] = 0]
  /\ info' = [info EXCEPT ![d].conns = rest, ![d].verified = @ /\ rest # {}]
  /\ checked' = IF rest = {} THEN checked \ {d} ELSE checked

Leave(c) ==
  LET d == dataId[c]
      rest == info[d].conns \ {c}
  IN
  /\ dataId' = [dataId EXCEPT ![c] = 0]
  /\ info' = [info EXCEPT ![d].conns = rest,
                          ![d].verified = @ /\ rest # {},
                          ![d].lastClosed = IF rest = {} THEN "recent" ELSE @]
  /\ checked' = IF rest = {} THEN checked \ {d} ELSE checked

(* closed(): half a connection is no connection, close the other half. *)
Closed(c) ==
  /\ Idle /\ inbox[c] # <<>> /\ Head(inbox[c]).op \in {"eof", "closed"}
  /\ inbox' = [inbox EXCEPT ![c] = Tail(@)]
  /\ tcp' = IF Head(inbox[c]).op = "eof" THEN Shut(tcp, c)
            ELSE [tcp EXCEPT ![c].st = "gone"]
  /\ IF dataId[c] = 0 THEN UNCHANGED <<maps, told>>
     ELSE /\ Leave(c)
          /\ told' = [told EXCEPT ![c] = Append(@, "closed")]
          /\ UNCHANGED <<known, clientIds, issued>>
  /\ UNCHANGED <<checker, buf, work, checks>>

----------------------------------------
(* continueRead: the frames of a connection, one at a time, until one of   *)
(* them stops reading or there are no more.                                *)

Reading(c) == work # <<>> /\ Head(work) = Read(c)
ReadOn     == UNCHANGED work
StopRead   == work' = Tail(work)

NoMoreFrames(c) ==
  /\ Reading(c) /\ buf[c] = <<>>
  /\ tcp' = StartReadWatcher(tcp, c) /\ StopRead
  /\ UNCHANGED <<checker, inbox, buf, maps, checks, told>>

Handle(c, frames) ==
  /\ Reading(c) /\ buf[c] # <<>> /\ Head(buf[c]) \in frames
  /\ buf' = [buf EXCEPT ![c] = Tail(@)]
  /\ UNCHANGED <<checker, inbox>>

(* The connection belongs to session d now.  An unverified session goes to *)
(* the checker, which runs later; a verified one is announced at once.     *)
\* Mutant: reading goes on, and the connection is announced, while the
\* session is being checked.
EnterUnchecked(c, d, verified) ==
  /\ dataId' = [dataId EXCEPT ![c] = d]
  /\ info' = [info EXCEPT ![d].conns = @ \cup {c}, ![d].verified = verified \/ ~checker]
  /\ told' = [told EXCEPT ![c] = Append(@, "new")]
  /\ checks' = IF verified \/ ~checker THEN checks ELSE checks \cup {<<d, c>>}
  /\ ReadOn

Enter(c, d, verified) ==
  /\ dataId' = [dataId EXCEPT ![c] = d]
  /\ info' = [info EXCEPT ![d].conns = @ \cup {c}, ![d].verified = verified \/ ~checker]
  /\ IF verified \/ ~checker
       THEN told' = [told EXCEPT ![c] = Append(@, "new")] /\ ReadOn /\ UNCHANGED checks
       ELSE checks' = checks \cup {<<d, c>>} /\ StopRead /\ UNCHANGED told

HelloResumes(c) ==
  LET d == Head(buf[c]).id IN
  /\ Handle(c, {Hello(i) : i \in clientIds}) /\ dataId[c] = 0
  /\ Enter(c, d, info[d].verified)
  /\ UNCHANGED <<tcp, known, clientIds, issued, checked>>

SendNewClientId(c) ==
  LET d == issued + 1 IN
  /\ Handle(c, {Hello(i) : i \in {0} \cup (Ids \ clientIds)}) /\ dataId[c] = 0
  /\ issued' = d /\ known' = known \cup {d} /\ clientIds' = clientIds \cup {d}
  /\ Enter(c, d, FALSE)
  /\ UNCHANGED <<tcp, checked>>

(* No handler is registered for tag 1. *)
HelloAgain(c) ==
  /\ Handle(c, {Hello(d) : d \in Ids \cup {0}}) /\ dataId[c] # 0
  /\ ReadOn /\ UNCHANGED <<tcp, maps, checks, told>>

HandleMsg(c) ==
  /\ Handle(c, {Message}) /\ dataId[c] # 0
  /\ told' = [told EXCEPT ![c] = IF Last(@) = "msg" THEN @ ELSE Append(@, "msg")]
  /\ ReadOn /\ UNCHANGED <<tcp, maps, checks>>

(* A broken message, and any message before the client id, ends the        *)
(* connection; what is still in the buffer is handled nevertheless.        *)
Refuse(c) ==
  /\ Handle(c, {Bad} \cup IF dataId[c] = 0 THEN {Message} ELSE {})
  /\ tcp' = Shut(tcp, c)
  /\ ReadOn /\ UNCHANGED <<maps, checks, told>>

CloseFrame(c) ==
  /\ Handle(c, {Bye})
  /\ tcp' = Shut(tcp, c)
  /\ StopRead /\ UNCHANGED <<maps, checks, told>>

----------------------------------------
(* The checker calls connDataOk, updateConnData or close, from any thread. *)

(* The checker has answered for connection c of session d. *)
Answer(d, c) ==
  /\ Idle /\ <<d, c>> \in checks
  /\ checks' = checks \ {<<d, c>>}
  /\ UNCHANGED <<checker, inbox, buf, clientIds, issued, dataId, told>>

Reject(d, c) ==
  /\ Answer(d, c)
  /\ tcp' = IF tcp[c].st = "up" THEN Shut(tcp, c) ELSE tcp
  /\ UNCHANGED <<work, known, info, checked>>

(* connDataOk of session d: its connections are announced and read on.     *)
\* Mutant: the connections are announced, and not read on.
VerifySilent(d) ==
  /\ work' = IF info[d].verified THEN <<>>
             ELSE LET s == SetToSeq(info[d].conns) IN [i \in 1 .. Len(s) |-> Tell(s[i])]
  /\ info' = [info EXCEPT ![d].verified = TRUE]
  /\ checked' = checked \cup {d}

(* Each connection is announced and then read on, one after the other.     *)
InTurn(s) == [i \in 1 .. 2 * Len(s) |-> IF i % 2 = 1 THEN Tell(s[(i + 1) \div 2])
                                                    ELSE Read(s[i \div 2])]

Verify(d) ==
  /\ IF info[d].verified THEN work' = <<>>
     ELSE \E s \in SetToSeqs(info[d].conns) : work' = InTurn(s)
  /\ info' = [info EXCEPT ![d].verified = TRUE]
  /\ checked' = checked \cup {d}

(* connDataOk makes an entry for a session that has expired; nothing ever  *)
(* removes it.                                                             *)
ConnDataOk(d, c) ==
  /\ Answer(d, c)
  /\ Verify(d) /\ known' = known \cup {d}
  /\ UNCHANGED tcp

UpdateConnData(d, c) ==
  /\ Answer(d, c)
  /\ IF d \in known THEN Verify(d) ELSE UNCHANGED <<work, info, checked>>
  /\ UNCHANGED <<tcp, known>>

NewConnection(c) ==
  /\ work # <<>> /\ Head(work) = Tell(c)
  /\ work' = Tail(work)
  /\ told' = [told EXCEPT ![c] = Append(@, "new")]
  /\ UNCHANGED <<checker, net, buf, maps, checks>>

----------------------------------------
(* The session timeout, and checkTimeout that looks for it *)

TimeoutPasses(d) ==
  /\ Idle /\ d \in known /\ info[d].conns = {} /\ info[d].lastClosed = "recent"
  /\ info' = [info EXCEPT ![d].lastClosed = "old"]
  /\ UNCHANGED <<checker, net, buf, work, dataId, known, clientIds, issued, checked,
                 checks, told>>

Expired == {d \in known : info[d].conns = {} /\ info[d].lastClosed = "old"}

CheckTimeout ==
  /\ Idle /\ Expired # {}
  /\ known' = known \ Expired
  /\ clientIds' = clientIds \ Expired
  /\ info' = [d \in Ids |-> IF d \in Expired THEN NoInfo ELSE info[d]]
  /\ UNCHANGED <<checker, net, buf, work, dataId, issued, checked, checks, told>>

----------------------------------------
Client(c)  == AddConnection(c) \/ Receive(c) \/ EndOfStream(c) \/ Lose(c)
Service(c) == TellClosed(c) \/ NewBytesAvailable(c) \/ Closed(c)
Frames(c)  == NoMoreFrames(c) \/ HelloResumes(c) \/ SendNewClientId(c) \/ HelloAgain(c)
                \/ HandleMsg(c) \/ Refuse(c) \/ CloseFrame(c) \/ NewConnection(c)
Answers    == \E d \in Ids, c \in Conns :
                Reject(d, c) \/ ConnDataOk(d, c) \/ UpdateConnData(d, c)
Clock      == CheckTimeout \/ \E d \in Ids : TimeoutPasses(d)

System == (\E c \in Conns : Service(c) \/ Frames(c)) \/ Answers \/ Clock
Next   == System \/ \E c \in Conns : Client(c)

Spec == Init /\ [][Next]_vars

(* The threads are scheduled, the checker answers, and time passes.  With  *)
(* finitely many connections and frames none of this starves the rest.     *)
FairSpec == Spec /\ WF_vars(System)

----------------------------------------
(* Properties *)

TypeOK ==
  /\ checker \in BOOLEAN
  /\ \A c \in Conns : /\ tcp[c].st \in {"none", "up", "gone"}
                      /\ tcp[c].tell \in {"no", "due", "done"}
                      /\ tcp[c].sent \in 0 .. MaxFrames
                      /\ buf[c] \in Seq(Frame)
  /\ known \subseteq Ids /\ clientIds \subseteq Ids /\ issued \in {0} \cup Ids
  /\ dataId \in [Conns -> {0} \cup Ids]
  /\ \A d \in Ids : info[d].conns \subseteq Conns /\ info[d].verified \in BOOLEAN
  /\ checks \subseteq Ids \X Conns

(* The three maps of the manager agree: a connection is in the set of its  *)
(* own session and of no other, and its session is known and can be        *)
(* resumed.                                                                *)
MapsAgree ==
  /\ clientIds \subseteq known
  /\ \A c \in Conns, d \in Ids : c \in info[d].conns <=> dataId[c] = d
  /\ \A c \in Conns : dataId[c] # 0 => dataId[c] \in clientIds /\ tcp[c].st = "up"

(* No connection is announced before its session was accepted, and once a  *)
(* session had no connection left it has to be accepted again.             *)
CheckedFirst ==
  checker => \A c \in Conns : dataId[c] # 0 /\ told[c] # <<>> => dataId[c] \in checked

(* Listeners hear of a connection at most once, handlers get its messages  *)
(* only between newConnection and connectionClosed, which comes last; and  *)
(* the connection is checked first.  A connection that goes before it is   *)
(* accepted is closed without being new.                                   *)
ToldInOrder ==
  /\ \A c \in Conns : told[c] \in
       {<<>>, <<"closed">>, <<"new">>, <<"new", "msg">>, <<"new", "closed">>,
        <<"new", "msg", "closed">>}
  /\ CheckedFirst

(* A connection is not read only while it is being checked or closed.      *)
StoppedForAReason ==
  \A c \in Conns :
    Idle /\ tcp[c] = [tcp[c] EXCEPT !.st = "up", !.watch = FALSE, !.eof = FALSE, !.tell = "no"]
         /\ inbox[c] = <<>> =>
      <<dataId[c], c>> \in checks /\ ~info[dataId[c]].verified

(* A client that waits for the checker is served or its connection closed. *)
CheckEnds ==
  \A c \in Conns : dataId[c] # 0 /\ told[c] = <<>> ~> told[c] # <<>> \/ tcp[c].st = "gone"

(* A session nobody comes back to is dropped after its timeout.            *)
SessionsExpire ==
  \A d \in Ids : d \in clientIds /\ info[d].conns = {} ~>
                   d \notin clientIds \/ info[d].conns # {}

(* Nothing waits for ever: neither a client nor a session.                 *)
NobodyWaits == CheckEnds /\ SessionsExpire
========================================
