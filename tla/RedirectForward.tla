-------------------------- MODULE RedirectForward --------------------------
(***************************************************************************)
(* The RedirectServer (net/redirectserver.cpp): its table of entries, and  *)
(* the pair of a TCPReader, on the client's connection, and a TCPForwarder,*)
(* on the connection to the destination, that forward bytes to each other. *)
(* The forwarder is built by the handler, on an HTTP thread; both objects  *)
(* then live on the network thread.  Without TLS, where callbacks are made *)
(* by that thread itself.                                                  *)
(***************************************************************************)
EXTENDS TCPEnd, Sequences

CONSTANTS
  MaxEntries, \* entries of the table
  MaxChunks   \* chunks of bytes each peer sends

ASSUME RedirectAssumption == MaxEntries \in Nat /\ MaxChunks \in Nat

Sides == {"in", "out"}   \* TCPReader, TCPForwarder
Other(s) == IF s = "in" THEN "out" ELSE "in"

Entry == [does: {"valid"}, default: {FALSE}, invert: {FALSE}, matches: BOOLEAN]
           \cup [does: {"redirect", "forward"}, default: BOOLEAN, invert: BOOLEAN, matches: BOOLEAN]

VARIABLES
  entries,   \* the table, with what its tests say of the url
  building,  \* how far the handler is
  answer,    \* what it answered the request itself
  line,      \* the two connections
  obj,       \* TCPReader and TCPForwarder: life, pointer to the other, deletions scheduled
  chunks,    \* what each peer sent
  mishap,    \* history: what went wrong, of Mishaps
  twice,     \* history: closed() was scheduled again before it was called
  dropped,   \* history: sides whose bytes were not passed on
  over       \* history: sides that were ended by their peer, an error or stop()

redirectvars == <<entries, building, answer, line, obj, chunks, mishap, twice, dropped, over>>

(* raced: the reader went before the forwarder had its pointer; forgotten: *)
(* closed() was asked for and is not called for the write half; misused:   *)
(* an object was used, or deleted, after its end.                          *)
Mishaps == {"raced", "forgotten", "misused"}

RedirectInit ==
  /\ entries \in UNION {[1 .. n -> Entry] : n \in 0 .. MaxEntries}
  /\ building = "handler" /\ answer = "none"
  /\ line = [s \in Sides |-> NewEnd]
  /\ obj = [s \in Sides |-> [life |-> "none", knows |-> FALSE, deletes |-> 0]]
  /\ chunks = [s \in Sides |-> 0]
  /\ mishap = {} /\ twice = FALSE /\ dropped = {} /\ over = {}

----------------------------------------
(* handleRequest *)

Applies(e) == e.default \/ e.matches # e.invert

(* The first entry that applies decides; a valid url, or none at all, is   *)
(* left to the next handler.                                               *)
Decision ==
  LET hits == {i \in 1 .. Len(entries) : Applies(entries[i])}
  IN  IF hits = {} THEN "valid"
      ELSE entries[CHOOSE i \in hits : \A j \in hits : i <= j].does

Ends(how) == building' = how /\ entries' = <<>>

HandleRequest ==
  /\ building = "handler"
  /\ \/ Decision = "valid"    /\ Ends("left")     /\ answer' = "none"
     \/ Decision = "redirect" /\ Ends("answered") /\ answer' = "redirect"
     \/ Decision = "forward"  /\ Ends("left")     /\ answer' = "none"      \* no TCPManager
     \/ Decision = "forward"  /\ Ends("answered") /\ answer' = "notFound"  \* no connection
  /\ UNCHANGED <<line, obj, chunks, mishap, dropped, over>>

(* The forwarder is built and writes the request it was given. *)
NewForwarder ==
  /\ building = "handler" /\ Decision = "forward"
  /\ Ends("detach")
  /\ line' = [line EXCEPT !["out"] = Write(@)]
  /\ obj' = [obj EXCEPT !["out"].life = "live"]
  /\ UNCHANGED <<answer, chunks, mishap, dropped, over>>

(* It gets no connection from the request and deletes itself, *)
CannotDetach ==
  /\ building = "detach"
  /\ building' = "failed"
  /\ obj' = [obj EXCEPT !["out"].deletes = @ + 1]
  /\ UNCHANGED <<entries, answer, line, chunks, mishap, dropped, over>>

(* or it builds the reader, which starts to read, *)
NewReader ==
  /\ building = "detach"
  /\ building' = "assign"
  /\ line' = [line EXCEPT !["in"] = StartRead(@)]
  /\ obj' = [obj EXCEPT !["in"].life = "live", !["in"].knows = TRUE]
  /\ UNCHANGED <<entries, answer, chunks, mishap, dropped, over>>

(* and only then learns where it is, *)
AssignReader ==
  /\ building = "assign"
  /\ building' = "watch"
  /\ obj' = [obj EXCEPT !["out"].knows = TRUE]
  /\ mishap' = IF obj["in"].deletes > 0 \/ obj["in"].life = "freed"
                 THEN mishap \cup {"raced"} ELSE mishap
  /\ UNCHANGED <<entries, answer, line, chunks, dropped, over>>

(* and starts to read as well. *)
WatchDestination ==
  /\ building = "watch"
  /\ building' = "built"
  /\ line' = [line EXCEPT !["out"] = StartRead(@)]
  /\ UNCHANGED <<entries, answer, obj, chunks, mishap, dropped, over>>

----------------------------------------
(* The network thread: the callbacks of both objects. *)

Gone(s)   == obj[s].life = "freed"
Misuse(s) == IF Gone(s) \/ (obj[s].knows /\ Gone(Other(s))) THEN {"misused"} ELSE {}

(* newBytesAvailable: what came goes to the other side; the watcher, which *)
(* has stopped, is started again.                                          *)
NewBytes(s) ==
  /\ line[s].watch /\ chunks[s] < MaxChunks
  /\ chunks' = [chunks EXCEPT ![s] = @ + 1]
  /\ line' = IF obj[s].knows THEN [line EXCEPT ![Other(s)] = Write(@)] ELSE line
  /\ dropped' = IF obj[s].knows /\ W \notin line[Other(s)].closed THEN dropped ELSE dropped \cup {s}
  /\ mishap' = mishap \cup Misuse(s)
  /\ UNCHANGED <<entries, building, answer, obj, over>>

(* closed() of side s is called. *)
Called(s) == [line EXCEPT ![s].telling = @ - 1]
Calls(s)  ==
  /\ line[s].telling > 0
  /\ UNCHANGED <<entries, building, answer, chunks, dropped, over>>

(* Side s deletes itself and, when told, the other no longer knows it. *)
Leave(s, told) ==
  obj' = [obj EXCEPT ![s].deletes = @ + 1,
                     ![Other(s)].knows = @ /\ ~(told /\ obj[s].knows)]

(* TCPForwarder::closed: the destination has no more to say, the client is *)
(* told so behind the last byte.  The reader is to go when it is told that *)
(* its connection is closed both ways: it is not when that already was so, *)
(* or is put off.                                                          *)
ForwarderClosed ==
  LET c      == Called("out")
      reader == IF obj["out"].knows THEN CloseGently(c["in"], ReadWriteClosed, TRUE) ELSE c["in"]
      known  == obj["out"].knows /\ (reader.closing \/ (c["in"].closed = reader.closed /\ reader.telling = 0))
  IN
  /\ Calls("out")
  /\ \/ R \notin line["out"].closed /\ line' = c /\ UNCHANGED <<obj, mishap>>
     \/ /\ R \in line["out"].closed
        /\ line' = [c EXCEPT !["in"] = reader]
        /\ Leave("out", TRUE)
        /\ mishap' = mishap \cup Misuse("out") \cup IF known THEN {"forgotten"} ELSE {}

(* TCPReader::closed: a client that is gone ends both; one that only has   *)
(* said its last word still gets the reply.                                *)
ReaderClosedTelling(told, last) ==
  /\ Calls("in")
  /\ line' = LET c == Called("in") IN
             IF ~obj["in"].knows THEN c
             ELSE [c EXCEPT !["out"] = CloseGently(@, IF W \in c["in"].closed THEN ReadWriteClosed ELSE last, FALSE)]
  /\ IF W \in line["in"].closed THEN Leave("in", told) ELSE UNCHANGED obj
  /\ mishap' = mishap \cup Misuse("in")

\* Mutant: the last word of the client ends the other connection both ways.
ReaderClosedBoth == ReaderClosedTelling(TRUE, ReadWriteClosed)

ReaderClosed == ReaderClosedTelling(TRUE, {W})

(* deleteNext: the object goes, its connection closes behind its last byte. *)
DeleteNext(s) ==
  /\ obj[s].deletes > 0
  /\ obj' = [obj EXCEPT ![s].deletes = @ - 1, ![s].life = "freed"]
  /\ line' = [line EXCEPT ![s] = CloseGently([@ EXCEPT !.watch = FALSE], ReadWriteClosed, FALSE)]
  /\ mishap' = IF Gone(s) THEN mishap \cup {"misused"} ELSE mishap
  /\ UNCHANGED <<entries, building, answer, chunks, dropped, over>>

----------------------------------------
(* The network thread: the sockets. *)

Socket(s, c) ==
  /\ line' = [line EXCEPT ![s] = c]
  /\ over' = IF R \in c.closed \ line[s].closed THEN over \cup {s} ELSE over
  /\ UNCHANGED <<entries, building, answer, obj, chunks, mishap, dropped>>

PeerEnds(s)   == line[s].watch /\ Socket(s, Close(line[s], {R}))
PeerResets(s) == line[s].watch /\ Socket(s, Close(line[s], HardClosed))

Drain(s) ==
  /\ line[s].unsent /\ W \notin line[s].closed
  /\ \/ Socket(s, Sent(line[s]))
     \/ Socket(s, Unsent(line[s], {W}))
     \/ Socket(s, Unsent(line[s], HardClosed))

(* TCPManagerImpl::stop closes every connection. *)
ManagerStops ==
  /\ building # "handler" /\ \E s \in Sides : line[s].closed # HardClosed
  /\ line' = [s \in Sides |-> Close(line[s], HardClosed)]
  /\ over' = Sides
  /\ UNCHANGED <<entries, building, answer, obj, chunks, mishap, dropped>>

RedirectStep ==
  \/ HandleRequest \/ NewForwarder \/ CannotDetach \/ NewReader \/ AssignReader \/ WatchDestination
  \/ ForwarderClosed \/ ReaderClosed \/ ManagerStops
  \/ \E s \in Sides : NewBytes(s) \/ DeleteNext(s) \/ PeerEnds(s) \/ PeerResets(s) \/ Drain(s)

(* Nothing is said of a program that has used an object after its end. *)
RedirectNext ==
  /\ "misused" \notin mishap
  /\ RedirectStep
  /\ twice' = (twice \/ \E s \in Sides : line'[s].telling > 1)

RedirectSpec == RedirectInit /\ [][RedirectNext]_redirectvars

----------------------------------------
(* Properties *)

RedirectTypeOK ==
  /\ building \in {"handler", "left", "answered", "detach", "failed", "assign", "watch", "built"}
  /\ answer \in {"none", "redirect", "notFound"}
  /\ \A s \in Sides : /\ obj[s].life \in {"none", "live", "freed"} /\ obj[s].knows \in BOOLEAN
                      /\ line[s].closed \subseteq HardClosed /\ line[s].telling \in Nat
  /\ mishap \subseteq Mishaps /\ dropped \subseteq Sides

(* Nothing is scheduled, and no byte waits. *)
AtRest == \A s \in Sides : line[s].telling = 0 /\ obj[s].deletes = 0 /\ ~line[s].unsent

(* A pair of forwarding connections ends as one.  Neither object is used   *)
(* or deleted after its end.  A client that has said its last word still   *)
(* gets the whole reply: the destination is left only at its own end or    *)
(* the client's, and bytes are dropped only when who is to get them is     *)
(* gone.  An end of one side reaches the other, and nothing is left when   *)
(* both are at an end.  The exceptions are the code's: a second closed()   *)
(* for the same state deletes twice (see ClosedOncePerState), a client     *)
(* that ends before the handler has stored the pointer leaves a pointer to *)
(* a deleted reader, and a reader whose last bytes wait, or whose          *)
(* connection was closed without a word, is never deleted.                 *)
ForwardsToTheEnd ==
  /\ "misused" \in mishap => twice \/ "raced" \in mishap
  /\ building \in {"assign", "watch", "built"} /\ R \in line["out"].closed =>
       "out" \in over \/ W \in line["in"].closed
  /\ "out" \in dropped => W \in line["in"].closed
  /\ "in" \in dropped => line["out"].closed # {}
  /\ AtRest /\ building = "built" /\ ~twice /\ "raced" \notin mishap =>
       /\ R \in line["in"].closed /\ ~Gone("in") => W \in line["out"].closed
       /\ R \in line["out"].closed => W \in line["in"].closed /\ Gone("out")
       /\ Gone("out") => Gone("in") \/ "forgotten" \in mishap
========================================
