------------------------------- MODULE TCPEnd -------------------------------
(***************************************************************************)
(* What the users of a TCPConn see of it (see TCPConnection for the whole  *)
(* of it): a record with the fields                                        *)
(*   watch    the read watcher is active                                   *)
(*   closed   the halves that are closed                                   *)
(*   informed the halves that were closed when closed() was last scheduled *)
(*   telling  the closed() callbacks that are scheduled                    *)
(* and, where the user's bytes can be slow to leave,                       *)
(*   unsent   bytes wait in writeBuf                                       *)
(*   closing  the write half is to be closed after them                    *)
(***************************************************************************)
EXTENDS Integers

R == "read"
W == "write"
ReadWriteClosed == {R, W}
HardClosed      == {R, W, "hard"}

Tell(c) == IF c.informed = c.closed THEN c
           ELSE [c EXCEPT !.informed = c.closed, !.telling = @ + 1]

StartRead(c) == IF R \in c.closed THEN Tell(c) ELSE [c EXCEPT !.watch = TRUE]

(* Some halves close at once; whoever waits for bytes is told. *)
CloseNow(c, type, notify) ==
  LET e == [c EXCEPT !.closed = @ \cup type, !.watch = @ /\ R \notin type]
  IN  IF e.closed # c.closed /\ (notify \/ e.watch # c.watch) THEN Tell(e) ELSE e

Close(c, type) == CloseNow(c, type, FALSE)

(* The write half stays open until the bytes are out, except in a hard     *)
(* close; what notify asked for is not kept until then.                    *)
CloseGently(c, type, notify) ==
  IF c.unsent /\ W \in type \ c.closed /\ c.closed \cup type # HardClosed
    THEN CloseNow([c EXCEPT !.closing = TRUE], type \ {W}, notify)
    ELSE CloseNow(c, type, notify)

Write(c) == [c EXCEPT !.unsent = W \notin c.closed]

(* The socket took the last byte, or refused it. *)
Sent(c) ==
  LET e == [c EXCEPT !.unsent = FALSE]
  IN  IF c.closing THEN CloseNow(e, {W}, FALSE) ELSE e

Unsent(c, type) == CloseNow([c EXCEPT !.unsent = FALSE], type, FALSE)

NewEnd == [watch |-> FALSE, closed |-> {}, informed |-> {}, telling |-> 0,
           unsent |-> FALSE, closing |-> FALSE]
========================================
