-------------------------- MODULE QtSqlTransaction --------------------------
(***************************************************************************)
(* ScopedTransaction (db/db.cpp): the transactions of one thread over      *)
(* QSqlDatabase.  Scopes nest on the stack; only the outermost one talks   *)
(* to the server, a nested one that is not committed makes it roll back.   *)
(***************************************************************************)
EXTENDS Integers, Sequences

CONSTANT Scopes   \* scopes that are open at the same time

ASSUME ScopesAssumption == Scopes \in Nat

VARIABLES
  stack,   \* the ScopedTransactions: nested_, committed_
  thread,  \* ThreadData: transactionActive, doRollback
  server,  \* the connection is open; a transaction is open on it
  past     \* history: a scope of the transaction that is open ended without
           \* commit, a query of it was refused; of the last transaction
           \* that ended, the same, what commit() returned, whether its
           \* changes were kept, whether the connection broke in its COMMIT

qtvars == <<stack, thread, server, past>>

QtInit ==
  /\ stack = <<>>
  /\ thread = [active |-> FALSE, doRollback |-> FALSE]
  /\ server = [up |-> TRUE, tx |-> FALSE]
  /\ past = [dropped |-> FALSE, refused |-> FALSE, lastDropped |-> FALSE,
             lastRefused |-> FALSE, told |-> FALSE, kept |-> FALSE, lost |-> FALSE]

TxEnds(told, kept, lost) ==
  past' = [dropped |-> FALSE, refused |-> FALSE, lastDropped |-> past.dropped,
           lastRefused |-> past.refused, told |-> told, kept |-> kept, lost |-> lost]

(* When the transaction cannot be started that is only logged. *)
Enter ==
  /\ Len(stack) < Scopes
  /\ stack' = Append(stack, [nested |-> thread.active, committed |-> FALSE])
  /\ thread' = [thread EXCEPT !.active = TRUE]
  /\ server' = IF thread.active THEN server ELSE [server EXCEPT !.tx = server.up]
  /\ UNCHANGED past

(* exec() of a query returns false: it is refused, and the server may have *)
(* rolled the transaction back (a deadlock).                               *)
QueryRefused ==
  /\ stack # <<>>
  /\ server' \in {server, [server EXCEPT !.tx = FALSE]}
  /\ past' = [past EXCEPT !.refused = thread.active]
  /\ UNCHANGED <<stack, thread>>

(* What the server makes of COMMIT: it is done, refused, or broken off,    *)
(* and then done or not.  Without a transaction there is nothing to do.    *)
CommitOnServer ==
  \/ server.up /\ server' = [server EXCEPT !.tx = FALSE] /\ TxEnds(TRUE, server.tx, FALSE)
  \/ server' = [server EXCEPT !.tx = FALSE] /\ TxEnds(FALSE, FALSE, FALSE)
  \/ /\ server.tx /\ server' = [up |-> FALSE, tx |-> FALSE]
     /\ \E kept \in BOOLEAN : TxEnds(FALSE, kept, TRUE)

(* commit() of the scope entered last; it answers at most once. *)
CommitScope ==
  LET k == Len(stack) IN
  /\ stack # <<>> /\ ~stack[k].committed
  /\ stack' = [stack EXCEPT ![k].committed = TRUE]
  /\ IF thread.doRollback \/ stack[k].nested THEN UNCHANGED <<thread, server, past>>
     ELSE CommitOnServer /\ thread' = [thread EXCEPT !.active = FALSE]

\* Mutant: the mark is taken back only by a scope that did not commit.
LeaveMarked ==
  LET s == stack[Len(stack)] IN
  /\ stack # <<>>
  /\ stack' = SubSeq(stack, 1, Len(stack) - 1)
  /\ IF s.committed THEN UNCHANGED <<thread, server, past>>
     ELSE IF s.nested
     THEN /\ thread' = [thread EXCEPT !.doRollback = TRUE]
          /\ past' = [past EXCEPT !.dropped = TRUE]
          /\ UNCHANGED server
     ELSE /\ thread' = [active |-> FALSE, doRollback |-> FALSE]
          /\ server' = [server EXCEPT !.tx = FALSE]
          /\ TxEnds(FALSE, FALSE, FALSE)

(* The destructor. *)
Leave ==
  LET s == stack[Len(stack)]
      rollback == thread.doRollback \/ ~s.committed
  IN
  /\ stack # <<>>
  /\ stack' = SubSeq(stack, 1, Len(stack) - 1)
  /\ IF rollback /\ ~s.nested
     THEN /\ thread' = [active |-> FALSE, doRollback |-> FALSE]
          /\ server' = [server EXCEPT !.tx = FALSE]
          /\ TxEnds(FALSE, FALSE, FALSE)
     ELSE /\ thread' = [thread EXCEPT !.doRollback = rollback]
          /\ past' = [past EXCEPT !.dropped = @ \/ ~s.committed]
          /\ UNCHANGED server

(* The connection breaks; a timer of the thread opens it again, and so     *)
(* does the next use after closeDBConnection.                              *)
ServerBreaks ==
  /\ server.up /\ server' = [up |-> FALSE, tx |-> FALSE]
  /\ UNCHANGED <<stack, thread, past>>

CheckQtConnection ==
  /\ stack = <<>> /\ ~server.up /\ server' = [server EXCEPT !.up = TRUE]
  /\ UNCHANGED <<stack, thread, past>>

CloseDBConnection ==
  /\ stack = <<>>
  /\ thread' = [active |-> FALSE, doRollback |-> FALSE]
  /\ server' = [up |-> TRUE, tx |-> FALSE]
  /\ UNCHANGED <<stack, past>>

QtNext == Enter \/ QueryRefused \/ CommitScope \/ Leave \/ ServerBreaks \/ CheckQtConnection \/ CloseDBConnection

QtSpec == QtInit /\ [][QtNext]_qtvars

----------------------------------------
(* Properties *)

QtTypeOK ==
  /\ stack \in Seq([nested: BOOLEAN, committed: BOOLEAN]) /\ Len(stack) <= Scopes
  /\ thread \in [active: BOOLEAN, doRollback: BOOLEAN]
  /\ server \in [up: BOOLEAN, tx: BOOLEAN]
  /\ past \in [dropped: BOOLEAN, refused: BOOLEAN, lastDropped: BOOLEAN, lastRefused: BOOLEAN,
               told: BOOLEAN, kept: BOOLEAN, lost: BOOLEAN]

(* What commit() of the outermost scope said is true: the changes are kept *)
(* when it returned true and no query had been refused, and never when a   *)
(* scope inside ended without commit; they are kept after false only when  *)
(* the connection broke in the COMMIT, which then nobody can tell.  A      *)
(* scope that ends, however its transaction ended, leaves no transaction   *)
(* and no mark to roll back to the next one of the thread.                 *)
ScopesTell ==
  /\ past.told => past.kept \/ past.lastRefused
  /\ past.kept /\ ~past.told => past.lost
  /\ past.kept => ~past.lastDropped
  /\ thread.active \/ thread.doRollback \/ server.tx =>
       \E k \in 1 .. Len(stack) : ~stack[k].nested
  /\ past.dropped <=> thread.doRollback
========================================
