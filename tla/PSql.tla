-------------------------------- MODULE PSql --------------------------------
(***************************************************************************)
(* Transactions and prepared statements of one thread's PostgreSQL         *)
(* connection (db/psql/psql.cpp).  PSql objects live on the stack of the   *)
(* thread and share its ThreadData; a begin() inside a transaction is a    *)
(* sub-transaction that only remembers a rollback for the outermost one.   *)
(* An object prepares statements under the name of its place in the stack. *)
(* Below, the server as libpq shows it.                                    *)
(***************************************************************************)
EXTENDS Integers, Sequences

CONSTANT Depth   \* PSql objects that live at the same time

ASSUME PSqlAssumption == Depth \in Nat \ {0}

Names == 1 .. Depth   \* instanceName_, from instanceCount

VARIABLES
  sql,    \* the PSql objects, the innermost last
  td,     \* ThreadData: transactionActive, doRollback, preparedStatements
  conn,   \* the server: up, its transaction, its prepared statements, the
          \* object whose rows are waiting (0: none)
  hist    \* history: of the transaction that is active, that a part of it was
          \* rolled back, an exec was refused, something failed that no call
          \* tells; of the last one until the next begins, what commit
          \* returned, whether its changes were kept, and whether the answer
          \* to COMMIT was lost

vars == <<sql, td, conn, hist>>

NewSql == [local |-> FALSE, nested |-> FALSE, res |-> FALSE, first |-> TRUE,
           query |-> FALSE, isPrepared |-> FALSE, prepareUsed |-> FALSE]

NewTx == [spoiled |-> FALSE, refused |-> FALSE, hidden |-> FALSE]
NewHist == [tx |-> NewTx, rv |-> FALSE, kept |-> FALSE, lost |-> FALSE, last |-> NewTx]

Init ==
  /\ sql = <<>>
  /\ td = [active |-> FALSE, doRollback |-> FALSE, left |-> {}]
  /\ conn = [up |-> TRUE, tx |-> "none", stmts |-> {}, rows |-> 0]
  /\ hist = NewHist

----------------------------------------
(* The server.  An error in a transaction spoils it until its end; COMMIT  *)
(* of a spoiled transaction is a ROLLBACK that reports success.  PQexec    *)
(* throws away the rows of another query, PQsendQuery fails on them.       *)

Down       == [up |-> FALSE, tx |-> "none", stmts |-> {}, rows |-> 0]
Discard(c) == [c EXCEPT !.rows = 0]
Spoil(c)   == [c EXCEPT !.tx = IF @ = "open" THEN "failed" ELSE @]
Runs(c)    == c.up /\ c.tx # "failed"
BeginTx(c) == IF Runs(c) THEN [Discard(c) EXCEPT !.tx = "open"] ELSE Discard(c)
EndTx(c)   == [Discard(c) EXCEPT !.tx = "none"]

Prepared(c, n) == [Discard(c) EXCEPT !.stmts = @ \cup {n}]

CanDeallocate(c, n) == Runs(c) /\ n \in c.stmts
Deallocate(c, n) ==
  IF CanDeallocate(c, n) THEN [Discard(c) EXCEPT !.stmts = @ \ {n}]
  ELSE Spoil(Discard(c))

----------------------------------------
(* What the functions of PSql do to the shared state s. *)

Shared     == [td |-> td, conn |-> conn, hist |-> hist]
Becomes(s) == td' = s.td /\ conn' = s.conn /\ hist' = s.hist

(* clearResult: what waits is read to its end, whoever asked for it.       *)
Cleared(s, k) == IF sql[k].res THEN [s EXCEPT !.conn = Discard(@)] ELSE s

Noted(s, flag) == IF s.td.active THEN [s EXCEPT !.hist.tx[flag] = TRUE] ELSE s

(* removePreparedStatement.  DEALLOCATE never returns the PGRES_TUPLES_OK  *)
(* it is compared with: the name is always kept for another try.           *)
Removed(s, k) ==
  LET r == [s EXCEPT !.conn = Deallocate(@, k), !.td.left = @ \cup {k}] IN
  IF ~sql[k].prepareUsed THEN s
  ELSE IF CanDeallocate(s.conn, k) THEN r ELSE Noted(r, "hidden")

(* The end of the outermost transaction: COMMIT or ROLLBACK, then the      *)
(* statements left over are removed.                                       *)
Ended(s, rv, kept) ==
  [td   |-> [s.td EXCEPT !.active = FALSE, !.left = {}],
   conn |-> [EndTx(s.conn) EXCEPT !.stmts = IF s.conn.up THEN @ \ s.td.left ELSE @],
   hist |-> [tx |-> NewTx, rv |-> rv, kept |-> kept, lost |-> FALSE, last |-> s.hist.tx]]

\* Mutant: a sub-transaction that is rolled back is forgotten.
RolledBackForgets(s, k) ==
  IF sql[k].nested THEN Noted(s, "spoiled")
  ELSE [Ended(s, FALSE, FALSE) EXCEPT !.td.doRollback = FALSE]

\* Mutant: the mark of a sub-transaction outlives the transaction.
RolledBackMarked(s, k) ==
  IF sql[k].nested THEN Noted([s EXCEPT !.td.doRollback = TRUE], "spoiled")
  ELSE Ended(s, FALSE, FALSE)

RolledBack(s, k) ==
  IF sql[k].nested THEN Noted([s EXCEPT !.td.doRollback = TRUE], "spoiled")
  ELSE [Ended(s, FALSE, FALSE) EXCEPT !.td.doRollback = FALSE]

----------------------------------------
(* The calls.  Callers nest their transactions: the one that is ended is   *)
(* the one begun last.                                                     *)

Innermost(k) == \A j \in k + 1 .. Len(sql) : ~sql[j].local

Construct ==
  /\ Len(sql) < Depth
  /\ sql' = Append(sql, NewSql)
  /\ UNCHANGED <<td, conn, hist>>

Begin(k) ==
  /\ ~sql[k].local /\ Innermost(k)
  /\ sql' = [sql EXCEPT ![k].local = TRUE, ![k].nested = td.active]
  /\ IF td.active THEN UNCHANGED <<td, conn, hist>>
     ELSE Becomes([td |-> [td EXCEPT !.active = TRUE], conn |-> BeginTx(conn), hist |-> NewHist])

(* COMMIT reports success, is refused (a deferred constraint), or is       *)
(* broken off: it is done or not, and nobody is told which.                *)
CommitLost(kept) ==
  [Ended([Shared EXCEPT !.conn = Down], FALSE, kept) EXCEPT !.hist.lost = TRUE]

Commit(k) ==
  /\ sql[k].local /\ Innermost(k) /\ ~td.doRollback
  /\ sql' = [sql EXCEPT ![k].local = FALSE]
  /\ IF sql[k].nested THEN UNCHANGED <<td, conn, hist>>
     ELSE \/ Becomes(Ended(Shared, conn.up, conn.up /\ conn.tx = "open"))
          \/ conn.tx = "open" /\ Becomes(Ended(Shared, FALSE, FALSE))
          \/ conn.tx = "open" /\ \E kept \in BOOLEAN : Becomes(CommitLost(kept))

(* rollback(), and commit() of a transaction that must be rolled back. *)
Rollback(k) ==
  /\ sql[k].local /\ Innermost(k)
  /\ sql' = [sql EXCEPT ![k].local = FALSE]
  /\ Becomes(RolledBack(Shared, k))

Destroy ==
  LET k == Len(sql)
      c == Cleared(Shared, k)
  IN
  /\ sql # <<>>
  /\ sql' = SubSeq(sql, 1, k - 1)
  /\ Becomes(Removed(IF sql[k].local THEN RolledBack(c, k) ELSE c, k))

Prepare(k) ==
  /\ sql' = [sql EXCEPT ![k].query = TRUE, ![k].isPrepared = FALSE]
  /\ UNCHANGED <<td, conn, hist>>

(* A query of object k gives rows, or rows and then an error, or nothing,  *)
(* or an error; o is the object then.  It is not sent while the rows of    *)
(* another one wait.  An error after rows ends them like the last row      *)
(* does: whoever reads them to the end is not told.                        *)
Query(k, o, s, valid) ==
  \/ /\ valid /\ Runs(s.conn) /\ s.conn.rows = 0
     /\ \/ /\ sql' = [sql EXCEPT ![k] = [o EXCEPT !.res = TRUE, !.first = TRUE]]
           /\ \/ Becomes([s EXCEPT !.conn.rows = k])
              \/ Becomes(Noted([s EXCEPT !.conn = [Spoil(@) EXCEPT !.rows = k]], "hidden"))
        \/ sql' = [sql EXCEPT ![k] = o] /\ Becomes(s)
  \/ /\ sql' = [sql EXCEPT ![k] = o]
     /\ Becomes(Noted([s EXCEPT !.conn = IF @.rows = 0 THEN Spoil(@) ELSE @], "refused"))

(* After a rollback of a part, exec only returns false. *)
Exec(k) ==
  /\ ~td.doRollback
  /\ Query(k, [sql[k] EXCEPT !.res = FALSE], Cleared(Shared, k), TRUE)

ExecAgain(k) ==
  /\ sql[k].isPrepared /\ ~td.doRollback
  /\ Query(k, [sql[k] EXCEPT !.res = FALSE], Cleared(Shared, k), k \in conn.stmts)

(* The statement replaces the one the object had.  When it cannot be       *)
(* prepared, isPrepared_ stays set.                                        *)
ExecFirst(k) ==
  LET s == Removed(Cleared(Shared, k), k)
      o == [sql[k] EXCEPT !.res = FALSE, !.isPrepared = TRUE, !.prepareUsed = FALSE]
  IN
  /\ sql[k].query /\ ~sql[k].isPrepared /\ ~td.doRollback
  /\ \/ /\ Runs(s.conn) /\ k \notin s.conn.stmts
        /\ Query(k, [o EXCEPT !.prepareUsed = TRUE],
                 [s EXCEPT !.conn = Prepared(@, k)], TRUE)
     \/ /\ sql' = [sql EXCEPT ![k] = o]
        /\ Becomes(Noted([s EXCEPT !.conn = Spoil(Discard(@))], "refused"))

(* execMultiple: done or refused, also after a rollback of a part.         *)
ExecMultiple ==
  /\ UNCHANGED sql
  /\ \/ Runs(conn) /\ Becomes([Shared EXCEPT !.conn = Discard(@)])
     \/ Becomes(Noted([Shared EXCEPT !.conn = Spoil(Discard(@))], "refused"))

(* next(): the first row is there; the others are fetched, the last fetch  *)
(* ends the query, and so does one that finds an error.                    *)
NextFirst(k) ==
  /\ sql[k].res /\ sql[k].first
  /\ sql' = [sql EXCEPT ![k].first = FALSE]
  /\ UNCHANGED <<td, conn, hist>>

NextEnd(k) ==
  /\ sql[k].res /\ ~sql[k].first
  /\ sql' = [sql EXCEPT ![k].res = FALSE] /\ conn' = Discard(conn)
  /\ UNCHANGED <<td, hist>>

(* The connection breaks; the thread's event loop finds out and reconnects *)
(* when no object is on the stack.                                         *)
Break ==
  /\ conn.up
  /\ conn' = Down
  /\ UNCHANGED <<sql, td, hist>>

CheckConnection ==
  /\ sql = <<>> /\ ~conn.up
  /\ conn' = [conn EXCEPT !.up = TRUE]
  /\ UNCHANGED <<sql, td, hist>>

Call(k) == Begin(k) \/ Commit(k) \/ Rollback(k) \/ Prepare(k) \/ Exec(k)
             \/ ExecAgain(k) \/ ExecFirst(k) \/ NextFirst(k) \/ NextEnd(k)

Next == Construct \/ Destroy \/ Break \/ CheckConnection
          \/ (sql # <<>> /\ ExecMultiple) \/ \E k \in 1 .. Len(sql) : Call(k)

Spec == Init /\ [][Next]_vars

----------------------------------------
(* Properties *)

Sql  == [local: BOOLEAN, nested: BOOLEAN, res: BOOLEAN, first: BOOLEAN,
         query: BOOLEAN, isPrepared: BOOLEAN, prepareUsed: BOOLEAN]
Td   == [active: BOOLEAN, doRollback: BOOLEAN, left: SUBSET Names]
Conn == [up: BOOLEAN, tx: {"none", "open", "failed"}, stmts: SUBSET Names, rows: Nat]
Tx   == [spoiled: BOOLEAN, refused: BOOLEAN, hidden: BOOLEAN]
Hist == [tx: Tx, rv: BOOLEAN, kept: BOOLEAN, lost: BOOLEAN, last: Tx]

(* Types; and the rows that wait are those of an object that reads them.   *)
TypeOK ==
  /\ sql \in Seq(Sql) /\ Len(sql) <= Depth
  /\ td \in Td /\ conn \in Conn /\ hist \in Hist
  /\ conn.rows # 0 => conn.rows <= Len(sql) /\ sql[conn.rows].res

Outermost(k) == sql[k].local /\ ~sql[k].nested

(* One object owns the transaction of the thread, sub-transactions are     *)
(* inside it, and the mark to roll back belongs to it.  No transaction and *)
(* no mark is left when the last object has gone, however it went.         *)
OneOwner ==
  /\ td.active <=> \E k \in 1 .. Len(sql) : Outermost(k)
  /\ \A k \in 1 .. Len(sql) : Outermost(k) => \A j \in 1 .. k - 1 : ~sql[j].local
  /\ \A k \in 1 .. Len(sql) : sql[k].local => td.active
  /\ td.doRollback \/ conn.tx # "none" => td.active
  /\ hist.tx.spoiled => td.doRollback

(* What the end of a transaction tells its caller.  Changes are never kept *)
(* when a part was rolled back, or when commit() was not called; when it   *)
(* returned false they are kept only if the connection broke in it.  When  *)
(* it returned true they were kept, unless the server had refused          *)
(* something before: an exec that returned false, or what no call tells, a *)
(* DEALLOCATE, or a query that broke off after rows.                       *)
CommitTells ==
  /\ hist.kept => ~hist.last.spoiled
  /\ hist.kept /\ ~hist.rv => hist.lost
  /\ hist.rv /\ ~hist.kept => hist.last.refused \/ hist.last.hidden

(* A prepared statement on the server belongs to an object that lives, or  *)
(* its removal is tried again at the end of a failed transaction: a new    *)
(* object never meets a statement of its own name.                         *)
Leftovers ==
  \A n \in conn.stmts :
    \/ n <= Len(sql) /\ sql[n].prepareUsed
    \/ n \in td.left /\ conn.tx = "failed"

(* The end of a transaction tells its caller the truth and leaves nothing  *)
(* on the server that no object will remove.                               *)
EndsClean == CommitTells /\ Leftovers
----------------------------------------
(* A promise of db/psql/psql.cpp that the code does not keep: "try again   *)
(* to remove prepared statements" (psql.cpp:349).  What the end of a       *)
(* transaction removes are statements whose removal failed before; it      *)
(* never takes away the statement an object has prepared and goes on       *)
(* using.                                                                  *)
StatementKept ==
  \A k \in 1 .. Len(sql) : sql[k].prepareUsed /\ conn.up => k \in conn.stmts
========================================
