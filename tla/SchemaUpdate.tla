---------------------------- MODULE SchemaUpdate ----------------------------
(***************************************************************************)
(* Schema migration (db/psql/schema.cpp): update() applies the revisions   *)
(* of a schema file that the database has not seen, each in a transaction  *)
(* of its own.  Programs start it when they start; they may crash anywhere *)
(* in it, and nothing keeps two of them from running it at once.           *)
(***************************************************************************)
EXTENDS Integers, FiniteSets

CONSTANTS Updaters,   \* programs that update the same database
          Last,       \* revisions of the file, the head "__initial__" first
          Pieces,     \* pieces of SQL and migrator calls of a revision
          MaxAgain    \* bound: times a revision is there when a reading breaks off

ASSUME SchemaAssumption == Last \in Nat \ {0} /\ Pieces \in Nat \ {0} /\ MaxAgain \in Nat

Revisions == 1 .. Last

VARIABLES
  db,    \* the database: table __scheme_revisions__ and its rows, how many
         \* pieces of each revision it holds; `lost` are the revisions whose
         \* COMMIT is under way from a program that has died
  up     \* of each program: where update() is, the revision, the ones it read
         \* as applied, what it did in its transaction, whether that failed on the
         \* server or by a sub-transaction; history: the revisions applied
         \* since it read, and whether it read only some of them

schemavars == <<db, up>>

Idle == [pc |-> "idle", rev |-> 1, existing |-> {}, work |-> 0,
         piece |-> 0, spoiled |-> FALSE, marked |-> FALSE, missed |-> {}, cut |-> FALSE]

SchemaInit ==
  /\ db = [table |-> FALSE, row |-> [r \in Revisions |-> "none"],
           held |-> [r \in Revisions |-> 0], lost |-> {}]
  /\ up = [p \in Updaters |-> Idle]

----------------------------------------
(* Each return false leaves the PSql objects: the transaction is rolled    *)
(* back.                                                                   *)

Return(rv)    == [Idle EXCEPT !.pc = rv]
Returns(p, rv) == up' = [up EXCEPT ![p] = Return(rv)]
Fails(p)      == Returns(p, "false") /\ UNCHANGED db
Goes(p, pc)   == up' = [up EXCEPT ![p].pc = pc]
At(p, pc)     == up[p].pc = pc

CallUpdate(p) ==
  /\ At(p, "idle") \/ At(p, "false") \/ At(p, "true")
  /\ up' = [up EXCEPT ![p] = Return("read")] /\ UNCHANGED db

Done == {r \in Revisions : db.row[r] = "done"}

(* A SELECT that fails is taken for a table that is missing, and one that  *)
(* fails after some rows for the end of the rows.                          *)
ReadRevisions(p) ==
  /\ At(p, "read") /\ UNCHANGED db
  /\ \/ /\ db.table
        /\ \E read \in SUBSET Done :
             /\ read # Done => \A r \in Revisions : db.held[r] <= MaxAgain * Pieces
             /\ up' = [up EXCEPT ![p].pc = "next", ![p].existing = read, ![p].cut = (read # Done)]
     \/ Goes(p, "create")

CreateTable(p) ==
  /\ At(p, "create")
  /\ \/ ~db.table /\ db' = [db EXCEPT !.table = TRUE] /\ Goes(p, "next")
     \/ Fails(p)

Skip(p) ==
  /\ At(p, "next") /\ up[p].rev <= Last /\ up[p].rev \in up[p].existing
  /\ up' = [up EXCEPT ![p].rev = @ + 1] /\ UNCHANGED db

(* insertRevision, ON CONFLICT DO NOTHING, in no transaction. *)
InsertRevision(p) ==
  LET r == up[p].rev IN
  /\ At(p, "next") /\ r <= Last /\ r \notin up[p].existing
  /\ \/ /\ db' = [db EXCEPT !.row[r] = IF @ = "none" THEN "noted" ELSE @]
        /\ Goes(p, "begin")
     \/ Fails(p)

(* A BEGIN that fails is only logged: the connection is gone, and with it  *)
(* every exec from here on.                                                *)
BeginRevision(p) ==
  /\ At(p, "begin") /\ UNCHANGED db
  /\ \/ Goes(p, "pieces")
     \/ Returns(p, "false")

(* execMultiple of a piece. *)
ExecSql(p) ==
  /\ At(p, "pieces") /\ up[p].piece < Pieces
  /\ \/ /\ ~up[p].spoiled /\ UNCHANGED db
        /\ up' = [up EXCEPT ![p].piece = @ + 1, ![p].work = @ + 1]
     \/ Fails(p)

(* A migrator works in PSql objects of its own.  When it says that all is  *)
(* well, one of its statements may have failed, or a sub-transaction been  *)
(* rolled back.                                                            *)
Migrate(p) ==
  /\ At(p, "pieces") /\ up[p].piece < Pieces
  /\ \/ /\ ~up[p].spoiled /\ ~up[p].marked /\ UNCHANGED db
        /\ up' = [up EXCEPT ![p].piece = @ + 1, ![p].work = @ + 1]
     \/ /\ \E spoiled, marked \in BOOLEAN :
             /\ spoiled \/ marked
             /\ up' = [up EXCEPT ![p].piece = @ + 1, ![p].spoiled = @ \/ spoiled,
                                 ![p].marked = @ \/ marked]
        /\ UNCHANGED db
     \/ Fails(p)

(* confirmRevision: the row is locked until the transaction ends.  exec    *)
(* refuses after a rollback of a part.                                     *)
Locked(r) == r \in db.lost \/ \E q \in Updaters : At(q, "commit") /\ up[q].rev = r

\* Mutant: what a migrator rolled back does not keep the revision from
\* being confirmed.
ConfirmMarked(p) ==
  LET u == up[p] IN
  /\ At(p, "pieces") /\ u.piece = Pieces
  /\ \/ ~u.spoiled /\ ~Locked(u.rev) /\ Goes(p, "commit") /\ UNCHANGED db
     \/ Fails(p)

ConfirmRevision(p) ==
  LET u == up[p] IN
  /\ At(p, "pieces") /\ u.piece = Pieces
  /\ \/ ~u.spoiled /\ ~u.marked /\ ~Locked(u.rev) /\ Goes(p, "commit") /\ UNCHANGED db
     \/ Fails(p)

Committed(r, work) == [db EXCEPT !.row[r] = "done", !.held[r] = @ + work, !.lost = @ \ {r}]
Missed(u, r)       == [q \in Updaters |-> [u[q] EXCEPT !.missed = @ \cup {r}]]

(* The answer to COMMIT may be lost. *)
CommitRevision(p) ==
  LET u == up[p]
      on == [up EXCEPT ![p] = [Return("next") EXCEPT !.rev = u.rev + 1,
                                 !.existing = u.existing, !.missed = u.missed, !.cut = u.cut]]
  IN
  /\ At(p, "commit")
  /\ \/ db' = Committed(u.rev, u.work) /\ up' = Missed(on, u.rev)
     \/ db' = Committed(u.rev, u.work)
        /\ up' = Missed([up EXCEPT ![p] = Return("false")], u.rev)
     \/ Fails(p)

Finish(p) ==
  /\ At(p, "next") /\ up[p].rev > Last
  /\ Returns(p, "true") /\ UNCHANGED db

(* The program dies.  The server rolls its transaction back, unless COMMIT *)
(* was on its way; then it is done some time later, or not at all.         *)
Crash(p) ==
  /\ up' = [up EXCEPT ![p] = Idle]
  /\ \/ UNCHANGED db
     \/ At(p, "commit") /\ db' = [db EXCEPT !.lost = @ \cup {up[p].rev}]

LateCommit(r) ==
  /\ r \in db.lost
  /\ \/ db' = Committed(r, Pieces) /\ up' = Missed(up, r)
     \/ db' = [db EXCEPT !.lost = @ \ {r}] /\ UNCHANGED up

Update(p) == CallUpdate(p) \/ ReadRevisions(p) \/ CreateTable(p) \/ Skip(p) \/ InsertRevision(p) \/ BeginRevision(p)
               \/ ExecSql(p) \/ Migrate(p) \/ ConfirmRevision(p) \/ CommitRevision(p) \/ Finish(p)

SchemaNext == (\E p \in Updaters : Update(p) \/ Crash(p)) \/ \E r \in Revisions : LateCommit(r)

SchemaSpec == SchemaInit /\ [][SchemaNext]_schemavars

----------------------------------------
(* Properties *)

SchemaTypeOK ==
  /\ db \in [table: BOOLEAN, row: [Revisions -> {"none", "noted", "done"}],
             held: [Revisions -> Nat], lost: SUBSET Revisions]
  /\ up \in [Updaters ->
       [pc: {"idle", "read", "create", "next", "begin", "pieces", "commit", "true", "false"},
        rev: 1 .. Last + 1, existing: SUBSET Revisions, work: Nat,
        piece: 0 .. Pieces, spoiled: BOOLEAN, marked: BOOLEAN,
        missed: SUBSET Revisions, cut: BOOLEAN]]

(* Whatever fails or dies: a revision the table calls applied is there, a  *)
(* revision that is there is whole and the table says so, and every one    *)
(* before it is there; all of them once update() has returned true.        *)
WholeOrNot ==
  /\ \A r \in Revisions : db.row[r] = "done" <=> db.held[r] > 0
  /\ \A r \in Revisions : db.held[r] % Pieces = 0
  /\ \A r, s \in Revisions : s < r /\ db.held[r] > 0 => db.held[s] > 0
  /\ \A p \in Updaters : At(p, "true") => \A r \in Revisions : db.held[r] > 0

(* A revision is applied a second time only by a program that had read the *)
(* table before it was applied the first time, or whose reading broke off. *)
(* (The latter is a flaw of update(): it takes an error for the end of the *)
(* rows, and a later start may apply again what was applied long ago.)     *)
AgainOnlyBlind ==
  [][\A r \in Revisions :
       db.held[r] > 0 /\ db'.held[r] > db.held[r] =>
         r \in db.lost \/ \E p \in Updaters : /\ At(p, "commit") /\ up[p].rev = r
                                            /\ (r \in up[p].missed \/ up[p].cut)]_schemavars

(* Revisions are applied whole, in order and, by programs that read the    *)
(* table to its end one after the other, once.                             *)
RevisionsWhole == [][WholeOrNot']_schemavars /\ AgainOnlyBlind
========================================
