------------------------------ MODULE PSqlProofs ------------------------------
(****************************************)
(* For any number of PSql objects: types, OneOwner, CommitTells, Leftovers *)
(* and EndsClean of PSql.  For any statement of any number of parameters *)
(* and any rows: ValuesKept of PSqlValues. *)
(****************************************)
EXTENDS PSql, PSqlValues, SequenceTheorems, WellFoundedInduction, TLAPS

(****************************************)
(* The inductive invariant.  Handlers change the shared state s in several *)
(* steps, so it is stated of s and of the objects q. *)
(****************************************)

SharedType == [td: Td, conn: Conn, hist: Hist]

Tells(h) ==
  /\ h.kept => ~h.last.spoiled
  /\ h.kept /\ ~h.rv => h.lost
  /\ h.rv /\ ~h.kept => h.last.refused \/ h.last.hidden

(* What holds of the shared state alone: there is a transaction on the *)
(* server only inside one of the thread; one that the server will not *)
(* commit has had an exec refused or a statement fail unnoticed; a *)
(* connection that is down has no statements. *)
Good(s) ==
  /\ s \in SharedType
  /\ s.td.doRollback \/ s.conn.tx # "none" => s.td.active
  /\ s.hist.tx.spoiled => s.td.doRollback
  /\ s.td.active /\ s.conn.up /\ s.conn.tx # "open" => s.hist.tx.refused \/ s.hist.tx.hidden
  /\ ~s.conn.up => s.conn.stmts = {} /\ s.conn.tx # "open"
  /\ Tells(s.hist)

(* Statements on the server have a living object that will remove them, or *)
(* are on the list. *)
Kept(s, n)    == n \in s.td.left /\ s.conn.tx = "failed"
Listed(s, q)  == \A n \in s.conn.stmts : (n \in 1 .. Len(q) /\ q[n].prepareUsed) \/ Kept(s, n)

(* The objects and their part in the transaction *)
Owns(q, k)   == q[k].local /\ ~q[k].nested
Owned(active, q) ==
  /\ active <=> \E k \in 1 .. Len(q) : Owns(q, k)
  /\ \A k \in 1 .. Len(q) : Owns(q, k) => \A j \in 1 .. k - 1 : ~q[j].local
  /\ \A k \in 1 .. Len(q) : q[k].local => active

RowsWait(s, q) == s.conn.rows # 0 => s.conn.rows <= Len(q) /\ q[s.conn.rows].res

IInv ==
  /\ sql \in Seq(Sql) /\ Len(sql) <= Depth
  /\ Good(Shared) /\ Listed(Shared, sql) /\ Owned(td.active, sql) /\ RowsWait(Shared, sql)

(****************************************)
(* The server *)
(****************************************)

LEMMA ServerTypes ==
  ASSUME NEW c \in Conn, NEW n \in Names
  PROVE  /\ Discard(c) \in Conn /\ Spoil(c) \in Conn /\ BeginTx(c) \in Conn /\ EndTx(c) \in Conn
         /\ Deallocate(c, n) \in Conn
<1>1. Discard(c) \in Conn
  BY DEF Conn, Discard
<1>2. \A d \in Conn : Spoil(d) \in Conn
  BY DEF Conn, Spoil
<1>3. BeginTx(c) \in Conn /\ EndTx(c) \in Conn
  BY <1>1 DEF Conn, BeginTx, EndTx, Discard
<1>4. [Discard(c) EXCEPT !.stmts = @ \ {n}] \in Conn
  BY <1>1 DEF Conn, Discard
<1> QED BY <1>1, <1>2, <1>3, <1>4 DEF Deallocate

LEMMA ServerFields ==
  ASSUME NEW c \in Conn, NEW n \in Names
  PROVE  /\ Discard(c).up = c.up /\ Discard(c).tx = c.tx /\ Discard(c).stmts = c.stmts
         /\ Discard(c).rows = 0
         /\ Spoil(c).up = c.up /\ Spoil(c).stmts = c.stmts /\ Spoil(c).rows = c.rows
         /\ Spoil(c).tx = IF c.tx = "open" THEN "failed" ELSE c.tx
         /\ Deallocate(c, n).up = c.up /\ Deallocate(c, n).rows = 0
         /\ CanDeallocate(c, n) => Deallocate(c, n).tx = c.tx
                                   /\ Deallocate(c, n).stmts = c.stmts \ {n}
         /\ ~CanDeallocate(c, n) => Deallocate(c, n).stmts = c.stmts
                                    /\ Deallocate(c, n).tx = IF c.tx = "open" THEN "failed" ELSE c.tx
BY DEF Conn, Discard, Spoil, Deallocate

(****************************************)
(* The functions of PSql *)
(****************************************)

(* A record of the shared state with one field changed *)
LEMMA SharedUpdate ==
  ASSUME NEW s \in SharedType
  PROVE  /\ s.td \in Td /\ s.conn \in Conn /\ s.hist \in Hist
         /\ \A t \in Td : [s EXCEPT !.td = t] \in SharedType
         /\ \A c \in Conn : [s EXCEPT !.conn = c] \in SharedType
         /\ \A h \in Hist : [s EXCEPT !.hist = h] \in SharedType
BY DEF SharedType

(* A flag is noted in the history of a transaction, and nothing else. *)
LEMMA NotedFacts ==
  ASSUME NEW s \in SharedType, NEW flag \in {"spoiled", "refused", "hidden"}
  PROVE  LET r == Noted(s, flag) IN
         /\ r \in SharedType /\ r.td = s.td /\ r.conn = s.conn
         /\ r.hist.rv = s.hist.rv /\ r.hist.kept = s.hist.kept /\ r.hist.last = s.hist.last
         /\ r.hist.lost = s.hist.lost
         /\ \A f \in {"spoiled", "refused", "hidden"} :
              r.hist.tx[f] <=> s.hist.tx[f] \/ (f = flag /\ s.td.active)
<1>1. s.hist \in Hist /\ s.hist.tx \in Tx
  BY DEF SharedType, Hist
<1>2. [s.hist.tx EXCEPT ![flag] = TRUE] \in Tx
  BY <1>1 DEF Tx
<1>3. \A t \in Tx : [s.hist EXCEPT !.tx = t] \in Hist
  BY <1>1 DEF Hist
<1> DEFINE h == [s.hist EXCEPT !.tx = [s.hist.tx EXCEPT ![flag] = TRUE]]
<1>4. h \in Hist
  BY <1>2, <1>3
<1>5. [s EXCEPT !.hist = h] \in SharedType
  BY <1>4, SharedUpdate
<1>6. Noted(s, flag) = IF s.td.active THEN [s EXCEPT !.hist = h] ELSE s
  BY DEF Noted
<1>7. /\ h.rv = s.hist.rv /\ h.kept = s.hist.kept /\ h.last = s.hist.last /\ h.lost = s.hist.lost
      /\ \A f \in {"spoiled", "refused", "hidden"} : h.tx[f] <=> s.hist.tx[f] \/ f = flag
  BY <1>1 DEF Hist, Tx
<1> HIDE DEF h
<1>8. CASE s.td.active
  BY <1>5, <1>6, <1>7, <1>8 DEF SharedType
<1>9. CASE ~s.td.active
  BY <1>1, <1>6, <1>9 DEF SharedType
<1> QED BY <1>8, <1>9

(* A flag more, and the mark to roll back when a part was, keep what holds *)
(* of the shared state. *)
LEMMA NotedGood ==
  ASSUME NEW s \in SharedType, Good(s), NEW flag \in {"spoiled", "refused", "hidden"},
         flag = "spoiled" => s.td.doRollback
  PROVE  Good(Noted(s, flag))
<1> DEFINE r == Noted(s, flag)
<1>1. /\ r \in SharedType /\ r.td = s.td /\ r.conn = s.conn
      /\ r.hist.rv = s.hist.rv /\ r.hist.kept = s.hist.kept /\ r.hist.last = s.hist.last
      /\ r.hist.lost = s.hist.lost
      /\ r.hist.tx["spoiled"] <=> s.hist.tx["spoiled"] \/ ("spoiled" = flag /\ s.td.active)
      /\ r.hist.tx["refused"] <=> s.hist.tx["refused"] \/ ("refused" = flag /\ s.td.active)
      /\ r.hist.tx["hidden"] <=> s.hist.tx["hidden"] \/ ("hidden" = flag /\ s.td.active)
  BY NotedFacts
<1> HIDE DEF r
<1>2. Tells(r.hist)
  BY <1>1 DEF Good, Tells
<1> QED BY <1>1, <1>2 DEF Good, r

(* The rows of an object are thrown away, and nothing else. *)
LEMMA ClearedFacts ==
  ASSUME NEW s \in SharedType, sql \in Seq(Sql), NEW k \in 1 .. Len(sql)
  PROVE  LET r == Cleared(s, k) IN
         /\ r \in SharedType /\ r.td = s.td /\ r.hist = s.hist
         /\ r.conn.up = s.conn.up /\ r.conn.tx = s.conn.tx /\ r.conn.stmts = s.conn.stmts
         /\ r.conn.rows = IF sql[k].res THEN 0 ELSE s.conn.rows
<1> DEFINE c == Discard(s.conn)
<1>1. s.conn \in Conn /\ c \in Conn
  BY SharedUpdate DEF Conn, Discard
<1>2. c.up = s.conn.up /\ c.tx = s.conn.tx /\ c.stmts = s.conn.stmts /\ c.rows = 0
  BY <1>1 DEF Conn, Discard
<1>3. Cleared(s, k) = IF sql[k].res THEN [s EXCEPT !.conn = c] ELSE s
  BY DEF Cleared
<1> HIDE DEF c
<1> QED BY <1>1, <1>2, <1>3, SharedUpdate DEF SharedType

LEMMA ClearedGood ==
  ASSUME sql \in Seq(Sql), NEW k \in 1 .. Len(sql), NEW s, Good(s)
  PROVE  Good(Cleared(s, k))
<1>1. s \in SharedType
  BY DEF Good
<1> QED BY <1>1, ClearedFacts DEF Good

(* An object takes its statement away, or leaves it on the list of a *)
(* transaction that has failed. *)
LEMMA RemovedFacts ==
  ASSUME sql \in Seq(Sql), NEW k \in 1 .. Len(sql), k \in Names, NEW s, Good(s)
  PROVE  LET r == Removed(s, k) IN
         /\ Good(r)
         /\ r.td.active = s.td.active /\ r.td.doRollback = s.td.doRollback
         /\ r.conn.rows \in {0, s.conn.rows}
         /\ \A n \in r.conn.stmts : /\ n \in s.conn.stmts
                                    /\ Kept(s, n) => Kept(r, n)
                                    /\ n = k /\ sql[k].prepareUsed => Kept(r, n)
<1> DEFINE c == Deallocate(s.conn, k)
           t == [s.td EXCEPT !.left = @ \cup {k}]
           r == [s EXCEPT !.conn = c, !.td = t]
           can == CanDeallocate(s.conn, k)
<1>1. s \in SharedType /\ s.td \in Td /\ s.conn \in Conn /\ s.hist \in Hist
  BY SharedUpdate DEF Good
<1>2. /\ c \in Conn /\ c.up = s.conn.up /\ c.rows = 0
      /\ can => c.tx = s.conn.tx /\ c.stmts = s.conn.stmts \ {k}
      /\ ~can => c.stmts = s.conn.stmts /\ c.tx = IF s.conn.tx = "open" THEN "failed" ELSE s.conn.tx
  BY <1>1, ServerTypes, ServerFields
<1>3. /\ t \in Td /\ t.active = s.td.active /\ t.doRollback = s.td.doRollback
      /\ t.left = s.td.left \cup {k}
  BY <1>1 DEF Td
<1>4. Removed(s, k) = IF ~sql[k].prepareUsed THEN s ELSE IF can THEN r ELSE Noted(r, "hidden")
  <2>1. r = [s EXCEPT !.conn = Deallocate(@, k), !.td.left = @ \cup {k}]
    BY <1>1 DEF SharedType
  <2> QED BY <2>1 DEF Removed
<1>5. can <=> s.conn.up /\ s.conn.tx # "failed" /\ k \in s.conn.stmts
  BY DEF CanDeallocate, Runs
<1> HIDE DEF c, t, can
<1>6. r \in SharedType /\ r.td = t /\ r.conn = c /\ r.hist = s.hist
  BY <1>1, <1>2, <1>3 DEF SharedType
<1>7. CASE ~sql[k].prepareUsed
  <2>1. Removed(s, k) = s
    BY <1>4, <1>7
  <2> QED BY <1>7, <2>1
<1>8. CASE sql[k].prepareUsed /\ can
  <2>1. Removed(s, k) = r
    BY <1>4, <1>8
  <2> HIDE DEF r
  <2>2. Good(r)
    BY <1>2, <1>3, <1>5, <1>6, <1>8 DEF Good, Tells
  <2>3. \A n \in r.conn.stmts : n \in s.conn.stmts /\ n # k /\ (Kept(s, n) => Kept(r, n))
    BY <1>2, <1>3, <1>6, <1>8 DEF Kept
  <2> QED BY <1>2, <1>3, <1>6, <2>1, <2>2, <2>3
<1>9. CASE sql[k].prepareUsed /\ ~can
  <2> DEFINE x == Noted(r, "hidden")
  <2>1. Removed(s, k) = x
    BY <1>4, <1>9
  <2>2. /\ x \in SharedType /\ x.td = t /\ x.conn = c /\ x.hist.rv = s.hist.rv
        /\ x.hist.kept = s.hist.kept /\ x.hist.last = s.hist.last /\ x.hist.lost = s.hist.lost
        /\ x.hist.tx["spoiled"] <=> s.hist.tx["spoiled"]
        /\ x.hist.tx["refused"] <=> s.hist.tx["refused"]
        /\ x.hist.tx["hidden"] <=> s.hist.tx["hidden"] \/ s.td.active
    <3> HIDE DEF r
    <3> DEFINE y == Noted(r, "hidden")
    <3>1. /\ y \in SharedType /\ y.td = r.td /\ y.conn = r.conn
          /\ y.hist.rv = r.hist.rv /\ y.hist.kept = r.hist.kept /\ y.hist.last = r.hist.last
          /\ y.hist.lost = r.hist.lost
          /\ y.hist.tx["spoiled"] <=> r.hist.tx["spoiled"] \/ ("spoiled" = "hidden" /\ r.td.active)
          /\ y.hist.tx["refused"] <=> r.hist.tx["refused"] \/ ("refused" = "hidden" /\ r.td.active)
          /\ y.hist.tx["hidden"] <=> r.hist.tx["hidden"] \/ ("hidden" = "hidden" /\ r.td.active)
      BY <1>6, NotedFacts
    <3> HIDE DEF y
    <3> QED BY <1>3, <1>6, <3>1 DEF y
  <2> HIDE DEF r, x
  <2>3. Tells(x.hist)
    BY <2>2 DEF Good, Tells
  <2>4. Good(x)
    BY <1>1, <1>2, <1>3, <1>9, <2>2, <2>3 DEF Good
  <2>5. \A n \in x.conn.stmts : n \in s.conn.stmts /\ (Kept(s, n) => Kept(x, n))
    BY <1>1, <1>2, <1>3, <1>9, <2>2 DEF Kept
  <2>6. k \in x.conn.stmts => Kept(x, k)
    BY <1>1, <1>2, <1>3, <1>5, <1>9, <2>2 DEF Good, Kept
  <2> QED BY <1>2, <1>3, <2>1, <2>2, <2>4, <2>5, <2>6
<1> QED BY <1>7, <1>8, <1>9

EndOf(s, rv, kept, lost) == [Ended(s, rv, kept) EXCEPT !.hist.lost = lost]
Unmark(e)      == [e EXCEPT !.td.doRollback = FALSE]
EndGives(s, e) ==
  /\ Good(e) /\ ~e.td.active /\ e.conn.rows = 0
  /\ \A n \in e.conn.stmts : n \in s.conn.stmts /\ ~Kept(s, n)

(* The end of the transaction of the thread, or one whose answer was lost: *)
(* its flags go into the past, what was left over is gone. *)
LEMMA EndedFacts ==
  ASSUME NEW s, Good(s), NEW rv \in BOOLEAN, NEW kept \in BOOLEAN, NEW lost \in BOOLEAN,
         kept => ~s.hist.tx.spoiled, kept /\ ~rv => lost,
         rv /\ ~kept => s.hist.tx.refused \/ s.hist.tx.hidden
  PROVE  /\ ~lost => EndOf(s, rv, kept, lost) = Ended(s, rv, kept)
         /\ ~s.td.doRollback => EndGives(s, EndOf(s, rv, kept, lost))
         /\ EndGives(s, Unmark(EndOf(s, rv, kept, lost)))
<1> DEFINE t == [s.td EXCEPT !.active = FALSE, !.left = {}]
           u == [t EXCEPT !.doRollback = FALSE]
           S == IF s.conn.up THEN s.conn.stmts \ s.td.left ELSE s.conn.stmts
           c == [EndTx(s.conn) EXCEPT !.stmts = S]
           h == [tx |-> NewTx, rv |-> rv, kept |-> kept, lost |-> lost, last |-> s.hist.tx]
           e == [td |-> t, conn |-> c, hist |-> h]
           r == [td |-> u, conn |-> c, hist |-> h]
<1>1. s \in SharedType /\ s.td \in Td /\ s.conn \in Conn /\ s.hist \in Hist /\ s.hist.tx \in Tx
  BY SharedUpdate DEF Good, Hist
<1>2. t \in Td /\ ~t.active /\ t.left = {} /\ t.doRollback = s.td.doRollback
  BY <1>1 DEF Td
<1>3. u \in Td /\ ~u.active /\ u.left = {} /\ ~u.doRollback
  BY <1>1 DEF Td
<1>4. S \in SUBSET Names
  BY <1>1 DEF Conn
<1> HIDE DEF S
<1>5. c \in Conn /\ c.up = s.conn.up /\ c.tx = "none" /\ c.stmts = S /\ c.rows = 0
  BY <1>1, <1>4 DEF Conn, EndTx, Discard
<1>6. NewTx \in Tx /\ ~NewTx.spoiled
  BY DEF NewTx, Tx
<1>7. h \in Hist /\ h.tx = NewTx /\ Tells(h)
  <2> HIDE DEF NewTx
  <2>1. h \in Hist
    BY <1>1, <1>6 DEF Hist
  <2> QED BY <2>1 DEF Tells
<1>8. /\ [Ended(s, rv, kept) EXCEPT !.hist.lost = lost] = e
      /\ ~lost => e = Ended(s, rv, kept)
  <2>1. [EndTx(s.conn) EXCEPT !.stmts = IF s.conn.up THEN @ \ s.td.left ELSE @] = c
    BY <1>1 DEF Conn, EndTx, Discard, S
  <2> DEFINE g == [tx |-> NewTx, rv |-> rv, kept |-> kept, lost |-> FALSE, last |-> s.hist.tx]
  <2>2. Ended(s, rv, kept) = [td |-> t, conn |-> c, hist |-> g]
    BY <2>1 DEF Ended
  <2>3. [g EXCEPT !.lost = lost] = h /\ (~lost => g = h)
    <3>1. [g EXCEPT !.lost = lost] = h
      OBVIOUS
    <3>2. ~lost => lost = FALSE
      OBVIOUS
    <3>3. lost = FALSE => g = h
      OBVIOUS
    <3> QED BY <3>1, <3>2, <3>3
  <2> HIDE DEF t, c, g, h
  <2>4. [[td |-> t, conn |-> c, hist |-> g] EXCEPT !.hist.lost = lost]
          = [td |-> t, conn |-> c, hist |-> [g EXCEPT !.lost = lost]]
    OBVIOUS
  <2> QED BY <2>2, <2>3, <2>4
<1>9. [e EXCEPT !.td.doRollback = FALSE] = r
  OBVIOUS
<1>10. S \subseteq s.conn.stmts /\ (~s.conn.up => S = {}) /\ \A n \in S : ~Kept(s, n)
  BY <1>1 DEF Good, Kept, S
<1> HIDE DEF t, u, c, h
<1>11. e \in SharedType /\ e.td = t /\ e.conn = c /\ e.hist = h
  BY <1>2, <1>5, <1>7 DEF SharedType
<1>12. r \in SharedType /\ r.td = u /\ r.conn = c /\ r.hist = h
  BY <1>3, <1>5, <1>7 DEF SharedType
<1> HIDE DEF e, r
<1>13. ~s.td.doRollback => Good(e)
  BY <1>2, <1>5, <1>6, <1>7, <1>10, <1>11 DEF Good
<1>14. Good(r)
  BY <1>3, <1>5, <1>6, <1>7, <1>10, <1>12 DEF Good
<1>15. (~s.td.doRollback => EndGives(s, e)) /\ EndGives(s, r)
  BY <1>2, <1>3, <1>5, <1>10, <1>11, <1>12, <1>13, <1>14 DEF EndGives
<1> QED BY <1>8, <1>9, <1>15 DEF EndOf, Unmark

(* The roll back of object k: a sub-transaction leaves the mark, the *)
(* outermost one ends the transaction and takes the mark away. *)
LEMMA RolledBackFacts ==
  ASSUME sql \in Seq(Sql), NEW k \in 1 .. Len(sql), NEW s, Good(s),
         sql[k].nested => s.td.active
  PROVE  LET r == RolledBack(s, k) IN
         /\ Good(r)
         /\ r.td.active <=> sql[k].nested
         /\ r.conn.rows \in {0, s.conn.rows}
         /\ \A n \in r.conn.stmts : n \in s.conn.stmts /\ (Kept(s, n) => Kept(r, n))
<1>1. s \in SharedType /\ s.td \in Td /\ s.conn \in Conn /\ s.hist \in Hist
  BY SharedUpdate DEF Good
<1>2. CASE sql[k].nested
  <2> DEFINE t == [s.td EXCEPT !.doRollback = TRUE]
             m == [s EXCEPT !.td = t]
             x == Noted(m, "spoiled")
  <2>1. t \in Td /\ t.doRollback /\ t.active = s.td.active /\ t.left = s.td.left
    BY <1>1 DEF Td
  <2>2. RolledBack(s, k) = x
    BY <1>2 DEF RolledBack
  <2> HIDE DEF t
  <2>3. m \in SharedType /\ m.td = t /\ m.conn = s.conn /\ m.hist = s.hist
    BY <1>1, <2>1, SharedUpdate DEF SharedType
  <2> HIDE DEF m
  <2>4. Good(m)
    BY <1>2, <2>1, <2>3 DEF Good
  <2>5. Good(x) /\ x.td = m.td /\ x.conn = m.conn
    BY <2>1, <2>3, <2>4, NotedGood, NotedFacts
  <2> HIDE DEF x
  <2> QED BY <1>2, <2>1, <2>2, <2>3, <2>5 DEF Kept
<1>3. CASE ~sql[k].nested
  <2> DEFINE e == Ended(s, FALSE, FALSE)
             r == [e EXCEPT !.td.doRollback = FALSE]
  <2>1. RolledBack(s, k) = r
    BY <1>3 DEF RolledBack
  <2>2. /\ Good(r) /\ ~r.td.active /\ r.conn.rows = 0
        /\ \A n \in r.conn.stmts : n \in s.conn.stmts /\ ~Kept(s, n)
    <3> DEFINE no == FALSE
    <3>1. /\ no \in BOOLEAN /\ ~no
          /\ (no => ~s.hist.tx.spoiled) /\ (no /\ ~no => no)
          /\ no /\ ~no => s.hist.tx.refused \/ s.hist.tx.hidden
      OBVIOUS
    <3> HIDE DEF no
    <3>2. /\ ~no => EndOf(s, no, no, no) = Ended(s, no, no)
          /\ EndGives(s, Unmark(EndOf(s, no, no, no)))
      BY <3>1, EndedFacts
    <3>3. EndGives(s, r)
      BY <3>1, <3>2 DEF Unmark, no
    <3> QED BY <3>3 DEF EndGives
  <2> HIDE DEF r
  <2> QED BY <1>3, <2>1, <2>2
<1> QED BY <1>2, <1>3

(* The connection after an exec was refused, or after something that *)
(* nobody tells: still the same statements and perhaps a transaction that *)
(* has failed. *)
LEMMA RefusedFacts ==
  ASSUME NEW s, Good(s), NEW d \in Conn, d.up = s.conn.up, d.stmts = s.conn.stmts,
         d.tx \in {s.conn.tx, Spoil(s.conn).tx}, NEW flag \in {"refused", "hidden"}
  PROVE  LET r == Noted([s EXCEPT !.conn = d], flag) IN
         /\ Good(r) /\ r.td = s.td /\ r.conn = d
         /\ \A n \in Names : Kept(s, n) => Kept(r, n)
<1> DEFINE m == [s EXCEPT !.conn = d]
           r == Noted(m, flag)
<1>1. s \in SharedType /\ s.td \in Td /\ s.conn \in Conn /\ s.hist \in Hist
  BY SharedUpdate DEF Good
<1>2. m \in SharedType /\ m.td = s.td /\ m.conn = d /\ m.hist = s.hist
  BY <1>1, SharedUpdate DEF SharedType
<1>3. d.tx = s.conn.tx \/ (s.conn.tx = "open" /\ d.tx = "failed")
  BY <1>1 DEF Spoil, Conn
<1> HIDE DEF m
<1>4. /\ r \in SharedType /\ r.td = m.td /\ r.conn = m.conn
      /\ r.hist.rv = m.hist.rv /\ r.hist.kept = m.hist.kept /\ r.hist.last = m.hist.last
      /\ r.hist.lost = m.hist.lost
      /\ r.hist.tx["spoiled"] <=> m.hist.tx["spoiled"] \/ ("spoiled" = flag /\ m.td.active)
      /\ r.hist.tx["refused"] <=> m.hist.tx["refused"] \/ ("refused" = flag /\ m.td.active)
      /\ r.hist.tx["hidden"] <=> m.hist.tx["hidden"] \/ ("hidden" = flag /\ m.td.active)
  BY <1>2, NotedFacts
<1> HIDE DEF r
<1>5. Tells(r.hist)
  BY <1>2, <1>4 DEF Good, Tells
<1>6. Good(r)
  BY <1>2, <1>3, <1>4, <1>5 DEF Good
<1>7. \A n \in Names : Kept(s, n) => Kept(r, n)
  BY <1>2, <1>3, <1>4 DEF Kept
<1> QED BY <1>2, <1>4, <1>6, <1>7 DEF r, m

(****************************************)
(* The objects *)
(****************************************)

Put(k, o) == [sql EXCEPT ![k] = o]

LEMMA PutFacts ==
  ASSUME sql \in Seq(Sql), NEW k \in 1 .. Len(sql), NEW o \in Sql
  PROVE  /\ Put(k, o) \in Seq(Sql) /\ Len(Put(k, o)) = Len(sql)
         /\ \A j \in 1 .. Len(sql) : Put(k, o)[j] = IF j = k THEN o ELSE sql[j]
         /\ sql[k] \in Sql
BY DEF Put

(* The part of an object in the transaction is not touched. *)
LEMMA PutOwned ==
  ASSUME sql \in Seq(Sql), NEW k \in 1 .. Len(sql), NEW o \in Sql, NEW active,
         o.local = sql[k].local, o.nested = sql[k].nested, Owned(active, sql)
  PROVE  Owned(active, Put(k, o))
<1> DEFINE q == Put(k, o)
<1>1. /\ Len(q) = Len(sql) /\ Len(sql) \in Nat
      /\ \A j \in 1 .. Len(sql) : q[j] = IF j = k THEN o ELSE sql[j]
  BY PutFacts
<1> HIDE DEF q
<1>2. \A j \in 1 .. Len(sql) : q[j].local = sql[j].local /\ q[j].nested = sql[j].nested
  BY <1>1
<1>3. Owned(active, q)
  BY <1>1, <1>2 DEF Owned, Owns
<1> QED BY <1>3 DEF q

LEMMA BecomesShared ==
  ASSUME NEW s \in SharedType, Becomes(s)
  PROVE  Shared' = s
<1>1. s = [td |-> s.td, conn |-> s.conn, hist |-> s.hist]
  BY DEF SharedType
<1>2. Shared' = [td |-> td', conn |-> conn', hist |-> hist']
  BY DEF Shared
<1> QED BY <1>1, <1>2 DEF Becomes

LEMMA SharedFields == Shared.td = td /\ Shared.conn = conn /\ Shared.hist = hist
BY DEF Shared

(* What is to be shown of a step: the new shared state s, the new objects q *)
After(s, q) == Good(s) /\ Listed(s, q) /\ Owned(s.td.active, q) /\ RowsWait(s, q)

LEMMA IInvAfter ==
  ASSUME NEW q \in Seq(Sql), Len(q) <= Depth, NEW s, After(s, q), sql' = q, Becomes(s)
  PROVE  IInv'
<1>1. s \in SharedType
  BY DEF After, Good
<1>2. Shared' = s
  BY <1>1, BecomesShared
<1>3. td' = s.td
  BY DEF Becomes
<1>4. Good(Shared)'
  BY <1>2 DEF After, Good, Tells
<1>5. Listed(Shared, sql)'
  BY <1>2 DEF After, Listed, Kept
<1>6. RowsWait(Shared, sql)'
  BY <1>2 DEF After, RowsWait
<1>7. Owned(td.active, sql)'
  BY <1>3 DEF After, Owned, Owns
<1> QED BY <1>4, <1>5, <1>6, <1>7 DEF IInv

LEMMA IInvNow ==
  ASSUME IInv
  PROVE  After(Shared, sql) /\ Shared \in SharedType
BY SharedFields DEF IInv, After, Good

(****************************************)
(* The steps *)
(****************************************)

LEMMA NewHistFacts ==
  NewHist \in Hist /\ Tells(NewHist) /\ NewHist.tx = NewTx /\ ~NewHist.tx.spoiled
<1>1. NewTx \in Tx /\ ~NewTx.spoiled
  BY DEF NewTx, Tx
<1> HIDE DEF NewTx
<1> QED BY <1>1 DEF NewHist, Hist, Tells

LEMMA Initially == Init => IInv
<1> SUFFICES ASSUME Init PROVE IInv
  OBVIOUS
<1>1. sql \in Seq(Sql) /\ Len(sql) = 0
  BY DEF Init
<1>2. NewTx \in Tx /\ ~NewTx.spoiled
  BY DEF NewTx, Tx
<1>3. td \in Td /\ ~td.active /\ ~td.doRollback
  BY DEF Init, Td
<1>4. conn \in Conn /\ conn.tx = "none" /\ conn.stmts = {} /\ conn.rows = 0
  BY DEF Init, Conn
<1>5. hist \in Hist /\ hist.tx = NewTx /\ Tells(hist)
  BY NewHistFacts DEF Init
<1>6. Shared \in SharedType
  BY <1>3, <1>4, <1>5 DEF Shared, SharedType
<1>7. Good(Shared)
  BY <1>2, <1>3, <1>4, <1>5, <1>6, SharedFields DEF Good
<1>8. Listed(Shared, sql) /\ RowsWait(Shared, sql) /\ Owned(td.active, sql)
  BY <1>1, <1>3, <1>4, SharedFields DEF Listed, RowsWait, Owned
<1> QED BY <1>1, <1>7, <1>8, PSqlAssumption DEF IInv

LEMMA ConstructStep == IInv /\ Construct => IInv'
<1> SUFFICES ASSUME IInv, Construct PROVE IInv'
  OBVIOUS
<1> DEFINE q == Append(sql, NewSql)
<1>1. NewSql \in Sql /\ ~NewSql.local
  BY DEF NewSql, Sql
<1> HIDE DEF NewSql
<1>2. /\ sql \in Seq(Sql) /\ q \in Seq(Sql) /\ Len(q) = Len(sql) + 1 /\ Len(sql) \in Nat
      /\ q[Len(sql) + 1] = NewSql /\ \A j \in 1 .. Len(sql) : q[j] = sql[j]
  BY <1>1, AppendProperties DEF IInv
<1>3. After(Shared, sql)
  BY IInvNow
<1> HIDE DEF q
<1>4. Owned(Shared.td.active, q)
  BY <1>1, <1>2, <1>3 DEF After, Owned, Owns
<1>5. Listed(Shared, q)
  BY <1>2, <1>3 DEF After, Listed
<1>6. RowsWait(Shared, q)
  <2>1. Shared.conn.rows \in Nat
    BY <1>3, SharedUpdate DEF After, Good, Conn
  <2> QED BY <1>2, <1>3, <2>1 DEF After, RowsWait
<1>7. Becomes(Shared) /\ sql' = q /\ Len(q) <= Depth
  BY <1>2, SharedFields, PSqlAssumption DEF Construct, Becomes, q
<1> QED BY <1>2, <1>3, <1>4, <1>5, <1>6, <1>7, IInvAfter DEF After

LEMMA BeginStep == \A k \in 1 .. Len(sql) : IInv /\ Begin(k) => IInv'
<1> SUFFICES ASSUME NEW k \in 1 .. Len(sql), IInv, Begin(k) PROVE IInv'
  OBVIOUS
<1> DEFINE o == [sql[k] EXCEPT !.local = TRUE, !.nested = td.active]
           q == Put(k, o)
<1>1. sql \in Seq(Sql) /\ sql[k] \in Sql /\ Len(sql) \in Nat /\ k \in Nat /\ Len(sql) <= Depth
  BY DEF IInv
<1>2. After(Shared, sql) /\ Shared \in SharedType /\ td \in Td /\ conn \in Conn
  BY IInvNow, SharedUpdate, SharedFields
<1>3. /\ o \in Sql /\ o.local /\ (o.nested <=> td.active)
      /\ o.res = sql[k].res /\ o.prepareUsed = sql[k].prepareUsed
  <2>1. td.active \in BOOLEAN
    BY <1>2 DEF Td
  <2> QED BY <1>1, <2>1 DEF Sql
<1>4. sql' = q
  BY <1>1 DEF Begin, Put, Sql
<1> HIDE DEF o
<1>5. /\ q \in Seq(Sql) /\ Len(q) = Len(sql)
      /\ \A j \in 1 .. Len(sql) : q[j] = IF j = k THEN o ELSE sql[j]
  BY <1>1, <1>3, PutFacts
<1> HIDE DEF q
<1>6. ~sql[k].local /\ \A j \in k + 1 .. Len(sql) : ~sql[j].local
  BY DEF Begin, Innermost
<1>7. CASE td.active
  <2>1. Becomes(Shared)
    BY <1>7, SharedFields DEF Begin, Becomes
  <2>2. Owned(Shared.td.active, q)
    <3>1. Owned(td.active, sql)
      BY DEF IInv
    <3>2. PICK m \in 1 .. Len(sql) : Owns(sql, m)
      BY <1>7, <3>1 DEF Owned
    <3>3. m # k /\ Owns(q, m)
      BY <1>5, <1>6, <3>2 DEF Owns
    <3>4. ASSUME NEW i \in 1 .. Len(q), Owns(q, i), NEW j \in 1 .. i - 1 PROVE ~q[j].local
      <4>1. i # k /\ Owns(sql, i)
        BY <1>3, <1>5, <1>7, <3>4 DEF Owns
      <4>2. j # k /\ j \in 1 .. Len(sql)
        BY <1>1, <1>5, <1>6, <4>1 DEF Owns
      <4>3. ~sql[j].local
        BY <1>5, <3>1, <4>1 DEF Owned
      <4> QED BY <1>5, <4>2, <4>3
    <3> QED BY <1>5, <1>7, <3>2, <3>3, <3>4, SharedFields DEF Owned
  <2>3. Listed(Shared, q)
    BY <1>2, <1>3, <1>5 DEF After, Listed
  <2>4. RowsWait(Shared, q)
    BY <1>1, <1>2, <1>3, <1>5, SharedFields DEF After, RowsWait, Conn
  <2> QED BY <1>1, <1>2, <1>4, <1>5, <2>1, <2>2, <2>3, <2>4, IInvAfter DEF After
<1>8. CASE ~td.active
  <2> DEFINE t == [td EXCEPT !.active = TRUE]
             c == BeginTx(conn)
             s == [td |-> t, conn |-> c, hist |-> NewHist]
  <2>1. t \in Td /\ t.active /\ t.doRollback = td.doRollback /\ t.left = td.left
    BY <1>2 DEF Td
  <2>2. conn.tx = "none" /\ (~conn.up => conn.stmts = {})
    BY <1>2, <1>8, SharedFields DEF After, Good, Conn
  <2>3. /\ c \in Conn /\ c.up = conn.up /\ c.stmts = conn.stmts /\ c.rows = 0
        /\ c.tx = IF conn.up THEN "open" ELSE "none"
    BY <1>2, <2>2 DEF BeginTx, Runs, Discard, Conn
  <2>4. NewHist \in Hist /\ Tells(NewHist) /\ ~NewHist.tx.spoiled
    BY NewHistFacts
  <2>5. Becomes(s)
    BY <1>8 DEF Begin
  <2> HIDE DEF t, c
  <2>6. s \in SharedType /\ s.td = t /\ s.conn = c /\ s.hist = NewHist
    BY <2>1, <2>3, <2>4 DEF SharedType
  <2> HIDE DEF s
  <2>7. Good(s)
    <3>1. conn.up \in BOOLEAN
      BY <1>2 DEF Conn
    <3>3. s.td.active /\ (s.hist.tx.spoiled => s.td.doRollback) /\ Tells(s.hist)
      BY <2>1, <2>4, <2>6
    <3>4. ~(s.conn.up /\ s.conn.tx # "open")
      BY <2>3, <2>6
    <3>5. ~s.conn.up => s.conn.stmts = {} /\ s.conn.tx # "open"
      BY <2>2, <2>3, <2>6
    <3> QED BY <2>6, <3>3, <3>4, <3>5 DEF Good
  <2>8. Listed(s, q)
    BY <1>2, <1>3, <1>5, <2>2, <2>3, <2>6, SharedFields DEF After, Listed, Kept
  <2>9. RowsWait(s, q)
    BY <2>3, <2>6 DEF RowsWait
  <2>10. Owned(s.td.active, q)
    <3>1. \A j \in 1 .. Len(sql) : ~sql[j].local
      BY <1>8 DEF IInv, Owned
    <3> QED BY <1>1, <1>3, <1>5, <1>8, <2>1, <2>6, <3>1 DEF Owned, Owns
  <2> QED BY <1>1, <1>4, <1>5, <2>5, <2>7, <2>8, <2>9, <2>10, IInvAfter DEF After
<1> QED BY <1>7, <1>8

(* The innermost transaction is ended, that of object k: the thread still *)
(* has a transaction when k had a sub-transaction only. *)
LEMMA EndOwned ==
  ASSUME Owned(td.active, sql), sql \in Seq(Sql), NEW k \in 1 .. Len(sql), sql[k].local,
         Innermost(k), NEW active, active <=> sql[k].nested, NEW n \in k - 1 .. Len(sql),
         NEW q, Len(q) = n,
         \A j \in 1 .. n : j # k => q[j] = sql[j],
         k <= n => ~q[k].local
  PROVE  Owned(active, q)
<1>1. Len(sql) \in Nat /\ k \in Nat /\ n \in Nat
  OBVIOUS
<1>2. \A j \in 1 .. Len(sql) : j > k => ~sql[j].local
  BY <1>1 DEF Innermost
<1>3. CASE sql[k].nested
  <2>1. PICK m \in 1 .. Len(sql) : Owns(sql, m)
    BY DEF Owned
  <2>2. m \in 1 .. n /\ Owns(q, m)
    BY <1>1, <1>2, <1>3, <2>1 DEF Owns
  <2>3. ASSUME NEW i \in 1 .. n, Owns(q, i), NEW j \in 1 .. i - 1 PROVE ~q[j].local
    <3>1. i # k /\ Owns(sql, i)
      BY <1>1, <2>3 DEF Owns
    <3>2. j \in 1 .. n /\ ~sql[j].local
      BY <1>1, <3>1 DEF Owned
    <3> QED BY <1>1, <3>2
  <2> QED BY <1>3, <2>2, <2>3 DEF Owned
<1>4. CASE ~sql[k].nested
  <2>1. \A j \in 1 .. k - 1 : ~sql[j].local
    BY <1>4 DEF Owned, Owns
  <2>2. \A j \in 1 .. n : ~q[j].local
    <3> SUFFICES ASSUME NEW j \in 1 .. n PROVE ~q[j].local
      OBVIOUS
    <3>1. CASE j = k
      BY <3>1
    <3>2. CASE j # k
      <4>1. j \in 1 .. Len(sql) /\ q[j] = sql[j] /\ (j \in 1 .. k - 1 \/ j > k)
        BY <1>1, <3>2
      <4> QED BY <1>2, <2>1, <4>1
    <3> QED BY <3>1, <3>2
  <2> QED BY <1>4, <2>2 DEF Owned, Owns
<1> QED BY <1>3, <1>4

(* Object k with its transaction ended *)
LEMMA PutNotLocal ==
  ASSUME IInv, NEW k \in 1 .. Len(sql), sql[k].local, Innermost(k),
         NEW active, active <=> sql[k].nested
  PROVE  LET q == [sql EXCEPT ![k].local = FALSE] IN
         /\ q \in Seq(Sql) /\ Len(q) = Len(sql) /\ Owned(active, q)
         /\ \A j \in 1 .. Len(sql) : q[j].res = sql[j].res /\ q[j].prepareUsed = sql[j].prepareUsed
<1> DEFINE o == [sql[k] EXCEPT !.local = FALSE]
           q == [sql EXCEPT ![k].local = FALSE]
<1>1. sql \in Seq(Sql) /\ sql[k] \in Sql /\ Len(sql) \in Nat /\ k \in Nat
  BY DEF IInv
<1>2. o \in Sql /\ ~o.local /\ o.res = sql[k].res /\ o.prepareUsed = sql[k].prepareUsed
  BY <1>1 DEF Sql
<1>3. q = Put(k, o)
  BY <1>1 DEF Put
<1> HIDE DEF o, q
<1>4. /\ q \in Seq(Sql) /\ Len(q) = Len(sql)
      /\ \A j \in 1 .. Len(sql) : q[j] = IF j = k THEN o ELSE sql[j]
  <2>1. o \in Sql
    BY <1>2
  <2>2. /\ Put(k, o) \in Seq(Sql) /\ Len(Put(k, o)) = Len(sql)
        /\ \A j \in 1 .. Len(sql) : Put(k, o)[j] = IF j = k THEN o ELSE sql[j]
    BY ONLY <1>1, <2>1, PutFacts
  <2> QED BY <1>3, <2>2
<1>5. Owned(active, q)
  <2>1. Owned(td.active, sql) /\ Len(sql) \in k - 1 .. Len(sql)
    BY <1>1 DEF IInv
  <2> QED BY <1>1, <1>2, <1>4, <2>1, EndOwned
<1>6. \A j \in 1 .. Len(sql) : q[j].res = sql[j].res /\ q[j].prepareUsed = sql[j].prepareUsed
  BY <1>2, <1>4
<1> QED BY <1>4, <1>5, <1>6 DEF q

LEMMA CommitStep == \A k \in 1 .. Len(sql) : IInv /\ Commit(k) => IInv'
<1> SUFFICES ASSUME NEW k \in 1 .. Len(sql), IInv, Commit(k) PROVE IInv'
  OBVIOUS
<1>1. After(Shared, sql) /\ Shared \in SharedType /\ Len(sql) <= Depth
  BY IInvNow DEF IInv
<1> DEFINE q == [sql EXCEPT ![k].local = FALSE]
<1>2. /\ q \in Seq(Sql) /\ Len(q) = Len(sql) /\ (\A a : (a <=> sql[k].nested) => Owned(a, q))
      /\ \A j \in 1 .. Len(sql) : q[j].res = sql[j].res /\ q[j].prepareUsed = sql[j].prepareUsed
  <2>1. sql[k].local /\ Innermost(k)
    BY DEF Commit
  <2>2. ASSUME NEW a, a <=> sql[k].nested
        PROVE  /\ q \in Seq(Sql) /\ Len(q) = Len(sql) /\ Owned(a, q)
               /\ \A j \in 1 .. Len(sql) : q[j].res = sql[j].res /\ q[j].prepareUsed = sql[j].prepareUsed
    BY <2>1, <2>2, PutNotLocal
  <2> HIDE DEF q
  <2> QED BY <2>2
<1>3. sql' = q
  BY DEF Commit
<1> HIDE DEF q
<1>4. td.active /\ ~td.doRollback
  BY DEF IInv, Owned, Commit
<1>5. CASE sql[k].nested
  <2>1. Becomes(Shared)
    BY <1>5, SharedFields DEF Commit, Becomes
  <2>2. Owned(Shared.td.active, q)
    BY <1>2, <1>4, <1>5, SharedFields
  <2>3. Listed(Shared, q) /\ RowsWait(Shared, q)
    <3>1. Shared.conn.rows \in Nat
      BY <1>1 DEF SharedType, Conn
    <3> QED BY <1>1, <1>2, <3>1 DEF After, Listed, RowsWait
  <2> QED BY <1>1, <1>2, <1>3, <2>1, <2>2, <2>3, IInvAfter DEF After
<1>6. CASE ~sql[k].nested
  <2>1. Good(Shared) /\ ~Shared.td.doRollback /\ ~Shared.hist.tx.spoiled
    BY <1>1, <1>4, SharedFields DEF After, Good
  <2>2. ASSUME NEW s, Good(s), ~s.td.active, s.conn.rows = 0, Becomes(s),
               \A n \in s.conn.stmts : n \in conn.stmts /\ ~Kept(Shared, n)
        PROVE  IInv'
    <3>1. Owned(s.td.active, q)
      BY <1>2, <1>6, <2>2
    <3>2. Listed(s, q) /\ RowsWait(s, q)
      BY <1>1, <1>2, <2>2, SharedFields DEF After, Listed, RowsWait
    <3> QED BY <1>2, <1>3, <1>1, <2>2, <3>1, <3>2, IInvAfter DEF After
  <2>3. CASE Becomes(Ended(Shared, conn.up, conn.up /\ conn.tx = "open"))
    <3> DEFINE kept == conn.up /\ conn.tx = "open"
               up == conn.up
               no == FALSE
    <3>1. up \in BOOLEAN /\ kept \in BOOLEAN /\ (kept => up) /\ no \in BOOLEAN /\ ~no
      BY <1>1, SharedFields DEF SharedType, Conn
    <3>2. up /\ ~kept => Shared.hist.tx.refused \/ Shared.hist.tx.hidden
      BY <1>1, <1>4, SharedFields DEF After, Good
    <3>3. (kept => ~Shared.hist.tx.spoiled) /\ (kept /\ ~up => no)
      BY <2>1, <3>1
    <3>4. Becomes(Ended(Shared, up, kept))
      BY <2>3
    <3> HIDE DEF kept, up, no
    <3>5. /\ ~no => EndOf(Shared, up, kept, no) = Ended(Shared, up, kept)
          /\ ~Shared.td.doRollback => EndGives(Shared, EndOf(Shared, up, kept, no))
      BY <2>1, <3>1, <3>2, <3>3, EndedFacts
    <3> DEFINE e == Ended(Shared, up, kept)
    <3>6. EndGives(Shared, e)
      BY <2>1, <3>1, <3>5
    <3> HIDE DEF e
    <3> QED BY <2>2, <3>4, <3>6, SharedFields DEF EndGives, e
  <2>4. CASE Becomes(Ended(Shared, FALSE, FALSE))
    <3> DEFINE no == FALSE
               e == Ended(Shared, no, no)
    <3>1. /\ no \in BOOLEAN /\ ~no
          /\ (no => ~Shared.hist.tx.spoiled) /\ (no /\ ~no => no)
          /\ no /\ ~no => Shared.hist.tx.refused \/ Shared.hist.tx.hidden
          /\ Becomes(e)
      BY <2>4
    <3> HIDE DEF no
    <3>2. /\ ~no => EndOf(Shared, no, no, no) = Ended(Shared, no, no)
          /\ ~Shared.td.doRollback => EndGives(Shared, EndOf(Shared, no, no, no))
      BY <2>1, <3>1, EndedFacts
    <3>3. EndGives(Shared, e)
      BY <2>1, <3>1, <3>2
    <3> HIDE DEF e
    <3> QED BY <2>2, <3>1, <3>3, SharedFields DEF EndGives
  <2>5. ASSUME NEW kept \in BOOLEAN, Becomes(CommitLost(kept)) PROVE IInv'
    <3> DEFINE no == FALSE
               yes == TRUE
               s == [Shared EXCEPT !.conn = Down]
               e == EndOf(s, no, kept, yes)
    <3>1. no \in BOOLEAN /\ ~no /\ yes \in BOOLEAN /\ yes
      OBVIOUS
    <3>2. Down \in Conn /\ ~Down.up /\ Down.tx = "none" /\ Down.stmts = {}
      BY DEF Down, Conn
    <3>3. Becomes(e)
      BY <2>5 DEF CommitLost, EndOf
    <3>4. s \in SharedType /\ s.td = td /\ s.conn = Down /\ s.hist = hist
      BY <1>1, <3>2, SharedUpdate, SharedFields DEF SharedType
    <3> HIDE DEF no, yes, s
    <3>5. Good(s) /\ ~s.td.doRollback /\ ~s.hist.tx.spoiled
      BY <2>1, <3>2, <3>4, SharedFields DEF Good
    <3>6. /\ (kept => ~s.hist.tx.spoiled) /\ (kept /\ ~no => yes)
          /\ no /\ ~kept => s.hist.tx.refused \/ s.hist.tx.hidden
      BY <3>1, <3>5
    <3>7. ~s.td.doRollback => EndGives(s, EndOf(s, no, kept, yes))
      BY <3>1, <3>5, <3>6, EndedFacts
    <3>8. EndGives(s, e)
      BY <3>5, <3>7
    <3> HIDE DEF e
    <3>9. \A n \in e.conn.stmts : n \in conn.stmts /\ ~Kept(Shared, n)
      BY <3>2, <3>4, <3>8 DEF EndGives
    <3> QED BY <2>2, <3>3, <3>8, <3>9 DEF EndGives
  <2> QED BY <1>6, <2>3, <2>4, <2>5 DEF Commit
<1> QED BY <1>5, <1>6

LEMMA RollbackStep == \A k \in 1 .. Len(sql) : IInv /\ Rollback(k) => IInv'
<1> SUFFICES ASSUME NEW k \in 1 .. Len(sql), IInv, Rollback(k) PROVE IInv'
  OBVIOUS
<1>1. After(Shared, sql) /\ Shared \in SharedType /\ Len(sql) <= Depth /\ sql \in Seq(Sql)
  BY IInvNow DEF IInv
<1> DEFINE q == [sql EXCEPT ![k].local = FALSE]
           s == RolledBack(Shared, k)
<1>2. sql[k].local /\ Innermost(k) /\ sql' = q /\ Becomes(s)
  BY DEF Rollback
<1>3. /\ Good(s) /\ (s.td.active <=> sql[k].nested)
      /\ s.conn.rows \in {0, Shared.conn.rows}
      /\ \A n \in s.conn.stmts : n \in Shared.conn.stmts /\ (Kept(Shared, n) => Kept(s, n))
  <2>1. Shared.td.active
    BY <1>2, SharedFields DEF IInv, Owned
  <2>2. Good(Shared)
    BY <1>1 DEF After
  <2> QED BY <1>1, <2>1, <2>2, RolledBackFacts
<1> HIDE DEF s
<1>4. /\ q \in Seq(Sql) /\ Len(q) = Len(sql) /\ Owned(s.td.active, q)
      /\ \A j \in 1 .. Len(sql) : q[j].res = sql[j].res /\ q[j].prepareUsed = sql[j].prepareUsed
  <2> DEFINE a == s.td.active
  <2>1. a <=> sql[k].nested
    BY <1>3
  <2> HIDE DEF a
  <2>2. /\ q \in Seq(Sql) /\ Len(q) = Len(sql) /\ Owned(a, q)
        /\ \A j \in 1 .. Len(sql) : q[j].res = sql[j].res /\ q[j].prepareUsed = sql[j].prepareUsed
    BY <1>2, <2>1, PutNotLocal
  <2> QED BY <2>2 DEF a
<1> HIDE DEF q
<1>5. Listed(s, q) /\ RowsWait(s, q)
  <2>1. Shared.conn.rows \in Nat
    BY <1>1 DEF SharedType, Conn
  <2> QED BY <1>1, <1>3, <1>4, <2>1 DEF After, Listed, RowsWait
<1> QED BY <1>1, <1>2, <1>3, <1>4, <1>5, IInvAfter DEF After

LEMMA DestroyStep == IInv /\ Destroy => IInv'
<1> SUFFICES ASSUME IInv, Destroy PROVE IInv'
  OBVIOUS
<1> DEFINE k == Len(sql)
           q == SubSeq(sql, 1, k - 1)
           c == Cleared(Shared, k)
           r == IF sql[k].local THEN RolledBack(c, k) ELSE c
           s == Removed(r, k)
<1>1. After(Shared, sql) /\ Shared \in SharedType /\ Len(sql) <= Depth /\ sql \in Seq(Sql)
  BY IInvNow DEF IInv
<1>2. k \in 1 .. Len(sql) /\ k \in Names /\ k \in Nat
  BY <1>1, PSqlAssumption DEF Destroy, Names
<1>3. sql' = q /\ Becomes(s)
  BY DEF Destroy
<1>4. q \in Seq(Sql) /\ Len(q) = k - 1 /\ \A j \in 1 .. k - 1 : q[j] = sql[j]
  <2> DEFINE n == k - 1
             x == SubSeq(sql, 1, n)
  <2>1. n \in Int /\ n >= 0 /\ \A i \in 1 .. n : sql[i] \in Sql
    BY <1>1, <1>2
  <2> HIDE DEF n
  <2>2. /\ x \in Seq(Sql) /\ Len(x) = (IF 1 <= n THEN n - 1 + 1 ELSE 0)
        /\ \A i \in 1 .. n - 1 + 1 : x[i] = sql[1 + i - 1]
    BY <2>1, SubSeqProperties
  <2> HIDE DEF x
  <2>3. x \in Seq(Sql) /\ Len(x) = n /\ \A i \in 1 .. n : x[i] = sql[i]
    BY <2>1, <2>2
  <2> QED BY <2>3 DEF n, x
<1>5. /\ Good(c) /\ c.td = td /\ c.conn.stmts = conn.stmts /\ c.conn.tx = conn.tx
      /\ c.conn.rows = IF sql[k].res THEN 0 ELSE conn.rows
  <2>1. Good(Shared)
    BY <1>1 DEF After
  <2>2. Good(c)
    BY <1>1, <1>2, <2>1, ClearedGood
  <2> HIDE DEF k
  <2> QED BY <1>1, <1>2, <2>2, ClearedFacts, SharedFields
<1> HIDE DEF c, q
<1>6. /\ Good(r) /\ (r.td.active <=> IF sql[k].local THEN sql[k].nested ELSE td.active)
      /\ r.conn.rows \in {0, c.conn.rows}
      /\ \A n \in r.conn.stmts : n \in c.conn.stmts /\ (Kept(c, n) => Kept(r, n))
  <2>1. CASE sql[k].local
    <3>1. sql[k].nested => c.td.active
      BY <1>1, <1>2, <1>5, <2>1, SharedFields DEF After, Owned
    <3> DEFINE x == RolledBack(c, k)
    <3>2. /\ Good(x) /\ (x.td.active <=> sql[k].nested) /\ x.conn.rows \in {0, c.conn.rows}
          /\ \A n \in x.conn.stmts : n \in c.conn.stmts /\ (Kept(c, n) => Kept(x, n))
      BY <1>1, <1>2, <1>5, <3>1, RolledBackFacts
    <3> HIDE DEF x
    <3>3. r = x
      BY <2>1 DEF x
    <3> HIDE DEF r
    <3> QED BY <2>1, <3>2, <3>3
  <2>2. CASE ~sql[k].local
    <3>1. r = c
      BY <2>2
    <3> HIDE DEF r
    <3> QED BY <1>5, <2>2, <3>1
  <2> QED BY <2>1, <2>2
<1> HIDE DEF r
<1>7. /\ Good(s) /\ s.td.active = r.td.active
      /\ s.conn.rows \in {0, r.conn.rows}
      /\ \A n \in s.conn.stmts : /\ n \in r.conn.stmts
                                 /\ Kept(r, n) => Kept(s, n)
                                 /\ n = k /\ sql[k].prepareUsed => Kept(s, n)
  BY <1>1, <1>2, <1>6, RemovedFacts
<1> HIDE DEF s
<1>8. Listed(s, q)
  <2> SUFFICES ASSUME NEW n \in s.conn.stmts
               PROVE  (n \in 1 .. Len(q) /\ q[n].prepareUsed) \/ Kept(s, n)
    BY DEF Listed
  <2>1. n \in conn.stmts /\ (Kept(Shared, n) => Kept(s, n))
    BY <1>5, <1>6, <1>7, SharedFields DEF Kept
  <2>2. CASE n \in 1 .. Len(sql) /\ sql[n].prepareUsed
    BY <1>2, <1>4, <1>7, <2>2
  <2> QED BY <1>1, <2>1, <2>2, SharedFields DEF After, Listed
<1>9. RowsWait(s, q)
  <2>1. conn.rows \in Nat /\ (conn.rows # 0 => conn.rows <= Len(sql) /\ sql[conn.rows].res)
    BY <1>1, SharedFields DEF After, RowsWait, SharedType, Conn
  <2>2. s.conn.rows # 0 => s.conn.rows = conn.rows /\ ~sql[k].res
    BY <1>5, <1>6, <1>7
  <2> QED BY <1>2, <1>4, <2>1, <2>2 DEF RowsWait
<1>10. Owned(s.td.active, q)
  <2>1. Owned(td.active, sql)
    BY DEF IInv
  <2>2. CASE sql[k].local
    <3> DEFINE a == s.td.active
    <3>1. a <=> sql[k].nested
      BY <1>6, <1>7, <2>2
    <3> HIDE DEF a
    <3>2. Innermost(k)
      BY <1>2 DEF Innermost
    <3>3. k - 1 \in k - 1 .. Len(sql) /\ ~(k <= k - 1)
      BY <1>2
    <3>4. Owned(a, q)
      BY <1>1, <1>2, <1>4, <2>1, <2>2, <3>1, <3>2, <3>3, EndOwned
    <3> QED BY <3>4 DEF a
  <2>3. CASE ~sql[k].local
    <3>1. s.td.active <=> td.active
      BY <1>6, <1>7, <2>3
    <3>2. \A j \in 1 .. Len(sql) : sql[j].local => j \in 1 .. k - 1
      BY <1>2, <2>3
    <3>3. \A j \in 1 .. k - 1 : j \in 1 .. Len(sql) /\ q[j] = sql[j]
      BY <1>2, <1>4
    <3>4. Len(q) = k - 1
      BY <1>4
    <3> HIDE DEF k
    <3>5. s.td.active <=> \E j \in 1 .. Len(q) : Owns(q, j)
      BY <2>1, <3>1, <3>2, <3>3, <3>4 DEF Owned, Owns
    <3>6. \A j \in 1 .. Len(q) : q[j].local => s.td.active
      BY <2>1, <3>1, <3>3, <3>4 DEF Owned
    <3>7. ASSUME NEW i \in 1 .. Len(q), Owns(q, i), NEW j \in 1 .. i - 1 PROVE ~q[j].local
      <4>1. i \in 1 .. Len(sql) /\ Owns(sql, i)
        BY <3>3, <3>4, <3>7 DEF Owns
      <4>2. ~sql[j].local
        BY <2>1, <4>1 DEF Owned
      <4>3. j \in 1 .. k - 1
        BY <1>2, <3>4
      <4> QED BY <3>3, <4>2, <4>3
    <3> QED BY <3>5, <3>6, <3>7 DEF Owned
  <2> QED BY <2>2, <2>3
<1>11. Len(q) <= Depth
  BY <1>1, <1>2, <1>4, PSqlAssumption
<1> QED BY <1>1, <1>2, <1>3, <1>4, <1>7, <1>8, <1>9, <1>10, <1>11, IInvAfter DEF After

(* The shared state stays, object k does not change what it has on the *)
(* server or in the transaction, nor does it leave rows behind. *)
LEMMA PutAfter ==
  ASSUME IInv, NEW k \in 1 .. Len(sql), NEW o \in Sql,
         o.local = sql[k].local, o.nested = sql[k].nested,
         NEW s, Good(s), s.td.active <=> td.active, Listed(s, Put(k, o)),
         s.conn.rows # 0 => s.conn.rows <= Len(sql) /\ Put(k, o)[s.conn.rows].res,
         sql' = Put(k, o), Becomes(s)
  PROVE  IInv'
<1> DEFINE q == Put(k, o)
<1>1. sql \in Seq(Sql) /\ Len(sql) <= Depth /\ Owned(td.active, sql)
  BY DEF IInv
<1>2. q \in Seq(Sql) /\ Len(q) = Len(sql)
  BY ONLY <1>1, o \in Sql, k \in 1 .. Len(sql), PutFacts
<1>3. Owned(s.td.active, q)
  <2>1. Owned(td.active, q)
    BY <1>1, PutOwned
  <2> HIDE DEF q
  <2> QED BY <2>1 DEF Owned
<1>4. Listed(s, q) /\ sql' = q
  OBVIOUS
<1>5. RowsWait(s, q)
  BY <1>2 DEF RowsWait
<1> HIDE DEF q
<1> QED BY <1>1, <1>2, <1>3, <1>4, <1>5, IInvAfter DEF After

(* An object keeps its statement: the list is as it was. *)
LEMMA ListedPut ==
  ASSUME sql \in Seq(Sql), NEW k \in 1 .. Len(sql), NEW o \in Sql,
         o.prepareUsed = sql[k].prepareUsed,
         NEW s, Listed(Shared, sql), s.conn.stmts = conn.stmts, s.conn.tx = conn.tx, s.td = td
  PROVE  Listed(s, Put(k, o))
<1> DEFINE q == Put(k, o)
<1>1. /\ Len(q) = Len(sql)
      /\ \A j \in 1 .. Len(sql) : q[j] = IF j = k THEN o ELSE sql[j]
  BY PutFacts
<1> HIDE DEF q
<1>2. \A j \in 1 .. Len(sql) : q[j].prepareUsed = sql[j].prepareUsed
  BY <1>1
<1>3. Listed(s, q)
  BY <1>1, <1>2, SharedFields DEF Listed, Kept
<1> QED BY <1>3 DEF q

(* An object changes only in what it will prepare or has read. *)
LEMMA SamePutAfter ==
  ASSUME IInv, NEW k \in 1 .. Len(sql), NEW o \in Sql,
         o.local = sql[k].local, o.nested = sql[k].nested,
         o.res = sql[k].res, o.prepareUsed = sql[k].prepareUsed,
         sql' = Put(k, o), Becomes(Shared)
  PROVE  IInv'
<1>1. sql \in Seq(Sql) /\ After(Shared, sql) /\ Good(Shared) /\ Shared \in SharedType
  BY IInvNow DEF IInv, After
<1>2. Listed(Shared, Put(k, o))
  BY <1>1, SharedFields, ListedPut DEF After
<1> DEFINE n == conn.rows
<1>3. n # 0 => n <= Len(sql) /\ Put(k, o)[n].res
  <2>1. n \in Nat /\ (n # 0 => n \in 1 .. Len(sql) /\ sql[n].res)
    BY <1>1, SharedFields, SharedUpdate DEF After, RowsWait, Conn
  <2> HIDE DEF n
  <2>2. sql \in Seq(Sql) /\ o \in Sql /\ k \in 1 .. Len(sql)
    BY <1>1
  <2>3. \A j \in 1 .. Len(sql) : Put(k, o)[j] = IF j = k THEN o ELSE sql[j]
    BY ONLY <2>2, PutFacts
  <2> QED BY <2>1, <2>3
<1> QED BY <1>1, <1>2, <1>3, SharedFields, PutAfter

LEMMA PrepareStep == \A k \in 1 .. Len(sql) : IInv /\ Prepare(k) => IInv'
<1> SUFFICES ASSUME NEW k \in 1 .. Len(sql), IInv, Prepare(k) PROVE IInv'
  OBVIOUS
<1> DEFINE o == [sql[k] EXCEPT !.query = TRUE, !.isPrepared = FALSE]
<1>1. sql \in Seq(Sql) /\ sql[k] \in Sql
  BY DEF IInv
<1>2. /\ o \in Sql /\ o.local = sql[k].local /\ o.nested = sql[k].nested
      /\ o.res = sql[k].res /\ o.prepareUsed = sql[k].prepareUsed
  BY <1>1 DEF Sql
<1>3. sql' = Put(k, o) /\ Becomes(Shared)
  BY <1>1, SharedFields DEF Prepare, Put, Becomes, Sql
<1> HIDE DEF o
<1> QED BY <1>1, <1>2, <1>3, SamePutAfter

LEMMA NextFirstStep == \A k \in 1 .. Len(sql) : IInv /\ NextFirst(k) => IInv'
<1> SUFFICES ASSUME NEW k \in 1 .. Len(sql), IInv, NextFirst(k) PROVE IInv'
  OBVIOUS
<1> DEFINE o == [sql[k] EXCEPT !.first = FALSE]
<1>1. sql \in Seq(Sql) /\ sql[k] \in Sql
  BY DEF IInv
<1>2. /\ o \in Sql /\ o.local = sql[k].local /\ o.nested = sql[k].nested
      /\ o.res = sql[k].res /\ o.prepareUsed = sql[k].prepareUsed
  BY <1>1 DEF Sql
<1>3. sql' = Put(k, o) /\ Becomes(Shared)
  BY <1>1, SharedFields DEF NextFirst, Put, Becomes
<1> HIDE DEF o
<1> QED BY <1>1, <1>2, <1>3, SamePutAfter

LEMMA NextEndStep == \A k \in 1 .. Len(sql) : IInv /\ NextEnd(k) => IInv'
<1> SUFFICES ASSUME NEW k \in 1 .. Len(sql), IInv, NextEnd(k) PROVE IInv'
  OBVIOUS
<1> DEFINE o == [sql[k] EXCEPT !.res = FALSE]
           s == Cleared(Shared, k)
<1>1. sql \in Seq(Sql) /\ sql[k] \in Sql
  BY DEF IInv
<1>2. /\ o \in Sql /\ o.local = sql[k].local /\ o.nested = sql[k].nested
      /\ o.prepareUsed = sql[k].prepareUsed
  BY <1>1 DEF Sql
<1>3. Listed(Shared, sql) /\ Good(Shared)
  BY DEF IInv
<1>4. Good(s) /\ s.td = td /\ s.hist = hist /\ s.conn.stmts = conn.stmts /\ s.conn.tx = conn.tx
      /\ s.conn.rows = 0
  <2>1. sql[k].res
    BY DEF NextEnd
  <2>2. Shared \in SharedType
    BY IInvNow
  <2> QED BY <1>1, <1>3, <2>1, <2>2, ClearedGood, ClearedFacts, SharedFields
<1>5. Becomes(s)
  <2>1. s.conn = Discard(conn)
    <3>1. s = [Shared EXCEPT !.conn = Discard(@)]
      BY DEF NextEnd, Cleared
    <3> HIDE DEF s
    <3> QED BY <3>1 DEF Shared
  <2> QED BY <1>4, <2>1 DEF NextEnd, Becomes
<1>6. sql' = Put(k, o)
  BY <1>1 DEF NextEnd, Put
<1> HIDE DEF o, s
<1>7. Listed(s, Put(k, o))
  BY <1>1, <1>2, <1>3, <1>4, ListedPut
<1> QED BY <1>1, <1>2, <1>4, <1>5, <1>6, <1>7, PutAfter

LEMMA BreakStep == IInv /\ Break => IInv'
<1> SUFFICES ASSUME IInv, Break PROVE IInv'
  OBVIOUS
<1> DEFINE c == Down
           s == [Shared EXCEPT !.conn = c]
<1>1. sql \in Seq(Sql) /\ Len(sql) <= Depth /\ After(Shared, sql) /\ Shared \in SharedType
  BY IInvNow DEF IInv
<1>2. c \in Conn /\ ~c.up /\ c.tx = "none" /\ c.stmts = {} /\ c.rows = 0
  BY DEF Conn, Down
<1>3. sql' = sql /\ conn' = c /\ td' = td /\ hist' = hist
  BY DEF Break
<1> HIDE DEF c
<1>4. s \in SharedType /\ s.conn = c /\ s.td = td /\ s.hist = hist
  BY <1>1, <1>2, SharedUpdate, SharedFields DEF SharedType
<1> HIDE DEF s
<1>5. Good(s)
  BY <1>1, <1>2, <1>4, SharedFields DEF After, Good
<1>6. Listed(s, sql) /\ RowsWait(s, sql)
  BY <1>2, <1>4 DEF Listed, RowsWait
<1>7. Owned(s.td.active, sql)
  BY <1>4 DEF IInv
<1>8. Becomes(s)
  BY <1>3, <1>4 DEF Becomes
<1> QED BY <1>1, <1>3, <1>5, <1>6, <1>7, <1>8, IInvAfter DEF After

LEMMA CheckConnectionStep == IInv /\ CheckConnection => IInv'
<1> SUFFICES ASSUME IInv, CheckConnection PROVE IInv'
  OBVIOUS
<1> DEFINE c == [conn EXCEPT !.up = TRUE]
           s == [Shared EXCEPT !.conn = c]
<1>1. sql \in Seq(Sql) /\ Len(sql) <= Depth /\ After(Shared, sql) /\ Shared \in SharedType
  BY IInvNow DEF IInv
<1>2. conn \in Conn /\ ~conn.up /\ sql = <<>> /\ conn.stmts = {} /\ ~td.active
  <2>1. conn \in Conn /\ ~conn.up /\ sql = <<>>
    BY <1>1, SharedFields, SharedUpdate DEF CheckConnection
  <2>2. conn.stmts = {}
    BY <1>1, <2>1, SharedFields DEF After, Good
  <2> QED BY <2>1, <2>2 DEF IInv, Owned
<1>3. c \in Conn /\ c.tx = conn.tx /\ c.stmts = {} /\ c.rows = conn.rows
  BY <1>2 DEF Conn
<1>4. sql' = sql /\ conn' = c /\ td' = td /\ hist' = hist
  BY DEF CheckConnection
<1>5. c.up
  BY <1>2 DEF Conn
<1> HIDE DEF c
<1>6. s \in SharedType /\ s.conn = c /\ s.td = td /\ s.hist = hist
  BY <1>1, <1>3, SharedUpdate, SharedFields DEF SharedType
<1> HIDE DEF s
<1>7. Good(s)
  BY <1>1, <1>2, <1>3, <1>5, <1>6, SharedFields DEF After, Good
<1>8. Listed(s, sql) /\ RowsWait(s, sql)
  BY <1>1, <1>3, <1>6, SharedFields DEF After, Listed, RowsWait
<1>9. Owned(s.td.active, sql)
  BY <1>6 DEF IInv
<1>10. Becomes(s)
  BY <1>4, <1>6 DEF Becomes
<1> QED BY <1>1, <1>4, <1>7, <1>8, <1>9, <1>10, IInvAfter DEF After

(* The list of s covers a later state t with no more statements. *)
LEMMA ListedLater ==
  ASSUME sql \in Seq(Sql), NEW k \in 1 .. Len(sql), NEW o \in Sql, NEW p \in Sql,
         o.prepareUsed => p.prepareUsed,
         NEW s, Listed(s, Put(k, o)), NEW t,
         \A n \in t.conn.stmts : n \in s.conn.stmts /\ (Kept(s, n) => Kept(t, n))
  PROVE  Listed(t, Put(k, p))
<1> DEFINE q == Put(k, o)
           r == Put(k, p)
<1>1. Len(q) = Len(sql) /\ \A j \in 1 .. Len(sql) : q[j] = IF j = k THEN o ELSE sql[j]
  BY ONLY sql \in Seq(Sql), k \in 1 .. Len(sql), o \in Sql, PutFacts
<1>2. Len(r) = Len(sql) /\ \A j \in 1 .. Len(sql) : r[j] = IF j = k THEN p ELSE sql[j]
  BY ONLY sql \in Seq(Sql), k \in 1 .. Len(sql), p \in Sql, PutFacts
<1>3. Listed(s, q)
  OBVIOUS
<1> HIDE DEF q, r
<1>4. Listed(t, r)
  BY <1>1, <1>2, <1>3 DEF Listed
<1> QED BY <1>4 DEF r

(* A query of object k, whose state is o then: the shared state s has no *)
(* rows of k any more. *)
LEMMA QueryStep ==
  ASSUME IInv, NEW k \in 1 .. Len(sql), NEW o \in Sql,
         o.local = sql[k].local, o.nested = sql[k].nested,
         NEW s, Good(s), s.td.active <=> td.active, Listed(s, Put(k, o)),
         s.conn.rows # 0 => s.conn.rows <= Len(sql) /\ sql[s.conn.rows].res /\ s.conn.rows # k,
         NEW valid, Query(k, o, s, valid)
  PROVE  IInv'
<1>1. sql \in Seq(Sql) /\ k \in Nat /\ Len(sql) \in Nat
  BY DEF IInv
<1>2. s \in SharedType /\ s.td \in Td /\ s.conn \in Conn /\ s.hist \in Hist
  BY SharedUpdate DEF Good
<1>3. \A x \in Sql : s.conn.rows # 0 =>
        s.conn.rows <= Len(sql) /\ Put(k, x)[s.conn.rows].res
  <2> SUFFICES ASSUME NEW x \in Sql, s.conn.rows # 0
               PROVE  s.conn.rows <= Len(sql) /\ Put(k, x)[s.conn.rows].res
    OBVIOUS
  <2> DEFINE n == s.conn.rows
  <2>1. n \in 1 .. Len(sql) /\ sql[n].res /\ n # k
    BY <1>1, <1>2 DEF Conn
  <2> HIDE DEF n
  <2>2. \A j \in 1 .. Len(sql) : Put(k, x)[j] = IF j = k THEN x ELSE sql[j]
    BY ONLY <1>1, x \in Sql, k \in 1 .. Len(sql), PutFacts
  <2>3. n <= Len(sql) /\ Put(k, x)[n].res
    BY <1>1, <2>1, <2>2
  <2> QED BY <2>3 DEF n
<1>4. CASE /\ s.conn.rows = 0
           /\ sql' = [sql EXCEPT ![k] = [o EXCEPT !.res = TRUE, !.first = TRUE]]
           /\ Becomes([s EXCEPT !.conn.rows = k])
  <2> DEFINE p == [o EXCEPT !.res = TRUE, !.first = TRUE]
             d == [s.conn EXCEPT !.rows = k]
             t == [s EXCEPT !.conn = d]
  <2>1. /\ p \in Sql /\ p.local = o.local /\ p.nested = o.nested /\ p.res
        /\ p.prepareUsed = o.prepareUsed
    BY DEF Sql
  <2>2. /\ d \in Conn /\ d.up = s.conn.up /\ d.tx = s.conn.tx /\ d.stmts = s.conn.stmts
        /\ d.rows = k
    BY <1>1, <1>2 DEF Conn
  <2>3. sql' = Put(k, p) /\ Becomes(t)
    BY <1>4 DEF Put
  <2> HIDE DEF p, d
  <2>4. t \in SharedType /\ t.td = s.td /\ t.conn = d /\ t.hist = s.hist
    BY <1>2, <2>2, SharedUpdate DEF SharedType
  <2> HIDE DEF t
  <2>5. Good(t)
    BY <2>2, <2>4 DEF Good
  <2>6. Listed(t, Put(k, p))
    <3>1. \A n \in t.conn.stmts : n \in s.conn.stmts /\ (Kept(s, n) => Kept(t, n))
      BY <2>2, <2>4 DEF Kept
    <3> QED BY <1>1, <2>1, <3>1, ListedLater
  <2>7. t.conn.rows <= Len(sql) /\ Put(k, p)[t.conn.rows].res
    <3>1. Put(k, p)[k] = p
      BY <1>1, <2>1, PutFacts
    <3> QED BY <1>1, <2>1, <2>2, <2>4, <3>1
  <2>8. t.td.active <=> td.active
    BY <2>4
  <2>9. p.local = sql[k].local /\ p.nested = sql[k].nested
    BY <2>1
  <2> QED BY <2>1, <2>3, <2>5, <2>6, <2>7, <2>8, <2>9, PutAfter
<1>7. CASE /\ s.conn.rows = 0
           /\ sql' = [sql EXCEPT ![k] = [o EXCEPT !.res = TRUE, !.first = TRUE]]
           /\ Becomes(Noted([s EXCEPT !.conn = [Spoil(@) EXCEPT !.rows = k]], "hidden"))
  <2> DEFINE p == [o EXCEPT !.res = TRUE, !.first = TRUE]
             d == [Spoil(s.conn) EXCEPT !.rows = k]
             t == Noted([s EXCEPT !.conn = d], "hidden")
  <2>1. /\ p \in Sql /\ p.local = o.local /\ p.nested = o.nested /\ p.res
        /\ p.prepareUsed = o.prepareUsed
    BY DEF Sql
  <2>2. /\ d \in Conn /\ d.up = s.conn.up /\ d.stmts = s.conn.stmts /\ d.rows = k
        /\ d.tx \in {s.conn.tx, Spoil(s.conn).tx}
    <3>1. Spoil(s.conn) \in Conn /\ Spoil(s.conn).up = s.conn.up /\ Spoil(s.conn).stmts = s.conn.stmts
      BY <1>2 DEF Spoil, Conn
    <3> HIDE DEF Spoil
    <3> QED BY <1>1, <3>1 DEF Conn
  <2>3. sql' = Put(k, p) /\ Becomes(t)
    BY <1>7 DEF Put
  <2> HIDE DEF p, d
  <2>4. Good(t) /\ t.td = s.td /\ t.conn = d /\ \A n \in Names : Kept(s, n) => Kept(t, n)
    BY <2>2, RefusedFacts
  <2> HIDE DEF t
  <2>5. Listed(t, Put(k, p))
    <3>1. \A n \in t.conn.stmts : n \in s.conn.stmts /\ (Kept(s, n) => Kept(t, n))
      BY <1>2, <2>2, <2>4 DEF Conn
    <3> QED BY <1>1, <2>1, <3>1, ListedLater
  <2>6. t.conn.rows <= Len(sql) /\ Put(k, p)[t.conn.rows].res
    <3>1. Put(k, p)[k] = p
      BY <1>1, <2>1, PutFacts
    <3> QED BY <1>1, <2>1, <2>2, <2>4, <3>1
  <2>7. t.td.active <=> td.active
    BY <2>4
  <2>8. p.local = sql[k].local /\ p.nested = sql[k].nested
    BY <2>1
  <2> QED BY <2>1, <2>3, <2>4, <2>5, <2>6, <2>7, <2>8, PutAfter
<1>5. CASE sql' = [sql EXCEPT ![k] = o] /\ Becomes(s)
  <2>1. sql' = Put(k, o) /\ Becomes(s)
    BY <1>5 DEF Put
  <2>2. s.conn.rows # 0 => s.conn.rows <= Len(sql) /\ Put(k, o)[s.conn.rows].res
    BY <1>3
  <2> QED BY <2>1, <2>2, PutAfter
<1>6. CASE /\ sql' = [sql EXCEPT ![k] = o]
           /\ Becomes(Noted([s EXCEPT !.conn = IF @.rows = 0 THEN Spoil(@) ELSE @], "refused"))
  <2> DEFINE d == IF s.conn.rows = 0 THEN Spoil(s.conn) ELSE s.conn
             t == Noted([s EXCEPT !.conn = d], "refused")
  <2>1. sql' = Put(k, o) /\ Becomes(t)
    BY <1>6 DEF Put
  <2>2. /\ d \in Conn /\ d.up = s.conn.up /\ d.stmts = s.conn.stmts /\ d.rows = s.conn.rows
        /\ d.tx \in {s.conn.tx, Spoil(s.conn).tx}
    <3>1. /\ Spoil(s.conn) \in Conn /\ Spoil(s.conn).up = s.conn.up
          /\ Spoil(s.conn).stmts = s.conn.stmts /\ Spoil(s.conn).rows = s.conn.rows
      BY <1>2 DEF Spoil, Conn
    <3> QED BY <1>2, <3>1
  <2> HIDE DEF d
  <2>3. Good(t) /\ t.td = s.td /\ t.conn = d /\ \A n \in Names : Kept(s, n) => Kept(t, n)
    BY <2>2, RefusedFacts
  <2> HIDE DEF t
  <2>4. Listed(t, Put(k, o))
    <3>1. \A n \in t.conn.stmts : n \in s.conn.stmts /\ (Kept(s, n) => Kept(t, n))
      BY <1>2, <2>2, <2>3 DEF Conn
    <3> QED BY <1>1, <3>1, ListedLater
  <2>5. t.conn.rows # 0 => t.conn.rows <= Len(sql) /\ Put(k, o)[t.conn.rows].res
    BY <1>3, <2>2, <2>3
  <2>6. t.td.active <=> td.active
    BY <2>3
  <2> QED BY <2>1, <2>3, <2>4, <2>5, <2>6, PutAfter
<1> QED BY <1>4, <1>5, <1>6, <1>7 DEF Query

(* What clearResult of object k leaves: no rows of k. *)
LEMMA ClearedNow ==
  ASSUME IInv, NEW k \in 1 .. Len(sql)
  PROVE  LET s == Cleared(Shared, k) IN
         /\ Good(s) /\ s.td = td /\ s.conn.stmts = conn.stmts /\ s.conn.tx = conn.tx
         /\ s.conn.rows # 0 => s.conn.rows <= Len(sql) /\ sql[s.conn.rows].res /\ s.conn.rows # k
<1> DEFINE s == Cleared(Shared, k)
<1>1. sql \in Seq(Sql) /\ Good(Shared) /\ RowsWait(Shared, sql) /\ Shared \in SharedType
  BY IInvNow DEF IInv
<1>2. Good(s)
  BY <1>1, ClearedGood
<1>3. /\ s.td = td /\ s.conn.stmts = conn.stmts /\ s.conn.tx = conn.tx
      /\ s.conn.rows = IF sql[k].res THEN 0 ELSE conn.rows
  BY <1>1, ClearedFacts, SharedFields
<1> HIDE DEF s
<1> QED BY <1>1, <1>2, <1>3, SharedFields DEF RowsWait, s

LEMMA ObjectReads ==
  ASSUME NEW p \in Sql
  PROVE  LET o == [p EXCEPT !.res = FALSE] IN
         /\ o \in Sql /\ o.local = p.local /\ o.nested = p.nested
         /\ o.prepareUsed = p.prepareUsed
BY DEF Sql

LEMMA ExecStep == \A k \in 1 .. Len(sql) : IInv /\ (Exec(k) \/ ExecAgain(k)) => IInv'
<1> SUFFICES ASSUME NEW k \in 1 .. Len(sql), IInv, Exec(k) \/ ExecAgain(k) PROVE IInv'
  OBVIOUS
<1> DEFINE o == [sql[k] EXCEPT !.res = FALSE]
           s == Cleared(Shared, k)
<1>1. sql \in Seq(Sql) /\ sql[k] \in Sql /\ Listed(Shared, sql)
  BY DEF IInv
<1>2. /\ o \in Sql /\ o.local = sql[k].local /\ o.nested = sql[k].nested
      /\ o.prepareUsed = sql[k].prepareUsed
  BY <1>1, ObjectReads
<1>3. /\ Good(s) /\ s.td = td /\ s.conn.stmts = conn.stmts /\ s.conn.tx = conn.tx
      /\ s.conn.rows # 0 => s.conn.rows <= Len(sql) /\ sql[s.conn.rows].res /\ s.conn.rows # k
  BY ClearedNow
<1>4. PICK valid : Query(k, o, s, valid)
  BY DEF Exec, ExecAgain
<1> HIDE DEF o, s
<1>5. Listed(s, Put(k, o))
  BY <1>1, <1>2, <1>3, ListedPut
<1>6. s.td.active <=> td.active
  BY <1>3
<1> QED BY <1>2, <1>3, <1>4, <1>5, <1>6, QueryStep

LEMMA ExecFirstStep == \A k \in 1 .. Len(sql) : IInv /\ ExecFirst(k) => IInv'
<1> SUFFICES ASSUME NEW k \in 1 .. Len(sql), IInv, ExecFirst(k) PROVE IInv'
  OBVIOUS
<1> DEFINE c == Cleared(Shared, k)
           s == Removed(c, k)
           o == [sql[k] EXCEPT !.res = FALSE, !.isPrepared = TRUE, !.prepareUsed = FALSE]
           x == [o EXCEPT !.prepareUsed = TRUE]
           d == Prepared(s.conn, k)
           m == [s EXCEPT !.conn = Prepared(@, k)]
           e == Spoil(Discard(s.conn))
           t == Noted([s EXCEPT !.conn = Spoil(Discard(@))], "refused")
<1>1. sql \in Seq(Sql) /\ sql[k] \in Sql /\ Listed(Shared, sql) /\ Len(sql) <= Depth /\ Len(sql) \in Nat
  BY DEF IInv
<1>2. \/ Runs(s.conn) /\ Query(k, x, m, TRUE)
      \/ sql' = [sql EXCEPT ![k] = o] /\ Becomes(t)
  BY Zenon DEF ExecFirst
<1>3. /\ o \in Sql /\ o.local = sql[k].local /\ o.nested = sql[k].nested
      /\ x \in Sql /\ x.local = sql[k].local /\ x.nested = sql[k].nested /\ x.prepareUsed
      /\ ~o.prepareUsed
  BY <1>1 DEF Sql
<1>4. Good(c) /\ c.td = td /\ c.conn.stmts = conn.stmts /\ c.conn.tx = conn.tx
  BY ClearedNow
<1>5. k \in Names
  BY <1>1, PSqlAssumption DEF Names
<1> HIDE DEF c
<1>6. /\ Good(s) /\ s.td.active = c.td.active
      /\ \A n \in s.conn.stmts : /\ n \in c.conn.stmts
                                 /\ Kept(c, n) => Kept(s, n)
                                 /\ n = k /\ sql[k].prepareUsed => Kept(s, n)
  BY <1>1, <1>4, <1>5, RemovedFacts
<1> HIDE DEF s, o, x
<1>7. s \in SharedType /\ s.td \in Td /\ s.conn \in Conn /\ s.hist \in Hist
  BY <1>6, SharedUpdate DEF Good
<1>8. s.td.active <=> td.active
  BY <1>4, <1>6
<1>9. \A n \in s.conn.stmts : (n \in 1 .. Len(sql) /\ n # k /\ sql[n].prepareUsed) \/ Kept(s, n)
  BY <1>1, <1>4, <1>6, SharedFields DEF Listed, Kept
<1>10. CASE Runs(s.conn) /\ Query(k, x, m, TRUE)
  <2>1. /\ d \in Conn /\ d.up = s.conn.up /\ d.tx = s.conn.tx /\ d.stmts = s.conn.stmts \cup {k}
        /\ d.rows = 0
    BY <1>5, <1>7 DEF Conn, Discard, Prepared
  <2>0. m = [s EXCEPT !.conn = d]
    OBVIOUS
  <2> HIDE DEF d, m
  <2>2. m \in SharedType /\ m.td = s.td /\ m.conn = d /\ m.hist = s.hist
    BY <1>7, <2>0, <2>1, SharedUpdate DEF SharedType
  <2>3. Good(m)
    BY <1>6, <1>10, <2>1, <2>2 DEF Good, Runs
  <2>4. Listed(m, Put(k, x))
    <3> DEFINE q == Put(k, x)
    <3>1. Len(q) = Len(sql) /\ \A j \in 1 .. Len(sql) : q[j] = IF j = k THEN x ELSE sql[j]
      BY ONLY <1>1, <1>3, k \in 1 .. Len(sql), PutFacts
    <3> HIDE DEF q
    <3>2. Listed(m, q)
      BY <1>3, <1>9, <2>1, <2>2, <3>1 DEF Listed, Kept
    <3> QED BY <3>2 DEF q
  <2>5. m.td.active <=> td.active
    BY <1>8, <2>2
  <2>6. m.conn.rows = 0
    BY <2>1, <2>2
  <2> QED BY <1>3, <1>10, <2>3, <2>4, <2>5, <2>6, QueryStep
<1>11. CASE sql' = [sql EXCEPT ![k] = o] /\ Becomes(t)
  <2>1. sql' = Put(k, o) /\ Becomes(t)
    BY <1>11 DEF Put
  <2>2. /\ e \in Conn /\ e.up = s.conn.up /\ e.stmts = s.conn.stmts /\ e.rows = 0
        /\ e.tx \in {s.conn.tx, Spoil(s.conn).tx}
    BY <1>7 DEF Conn, Discard, Spoil
  <2>0. t = Noted([s EXCEPT !.conn = e], "refused")
    OBVIOUS
  <2> HIDE DEF e, t
  <2>3. Good(t) /\ t.td = s.td /\ t.conn = e /\ \A n \in Names : Kept(s, n) => Kept(t, n)
    BY <1>6, <2>0, <2>2, RefusedFacts
  <2>4. Listed(t, Put(k, o))
    <3> DEFINE q == Put(k, o)
    <3>1. Len(q) = Len(sql) /\ \A j \in 1 .. Len(sql) : q[j] = IF j = k THEN o ELSE sql[j]
      BY ONLY <1>1, <1>3, k \in 1 .. Len(sql), PutFacts
    <3>2. \A n \in s.conn.stmts : n \in Names
      BY <1>7 DEF Conn
    <3> HIDE DEF q
    <3>3. Listed(t, q)
      BY <1>9, <2>2, <2>3, <3>1, <3>2 DEF Listed
    <3> QED BY <3>3 DEF q
  <2>5. t.conn.rows = 0 /\ (t.td.active <=> td.active)
    BY <1>8, <2>2, <2>3
  <2> QED BY <1>3, <2>1, <2>3, <2>4, <2>5, PutAfter
<1> QED BY <1>2, <1>10, <1>11

LEMMA ExecMultipleStep == IInv /\ sql # <<>> /\ ExecMultiple => IInv'
<1> SUFFICES ASSUME IInv, ExecMultiple PROVE IInv'
  OBVIOUS
<1>1. /\ sql \in Seq(Sql) /\ Len(sql) <= Depth /\ After(Shared, sql) /\ Shared \in SharedType
      /\ Owned(td.active, sql)
  BY IInvNow DEF IInv
<1>2. sql' = sql
  BY DEF ExecMultiple
<1>3. CASE Becomes([Shared EXCEPT !.conn = Discard(@)])
  <2> DEFINE d == Discard(conn)
             s == [Shared EXCEPT !.conn = d]
  <2>1. /\ d \in Conn /\ d.up = conn.up /\ d.tx = conn.tx /\ d.stmts = conn.stmts /\ d.rows = 0
    BY <1>1, SharedFields DEF SharedType, Conn, Discard
  <2>2. Becomes(s)
    BY <1>3, SharedFields
  <2> HIDE DEF d
  <2>3. s \in SharedType /\ s.td = td /\ s.conn = d /\ s.hist = hist
    BY <1>1, <2>1, SharedUpdate, SharedFields DEF SharedType
  <2> HIDE DEF s
  <2>4. Good(s) /\ Listed(s, sql) /\ RowsWait(s, sql) /\ Owned(s.td.active, sql)
    BY <1>1, <2>1, <2>3, SharedFields DEF After, Good, Listed, Kept, RowsWait
  <2> QED BY <1>1, <1>2, <2>2, <2>4, IInvAfter DEF After
<1>4. CASE Becomes(Noted([Shared EXCEPT !.conn = Spoil(Discard(@))], "refused"))
  <2> DEFINE d == Spoil(Discard(Shared.conn))
             s == Noted([Shared EXCEPT !.conn = d], "refused")
  <2>1. Shared.conn \in Conn /\ Good(Shared)
    BY <1>1 DEF SharedType, After
  <2>2. /\ d \in Conn /\ d.up = Shared.conn.up /\ d.stmts = Shared.conn.stmts /\ d.rows = 0
        /\ d.tx \in {Shared.conn.tx, Spoil(Shared.conn).tx}
    BY <2>1 DEF Conn, Discard, Spoil
  <2>3. Becomes(s)
    BY <1>4
  <2> HIDE DEF d
  <2>4. Good(s) /\ s.td = Shared.td /\ s.conn = d /\ \A n \in Names : Kept(Shared, n) => Kept(s, n)
    BY <2>1, <2>2, RefusedFacts
  <2> HIDE DEF s
  <2>5. Shared.conn.stmts \subseteq Names
    BY <2>1 DEF Conn
  <2>6. Listed(s, sql) /\ RowsWait(s, sql) /\ Owned(s.td.active, sql)
    BY <1>1, <2>2, <2>4, <2>5, SharedFields DEF After, Listed, RowsWait
  <2> QED BY <1>1, <1>2, <2>3, <2>4, <2>6, IInvAfter DEF After
<1> QED BY <1>3, <1>4 DEF ExecMultiple

LEMMA Step == IInv /\ [Next]_vars => IInv'
<1> SUFFICES ASSUME IInv, [Next]_vars PROVE IInv'
  OBVIOUS
<1>1. ASSUME NEW k \in 1 .. Len(sql), Call(k) PROVE IInv'
  BY <1>1, BeginStep, CommitStep, RollbackStep, PrepareStep, ExecStep, ExecFirstStep,
     NextFirstStep, NextEndStep DEF Call
<1>2. CASE UNCHANGED vars
  BY <1>2 DEF vars, IInv, Shared, Good, Listed, Kept, Owned, Owns, RowsWait, Tells
<1> QED BY <1>1, <1>2, ConstructStep, DestroyStep, BreakStep, CheckConnectionStep, ExecMultipleStep DEF Next

THEOREM Invariant == Spec => []IInv
BY Initially, Step, PTL DEF Spec

(****************************************)
(* The theorems *)
(****************************************)

(* The variables have their types, and the rows that wait on the *)
(* connection are always those of a living object that reads them. *)
THEOREM TypeCorrect == Spec => []TypeOK
<1>1. IInv => TypeOK
  BY SharedFields DEF IInv, Good, SharedType, RowsWait, TypeOK
<1> QED BY <1>1, Invariant, PTL

(* PSql::begin, commit, rollback and the destructor: however objects are *)
(* nested and unwound, one object owns the transaction of the thread, and *)
(* the mark a sub-transaction leaves never outlives it. *)
THEOREM OneOwnerHolds == Spec => []OneOwner
<1>1. IInv => OneOwner
  BY SharedFields DEF IInv, Good, Owned, Owns, OneOwner, Outermost
<1> QED BY <1>1, Invariant, PTL

(* PSql::commit: changes are kept only when no part was rolled back; they *)
(* are kept behind its back only when its answer was lost, and lost behind *)
(* its back only after a refused exec, a DEALLOCATE that failed or a query *)
(* that broke off after rows. *)
THEOREM CommitTellsHolds == Spec => []CommitTells
<1>1. IInv => CommitTells
  BY SharedFields DEF IInv, Good, Tells, CommitTells
<1> QED BY <1>1, Invariant, PTL

(* PSql::removePreparedStatement: no statement is forgotten on the server, *)
(* even when its object goes while the transaction has failed. *)
THEOREM LeftoversHolds == Spec => []Leftovers
<1>1. IInv => Leftovers
  BY SharedFields DEF IInv, Listed, Kept, Leftovers
<1> QED BY <1>1, Invariant, PTL

(* PSql::commit, rollback and the destructor: transactions end as their *)
(* callers are told, and no statement is forgotten. *)
THEOREM EndsCleanHolds == Spec => []EndsClean
BY CommitTellsHolds, LeftoversHolds, PTL DEF EndsClean

(****************************************)
(* The values of prepared statements *)
(****************************************)

(* The smallest of the numbers that satisfy what a set is made of. *)
LEMMA LeastOf ==
  ASSUME NEW S, S \subseteq Nat, S # {}
  PROVE  \E m \in S : \A j \in S : m <= j
<1> DEFINE L == OpToRel(<, Nat)
<1>1. IsWellFoundedOn(L, Nat)
  BY NatLessThanWellFounded
<1>2. \A x, y \in Nat : x < y => <<x, y>> \in L
  BY DEF OpToRel
<1> HIDE DEF L
<1>3. PICK m \in S : \A j \in S : ~(<<j, m>> \in L)
  BY <1>1, WFMin
<1>4. \A j \in S : m <= j
  <2> TAKE j \in S
  <2>1. j \in Nat /\ m \in Nat
    OBVIOUS
  <2>2. ~(j < m)
    BY <1>2, <1>3, <2>1
  <2> QED BY <2>1, <2>2
<1> QED BY <1>4

(* Induction up to a number, over what a set is made of. *)
LEMMA UpTo ==
  ASSUME NEW S, NEW n \in Nat, 0 \in S, \A i \in 0 .. n - 1 : i \in S => i + 1 \in S
  PROVE  0 .. n \subseteq S
<1> DEFINE Bad == (0 .. n) \ S
<1>1. CASE Bad # {}
  <2>1. PICK i \in Bad : \A j \in Bad : i <= j
    <3>1. Bad \subseteq Nat OBVIOUS
    <3> HIDE DEF Bad
    <3> QED BY <1>1, <3>1, LeastOf
  <2>2. i # 0 /\ i \in 0 .. n /\ i \notin S OBVIOUS
  <2>3. i - 1 \in 0 .. n - 1 /\ i - 1 \in 0 .. n /\ ~(i <= i - 1) BY <2>2
  <2>4. i - 1 \in S BY <2>1, <2>3
  <2>5. (i - 1) + 1 = i BY <2>2
  <2> QED BY <2>2, <2>3, <2>4, <2>5
<1> QED BY <1>1

(* The sums of the first of some numbers exist. *)
Sums(f, l, n) == f = [i \in 0 .. n |-> IF i = 0 THEN 0 ELSE f[i - 1] + l[i]]

LEMMA SumsExist ==
  ASSUME NEW l, NEW n \in Nat
  PROVE  \E f : Sums(f, l, n)
<1> DEFINE S == {i \in Nat : \E f : Sums(f, l, i)}
<1>1. 0 \in S
  <2> DEFINE f == [i \in 0 .. 0 |-> 0]
  <2>1. Sums(f, l, 0) BY DEF Sums
  <2> QED BY <2>1
<1>2. ASSUME NEW i \in 0 .. n - 1, i \in S  PROVE i + 1 \in S
  <2>1. PICK f : Sums(f, l, i) BY <1>2
  <2>2. i \in Nat OBVIOUS
  <2> DEFINE g == [j \in 0 .. i + 1 |-> IF j = 0 THEN 0 ELSE f[j - 1] + l[j]]
  <2>3. \A j \in 0 .. i : f[j] = IF j = 0 THEN 0 ELSE f[j - 1] + l[j] BY <2>1 DEF Sums
  <2>4. \A j \in 0 .. i + 1 : g[j] = IF j = 0 THEN 0 ELSE f[j - 1] + l[j] OBVIOUS
  <2>5. \A j \in 0 .. i : j \in 0 .. i + 1 BY <2>2
  <2>6. \A j \in 0 .. i : g[j] = f[j] BY <2>3, <2>4, <2>5
  <2>7. \A j \in 0 .. i + 1 : j # 0 => j - 1 \in 0 .. i BY <2>2
  <2>8. \A j \in 0 .. i + 1 : (IF j = 0 THEN 0 ELSE f[j - 1] + l[j]) = IF j = 0 THEN 0 ELSE g[j - 1] + l[j]
    BY <2>6, <2>7
  <2>9. g = [j \in 0 .. i + 1 |-> IF j = 0 THEN 0 ELSE g[j - 1] + l[j]] BY <2>8
  <2>10. Sums(g, l, i + 1)
    <3> HIDE DEF g
    <3> QED BY <2>9 DEF Sums
  <2> QED BY <2>2, <2>10
<1> HIDE DEF S
<1>3. 0 .. n \subseteq S BY <1>1, <1>2, UpTo
<1>4. n \in S BY <1>3
<1> QED BY <1>4 DEF S

(* Where a parameter begins. *)
LEMMA BeginsAre ==
  ASSUME NEW b
  PROVE  /\ Begins(b, 1) = 0
         /\ \A k \in Index : Begins(b, k + 1) = Begins(b, k) + b.lengths[k]
<1> DEFINE end == CHOOSE f : f = [n \in 0 .. MaxFieldCount |-> IF n = 0 THEN 0 ELSE f[n - 1] + b.lengths[n]]
<1>0. MaxFieldCount \in Nat BY ValuesAssumption
<1>1. \A k : Begins(b, k) = end[k - 1] BY DEF Begins
<1>2. PICK f : f = [n \in 0 .. MaxFieldCount |-> IF n = 0 THEN 0 ELSE f[n - 1] + b.lengths[n]]
  BY <1>0, SumsExist DEF Sums
<1>3. end = [n \in 0 .. MaxFieldCount |-> IF n = 0 THEN 0 ELSE end[n - 1] + b.lengths[n]]
  BY <1>2
<1> HIDE DEF end
<1>4. \A n \in 0 .. MaxFieldCount : end[n] = IF n = 0 THEN 0 ELSE end[n - 1] + b.lengths[n]
  BY <1>3
<1>5. Begins(b, 1) = 0
  <2>1. 0 \in 0 .. MaxFieldCount /\ 1 - 1 = 0 BY <1>0
  <2> QED BY <1>1, <1>4, <2>1
<1>6. ASSUME NEW k \in Index  PROVE Begins(b, k + 1) = Begins(b, k) + b.lengths[k]
  <2>1. (k + 1) - 1 = k /\ k \in 0 .. MaxFieldCount /\ k # 0 BY <1>0 DEF Index
  <2>2. Begins(b, k + 1) = end[k] BY <1>1, <2>1
  <2> QED BY <1>1, <1>4, <2>1, <2>2
<1> QED BY <1>5, <1>6

Lengths(b) == b.lengths \in [Index -> Nat]

LEMMA BeginsNat ==
  ASSUME NEW b, Lengths(b), NEW k \in 1 .. MaxFieldCount + 1
  PROVE  Begins(b, k) \in Nat
<1> DEFINE S == {i \in Nat : Begins(b, i + 1) \in Nat}
<1>0. MaxFieldCount \in Nat BY ValuesAssumption
<1>1. 0 \in S BY BeginsAre
<1>2. ASSUME NEW i \in 0 .. MaxFieldCount - 1, i \in S  PROVE i + 1 \in S
  <2>1. i + 1 \in Index /\ i + 1 \in Nat BY <1>0 DEF Index
  <2>2. Begins(b, (i + 1) + 1) = Begins(b, i + 1) + b.lengths[i + 1] BY <2>1, BeginsAre
  <2>3. b.lengths[i + 1] \in Nat BY <2>1 DEF Lengths
  <2>4. Begins(b, i + 1) \in Nat BY <1>2
  <2> QED BY <2>1, <2>2, <2>3, <2>4
<1>3. 0 .. MaxFieldCount \subseteq S
  <2> HIDE DEF S
  <2> QED BY <1>0, <1>1, <1>2, UpTo
<1>4. k - 1 \in 0 .. MaxFieldCount /\ (k - 1) + 1 = k BY <1>0
<1>5. Begins(b, (k - 1) + 1) \in Nat BY <1>3, <1>4
<1> QED BY <1>4, <1>5

LEMMA BeginsGrow ==
  ASSUME NEW b, Lengths(b), NEW j \in 1 .. MaxFieldCount + 1, NEW k \in 1 .. MaxFieldCount + 1, j <= k
  PROVE  Begins(b, j) <= Begins(b, k)
<1> DEFINE S == {i \in Nat : j + i > MaxFieldCount + 1 \/ Begins(b, j) <= Begins(b, j + i)}
<1>0. MaxFieldCount \in Nat BY ValuesAssumption
<1>1. 0 \in S
  <2>1. j + 0 = j /\ Begins(b, j) \in Nat BY BeginsNat
  <2> QED BY <2>1
<1>2. ASSUME NEW i \in 0 .. MaxFieldCount - 1, i \in S  PROVE i + 1 \in S
  <2>1. CASE j + (i + 1) > MaxFieldCount + 1 BY <2>1
  <2>2. CASE j + (i + 1) <= MaxFieldCount + 1
    <3>1. j + i \in Index /\ j + i \in 1 .. MaxFieldCount + 1 /\ (j + i) + 1 = j + (i + 1) BY <1>0, <2>2 DEF Index
    <3>2. Begins(b, j) <= Begins(b, j + i) BY <1>0, <1>2, <2>2
    <3>3. Begins(b, j + (i + 1)) = Begins(b, j + i) + b.lengths[j + i] BY <3>1, BeginsAre
    <3>4. b.lengths[j + i] \in Nat /\ Begins(b, j + i) \in Nat /\ Begins(b, j) \in Nat BY <3>1, BeginsNat DEF Lengths
    <3>5. Begins(b, j) <= Begins(b, j + (i + 1)) BY <3>2, <3>3, <3>4
    <3> QED BY <3>5
  <2> QED BY <1>0, <2>1, <2>2
<1>3. 0 .. MaxFieldCount \subseteq S
  <2> HIDE DEF S
  <2> QED BY <1>0, <1>1, <1>2, UpTo
<1>4. k - j \in 0 .. MaxFieldCount /\ j + (k - j) = k /\ ~(k > MaxFieldCount + 1) BY <1>0
<1>5. k - j \in S BY <1>3, <1>4
<1> QED BY <1>4, <1>5

LEMMA BeginsSame ==
  ASSUME NEW b, NEW c, NEW n \in 0 .. MaxFieldCount, \A i \in 1 .. n : b.lengths[i] = c.lengths[i]
  PROVE  \A k \in 1 .. n + 1 : Begins(b, k) = Begins(c, k)
<1> DEFINE S == {i \in Nat : Begins(b, i + 1) = Begins(c, i + 1)}
<1>0. MaxFieldCount \in Nat /\ n \in Nat BY ValuesAssumption
<1>1. 0 \in S BY BeginsAre
<1>2. ASSUME NEW i \in 0 .. n - 1, i \in S  PROVE i + 1 \in S
  <2>1. i + 1 \in Index /\ i + 1 \in Nat /\ i + 1 \in 1 .. n BY <1>0 DEF Index
  <2>2. Begins(b, (i + 1) + 1) = Begins(b, i + 1) + b.lengths[i + 1] BY <2>1, BeginsAre
  <2>3. Begins(c, (i + 1) + 1) = Begins(c, i + 1) + c.lengths[i + 1] BY <2>1, BeginsAre
  <2> QED BY <1>2, <2>1, <2>2, <2>3
<1>3. 0 .. n \subseteq S
  <2> HIDE DEF S
  <2> QED BY <1>0, <1>1, <1>2, UpTo
<1>4. ASSUME NEW k \in 1 .. n + 1  PROVE Begins(b, k) = Begins(c, k)
  <2>1. k - 1 \in 0 .. n /\ (k - 1) + 1 = k BY <1>0
  <2>2. Begins(b, (k - 1) + 1) = Begins(c, (k - 1) + 1) BY <1>3, <2>1
  <2> QED BY <2>1, <2>2
<1> QED BY <1>4

----------------------------------------

(* A part of a sequence is a part of a longer one. *)
LEMMA PartOfLonger ==
  ASSUME NEW T, NEW s \in Seq(T), NEW u \in Seq(T), NEW m \in Nat, NEW n \in Nat,
         m <= n, n <= Len(s)
  PROVE  SubSeq(s \o u, m + 1, n) = SubSeq(s, m + 1, n)
<1>1. Len(s) \in Nat /\ Len(u) \in Nat OBVIOUS
<1>2. /\ SubSeq(s \o u, m + 1, n) \in Seq(T) /\ Len(SubSeq(s \o u, m + 1, n)) = n - m
      /\ \A i \in 1 .. n - m : SubSeq(s \o u, m + 1, n)[i] = (s \o u)[m + i]
  BY <1>1
<1>3. /\ SubSeq(s, m + 1, n) \in Seq(T) /\ Len(SubSeq(s, m + 1, n)) = n - m
      /\ \A i \in 1 .. n - m : SubSeq(s, m + 1, n)[i] = s[m + i]
  BY <1>1
<1>4. \A i \in 1 .. n - m : (s \o u)[m + i] = s[m + i]
  BY <1>1
<1> QED BY <1>2, <1>3, <1>4, SeqEqual

LEMMA PartOfFirst ==
  ASSUME NEW T, NEW s \in Seq(T), NEW m \in Nat, NEW n \in Nat, NEW e \in Nat,
         m <= n, n <= e, e <= Len(s)
  PROVE  SubSeq(SubSeq(s, 1, e), m + 1, n) = SubSeq(s, m + 1, n)
<1> DEFINE f == SubSeq(s, 1, e)
<1>1. Len(s) \in Nat OBVIOUS
<1>2. f \in Seq(T) /\ Len(f) = e /\ \A i \in 1 .. e : f[i] = s[i]
  BY <1>1
<1> HIDE DEF f
<1>3. /\ SubSeq(f, m + 1, n) \in Seq(T) /\ Len(SubSeq(f, m + 1, n)) = n - m
      /\ \A i \in 1 .. n - m : SubSeq(f, m + 1, n)[i] = f[m + i]
  BY <1>1, <1>2
<1>4. /\ SubSeq(s, m + 1, n) \in Seq(T) /\ Len(SubSeq(s, m + 1, n)) = n - m
      /\ \A i \in 1 .. n - m : SubSeq(s, m + 1, n)[i] = s[m + i]
  BY <1>1
<1>5. \A i \in 1 .. n - m : m + i \in 1 .. e BY <1>1
<1>6. SubSeq(f, m + 1, n) = SubSeq(s, m + 1, n)
  BY <1>2, <1>3, <1>4, <1>5, SeqEqual
<1> QED BY <1>6 DEF f

LEMMA PartAppended ==
  ASSUME NEW T, NEW s \in Seq(T), NEW u \in Seq(T)
  PROVE  SubSeq(s \o u, Len(s) + 1, Len(s) + Len(u)) = u
<1> DEFINE m == Len(s)
           n == Len(u)
<1>1. m \in Nat /\ n \in Nat OBVIOUS
<1>2. /\ SubSeq(s \o u, m + 1, m + n) \in Seq(T) /\ Len(SubSeq(s \o u, m + 1, m + n)) = n
      /\ \A i \in 1 .. n : SubSeq(s \o u, m + 1, m + n)[i] = (s \o u)[m + i]
  BY <1>1
<1>3. \A i \in 1 .. n : (s \o u)[m + i] = u[i]
  BY <1>1
<1> QED BY <1>1, <1>2, <1>3, SeqEqual

Field  == [type : STRING, null : BOOLEAN, bytes : Seq(Nat)]
Buffer == [count : -1 .. MaxFieldCount, types : [Index -> GivenTypes], lengths : [Index -> Nat],
           nulls : [Index -> BOOLEAN], data : Seq(Nat), prepared : BOOLEAN]

(* The buffer b holds the values of want. *)
Holds(b, want) ==
  /\ Len(want) = IF b.count < 0 THEN 0 ELSE b.count
  /\ b.count >= 0 => Len(b.data) = Begins(b, b.count + 1)
  /\ \A k \in 1 .. b.count :
       /\ b.types[k] = want[k].type
       /\ b.nulls[k] = want[k].null
       /\ ValueAt(b, k) = Bytes(want[k])

(* The server found a type only when it was told none. *)
TypeOf(b, types, short) ==
  \A k \in DOMAIN types :
    k \in Index =>
      types[k] = b.types[k] \/ (types[k] = Guessed /\ (b.types[k] = Null \/ short))

LEMMA GivenAre ==
  ASSUME NEW v \in Given
  PROVE  v \in Field /\ v.type \in GivenTypes /\ v.bytes \in Seq(Nat) /\ v.null \in BOOLEAN
BY FieldsAssumption DEF Field, GivenTypes

LEMMA ParamSet ==
  ASSUME NEW b \in Buffer, NEW v \in Given, b.count \in 0 .. MaxFieldCount - 1
  PROVE  LET c == SetParamType(b, v)  k == b.count + 1 IN
         /\ c \in Buffer
         /\ c.count = k /\ k \in Index
         /\ c.types = [b.types EXCEPT ![k] = v.type]
         /\ c.lengths = [b.lengths EXCEPT ![k] = Len(v.bytes)]
         /\ c.nulls = [b.nulls EXCEPT ![k] = v.null]
         /\ c.data = b.data \o v.bytes
         /\ c.prepared = (b.prepared /\ b.types[k] = v.type)
<1> DEFINE k == b.count + 1
           types == [b.types EXCEPT ![k] = v.type]
           lengths == [b.lengths EXCEPT ![k] = Len(v.bytes)]
           nulls == [b.nulls EXCEPT ![k] = v.null]
           data == b.data \o v.bytes
           prepared == b.prepared /\ b.types[k] = v.type
           c == [count |-> k, types |-> types, lengths |-> lengths, nulls |-> nulls, data |-> data,
                 prepared |-> prepared]
<1>0. MaxFieldCount \in Nat BY ValuesAssumption
<1>1. /\ b.count \in 0 .. MaxFieldCount /\ b.types \in [Index -> GivenTypes]
      /\ b.lengths \in [Index -> Nat] /\ b.nulls \in [Index -> BOOLEAN]
      /\ b.data \in Seq(Nat) /\ b.prepared \in BOOLEAN
  BY DEF Buffer
<1>2. k \in Index /\ k \in 0 .. MaxFieldCount BY <1>0, <1>1 DEF Index
<1>3. v.type \in GivenTypes /\ v.bytes \in Seq(Nat) /\ v.null \in BOOLEAN BY GivenAre
<1>4. types \in [Index -> GivenTypes] BY <1>1, <1>3
<1>5. lengths \in [Index -> Nat]
  <2>1. Len(v.bytes) \in Nat BY <1>3
  <2> QED BY <1>1, <2>1
<1>6. nulls \in [Index -> BOOLEAN] BY <1>1, <1>3
<1>7. data \in Seq(Nat) BY <1>1, <1>3
<1>8. prepared \in BOOLEAN OBVIOUS
<1>9. SetParamType(b, v) = c
  <2>1. SetParamType(b, v) =
          [b EXCEPT !.prepared = prepared, !.types[k] = v.type, !.lengths[k] = Len(v.bytes),
                    !.nulls[k] = v.null, !.count = k, !.data = data]
    BY DEF SetParamType
  <2>2. SetParamType(b, v) =
          [b EXCEPT !.prepared = prepared, !.types = types, !.lengths = lengths,
                    !.nulls = nulls, !.count = k, !.data = data]
    <3> HIDE DEF prepared, k, data
    <3> QED BY <2>1
  <2> HIDE DEF types, lengths, nulls, prepared, k, data
  <2>3. [b EXCEPT !.prepared = prepared, !.types = types, !.lengths = lengths,
                  !.nulls = nulls, !.count = k, !.data = data] = c
    <3> DEFINE d == [count |-> b.count, types |-> b.types, lengths |-> b.lengths, nulls |-> b.nulls,
                     data |-> b.data, prepared |-> b.prepared]
    <3>1. b = d BY DEF Buffer
    <3>2. [d EXCEPT !.prepared = prepared, !.types = types, !.lengths = lengths,
                    !.nulls = nulls, !.count = k, !.data = data]
          = [[[[[[d EXCEPT !.prepared = prepared] EXCEPT !.types = types] EXCEPT !.lengths = lengths]
               EXCEPT !.nulls = nulls] EXCEPT !.count = k] EXCEPT !.data = data]
      OBVIOUS
    <3> DEFINE d1 == [count |-> b.count, types |-> b.types, lengths |-> b.lengths,
                      nulls |-> b.nulls, data |-> b.data, prepared |-> prepared]
               d2 == [count |-> b.count, types |-> types, lengths |-> b.lengths,
                      nulls |-> b.nulls, data |-> b.data, prepared |-> prepared]
               d3 == [count |-> b.count, types |-> types, lengths |-> lengths,
                      nulls |-> b.nulls, data |-> b.data, prepared |-> prepared]
               d4 == [count |-> b.count, types |-> types, lengths |-> lengths,
                      nulls |-> nulls, data |-> b.data, prepared |-> prepared]
               d5 == [count |-> k, types |-> types, lengths |-> lengths,
                      nulls |-> nulls, data |-> b.data, prepared |-> prepared]
    <3>3. [d EXCEPT !.prepared = prepared] = d1 OBVIOUS
    <3>4. [d1 EXCEPT !.types = types] = d2 OBVIOUS
    <3>5. [d2 EXCEPT !.lengths = lengths] = d3 OBVIOUS
    <3>6. [d3 EXCEPT !.nulls = nulls] = d4 OBVIOUS
    <3>7. [d4 EXCEPT !.count = k] = d5 OBVIOUS
    <3>8. [d5 EXCEPT !.data = data] = c OBVIOUS
    <3> HIDE DEF c, d, d1, d2, d3, d4, d5
    <3> QED BY <3>1, <3>2, <3>3, <3>4, <3>5, <3>6, <3>7, <3>8
  <2> QED BY <2>2, <2>3
<1> HIDE DEF k, types, lengths, nulls, data, prepared
<1>10. c \in Buffer
  BY <1>2, <1>4, <1>5, <1>6, <1>7, <1>8 DEF Buffer
<1>11. /\ c.count = k /\ c.types = types /\ c.lengths = lengths /\ c.nulls = nulls
       /\ c.data = data /\ c.prepared = prepared
  OBVIOUS
<1> HIDE DEF c
<1> QED BY <1>2, <1>9, <1>10, <1>11 DEF k, types, lengths, nulls, data, prepared

LEMMA ValueKept ==
  ASSUME NEW b \in Buffer, NEW c \in Buffer, NEW k \in 1 .. b.count,
         Begins(c, k) = Begins(b, k), c.lengths[k] = b.lengths[k], c.nulls[k] = b.nulls[k],
         ~b.nulls[k] => SubSeq(c.data, Begins(b, k) + 1, Begins(b, k) + b.lengths[k])
                        = SubSeq(b.data, Begins(b, k) + 1, Begins(b, k) + b.lengths[k])
  PROVE  ValueAt(c, k) = ValueAt(b, k)
BY DEF ValueAt

(* Where a parameter that is held ends. *)
LEMMA WithinData ==
  ASSUME NEW b \in Buffer, NEW k \in 1 .. b.count
  PROVE  /\ k \in Index /\ Begins(b, k) \in Nat /\ b.lengths[k] \in Nat
         /\ Begins(b, k) + b.lengths[k] = Begins(b, k + 1)
         /\ \A n \in k .. b.count : Begins(b, k + 1) <= Begins(b, n + 1)
<1>0. MaxFieldCount \in Nat BY ValuesAssumption
<1>1. b.count \in -1 .. MaxFieldCount /\ Lengths(b) BY DEF Buffer, Lengths
<1>2. k \in Index /\ k \in 1 .. MaxFieldCount + 1 /\ k + 1 \in 1 .. MaxFieldCount + 1
  BY <1>0, <1>1 DEF Index
<1>3. b.lengths[k] \in Nat /\ Begins(b, k) \in Nat BY <1>1, <1>2, BeginsNat DEF Lengths
<1>4. Begins(b, k) + b.lengths[k] = Begins(b, k + 1) BY <1>2, BeginsAre
<1>5. ASSUME NEW n \in k .. b.count  PROVE Begins(b, k + 1) <= Begins(b, n + 1)
  <2>1. n + 1 \in 1 .. MaxFieldCount + 1 /\ k + 1 <= n + 1 BY <1>0, <1>1
  <2> QED BY <1>1, <1>2, <2>1, BeginsGrow
<1> QED BY <1>2, <1>3, <1>4, <1>5

(* operator<< adds a value behind those that are held. *)
LEMMA ParamHeld ==
  ASSUME NEW b \in Buffer, NEW v \in Given, b.count \in 0 .. MaxFieldCount - 1, NEW want \in Seq(Given),
         Holds(b, want)
  PROVE  Holds(SetParamType(b, v), Append(want, v))
<1> DEFINE k == b.count + 1
           c == SetParamType(b, v)
           more == Append(want, v)
<1>0. MaxFieldCount \in Nat BY ValuesAssumption
<1>1. /\ b.count \in 0 .. MaxFieldCount /\ b.types \in [Index -> GivenTypes]
      /\ b.lengths \in [Index -> Nat] /\ b.nulls \in [Index -> BOOLEAN]
      /\ b.data \in Seq(Nat) /\ Lengths(b)
  BY DEF Buffer, Lengths
<1>2. /\ c \in Buffer /\ c.count = k /\ k \in Index
      /\ c.types = [b.types EXCEPT ![k] = v.type]
      /\ c.lengths = [b.lengths EXCEPT ![k] = Len(v.bytes)]
      /\ c.nulls = [b.nulls EXCEPT ![k] = v.null]
      /\ c.data = b.data \o v.bytes
  BY ParamSet
<1>3. v.bytes \in Seq(Nat) /\ v.null \in BOOLEAN BY GivenAre
<1> HIDE DEF c
<1>4. /\ \A j \in 1 .. b.count : j \in Index /\ j # k
      /\ \A j \in 1 .. b.count : c.types[j] = b.types[j] /\ c.lengths[j] = b.lengths[j]
                                 /\ c.nulls[j] = b.nulls[j]
      /\ c.types[k] = v.type /\ c.lengths[k] = Len(v.bytes) /\ c.nulls[k] = v.null
  BY <1>0, <1>1, <1>2 DEF Index
<1>5. \A j \in 1 .. k : Begins(c, j) = Begins(b, j)
  <2>1. \A j \in 1 .. b.count : b.lengths[j] = c.lengths[j] BY <1>4
  <2>2. \A j \in 1 .. b.count + 1 : Begins(b, j) = Begins(c, j) BY <1>1, <2>1, BeginsSame
  <2> QED BY <2>2
<1>6. Len(b.data) = Begins(b, k) /\ b.count = Len(want) BY DEF Holds
<1>7. k \in 1 .. k /\ Begins(c, k) = Len(b.data) /\ Begins(c, k + 1) = Len(b.data) + Len(v.bytes)
  <2>1. k \in 1 .. k BY <1>1
  <2>2. Begins(c, k) = Len(b.data) BY <1>5, <1>6, <2>1
  <2>3. Begins(c, k + 1) = Begins(c, k) + c.lengths[k] BY <1>2, BeginsAre
  <2> QED BY <1>4, <2>1, <2>2, <2>3
<1>8. Len(c.data) = Begins(c, c.count + 1)
  <2>1. Len(c.data) = Len(b.data) + Len(v.bytes) BY <1>1, <1>2, <1>3
  <2> QED BY <1>2, <1>7, <2>1
<1>9. /\ Len(more) = k /\ more[k] = v
      /\ \A j \in 1 .. b.count : more[j] = want[j]
  BY <1>1, <1>6
<1>10. ASSUME NEW j \in 1 .. b.count
       PROVE  c.types[j] = want[j].type /\ c.nulls[j] = want[j].null /\ ValueAt(c, j) = Bytes(want[j])
  <2>1. b.types[j] = want[j].type /\ b.nulls[j] = want[j].null /\ ValueAt(b, j) = Bytes(want[j])
    BY DEF Holds
  <2>2. /\ Begins(b, j) \in Nat /\ b.lengths[j] \in Nat
        /\ Begins(b, j) + b.lengths[j] = Begins(b, j + 1)
        /\ \A n \in j .. b.count : Begins(b, j + 1) <= Begins(b, n + 1)
    BY WithinData
  <2>3. b.count \in j .. b.count BY <1>1
  <2>4. Begins(b, j) + b.lengths[j] <= Len(b.data) BY <1>6, <2>2, <2>3
  <2> DEFINE m == Begins(b, j)
             n == m + b.lengths[j]
  <2>5. m \in Nat /\ n \in Nat /\ m <= n /\ n <= Len(b.data) BY <2>2, <2>4
  <2>6. SubSeq(c.data, m + 1, n) = SubSeq(b.data, m + 1, n)
    <3> HIDE DEF m, n
    <3>1. SubSeq(b.data \o v.bytes, m + 1, n) = SubSeq(b.data, m + 1, n)
      BY <1>1, <1>3, <2>5, PartOfLonger
    <3> QED BY <1>2, <3>1
  <2>7. j \in 1 .. k BY <1>1
  <2>8. ValueAt(c, j) = ValueAt(b, j) BY <1>2, <1>4, <1>5, <2>6, <2>7, ValueKept
  <2> QED BY <1>4, <2>1, <2>8
<1>11. ValueAt(c, k) = Bytes(v)
  <2>1. CASE v.null BY <1>4, <2>1 DEF ValueAt, Bytes
  <2>2. CASE ~v.null
    <3>1. ValueAt(c, k) = SubSeq(c.data, Len(b.data) + 1, Len(b.data) + Len(v.bytes))
      BY <1>4, <1>7, <2>2 DEF ValueAt
    <3>2. SubSeq(b.data \o v.bytes, Len(b.data) + 1, Len(b.data) + Len(v.bytes)) = v.bytes
      BY <1>1, <1>3, PartAppended
    <3> QED BY <1>2, <2>2, <3>1, <3>2 DEF Bytes
  <2> QED BY <2>1, <2>2
<1>12. ASSUME NEW j \in 1 .. c.count
       PROVE  c.types[j] = more[j].type /\ c.nulls[j] = more[j].null /\ ValueAt(c, j) = Bytes(more[j])
  <2>1. CASE j = k BY <1>4, <1>9, <1>11, <2>1
  <2>2. CASE j # k
    <3>1. j \in 1 .. b.count BY <1>1, <1>2, <2>2
    <3> QED BY <1>9, <1>10, <3>1
  <2> QED BY <2>1, <2>2
<1> HIDE DEF more
<1>13. Holds(c, more)
  BY <1>2, <1>8, <1>9, <1>12 DEF Holds
<1> QED BY <1>13 DEF c, more

(* The first parameters stay. *)
LEMMA KeepHeld ==
  ASSUME NEW b \in Buffer, NEW want \in Seq(Given), Holds(b, want), NEW keep \in 0 .. b.count,
         NEW prepared \in BOOLEAN
  PROVE  LET c == [Keep(b, keep) EXCEPT !.prepared = prepared] IN
         /\ c \in Buffer /\ Holds(c, SubSeq(want, 1, keep))
         /\ c.count = keep /\ c.types = b.types /\ c.prepared = prepared
<1> DEFINE e == Begins(b, keep + 1)
           data == SubSeq(b.data, 1, e)
           c == [count |-> keep, types |-> b.types, lengths |-> b.lengths, nulls |-> b.nulls,
                 data |-> data, prepared |-> prepared]
           less == SubSeq(want, 1, keep)
<1>0. MaxFieldCount \in Nat BY ValuesAssumption
<1>1. /\ b.count \in 0 .. MaxFieldCount /\ b.types \in [Index -> GivenTypes]
      /\ b.lengths \in [Index -> Nat] /\ b.nulls \in [Index -> BOOLEAN]
      /\ b.data \in Seq(Nat) /\ Lengths(b)
  <2>1. b.count \in -1 .. MaxFieldCount BY DEF Buffer
  <2>2. b.count \in 0 .. MaxFieldCount BY <1>0, <2>1
  <2> QED BY <2>2 DEF Buffer, Lengths
<1>2. Len(b.data) = Begins(b, b.count + 1) /\ b.count = Len(want) BY <1>1 DEF Holds
<1>3. keep \in 0 .. MaxFieldCount /\ keep + 1 \in 1 .. MaxFieldCount + 1
      /\ b.count + 1 \in 1 .. MaxFieldCount + 1 /\ keep + 1 <= b.count + 1
  BY <1>0, <1>1
<1>4. e \in Nat /\ e <= Len(b.data)
  BY <1>1, <1>2, <1>3, BeginsNat, BeginsGrow
<1>5. data \in Seq(Nat) /\ Len(data) = e
  <2> HIDE DEF e
  <2> QED BY <1>1, <1>4
<1>6. [Keep(b, keep) EXCEPT !.prepared = prepared] = c
  <2>1. b = [count |-> b.count, types |-> b.types, lengths |-> b.lengths, nulls |-> b.nulls,
             data |-> b.data, prepared |-> b.prepared]
    BY DEF Buffer
  <2>2. Keep(b, keep) = [b EXCEPT !.count = keep, !.data = data] BY DEF Keep
  <2> HIDE DEF data
  <2>3. Keep(b, keep) = [count |-> keep, types |-> b.types, lengths |-> b.lengths, nulls |-> b.nulls,
                         data |-> data, prepared |-> b.prepared]
    BY <2>1, <2>2
  <2> QED BY <2>3
<1> HIDE DEF data
<1>7. c \in Buffer BY <1>1, <1>3, <1>5 DEF Buffer
<1>8. /\ c.count = keep /\ c.types = b.types /\ c.lengths = b.lengths /\ c.nulls = b.nulls
      /\ c.data = data /\ c.prepared = prepared
  OBVIOUS
<1> HIDE DEF c
<1>9. \A k \in 1 .. MaxFieldCount + 1 : Begins(c, k) = Begins(b, k)
  <2>1. \A i \in 1 .. MaxFieldCount : c.lengths[i] = b.lengths[i] BY <1>8
  <2>2. MaxFieldCount \in 0 .. MaxFieldCount BY <1>0
  <2> QED BY <2>1, <2>2, BeginsSame
<1>10. Len(c.data) = Begins(c, c.count + 1) BY <1>3, <1>5, <1>8, <1>9
<1>11. Len(less) = keep /\ \A k \in 1 .. keep : less[k] = want[k]
  BY <1>1, <1>2
<1>12. ASSUME NEW k \in 1 .. keep
       PROVE  /\ c.types[k] = less[k].type /\ c.nulls[k] = less[k].null
              /\ ValueAt(c, k) = Bytes(less[k])
  <2>0. k \in 1 .. b.count BY <1>1
  <2>1. b.types[k] = want[k].type /\ b.nulls[k] = want[k].null /\ ValueAt(b, k) = Bytes(want[k])
    BY <2>0 DEF Holds
  <2>2. /\ k \in Index /\ Begins(b, k) \in Nat /\ b.lengths[k] \in Nat
        /\ Begins(b, k) + b.lengths[k] = Begins(b, k + 1)
        /\ \A n \in k .. b.count : Begins(b, k + 1) <= Begins(b, n + 1)
    BY <2>0, WithinData
  <2>3. keep \in k .. b.count BY <1>1
  <2> DEFINE m == Begins(b, k)
             n == m + b.lengths[k]
  <2>4. m \in Nat /\ n \in Nat /\ m <= n /\ n <= e BY <2>2, <2>3
  <2>5. SubSeq(c.data, m + 1, n) = SubSeq(b.data, m + 1, n)
    <3>0. c.data = SubSeq(b.data, 1, e) BY <1>8 DEF data
    <3> HIDE DEF m, n, e
    <3>1. SubSeq(SubSeq(b.data, 1, e), m + 1, n) = SubSeq(b.data, m + 1, n)
      BY <1>1, <1>4, <2>4, PartOfFirst
    <3> QED BY <3>0, <3>1
  <2>6. Begins(c, k) = Begins(b, k) BY <1>9, <2>2, <1>0 DEF Index
  <2>7. ValueAt(c, k) = ValueAt(b, k) BY <1>7, <1>8, <2>0, <2>5, <2>6, ValueKept
  <2> QED BY <1>8, <1>11, <2>1, <2>7
<1> HIDE DEF less
<1>13. Holds(c, less)
  BY <1>8, <1>10, <1>11, <1>12 DEF Holds
<1> QED BY <1>6, <1>7, <1>8, <1>13 DEF less

LEMMA Grows ==
  ASSUME NEW d \in Nat, NEW x \in Int, NEW y \in Int, x <= y
  PROVE  d * x <= d * y
BY SMTT(20)

LEMMA Spread ==
  ASSUME NEW d \in Nat, NEW x \in Int
  PROVE  d * (x + 1) = d * x + d
BY SMTT(20)

LEMMA DividedAs ==
  ASSUME NEW a \in Int, NEW d \in Nat \ {0}
  PROVE  /\ a \div d \in Int /\ a % d \in 0 .. d - 1
         /\ a = d * (a \div d) + (a % d)
<1>1. a = d * (a \div d) + (a % d) BY Z3
<1>2. a % d \in 0 .. d - 1 BY Z3
<1>3. a \div d \in Int BY Z3
<1> QED BY <1>1, <1>2, <1>3

(* There is one quotient and one remainder. *)
LEMMA OneQuotient ==
  ASSUME NEW a \in Int, NEW d \in Nat \ {0}, NEW x \in Int, NEW r \in 0 .. d - 1, a = d * x + r
  PROVE  a \div d = x /\ a % d = r
<1> DEFINE y == a \div d
           t == a % d
<1>1. y \in Int /\ t \in 0 .. d - 1 /\ a = d * y + t BY DividedAs
<1> HIDE DEF y, t
<1>2. d * x \in Int /\ d * y \in Int BY <1>1
<1>3. ~(x < y)
  <2> SUFFICES ASSUME x < y  PROVE FALSE OBVIOUS
  <2>1. x + 1 \in Int /\ x + 1 <= y BY <1>1
  <2>2. d * (x + 1) <= d * y BY <1>1, <2>1, Grows
  <2>3. d * (x + 1) = d * x + d BY Spread
  <2> QED BY <1>1, <1>2, <2>2, <2>3
<1>4. ~(y < x)
  <2> SUFFICES ASSUME y < x  PROVE FALSE OBVIOUS
  <2>1. y + 1 \in Int /\ y + 1 <= x BY <1>1
  <2>2. d * (y + 1) <= d * x BY <1>1, <2>1, Grows
  <2>3. d * (y + 1) = d * y + d BY <1>1, Spread
  <2> QED BY <1>1, <1>2, <2>2, <2>3
<1>5. x = y BY <1>1, <1>3, <1>4
<1>6. d * x = d * y BY <1>5
<1>7. t = r BY <1>1, <1>2, <1>6
<1> QED BY <1>5, <1>7 DEF y, t

(* A number of an even range goes to the server and back. *)
LEMMA NumberBack ==
  ASSUME NEW h \in Nat \ {0}, NEW range \in Nat, range = 2 * h
  PROVE  /\ \A v \in 0 .. range - 1 : ReadNumber(SentNumber(v, range), range, FALSE) = v
         /\ \A v \in -h .. h - 1 : ReadNumber(SentNumber(v, range), range, TRUE) = v
<1>0. range \in Nat \ {0} OBVIOUS
<1>1. ASSUME NEW v \in 0 .. range - 1  PROVE v % range = v /\ (v - range) % range = v
  <2>1. v = range * 0 + v OBVIOUS
  <2>2. v % range = v BY <1>0, <2>1, OneQuotient
  <2>3. v - range = range * (-1) + v
    <3>1. range * (-1) = -range OBVIOUS
    <3> QED BY <3>1
  <2>4. v - range \in Int /\ -1 \in Int OBVIOUS
  <2>5. (v - range) % range = v BY <1>0, <2>3, <2>4, OneQuotient
  <2> QED BY <2>2, <2>5
<1>2. ASSUME NEW v \in 0 .. range - 1
      PROVE  ReadNumber(SentNumber(v, range), range, FALSE) = v
  <2>1. v % range = v /\ (v - range) % range = v BY <1>1
  <2>2. SentNumber(v, range) \in {v, v - range} BY <2>1 DEF SentNumber, Wrap
  <2>3. ReadNumber(SentNumber(v, range), range, FALSE) = SentNumber(v, range) % range BY DEF ReadNumber
  <2>4. CASE SentNumber(v, range) = v BY <2>1, <2>3, <2>4
  <2>5. CASE SentNumber(v, range) = v - range BY <2>1, <2>3, <2>5
  <2> QED BY <2>2, <2>4, <2>5
<1>3. ASSUME NEW v \in -h .. h - 1
      PROVE  ReadNumber(SentNumber(v, range), range, TRUE) = v
  <2>1. Wrap(v, range) = v
    <3>1. CASE v >= 0
      <4>1. v \in 0 .. range - 1 /\ ~(2 * v >= range) BY <3>1
      <4>2. v % range = v BY <1>1, <4>1
      <4> QED BY <4>1, <4>2 DEF Wrap
    <3>2. CASE v < 0
      <4> DEFINE u == v + range
      <4>1. u \in 0 .. range - 1 /\ 2 * u >= range /\ u - range = v BY <3>2
      <4> HIDE DEF u
      <4>2. (u - range) % range = u BY <1>1, <4>1
      <4>3. v % range = u BY <4>1, <4>2
      <4> QED BY <4>1, <4>3 DEF Wrap
    <3> QED BY <3>1, <3>2
  <2> QED BY <2>1 DEF ReadNumber, SentNumber
<1> QED BY <1>2, <1>3

LEMMA TimeBack ==
  ASSUME NEW msec \in Nat
  PROVE  ReadTime(SentTime(msec)) = msec
<1> DEFINE x == msec - Delta
<1>0. Milli \in Nat \ {0} /\ Delta \in Nat BY ValuesAssumption
<1>1. x \in Int /\ x + Delta = msec /\ SentTime(msec) = x * Milli BY <1>0 DEF SentTime
<1> HIDE DEF x
<1>2. ASSUME NEW y \in Nat  PROVE (y * Milli) \div Milli = y /\ y * Milli \in Nat /\ y * Milli >= 0
  <2>1. y * Milli = Milli * y BY <1>0, Z3
  <2>2. y * Milli \in Int BY <1>0
  <2>3. y * Milli = Milli * y + 0 BY <1>0, <2>1
  <2>4. 0 \in 0 .. Milli - 1 BY <1>0
  <2>5. (y * Milli) \div Milli = y BY <1>0, <2>2, <2>3, <2>4, OneQuotient
  <2>6. Milli * 0 <= Milli * y BY <1>0, Grows
  <2>7. Milli * 0 = 0 BY <1>0
  <2> QED BY <2>1, <2>2, <2>5, <2>6, <2>7
<1>3. Quotient(x * Milli, Milli) = x
  <2>1. CASE x >= 0
    <3>1. x \in Nat BY <1>1, <2>1
    <3>2. (x * Milli) \div Milli = x /\ x * Milli >= 0 /\ x * Milli \in Nat BY <1>2, <3>1
    <3>3. ~(x * Milli < 0) BY <3>2
    <3> QED BY <3>2, <3>3 DEF Quotient
  <2>2. CASE x < 0
    <3> DEFINE y == -x
    <3>1. y \in Nat /\ x = -y BY <1>1, <2>2
    <3> HIDE DEF y
    <3>2. (y * Milli) \div Milli = y /\ y * Milli >= 0 /\ y * Milli \in Nat BY <1>2, <3>1
    <3>3. x * Milli = -(y * Milli) BY <1>0, <3>1, SMTT(20)
    <3>4. CASE y * Milli = 0
      <4>1. x * Milli = 0 /\ ~(x * Milli < 0) BY <3>3, <3>4
      <4>2. Quotient(x * Milli, Milli) = 0 \div Milli BY <4>1 DEF Quotient
      <4>3. 0 \div Milli = y BY <3>2, <3>4
      <4>4. 0 * Milli = 0 BY <1>0
      <4>5. 0 \div Milli = 0 BY <1>2, <4>4
      <4>6. y = 0 BY <4>3, <4>5
      <4> QED BY <3>1, <4>2, <4>5, <4>6
    <3>5. CASE y * Milli # 0
      <4>1. x * Milli < 0 /\ -(x * Milli) = y * Milli BY <3>2, <3>3, <3>5
      <4>2. Quotient(x * Milli, Milli) = -((y * Milli) \div Milli) BY <4>1 DEF Quotient
      <4> QED BY <3>1, <3>2, <4>2
    <3> QED BY <3>4, <3>5
  <2> QED BY <1>1, <2>1, <2>2
<1> QED BY <1>1, <1>3 DEF ReadTime

(* What is sent as a number or as a time comes back, whatever the ranges. *)
LEMMA AllNumbersBack == NumbersBack
<1>0. Delta \in Nat BY ValuesAssumption
<1>1. PICK h \in 1 .. Byte : Byte = 2 * h BY ValuesAssumption
<1>2. Byte \in Nat /\ h \in Nat \ {0} BY <1>1, ValuesAssumption
<1> DEFINE Back(range) ==
      /\ \A v \in 0 .. range - 1 : ReadNumber(SentNumber(v, range), range, FALSE) = v
      /\ \A v \in -(range \div 2) .. range \div 2 - 1 :
           ReadNumber(SentNumber(v, range), range, TRUE) = v
<1>3. ASSUME NEW range \in Nat, NEW g \in Nat \ {0}, range = 2 * g  PROVE Back(range)
  <2>1. range \div 2 = g BY <1>3
  <2> QED BY <1>3, <2>1, NumberBack
<1>4. Back(Byte) BY <1>1, <1>2, <1>3
<1>5. Back(Byte * Byte)
  <2> DEFINE g == h * Byte
  <2>1. Byte * Byte = 2 * g BY <1>1, <1>2, SMTT(20)
  <2>2. g \in Nat /\ Byte * Byte \in Nat BY <1>2, SMTT(20)
  <2>3. g # 0
    <3>1. Byte * 1 <= Byte * h BY <1>2, Grows
    <3>2. Byte * h = h * Byte BY <1>2, SMTT(20)
    <3> QED BY <1>1, <1>2, <3>1, <3>2
  <2> HIDE DEF g
  <2> QED BY <1>3, <2>1, <2>2, <2>3
<1> HIDE DEF Back
<1>6. \A range \in {Byte, Byte * Byte} : Back(range) BY <1>4, <1>5
<1>7. \A msec \in 0 .. 2 * Delta : ReadTime(SentTime(msec)) = msec
  <2> TAKE msec \in 0 .. 2 * Delta
  <2>1. msec \in Nat BY <1>0
  <2> QED BY <2>1, TimeBack
<1> QED BY <1>6, <1>7 DEF NumbersBack, Back

----------------------------------------

RunIs ==
  /\ DOMAIN run = {"want", "now", "short"}
  /\ run.want \in Seq(Given) /\ run.short \in BOOLEAN

ResIs ==
  /\ DOMAIN res = {"open", "row", "ready", "field", "count", "types", "last"}
  /\ res.open \in BOOLEAN /\ res.ready \in BOOLEAN
  /\ res.field \in Nat /\ res.count \in Nat \cup {-1} /\ res.row \in Seq(Field)
  /\ res.ready => /\ res.count = Len(res.row) /\ Len(res.row) <= MaxFieldCount
                  /\ \A k \in DOMAIN res.row : res.types[k] = res.row[k].type

Types == GivenTypes \cup {Guessed, Null}

(* The buffer is what is wanted, and the types the server has for a *)
(* statement that counts as prepared are those of the parameters, the ones *)
(* that are still to be given included. *)
ParInv ==
  /\ par \in Buffer /\ stmt \in Seq(Types) /\ RunIs
  /\ Holds(par, run.want)
  /\ par.prepared /\ stmt # NoStatement => TypeOf(par, stmt, run.short)
  /\ StatementGetsValues

ResInv == ResIs /\ RowsRead

ValuesInv == ParInv /\ ResInv

LEMMA ValuesBegin == ValuesInit => ValuesInv
<1> SUFFICES ASSUME ValuesInit  PROVE ValuesInv OBVIOUS
<1>0. MaxFieldCount \in Nat \ {0} BY ValuesAssumption
<1>1. /\ par.count = -1 /\ par.types \in [Index -> GivenTypes] /\ par.lengths = [k \in Index |-> 0]
      /\ par.nulls = [k \in Index |-> FALSE] /\ par.data = <<>> /\ par.prepared = FALSE
  BY DEF ValuesInit
<1>2. par \in Buffer
  <2>1. <<>> \in Seq(Nat) /\ [k \in Index |-> 0] \in [Index -> Nat]
        /\ [k \in Index |-> FALSE] \in [Index -> BOOLEAN] /\ -1 \in -1 .. MaxFieldCount
    BY <1>0
  <2> QED BY <2>1 DEF ValuesInit, Buffer
<1>3. RunIs /\ run.want = <<>>
  <2>1. <<>> \in Seq(Given) OBVIOUS
  <2> QED BY <2>1 DEF ValuesInit, RunIs
<1>4. Holds(par, run.want)
  <2>1. par.count < 0 /\ ~(par.count >= 0) /\ Len(run.want) = 0 /\ 1 .. par.count = {} BY <1>1, <1>3
  <2> QED BY <2>1 DEF Holds
<1>5. stmt \in Seq(Types)
  <2>1. Null \in Types BY DEF Types
  <2>2. <<Null>> \in Seq(Types) BY <2>1
  <2> QED BY <2>2 DEF ValuesInit, NoStatement
<1>6. StatementGetsValues BY DEF ValuesInit, StatementGetsValues, NotRun
<1>7. ResIs
  <2>1. <<>> \in Seq(Field) OBVIOUS
  <2> QED BY <2>1 DEF ValuesInit, NoResult, ResIs
<1>8. RowsRead BY DEF ValuesInit, NoResult, NotRead, RowsRead
<1> QED BY <1>1, <1>2, <1>3, <1>4, <1>5, <1>6, <1>7, <1>8 DEF ValuesInv, ParInv, ResInv

(* A result that ends keeps the row it is at. *)
LEMMA EndedIs ==
  ASSUME ResInv, res' = ResultEnded(res)
  PROVE  ResInv'
<1>1. /\ res'.open = FALSE /\ res'.row = res.row /\ res'.ready = res.ready /\ res'.field = res.field
      /\ res'.count = res.count /\ res'.types = res.types /\ res'.last = res.last
      /\ DOMAIN res' = DOMAIN res
  BY DEF ResInv, ResIs, ResultEnded
<1>2. ResIs' BY <1>1 DEF ResInv, ResIs
<1>3. RowsRead' BY <1>1 DEF ResInv, RowsRead
<1> QED BY <1>2, <1>3 DEF ResInv

(* Rows of the same types have as many fields. *)
LEMMA SameTypes ==
  ASSUME NEW row \in Seq(Field), NEW old \in Seq(Field),
         [k \in DOMAIN row |-> row[k].type] = [k \in DOMAIN old |-> old[k].type]
  PROVE  /\ DOMAIN row = DOMAIN old /\ Len(row) = Len(old)
         /\ \A k \in DOMAIN row : row[k].type = old[k].type
<1>1. /\ DOMAIN [k \in DOMAIN row |-> row[k].type] = DOMAIN row
      /\ DOMAIN [k \in DOMAIN old |-> old[k].type] = DOMAIN old
  OBVIOUS
<1>2. DOMAIN row = DOMAIN old BY <1>1
<1>3. Len(row) = Len(old)
  <2>1. Len(row) \in Nat /\ Len(old) \in Nat /\ DOMAIN row = 1 .. Len(row) /\ DOMAIN old = 1 .. Len(old)
    OBVIOUS
  <2>2. \A n, m \in Nat : (1 .. n = 1 .. m) => ~(n > m)
    <3> SUFFICES ASSUME NEW n \in Nat, NEW m \in Nat, 1 .. n = 1 .. m, n > m  PROVE FALSE
      OBVIOUS
    <3>1. n \in 1 .. n /\ n \notin 1 .. m OBVIOUS
    <3> QED BY <3>1
  <2>3. ~(Len(row) > Len(old)) /\ ~(Len(old) > Len(row)) BY <1>2, <2>1, <2>2
  <2>4. \A n, m \in Nat : ~(n > m) /\ ~(m > n) => n = m OBVIOUS
  <2> QED BY <2>1, <2>3, <2>4
<1>4. ASSUME NEW k \in DOMAIN row  PROVE row[k].type = old[k].type
  <2>1. [j \in DOMAIN row |-> row[j].type][k] = row[k].type OBVIOUS
  <2>2. [j \in DOMAIN old |-> old[j].type][k] = old[k].type BY <1>2
  <2> QED BY <2>1, <2>2
<1> QED BY <1>2, <1>3, <1>4

LEMMA NextRowStep ==
  ASSUME ResInv, NEW row \in Rows, NextRow(row)
  PROVE  ResInv'
<1>0. MaxFieldCount \in Nat BY ValuesAssumption
<1>1. row \in Seq(Field) /\ Len(row) \in Nat /\ res.row \in Seq(Field)
  BY FieldsAssumption DEF Field, ResInv, ResIs
<1>2. /\ DOMAIN row = DOMAIN res.row /\ Len(row) = Len(res.row)
      /\ \A k \in DOMAIN row : row[k].type = res.row[k].type
  BY <1>1, SameTypes DEF NextRow
<1>3. DOMAIN row \subseteq Index \/ Len(row) > MaxFieldCount BY <1>0, <1>1 DEF Index
<1>4. CASE Len(row) > MaxFieldCount
  <2>1. res.ready = FALSE BY <1>0, <1>1, <1>2, <1>4 DEF ResInv, ResIs
  <2> DEFINE e == ResultEnded(res)
  <2>2. res' = [e EXCEPT !.count = Len(row)] BY <1>4 DEF NextRow
  <2>3. /\ e.open = FALSE /\ e.row = res.row /\ e.ready = res.ready /\ e.field = res.field
        /\ e.last = res.last /\ DOMAIN e = DOMAIN res
    BY DEF ResInv, ResIs, ResultEnded
  <2> HIDE DEF e
  <2>4. /\ res'.open = FALSE /\ res'.row = res.row /\ res'.ready = FALSE /\ res'.field = res.field
        /\ res'.count = Len(row) /\ res'.last = res.last /\ DOMAIN res' = DOMAIN res
    BY <2>1, <2>2, <2>3 DEF ResInv, ResIs
  <2>5. ResIs' BY <1>1, <2>4 DEF ResInv, ResIs
  <2>6. RowsRead' BY <2>4 DEF RowsRead
  <2> QED BY <2>5, <2>6 DEF ResInv
<1>5. CASE ~(Len(row) > MaxFieldCount)
  <2> DEFINE r == IF res.ready THEN res ELSE FieldsOf(row)
  <2>1. res' = [r EXCEPT !.row = row, !.field = 1, !.ready = TRUE, !.last = NotRead] BY <1>5 DEF NextRow
  <2>2. /\ r.open = res.open /\ r.count = Len(row) /\ DOMAIN r = DOMAIN res
        /\ \A k \in DOMAIN row : r.types[k] = row[k].type
    <3>1. CASE res.ready BY <1>2, <3>1 DEF ResInv, ResIs
    <3>2. CASE ~res.ready
      <4> DEFINE types == [k \in Index |-> IF k \in DOMAIN row THEN row[k].type ELSE res.types[k]]
      <4>1. \A k \in DOMAIN row : types[k] = row[k].type BY <1>3, <1>5
      <4>2. r = [res EXCEPT !.count = Len(row), !.types = types] BY <3>2 DEF FieldsOf
      <4> HIDE DEF types, r
      <4>3. r.open = res.open /\ r.count = Len(row) /\ r.types = types /\ DOMAIN r = DOMAIN res
        BY <4>2 DEF ResInv, ResIs
      <4> QED BY <4>1, <4>3
    <3> QED BY <3>1, <3>2
  <2> HIDE DEF r
  <2>3. /\ res'.open = res.open /\ res'.row = row /\ res'.ready = TRUE /\ res'.field = 1
        /\ res'.count = Len(row) /\ res'.types = r.types /\ res'.last = NotRead
        /\ DOMAIN res' = DOMAIN res
    BY <2>1, <2>2 DEF ResInv, ResIs
  <2>4. Len(row) <= MaxFieldCount BY <1>0, <1>1, <1>5
  <2>5. \A k \in DOMAIN res'.row : res'.types[k] = res'.row[k].type BY <2>2, <2>3
  <2>6. /\ DOMAIN res' = DOMAIN res /\ res'.open \in BOOLEAN /\ res'.ready \in BOOLEAN
        /\ res'.field \in Nat /\ res'.count \in Nat \cup {-1} /\ res'.row \in Seq(Field)
        /\ res'.count = Len(res'.row) /\ Len(res'.row) <= MaxFieldCount
    <3>1. DOMAIN res' = DOMAIN res /\ res'.open \in BOOLEAN
      <4>1. res.open \in BOOLEAN BY DEF ResInv, ResIs
      <4>2. DOMAIN res' = DOMAIN res /\ res'.open = res.open BY <2>3
      <4>3. res'.open \in BOOLEAN BY <4>1, <4>2
      <4> QED BY <4>2, <4>3
    <3>2. res'.ready \in BOOLEAN /\ res'.field \in Nat
      <4>1. TRUE \in BOOLEAN /\ 1 \in Nat OBVIOUS
      <4>2. res'.ready = TRUE /\ res'.field = 1 BY <2>3
      <4>3. res'.field \in Nat BY <4>1, <4>2
      <4>4. res'.ready \in BOOLEAN BY <4>1, <4>2
      <4> QED BY <4>3, <4>4
    <3>3. /\ res'.count \in Nat \cup {-1} /\ res'.row \in Seq(Field)
          /\ res'.count = Len(res'.row) /\ Len(res'.row) <= MaxFieldCount
      BY <1>1, <2>3, <2>4
    <3> QED BY <3>1, <3>2, <3>3
  <2>7. ResIs' BY <2>5, <2>6 DEF ResInv, ResIs
  <2>8. RowsRead' BY <2>3 DEF RowsRead, NotRead
  <2> QED BY <2>7, <2>8 DEF ResInv
<1> QED BY <1>4, <1>5

(* What is read once next() has reached a row is a field of it. *)
LEMMA ReadFits ==
  ASSUME ResInv, res.ready, NEW type, TRUE \in Readable(res, type), ~FieldAt(res).null
  PROVE  /\ res.field \in DOMAIN res.row /\ FieldAt(res) = res.row[res.field]
         /\ type \in {Null, FieldAt(res).type}
<1>0. MaxFieldCount \in Nat BY ValuesAssumption
<1>1. res.field \in DOMAIN res.row /\ FieldAt(res) = res.row[res.field] BY DEF FieldAt
<1>2. res.field \in Index BY <1>0, <1>1 DEF ResInv, ResIs, Index
<1>3. res.types[res.field] = FieldAt(res).type BY <1>1 DEF ResInv, ResIs
<1>4. type = Null \/ res.types[res.field] = type BY <1>2 DEF Readable
<1> QED BY <1>1, <1>3, <1>4

LEMMA ReadStep ==
  ASSUME ResInv, NEW type \in GivenTypes, NEW stay \in BOOLEAN, NEW ok \in BOOLEAN,
         ReadField(type, stay, ok)
  PROVE  ResInv'
<1> DEFINE f    == FieldAt(res)
           last == [type |-> type, field |-> res.field, isNull |-> ok => f.null,
                    bytes |-> IF ok /\ type # Null THEN f.bytes ELSE <<>>]
           r    == [res EXCEPT !.last = last]
<1>1. /\ ok \in Readable(res, type)
      /\ res' = IF ~ok THEN ResultEnded(r) ELSE IF stay THEN r ELSE [r EXCEPT !.field = @ + 1]
  BY DEF ReadField
<1>2. /\ last.type = type /\ last.field = res.field /\ last.isNull = (ok => f.null)
      /\ ok /\ type # Null => last.bytes = f.bytes
  OBVIOUS
<1> HIDE DEF last
<1>3. /\ r.last = last /\ r.row = res.row /\ r.ready = res.ready /\ r.open = res.open
      /\ r.field = res.field /\ r.count = res.count /\ r.types = res.types /\ DOMAIN r = DOMAIN res
  BY DEF ResInv, ResIs
<1> HIDE DEF r
<1>4. /\ res'.last = last /\ res'.row = res.row /\ res'.ready = res.ready /\ DOMAIN res' = DOMAIN res
      /\ res'.count = res.count /\ res'.types = res.types
      /\ res'.open \in {res.open, FALSE} /\ res'.field \in {res.field, res.field + 1}
  BY <1>1, <1>3 DEF ResInv, ResIs, ResultEnded
<1>5. ResIs'
  <2>1. res'.field \in Nat /\ res'.open \in BOOLEAN
    <3>1. res.field \in Nat /\ res.open \in BOOLEAN /\ res.field + 1 \in Nat BY DEF ResInv, ResIs
    <3>2. res'.field \in Nat BY <1>4, <3>1
    <3>3. res'.open \in BOOLEAN BY <1>4, <3>1
    <3> QED BY <3>2, <3>3
  <2>2. res.ready => \A k \in DOMAIN res'.row : res'.types[k] = res'.row[k].type
    BY <1>4 DEF ResInv, ResIs
  <2> QED BY <1>4, <2>1, <2>2 DEF ResInv, ResIs
<1>6. RowsRead'
  <2> SUFFICES ASSUME res.ready, ~last.isNull
               PROVE  /\ last.field \in DOMAIN res.row
                      /\ ~res.row[last.field].null
                      /\ last.type \in {Null, res.row[last.field].type}
                      /\ last.type # Null => last.bytes = res.row[last.field].bytes
    BY <1>4 DEF RowsRead
  <2>1. ok /\ ~f.null BY <1>2
  <2>2. TRUE \in Readable(res, type) BY <1>1, <2>1
  <2>3. /\ res.field \in DOMAIN res.row /\ f = res.row[res.field]
        /\ type \in {Null, f.type}
    BY <2>1, <2>2, ReadFits
  <2> HIDE DEF f
  <2> QED BY <1>2, <2>1, <2>3
<1> QED BY <1>5, <1>6 DEF ResInv

LEMMA RowsStep ==
  ASSUME ResInv, RowsNext
  PROVE  ResInv' /\ UNCHANGED <<par, stmt, run>>
<1>1. CASE NoRowLeft
  <2>1. /\ res'.last = NotRead /\ res'.row = res.row /\ res'.field = res.field /\ res'.ready = res.ready
        /\ res'.count = res.count /\ res'.types = res.types
        /\ res'.open = FALSE /\ DOMAIN res' = DOMAIN res
    BY <1>1 DEF NoRowLeft, ResultEnded, ResInv, ResIs
  <2>2. ResIs' BY <2>1 DEF ResInv, ResIs
  <2>3. RowsRead' BY <2>1 DEF RowsRead, NotRead
  <2> QED BY <1>1, <2>2, <2>3 DEF NoRowLeft, ResInv
<1>2. ASSUME NEW row \in Rows, ResultBegins(row)  PROVE ResInv' /\ UNCHANGED <<par, stmt, run>>
  <2>1. row \in Seq(Field) BY FieldsAssumption DEF Field
  <2>2. /\ res'.last = NotRead /\ res'.row = row /\ res'.field = res.field /\ res'.ready = FALSE
        /\ res'.count = res.count /\ res'.open = TRUE /\ DOMAIN res' = DOMAIN res
    BY <1>2 DEF ResultBegins, ResInv, ResIs
  <2>3. ResIs' BY <2>1, <2>2 DEF ResInv, ResIs
  <2>4. RowsRead' BY <2>2 DEF RowsRead, NotRead
  <2> QED BY <1>2, <2>3, <2>4 DEF ResultBegins, ResInv
<1>3. ASSUME NEW row \in Rows, NextRow(row)  PROVE ResInv' /\ UNCHANGED <<par, stmt, run>>
  BY <1>3, NextRowStep DEF NextRow
<1>4. ASSUME NEW type \in GivenTypes, NEW stay \in BOOLEAN, NEW ok \in BOOLEAN,
             ReadField(type, stay, ok)
      PROVE  ResInv' /\ UNCHANGED <<par, stmt, run>>
  <2>1. ResInv' BY <1>4, ReadStep
  <2>2. UNCHANGED <<par, stmt, run>> BY <1>4 DEF ReadField
  <2> QED BY <2>1, <2>2
<1>5. ASSUME NEW k \in Index, GoTo(k)  PROVE ResInv' /\ UNCHANGED <<par, stmt, run>>
  <2>1. /\ res'.last = NotRead /\ res'.row = res.row /\ res'.field = k /\ res'.ready = res.ready
        /\ res'.count = res.count /\ res'.types = res.types
        /\ res'.open = res.open /\ DOMAIN res' = DOMAIN res
    BY <1>5 DEF GoTo, ResInv, ResIs
  <2>2. k \in Nat BY DEF Index
  <2>3. ResIs' BY <2>1, <2>2 DEF ResInv, ResIs
  <2>4. RowsRead' BY <2>1 DEF RowsRead, NotRead
  <2> QED BY <1>5, <2>3, <2>4 DEF GoTo, ResInv
<1> QED BY <1>1, <1>2, <1>3, <1>4, <1>5 DEF RowsNext

----------------------------------------

(* A step of the parameters after which no statement has been run. *)
LEMMA NothingRuns ==
  ASSUME run'.now = NotRun
  PROVE  StatementGetsValues'
BY DEF StatementGetsValues, NotRun

LEMMA GiveStep ==
  ASSUME ParInv, NEW v \in Given, GiveValue(v)
  PROVE  ParInv'
<1> DEFINE k == par.count + 1
<1>1. par.count \in 0 .. MaxFieldCount - 1 /\ par' = SetParamType(par, v) /\ stmt' = stmt
  BY DEF GiveValue
<1>2. /\ par' \in Buffer /\ k \in Index
      /\ par'.types = [par.types EXCEPT ![k] = v.type]
      /\ par'.prepared = (par.prepared /\ par.types[k] = v.type)
  BY <1>1, ParamSet DEF ParInv
<1>3. run'.want = Append(run.want, v) /\ run'.now = NotRun /\ run'.short = run.short /\ RunIs'
  <2>1. run' = [run EXCEPT !.want = Append(@, v), !.now = NotRun] BY DEF GiveValue
  <2>2. DOMAIN run = {"want", "now", "short"} /\ run.want \in Seq(Given) /\ run.short \in BOOLEAN
    BY DEF ParInv, RunIs
  <2>3. /\ run'.want = Append(run.want, v) /\ run'.now = NotRun /\ run'.short = run.short
        /\ DOMAIN run' = DOMAIN run
    BY <2>1, <2>2
  <2>4. Append(run.want, v) \in Seq(Given) BY <2>2
  <2> QED BY <2>2, <2>3, <2>4 DEF RunIs
<1>4. Holds(par', run'.want)
  BY <1>1, <1>3, ParamHeld DEF ParInv, RunIs
<1>5. par'.prepared /\ stmt' # NoStatement => TypeOf(par', stmt', run'.short)
  <2> SUFFICES ASSUME par'.prepared, stmt' # NoStatement  PROVE TypeOf(par', stmt', run'.short)
    OBVIOUS
  <2>1. par.prepared /\ par.types[k] = v.type /\ par.types \in [Index -> GivenTypes]
    BY <1>2 DEF ParInv, Buffer
  <2>2. par'.types = par.types
    <3> HIDE DEF k
    <3> QED BY <1>2, <2>1
  <2>3. TypeOf(par, stmt, run.short) BY <1>1, <2>1 DEF ParInv
  <2> QED BY <1>1, <1>3, <2>2, <2>3 DEF TypeOf
<1>6. StatementGetsValues' BY <1>3, NothingRuns
<1>7. stmt' \in Seq(Types) BY <1>1 DEF ParInv
<1> QED BY <1>2, <1>3, <1>4, <1>5, <1>6, <1>7 DEF ParInv

LEMMA TypesPreparedStep ==
  ASSUME ParInv, PrepareText
  PROVE  ParInv'
<1>0. MaxFieldCount \in Nat BY ValuesAssumption
<1>1. par' = [par EXCEPT !.prepared = FALSE, !.count = 0, !.data = <<>>] /\ stmt' = stmt
  BY DEF PrepareText
<1>2. par \in Buffer BY DEF ParInv
<1>3. /\ par'.prepared = FALSE /\ par'.count = 0 /\ par'.data = <<>> /\ par' \in Buffer
  <2>1. <<>> \in Seq(Nat) /\ 0 \in -1 .. MaxFieldCount /\ FALSE \in BOOLEAN BY <1>0
  <2>2. par'.prepared = FALSE /\ par'.count = 0 /\ par'.data = <<>> BY <1>1, <1>2 DEF Buffer
  <2> DEFINE a == [par EXCEPT !.prepared = FALSE]
             b == [a EXCEPT !.count = 0]
             c == [b EXCEPT !.data = <<>>]
  <2>3. par' = c BY <1>1
  <2>4. a \in Buffer BY <1>2 DEF Buffer
  <2> HIDE DEF a
  <2>5. b \in Buffer BY <2>1, <2>4 DEF Buffer
  <2> HIDE DEF b
  <2>6. c \in Buffer BY <2>1, <2>5 DEF Buffer
  <2> QED BY <2>2, <2>3, <2>6
<1>4. run'.want = <<>> /\ run'.now = NotRun /\ RunIs'
  <2>1. run' = [run EXCEPT !.want = <<>>, !.now = NotRun] BY DEF PrepareText
  <2>2. DOMAIN run = {"want", "now", "short"} /\ run.short \in BOOLEAN BY DEF ParInv, RunIs
  <2>3. /\ run'.want = <<>> /\ run'.now = NotRun /\ run'.short = run.short /\ DOMAIN run' = DOMAIN run
    BY <2>1, <2>2
  <2>4. <<>> \in Seq(Given) OBVIOUS
  <2> QED BY <2>2, <2>3, <2>4 DEF RunIs
<1>5. Holds(par', run'.want)
  <2>1. Begins(par', 1) = 0 BY BeginsAre
  <2>2. Len(par'.data) = 0 /\ par'.count + 1 = 1 /\ Len(run'.want) = 0 BY <1>3, <1>4
  <2> QED BY <1>3, <2>1, <2>2 DEF Holds
<1>6. StatementGetsValues' BY <1>4, NothingRuns
<1> QED BY <1>1, <1>3, <1>4, <1>5, <1>6 DEF ParInv

(* The types a statement is prepared with. *)
LEMMA PreparedTypes ==
  ASSUME NEW b \in Buffer
  PROVE  /\ TypesPrepared(b) \in Seq(Types)
         /\ TypeOf(b, TypesPrepared(b), b.count < Places)
<1> DEFINE n == IF b.count > Places THEN b.count ELSE Places
<1>0. MaxFieldCount \in Nat /\ Places \in Nat BY ValuesAssumption
<1>1. b.count \in -1 .. MaxFieldCount /\ b.types \in [Index -> GivenTypes] BY DEF Buffer
<1>2. n \in Nat BY <1>0, <1>1
<1>3. TypesPrepared(b) = [k \in 1 .. n |-> IF k <= b.count /\ b.types[k] # Null THEN b.types[k] ELSE Guessed]
  BY DEF TypesPrepared
<1>4. \A k \in 1 .. n : k <= b.count => k \in Index BY <1>0, <1>1, <1>2 DEF Index
<1>5. b.count < n => b.count < Places BY <1>0, <1>1
<1> HIDE DEF n
<1>6. \A k \in 1 .. n : TypesPrepared(b)[k] \in Types
  BY <1>1, <1>3, <1>4 DEF Types
<1>7. TypesPrepared(b) \in [1 .. n -> Types]
  <2>1. DOMAIN TypesPrepared(b) = 1 .. n BY <1>3
  <2> QED BY <1>3, <1>6
<1>8. TypesPrepared(b) \in Seq(Types) BY <1>2, <1>7
<1>9. ASSUME NEW k \in 1 .. n, k \in Index
      PROVE  \/ TypesPrepared(b)[k] = b.types[k]
             \/ TypesPrepared(b)[k] = Guessed /\ (b.types[k] = Null \/ b.count < Places)
  <2>1. CASE k <= b.count BY <1>3, <2>1
  <2>2. CASE ~(k <= b.count)
    <3>1. b.count < n BY <1>1, <1>2, <2>2
    <3> QED BY <1>3, <1>5, <2>2, <3>1
  <2> QED BY <2>1, <2>2
<1>10. DOMAIN TypesPrepared(b) = 1 .. n BY <1>3
<1> QED BY <1>8, <1>9, <1>10 DEF TypeOf

LEMMA RefusedStep ==
  ASSUME ParInv, ExecRefused
  PROVE  ParInv'
<1>1. CASE UNCHANGED <<par, stmt>> /\ run' = [run EXCEPT !.now = NotRun]
  <2>1. run'.want = run.want /\ run'.now = NotRun /\ run'.short = run.short /\ RunIs'
    <3>1. DOMAIN run = {"want", "now", "short"} /\ run.want \in Seq(Given) /\ run.short \in BOOLEAN
      BY DEF ParInv, RunIs
    <3>2. /\ run'.want = run.want /\ run'.now = NotRun /\ run'.short = run.short
          /\ DOMAIN run' = DOMAIN run
      BY <1>1, <3>1
    <3> QED BY <3>1, <3>2 DEF RunIs
  <2>2. StatementGetsValues' BY <2>1, NothingRuns
  <2> QED BY <1>1, <2>1, <2>2 DEF ParInv
<1>2. CASE /\ par.count >= 0
           /\ stmt' \in IF par.prepared THEN {stmt} ELSE {NoStatement, TypesPrepared(par)}
           /\ par' = [par EXCEPT !.prepared = TRUE]
           /\ run' = [run EXCEPT !.short = Short, !.now = NotRun]
  <2>1. par \in Buffer /\ par.count \in 0 .. MaxFieldCount
    <3>1. par \in Buffer BY DEF ParInv
    <3> QED BY <1>2, <3>1 DEF Buffer
  <2>2. par' \in Buffer BY <1>2, <2>1 DEF Buffer
  <2>3. /\ par'.count = par.count /\ par'.types = par.types /\ par'.lengths = par.lengths
        /\ par'.nulls = par.nulls /\ par'.data = par.data
    BY <1>2, <2>1 DEF Buffer
  <2>4. \A j \in 1 .. par.count + 1 : Begins(par', j) = Begins(par, j)
    BY <2>1, <2>3, BeginsSame
  <2>5. \A j \in 1 .. par.count : ValueAt(par', j) = ValueAt(par, j)
    <3> TAKE j \in 1 .. par.count
    <3>1. par.count \in Nat /\ j \in 1 .. par.count + 1 BY <2>1
    <3> QED BY <2>3, <2>4, <3>1 DEF ValueAt
  <2>6. Holds(par', run.want)
    <3>1. Holds(par, run.want) BY DEF ParInv
    <3>2. par.count + 1 \in 1 .. par.count + 1 BY <2>1
    <3> QED BY <2>3, <2>4, <2>5, <3>1, <3>2 DEF Holds
  <2>7. run'.want = run.want /\ run'.now = NotRun /\ run'.short = Short /\ RunIs'
    <3>1. DOMAIN run = {"want", "now", "short"} /\ run.want \in Seq(Given) /\ run.short \in BOOLEAN
      BY DEF ParInv, RunIs
    <3>2. Short \in BOOLEAN
      <4>1. (par.count < Places) \in BOOLEAN OBVIOUS
      <4>2. CASE par.prepared BY <3>1, <4>2 DEF Short
      <4>3. CASE ~par.prepared
        <5>1. Short = (par.count < Places) BY <4>3 DEF Short
        <5> QED BY <4>1, <5>1
      <4> QED BY <4>2, <4>3
    <3>3. /\ run'.want = run.want /\ run'.now = NotRun /\ run'.short = Short
          /\ DOMAIN run' = DOMAIN run
      BY <1>2, <3>1
    <3> QED BY <3>1, <3>2, <3>3 DEF RunIs
  <2>8. stmt' \in Seq(Types) /\ (stmt' # NoStatement => TypeOf(par, stmt', Short))
    <3>1. CASE par.prepared
      <4>1. stmt' = stmt /\ Short = run.short BY <1>2, <3>1 DEF Short
      <4> QED BY <3>1, <4>1 DEF ParInv
    <3>2. CASE ~par.prepared /\ stmt' = NoStatement
      <4>1. Null \in Types BY DEF Types
      <4>2. <<Null>> \in Seq(Types) BY <4>1
      <4> QED BY <3>2, <4>2 DEF NoStatement
    <3>3. CASE ~par.prepared /\ stmt' = TypesPrepared(par)
      <4>1. Short = (par.count < Places) BY <3>3 DEF Short
      <4> QED BY <2>1, <3>3, <4>1, PreparedTypes
    <3> QED BY <1>2, <3>1, <3>2, <3>3
  <2>9. stmt' # NoStatement => TypeOf(par', stmt', run'.short)
    BY <2>3, <2>7, <2>8 DEF TypeOf
  <2>10. StatementGetsValues' BY <2>7, NothingRuns
  <2> QED BY <2>2, <2>6, <2>7, <2>8, <2>9, <2>10 DEF ParInv
<1> QED BY <1>1, <1>2 DEF ExecRefused

LEMMA ExecValuesStep ==
  ASSUME ParInv, NEW keep \in 0 .. MaxFieldCount, ExecValues(keep)
  PROVE  ParInv'
<1> DEFINE now == IF par.prepared THEN stmt ELSE TypesPrepared(par)
           gets == [k \in 1 .. par.count |->
                      [type |-> now[k], null |-> par.nulls[k], bytes |-> ValueAt(par, k)]]
           ran == IF now = NoStatement \/ par.count # Len(now) THEN NotRun
                  ELSE [runs |-> TRUE, values |-> gets, meant |-> run.want]
<1>0. MaxFieldCount \in Nat /\ Places \in Nat BY ValuesAssumption
<1>1. /\ par \in Buffer /\ Holds(par, run.want) /\ run.want \in Seq(Given) /\ run.short \in BOOLEAN
      /\ par.count \in 0 .. MaxFieldCount /\ stmt \in Seq(Types)
  <2>1. /\ par \in Buffer /\ Holds(par, run.want) /\ run.want \in Seq(Given)
        /\ run.short \in BOOLEAN /\ stmt \in Seq(Types)
    BY DEF ParInv, RunIs
  <2>2. par.count \in -1 .. MaxFieldCount /\ keep <= par.count BY <2>1 DEF Buffer, ExecValues
  <2> QED BY <1>0, <2>1, <2>2
<1>2. keep \in 0 .. par.count BY <1>1 DEF ExecValues
<1>3. /\ stmt' = now /\ par' = [Keep(par, keep) EXCEPT !.prepared = TRUE]
      /\ run' = [want |-> SubSeq(run.want, 1, keep), short |-> Short, now |-> ran]
  BY DEF ExecValues
<1>4. now \in Seq(Types) /\ (now # NoStatement => TypeOf(par, now, Short))
  <2>1. CASE par.prepared
    <3>1. now = stmt /\ Short = run.short BY <2>1 DEF Short
    <3> QED BY <2>1, <3>1 DEF ParInv
  <2>2. CASE ~par.prepared
    <3>1. now = TypesPrepared(par) /\ Short = (par.count < Places) BY <2>2 DEF Short
    <3> HIDE DEF now
    <3> QED BY <1>1, <3>1, PreparedTypes
  <2> QED BY <2>1, <2>2
<1>5. Short \in BOOLEAN
  <2>1. (par.count < Places) \in BOOLEAN OBVIOUS
  <2>2. CASE par.prepared BY <1>1, <2>2 DEF Short
  <2>3. CASE ~par.prepared
    <3>1. Short = (par.count < Places) BY <2>3 DEF Short
    <3> QED BY <2>1, <3>1
  <2> QED BY <2>2, <2>3
<1> HIDE DEF now
<1>6. /\ par' \in Buffer /\ Holds(par', SubSeq(run.want, 1, keep))
      /\ par'.count = keep /\ par'.types = par.types /\ par'.prepared = TRUE
  <2>1. TRUE \in BOOLEAN OBVIOUS
  <2> QED BY <1>1, <1>2, <1>3, <2>1, KeepHeld
<1> HIDE DEF ran
<1>7. run'.want = SubSeq(run.want, 1, keep) /\ run'.short = Short /\ run'.now = ran
      /\ DOMAIN run' = {"want", "now", "short"}
  BY <1>3
<1>8. RunIs'
  <2>1. Len(run.want) = par.count BY <1>1 DEF Holds
  <2>2. SubSeq(run.want, 1, keep) \in Seq(Given) BY <1>1, <1>2, <2>1
  <2> QED BY <1>5, <1>7, <2>2 DEF RunIs
<1>9. par'.prepared /\ stmt' # NoStatement => TypeOf(par', stmt', run'.short)
  BY <1>3, <1>4, <1>6, <1>7 DEF TypeOf
<1>10. StatementGetsValues'
  <2>1. CASE now = NoStatement \/ par.count # Len(now)
    <3>1. ran = NotRun BY <2>1 DEF ran
    <3> QED BY <1>7, <3>1, NothingRuns
  <2>2. CASE ~(now = NoStatement \/ par.count # Len(now))
    <3>1. ran.values = gets /\ ran.meant = run.want BY <2>2 DEF ran
    <3>2. TypeOf(par, now, Short) /\ DOMAIN now = 1 .. par.count BY <1>1, <1>4, <2>2
    <3>3. Len(gets) = par.count /\ Len(run.want) = par.count /\ DOMAIN gets = 1 .. par.count
      BY <1>1 DEF Holds
    <3>4. ASSUME NEW k \in 1 .. par.count
          PROVE  /\ gets[k].null = run.want[k].null
                 /\ gets[k].bytes = Bytes(run.want[k])
                 /\ \/ gets[k].type = run.want[k].type
                    \/ gets[k].type = Guessed /\ (run.want[k].type = Null \/ Short)
      <4>1. gets[k].type = now[k] /\ gets[k].null = par.nulls[k] /\ gets[k].bytes = ValueAt(par, k)
        OBVIOUS
      <4>2. /\ par.types[k] = run.want[k].type /\ par.nulls[k] = run.want[k].null
            /\ ValueAt(par, k) = Bytes(run.want[k])
        BY <1>1 DEF Holds
      <4>3. k \in Index BY <1>0, <1>1 DEF Index
      <4>4. now[k] = par.types[k] \/ (now[k] = Guessed /\ (par.types[k] = Null \/ Short))
        BY <3>2, <4>3 DEF TypeOf
      <4> QED BY <4>1, <4>2, <4>4
    <3> HIDE DEF gets
    <3> QED BY <1>7, <3>1, <3>3, <3>4 DEF StatementGetsValues
  <2> QED BY <2>1, <2>2
<1> QED BY <1>3, <1>4, <1>6, <1>7, <1>8, <1>9, <1>10 DEF ParInv

LEMMA ValuesStep == ValuesInv /\ [ValuesNext]_valuevars => ValuesInv'
<1> SUFFICES ASSUME ValuesInv, [ValuesNext]_valuevars  PROVE ValuesInv'
  OBVIOUS
<1>1. ParInv /\ ResInv BY DEF ValuesInv
<1>2. CASE UNCHANGED <<par, stmt, run>> /\ ResInv'
  <2>1. ParInv' BY <1>1, <1>2 DEF ParInv, RunIs, StatementGetsValues, Holds, TypeOf, ValueAt, Begins
  <2> QED BY <1>2, <2>1 DEF ValuesInv
<1>3. CASE ParametersNext
  <2>1. ParInv'
    BY <1>1, <1>3, GiveStep, TypesPreparedStep, RefusedStep, ExecValuesStep DEF ParametersNext
  <2>2. res' = res \/ res' = ResultEnded(res)
    BY <1>3 DEF ParametersNext, PrepareText, ExecRefused, GiveValue, ExecValues
  <2>3. ResInv'
    <3>1. CASE res' = res BY <1>1, <3>1 DEF ResInv, ResIs, RowsRead
    <3>2. CASE res' = ResultEnded(res) BY <1>1, <3>2, EndedIs
    <3> QED BY <2>2, <3>1, <3>2
  <2> QED BY <2>1, <2>3 DEF ValuesInv
<1>4. CASE RowsNext BY <1>1, <1>2, <1>4, RowsStep
<1>5. CASE UNCHANGED valuevars
  <2>1. ResInv' BY <1>1, <1>5 DEF ResInv, ResIs, RowsRead, valuevars
  <2> QED BY <1>2, <1>5, <2>1 DEF valuevars
<1> QED BY <1>3, <1>4, <1>5 DEF ValuesNext

LEMMA ValuesFollow == ValuesInv => ValuesTypeOK /\ ValuesKept
<1> SUFFICES ASSUME ValuesInv  PROVE ValuesTypeOK /\ ValuesKept
  OBVIOUS
<1>1. ValuesTypeOK BY DEF ValuesInv, ParInv, ResInv, ResIs, Buffer, Types, ValuesTypeOK
<1>2. BufferTells BY DEF ValuesInv, ParInv, Holds, BufferTells
<1>3. StatementGetsValues /\ RowsRead BY DEF ValuesInv, ParInv, ResInv
<1> QED BY <1>1, <1>2, <1>3, AllNumbersBack DEF ValuesKept

(* Whatever is given, kept, refused and prepared again, for any number of *)
(* parameters and any range of numbers: the server runs a statement with *)
(* the values given, the buffer holds those that wait, and what is read *)
(* from a row is its field. *)
THEOREM ValuesKeptHolds == ValuesSpec => [](ValuesTypeOK /\ ValuesKept)
<1> QED BY ValuesBegin, ValuesStep, ValuesFollow, PTL DEF ValuesSpec

========================================
