---------------------------- MODULE BackendProofs ----------------------------
(****************************************)
(* What is proved about the clients of databases beside PSql and of Kafka, *)
(* for any number of nested scopes, programs, groups, members and topics *)
(* to share out, connections and requests. *)
(****************************************)
EXTENDS QtSqlTransaction, SchemaUpdate, KafkaGroup, KafkaAssignment, KafkaClient,
        SequenceTheorems, FiniteSetTheorems, WellFoundedInduction, TLAPS

----------------------------------------
(* ScopedTransaction.  The scopes that are not nested are the lower part *)
(* of the stack: the highest of them is the one the transaction of the *)
(* thread belongs to, if there is one. *)

Open == thread.active \/ thread.doRollback \/ server.tx

(* The scope the transaction belongs to has not committed, or is going to *)
(* roll back: whatever is open ends with it. *)
Answerable ==
  Open => \E h \in 1 .. Len(stack) :
            /\ ~stack[h].nested /\ (~stack[h].committed \/ thread.doRollback)
            /\ \A j \in h + 1 .. Len(stack) : stack[j].nested

NestedAbove ==
  /\ \A j \in 1 .. Len(stack) : stack[j].nested =>
       \A i \in j .. Len(stack) : stack[i].nested
  /\ stack # <<>> /\ stack[Len(stack)].nested => thread.active

(* A transaction the server has rolled back has had a query refused. *)
Honest ==
  /\ past.told => past.kept \/ past.lastRefused
  /\ past.kept /\ ~past.told => past.lost
  /\ past.kept => ~past.lastDropped
  /\ past.dropped <=> thread.doRollback
  /\ thread.active /\ server.up /\ ~server.tx => past.refused
  /\ past.refused => thread.active

(* A scope that is not nested and has not committed has the transaction of *)
(* the thread, and every scope above it is nested. *)
OwnerWaits ==
  \A h \in 1 .. Len(stack) :
    ~stack[h].nested /\ ~stack[h].committed =>
      thread.active /\ \A j \in h + 1 .. Len(stack) : stack[j].nested

Scope == [nested: BOOLEAN, committed: BOOLEAN]

Past == [dropped: BOOLEAN, refused: BOOLEAN, lastDropped: BOOLEAN, lastRefused: BOOLEAN,
         told: BOOLEAN, kept: BOOLEAN, lost: BOOLEAN]

QtInv == QtTypeOK /\ Answerable /\ NestedAbove /\ OwnerWaits /\ Honest

LEMMA QtBegins == QtInit => QtInv
BY ScopesAssumption DEF QtInit, QtInv, QtTypeOK, Answerable, Open, NestedAbove, OwnerWaits, Honest

LEMMA StackOf ==
  ASSUME QtTypeOK
  PROVE  /\ stack \in Seq(Scope) /\ Len(stack) \in Nat /\ Len(stack) <= Scopes
         /\ \A i \in 1 .. Len(stack) : stack[i] \in Scope
<1>1. stack \in Seq(Scope) /\ Len(stack) <= Scopes
  BY DEF QtTypeOK, Scope
<1> QED BY <1>1, LenProperties, ElementOfSeq

(* What holds when the transaction of the thread ends. *)
LEMMA AfterEnd ==
  ASSUME QtTypeOK, Honest, NEW said \in BOOLEAN, NEW kept \in BOOLEAN, NEW lost \in BOOLEAN,
         said => kept \/ past.refused, kept /\ ~said => lost, kept => ~past.dropped,
         stack' \in Seq(Scope), Len(stack') <= Scopes,
         thread' = [active |-> FALSE, doRollback |-> FALSE],
         server' \in [up: BOOLEAN, tx: {FALSE}], TxEnds(said, kept, lost)
  PROVE  QtTypeOK' /\ Honest' /\ ~Open'
<1>1. /\ past'.dropped = FALSE /\ past'.refused = FALSE /\ past'.lastDropped = past.dropped
      /\ past'.lastRefused = past.refused /\ past'.told = said /\ past'.kept = kept
      /\ past'.lost = lost /\ past' \in Past
  BY DEF TxEnds, QtTypeOK, Past
<1>2. thread'.active = FALSE /\ thread'.doRollback = FALSE /\ server'.tx = FALSE
  OBVIOUS
<1>3. QtTypeOK'
  <2>1. server' \in [up: BOOLEAN, tx: BOOLEAN] /\ thread' \in [active: BOOLEAN, doRollback: BOOLEAN]
    OBVIOUS
  <2> QED BY <1>1, <2>1 DEF QtTypeOK, Past, Scope
<1>4. Honest'
  <2>1. past'.told => past'.kept \/ past'.lastRefused BY <1>1
  <2>2. past'.kept /\ ~past'.told => past'.lost BY <1>1
  <2>3. past'.kept => ~past'.lastDropped BY <1>1
  <2> QED BY <1>1, <1>2, <2>1, <2>2, <2>3 DEF Honest
<1> QED BY <1>2, <1>3, <1>4 DEF Open

LEMMA QtKept == QtInv /\ [QtNext]_qtvars => QtInv'
<1> SUFFICES ASSUME QtInv, [QtNext]_qtvars PROVE QtInv'
  OBVIOUS
<1> DEFINE n == Len(stack)
<1>0. stack \in Seq(Scope) /\ n \in Nat /\ n <= Scopes /\ \A i \in 1 .. n : stack[i] \in Scope
  BY StackOf DEF QtInv
<1>1. CASE Enter
  <2> DEFINE top == [nested |-> thread.active, committed |-> FALSE]
  <2>1. /\ Len(stack') = n + 1 /\ stack'[n + 1] = top
        /\ \A i \in 1 .. n : stack'[i] = stack[i]
    BY <1>0, <1>1 DEF Enter
  <2>2. QtTypeOK'
    <3>1. top \in Scope
      BY DEF Scope, QtInv, QtTypeOK
    <3>2. stack' \in Seq(Scope) /\ n + 1 <= Scopes
      BY <1>0, <1>1, <3>1, ScopesAssumption DEF Enter
    <3>3. thread' \in [active: BOOLEAN, doRollback: BOOLEAN] /\ server' \in [up: BOOLEAN, tx: BOOLEAN]
      BY <1>1 DEF Enter, QtInv, QtTypeOK
    <3> QED BY <1>1, <2>1, <3>2, <3>3 DEF Enter, QtInv, QtTypeOK, Scope
  <2>3. Answerable'
    <3>1. CASE thread.active
      <4>1. PICK h \in 1 .. n : /\ ~stack[h].nested /\ (~stack[h].committed \/ thread.doRollback)
                                /\ \A j \in h + 1 .. n : stack[j].nested
        BY <3>1 DEF QtInv, Answerable, Open
      <4>2. /\ ~stack'[h].nested /\ (~stack'[h].committed \/ thread'.doRollback)
            /\ \A j \in h + 1 .. n + 1 : stack'[j].nested
        BY <1>0, <1>1, <2>1, <3>1, <4>1 DEF Enter, QtInv, QtTypeOK
      <4>3. h \in 1 .. Len(stack')
        BY <1>0, <2>1, <4>1
      <4> QED BY <2>1, <4>2, <4>3 DEF Answerable
    <3>2. CASE ~thread.active
      <4>1. /\ ~stack'[n + 1].nested /\ ~stack'[n + 1].committed
            /\ \A j \in (n + 1) + 1 .. n + 1 : stack'[j].nested
        BY <1>0, <2>1, <3>2
      <4>2. n + 1 \in 1 .. Len(stack')
        BY <1>0, <2>1
      <4> QED BY <2>1, <4>1, <4>2 DEF Answerable
    <3> QED BY <3>1, <3>2
  <2>4. NestedAbove'
    <3>1. ASSUME NEW j \in 1 .. n + 1, stack'[j].nested, NEW i \in j .. n + 1
          PROVE  stack'[i].nested
      <4>1. CASE j = n + 1
        BY <1>0, <3>1, <4>1
      <4>2. CASE j \in 1 .. n /\ i \in j .. n
        BY <1>0, <2>1, <3>1, <4>2 DEF QtInv, NestedAbove
      <4>3. CASE j \in 1 .. n /\ i = n + 1
        <5>1. n \in j .. n /\ stack[j].nested
          BY <1>0, <2>1, <3>1, <4>3
        <5>2. stack[n].nested /\ stack # <<>>
          BY <1>0, <4>3, <5>1 DEF QtInv, NestedAbove
        <5> QED BY <2>1, <4>3, <5>2 DEF QtInv, NestedAbove
      <4> QED BY <1>0, <4>1, <4>2, <4>3
    <3>2. thread'.active
      BY <1>1 DEF Enter, QtInv, QtTypeOK
    <3> QED BY <2>1, <3>1, <3>2 DEF NestedAbove
  <2>5. Honest'
    <3>1. CASE thread.active
      <4>1. /\ thread'.active = TRUE /\ thread'.doRollback = thread.doRollback
            /\ server' = server /\ past' = past
        BY <1>1, <3>1 DEF Enter, QtInv, QtTypeOK
      <4> QED BY <3>1, <4>1 DEF QtInv, Honest
    <3>2. CASE ~thread.active
      <4>1. /\ thread'.active = TRUE /\ thread'.doRollback = thread.doRollback
            /\ server'.up = server.up /\ server'.tx = server.up /\ past' = past
        BY <1>1, <3>2 DEF Enter, QtInv, QtTypeOK
      <4> QED BY <3>2, <4>1 DEF QtInv, Honest
    <3> QED BY <3>1, <3>2
  <2>6. OwnerWaits'
    <3> SUFFICES ASSUME NEW h \in 1 .. n + 1, ~stack'[h].nested, ~stack'[h].committed
                 PROVE  thread'.active /\ \A j \in h + 1 .. n + 1 : stack'[j].nested
      BY <2>1 DEF OwnerWaits
    <3>1. thread'.active BY <1>1 DEF Enter, QtInv, QtTypeOK
    <3>2. CASE h = n + 1
      <4>1. h + 1 .. n + 1 = {} BY <1>0, <3>2
      <4> QED BY <3>1, <4>1
    <3>3. CASE h \in 1 .. n
      <4>1. stack'[h] = stack[h] BY <2>1, <3>3
      <4>2. thread.active /\ \A j \in h + 1 .. n : stack[j].nested
        BY <3>3, <4>1 DEF QtInv, OwnerWaits
      <4>3. ASSUME NEW j \in h + 1 .. n + 1  PROVE stack'[j].nested
        <5>1. CASE j = n + 1 BY <2>1, <4>2, <5>1
        <5>2. CASE j # n + 1
          <6>1. j \in h + 1 .. n /\ j \in 1 .. n BY <1>0, <3>3, <4>3, <5>2
          <6> QED BY <2>1, <4>2, <6>1
        <5> QED BY <5>1, <5>2
      <4> QED BY <3>1, <4>3
    <3> QED BY <1>0, <3>2, <3>3
  <2> QED BY <2>2, <2>3, <2>4, <2>5, <2>6 DEF QtInv
<1>2. CASE CommitScope
  <2> DEFINE end == CommitOnServer /\ thread' = [thread EXCEPT !.active = FALSE]
  <2>0. stack # <<>> /\ n \in 1 .. n /\ ~stack[n].committed
    BY <1>0, <1>2 DEF CommitScope
  <2>1. /\ Len(stack') = n /\ \A i \in 1 .. n : stack'[i].nested = stack[i].nested
        /\ \A i \in 1 .. n : i # n => stack'[i] = stack[i]
    BY <1>0, <1>2, <2>0 DEF CommitScope
  <2>2. stack' \in Seq(Scope)
    <3>1. [stack[n] EXCEPT !.committed = TRUE] \in Scope
      BY <1>0, <2>0 DEF Scope
    <3>2. stack' = [stack EXCEPT ![n] = [stack[n] EXCEPT !.committed = TRUE]]
      BY <1>2 DEF CommitScope
    <3> QED BY <1>0, <2>0, <3>1, <3>2, ExceptSeq
  <2>6. \A i \in 1 .. n : ~stack'[i].committed => i # n /\ stack'[i] = stack[i]
    <3>1. stack'[n].committed = TRUE
      <4>1. stack' = [stack EXCEPT ![n] = [stack[n] EXCEPT !.committed = TRUE]]
        BY <1>2 DEF CommitScope
      <4>3. n \in DOMAIN stack BY <1>0, <2>0
      <4>4. stack'[n] = [stack[n] EXCEPT !.committed = TRUE] BY <4>1, <4>3
      <4>2. stack[n] \in Scope BY <1>0, <2>0
      <4> QED BY <4>2, <4>4 DEF Scope
    <3> QED BY <2>1, <3>1
  <2>3. CASE (thread.doRollback \/ stack[n].nested) /\ UNCHANGED <<thread, server, past>>
    <3>1. QtTypeOK' /\ Honest'
      <4>1. QtTypeOK
        BY DEF QtInv
      <4>2. Len(stack') <= Scopes
        BY <2>1, <4>1 DEF QtTypeOK
      <4>3. /\ thread' \in [active: BOOLEAN, doRollback: BOOLEAN]
            /\ server' \in [up: BOOLEAN, tx: BOOLEAN]
            /\ past' \in [dropped: BOOLEAN, refused: BOOLEAN, lastDropped: BOOLEAN, lastRefused: BOOLEAN,
                          told: BOOLEAN, kept: BOOLEAN, lost: BOOLEAN]
        BY <2>3, <4>1 DEF QtTypeOK
      <4>4. QtTypeOK' BY <2>2, <4>2, <4>3 DEF QtTypeOK, Scope
      <4>5. Honest' BY <2>3 DEF QtInv, Honest
      <4> QED BY <4>4, <4>5
    <3>2. NestedAbove'
      <4>1. stack' # <<>> /\ Len(stack') = n
        BY <1>0, <2>0, <2>1
      <4> QED BY <1>0, <2>0, <2>1, <2>3, <4>1 DEF QtInv, NestedAbove
    <3>3. Answerable'
      <4>1. SUFFICES ASSUME Open PROVE Answerable'
        BY <2>3 DEF Answerable, Open
      <4>2. PICK h \in 1 .. n : /\ ~stack[h].nested /\ (~stack[h].committed \/ thread.doRollback)
                                /\ \A j \in h + 1 .. n : stack[j].nested
        BY <4>1 DEF QtInv, Answerable
      <4>3. /\ ~stack'[h].nested /\ (~stack'[h].committed \/ thread'.doRollback)
            /\ \A j \in h + 1 .. n : stack'[j].nested
        BY <1>0, <2>0, <2>1, <2>3, <4>2
      <4> QED BY <2>1, <4>2, <4>3 DEF Answerable
    <3>4. OwnerWaits'
      <4> SUFFICES ASSUME NEW h \in 1 .. n, ~stack'[h].nested, ~stack'[h].committed
                   PROVE  thread'.active /\ \A j \in h + 1 .. n : stack'[j].nested
        BY <2>1 DEF OwnerWaits
      <4>1. stack'[h] = stack[h] BY <2>6
      <4>2. thread.active /\ \A j \in h + 1 .. n : stack[j].nested BY <4>1 DEF QtInv, OwnerWaits
      <4>3. \A j \in h + 1 .. n : j \in 1 .. n BY <1>0
      <4> QED BY <2>1, <2>3, <4>2, <4>3
    <3> QED BY <3>1, <3>2, <3>3, <3>4 DEF QtInv
  <2>4. CASE ~thread.doRollback /\ ~stack[n].nested /\ end
    <3>1. thread.active BY <2>0, <2>4 DEF QtInv, OwnerWaits
    <3>2. thread' = [active |-> FALSE, doRollback |-> FALSE]
      BY <2>4 DEF QtInv, QtTypeOK
    <3>3. /\ server \in [up: BOOLEAN, tx: BOOLEAN] /\ ~past.dropped
          /\ server.up /\ ~server.tx => past.refused
      BY <2>4, <3>1 DEF QtInv, QtTypeOK, Honest
    <3>4. PICK said \in BOOLEAN, kept \in BOOLEAN, lost \in BOOLEAN :
            /\ said => kept \/ past.refused
            /\ kept /\ ~said => lost
            /\ server' \in [up: BOOLEAN, tx: {FALSE}] /\ TxEnds(said, kept, lost)
      <4>1. [server EXCEPT !.tx = FALSE] \in [up: BOOLEAN, tx: {FALSE}]
            /\ [up |-> FALSE, tx |-> FALSE] \in [up: BOOLEAN, tx: {FALSE}] /\ server.tx \in BOOLEAN
        BY <3>3
      <4> DEFINE Ends(said, kept, lost) ==
                   /\ said => kept \/ past.refused
                   /\ kept /\ ~said => lost
                   /\ server' \in [up: BOOLEAN, tx: {FALSE}] /\ TxEnds(said, kept, lost)
      <4>2. CASE server.up /\ server' = [server EXCEPT !.tx = FALSE] /\ TxEnds(TRUE, server.tx, FALSE)
        <5>1. Ends(TRUE, server.tx, FALSE) BY <3>3, <4>1, <4>2
        <5> QED BY <4>1, <5>1
      <4>3. CASE server' = [server EXCEPT !.tx = FALSE] /\ TxEnds(FALSE, FALSE, FALSE)
        <5>1. Ends(FALSE, FALSE, FALSE) BY <4>1, <4>3
        <5> QED BY <5>1
      <4>4. CASE /\ server.tx /\ server' = [up |-> FALSE, tx |-> FALSE]
                 /\ \E kept \in BOOLEAN : TxEnds(FALSE, kept, TRUE)
        <5>1. PICK kept \in BOOLEAN : TxEnds(FALSE, kept, TRUE) BY <4>4
        <5>2. Ends(FALSE, kept, TRUE) BY <4>1, <4>4, <5>1
        <5> QED BY <5>2
      <4> QED BY <2>4, <4>2, <4>3, <4>4 DEF CommitOnServer
    <3>5. QtTypeOK' /\ Honest' /\ ~Open'
      BY <1>0, <2>1, <2>2, <3>2, <3>3, <3>4, AfterEnd DEF QtInv
    <3>6. NestedAbove'
      BY <1>0, <2>0, <2>1, <2>4 DEF QtInv, NestedAbove
    <3>7. OwnerWaits'
      <4> SUFFICES ASSUME NEW h \in 1 .. n, ~stack'[h].nested, ~stack'[h].committed  PROVE FALSE
        BY <2>1 DEF OwnerWaits
      <4>1. stack'[h] = stack[h] /\ h # n BY <2>6
      <4>2. n \in h + 1 .. n BY <1>0, <4>1
      <4>3. stack[n].nested BY <4>1, <4>2 DEF QtInv, OwnerWaits
      <4> QED BY <2>4, <4>3
    <3> QED BY <3>5, <3>6, <3>7 DEF QtInv, Answerable
  <2> HIDE DEF end
  <2>5. \/ (thread.doRollback \/ stack[n].nested) /\ UNCHANGED <<thread, server, past>>
        \/ ~thread.doRollback /\ ~stack[n].nested /\ end
    BY <1>2 DEF CommitScope, end
  <2> QED BY <2>3, <2>4, <2>5
<1>3. CASE Leave
  <2> DEFINE s == stack[n]
             rollback == thread.doRollback \/ ~s.committed
             m == n - 1
  <2>1. /\ stack # <<>> /\ n \in 1 .. n /\ s \in Scope /\ m \in Nat
        /\ rollback \in BOOLEAN /\ s.committed \in BOOLEAN
    BY <1>0, <1>3 DEF Leave, Scope, QtInv, QtTypeOK
  <2>2. stack' \in Seq(Scope) /\ Len(stack') = m /\ \A i \in 1 .. m : stack'[i] = stack[i]
    <3>1. stack' = SubSeq(stack, 1, m) /\ \A i \in 1 .. m : stack[i] \in Scope
      BY <1>0, <1>3, <2>1 DEF Leave
    <3>2. 1 \in Int /\ m \in Int
      BY <2>1
    <3> HIDE DEF m
    <3>3. /\ SubSeq(stack, 1, m) \in Seq(Scope)
          /\ Len(SubSeq(stack, 1, m)) = IF 1 <= m THEN m - 1 + 1 ELSE 0
          /\ \A i \in 1 .. m - 1 + 1 : SubSeq(stack, 1, m)[i] = stack[1 + i - 1]
      BY <3>1, <3>2, SubSeqProperties
    <3> QED BY <2>1, <3>1, <3>3
  <2>3. ASSUME NEW j \in 1 .. m, stack'[j].nested, NEW i \in j .. m PROVE stack'[i].nested
    <3>1. j \in 1 .. n /\ i \in j .. n /\ i \in 1 .. m
      BY <1>0, <2>1
    <3> QED BY <2>2, <2>3, <3>1 DEF QtInv, NestedAbove
  <2>4. CASE rollback /\ ~s.nested
    <3>1. /\ thread' = [active |-> FALSE, doRollback |-> FALSE]
          /\ server' = [server EXCEPT !.tx = FALSE]
          /\ TxEnds(FALSE, FALSE, FALSE)
      BY <1>3, <2>4 DEF Leave
    <3>2. QtTypeOK' /\ Honest' /\ ~Open'
      <4>1. Len(stack') <= Scopes
        BY <1>0, <2>2, ScopesAssumption
      <4>2. server' \in [up: BOOLEAN, tx: {FALSE}] BY <3>1 DEF QtInv, QtTypeOK
      <4> DEFINE no == FALSE
      <4>3. no \in BOOLEAN /\ ~no /\ TxEnds(no, no, no) BY <3>1
      <4> HIDE DEF no
      <4> QED BY <2>2, <3>1, <4>1, <4>2, <4>3, AfterEnd DEF QtInv
    <3>3. NestedAbove'
      <4>1. ASSUME stack' # <<>>, stack'[m].nested PROVE FALSE
        <5>1. m \in 1 .. n /\ n \in m .. n /\ stack[m].nested
          BY <2>1, <2>2, <4>1
        <5> QED BY <2>4, <5>1 DEF QtInv, NestedAbove
      <4> QED BY <2>2, <2>3, <4>1 DEF NestedAbove
    <3>4. OwnerWaits'
      <4> SUFFICES ASSUME NEW h \in 1 .. m, ~stack'[h].nested, ~stack'[h].committed  PROVE FALSE
        BY <2>2 DEF OwnerWaits
      <4>1. stack'[h] = stack[h] /\ h \in 1 .. n /\ n \in h + 1 .. n BY <1>0, <2>1, <2>2
      <4>2. stack[n].nested BY <4>1 DEF QtInv, OwnerWaits
      <4> QED BY <2>4, <4>2
    <3> QED BY <3>2, <3>3, <3>4 DEF QtInv, Answerable
  <2>5. CASE ~(rollback /\ ~s.nested)
    <3>1. /\ thread' = [thread EXCEPT !.doRollback = rollback]
          /\ past' = [past EXCEPT !.dropped = past.dropped \/ ~s.committed]
          /\ UNCHANGED server
      BY <1>3, <2>5 DEF Leave
    <3>2. QtTypeOK' /\ Honest'
      <4>1. Len(stack') <= Scopes
        BY <1>0, <2>2, ScopesAssumption
      <4>2. (thread'.doRollback <=> rollback) /\ thread' \in [active: BOOLEAN, doRollback: BOOLEAN]
        BY <2>1, <3>1 DEF QtInv, QtTypeOK
      <4> HIDE DEF rollback
      <4>3. /\ past' \in Past
            /\ past'.dropped <=> past.dropped \/ ~s.committed
            /\ past'.lastDropped = past.lastDropped /\ past'.told = past.told /\ past'.kept = past.kept
            /\ past'.refused = past.refused /\ past'.lastRefused = past.lastRefused
            /\ past'.lost = past.lost
        BY <2>1, <3>1 DEF QtInv, QtTypeOK, Past
      <4>4. thread'.active = thread.active BY <3>1 DEF QtInv, QtTypeOK
      <4>5. QtTypeOK' BY <2>2, <3>1, <4>1, <4>2, <4>3 DEF QtInv, QtTypeOK, Past, Scope
      <4>6. past'.dropped <=> thread'.doRollback BY <4>2, <4>3 DEF QtInv, Honest, rollback
      <4>7. Honest' BY <3>1, <4>3, <4>4, <4>6 DEF QtInv, Honest
      <4> QED BY <4>5, <4>7
    <3>3. ASSUME s.nested PROVE Answerable'
      <4>1. thread.active
        BY <2>1, <3>3 DEF QtInv, NestedAbove
      <4>2. PICK h \in 1 .. n : /\ ~stack[h].nested /\ (~stack[h].committed \/ thread.doRollback)
                                /\ \A j \in h + 1 .. n : stack[j].nested
        BY <4>1 DEF QtInv, Answerable, Open
      <4>3. h \in 1 .. m
        BY <2>1, <3>3, <4>2
      <4>4. ~stack[h].committed \/ thread'.doRollback
        BY <3>1, <4>2 DEF QtInv, QtTypeOK
      <4> QED BY <2>1, <2>2, <4>2, <4>3, <4>4 DEF Answerable
    <3>4. ASSUME ~s.nested PROVE ~Open'
      <4>1. s.committed /\ ~thread.doRollback
        BY <2>1, <2>5, <3>4
      <4>2. ~Open
        BY <2>1, <3>4, <4>1 DEF QtInv, Answerable
      <4> QED BY <2>1, <3>1, <4>1, <4>2 DEF Open, QtInv, QtTypeOK
    <3>5. NestedAbove'
      <4>1. ASSUME stack' # <<>>, stack'[m].nested PROVE thread'.active
        <5>1. m \in 1 .. n /\ n \in m .. n /\ stack[m].nested
          BY <2>1, <2>2, <4>1
        <5>2. s.nested
          BY <5>1 DEF QtInv, NestedAbove
        <5> QED BY <2>1, <3>1, <5>2 DEF QtInv, QtTypeOK, NestedAbove
      <4> QED BY <2>2, <2>3, <4>1 DEF NestedAbove
    <3>6. OwnerWaits'
      <4> SUFFICES ASSUME NEW h \in 1 .. m, ~stack'[h].nested, ~stack'[h].committed
                   PROVE  thread'.active /\ \A j \in h + 1 .. m : stack'[j].nested
        BY <2>2 DEF OwnerWaits
      <4>1. stack'[h] = stack[h] /\ h \in 1 .. n BY <1>0, <2>1, <2>2
      <4>2. thread.active /\ \A j \in h + 1 .. n : stack[j].nested BY <4>1 DEF QtInv, OwnerWaits
      <4>3. thread'.active BY <3>1, <4>2 DEF QtInv, QtTypeOK
      <4>4. ASSUME NEW j \in h + 1 .. m  PROVE stack'[j].nested
        <5>1. j \in 1 .. m /\ j \in h + 1 .. n BY <1>0, <2>1
        <5> QED BY <2>2, <4>2, <5>1
      <4> QED BY <4>3, <4>4
    <3> QED BY <3>2, <3>3, <3>4, <3>5, <3>6 DEF QtInv, Answerable
  <2> QED BY <2>4, <2>5
<1>8. stack = <<>> => ~Open
  <2>1. stack = <<>> => 1 .. Len(stack) = {} OBVIOUS
  <2> QED BY <2>1 DEF QtInv, Answerable
<1>4. CASE ServerBreaks
  <2>1. server'.up = FALSE /\ server'.tx = FALSE /\ server' \in [up: BOOLEAN, tx: BOOLEAN]
        /\ UNCHANGED <<stack, thread, past>>
    BY <1>4 DEF ServerBreaks
  <2> QED BY <2>1 DEF QtInv, QtTypeOK, Answerable, Open, NestedAbove, OwnerWaits, Honest
<1>5. CASE CheckQtConnection
  <2>1. /\ server'.up = TRUE /\ server'.tx = server.tx /\ server' \in [up: BOOLEAN, tx: BOOLEAN]
        /\ UNCHANGED <<stack, thread, past>> /\ ~thread.active
    BY <1>5, <1>8 DEF CheckQtConnection, QtInv, QtTypeOK, Open
  <2> QED BY <2>1 DEF QtInv, QtTypeOK, Answerable, Open, NestedAbove, OwnerWaits, Honest
<1>6. CASE CloseDBConnection
  <2>1. /\ thread' = [active |-> FALSE, doRollback |-> FALSE] /\ server' = [up |-> TRUE, tx |-> FALSE]
        /\ UNCHANGED <<stack, past>> /\ stack = <<>> /\ ~Open
    BY <1>6, <1>8 DEF CloseDBConnection
  <2>2. /\ thread'.active = FALSE /\ thread'.doRollback = FALSE /\ server'.tx = FALSE
        /\ ~thread.active /\ ~thread.doRollback /\ stack' = stack /\ past' = past
    BY <2>1 DEF Open
  <2>3. Honest' BY <2>2 DEF QtInv, Honest
  <2>4. QtTypeOK' BY <2>1, <2>2 DEF QtInv, QtTypeOK
  <2>5. Answerable' BY <2>2 DEF Answerable, Open
  <2>6. NestedAbove' BY <2>1, <2>2 DEF QtInv, NestedAbove
  <2>7. OwnerWaits'
    <3>1. 1 .. Len(stack') = {} BY <2>1
    <3> QED BY <3>1 DEF OwnerWaits
  <2> QED BY <2>3, <2>4, <2>5, <2>6, <2>7 DEF QtInv
<1>9. CASE QueryRefused
  <2>1. server' = server \/ server' = [server EXCEPT !.tx = FALSE] BY <1>9 DEF QueryRefused
  <2>2. /\ server' \in [up: BOOLEAN, tx: BOOLEAN] /\ server'.up = server.up
        /\ server'.tx => server.tx
    <3>1. server \in [up: BOOLEAN, tx: BOOLEAN] BY DEF QtInv, QtTypeOK
    <3> QED BY <2>1, <3>1
  <2>3. /\ past' \in Past /\ past'.refused = thread.active
        /\ past'.dropped = past.dropped /\ past'.lastDropped = past.lastDropped
        /\ past'.lastRefused = past.lastRefused /\ past'.told = past.told
        /\ past'.kept = past.kept /\ past'.lost = past.lost
    BY <1>9 DEF QueryRefused, QtInv, QtTypeOK, Past
  <2>4. stack' = stack /\ thread' = thread BY <1>9 DEF QueryRefused
  <2>5. QtTypeOK' BY <2>2, <2>3, <2>4 DEF QtInv, QtTypeOK, Past
  <2>6. Honest' BY <2>3, <2>4 DEF QtInv, Honest
  <2>7. Answerable' BY <2>2, <2>4 DEF QtInv, Answerable, Open
  <2>8. NestedAbove' /\ OwnerWaits' BY <2>4 DEF QtInv, NestedAbove, OwnerWaits
  <2> QED BY <2>5, <2>6, <2>7, <2>8 DEF QtInv
<1>7. CASE UNCHANGED qtvars
  BY <1>7 DEF qtvars, QtInv, QtTypeOK, Answerable, Open, NestedAbove, OwnerWaits, Honest
<1> QED BY <1>1, <1>2, <1>3, <1>4, <1>5, <1>6, <1>7, <1>9 DEF QtNext

(* However scopes are nested, entered after a commit, left without one, *)
(* refused a query or cut off from the server, also in a COMMIT: what *)
(* commit() said of the changes is true, unless a query had been refused *)
(* before or the COMMIT was cut off, and a scope leaves neither a *)
(* transaction nor a mark behind. *)
THEOREM ScopesTellHolds == QtSpec => []ScopesTell
<1>1. QtInv => ScopesTell
  BY DEF QtInv, Answerable, Open, Honest, ScopesTell
<1> QED BY <1>1, QtBegins, QtKept, PTL DEF QtSpec

(****************************************)
(* The group part of a Kafka connector.  Its functions take a state of *)
(* members and connections to the next: each keeps a good state good. *)
(* Beyond the property, no request to leave waits on the connection of the *)
(* group: its answer is what marks a connection as left.  A join waits *)
(* only there, or where the pointer has been taken from the connection: *)
(* its answer is what uses the pointer. *)
(****************************************)
KType == [groupId : Groups \cup {NoGroup}, memberId : BOOLEAN, joinInProgress : BOOLEAN,
          coordinatorRequest : Conns \cup {None}, groupConnection : Conns \cup {None},
          heartbeat : BOOLEAN, rejoins : Int, alive : BOOLEAN]
Req   == [api : Apis, group : Groups \cup {NoGroup}]
CType == [phase : {"open", "closing", "closed", "gone"}, kind : {"group", "coordinator"},
          leaving : BOOLEAN, sent : Seq(Req), orphan : BOOLEAN]
SType == [k : KType, conns : [Conns -> CType]]

Stays(sent) == \A i \in 1 .. Len(sent) : sent[i].api # "leave"

Asking(q, C) ==
  q.coordinatorRequest # None =>
    C[q.coordinatorRequest].phase # "gone" /\ C[q.coordinatorRequest].kind = "coordinator"

Joined(q, C) ==
  q.groupConnection # None =>
    /\ C[q.groupConnection].phase # "gone" /\ C[q.groupConnection].kind = "group"
    /\ ~C[q.groupConnection].leaving /\ Stays(C[q.groupConnection].sent)

Beating(q) == q.heartbeat => q.groupConnection # None

(* A connection of requests a that a join waits on is the one of the *)
(* group, or the group has been taken from it. *)
Joining(a) == \E i \in 1 .. Len(a.sent) : a.sent[i].api = "join"
JoinsStayAt(q, c, a) ==
  Joining(a) => a.phase \in {"open", "closing"} /\ (c = q.groupConnection \/ Apart(a))
JoinsStay(q, C) == \A c \in Conns : JoinsStayAt(q, c, C[c])

Calm(s) ==
  s \in SType /\ Asking(s.k, s.conns) /\ Joined(s.k, s.conns) /\ Beating(s.k) /\ JoinsStay(s.k, s.conns)

Good(s) == Calm(s) /\ s.k.alive

(* The null pointer is used only where a join is answered too late. *)
Fair(s) == Calm(s) /\ (s.k.alive \/ (reading # None /\ Apart(s.conns[reading])))

----------------------------------------
(* A connection that stays what it is for whoever points to it. *)
SameUse(a, o) ==
  /\ a.phase # "gone" => o.phase # "gone"
  /\ o.kind = a.kind /\ o.leaving = a.leaving
  /\ Stays(a.sent) => Stays(o.sent)

SameKind(a, o) == (a.phase # "gone" => o.phase # "gone") /\ o.kind = a.kind

(* The group does not point to it, and who is asked for a coordinator is *)
(* still there. *)
Spare(s, c, r) ==
  c # s.k.groupConnection /\ (SameKind(s.conns[c], r) \/ c # s.k.coordinatorRequest)

LEMMA ConnChanges ==
  ASSUME NEW s, Good(s), NEW c \in Conns, NEW r \in CType,
         SameUse(s.conns[c], r) \/ Spare(s, c, r), JoinsStayAt(s.k, c, r),
         NEW t, t = [s EXCEPT !.conns = [s.conns EXCEPT ![c] = r]]
  PROVE  Good(t) /\ t.k = s.k /\ t.conns = [s.conns EXCEPT ![c] = r]
  <1>1. s \in SType
    BY DEF Good, Calm
  <1>2. t.k = s.k /\ t.conns = [s.conns EXCEPT ![c] = r] /\ t \in SType
    BY <1>1 DEF SType
  <1>3. /\ s.k.coordinatorRequest \in Conns \cup {None} /\ s.k.groupConnection \in Conns \cup {None}
        /\ s.conns \in [Conns -> CType]
    BY <1>1 DEF SType, KType
  <1>4. t.conns[c] = r /\ \A x \in Conns \ {c} : t.conns[x] = s.conns[x]
    BY <1>2, <1>3
  <1>5. Asking(t.k, t.conns)
    BY <1>2, <1>3, <1>4 DEF Good, Calm, Asking, SameUse, SameKind, Spare
  <1>6. Joined(t.k, t.conns)
    BY <1>2, <1>3, <1>4 DEF Good, Calm, Joined, SameUse, Spare
  <1>7. JoinsStay(t.k, t.conns)
    BY <1>2, <1>4 DEF Good, Calm, JoinsStay
  <1> QED BY <1>2, <1>5, <1>6, <1>7 DEF Good, Calm

(* The pointer to the connection of the group may be taken from it. *)
LetGo(s) == s.k.groupConnection # None => Apart(s.conns[s.k.groupConnection])

LEMMA MembersChange ==
  ASSUME NEW s, Good(s), NEW q \in KType,
         q.coordinatorRequest \in {s.k.coordinatorRequest, None},
         \/ q.groupConnection = s.k.groupConnection
         \/ q.groupConnection = None /\ LetGo(s),
         Beating(q), q.alive,
         NEW t, t = [s EXCEPT !.k = q]
  PROVE  Good(t) /\ t.k = q /\ t.conns = s.conns
  <1>1. s \in SType
    BY DEF Good, Calm
  <1>2. t.k = q /\ t.conns = s.conns /\ t \in SType
    BY <1>1 DEF SType
  <1>3. Asking(q, s.conns) /\ Joined(q, s.conns)
    BY DEF Good, Calm, Asking, Joined
  <1>4. JoinsStay(q, s.conns)
    <2> SUFFICES ASSUME NEW c \in Conns  PROVE JoinsStayAt(q, c, s.conns[c])
      BY DEF JoinsStay
    <2>1. JoinsStayAt(s.k, c, s.conns[c]) BY DEF Good, Calm, JoinsStay
    <2> QED BY <2>1, GroupAssumption DEF JoinsStayAt, LetGo
  <1> QED BY <1>2, <1>3, <1>4 DEF Good, Calm

(* One more request on a connection. *)
LEMMA Requested ==
  ASSUME NEW a \in CType, NEW m \in Req, NEW r, r = [a EXCEPT !.sent = Append(a.sent, m)]
  PROVE  /\ r \in CType /\ r.phase = a.phase /\ r.kind = a.kind /\ r.leaving = a.leaving
         /\ m.api # "leave" => SameUse(a, r)
         /\ r.orphan = a.orphan
         /\ m.api = "leave" => Apart(r)
         /\ Apart(a) => Apart(r)
         /\ m.api # "join" => (Joining(r) => Joining(a))
  <1> DEFINE o == Append(a.sent, m)
  <1>1. a.sent \in Seq(Req)
    BY DEF CType
  <1>2. /\ o \in Seq(Req) /\ Len(o) = Len(a.sent) + 1 /\ Len(a.sent) \in Nat
        /\ \A i \in 1 .. Len(a.sent) : o[i] = a.sent[i]
        /\ o[Len(a.sent) + 1] = m
    BY <1>1
  <1> HIDE DEF o
  <1>3. /\ r \in CType /\ r.phase = a.phase /\ r.kind = a.kind /\ r.leaving = a.leaving /\ r.sent = o
        /\ r.orphan = a.orphan
    BY <1>2 DEF CType, o
  <1>4. ASSUME m.api # "leave", Stays(a.sent) PROVE Stays(o)
    <2> SUFFICES ASSUME NEW i \in 1 .. Len(o) PROVE o[i].api # "leave"
      BY DEF Stays
    <2>1. i \in 1 .. Len(a.sent) \/ i = Len(a.sent) + 1
      BY <1>2
    <2> QED BY <1>2, <1>4, <2>1 DEF Stays
  <1>5. m.api = "leave" => Apart(r)
    <2>1. Len(a.sent) + 1 \in 1 .. Len(o) BY <1>2
    <2> QED BY <1>2, <1>3, <2>1 DEF Apart
  <1>6. Apart(a) => Apart(r)
    <2>1. \A i \in 1 .. Len(a.sent) : i \in 1 .. Len(o) /\ o[i] = a.sent[i] BY <1>2
    <2> QED BY <1>3, <2>1 DEF Apart
  <1>7. ASSUME m.api # "join", Joining(r)  PROVE Joining(a)
    <2>1. PICK i \in 1 .. Len(o) : o[i].api = "join" BY <1>3, <1>7 DEF Joining
    <2>2. i # Len(a.sent) + 1 BY <1>2, <1>7, <2>1
    <2>3. i \in 1 .. Len(a.sent) BY <1>2, <2>2
    <2> QED BY <1>2, <2>1, <2>3 DEF Joining
  <1> QED BY <1>3, <1>4, <1>5, <1>6, <1>7 DEF SameUse

(* A request to a connection; a join goes to the one of the group. *)
LEMMA RequestGood ==
  ASSUME NEW s, Good(s), NEW c \in Conns, NEW api \in Apis \ {"leave"},
         api = "join" => c = s.k.groupConnection,
         NEW t, t = Request(s, c, api)
  PROVE  Good(t) /\ t.k = s.k
  <1>1. /\ s \in SType /\ s.k \in KType /\ s.conns \in [Conns -> CType] /\ c # None
        /\ JoinsStayAt(s.k, c, s.conns[c])
    BY GroupAssumption DEF Good, Calm, SType, JoinsStay
  <1>3. CASE s.conns[c].phase # "open"
    BY <1>1, <1>3 DEF Request
  <1>4. CASE s.conns[c].phase = "open"
    <2> DEFINE m == [api |-> api, group |-> s.k.groupId]
               r == [s.conns[c] EXCEPT !.sent = Append(s.conns[c].sent, m)]
    <2>1. t = [s EXCEPT !.conns = [s.conns EXCEPT ![c] = r]]
      BY <1>1, <1>4 DEF Request
    <2>2. s.conns[c] \in CType /\ m \in Req /\ m.api = api /\ m.api # "leave"
      BY <1>1, <1>4 DEF KType, Req
    <2> HIDE DEF m
    <2>3. /\ r \in CType /\ SameUse(s.conns[c], r) /\ r.phase = "open"
          /\ Apart(s.conns[c]) => Apart(r)
          /\ api # "join" => (Joining(r) => Joining(s.conns[c]))
      BY <1>4, <2>2, Requested
    <2> HIDE DEF r
    <2>5. JoinsStayAt(s.k, c, r)
      BY <1>1, <2>3 DEF JoinsStayAt
    <2>4. Good(t) /\ t.k = s.k
      <3>1. Good(s) /\ c \in Conns
        OBVIOUS
      <3>2. SameUse(s.conns[c], r) \/ Spare(s, c, r)
        BY <2>3
      <3>3. r \in CType
        BY <2>3
      <3>4. Good(t)
        BY ONLY <2>1, <2>5, <3>1, <3>2, <3>3, ConnChanges
      <3>5. t.k = s.k
        BY ONLY <2>1, <2>5, <3>1, <3>2, <3>3, ConnChanges
      <3> QED BY <3>4, <3>5
    <2> QED BY <2>4
  <1> QED BY <1>3, <1>4

LEMMA SilentUse ==
  ASSUME NEW a \in CType, a.phase # "gone"
  PROVE  /\ Silent(a) \in CType /\ SameUse(a, Silent(a)) /\ Silent(a).phase = "closed"
         /\ ~Joining(Silent(a))
  <1>1. <<>> \in Seq(Req) /\ Stays(<<>>)
    BY DEF Stays
  <1> DEFINE e == <<>>
  <1>2. Silent(a) = [a EXCEPT !.phase = "closed", !.sent = e]
    BY DEF Silent
  <1>3. e \in Seq(Req) /\ Stays(e) /\ 1 .. Len(e) = {}
    BY <1>1
  <1> HIDE DEF e
  <1>4. Silent(a).sent = e
    BY <1>2 DEF CType
  <1> QED BY <1>2, <1>3, <1>4 DEF CType, SameUse, Joining

(* close() never deletes a connection. *)
LEMMA CloseGood ==
  ASSUME NEW s, Good(s), NEW c \in Conns, NEW t, t = Close(s, c)
  PROVE  Good(t) /\ t.k = s.k
  <1>1. s \in SType /\ s.conns \in [Conns -> CType] /\ JoinsStayAt(s.k, c, s.conns[c])
    BY DEF Good, Calm, SType, JoinsStay
  <1>2. CASE s.conns[c].phase # "open"
    BY <1>2 DEF Close
  <1>3. CASE s.conns[c].phase = "open" /\ c = reading
    <2> DEFINE r == [s.conns[c] EXCEPT !.phase = "closing"]
    <2>1. t = [s EXCEPT !.conns = [s.conns EXCEPT ![c] = r]]
      BY <1>3 DEF Close
    <2>2. r \in CType /\ SameUse(s.conns[c], r)
      BY <1>1 DEF CType, SameUse
    <2>8. JoinsStayAt(s.k, c, r)
      <3>1. r.phase = "closing" BY <1>1 DEF CType
      <3> HIDE DEF r
      <3> QED BY <3>1 DEF JoinsStayAt, Apart
    <2> HIDE DEF r
    <2>3. Good(s) /\ c \in Conns
      OBVIOUS
    <2>4. SameUse(s.conns[c], r) \/ Spare(s, c, r)
      BY <2>2
    <2>5. r \in CType
      BY <2>2
    <2>6. Good(t)
      BY ONLY <2>1, <2>3, <2>4, <2>5, <2>8, ConnChanges
    <2>7. t.k = s.k
      BY ONLY <2>1, <2>3, <2>4, <2>5, <2>8, ConnChanges
    <2> QED BY <2>6, <2>7
  <1>4. CASE s.conns[c].phase = "open" /\ c # reading
    <2> DEFINE r == Silent(s.conns[c])
    <2>1. t = [s EXCEPT !.conns = [s.conns EXCEPT ![c] = r]]
      BY <1>4 DEF Close
    <2>2. r \in CType /\ SameUse(s.conns[c], r)
      BY <1>1, <1>4, SilentUse
    <2>8. JoinsStayAt(s.k, c, r)
      BY <1>1, <1>4, SilentUse DEF JoinsStayAt
    <2> HIDE DEF r
    <2>3. Good(s) /\ c \in Conns
      OBVIOUS
    <2>4. SameUse(s.conns[c], r) \/ Spare(s, c, r)
      BY <2>2
    <2>5. r \in CType
      BY <2>2
    <2>6. Good(t)
      BY ONLY <2>1, <2>3, <2>4, <2>5, <2>8, ConnChanges
    <2>7. t.k = s.k
      BY ONLY <2>1, <2>3, <2>4, <2>5, <2>8, ConnChanges
    <2> QED BY <2>6, <2>7
  <1> QED BY <1>2, <1>3, <1>4

(* A connection is opened and becomes the one that is asked, or the one of *)
(* the group. *)
Begun(s, c, kind, q) == [s EXCEPT !.conns = [s.conns EXCEPT ![c] = Fresh(kind)], !.k = q]

LEMMA OpenedGood ==
  ASSUME NEW s, Good(s), NEW c \in Free(s), NEW kind \in {"group", "coordinator"},
         NEW q \in KType,
         kind = "coordinator" => q.coordinatorRequest = c /\ q.groupConnection = s.k.groupConnection,
         kind = "group" => /\ q.groupConnection = c
                           /\ q.coordinatorRequest = s.k.coordinatorRequest /\ LetGo(s),
         q.alive = s.k.alive, q.heartbeat = s.k.heartbeat,
         NEW t, t = Begun(s, c, kind, q)
  PROVE  Good(t) /\ t.k = q
  <1>1. /\ s \in SType /\ s.conns \in [Conns -> CType] /\ s.k \in KType
        /\ c \in Conns /\ c # None /\ s.conns[c].phase = "gone"
    BY GroupAssumption DEF Good, Calm, SType, Free
  <1>2. c # s.k.coordinatorRequest /\ c # s.k.groupConnection
    BY <1>1 DEF Good, Calm, Asking, Joined
  <1> DEFINE r == Fresh(kind)
  <1>3. /\ r \in CType /\ r.phase = "open" /\ r.kind = kind /\ ~r.leaving /\ Stays(r.sent) /\ ~Joining(r)
    <2> DEFINE e == <<>>
               g == [phase |-> "gone", kind |-> "group", leaving |-> FALSE, sent |-> e, orphan |-> FALSE]
    <2>1. r = [g EXCEPT !.phase = "open", !.kind = kind]
      BY DEF Fresh, Gone
    <2>2. e \in Seq(Req) /\ Stays(e) /\ 1 .. Len(e) = {}
      BY DEF Stays
    <2> HIDE DEF e, r
    <2>3. r.sent = e
      BY <2>1
    <2> QED BY <2>1, <2>2, <2>3 DEF CType, Joining
  <1> HIDE DEF r
  <1>4. t.k = q /\ t.conns = [s.conns EXCEPT ![c] = r] /\ t \in SType
    BY <1>1, <1>3 DEF SType, r, Begun
  <1>5. t.conns[c] = r /\ \A x \in Conns \ {c} : t.conns[x] = s.conns[x]
    BY <1>1, <1>4
  <1>6. Asking(q, t.conns)
    BY <1>1, <1>2, <1>3, <1>5 DEF Good, Calm, Asking, KType
  <1>7. Joined(q, t.conns)
    BY <1>1, <1>2, <1>3, <1>5 DEF Good, Calm, Joined, KType
  <1>8. Beating(q)
    BY <1>1, <1>2, GroupAssumption DEF Good, Calm, Beating
  <1>9. JoinsStay(q, t.conns)
    <2> SUFFICES ASSUME NEW x \in Conns  PROVE JoinsStayAt(q, x, t.conns[x])
      BY DEF JoinsStay
    <2>1. CASE x = c BY <1>3, <1>5, <2>1 DEF JoinsStayAt
    <2>2. CASE x # c
      <3>1. t.conns[x] = s.conns[x] BY <1>5, <2>2
      <3>2. JoinsStayAt(s.k, x, s.conns[x]) BY DEF Good, Calm, JoinsStay
      <3>3. x = s.k.groupConnection => x = q.groupConnection \/ Apart(s.conns[x])
        BY GroupAssumption DEF LetGo
      <3> QED BY <3>1, <3>2, <3>3 DEF JoinsStayAt
    <2> QED BY <2>1, <2>2
  <1> QED BY <1>4, <1>6, <1>7, <1>8, <1>9 DEF Good, Calm

(* The connection of the group, if any, is taken from it. *)
LEMMA OrphanGood ==
  ASSUME NEW s, Good(s)
  PROVE  /\ Good(Orphan(s)) /\ Orphan(s).k = s.k /\ LetGo(Orphan(s))
         /\ Free(Orphan(s)) = Free(s)
         /\ \A c \in Conns : Orphan(s).conns[c].kind = s.conns[c].kind
  <1>1. s \in SType /\ s.k \in KType /\ s.conns \in [Conns -> CType]
    BY DEF Good, Calm, SType
  <1>2. CASE s.k.groupConnection = None
    BY <1>2 DEF Orphan, LetGo
  <1>3. CASE s.k.groupConnection # None
    <2> DEFINE c == s.k.groupConnection
               yes == TRUE
               r == [s.conns[c] EXCEPT !.orphan = yes]
               t == [s EXCEPT !.conns = [s.conns EXCEPT ![c] = r]]
    <2>1. Orphan(s) = t
      BY <1>1, <1>3 DEF Orphan, SType
    <2>2. c \in Conns /\ s.conns[c] \in CType
      BY <1>1, <1>3 DEF KType
    <2>3. /\ r \in CType /\ SameUse(s.conns[c], r) /\ r.orphan /\ r.kind = s.conns[c].kind
          /\ r.phase = s.conns[c].phase /\ r.sent = s.conns[c].sent
      BY <2>2 DEF CType, SameUse
    <2> HIDE DEF r
    <2>4. JoinsStayAt(s.k, c, r) /\ Apart(r)
      <3>1. JoinsStayAt(s.k, c, s.conns[c]) BY <2>2 DEF Good, Calm, JoinsStay
      <3>2. Joining(r) => Joining(s.conns[c]) BY <2>3 DEF Joining
      <3>3. Apart(r) BY <2>3 DEF Apart
      <3> QED BY <2>3, <3>1, <3>2, <3>3 DEF JoinsStayAt
    <2>5. Good(t) /\ t.k = s.k /\ t.conns = [s.conns EXCEPT ![c] = r]
      <3>1. SameUse(s.conns[c], r) \/ Spare(s, c, r)
        BY <2>3
      <3>2. Good(s) /\ c \in Conns /\ r \in CType /\ JoinsStayAt(s.k, c, r)
        BY <2>2, <2>3, <2>4
      <3> HIDE DEF c
      <3>3. Good(t)
        BY ONLY <3>1, <3>2, ConnChanges
      <3>4. t.k = s.k
        BY ONLY <3>1, <3>2, ConnChanges
      <3>5. t.conns = [s.conns EXCEPT ![c] = r]
        BY ONLY <3>1, <3>2, ConnChanges
      <3> QED BY <3>3, <3>4, <3>5
    <2> HIDE DEF t
    <2>6. t.conns[c] = r /\ \A x \in Conns : x # c => t.conns[x] = s.conns[x]
      BY <1>1, <2>2, <2>5
    <2>7. LetGo(t)
      BY <2>4, <2>5, <2>6 DEF LetGo
    <2>8. \A x \in Conns : t.conns[x].phase = s.conns[x].phase /\ t.conns[x].kind = s.conns[x].kind
      BY <2>3, <2>6
    <2>9. Free(t) = Free(s)
      BY <2>8 DEF Free
    <2> QED BY <2>1, <2>5, <2>7, <2>8, <2>9
  <1> QED BY <1>2, <1>3

----------------------------------------
(* The functions that use these. *)

LEMMA AskCoordinatorGood ==
  ASSUME NEW s, Good(s), NEW reached \in BOOLEAN
  PROVE  Good(AskCoordinator(s, reached))
  <1>1. s \in SType /\ s.k \in KType
    BY DEF Good, Calm, SType
  <1>2. CASE ~reached \/ Free(s) = {}
    <2> DEFINE q == [s.k EXCEPT !.groupId = NoGroup]
               t == [s EXCEPT !.k = q]
    <2>1. AskCoordinator(s, reached) = t
      BY <1>2 DEF AskCoordinator
    <2>2. /\ q \in KType /\ q.coordinatorRequest = s.k.coordinatorRequest
          /\ q.groupConnection = s.k.groupConnection
          /\ q.alive = s.k.alive /\ q.heartbeat = s.k.heartbeat
      BY <1>1 DEF KType
    <2>3. Beating(q) /\ q.alive
      BY <2>2 DEF Good, Calm, Beating
    <2> HIDE DEF q
    <2>4. Good(t)
      BY <2>2, <2>3, MembersChange
    <2> QED BY <2>1, <2>4
  <1>3. CASE reached /\ Free(s) # {}
    <2>1. PICK c \in Free(s) :
            AskCoordinator(s, reached)
              = Request([Opened(s, c, "coordinator") EXCEPT !.k.coordinatorRequest = c], c, "coordinator")
      <3> DEFINE c == CHOOSE x \in Free(s) : TRUE
      <3>1. c \in Free(s)
        BY <1>3
      <3> QED BY <1>3, <3>1 DEF AskCoordinator
    <2> DEFINE q == [s.k EXCEPT !.coordinatorRequest = c]
               t == [s EXCEPT !.conns = [s.conns EXCEPT ![c] = Fresh("coordinator")], !.k = q]
    <2>2. AskCoordinator(s, reached) = Request(t, c, "coordinator")
      <3>1. [Opened(s, c, "coordinator") EXCEPT !.k.coordinatorRequest = c] = t
        BY <1>1 DEF Opened, SType
      <3> HIDE DEF t
      <3> QED BY <2>1, <3>1
    <2>3. c \in Conns
      BY DEF Free
    <2>4. /\ q \in KType /\ q.coordinatorRequest = c
          /\ q.groupConnection = s.k.groupConnection
          /\ q.alive = s.k.alive /\ q.heartbeat = s.k.heartbeat
      BY <1>1, <2>3 DEF KType
    <2> HIDE DEF q
    <2>5. Good(t)
      <3>1. t = Begun(s, c, "coordinator", q)
        BY DEF Begun
      <3> HIDE DEF t
      <3> QED BY <2>4, <3>1, OpenedGood
    <2> HIDE DEF t
    <2>6. "coordinator" \in Apis \ {"leave"}
      BY DEF Apis
    <2> QED BY <2>2, <2>3, <2>5, <2>6, RequestGood
  <1> QED BY <1>2, <1>3

LEMMA RejoinGroupGood ==
  ASSUME NEW s, Good(s), NEW reached \in BOOLEAN
  PROVE  Good(RejoinGroup(s, reached))
  <1>1. s \in SType /\ s.k \in KType
    BY DEF Good, Calm, SType
  <1>2. CASE s.k.joinInProgress \/ s.k.groupId = NoGroup
    BY <1>2 DEF RejoinGroup
  <1>3. CASE ~(s.k.joinInProgress \/ s.k.groupId = NoGroup)
    <2> DEFINE yes == TRUE
               q == [s.k EXCEPT !.joinInProgress = yes]
               t == [s EXCEPT !.k = q]
    <2>1. RejoinGroup(s, reached) = IF s.k.groupConnection = None THEN AskCoordinator(t, reached) ELSE DoJoin(t)
      <3> DEFINE z == [s EXCEPT !.k.joinInProgress = TRUE]
      <3>1. z = t
        BY <1>1 DEF SType
      <3>2. RejoinGroup(s, reached)
              = IF s.k.joinInProgress \/ s.k.groupId = NoGroup THEN s
                ELSE IF s.k.groupConnection = None THEN AskCoordinator(z, reached) ELSE DoJoin(z)
        BY DEF RejoinGroup
      <3> HIDE DEF z, t
      <3> QED BY <1>3, <3>1, <3>2
    <2>2. /\ q \in KType /\ q.coordinatorRequest = s.k.coordinatorRequest
          /\ q.groupConnection = s.k.groupConnection
          /\ q.alive = s.k.alive /\ q.heartbeat = s.k.heartbeat
      BY <1>1 DEF KType
    <2>3. Beating(q) /\ q.alive
      BY <2>2 DEF Good, Calm, Beating
    <2> HIDE DEF q
    <2>4. Good(t)
      BY <2>2, <2>3, MembersChange
    <2>5. t.k.groupConnection \in Conns \cup {None} /\ "join" \in Apis \ {"leave"}
      BY <2>4 DEF Good, Calm, SType, KType, Apis
    <2>7. t.k.groupConnection = s.k.groupConnection
      BY <2>2, <2>4
    <2> HIDE DEF t
    <2>6. t.k.groupConnection # None => Good(DoJoin(t))
      BY <2>4, <2>5, RequestGood DEF DoJoin
    <2> QED BY <2>1, <2>4, <2>6, <2>7, AskCoordinatorGood
  <1> QED BY <1>2, <1>3

(* leave is the last request of the connection that is given up. *)
LEMMA CleanLeaveGood ==
  ASSUME NEW s, Good(s)
  PROVE  Good(CleanLeave(s))
  <1> DEFINE c == s.k.groupConnection
             no == FALSE
             q == [s.k EXCEPT !.heartbeat = no, !.groupConnection = None]
             m == [api |-> "leave", group |-> s.k.groupId]
             r == [s.conns[c] EXCEPT !.sent = Append(s.conns[c].sent, m)]
  <1>1. s \in SType /\ s.k \in KType /\ s.conns \in [Conns -> CType]
    BY DEF Good, Calm, SType
  <1>2. CASE ~(c # None /\ s.k.groupId # NoGroup /\ s.k.memberId)
    BY <1>2 DEF CleanLeave
  <1>3. CASE c # None /\ s.k.groupId # NoGroup /\ s.k.memberId
    <2>1. c \in Conns /\ s.conns[c] \in CType /\ m \in Req /\ m.api = "leave" /\ c # s.k.coordinatorRequest
      BY <1>1, <1>3 DEF Good, Calm, Asking, Joined, KType, Req, Apis
    <2>2. /\ q \in KType /\ q.coordinatorRequest = s.k.coordinatorRequest
          /\ q.groupConnection = None /\ ~q.heartbeat /\ q.alive = s.k.alive
      BY <1>1 DEF KType
    <2>3. Beating(q)
      BY <2>2 DEF Beating
    <2>4. CASE s.conns[c].phase # "open"
      <3> DEFINE t == [s EXCEPT !.k = q]
      <3>1. CleanLeave(s) = t
        BY <1>3, <2>4 DEF CleanLeave, Request
      <3>2. Joining(s.conns[c]) => Apart(s.conns[c])
        <4>1. JoinsStayAt(s.k, c, s.conns[c]) BY <2>1 DEF Good, Calm, JoinsStay
        <4> QED BY <2>4, <4>1 DEF JoinsStayAt, Apart
      <3>3. t \in SType /\ t.k = q /\ t.conns = s.conns
        BY <1>1, <2>2 DEF SType
      <3>4. JoinsStay(q, s.conns)
        <4> SUFFICES ASSUME NEW x \in Conns  PROVE JoinsStayAt(q, x, s.conns[x])
          BY DEF JoinsStay
        <4>1. JoinsStayAt(s.k, x, s.conns[x]) BY DEF Good, Calm, JoinsStay
        <4> QED BY <3>2, <4>1 DEF JoinsStayAt
      <3>5. Asking(q, s.conns) /\ Joined(q, s.conns)
        BY <2>2 DEF Good, Calm, Asking, Joined
      <3> QED BY <2>2, <2>3, <3>1, <3>3, <3>4, <3>5 DEF Good, Calm
    <2>5. CASE s.conns[c].phase = "open"
      <3> DEFINE t == [s EXCEPT !.k = q, !.conns = [s.conns EXCEPT ![c] = r]]
      <3>1. CleanLeave(s) = t
        BY <1>1, <1>3, <2>5 DEF CleanLeave, Request, SType
      <3>2. r \in CType /\ r.phase = "open" /\ Apart(r) /\ r.kind = s.conns[c].kind
        <4> HIDE DEF m
        <4> QED BY <2>1, <2>5, Requested
      <3> HIDE DEF q, r
      <3>3. t \in SType /\ t.k = q /\ t.conns = [s.conns EXCEPT ![c] = r]
        BY <1>1, <2>1, <2>2, <3>2 DEF SType
      <3>4. t.conns[c] = r /\ \A x \in Conns : x # c => t.conns[x] = s.conns[x]
        BY <1>1, <2>1, <3>3
      <3> HIDE DEF t
      <3>5. Asking(q, t.conns)
        BY <1>1, <2>1, <2>2, <3>4, GroupAssumption DEF Good, Calm, Asking, KType
      <3>6. Joined(q, t.conns)
        BY <2>2 DEF Joined
      <3>7. JoinsStay(q, t.conns)
        <4> SUFFICES ASSUME NEW x \in Conns  PROVE JoinsStayAt(q, x, t.conns[x])
          BY DEF JoinsStay
        <4>1. CASE x = c BY <3>2, <3>4, <4>1 DEF JoinsStayAt
        <4>2. CASE x # c
          <5>1. JoinsStayAt(s.k, x, s.conns[x]) BY DEF Good, Calm, JoinsStay
          <5> QED BY <3>4, <4>2, <5>1 DEF JoinsStayAt
        <4> QED BY <4>1, <4>2
      <3> QED BY <2>2, <2>3, <3>1, <3>3, <3>5, <3>6, <3>7 DEF Good, Calm
    <2> QED BY <2>4, <2>5
  <1> QED BY <1>2, <1>3

LEMMA CloseIfGood ==
  ASSUME NEW s, Good(s), NEW c \in Conns \cup {None}
  PROVE  Good(CloseIf(s, c)) /\ CloseIf(s, c).k = s.k
  BY CloseGood DEF CloseIf

LEMMA LeaveGroupGood ==
  ASSUME NEW s, Good(s)
  PROVE  Good(LeaveGroup(s))
  <1> DEFINE t == CleanLeave(s)
             v == CloseIf(t, t.k.coordinatorRequest)
             u == CloseIf(v, t.k.groupConnection)
             no == FALSE
             q == [u.k EXCEPT !.groupId = NoGroup, !.joinInProgress = no]
             w == [u EXCEPT !.k = q]
  <1>1. Good(t)
    BY CleanLeaveGood
  <1>2. t.k.coordinatorRequest \in Conns \cup {None} /\ t.k.groupConnection \in Conns \cup {None}
    BY <1>1 DEF Good, Calm, SType, KType
  <1>3. Good(v) /\ v.k = t.k
    <2> HIDE DEF t
    <2> QED BY <1>1, <1>2, CloseIfGood
  <1>4. Good(u)
    <2> HIDE DEF t, v
    <2> QED BY <1>2, <1>3, CloseIfGood
  <1>5. LeaveGroup(s) = w
    BY <1>3 DEF LeaveGroup
  <1> HIDE DEF u
  <1>6. /\ q \in KType /\ q.coordinatorRequest = u.k.coordinatorRequest
        /\ q.groupConnection = u.k.groupConnection
        /\ q.alive = u.k.alive /\ q.heartbeat = u.k.heartbeat
    BY <1>4 DEF Good, Calm, SType, KType
  <1>7. Beating(q) /\ q.alive
    BY <1>4, <1>6 DEF Good, Calm, Beating
  <1> HIDE DEF q
  <1>8. Good(w)
    BY <1>4, <1>6, <1>7, MembersChange
  <1> QED BY <1>5, <1>8

(* joinGroup *)
LEMMA JoinGroupGood ==
  ASSUME NEW s, Good(s), NEW g \in Groups, NEW reached \in BOOLEAN
  PROVE  Good(JoinGroup(s, g, reached))
  <1> DEFINE a == IF s.k.groupId # g THEN LeaveGroup(s) ELSE s
             q == [a.k EXCEPT !.groupId = g]
             t == [a EXCEPT !.k = q]
  <1>1. JoinGroup(s, g, reached) = RejoinGroup(t, reached)
    BY DEF JoinGroup
  <1>2. Good(a)
    BY LeaveGroupGood
  <1> HIDE DEF a
  <1>3. /\ q \in KType /\ q.coordinatorRequest = a.k.coordinatorRequest
        /\ q.groupConnection = a.k.groupConnection
        /\ q.alive = a.k.alive /\ q.heartbeat = a.k.heartbeat
    BY <1>2 DEF Good, Calm, SType, KType
  <1>4. Beating(q) /\ q.alive
    BY <1>2, <1>3 DEF Good, Calm, Beating
  <1> HIDE DEF q
  <1>5. Good(t)
    BY <1>2, <1>3, <1>4, MembersChange
  <1> HIDE DEF t
  <1> QED BY <1>1, <1>5, RejoinGroupGood

----------------------------------------
(* Replies. *)

LEMMA ReadGroupCoordinatorGood ==
  ASSUME NEW s, Good(s), NEW c \in Conns, NEW ok \in BOOLEAN, NEW reached \in BOOLEAN
  PROVE  Good(ReadGroupCoordinator(s, c, ok, reached))
  <1>2. CASE ~(ok /\ reached /\ Free(s) # {})
    BY <1>2, CloseGood DEF ReadGroupCoordinator
  <1>3. CASE ok /\ reached /\ Free(s) # {}
    <2>0. PICK o : o = Orphan(s)
      OBVIOUS
    <2>8. Good(o) /\ o.k = s.k /\ LetGo(o) /\ Free(o) = Free(s)
      BY <2>0, OrphanGood
    <2>9. o \in SType /\ o.k \in KType
      BY <2>8 DEF Good, Calm, SType
    <2>1. PICK g \in Free(o) :
            ReadGroupCoordinator(s, c, ok, reached)
              = Close(DoJoin([Opened(o, g, "group") EXCEPT !.k.groupConnection = g]), c)
      <3> DEFINE g == CHOOSE x \in Free(s) : TRUE
      <3>1. g \in Free(o)
        BY <1>3, <2>8
      <3> QED BY <1>3, <2>0, <3>1 DEF ReadGroupCoordinator
    <2> DEFINE q == [o.k EXCEPT !.groupConnection = g]
               t == [o EXCEPT !.conns = [o.conns EXCEPT ![g] = Fresh("group")], !.k = q]
    <2>2. ReadGroupCoordinator(s, c, ok, reached) = Close(DoJoin(t), c)
      <3>1. [Opened(o, g, "group") EXCEPT !.k.groupConnection = g] = t
        BY <2>9 DEF Opened, SType
      <3> HIDE DEF t
      <3> QED BY <2>1, <3>1
    <2>3. g \in Conns
      BY DEF Free
    <2>4. /\ q \in KType /\ q.groupConnection = g
          /\ q.coordinatorRequest = o.k.coordinatorRequest
          /\ q.alive = o.k.alive /\ q.heartbeat = o.k.heartbeat
      BY <2>3, <2>9 DEF KType
    <2> HIDE DEF q
    <2>5. Good(t) /\ t.k = q
      <3>1. PICK kind \in {"group", "coordinator"} : kind = "group"
        OBVIOUS
      <3>2. t = Begun(o, g, kind, q)
        BY <3>1 DEF Begun
      <3>3. /\ kind = "coordinator" => q.coordinatorRequest = g /\ q.groupConnection = o.k.groupConnection
            /\ kind = "group" => /\ q.groupConnection = g
                                 /\ q.coordinatorRequest = o.k.coordinatorRequest /\ LetGo(o)
        BY <2>4, <2>8, <3>1
      <3>4. Good(o) /\ q.alive = o.k.alive /\ q.heartbeat = o.k.heartbeat /\ q \in KType /\ g \in Free(o)
        BY <2>4, <2>8
      <3> HIDE DEF t
      <3> QED BY ONLY <3>1, <3>2, <3>3, <3>4, OpenedGood
    <2>6. t.k.groupConnection = g /\ "join" \in Apis \ {"leave"}
      BY <2>4, <2>5 DEF Apis
    <2> HIDE DEF t
    <2>7. Good(DoJoin(t))
      BY <2>3, <2>5, <2>6, RequestGood DEF DoJoin
    <2> QED BY <2>2, <2>7, CloseGood
  <1> QED BY <1>2, <1>3

(* Whatever waits on a connection that answers a join: if the group has *)
(* none, it has been taken from this one. *)
LEMMA JoinReplyFair ==
  ASSUME NEW s, Good(s), NEW c \in Conns, NEW ok \in BOOLEAN, c = reading,
         s.k.groupConnection = None => Apart(s.conns[c])
  PROVE  Fair(JoinReply(s, c, ok))
  <1>1. s \in SType /\ s.k \in KType /\ s.conns \in [Conns -> CType] /\ c # None
    BY GroupAssumption DEF Good, Calm, SType
  <1>2. CASE ~ok
    <2>1. Good(JoinReply(s, c, ok)) BY <1>2, CloseGood DEF JoinReply
    <2> QED BY <2>1 DEF Good, Fair
  <1>3. CASE ok
    <2> DEFINE yes == TRUE
               no == FALSE
               beats == s.k.groupConnection # None
               q == [s.k EXCEPT !.memberId = yes]
               t == [s EXCEPT !.k = q]
               u == DoSync(t)
               w == [u.k EXCEPT !.heartbeat = beats]
               v == [u EXCEPT !.k = w]
    <2>1. JoinReply(s, c, ok) = v
      <3>1. [s EXCEPT !.k.memberId = TRUE] = t
        BY <1>1 DEF SType
      <3>2. JoinReply(s, c, ok)
              = [DoSync([s EXCEPT !.k.memberId = TRUE]) EXCEPT !.k.heartbeat = s.k.groupConnection # None]
        BY <1>3 DEF JoinReply
      <3> QED BY <3>1, <3>2
    <2>2. /\ q \in KType /\ q.coordinatorRequest = s.k.coordinatorRequest
          /\ q.groupConnection = s.k.groupConnection
          /\ q.alive = s.k.alive /\ q.heartbeat = s.k.heartbeat
      BY <1>1 DEF KType
    <2>3. Beating(q) /\ q.alive
      BY <2>2 DEF Good, Calm, Beating
    <2> HIDE DEF q
    <2>4. Good(t) /\ t.k = q /\ t.conns = s.conns
      BY <2>2, <2>3, MembersChange
    <2>5. t.k.groupConnection = s.k.groupConnection /\ "sync" \in Apis \ {"leave"}
          /\ s.k.groupConnection \in Conns \cup {None} /\ beats \in BOOLEAN
      BY <1>1, <2>2, <2>4 DEF KType, Apis
    <2> HIDE DEF t, beats
    <2>6. CASE s.k.groupConnection # None
      <3>1. u = Request(t, t.k.groupConnection, "sync")
        BY DEF DoSync
      <3> HIDE DEF u
      <3>2. Good(u) /\ u.k = t.k
        BY <2>4, <2>5, <2>6, <3>1, RequestGood
      <3>3. /\ w \in KType /\ w.coordinatorRequest = u.k.coordinatorRequest
            /\ w.groupConnection = u.k.groupConnection /\ w.alive = u.k.alive
        BY <2>5, <3>2 DEF Good, Calm, SType, KType
      <3>4. Beating(w) /\ w.alive
        BY <2>5, <2>6, <3>2, <3>3 DEF Good, Beating
      <3> HIDE DEF w
      <3>5. Good(v)
        BY <3>2, <3>3, <3>4, MembersChange
      <3> QED BY <2>1, <3>5 DEF Good, Fair
    <2>7. CASE s.k.groupConnection = None
      <3> DEFINE d == [q EXCEPT !.alive = no, !.heartbeat = no]
                 e == [t EXCEPT !.k = d]
      <3>1. t \in SType
        BY <2>4 DEF Good, Calm
      <3>2. beats = no
        BY <2>7 DEF beats
      <3>3. v = e
        <4>1. u = [t EXCEPT !.k.alive = FALSE]
          BY <2>5, <2>7 DEF DoSync, Request
        <4>2. u.k = [q EXCEPT !.alive = no] /\ u = [t EXCEPT !.k = [q EXCEPT !.alive = no]]
          BY <2>4, <3>1, <4>1 DEF SType
        <4> HIDE DEF u
        <4>3. v = [t EXCEPT !.k = [[q EXCEPT !.alive = no] EXCEPT !.heartbeat = no]]
          BY <3>1, <3>2, <4>2 DEF SType
        <4>4. [[q EXCEPT !.alive = no] EXCEPT !.heartbeat = no] = d
          BY <2>2 DEF KType
        <4> QED BY <4>3, <4>4
      <3>4. /\ d \in KType /\ d.coordinatorRequest = q.coordinatorRequest
            /\ d.groupConnection = None /\ ~d.heartbeat
        BY <2>2, <2>7 DEF KType
      <3> HIDE DEF d, v
      <3>5. e \in SType /\ e.k = d /\ e.conns = s.conns
        BY <2>4, <3>1, <3>4 DEF SType
      <3> HIDE DEF e
      <3>6. Asking(d, s.conns) /\ Joined(d, s.conns) /\ Beating(d)
        BY <2>2, <3>4 DEF Good, Calm, Asking, Joined, Beating
      <3>7. JoinsStay(d, s.conns)
        <4> SUFFICES ASSUME NEW x \in Conns  PROVE JoinsStayAt(d, x, s.conns[x])
          BY DEF JoinsStay
        <4>1. JoinsStayAt(s.k, x, s.conns[x]) BY DEF Good, Calm, JoinsStay
        <4> QED BY <2>7, <3>4, <4>1 DEF JoinsStayAt
      <3>8. reading # None /\ Apart(e.conns[reading])
        BY <1>1, <2>7, <3>5
      <3> QED BY <2>1, <3>3, <3>5, <3>6, <3>7, <3>8 DEF Fair, Calm
    <2> QED BY <2>6, <2>7
  <1> QED BY <1>2, <1>3

LEMMA CalledGood ==
  ASSUME NEW s, Good(s), NEW call \in Calls, NEW reached \in BOOLEAN
  PROVE  Good(Called(s, call, reached))
BY LeaveGroupGood, JoinGroupGood DEF Called, Calls

LEMMA SyncReplyGood ==
  ASSUME NEW s, Good(s), NEW c \in Conns, NEW ok \in BOOLEAN, NEW call \in Calls,
         NEW reached \in BOOLEAN
  PROVE  Good(SyncReply(s, c, ok, call, reached))
  <1>0. PICK a : a = Called(s, call, reached)
    OBVIOUS
  <1>6. Good(a)
    BY <1>0, CalledGood
  <1>1. a \in SType /\ a.k \in KType
    BY <1>6 DEF Good, Calm, SType
  <1> DEFINE no == FALSE
             q == [a.k EXCEPT !.joinInProgress = no]
             t == [a EXCEPT !.k = q]
  <1>2. SyncReply(s, c, ok, call, reached) = IF ok THEN t ELSE Close(t, c)
    <2> DEFINE z == [a EXCEPT !.k.joinInProgress = FALSE]
    <2>1. z = t
      BY <1>1 DEF SType
    <2>2. SyncReply(s, c, ok, call, reached) = IF ok THEN z ELSE Close(z, c)
      BY <1>0 DEF SyncReply
    <2> HIDE DEF z, t
    <2> QED BY <2>1, <2>2
  <1>3. /\ q \in KType /\ q.coordinatorRequest = a.k.coordinatorRequest
        /\ q.groupConnection = a.k.groupConnection
        /\ q.alive = a.k.alive /\ q.heartbeat = a.k.heartbeat
    BY <1>1 DEF KType
  <1>4. Beating(q) /\ q.alive
    BY <1>3, <1>6 DEF Good, Calm, Beating
  <1> HIDE DEF q
  <1>5. Good(t)
    BY <1>3, <1>4, <1>6, MembersChange
  <1> HIDE DEF t
  <1> QED BY <1>2, <1>5, CloseGood

(* The answer to the leave closes the connection. *)
LEMMA LeaveReplyGood ==
  ASSUME NEW s, Good(s), NEW c \in Conns, c # s.k.groupConnection, c = reading,
         NEW sent \in Seq(Req), Joining([s.conns[c] EXCEPT !.sent = sent]) => Joining(s.conns[c]),
         NEW z, z = [s EXCEPT !.conns = [s.conns EXCEPT ![c] = [s.conns[c] EXCEPT !.sent = sent]]]
  PROVE  Good(LeaveReply(z, c))
  <1>1. s \in SType /\ s.conns \in [Conns -> CType] /\ s.conns[c] \in CType
    BY DEF Good, Calm, SType
  <1> DEFINE yes == TRUE
             a == s.conns[c]
             phase == IF a.phase = "open" THEN "closing" ELSE a.phase
             marked == [a EXCEPT !.sent = sent, !.leaving = yes]
             r == [a EXCEPT !.sent = sent, !.leaving = yes, !.phase = phase]
             t == [s EXCEPT !.conns = [s.conns EXCEPT ![c] = r]]
             y == [s EXCEPT !.conns = [s.conns EXCEPT ![c] = marked]]
  <1>2. LeaveReply(z, c) = t
    <2>1. [z EXCEPT !.conns[c].leaving = TRUE] = y
      BY <1>1 DEF SType, CType
    <2>2. y.conns[c] = marked /\ marked.phase = a.phase
      BY <1>1 DEF SType, CType
    <2>3. LeaveReply(z, c) = Close(y, c)
      <3> HIDE DEF y
      <3> QED BY <2>1 DEF LeaveReply
    <2>4. CASE a.phase # "open"
      <3>1. r = marked
        BY <1>1, <2>4 DEF CType
      <3>2. Close(y, c) = y
        <4> HIDE DEF y, marked
        <4> QED BY <2>2, <2>4 DEF Close
      <3> QED BY <2>3, <3>1, <3>2
    <2>5. CASE a.phase = "open"
      <3>1. [marked EXCEPT !.phase = "closing"] = r
        BY <1>1, <2>5 DEF CType
      <3>2. Close(y, c) = [y EXCEPT !.conns[c].phase = "closing"]
        <4> HIDE DEF y, marked
        <4> QED BY <2>2, <2>5 DEF Close
      <3>3. [y EXCEPT !.conns[c].phase = "closing"]
              = [s EXCEPT !.conns = [s.conns EXCEPT ![c] = [marked EXCEPT !.phase = "closing"]]]
        <4> HIDE DEF marked
        <4> QED BY <1>1 DEF SType
      <3> HIDE DEF y, marked, r
      <3> QED BY <2>3, <3>1, <3>2, <3>3
    <2> QED BY <2>4, <2>5
  <1>3. phase \in {"open", "closing", "closed", "gone"} /\ (a.phase # "gone" => phase # "gone")
    BY <1>1 DEF CType
  <1>4. r \in CType /\ SameKind(a, r) /\ r.phase = phase /\ r.sent = sent
    <2> HIDE DEF phase
    <2> QED BY <1>1, <1>3 DEF CType, SameKind
  <1>5. SameUse(s.conns[c], r) \/ Spare(s, c, r)
    <2> HIDE DEF r
    <2> QED BY <1>4 DEF Spare
  <1>6. JoinsStayAt(s.k, c, r)
    <2>1. JoinsStayAt(s.k, c, a) BY DEF Good, Calm, JoinsStay
    <2>2. [a EXCEPT !.sent = sent].sent = sent BY <1>1 DEF CType
    <2>3. Joining(r) => Joining(a) BY <1>4, <2>2 DEF Joining
    <2>4. Joining(a) => phase = "closing" BY <2>1 DEF JoinsStayAt
    <2> HIDE DEF r, phase, a
    <2> QED BY <1>4, <2>3, <2>4 DEF JoinsStayAt, Apart
  <1>7. Good(s) /\ c \in Conns /\ r \in CType
    BY <1>4
  <1> HIDE DEF r
  <1>8. Good(t)
    BY ONLY <1>5, <1>6, <1>7, ConnChanges
  <1> HIDE DEF t
  <1> QED BY <1>2, <1>8

----------------------------------------
(* The actions. *)

LEMMA Becomes ==
  ASSUME NEW s, Good(s), Become(s)
  PROVE  Fair(State)'
  <1>1. s \in SType
    BY DEF Good, Calm
  <1>2. k' = s.k /\ conns' = s.conns
    BY DEF Become
  <1>3. State' = s
    BY <1>1, <1>2 DEF State, SType
  <1> QED BY <1>2, <1>3 DEF Good, Fair, Calm, State, Asking, Joined, Beating, JoinsStay

LEMMA BecomesFair ==
  ASSUME NEW s, Fair(s), Become(s), reading' = reading
  PROVE  Fair(State)'
  <1>1. s \in SType
    BY DEF Fair, Calm
  <1>2. k' = s.k /\ conns' = s.conns
    BY DEF Become
  <1>3. State' = s
    BY <1>1, <1>2 DEF State, SType
  <1> QED BY <1>2, <1>3 DEF Fair, Calm, State, Asking, Joined, Beating, JoinsStay

LEMMA ReplyKeeps ==
  ASSUME Good(State), NEW c \in Conns, Reply(c)
  PROVE  Fair(State)'
  <1>1. State \in SType /\ State.k = k /\ State.conns = conns /\ conns \in [Conns -> CType]
    BY DEF Good, Calm, SType, State
  <1> DEFINE a == conns[c]
             m == Head(a.sent)
             o == Tail(a.sent)
             e == [a EXCEPT !.sent = o]
             s == [State EXCEPT !.conns = [State.conns EXCEPT ![c] = e]]
  <1>2. a \in CType /\ a.sent \in Seq(Req) /\ a.sent # <<>> /\ c = reading /\ reading' = reading
    BY <1>1 DEF Reply, CType
  <1>3. /\ o \in Seq(Req) /\ Len(a.sent) \in Nat \ {0} /\ m = a.sent[1] /\ m \in Req
        /\ Len(o) = Len(a.sent) - 1
        /\ \A i \in 1 .. Len(o) : o[i] = a.sent[i + 1]
    <2> HIDE DEF a
    <2> QED BY <1>2
  <1>4. /\ e \in CType /\ SameUse(a, e) /\ (Joining(e) => Joining(a))
        /\ m.api # "leave" => (Apart(a) => Apart(e))
    <2>1. Stays(a.sent) => Stays(o)
      BY <1>3 DEF Stays
    <2> HIDE DEF o
    <2>2. /\ e = [a EXCEPT !.sent = o] /\ e.sent = o /\ e.phase = a.phase /\ e.orphan = a.orphan
      BY <1>2 DEF CType
    <2>3. e \in CType /\ SameUse(a, e)
      <3> HIDE DEF e, a
      <3> QED BY <1>2, <1>3, <2>1, <2>2 DEF CType, SameUse
    <2> HIDE DEF e
    <2>4. ASSUME Joining(e)  PROVE Joining(a)
      <3>1. PICK i \in 1 .. Len(o) : o[i].api = "join" BY <2>2, <2>4 DEF Joining
      <3>2. i + 1 \in 1 .. Len(a.sent) /\ a.sent[i + 1].api = "join" BY <1>3, <3>1
      <3> QED BY <3>2 DEF Joining
    <2>5. ASSUME m.api # "leave", Apart(a)  PROVE Apart(e)
      <3>1. CASE a.orphan \/ a.phase = "closing" BY <2>2, <3>1 DEF Apart
      <3>2. CASE \E i \in 1 .. Len(a.sent) : a.sent[i].api = "leave"
        <4>1. PICK i \in 1 .. Len(a.sent) : a.sent[i].api = "leave" BY <3>2
        <4>2. i # 1 BY <1>3, <2>5, <4>1
        <4>3. i - 1 \in 1 .. Len(o) /\ (i - 1) + 1 = i BY <1>3, <4>2
        <4>4. o[i - 1].api = "leave" BY <1>3, <4>1, <4>3
        <4> QED BY <2>2, <4>3, <4>4 DEF Apart
      <3> QED BY <2>5, <3>1, <3>2 DEF Apart
    <2> QED BY <2>3, <2>4, <2>5
  <1>5. m.api # "leave" => Good(s) /\ s.k = k /\ s.conns = [conns EXCEPT ![c] = e]
    <2> SUFFICES ASSUME m.api # "leave"  PROVE Good(s) /\ s.k = k /\ s.conns = [conns EXCEPT ![c] = e]
      OBVIOUS
    <2>1. SameUse(State.conns[c], e) \/ Spare(State, c, e)
      BY <1>1, <1>4
    <2>2. e \in CType /\ Good(State) /\ c \in Conns
      BY <1>4
    <2>5. JoinsStayAt(State.k, c, e)
      <3>1. JoinsStayAt(k, c, a) BY <1>1 DEF Good, Calm, JoinsStay
      <3>2. e.phase = a.phase BY <1>2 DEF CType
      <3> HIDE DEF e, a
      <3> QED BY <1>1, <1>4, <3>1, <3>2 DEF JoinsStayAt
    <2> HIDE DEF e
    <2>3. Good(s)
      BY ONLY <2>1, <2>2, <2>5, ConnChanges
    <2>4. s.k = State.k
      BY ONLY <2>1, <2>2, <2>5, ConnChanges
    <2>6. s.conns = [State.conns EXCEPT ![c] = e]
      BY ONLY <2>1, <2>2, <2>5, ConnChanges
    <2> QED BY <1>1, <2>3, <2>4, <2>6
  <1>6. m.api = "leave" => c # k.groupConnection
    <2>1. c = k.groupConnection => Stays(a.sent)
      BY <1>1, GroupAssumption DEF Good, Calm, Joined
    <2> QED BY <1>3, <2>1 DEF Stays
  <1>7. PICK ok \in BOOLEAN, reached \in BOOLEAN, call \in Calls :
          Become(Handled(s, c, m, ok, call, reached))
    <2>1. [State EXCEPT !.conns[c].sent = Tail(@)] = s
      BY <1>1 DEF SType
    <2> DEFINE z == [State EXCEPT !.conns[c].sent = Tail(@)]
    <2>2. \E ok, reached \in BOOLEAN, call \in Calls : Become(Handled(z, c, m, ok, call, reached))
      BY DEF Reply
    <2> HIDE DEF z, s, m
    <2> QED BY <2>1, <2>2 DEF z
  <1>9. m.api = "join" => (k.groupConnection = None => Apart(e))
    <2>1. m.api = "join" => Joining(a)
      <3>1. 1 \in 1 .. Len(a.sent) BY <1>3
      <3> QED BY <1>3, <3>1 DEF Joining
    <2>2. JoinsStayAt(k, c, a) BY <1>1 DEF Good, Calm, JoinsStay
    <2> HIDE DEF a, m, e
    <2> QED BY <1>4, <2>1, <2>2, GroupAssumption DEF JoinsStayAt
  <1>10. m.api = "leave" => Good(LeaveReply(s, c))
    <2> SUFFICES ASSUME m.api = "leave"  PROVE Good(LeaveReply(s, c))
      OBVIOUS
    <2>1. State.conns[c] = a /\ c # State.k.groupConnection /\ c = reading
      BY <1>1, <1>2, <1>6
    <2>2. Joining([State.conns[c] EXCEPT !.sent = o]) => Joining(State.conns[c])
      BY <1>1, <1>4
    <2>3. s = [State EXCEPT !.conns = [State.conns EXCEPT ![c] = [State.conns[c] EXCEPT !.sent = o]]]
      BY <1>1
    <2>4. o \in Seq(Req) /\ Good(State) /\ c \in Conns
      BY <1>3
    <2> HIDE DEF s, o, a
    <2> QED BY ONLY <2>1, <2>2, <2>3, <2>4, LeaveReplyGood
  <1>11. m.api # "leave" => s.conns[c] = e
    BY <1>1, <1>5
  <1> HIDE DEF s, m, e
  <1>8. Fair(Handled(s, c, m, ok, call, reached))
    <2>1. m.api \in Apis
      BY <1>3 DEF Req
    <2> USE DEF Fair
    <2>2. CASE m.api = "coordinator"
      <3>1. Good(ReadGroupCoordinator(s, c, ok, reached)) BY <1>5, <2>2, ReadGroupCoordinatorGood
      <3> QED BY <2>2, <3>1 DEF Handled, Good
    <2>3. CASE m.api = "join"
      <3>1. Good(s) /\ (s.k.groupConnection = None => Apart(s.conns[c])) /\ c = reading
        BY <1>2, <1>5, <1>9, <1>11, <2>3
      <3>2. Fair(JoinReply(s, c, ok))
        BY <3>1, JoinReplyFair
      <3> QED BY <2>3, <3>2 DEF Handled
    <2>4. CASE m.api = "sync"
      <3>1. Good(SyncReply(s, c, ok, call, reached)) BY <1>5, <2>4, SyncReplyGood
      <3> QED BY <2>4, <3>1 DEF Handled, Good
    <2>5. CASE m.api = "leave"
      BY <1>10, <2>5 DEF Handled, Good
    <2>6. CASE m.api = "heartbeat"
      <3>1. Good(s) /\ Good(RejoinGroup(s, reached)) BY <1>5, <2>6, RejoinGroupGood
      <3> QED BY <2>6, <3>1 DEF Handled, Good
    <2> QED BY <2>1, <2>2, <2>3, <2>4, <2>5, <2>6 DEF Apis
  <1> QED BY <1>2, <1>7, <1>8, BecomesFair

(* The timer of a second that joins again. *)
LEMMA SingleShotGood ==
  ASSUME NEW s, Good(s)
  PROVE  /\ Good(SingleShot(s))
         /\ SingleShot(s).k.groupConnection = s.k.groupConnection
         /\ SingleShot(s).k.coordinatorRequest = s.k.coordinatorRequest
  <1> DEFINE n == IF s.k.rejoins < MaxTimers THEN s.k.rejoins + 1 ELSE s.k.rejoins
             q == [s.k EXCEPT !.rejoins = n]
             t == [s EXCEPT !.k = q]
  <1>1. s \in SType /\ s.k \in KType
    BY DEF Good, Calm, SType
  <1>2. n \in Int
    BY <1>1 DEF KType
  <1>3. SingleShot(s) = t
    BY <1>1 DEF SingleShot, SType
  <1> HIDE DEF n
  <1>4. /\ q \in KType /\ q.coordinatorRequest = s.k.coordinatorRequest
        /\ q.groupConnection = s.k.groupConnection
        /\ q.alive = s.k.alive /\ q.heartbeat = s.k.heartbeat
    BY <1>1, <1>2 DEF KType
  <1>5. Beating(q) /\ q.alive
    BY <1>4 DEF Good, Calm, Beating
  <1> HIDE DEF q
  <1>6. Good(t) /\ t.k = q
    BY <1>4, <1>5, MembersChange
  <1> QED BY <1>3, <1>4, <1>6

(* A connection that is gone. *)
LEMMA GoneIs == Gone \in CType /\ ~Joining(Gone)
  <1> DEFINE e == <<>>
             f == FALSE
  <1>1. e \in Seq(Req) /\ 1 .. Len(e) = {} /\ f \in BOOLEAN
    OBVIOUS
  <1>2. Gone = [phase |-> "gone", kind |-> "group", leaving |-> f, sent |-> e, orphan |-> f]
    BY DEF Gone
  <1> HIDE DEF e, f
  <1>3. Gone.sent = e BY <1>2
  <1> QED BY <1>1, <1>2, <1>3 DEF CType, Joining

LEMMA ReadsEndKeep ==
  ASSUME Good(State), NEW c \in Conns, Reads(c) \/ EndRead(c) \/ Breaks(c)
  PROVE  Fair(State)'
  <1>1. State.k = k /\ State.conns = conns /\ conns \in [Conns -> CType]
    BY DEF Good, Calm, SType, State
  <1>2. k' = k
    BY DEF Reads, EndRead, Breaks
  <1>3. CASE conns' = conns
    <2>1. Become(State) BY <1>1, <1>2, <1>3 DEF Become
    <2> QED BY <2>1, Becomes
  <1>4. CASE conns' # conns
    <2> DEFINE r == Silent(conns[c])
               t == [State EXCEPT !.conns = [State.conns EXCEPT ![c] = r]]
    <2>1. conns' = [conns EXCEPT ![c] = r] /\ conns[c].phase \in {"closing", "open"}
      BY <1>4 DEF Reads, EndRead, Breaks
    <2>2. r \in CType /\ SameUse(conns[c], r) /\ ~Joining(r)
      BY <1>1, <2>1, SilentUse
    <2>7. JoinsStayAt(State.k, c, r)
      BY <2>2 DEF JoinsStayAt
    <2>3. SameUse(State.conns[c], r) \/ Spare(State, c, r)
      BY <1>1, <2>2
    <2>4. Good(State) /\ c \in Conns
      OBVIOUS
    <2> HIDE DEF r
    <2>5. Good(t)
      BY ONLY <2>2, <2>3, <2>4, <2>7, ConnChanges
    <2>6. t.k = k' /\ t.conns = conns'
      BY <1>1, <1>2, <2>1 DEF State
    <2> HIDE DEF t
    <2> QED BY <2>5, <2>6, Becomes DEF Become
  <1> QED BY <1>3, <1>4

(* The callback closed() of a connection, which deletes it. *)
LEMMA ClosedKeeps ==
  ASSUME Good(State), NEW c \in Conns, Closed(c)
  PROVE  Fair(State)'
  <1>1. /\ State \in SType /\ State.k = k /\ State.conns = conns
        /\ conns \in [Conns -> CType] /\ k \in KType /\ c # None
    BY GroupAssumption DEF Good, Calm, SType, State
  <1>2. conns[c].phase = "closed" /\ conns[c].kind \in {"group", "coordinator"}
    BY <1>1 DEF Closed, CType
  <1> DEFINE s == IF conns[c].kind = "coordinator" THEN CoordinatorClosed(State) ELSE GroupClosed(State, c)
  <1>3. Asking(k, conns) /\ Joined(k, conns) /\ Beating(k) /\ k.alive
    BY <1>1 DEF Good, Calm
  <1>5. Good(s) /\ c # s.k.groupConnection /\ c # s.k.coordinatorRequest
    <2>2. CASE conns[c].kind = "coordinator"
      <3> DEFINE t == [k EXCEPT !.coordinatorRequest = None]
                 z == [State EXCEPT !.k = t]
      <3>1. /\ t \in KType /\ t.coordinatorRequest = None /\ t.groupConnection = k.groupConnection
            /\ t.alive = k.alive /\ t.heartbeat = k.heartbeat
        BY <1>1 DEF KType
      <3>2. Beating(t) /\ t.alive
        BY <1>3, <3>1 DEF Beating
      <3> HIDE DEF t
      <3>3. Good(z) /\ z.k = t
        BY <1>1, <3>1, <3>2, MembersChange
      <3>7. s = z \/ s = SingleShot(z)
        <4> DEFINE y == [State EXCEPT !.k.coordinatorRequest = None]
        <4>1. s = CoordinatorClosed(State)
          BY <2>2
        <4>2. y = z
          BY <1>1 DEF SType, t
        <4>3. CoordinatorClosed(State) \in {y, SingleShot(y)}
          BY DEF CoordinatorClosed
        <4> HIDE DEF y, z, s
        <4> QED BY <4>1, <4>2, <4>3
      <3>5. c # k.groupConnection
        BY <1>1, <1>3, <2>2 DEF Joined
      <3> HIDE DEF z, s
      <3> QED BY <1>1, <3>1, <3>3, <3>5, <3>7, SingleShotGood
    <2>3. CASE conns[c].kind = "group" /\ conns[c].leaving
      <3>1. s = State
        BY <1>1, <2>3 DEF GroupClosed
      <3>2. c # k.groupConnection /\ c # k.coordinatorRequest
        BY <1>1, <1>3, <2>3 DEF Asking, Joined
      <3> HIDE DEF s
      <3> QED BY <1>1, <3>1, <3>2
    <2>4. CASE conns[c].kind = "group" /\ ~conns[c].leaving
      <3>0. PICK o : o = Orphan(State)
        OBVIOUS
      <3>9. Good(o) /\ o.k = k /\ LetGo(o) /\ o \in SType
        BY <1>1, <3>0, OrphanGood DEF Good, Calm
      <3> DEFINE no == FALSE
                 t == [k EXCEPT !.heartbeat = no, !.groupConnection = None]
                 z == [o EXCEPT !.k = t]
      <3>1. /\ t \in KType /\ t.coordinatorRequest = k.coordinatorRequest /\ t.groupConnection = None
            /\ ~t.heartbeat /\ t.alive
        BY <1>1, <1>3 DEF KType
      <3>2. Beating(t)
        BY <3>1 DEF Beating
      <3> HIDE DEF t
      <3>3. Good(z) /\ z.k = t
        BY <3>1, <3>2, <3>9, MembersChange
      <3>7. s = z \/ s = SingleShot(z)
        <4> DEFINE y == [o EXCEPT !.k.heartbeat = FALSE, !.k.groupConnection = None]
        <4>1. s = GroupClosed(State, c)
          BY <2>4
        <4>2. y = z
          BY <3>9 DEF SType, t
        <4>3. GroupClosed(State, c) \in {y, SingleShot(y)}
          BY <1>1, <2>4, <3>0 DEF GroupClosed
        <4> HIDE DEF y, z, s
        <4> QED BY <4>1, <4>2, <4>3
      <3>5. c # k.coordinatorRequest
        BY <1>1, <1>3, <2>4 DEF Asking
      <3> HIDE DEF z, s
      <3> QED BY <1>1, <3>1, <3>3, <3>5, <3>7, SingleShotGood
    <2> QED BY <1>2, <2>2, <2>3, <2>4
  <1>4. Become([s EXCEPT !.conns[c] = Gone])
    BY DEF Closed
  <1> HIDE DEF s
  <1> DEFINE r == Gone
             t == [s EXCEPT !.conns = [s.conns EXCEPT ![c] = r]]
  <1>6. Gone \in CType /\ ~Joining(Gone)
    BY GoneIs
  <1>7. Spare(s, c, r) /\ JoinsStayAt(s.k, c, r)
    BY <1>5, <1>6 DEF Spare, JoinsStayAt
  <1>8. Become(t)
    BY <1>4
  <1>9. r \in CType /\ c \in Conns
    BY <1>6
  <1> HIDE DEF r
  <1>10. SameUse(s.conns[c], r) \/ Spare(s, c, r)
    BY <1>7
  <1>11. Good(s) /\ JoinsStayAt(s.k, c, r)
    BY <1>5, <1>7
  <1>12. Good(t)
    BY ONLY <1>9, <1>10, <1>11, ConnChanges
  <1> HIDE DEF t
  <1> QED BY <1>8, <1>12, Becomes

LEMMA UserJoinsKeeps ==
  ASSUME Good(State), NEW g \in Groups, UserJoins(g)
  PROVE  Fair(State)'
  <1>1. PICK reached \in BOOLEAN : Become(JoinGroup(State, g, reached))
    BY DEF UserJoins
  <1> QED BY <1>1, JoinGroupGood, Becomes

LEMMA TimersKeep ==
  ASSUME Good(State), Rejoin \/ SendGroupHeartBeat
  PROVE  Fair(State)'
  <1>0. /\ State \in SType /\ State.k = k /\ State.conns = conns
        /\ conns \in [Conns -> CType] /\ k \in KType
    BY DEF Good, Calm, SType, State
  <1>1. CASE Rejoin
    <2> DEFINE q == [k EXCEPT !.rejoins = k.rejoins - 1]
               t == [State EXCEPT !.k = q]
    <2>1. PICK reached \in BOOLEAN : Become(RejoinGroup(t, reached))
      <3> DEFINE z == [State EXCEPT !.k.rejoins = @ - 1]
      <3>1. z = t
        BY <1>0 DEF SType
      <3>2. \E reached \in BOOLEAN : Become(RejoinGroup(z, reached))
        BY <1>1 DEF Rejoin
      <3> HIDE DEF z, t
      <3> QED BY <3>1, <3>2
    <2>2. /\ q \in KType /\ q.coordinatorRequest = k.coordinatorRequest
          /\ q.groupConnection = k.groupConnection
          /\ q.alive = k.alive /\ q.heartbeat = k.heartbeat
      BY <1>0 DEF KType
    <2>3. Beating(q) /\ q.alive
      BY <1>0, <2>2 DEF Good, Calm, Beating
    <2> HIDE DEF q
    <2>4. Good(t)
      BY <1>0, <2>2, <2>3, MembersChange
    <2> HIDE DEF t
    <2> QED BY <2>1, <2>4, RejoinGroupGood, Becomes
  <1>2. CASE SendGroupHeartBeat
    <2>1. Become(Request(State, k.groupConnection, "heartbeat"))
      BY <1>2 DEF SendGroupHeartBeat
    <2>2. k.groupConnection \in Conns /\ "heartbeat" \in Apis \ {"leave"} /\ "heartbeat" # "join"
      BY <1>0, <1>2 DEF KType, Apis, SendGroupHeartBeat, Good, Calm, Beating
    <2>3. Good(Request(State, k.groupConnection, "heartbeat"))
      BY <2>2, RequestGood
    <2> QED BY <2>1, <2>3, Becomes
  <1> QED BY <1>1, <1>2

(* Whatever the user asks, also from what he is told, and the brokers *)
(* answer, in any order and for any number of groups and connections: no *)
(* pointer is left to a connection that has deleted itself, a heart beat *)
(* has a connection, and the null pointer is used only where a connection *)
(* that the group no longer has answers a join. *)
THEOREM PointersLiveHolds == KafkaSpec => []PointersLive
<1>1. KafkaInit => Fair(State)
  <2> SUFFICES ASSUME KafkaInit PROVE Fair(State)
    OBVIOUS
  <2>1. Gone \in CType /\ ~Joining(Gone)
    BY GoneIs
  <2>2. conns \in [Conns -> CType] /\ \A c \in Conns : conns[c] = Gone
    BY <2>1 DEF KafkaInit
  <2>3. k \in KType
    BY DEF KafkaInit, KType
  <2>4. k.coordinatorRequest = None /\ k.groupConnection = None /\ ~k.heartbeat /\ k.alive
    BY DEF KafkaInit
  <2>5. JoinsStay(k, conns)
    BY <2>1, <2>2 DEF JoinsStay, JoinsStayAt
  <2> QED BY <2>2, <2>3, <2>4, <2>5 DEF Fair, Calm, State, SType, Asking, Joined, Beating
<1>2. Fair(State) /\ [KafkaNext]_kvars => Fair(State)'
  <2> SUFFICES ASSUME Fair(State), [KafkaNext]_kvars PROVE Fair(State)'
    OBVIOUS
  <2>0. KafkaNext => Good(State)
    BY DEF KafkaNext, Fair, Good, State
  <2>1. ASSUME Good(State), NEW g \in Groups, UserJoins(g) PROVE Fair(State)'
    BY <2>1, UserJoinsKeeps
  <2>2. ASSUME Good(State), UserLeaves PROVE Fair(State)'
    <3>1. Become(LeaveGroup(State))
      BY <2>2 DEF UserLeaves
    <3> QED BY <2>2, <3>1, LeaveGroupGood, Becomes
  <2>3. ASSUME Good(State), Rejoin \/ SendGroupHeartBeat PROVE Fair(State)'
    BY <2>3, TimersKeep
  <2>4. ASSUME Good(State), NEW c \in Conns, Reads(c) \/ EndRead(c) \/ Breaks(c) PROVE Fair(State)'
    BY <2>4, ReadsEndKeep
  <2>5. ASSUME Good(State), NEW c \in Conns, Reply(c) PROVE Fair(State)'
    BY <2>5, ReplyKeeps
  <2>6. ASSUME Good(State), NEW c \in Conns, Closed(c) PROVE Fair(State)'
    BY <2>6, ClosedKeeps
  <2>7. CASE UNCHANGED kvars
    BY <2>7 DEF kvars, Fair, Calm, State, Asking, Joined, Beating, JoinsStay
  <2> QED BY <2>0, <2>1, <2>2, <2>3, <2>4, <2>5, <2>6, <2>7 DEF KafkaNext
<1>3. Fair(State) => PointersLive
  <2>1. State.k = k /\ State.conns = conns
    BY DEF State
  <2> QED BY <2>1 DEF Fair, Calm, Asking, Joined, Beating, PointersLive
<1> QED BY <1>1, <1>2, <1>3, PTL DEF KafkaSpec
----------------------------------------
(* Schema migration.  What a program goes by may be older than the table, *)
(* but unless its reading broke off it never says less than what `missed` *)
(* adds to it: that is what makes a second commit of a revision a blind *)
(* one. *)

Has(d, r) == d.held[r] > 0

Table(d) ==
  /\ \A r \in Revisions : d.row[r] = "done" <=> Has(d, r)
  /\ \A r \in Revisions : d.held[r] % Pieces = 0
  /\ \A r, s \in Revisions : s < r /\ Has(d, r) => Has(d, s)
  /\ \A r \in d.lost : \A s \in Revisions : s < r => Has(d, s)
  /\ (\E r \in Revisions : Has(d, r)) \/ d.lost # {} => d.table

Knows(d, u) == u.cut \/ \A r \in Revisions : Has(d, r) => r \in u.existing \cup u.missed

Progress(d, u) ==
  /\ \A r \in u.existing : Has(d, r)
  /\ \A r \in Revisions : r < u.rev => Has(d, r)
  /\ u.pc = "true" => \A r \in Revisions : Has(d, r)
  /\ u.pc \in {"begin", "pieces", "commit"} => u.rev \in Revisions \ u.existing
  /\ ~u.spoiled /\ ~u.marked => u.work = u.piece
  /\ u.pc = "commit" => ~u.spoiled /\ ~u.marked /\ u.piece = Pieces
  /\ u.pc \in {"next", "begin", "pieces", "commit"} => d.table /\ Knows(d, u)

Database == [table: BOOLEAN, row: [Revisions -> {"none", "noted", "done"}],
             held: [Revisions -> Nat], lost: SUBSET Revisions]
Program ==
  [pc: {"idle", "read", "create", "next", "begin", "pieces", "commit", "true", "false"},
   rev: 1 .. Last + 1, existing: SUBSET Revisions, work: Nat,
   piece: 0 .. Pieces, spoiled: BOOLEAN, marked: BOOLEAN, missed: SUBSET Revisions, cut: BOOLEAN]

SchemaInv ==
  /\ db \in Database /\ up \in [Updaters -> Program]
  /\ Table(db) /\ \A p \in Updaters : Progress(db, up[p])

(* What is whole stays whole with a whole revision more. *)
LEMMA NoPart ==
  ASSUME NEW x \in Int, NEW size \in Nat \ {0}, 0 <= size * x, size * x < size
  PROVE  x = 0
  OBVIOUS

LEMMA Split ==
  ASSUME NEW n \in Nat, NEW size \in Nat \ {0}
  PROVE  /\ n \div size \in Int /\ n % size \in Int
         /\ n = size * (n \div size) + (n % size) /\ 0 <= n % size /\ n % size < size
  OBVIOUS

LEMMA Distr ==
  ASSUME NEW a \in Int, NEW o \in Int, NEW size \in Int
  PROVE  size * a + size - size * o = size * (a + 1 - o)
  OBVIOUS

LEMMA OneMoreTime ==
  ASSUME NEW n \in Nat, NEW size \in Nat \ {0}, n % size = 0
  PROVE  (n + size) % size = 0
  <1> DEFINE a == n \div size  o == (n + size) \div size r == (n + size) % size
  <1>1. a \in Int /\ n = size * a
    BY Split
  <1>2. o \in Int /\ r \in Int /\ n + size = size * o + r /\ 0 <= r /\ r < size
    BY Split
  <1> HIDE DEF a, o, r
  <1>3. r = size * (a + 1 - o)
    BY <1>1, <1>2, Distr
  <1>4. a + 1 - o = 0
    BY <1>1, <1>2, <1>3, NoPart
  <1>5. r = 0
    BY <1>3, <1>4
  <1> QED BY <1>5 DEF r

(* A step of one program that leaves the database alone. *)
LEMMA Moves ==
  ASSUME SchemaInv, NEW p \in Updaters, NEW u \in Program, Progress(db, u),
         UNCHANGED db, up' = [up EXCEPT ![p] = u]
  PROVE  SchemaInv'
  <1>1. up' \in [Updaters -> Program] /\ \A q \in Updaters : up'[q] = IF q = p THEN u ELSE up[q]
    BY DEF SchemaInv
  <1> QED BY <1>1 DEF SchemaInv

(* Nothing the programs know is lost when the database gets more. *)
LEMMA MoreKnown ==
  ASSUME NEW d \in Database, NEW e \in Database, NEW u \in Program, Progress(d, u),
         d.table => e.table, \A r \in Revisions : Has(d, r) <=> Has(e, r)
  PROVE  Progress(e, u)
  BY DEF Progress, Knows, Program

(* A program that is at the beginning or at the end. *)
LEMMA Starts ==
  ASSUME SchemaInv, NEW rv \in {"read", "idle", "false"}
  PROVE  Return(rv) \in Program /\ Progress(db, Return(rv)) /\ Idle \in Program
  <1>1. Idle \in Program /\ Idle.rev = 1 /\ Idle.existing = {} /\ Idle.work = Idle.piece
    BY SchemaAssumption DEF Program, Idle
  <1> HIDE DEF Idle
  <1>2. /\ Return(rv) \in Program /\ Return(rv).rev = 1 /\ Return(rv).existing = {}
        /\ Return(rv).pc = rv /\ Return(rv).work = Return(rv).piece
    BY <1>1 DEF Return, Program
  <1> QED BY <1>1, <1>2, SchemaAssumption DEF Progress, Revisions

LEMMA FailsKeeps ==
  ASSUME SchemaInv, NEW p \in Updaters, NEW rv \in {"read", "idle", "false"},
         Returns(p, rv), UNCHANGED db
  PROVE  SchemaInv'
  BY Starts, Moves DEF Returns

LEMMA GoesKeeps ==
  ASSUME SchemaInv, NEW p \in Updaters, NEW pc \in {"create", "next", "begin", "pieces", "commit"},
         Goes(p, pc), UNCHANGED db, Progress(db, [up[p] EXCEPT !.pc = pc])
  PROVE  SchemaInv'
  <1>1. [up[p] EXCEPT !.pc = pc] \in Program
    BY DEF SchemaInv, Program
  <1>2. up' = [up EXCEPT ![p] = [up[p] EXCEPT !.pc = pc]]
    BY DEF Goes, SchemaInv
  <1> QED BY <1>1, <1>2, Moves

LEMMA ReadRevisionsKeeps ==
  ASSUME SchemaInv, NEW p \in Updaters, ReadRevisions(p)
  PROVE  SchemaInv'
  <1>1. CASE Goes(p, "create") /\ UNCHANGED db
    <2>1. Progress(db, [up[p] EXCEPT !.pc = "create"])
      BY <1>1 DEF SchemaInv, Progress, Program
    <2> QED BY <1>1, <2>1, GoesKeeps
  <1>2. ASSUME db.table, UNCHANGED db, NEW read \in SUBSET Done, NEW cut \in BOOLEAN, cut = (read # Done),
               up' = [up EXCEPT ![p].pc = "next", ![p].existing = read, ![p].cut = cut]
        PROVE  SchemaInv'
    <2> DEFINE u == [up[p] EXCEPT !.pc = "next", !.existing = read, !.cut = cut]
    <2>1. up[p] \in Program /\ Progress(db, up[p]) /\ Table(db) /\ read \in SUBSET Revisions
      BY DEF SchemaInv, Done
    <2>2. /\ u \in Program /\ u.pc = "next" /\ u.rev = up[p].rev /\ u.existing = read /\ u.cut = cut
          /\ u.missed = up[p].missed /\ u.work = up[p].work /\ u.piece = up[p].piece
          /\ u.spoiled = up[p].spoiled /\ u.marked = up[p].marked
      BY <2>1 DEF Program
    <2>3. up' = [up EXCEPT ![p] = u]
      BY <1>2 DEF SchemaInv
    <2> HIDE DEF u
    <2>4. Knows(db, u)
      <3>1. CASE cut
        BY <2>2, <3>1 DEF Knows
      <3>2. CASE ~cut
        <4>1. \A r \in Revisions : Has(db, r) => r \in read
          BY <1>2, <2>1, <3>2 DEF Table, Done
        <4> QED BY <2>2, <4>1 DEF Knows
      <3> QED BY <3>1, <3>2
    <2>5. \A r \in u.existing : Has(db, r)
      BY <2>1, <2>2 DEF Table, Done
    <2>6. ~u.spoiled /\ ~u.marked => u.work = u.piece
      BY <2>1, <2>2, Zenon DEF Progress
    <2>7. Progress(db, u)
      <3>1. \A r \in Revisions : r < u.rev => Has(db, r)
        BY <2>1, <2>2 DEF Progress
      <3> QED BY <1>2, <2>2, <2>4, <2>5, <2>6, <3>1 DEF Progress
    <2> QED BY <1>2, <2>2, <2>3, <2>7, Moves
  <1> QED
    <2>1. ASSUME NEW read \in SUBSET Done, db.table, UNCHANGED db,
                 up' = [up EXCEPT ![p].pc = "next", ![p].existing = read, ![p].cut = (read # Done)]
          PROVE  SchemaInv'
      <3>1. PICK cut \in BOOLEAN : cut = (read # Done)
        OBVIOUS
      <3> QED BY <1>2, <2>1, <3>1
    <2> QED BY <1>1, <2>1 DEF ReadRevisions

LEMMA CreateTableKeeps ==
  ASSUME SchemaInv, NEW p \in Updaters, CreateTable(p)
  PROVE  SchemaInv'
  <1>1. CASE Fails(p)
    BY <1>1, FailsKeeps DEF Fails
  <1>2. CASE ~db.table /\ db' = [db EXCEPT !.table = TRUE] /\ Goes(p, "next")
    <2>1. db' \in Database /\ db'.row = db.row /\ db'.held = db.held /\ db'.lost = db.lost /\ db'.table
      BY <1>2 DEF SchemaInv, Database
    <2>2. Table(db') /\ \A r \in Revisions : Has(db, r) <=> Has(db', r)
      BY <2>1 DEF SchemaInv, Table, Has
    <2>3. \A r \in Revisions : ~Has(db, r)
      BY <1>2 DEF SchemaInv, Table
    <2>4. \A q \in Updaters : Progress(db', up[q])
      BY <2>1, <2>2, MoreKnown DEF SchemaInv
    <2>5. up' \in [Updaters -> Program] /\ \A q \in Updaters : up'[q] = IF q = p THEN [up[p] EXCEPT !.pc = "next"] ELSE up[q]
      BY <1>2 DEF Goes, SchemaInv, Program
    <2>6. Progress(db', [up[p] EXCEPT !.pc = "next"])
      BY <2>1, <2>2, <2>3, <2>4 DEF Progress, Knows, Program, SchemaInv
    <2> QED BY <2>1, <2>2, <2>4, <2>5, <2>6 DEF SchemaInv
  <1> QED BY <1>1, <1>2 DEF CreateTable

LEMMA SkipKeeps ==
  ASSUME SchemaInv, NEW p \in Updaters, Skip(p)
  PROVE  SchemaInv'
  <1> DEFINE u == [up[p] EXCEPT !.rev = up[p].rev + 1]
  <1>1. u \in Program
    BY SchemaAssumption DEF Skip, SchemaInv, Program
  <1>2. up' = [up EXCEPT ![p] = u]
    BY DEF Skip, SchemaInv
  <1>3. Progress(db, u)
    BY SchemaAssumption DEF Skip, SchemaInv, Progress, Knows, Program, Revisions, At
  <1> QED BY <1>1, <1>2, <1>3, Moves DEF Skip

LEMMA InsertRevisionKeeps ==
  ASSUME SchemaInv, NEW p \in Updaters, InsertRevision(p)
  PROVE  SchemaInv'
  <1> DEFINE r == up[p].rev
  <1>1. CASE Fails(p)
    BY <1>1, FailsKeeps DEF Fails
  <1>2. CASE /\ db' = [db EXCEPT !.row[r] = IF @ = "none" THEN "noted" ELSE @]
             /\ Goes(p, "begin")
    <2>1. r \in Revisions /\ At(p, "next") /\ r \notin up[p].existing /\ up[p] \in Program
      BY SchemaAssumption DEF InsertRevision, SchemaInv, Program, Revisions
    <2>2. /\ db' \in Database /\ db'.held = db.held /\ db'.lost = db.lost /\ db'.table = db.table
          /\ \A s \in Revisions : db'.row[s] = "done" <=> db.row[s] = "done"
      BY <1>2, <2>1 DEF SchemaInv, Database
    <2>3. Table(db') /\ \A s \in Revisions : Has(db, s) <=> Has(db', s)
      BY <2>2 DEF SchemaInv, Table, Has
    <2>4. \A q \in Updaters : Progress(db', up[q])
      BY <2>2, <2>3, MoreKnown DEF SchemaInv
    <2>5. up' \in [Updaters -> Program] /\ \A q \in Updaters : up'[q] = IF q = p THEN [up[p] EXCEPT !.pc = "begin"] ELSE up[q]
      BY <1>2 DEF Goes, SchemaInv, Program
    <2>6. Progress(db', [up[p] EXCEPT !.pc = "begin"])
      BY <2>1, <2>4 DEF Progress, Knows, Program, At
    <2> QED BY <2>2, <2>3, <2>4, <2>5, <2>6 DEF SchemaInv
  <1> QED BY <1>1, <1>2 DEF InsertRevision

(* A piece of the revision, well done or not. *)
LEMMA PieceKeeps ==
  ASSUME SchemaInv, NEW p \in Updaters, NEW u \in Program,
         UNCHANGED db, up' = [up EXCEPT ![p] = u], At(p, "pieces"),
         u.pc = "pieces", u.rev = up[p].rev, u.existing = up[p].existing, u.missed = up[p].missed,
         u.cut = up[p].cut,
         ~u.spoiled /\ ~u.marked => u.work = u.piece
  PROVE  SchemaInv'
  <1>1. Progress(db, u)
    BY DEF SchemaInv, Progress, Knows, Program, At
  <1> QED BY <1>1, Moves

LEMMA WellDone ==
  ASSUME SchemaInv, NEW p \in Updaters, At(p, "pieces"), up[p].piece < Pieces, ~up[p].spoiled, UNCHANGED db,
         up' = [up EXCEPT ![p].piece = @ + 1, ![p].work = @ + 1]
  PROVE  SchemaInv'
  <1> DEFINE m == up[p].piece + 1
             n == up[p].work + 1
             u == [up[p] EXCEPT !.piece = m, !.work = n]
  <1>1. up[p] \in Program /\ up' = [up EXCEPT ![p] = u]
    BY DEF SchemaInv
  <1>a. m \in 0 .. Pieces /\ n \in Nat
    BY <1>1, SchemaAssumption DEF Program
  <1> HIDE DEF m, n
  <1>2. /\ u \in Program /\ u.pc = up[p].pc /\ u.rev = up[p].rev /\ u.existing = up[p].existing
        /\ u.missed = up[p].missed /\ u.cut = up[p].cut /\ u.work = n /\ u.piece = m
    BY <1>1, <1>a DEF Program
  <1>3. u.spoiled = up[p].spoiled /\ u.marked = up[p].marked
    BY <1>1 DEF Program
  <1>4. ~u.spoiled /\ ~u.marked => up[p].work = up[p].piece
    BY <1>1, <1>3, Zenon DEF SchemaInv, Progress, At
  <1> HIDE DEF u
  <1>5. ~u.spoiled /\ ~u.marked => u.work = u.piece
    BY <1>2, <1>4 DEF m, n
  <1> QED BY <1>1, <1>2, <1>5, PieceKeeps DEF At

LEMMA ExecSqlKeeps ==
  ASSUME SchemaInv, NEW p \in Updaters, ExecSql(p)
  PROVE  SchemaInv'
  <1>1. CASE Fails(p)
    BY <1>1, FailsKeeps DEF Fails
  <1>2. CASE /\ ~up[p].spoiled /\ UNCHANGED db
             /\ up' = [up EXCEPT ![p].piece = @ + 1, ![p].work = @ + 1]
    BY <1>2, WellDone DEF ExecSql
  <1> QED BY <1>1, <1>2 DEF ExecSql

LEMMA MigrateKeeps ==
  ASSUME SchemaInv, NEW p \in Updaters, Migrate(p)
  PROVE  SchemaInv'
  <1>1. CASE Fails(p)
    BY <1>1, FailsKeeps DEF Fails
  <1>2. CASE /\ ~up[p].spoiled /\ UNCHANGED db
             /\ up' = [up EXCEPT ![p].piece = @ + 1, ![p].work = @ + 1]
    BY <1>2, WellDone DEF Migrate
  <1>3. ASSUME NEW spoiled \in BOOLEAN, NEW marked \in BOOLEAN, spoiled \/ marked, UNCHANGED db,
               up' = [up EXCEPT ![p].piece = @ + 1, ![p].spoiled = @ \/ spoiled,
                                 ![p].marked = @ \/ marked]
        PROVE  SchemaInv'
    <2> DEFINE a == up[p].spoiled \/ spoiled
               o == up[p].marked \/ marked
               m == up[p].piece + 1
               u == [up[p] EXCEPT !.piece = m, !.spoiled = a, !.marked = o]
    <2>1. up[p] \in Program /\ up' = [up EXCEPT ![p] = u]
      BY <1>3 DEF SchemaInv
    <2>2. a \in BOOLEAN /\ o \in BOOLEAN /\ (a \/ o)
      BY <1>3
    <2>3. At(p, "pieces") /\ up[p].piece < Pieces
      BY DEF Migrate
    <2>m. m \in 0 .. Pieces
      BY <2>1, <2>3, SchemaAssumption DEF Program
    <2> HIDE DEF a, o, m
    <2>4. /\ u \in Program /\ u.pc = up[p].pc /\ u.rev = up[p].rev /\ u.existing = up[p].existing
          /\ u.missed = up[p].missed /\ u.cut = up[p].cut
      BY <2>1, <2>2, <2>m DEF Program
    <2>5. u.spoiled = a /\ u.marked = o
      BY <2>1, <2>2 DEF Program
    <2>6. u.spoiled \/ u.marked
      BY <2>2, <2>5, Zenon
    <2> HIDE DEF u
    <2> QED BY <1>3, <2>1, <2>3, <2>4, <2>6, PieceKeeps DEF At
  <1> QED BY <1>1, <1>2, <1>3 DEF Migrate

LEMMA ConfirmRevisionKeeps ==
  ASSUME SchemaInv, NEW p \in Updaters, ConfirmRevision(p)
  PROVE  SchemaInv'
  <1>1. CASE Fails(p)
    BY <1>1, FailsKeeps DEF Fails
  <1>2. CASE ~up[p].spoiled /\ ~up[p].marked /\ Goes(p, "commit") /\ UNCHANGED db
    <2>1. Progress(db, [up[p] EXCEPT !.pc = "commit"])
      BY <1>2 DEF ConfirmRevision, SchemaInv, Progress, Knows, Program, At
    <2> QED BY <1>2, <2>1, GoesKeeps
  <1> QED BY <1>1, <1>2 DEF ConfirmRevision

(* A revision is there, whole, after those before it, and every program is *)
(* told that it has missed it. *)
LEMMA CommittedKeeps ==
  ASSUME SchemaInv, NEW r \in Revisions, NEW x \in [Updaters -> Program],
         db.table, \A s \in Revisions : s < r => Has(db, s),
         db' = Committed(r, Pieces), up' = Missed(x, r),
         \A q \in Updaters :
            Progress(db, x[q]) \/ (x[q].pc = "next" /\ \E p \in Updaters : Progress(db, up[p]) /\
              up[p].pc = "commit" /\ up[p].rev = r /\ x[q].rev = r + 1
              /\ x[q].existing = up[p].existing /\ x[q].missed = up[p].missed
              /\ x[q].cut = up[p].cut /\ x[q].work = x[q].piece)
  PROVE  SchemaInv'
  <1>1. db \in Database /\ Table(db)
    BY DEF SchemaInv
  <1> DEFINE w == [db.row EXCEPT ![r] = "done"]
             h == [db.held EXCEPT ![r] = db.held[r] + Pieces]
             l == db.lost \ {r}
  <1>2a. w \in [Revisions -> {"none", "noted", "done"}] /\ h \in [Revisions -> Nat] /\ l \in SUBSET Revisions
    BY <1>1, SchemaAssumption DEF Database
  <1>2b. /\ \A s \in Revisions : /\ w[s] = IF s = r THEN "done" ELSE db.row[s]
                                /\ h[s] = IF s = r THEN db.held[r] + Pieces ELSE db.held[s]
    BY <1>1 DEF Database
  <1>2c. db' = [db EXCEPT !.row = w, !.held = h, !.lost = l]
    BY <1>1 DEF Committed, Database
  <1> HIDE DEF w, h, l
  <1>2d. db' \in Database /\ db'.table = db.table /\ db'.lost = l /\ db'.row = w /\ db'.held = h
    BY <1>1, <1>2a, <1>2c DEF Database
  <1>2. /\ db' \in Database /\ db'.table = db.table /\ db'.lost = db.lost \ {r}
        /\ \A s \in Revisions : /\ db'.row[s] = IF s = r THEN "done" ELSE db.row[s]
                                /\ db'.held[s] = IF s = r THEN db.held[r] + Pieces ELSE db.held[s]
    BY <1>2b, <1>2d DEF l
  <1>3. \A s \in Revisions : Has(db', s) <=> Has(db, s) \/ s = r
    BY <1>1, <1>2, SchemaAssumption DEF Has, Database
  <1>4. (db.held[r] + Pieces) % Pieces = 0
    BY <1>1, OneMoreTime, SchemaAssumption DEF Table, Database
  <1>5. Table(db')
    BY <1>1, <1>2, <1>3, <1>4 DEF Table, Revisions
  <1>6. ASSUME NEW q \in Updaters PROVE up'[q] \in Program /\ Progress(db', up'[q])
    <2>1. /\ up'[q] \in Program /\ up'[q].pc = x[q].pc /\ up'[q].rev = x[q].rev /\ up'[q].work = x[q].work
          /\ up'[q].piece = x[q].piece /\ up'[q].spoiled = x[q].spoiled /\ up'[q].marked = x[q].marked
          /\ up'[q].existing = x[q].existing /\ up'[q].missed = x[q].missed \cup {r}
          /\ up'[q].cut = x[q].cut
      BY DEF Missed, Program
    <2>2. CASE Progress(db, x[q])
      BY <1>2, <1>3, <2>1, <2>2 DEF Progress, Knows, Program
    <2>3. CASE x[q].pc = "next" /\ \E p \in Updaters : Progress(db, up[p]) /\
              up[p].pc = "commit" /\ up[p].rev = r /\ x[q].rev = r + 1
              /\ x[q].existing = up[p].existing /\ x[q].missed = up[p].missed
              /\ x[q].cut = up[p].cut /\ x[q].work = x[q].piece
      BY <1>2, <1>3, <2>1, <2>3 DEF Progress, Knows, Program, Revisions
    <2> QED BY <2>1, <2>2, <2>3
  <1>7. up' \in [Updaters -> Program]
    BY <1>6 DEF Missed
  <1> QED BY <1>2, <1>5, <1>6, <1>7 DEF SchemaInv

LEMMA CommitRevisionKeeps ==
  ASSUME SchemaInv, NEW p \in Updaters, CommitRevision(p)
  PROVE  SchemaInv'
  <1> DEFINE r == up[p].rev
             again == [Return("next") EXCEPT !.rev = r + 1, !.existing = up[p].existing,
                                            !.missed = up[p].missed, !.cut = up[p].cut]
             on == [up EXCEPT ![p] = again]
             off == [up EXCEPT ![p] = Return("false")]
  <1>1. CASE Fails(p)
    BY <1>1, FailsKeeps DEF Fails
  <1>2. /\ up[p] \in Program /\ Progress(db, up[p]) /\ up[p].pc = "commit"
        /\ r \in Revisions /\ up[p].work = Pieces
        /\ db.table /\ \A s \in Revisions : s < r => Has(db, s)
    BY DEF CommitRevision, SchemaInv, Progress, Program, At
  <1>3. /\ again \in Program /\ again.pc = "next" /\ again.rev = r + 1
        /\ again.existing = up[p].existing /\ again.missed = up[p].missed /\ again.cut = up[p].cut
        /\ again.work = again.piece
    <2>1. Idle \in Program /\ Idle.work = Idle.piece
      BY SchemaAssumption DEF Program, Idle
    <2> HIDE DEF Idle
    <2>2. r + 1 \in 1 .. Last + 1
      BY <1>2, SchemaAssumption DEF Revisions
    <2> QED BY <1>2, <2>1, <2>2 DEF Return, Program
  <1> HIDE DEF again
  <1>4. CASE db' = Committed(r, up[p].work) /\ up' = Missed(on, r)
    <2>1. on \in [Updaters -> Program] /\ \A q \in Updaters : on[q] = IF q = p THEN again ELSE up[q]
      BY <1>3 DEF SchemaInv
    <2> HIDE DEF on
    <2>2. \A q \in Updaters : q # p => Progress(db, on[q])
      BY <2>1 DEF SchemaInv
    <2> QED BY <1>2, <1>3, <1>4, <2>1, <2>2, CommittedKeeps
  <1>5. CASE db' = Committed(r, up[p].work) /\ up' = Missed(off, r)
    <2>1. off \in [Updaters -> Program] /\ \A q \in Updaters : Progress(db, off[q])
      BY Starts DEF SchemaInv
    <2> HIDE DEF off
    <2> QED BY <1>2, <1>5, <2>1, CommittedKeeps
  <1> QED BY <1>1, <1>4, <1>5 DEF CommitRevision, again

LEMMA FinishKeeps ==
  ASSUME SchemaInv, NEW p \in Updaters, Finish(p)
  PROVE  SchemaInv'
  <1>1. Idle \in Program /\ Idle.rev = 1 /\ Idle.existing = {} /\ Idle.work = Idle.piece
    BY SchemaAssumption DEF Program, Idle
  <1> HIDE DEF Idle
  <1>2. /\ Return("true") \in Program /\ Return("true").rev = 1 /\ Return("true").existing = {}
        /\ Return("true").pc = "true" /\ Return("true").work = Return("true").piece
    BY <1>1 DEF Return, Program
  <1>3. \A r \in Revisions : Has(db, r)
    BY SchemaAssumption DEF Finish, SchemaInv, Progress, Program, Revisions
  <1>4. Progress(db, Return("true"))
    BY <1>2, <1>3 DEF Progress, Revisions
  <1> QED BY <1>2, <1>4, Moves DEF Finish, Returns

LEMMA CrashKeeps ==
  ASSUME SchemaInv, NEW p \in Updaters, Crash(p)
  PROVE  SchemaInv'
  <1> DEFINE i == Return("idle")
  <1>1. i \in Program /\ Progress(db, i) /\ Idle = i
    <2>1. Idle \in Program /\ Idle.pc = "idle"
      BY SchemaAssumption DEF Program, Idle
    <2> HIDE DEF Idle
    <2>2. Idle = i
      BY <2>1 DEF Return, Program
    <2> QED BY <2>2, Starts
  <1> HIDE DEF i
  <1>2. CASE UNCHANGED db
    BY <1>1, <1>2, Moves DEF Crash
  <1>3. CASE At(p, "commit") /\ db' = [db EXCEPT !.lost = @ \cup {up[p].rev}]
    <2>1. /\ up[p].rev \in Revisions /\ db.table
          /\ \A s \in Revisions : s < up[p].rev => Has(db, s)
      BY <1>3 DEF SchemaInv, Progress, At
    <2>2. /\ db' \in Database /\ db'.held = db.held /\ db'.row = db.row /\ db'.table = db.table
          /\ db'.lost = db.lost \cup {up[p].rev}
      BY <1>3, <2>1 DEF SchemaInv, Database
    <2>3. Table(db') /\ \A s \in Revisions : Has(db, s) <=> Has(db', s)
      BY <2>1, <2>2 DEF SchemaInv, Table, Has
    <2>4. \A q \in Updaters : Progress(db', up[q])
      BY <2>2, <2>3, MoreKnown DEF SchemaInv
    <2>5. up' \in [Updaters -> Program] /\ \A q \in Updaters : up'[q] = IF q = p THEN i ELSE up[q]
      BY <1>1 DEF Crash, SchemaInv
    <2>6. Progress(db', i)
      BY <1>1, <2>2, <2>3, MoreKnown DEF SchemaInv
    <2> QED BY <2>2, <2>3, <2>4, <2>5, <2>6 DEF SchemaInv
  <1> QED BY <1>2, <1>3 DEF Crash

LEMMA LateCommitKeeps ==
  ASSUME SchemaInv, NEW r \in Revisions, LateCommit(r)
  PROVE  SchemaInv'
  <1>1. db.table /\ \A s \in Revisions : s < r => Has(db, s)
    BY DEF LateCommit, SchemaInv, Table
  <1>2. CASE db' = Committed(r, Pieces) /\ up' = Missed(up, r)
    <2>1. up \in [Updaters -> Program] /\ \A q \in Updaters : Progress(db, up[q])
      BY DEF SchemaInv
    <2> QED BY <1>1, <1>2, <2>1, CommittedKeeps
  <1>3. CASE db' = [db EXCEPT !.lost = @ \ {r}] /\ UNCHANGED up
    <2>1. /\ db' \in Database /\ db'.held = db.held /\ db'.row = db.row /\ db'.table = db.table
          /\ db'.lost = db.lost \ {r}
      BY <1>3 DEF SchemaInv, Database
    <2>2. Table(db') /\ \A s \in Revisions : Has(db, s) <=> Has(db', s)
      BY <2>1 DEF SchemaInv, Table, Has
    <2>3. \A q \in Updaters : Progress(db', up[q])
      BY <2>1, <2>2, MoreKnown DEF SchemaInv
    <2> QED BY <1>3, <2>1, <2>2, <2>3 DEF SchemaInv
  <1> QED BY <1>2, <1>3 DEF LateCommit

LEMMA SchemaKept == SchemaInv /\ [SchemaNext]_schemavars => SchemaInv'
  <1> SUFFICES ASSUME SchemaInv, [SchemaNext]_schemavars PROVE SchemaInv'
    OBVIOUS
  <1>1. CASE UNCHANGED schemavars
    BY <1>1 DEF schemavars, SchemaInv
  <1>2. ASSUME NEW p \in Updaters, Update(p) PROVE SchemaInv'
    <2>1. CASE CallUpdate(p)
      BY <2>1, Starts, Moves DEF CallUpdate
    <2>2. CASE BeginRevision(p)
      <3>1. CASE Returns(p, "false") /\ UNCHANGED db
        BY <3>1, FailsKeeps
      <3>2. CASE Goes(p, "pieces") /\ UNCHANGED db
        <4>1. Progress(db, [up[p] EXCEPT !.pc = "pieces"])
          BY <2>2 DEF BeginRevision, SchemaInv, Progress, Knows, Program, At
        <4> QED BY <3>2, <4>1, GoesKeeps
      <3> QED BY <2>2, <3>1, <3>2 DEF BeginRevision
    <2> QED BY <1>2, <2>1, <2>2, ReadRevisionsKeeps, CreateTableKeeps, SkipKeeps, InsertRevisionKeeps,
               ExecSqlKeeps, MigrateKeeps, ConfirmRevisionKeeps, CommitRevisionKeeps, FinishKeeps DEF Update
  <1> QED BY <1>1, <1>2, CrashKeeps, LateCommitKeeps DEF SchemaNext

LEMMA SchemaBegins == SchemaInit => SchemaInv
  <1> SUFFICES ASSUME SchemaInit PROVE SchemaInv
    OBVIOUS
  <1>1. Idle \in Program /\ Idle.pc = "idle" /\ Idle.rev = 1 /\ Idle.existing = {} /\ Idle.work = Idle.piece
    BY SchemaAssumption DEF Program, Idle
  <1>2. /\ db \in Database /\ db.table = FALSE /\ db.lost = {}
        /\ \A r \in Revisions : db.row[r] = "none" /\ db.held[r] = 0
    BY DEF SchemaInit, Database
  <1>3. Table(db)
    <2>1. 0 % Pieces = 0
      BY SchemaAssumption
    <2> QED BY <1>2, <2>1 DEF Table, Has
  <1>4. Progress(db, Idle)
    BY <1>1 DEF Progress, Revisions
  <1> QED BY <1>1, <1>2, <1>3, <1>4 DEF SchemaInit, SchemaInv

LEMMA AppliedBlindly ==
  ASSUME SchemaInv, [SchemaNext]_schemavars, NEW r \in Revisions, Has(db, r), Has(db', r),
         db'.held[r] > db.held[r]
  PROVE  r \in db.lost \/ \E p \in Updaters : At(p, "commit") /\ up[p].rev = r /\ (r \in up[p].missed \/ up[p].cut)
  <1>0. db \in Database
    BY DEF SchemaInv
  <1> SUFFICES ASSUME r \notin db.lost
               PROVE  \E p \in Updaters : At(p, "commit") /\ up[p].rev = r /\ (r \in up[p].missed \/ up[p].cut)
    OBVIOUS
  <1>1. ASSUME NEW s \in Revisions, NEW n, db' = Committed(s, n) PROVE s = r
    <2>1. db'.held = [db.held EXCEPT ![s] = @ + n]
      BY <1>0, <1>1 DEF Committed, Database
    <2> QED BY <1>0, <2>1 DEF Database
  <1>2. ASSUME db'.held = db.held PROVE FALSE
    BY <1>0, <1>2 DEF Database
  <1>3. db' = db => FALSE
    BY <1>2
  <1>4. PICK p \in Updaters : CommitRevision(p) /\ ~Fails(p)
    <2>1. ASSUME NEW p \in Updaters, Crash(p) PROVE FALSE
      BY <1>0, <1>2, <2>1 DEF Crash, Database
    <2>2. ASSUME NEW s \in Revisions, LateCommit(s) PROVE FALSE
      <3>1. db' # [db EXCEPT !.lost = @ \ {s}]
        BY <1>0, <1>2 DEF Database
      <3> QED BY <1>1, <2>2, <3>1 DEF LateCommit
    <2>3. ASSUME NEW p \in Updaters, Update(p) PROVE CommitRevision(p) /\ ~Fails(p)
      <3>1. ~Fails(p)
        BY <1>3 DEF Fails
      <3>2. ~CreateTable(p)
        BY <1>0, <1>2, <3>1 DEF CreateTable, Database
      <3>3. ~InsertRevision(p)
        BY <1>0, <1>2, <3>1 DEF InsertRevision, Database
      <3> QED BY <1>3, <2>3, <3>1, <3>2, <3>3 DEF Update, CallUpdate, ReadRevisions, Skip, BeginRevision,
                 ExecSql, Migrate, ConfirmRevision, Finish
    <2> QED BY <1>3, <2>1, <2>2, <2>3 DEF SchemaNext, schemavars
  <1>5. up[p].pc = "commit" /\ Progress(db, up[p]) /\ up[p].rev \in Revisions
    BY <1>4 DEF CommitRevision, At, SchemaInv, Progress
  <1>6. up[p].rev = r
    BY <1>1, <1>4, <1>5 DEF CommitRevision
  <1> QED BY <1>5, <1>6 DEF Progress, Knows, At

(* Any number of programs may update a schema of any number of revisions *)
(* at once, fail, die and start again at any point: a revision is there as *)
(* a whole or not at all, with those before it, the table knows, update() *)
(* returns true only when all are there, and who applies a revision again *)
(* had read the table before it was applied, or not to its end. *)
THEOREM RevisionsWholeHolds == SchemaSpec => RevisionsWhole
  <1>1. SchemaInv => WholeOrNot
    BY DEF SchemaInv, Table, Progress, Has, WholeOrNot, At
  <1>2. SchemaInv /\ [SchemaNext]_schemavars => WholeOrNot'
    BY <1>1, SchemaKept, PTL
  <1>3. SchemaInv /\ [SchemaNext]_schemavars => [WholeOrNot']_schemavars
    BY <1>2
  <1>4. SchemaInv /\ [SchemaNext]_schemavars =>
          [\A r \in Revisions :
             db.held[r] > 0 /\ db'.held[r] > db.held[r] =>
               r \in db.lost \/ \E p \in Updaters : /\ At(p, "commit") /\ up[p].rev = r
                                                  /\ (r \in up[p].missed \/ up[p].cut)]_schemavars
    <2> SUFFICES ASSUME SchemaInv, [SchemaNext]_schemavars, NEW r \in Revisions,
                        db.held[r] > 0, db'.held[r] > db.held[r]
                 PROVE  r \in db.lost \/ \E p \in Updaters : At(p, "commit") /\ up[p].rev = r /\ (r \in up[p].missed \/ up[p].cut)
      OBVIOUS
    <2>1. SchemaInv'
      BY SchemaKept
    <2>2. Has(db, r) /\ Has(db', r)
      BY <2>1 DEF Has, SchemaInv, Database
    <2> QED BY <2>2, AppliedBlindly
  <1> QED BY <1>3, <1>4, SchemaBegins, SchemaKept, PTL DEF SchemaSpec, RevisionsWhole, AgainOnlyBlind

----------------------------------------

(****************************************)
(* The part of a Kafka connector that sends requests.  A request waits on *)
(* one connection that is open, or on none; a connection for a purpose is *)
(* in the map of its purpose until it has called closed(); and whoever *)
(* gives can a broker asks for the metadata anew. *)
(****************************************)
GroupMembers == [cluster : BOOLEAN, allBrokers : SUBSET Nodes, leader : Nodes \cup {NoNode},
            currentState : {"Idle", "Ready"},
            produce : [Nodes -> Sockets \cup {NoSocket}],
            fetch : [Nodes -> Sockets \cup {NoSocket}], retries : 0 .. MaxRetries]
Socket  == [phase : {"open", "closed", "gone"}, kind : Kinds \cup {"metadata"},
            node : Nodes \cup {NoNode}, sent : Seq(Requests), ok : BOOLEAN]
Fates   == {"new", "sent", "answered", "silent"}
Waits(e, r) == \E i \in 1 .. Len(e.sent) : e.sent[i] = r

(* What a connection may carry. *)
Carries(e) ==
  /\ e.phase # "open" \/ e.kind = "metadata" => e.sent = <<>>
  /\ e.kind = "offset" /\ e.phase = "open" => Len(e.sent) = 1
  /\ \A i, j \in 1 .. Len(e.sent) : e.sent[i] = e.sent[j] => i = j

Waiting(S, f) ==
  \A r \in Requests :
    /\ \A x \in Sockets : Waits(S[x], r) => f[r] = "sent"
    /\ f[r] = "sent" => \E x \in Sockets : Waits(S[x], r)
    /\ \A x, y \in Sockets : Waits(S[x], r) /\ Waits(S[y], r) => x = y

Leads(e, kind, n) == e.phase # "gone" /\ e.kind = kind /\ e.node = n
Mapped(h, kind, S) == \A n \in Nodes, x \in Sockets : h[n] = x <=> Leads(S[x], kind, n)

Searches(e)  == e.phase # "gone" /\ e.kind = "metadata"
Looking(c, S) ==
  c.cluster /\ c.allBrokers = {} => c.retries > 0 \/ \E x \in Sockets : Searches(S[x])

St(c, S, f) == [b |-> c, socket |-> S, fate |-> f]

Sound(c, S, f) ==
  /\ c \in GroupMembers /\ S \in [Sockets -> Socket] /\ f \in [Requests -> Fates]
  /\ \A x \in Sockets : Carries(S[x])
  /\ Waiting(S, f)
  /\ Mapped(c.produce, "produce", S) /\ Mapped(c.fetch, "fetch", S)

ClientInv == Sound(b, socket, fate) /\ Looking(b, socket)

LEMMA ClientBegins == ClientInit => ClientInv
  <1> SUFFICES ASSUME ClientInit PROVE ClientInv
    OBVIOUS
  <1> DEFINE no == FALSE
             none == <<>>
             z == [phase |-> "gone", kind |-> "metadata", node |-> NoNode, sent |-> none, ok |-> no]
             h == [n \in Nodes |-> NoSocket]
             c == [cluster |-> no, allBrokers |-> {}, leader |-> NoNode, currentState |-> "Idle",
                   produce |-> h, fetch |-> h, retries |-> 0]
  <1>1. no \in BOOLEAN /\ ~no /\ none \in Seq(Requests) /\ Len(none) = 0 /\ none = <<>>
    OBVIOUS
  <1>2. b = c /\ socket = [x \in Sockets |-> z] /\ fate = [r \in Requests |-> "new"]
    BY DEF ClientInit, Unused
  <1> HIDE DEF no, none
  <1>3. /\ z \in Socket /\ z.phase = "gone" /\ z.kind = "metadata" /\ z.sent = none
    BY <1>1 DEF Socket
  <1>4. h \in [Nodes -> Sockets \cup {NoSocket}] /\ \A n \in Nodes : h[n] = NoSocket
    OBVIOUS
  <1> HIDE DEF z, h
  <1>5. 0 \in 0 .. MaxRetries
    BY ClientAssumption
  <1>6. c \in GroupMembers /\ c.produce = h /\ c.fetch = h /\ c.cluster = no
    BY <1>1, <1>4, <1>5 DEF GroupMembers
  <1> HIDE DEF c
  <1>7. socket \in [Sockets -> Socket] /\ (\A x \in Sockets : socket[x] = z)
        /\ fate \in [Requests -> Fates] /\ (\A r \in Requests : fate[r] = "new")
    BY <1>2, <1>3 DEF Fates
  <1>8. Carries(z)
    BY <1>1, <1>3 DEF Carries
  <1>9. Waiting(socket, fate)
    BY <1>1, <1>3, <1>7 DEF Waiting, Waits
  <1>10. Mapped(h, "produce", socket) /\ Mapped(h, "fetch", socket)
    BY <1>3, <1>4, <1>7, ClientAssumption DEF Mapped, Leads
  <1>11. Looking(b, socket)
    BY <1>1, <1>2, <1>6 DEF Looking
  <1> QED BY <1>2, <1>6, <1>7, <1>8, <1>9, <1>10, <1>11 DEF ClientInv, Sound

LEMMA HeldIs ==
  ASSUME NEW h \in [Nodes -> Sockets \cup {NoSocket}], NEW kind, Mapped(h, kind, socket), NEW n \in Nodes
  PROVE  Live(kind, n) = Held(h[n])
  BY ClientAssumption DEF Mapped, Leads, Live, Held

LEMMA ClientNow == ClientInv => ClientKept
  <1> SUFFICES ASSUME ClientInv PROVE ClientKept
    OBVIOUS
  <1>1. /\ b \in GroupMembers /\ socket \in [Sockets -> Socket] /\ fate \in [Requests -> Fates]
        /\ (\A x \in Sockets : Carries(socket[x]))
        /\ Waiting(socket, fate)
        /\ Mapped(b.produce, "produce", socket) /\ Mapped(b.fetch, "fetch", socket)
    BY DEF ClientInv, Sound
  <1>2. ASSUME NEW r \in Requests
        PROVE  /\ fate[r] # "twice"
               /\ Cardinality(WaitingOn(r)) = (IF fate[r] = "sent" THEN 1 ELSE 0)
               /\ \A x \in WaitingOn(r) : socket[x].phase = "open"
    <2>1. fate[r] # "twice"
      BY <1>1 DEF Fates
    <2>2. \A x \in Sockets : socket[x].sent \in Seq(Requests)
      BY <1>1 DEF Socket
    <2>3. WaitingOn(r) = {x \in Sockets : Waits(socket[x], r)}
      BY <2>2 DEF WaitingOn, Waits
    <2>4. \A x \in WaitingOn(r) : socket[x].phase = "open"
      <3> SUFFICES ASSUME NEW x \in Sockets, Waits(socket[x], r), socket[x].phase # "open" PROVE FALSE
        BY <2>3
      <3>1. socket[x].sent = <<>>
        BY <1>1 DEF Carries
      <3>2. Len(socket[x].sent) = 0
        BY <3>1
      <3> QED BY <3>2 DEF Waits
    <2>5. CASE fate[r] = "sent"
      <3>1. PICK x \in Sockets : Waits(socket[x], r)
        BY <1>1, <2>5 DEF Waiting
      <3>2. WaitingOn(r) = {x}
        BY <1>1, <2>3, <3>1 DEF Waiting
      <3>3. Cardinality({x}) = 1
        BY FS_Singleton
      <3> QED BY <2>1, <2>4, <2>5, <3>2, <3>3
    <2>6. CASE fate[r] # "sent"
      <3>1. WaitingOn(r) = {}
        BY <1>1, <2>3, <2>6 DEF Waiting
      <3> QED BY <2>1, <2>6, <3>1, FS_EmptySet
    <2> QED BY <2>5, <2>6
  <1>3. AnsweredOnce
    BY <1>2 DEF AnsweredOnce
  <1>4. MapsLive
    <2>1. b.produce \in [Nodes -> Sockets \cup {NoSocket}] /\ b.fetch \in [Nodes -> Sockets \cup {NoSocket}]
      BY <1>1 DEF GroupMembers
    <2> QED BY <1>1, <2>1, HeldIs DEF MapsLive
  <1>5. KeepsLooking
    BY DEF ClientInv, Looking, Searches, KeepsLooking
  <1> QED BY <1>3, <1>4, <1>5 DEF ClientKept

(* One connection changes, from a to e. *)
Turns(a, e, f, g) ==
  \A r \in Requests :
    /\ Waits(e, r) => g[r] = "sent" /\ (Waits(a, r) \/ f[r] # "sent")
    /\ Waits(a, r) /\ ~Waits(e, r) => g[r] # "sent"
    /\ ~Waits(a, r) /\ ~Waits(e, r) => g[r] = f[r] \/ (f[r] # "sent" /\ g[r] # "sent")

Remaps(h, m, kind, x, e) ==
  \A n \in Nodes : /\ m[n] = x <=> Leads(e, kind, n)
                   /\ \A y \in Sockets : y # x => (m[n] = y <=> h[n] = y)

SameRole(a, e) == (e.phase = "gone" <=> a.phase = "gone") /\ e.kind = a.kind /\ e.node = a.node

LEMMA WaitingTurns ==
  ASSUME NEW S \in [Sockets -> Socket], NEW f, Waiting(S, f), NEW x \in Sockets, NEW e, NEW g,
         Turns(S[x], e, f, g)
  PROVE  Waiting([S EXCEPT ![x] = e], g)
  <1> DEFINE T == [S EXCEPT ![x] = e]
  <1>1. T[x] = e /\ \A y \in Sockets : y # x => T[y] = S[y]
    OBVIOUS
  <1> HIDE DEF T
  <1>2. ASSUME NEW r \in Requests
        PROVE  /\ \A y \in Sockets : Waits(T[y], r) => g[r] = "sent"
               /\ g[r] = "sent" => \E y \in Sockets : Waits(T[y], r)
               /\ \A y, z \in Sockets : Waits(T[y], r) /\ Waits(T[z], r) => y = z
    <2>1. /\ \A y \in Sockets : Waits(S[y], r) => f[r] = "sent"
          /\ f[r] = "sent" => \E y \in Sockets : Waits(S[y], r)
          /\ \A y, z \in Sockets : Waits(S[y], r) /\ Waits(S[z], r) => y = z
      BY DEF Waiting
    <2>2. /\ Waits(e, r) => g[r] = "sent" /\ (Waits(S[x], r) \/ f[r] # "sent")
          /\ Waits(S[x], r) /\ ~Waits(e, r) => g[r] # "sent"
          /\ ~Waits(S[x], r) /\ ~Waits(e, r) => g[r] = f[r] \/ (f[r] # "sent" /\ g[r] # "sent")
      BY DEF Turns
    <2>3. CASE Waits(e, r)
      BY <1>1, <2>1, <2>2, <2>3
    <2>4. CASE ~Waits(e, r)
      BY <1>1, <2>1, <2>2, <2>4
    <2> QED BY <2>3, <2>4
  <1> QED BY <1>2 DEF Waiting, T

LEMMA MappedRemaps ==
  ASSUME NEW S \in [Sockets -> Socket], NEW h, NEW kind, Mapped(h, kind, S), NEW x \in Sockets, NEW e,
         NEW m, Remaps(h, m, kind, x, e)
  PROVE  Mapped(m, kind, [S EXCEPT ![x] = e])
  <1> DEFINE T == [S EXCEPT ![x] = e]
  <1>1. T[x] = e /\ \A y \in Sockets : y # x => T[y] = S[y]
    OBVIOUS
  <1> HIDE DEF T
  <1>2. Mapped(m, kind, T)
    BY <1>1 DEF Mapped, Remaps
  <1> QED BY <1>2 DEF T

LEMMA SoundChanges ==
  ASSUME NEW c, NEW S, NEW f, Sound(c, S, f), NEW x \in Sockets, NEW e \in Socket, Carries(e),
         NEW g \in [Requests -> Fates], Turns(S[x], e, f, g),
         NEW d \in GroupMembers, Remaps(c.produce, d.produce, "produce", x, e),
         Remaps(c.fetch, d.fetch, "fetch", x, e)
  PROVE  Sound(d, [S EXCEPT ![x] = e], g)
  <1>1. Waiting([S EXCEPT ![x] = e], g)
    BY WaitingTurns DEF Sound
  <1>2. Mapped(d.produce, "produce", [S EXCEPT ![x] = e])
    BY MappedRemaps DEF Sound
  <1>3. Mapped(d.fetch, "fetch", [S EXCEPT ![x] = e])
    BY MappedRemaps DEF Sound
  <1>4. S \in [Sockets -> Socket] /\ \A y \in Sockets : Carries(S[y])
    BY DEF Sound
  <1>5. [S EXCEPT ![x] = e] \in [Sockets -> Socket] /\ \A y \in Sockets : Carries([S EXCEPT ![x] = e][y])
    BY <1>4
  <1> QED BY <1>1, <1>2, <1>3, <1>5 DEF Sound

LEMMA SameRemaps ==
  ASSUME NEW c, NEW S, NEW f, Sound(c, S, f), NEW x \in Sockets, NEW e, SameRole(S[x], e)
  PROVE  Remaps(c.produce, c.produce, "produce", x, e) /\ Remaps(c.fetch, c.fetch, "fetch", x, e)
  BY DEF Sound, Mapped, Remaps, Leads, SameRole

(* The members change, but for the maps. *)
LEMMA ImplChanges ==
  ASSUME NEW c, NEW S, NEW f, Sound(c, S, f), NEW d \in GroupMembers, d.produce = c.produce, d.fetch = c.fetch
  PROVE  Sound(d, S, f)
  BY DEF Sound

(* What becomes of a request that waits on no connection. *)
LEMMA FateChanges ==
  ASSUME NEW c, NEW S, NEW f, Sound(c, S, f), NEW r \in Requests, f[r] # "sent", NEW v \in Fates, v # "sent"
  PROVE  Sound(c, S, [f EXCEPT ![r] = v])
  <1> DEFINE g == [f EXCEPT ![r] = v]
  <1>1. f \in [Requests -> Fates]
    BY DEF Sound
  <1>2. g \in [Requests -> Fates] /\ g[r] = v /\ \A q \in Requests : q # r => g[q] = f[q]
    BY <1>1
  <1> HIDE DEF g
  <1>3. Waiting(S, g)
    BY <1>2 DEF Sound, Waiting
  <1> QED BY <1>2, <1>3 DEF Sound, g

(* A connection that was not in use is opened. *)
Blank(kind, node) == [phase |-> "open", kind |-> kind, node |-> node, sent |-> <<>>, ok |-> FALSE]

LEMMA BlankIs ==
  ASSUME NEW kind \in Kinds \cup {"metadata"}, NEW node \in Nodes \cup {NoNode}
  PROVE  /\ New(kind, node) = Blank(kind, node) /\ Blank(kind, node) \in Socket
         /\ Blank(kind, node).phase = "open" /\ Blank(kind, node).kind = kind
         /\ Blank(kind, node).node = node /\ Len(Blank(kind, node).sent) = 0
         /\ Blank(kind, node).sent = <<>>
  <1> DEFINE no == FALSE
             none == <<>>
             z == [phase |-> "gone", kind |-> "metadata", node |-> NoNode, sent |-> none, ok |-> no]
             z1 == [z EXCEPT !.phase = "open"]
             z2 == [z1 EXCEPT !.kind = kind]
             z3 == [z2 EXCEPT !.node = node]
             e == [phase |-> "open", kind |-> kind, node |-> node, sent |-> none, ok |-> no]
  <1>1. no \in BOOLEAN /\ none \in Seq(Requests) /\ Len(none) = 0 /\ none = <<>>
    OBVIOUS
  <1> HIDE DEF no, none
  <1>2. z1 = [phase |-> "open", kind |-> "metadata", node |-> NoNode, sent |-> none, ok |-> no]
    OBVIOUS
  <1>3. New(kind, node) = z3
    BY DEF New, Unused, no, none
  <1> HIDE DEF z, z1
  <1>4. z2 = [phase |-> "open", kind |-> kind, node |-> NoNode, sent |-> none, ok |-> no]
    BY <1>2
  <1> HIDE DEF z2
  <1>5. z3 = e
    BY <1>4
  <1>6. e \in Socket /\ e.phase = "open" /\ e.kind = kind /\ e.node = node /\ e.sent = none
    BY <1>1 DEF Socket
  <1>7. e = Blank(kind, node)
    BY DEF Blank, no, none
  <1> HIDE DEF e, z3
  <1> QED BY <1>1, <1>3, <1>5, <1>6, <1>7

LEMMA GoneIsEmpty ==
  ASSUME NEW c, NEW S, NEW f, Sound(c, S, f), NEW x \in Sockets, S[x].phase # "open", NEW r
  PROVE  S[x].sent = <<>> /\ ~Waits(S[x], r)
  <1>1. S[x].sent = <<>>
    BY DEF Sound, Carries
  <1>2. Len(S[x].sent) = 0
    BY <1>1
  <1> QED BY <1>1, <1>2 DEF Waits

LEMMA FetchMetaDataIs ==
  ASSUME NEW c \in GroupMembers, NEW S \in [Sockets -> Socket], NEW f, NEW can \in BOOLEAN
  PROVE  LET t == FetchMetaData(St(c, S, f), can) IN
         \/ ~c.cluster /\ t = St([c EXCEPT !.currentState = "Idle"], S, f)
         \/ c.cluster /\ \E y \in Sockets : S[y].phase = "gone"
                           /\ t = St(c, [S EXCEPT ![y] = Blank("metadata", NoNode)], f)
         \/ c.cluster /\ t = St([c EXCEPT !.retries = IF @ < MaxRetries THEN @ + 1 ELSE @], S, f)
  <1> DEFINE s == St(c, S, f)
             t == FetchMetaData(s, can)
             y == Next1(s)
  <1>1. s.b = c /\ s.socket = S /\ s.fate = f
    BY DEF St
  <1>2. CASE ~c.cluster
    <2>1. t = [s EXCEPT !.b.currentState = "Idle"]
      BY <1>1, <1>2 DEF FetchMetaData
    <2>2. t = St([c EXCEPT !.currentState = "Idle"], S, f)
      BY <2>1 DEF St
    <2> QED BY <1>2, <2>2
  <1>3. CASE c.cluster /\ CanOpen(s, can)
    <2>1. t = [s EXCEPT !.socket[y] = New("metadata", NoNode)]
      BY <1>1, <1>3 DEF FetchMetaData
    <2>2. NotInUse(s) # {}
      BY <1>3 DEF CanOpen
    <2>3. y \in NotInUse(s)
      BY <2>2 DEF Next1
    <2>4. y \in Sockets /\ S[y].phase = "gone"
      BY <1>1, <2>3 DEF NotInUse
    <2>5. New("metadata", NoNode) = Blank("metadata", NoNode)
      BY BlankIs
    <2> HIDE DEF y
    <2>6. t = St(c, [S EXCEPT ![y] = Blank("metadata", NoNode)], f)
      BY <2>1, <2>5 DEF St
    <2> QED BY <1>3, <2>4, <2>6
  <1>4. CASE c.cluster /\ ~CanOpen(s, can)
    <2>1. t = [s EXCEPT !.b.retries = IF @ < MaxRetries THEN @ + 1 ELSE @]
      BY <1>1, <1>4 DEF FetchMetaData
    <2>2. t = St([c EXCEPT !.retries = IF @ < MaxRetries THEN @ + 1 ELSE @], S, f)
      BY <2>1 DEF St
    <2> QED BY <1>4, <2>2
  <1> QED BY <1>2, <1>3, <1>4

(* Whoever has lost a broker, or has none, looks for one afterwards. *)
LEMMA FetchMetaDataKeeps ==
  ASSUME NEW c, NEW S, NEW f, Sound(c, S, f), NEW can \in BOOLEAN
  PROVE  \E d, T, g : /\ FetchMetaData(St(c, S, f), can) = St(d, T, g)
                      /\ Sound(d, T, g) /\ Looking(d, T)
  <1> DEFINE t == FetchMetaData(St(c, S, f), can)
             m == IF c.retries < MaxRetries THEN c.retries + 1 ELSE c.retries
             c1 == [c EXCEPT !.currentState = "Idle"]
             c2 == [c EXCEPT !.retries = m]
  <1>1. c \in GroupMembers /\ S \in [Sockets -> Socket] /\ f \in [Requests -> Fates]
    BY DEF Sound
  <1>2. \/ ~c.cluster /\ t = St(c1, S, f)
        \/ c.cluster /\ \E y \in Sockets : S[y].phase = "gone"
                          /\ t = St(c, [S EXCEPT ![y] = Blank("metadata", NoNode)], f)
        \/ c.cluster /\ t = St(c2, S, f)
    BY <1>1, FetchMetaDataIs
  <1>3. m \in 0 .. MaxRetries /\ m > 0
    BY <1>1, ClientAssumption DEF GroupMembers
  <1> HIDE DEF t, m
  <1>4. CASE ~c.cluster /\ t = St(c1, S, f)
    <2>1. c1 \in GroupMembers /\ c1.produce = c.produce /\ c1.fetch = c.fetch /\ c1.cluster = c.cluster
      BY <1>1 DEF GroupMembers
    <2> HIDE DEF c1
    <2>2. Sound(c1, S, f)
      BY <2>1, ImplChanges
    <2>3. Looking(c1, S)
      BY <1>4, <2>1 DEF Looking
    <2> QED BY <1>4, <2>2, <2>3 DEF t
  <1>5. ASSUME NEW y \in Sockets, S[y].phase = "gone",
               t = St(c, [S EXCEPT ![y] = Blank("metadata", NoNode)], f)
        PROVE  \E d, T, g : t = St(d, T, g) /\ Sound(d, T, g) /\ Looking(d, T)
    <2> DEFINE e == Blank("metadata", NoNode)
               T == [S EXCEPT ![y] = e]
    <2>1. /\ e \in Socket /\ e.phase = "open" /\ e.kind = "metadata" /\ e.node = NoNode
          /\ Len(e.sent) = 0 /\ e.sent = <<>>
      BY BlankIs
    <2> HIDE DEF e
    <2>2. Carries(e)
      BY <2>1 DEF Carries
    <2>3. Turns(S[y], e, f, f)
      <3>1. \A r \in Requests : ~Waits(e, r)
        BY <2>1 DEF Waits
      <3>2. \A r \in Requests : ~Waits(S[y], r)
        BY <1>5, GoneIsEmpty
      <3> QED BY <3>1, <3>2 DEF Turns
    <2>4. Remaps(c.produce, c.produce, "produce", y, e) /\ Remaps(c.fetch, c.fetch, "fetch", y, e)
      BY <1>5, <2>1 DEF Sound, Mapped, Remaps, Leads
    <2>5. Sound(c, T, f)
      BY <1>1, <2>1, <2>2, <2>3, <2>4, SoundChanges
    <2>6. T[y] = e
      BY <1>1
    <2>7. Looking(c, T)
      BY <2>1, <2>6 DEF Looking, Searches
    <2>8. t = St(c, T, f)
      BY <1>5 DEF e
    <2> HIDE DEF T
    <2> QED BY <2>5, <2>7, <2>8
  <1>6. CASE c.cluster /\ t = St(c2, S, f)
    <2>1. c2 \in GroupMembers /\ c2.produce = c.produce /\ c2.fetch = c.fetch /\ c2.retries = m
      BY <1>1, <1>3 DEF GroupMembers
    <2> HIDE DEF c2
    <2>2. Sound(c2, S, f)
      BY <2>1, ImplChanges
    <2>3. Looking(c2, S)
      BY <1>3, <2>1 DEF Looking
    <2> QED BY <1>6, <2>2, <2>3 DEF t
  <1>7. \E d, T, g : t = St(d, T, g) /\ Sound(d, T, g) /\ Looking(d, T)
    BY <1>2, <1>4, <1>5, <1>6 DEF t
  <1> QED BY <1>7 DEF t

LEMMA BecomesSt ==
  ASSUME NEW c, NEW S, NEW f, Sound(c, S, f), Looking(c, S), Is(St(c, S, f))
  PROVE  ClientInv'
  <1>1. St(c, S, f).b = c /\ St(c, S, f).socket = S /\ St(c, S, f).fate = f
    BY DEF St
  <1>2. b' = c /\ socket' = S /\ fate' = f
    BY <1>1 DEF Is
  <1> QED BY <1>2 DEF ClientInv

LEMMA FetchesKeeps ==
  ASSUME NEW c, NEW S, NEW f, Sound(c, S, f), NEW can \in BOOLEAN, Is(FetchMetaData(St(c, S, f), can))
  PROVE  ClientInv'
  <1>1. PICK d, T, g : /\ FetchMetaData(St(c, S, f), can) = St(d, T, g)
                       /\ Sound(d, T, g) /\ Looking(d, T)
    BY FetchMetaDataKeeps
  <1>2. Is(St(d, T, g))
    BY <1>1
  <1> QED BY <1>1, <1>2, BecomesSt

LEMMA ClientTyped ==
  ASSUME ClientInv
  PROVE  /\ Sound(b, socket, fate) /\ b \in GroupMembers /\ socket \in [Sockets -> Socket]
         /\ fate \in [Requests -> Fates] /\ Client = St(b, socket, fate)
         /\ \A x \in Sockets : socket[x] \in Socket /\ Carries(socket[x])
  BY DEF ClientInv, Sound, Client, St

(* connect, and the timer *)
LEMMA ConnectKeeps ==
  ASSUME ClientInv, NEW can \in BOOLEAN, Connect(can) \/ Retry(can)
  PROVE  ClientInv'
  <1> DEFINE yes == TRUE
             less == b.retries - 1
             c1 == [b EXCEPT !.cluster = yes]
             c2 == [b EXCEPT !.retries = less]
  <1>1. yes \in BOOLEAN
    OBVIOUS
  <1>2. b \in GroupMembers
    BY ClientTyped
  <1>3. CASE Connect(can)
    <2>1. Is(FetchMetaData([St(b, socket, fate) EXCEPT !.b.cluster = TRUE], can))
      BY <1>3, ClientTyped DEF Connect
    <2> HIDE DEF yes
    <2>2. [St(b, socket, fate) EXCEPT !.b.cluster = yes] = St(c1, socket, fate)
      BY DEF St
    <2>3. c1 \in GroupMembers /\ c1.produce = b.produce /\ c1.fetch = b.fetch
      BY <1>1, <1>2 DEF GroupMembers
    <2> HIDE DEF c1
    <2>4. Sound(c1, socket, fate)
      BY <2>3, ClientTyped, ImplChanges
    <2>5. Is(FetchMetaData([St(b, socket, fate) EXCEPT !.b.cluster = yes], can))
      BY <2>1 DEF yes
    <2>6. Is(FetchMetaData(St(c1, socket, fate), can))
      BY <2>2, <2>5
    <2> QED BY <2>4, <2>6, FetchesKeeps
  <1>4. CASE Retry(can)
    <2>1. b.retries > 0 /\ Is(FetchMetaData([St(b, socket, fate) EXCEPT !.b.retries = @ - 1], can))
      BY <1>4, ClientTyped DEF Retry
    <2>2. [St(b, socket, fate) EXCEPT !.b.retries = @ - 1] = St(c2, socket, fate)
      BY DEF St
    <2>3. less \in 0 .. MaxRetries
      BY <1>2, <2>1, ClientAssumption DEF GroupMembers
    <2> HIDE DEF less
    <2>4. c2 \in GroupMembers /\ c2.produce = b.produce /\ c2.fetch = b.fetch
      BY <1>2, <2>3 DEF GroupMembers
    <2> HIDE DEF c2
    <2>5. Sound(c2, socket, fate)
      BY <2>4, ClientTyped, ImplChanges
    <2>6. Is(FetchMetaData(St(c2, socket, fate), can))
      BY <2>1, <2>2
    <2> QED BY <2>5, <2>6, FetchesKeeps
  <1> QED BY <1>3, <1>4

(* Requests *)
LEMMA RefuseKeeps ==
  ASSUME NEW c, NEW S, NEW f, Sound(c, S, f), NEW r \in Requests, f[r] = "new",
         NEW acks \in BOOLEAN, NEW can \in BOOLEAN, Is(Refuse(St(c, S, f), r, acks, can))
  PROVE  ClientInv'
  <1> DEFINE v == IF acks THEN "answered" ELSE "silent"
             g == [f EXCEPT ![r] = v]
  <1>1. f \in [Requests -> Fates]
    BY DEF Sound
  <1>2. (IF acks THEN Answer(St(c, S, f), r) ELSE [St(c, S, f) EXCEPT !.fate[r] = "silent"]) = St(c, S, g)
    BY <1>1 DEF Answer, St
  <1>3. Is(FetchMetaData(St(c, S, g), can))
    BY <1>2 DEF Refuse
  <1>4. v \in Fates /\ v # "sent"
    BY DEF Fates
  <1> HIDE DEF v
  <1>5. Sound(c, S, g)
    BY <1>4, FateChanges
  <1> QED BY <1>3, <1>5, FetchesKeeps

LEMMA LookingSame ==
  ASSUME NEW c, NEW S \in [Sockets -> Socket], Looking(c, S), NEW x \in Sockets, NEW e,
         Searches(S[x]) => Searches(e),
         NEW d, d.cluster = c.cluster, d.allBrokers = c.allBrokers, d.retries = c.retries
  PROVE  Looking(d, [S EXCEPT ![x] = e])
  <1> DEFINE T == [S EXCEPT ![x] = e]
  <1>1. T[x] = e /\ \A y \in Sockets : y # x => T[y] = S[y]
    OBVIOUS
  <1> HIDE DEF T
  <1>2. Looking(d, T)
    BY <1>1 DEF Looking
  <1> QED BY <1>2 DEF T

LEMMA Appended ==
  ASSUME NEW a \in Socket, a.phase = "open", a.kind # "metadata", Carries(a), NEW r \in Requests, ~Waits(a, r),
         a.kind = "offset" => Len(a.sent) = 0
  PROVE  LET e == [a EXCEPT !.sent = Append(@, r)] IN
         /\ e \in Socket /\ SameRole(a, e) /\ e.phase = "open" /\ \A q : Waits(e, q) <=> Waits(a, q) \/ q = r
         /\ \A i, j \in 1 .. Len(e.sent) : e.sent[i] = e.sent[j] => i = j
         /\ Len(e.sent) = Len(a.sent) + 1
  <1> DEFINE w == Append(a.sent, r)
             e == [a EXCEPT !.sent = w]
  <1>1. a.sent \in Seq(Requests) /\ Len(a.sent) \in Nat
    BY DEF Socket
  <1>2. /\ w \in Seq(Requests) /\ Len(w) = Len(a.sent) + 1 /\ w[Len(a.sent) + 1] = r
        /\ \A i \in 1 .. Len(a.sent) : w[i] = a.sent[i]
    BY <1>1
  <1> HIDE DEF w
  <1>3. e \in Socket /\ e.phase = a.phase /\ e.kind = a.kind /\ e.node = a.node /\ e.sent = w
    BY <1>2 DEF Socket
  <1> HIDE DEF e
  <1>4. \A q : Waits(e, q) <=> Waits(a, q) \/ q = r
    <2> TAKE q
    <2>1. \A i \in 1 .. Len(w) : i \in 1 .. Len(a.sent) \/ i = Len(a.sent) + 1
      BY <1>1, <1>2
    <2>2. Len(a.sent) + 1 \in 1 .. Len(w) /\ \A i \in 1 .. Len(a.sent) : i \in 1 .. Len(w)
      BY <1>1, <1>2
    <2> QED BY <1>2, <1>3, <2>1, <2>2 DEF Waits
  <1>5. ASSUME NEW i \in 1 .. Len(w), NEW j \in 1 .. Len(w), w[i] = w[j] PROVE i = j
    <2>1. \A m \in 1 .. Len(a.sent) : w[m] # r
      BY <1>2 DEF Waits
    <2>2. CASE i \in 1 .. Len(a.sent) /\ j \in 1 .. Len(a.sent)
      BY <1>2, <1>5, <2>2 DEF Carries
    <2>3. CASE i = Len(a.sent) + 1 \/ j = Len(a.sent) + 1
      <3>1. \A m \in 1 .. Len(w) : w[m] = r => m = Len(a.sent) + 1
        BY <1>1, <1>2, <2>1
      <3> QED BY <1>2, <1>5, <2>3, <3>1
    <2> QED BY <1>1, <1>2, <2>2, <2>3
  <1>6. SameRole(a, e)
    BY <1>3 DEF SameRole
  <1> QED BY <1>2, <1>3, <1>4, <1>5, <1>6 DEF e, w

LEMMA WriteKeeps ==
  ASSUME NEW c, NEW S, NEW f, Sound(c, S, f), Looking(c, S), NEW x \in Sockets,
         S[x].kind \in {"produce", "fetch"}, NEW r \in Requests, f[r] = "new", NEW acks \in BOOLEAN,
         Is(Write(St(c, S, f), x, r, acks))
  PROVE  ClientInv'
  <1>1. c \in GroupMembers /\ S \in [Sockets -> Socket] /\ f \in [Requests -> Fates] /\ Carries(S[x])
    BY DEF Sound
  <1>3. CASE acks /\ S[x].phase = "open"
    <2> DEFINE e == [S[x] EXCEPT !.sent = Append(S[x].sent, r)]
               g == [f EXCEPT ![r] = "sent"]
               s == St(c, S, f)
               more == Append(S[x].sent, r)
               o == [S[x] EXCEPT !.sent = more]
    <2>9. Is(St(c, [S EXCEPT ![x] = e], g))
      <3>1. s.b = c /\ s.socket = S /\ s.fate = f
        BY DEF St
      <3>2. Write(s, x, r, acks) = [s EXCEPT !.socket[x].sent = Append(@, r), !.fate[r] = "sent"]
        BY <1>3, <3>1 DEF Write
      <3>3. [s EXCEPT !.socket[x].sent = Append(@, r), !.fate[r] = "sent"]
              = [[s EXCEPT !.socket[x].sent = more] EXCEPT !.fate[r] = "sent"]
        BY <3>1
      <3>4. [s EXCEPT !.socket[x].sent = more] = St(c, [S EXCEPT ![x] = o], f)
        <4> HIDE DEF more
        <4> QED BY DEF St
      <3>5. [St(c, [S EXCEPT ![x] = o], f) EXCEPT !.fate[r] = "sent"]
              = St(c, [S EXCEPT ![x] = o], g)
        <4> HIDE DEF o
        <4> QED BY DEF St
      <3>6. Write(s, x, r, acks) = St(c, [S EXCEPT ![x] = e], g)
        <4> HIDE DEF s
        <4>1. Write(s, x, r, acks) = St(c, [S EXCEPT ![x] = o], g)
          <5> HIDE DEF o
          <5> QED BY <3>2, <3>3, <3>4, <3>5
        <4> QED BY <4>1
      <3> HIDE DEF e, g
      <3> QED BY <3>6
    <2>1. ~Waits(S[x], r)
      BY DEF Sound, Waiting
    <2>2. S[x] \in Socket
      BY <1>1
    <2>3. /\ e \in Socket /\ SameRole(S[x], e) /\ e.phase = "open" /\ \A q : Waits(e, q) <=> Waits(S[x], q) \/ q = r
          /\ \A i, j \in 1 .. Len(e.sent) : e.sent[i] = e.sent[j] => i = j
      BY <1>1, <1>3, <2>1, <2>2, Appended
    <2> HIDE DEF e
    <2>4. Carries(e)
      BY <2>3 DEF Carries, SameRole
    <2>5. g \in [Requests -> Fates] /\ g[r] = "sent" /\ \A q \in Requests : q # r => g[q] = f[q]
      BY <1>1 DEF Fates
    <2> HIDE DEF g
    <2>6. Turns(S[x], e, f, g)
      <3>1. \A q \in Requests : Waits(S[x], q) => f[q] = "sent"
        BY DEF Sound, Waiting
      <3> QED BY <2>1, <2>3, <2>5, <3>1 DEF Turns
    <2>7. Sound(c, [S EXCEPT ![x] = e], g)
      BY <1>1, <2>3, <2>4, <2>5, <2>6, SameRemaps, SoundChanges
    <2>8. Looking(c, [S EXCEPT ![x] = e])
      <3>1. ~Searches(S[x])
        BY DEF Searches
      <3> QED BY <1>1, <3>1, LookingSame
    <2> QED BY <2>7, <2>8, <2>9, BecomesSt
  <1>4. CASE ~(acks /\ S[x].phase = "open")
    <2> DEFINE silent == "silent"
               h == [f EXCEPT ![r] = silent]
               s == St(c, S, f)
    <2>3. Is(St(c, S, h))
      <3>1. s.b = c /\ s.socket = S /\ s.fate = f
        BY DEF St
      <3>2. Write(s, x, r, acks) = [s EXCEPT !.fate[r] = "silent"]
        BY <1>4, <3>1 DEF Write
      <3>3. [s EXCEPT !.fate[r] = "silent"] = St(c, S, h)
        BY DEF St
      <3> QED BY <3>2, <3>3
    <2>1. silent \in Fates /\ silent # "sent"
      BY DEF Fates
    <2> HIDE DEF silent
    <2>2. Sound(c, S, h)
      BY <2>1, FateChanges
    <2> QED BY <2>2, <2>3, BecomesSt
  <1> QED BY <1>3, <1>4

(* A connection is opened for the leader. *)
Opens(c, S, y, kind, n, d) ==
  /\ y \in Sockets /\ S[y].phase = "gone" /\ n \in Nodes /\ kind \in {"produce", "fetch"}
  /\ d \in GroupMembers /\ d.cluster = c.cluster /\ d.allBrokers = c.allBrokers /\ d.retries = c.retries
  /\ kind = "produce" => /\ c.produce[n] = NoSocket /\ d.fetch = c.fetch
                         /\ d.produce = [c.produce EXCEPT ![n] = y]
  /\ kind = "fetch" => /\ c.fetch[n] = NoSocket /\ d.produce = c.produce
                       /\ d.fetch = [c.fetch EXCEPT ![n] = y]

LEMMA OpensFor ==
  ASSUME NEW c, NEW S, NEW f, Sound(c, S, f), Looking(c, S),
         NEW y, NEW kind, NEW n, NEW d, Opens(c, S, y, kind, n, d)
  PROVE  /\ Sound(d, [S EXCEPT ![y] = Blank(kind, n)], f)
         /\ Looking(d, [S EXCEPT ![y] = Blank(kind, n)])
         /\ [S EXCEPT ![y] = Blank(kind, n)][y].kind \in {"produce", "fetch"}
  <1> DEFINE e == Blank(kind, n)
  <1> USE DEF Opens
  <1>1. /\ e \in Socket /\ e.phase = "open" /\ e.kind = kind /\ e.node = n /\ Len(e.sent) = 0 /\ e.sent = <<>>
    BY BlankIs DEF Kinds
  <1>2. /\ c \in GroupMembers /\ S \in [Sockets -> Socket] /\ f \in [Requests -> Fates]
        /\ Mapped(c.produce, "produce", S) /\ Mapped(c.fetch, "fetch", S)
        /\ c.produce \in [Nodes -> Sockets \cup {NoSocket}] /\ c.fetch \in [Nodes -> Sockets \cup {NoSocket}]
    BY DEF Sound, GroupMembers
  <1> HIDE DEF e
  <1>3. Carries(e)
    BY <1>1 DEF Carries
  <1>4. Turns(S[y], e, f, f)
    <2>1. \A r \in Requests : ~Waits(e, r)
      BY <1>1 DEF Waits
    <2>2. \A r \in Requests : ~Waits(S[y], r)
      BY GoneIsEmpty
    <2> QED BY <2>1, <2>2 DEF Turns
  <1>5. Remaps(c.produce, d.produce, "produce", y, e)
    <2>1. \A m \in Nodes : c.produce[m] # y
      BY <1>2 DEF Mapped, Leads
    <2>2. CASE kind = "produce"
      BY <1>1, <1>2, <2>1, <2>2, ClientAssumption DEF Remaps, Leads
    <2>3. CASE kind # "produce"
      BY <1>1, <2>1, <2>3 DEF Remaps, Leads
    <2> QED BY <2>2, <2>3
  <1>6. Remaps(c.fetch, d.fetch, "fetch", y, e)
    <2>1. \A m \in Nodes : c.fetch[m] # y
      BY <1>2 DEF Mapped, Leads
    <2>2. CASE kind = "fetch"
      BY <1>1, <1>2, <2>1, <2>2, ClientAssumption DEF Remaps, Leads
    <2>3. CASE kind # "fetch"
      BY <1>1, <2>1, <2>3 DEF Remaps, Leads
    <2> QED BY <2>2, <2>3
  <1>7. Sound(d, [S EXCEPT ![y] = e], f)
    BY <1>1, <1>2, <1>3, <1>4, <1>5, <1>6, SoundChanges
  <1>8. Looking(d, [S EXCEPT ![y] = e])
    BY <1>2, LookingSame DEF Searches
  <1>9. [S EXCEPT ![y] = e][y] = e
    BY <1>2
  <1> QED BY <1>1, <1>7, <1>8, <1>9 DEF e

LEMMA KnownKeeps ==
  ASSUME ClientInv, b.leader # NoNode
  PROVE  \E c : Known(Client) = St(c, socket, fate) /\ Sound(c, socket, fate)
  <1> DEFINE more == b.allBrokers \cup {b.leader}
             c == [b EXCEPT !.allBrokers = more]
  <1>1. b \in GroupMembers /\ Sound(b, socket, fate) /\ Client = St(b, socket, fate)
    BY ClientTyped
  <1>2. more \in SUBSET Nodes
    BY <1>1 DEF GroupMembers
  <1>3. Known(Client) = [St(b, socket, fate) EXCEPT !.b.allBrokers = more]
    BY <1>1 DEF Known, St
  <1> HIDE DEF more
  <1>4. c \in GroupMembers /\ c.produce = b.produce /\ c.fetch = b.fetch
    BY <1>1, <1>2 DEF GroupMembers
  <1>5. [St(b, socket, fate) EXCEPT !.b.allBrokers = more] = St(c, socket, fate)
    BY DEF St
  <1> HIDE DEF c
  <1>6. Sound(c, socket, fate)
    BY <1>1, <1>4, ImplChanges
  <1> QED BY <1>3, <1>5, <1>6

LEMMA NextIs ==
  ASSUME ClientInv, NEW can \in BOOLEAN, Reach(Client, can)
  PROVE  Next1(Client) \in Sockets /\ socket[Next1(Client)].phase = "gone"
  <1>1. NotInUse(Client) # {}
    BY DEF Reach, CanOpen
  <1>2. Next1(Client) \in NotInUse(Client)
    BY <1>1 DEF Next1
  <1> QED BY <1>2 DEF NotInUse, Client

LEMMA ProduceKeeps ==
  ASSUME ClientInv, NEW r \in Requests, fate[r] = "new", NEW acks \in BOOLEAN, NEW can \in BOOLEAN,
         Produce(r, acks, can)
  PROVE  ClientInv'
  <1> DEFINE n == b.leader
             x == b.produce[n]
             y == Next1(Client)
  <1>1. /\ Sound(b, socket, fate) /\ b \in GroupMembers /\ socket \in [Sockets -> Socket]
        /\ Client = St(b, socket, fate) /\ Looking(b, socket)
    BY ClientTyped DEF ClientInv
  <1>2. CASE n = NoNode
    BY <1>1, <1>2, RefuseKeeps DEF Produce
  <1>3. CASE n # NoNode /\ x # NoSocket
    <2>1. n \in Nodes /\ x \in Sockets
      BY <1>1, <1>3 DEF GroupMembers
    <2>2. socket[x].kind = "produce"
      BY <1>1, <2>1 DEF Sound, Mapped, Leads
    <2>3. Is(Write(St(b, socket, fate), x, r, acks))
      BY <1>1, <1>3 DEF Produce
    <2> QED BY <1>1, <2>1, <2>2, <2>3, WriteKeeps
  <1>4. CASE n # NoNode /\ x = NoSocket /\ ~Reach(Client, can)
    <2>1. PICK c : Known(Client) = St(c, socket, fate) /\ Sound(c, socket, fate)
      BY <1>4, KnownKeeps
    <2>2. Is(Refuse(St(c, socket, fate), r, acks, can))
      BY <1>4, <2>1 DEF Produce
    <2> QED BY <2>1, <2>2, RefuseKeeps
  <1>5. CASE n # NoNode /\ x = NoSocket /\ Reach(Client, can)
    <2> DEFINE e == Blank("produce", n)
               h == [b.produce EXCEPT ![n] = y]
               d == [b EXCEPT !.produce = h]
               T == [socket EXCEPT ![y] = e]
    <2>1. n \in Nodes
      BY <1>1, <1>5 DEF GroupMembers
    <2>2. y \in Sockets /\ socket[y].phase = "gone"
      BY <1>5, NextIs
    <2>3. Is(Write([Client EXCEPT !.socket[y] = New("produce", n), !.b.produce[n] = y], y, r, acks))
      BY <1>5 DEF Produce
    <2>4. New("produce", n) = e
      BY <2>1, BlankIs DEF Kinds
    <2> HIDE DEF y, e
    <2>5. h \in [Nodes -> Sockets \cup {NoSocket}]
      BY <1>1, <2>2 DEF GroupMembers
    <2>6. [Client EXCEPT !.socket[y] = New("produce", n), !.b.produce[n] = y] = St(d, T, fate)
      <3>1. [Client EXCEPT !.socket[y] = New("produce", n), !.b.produce[n] = y]
              = [[Client EXCEPT !.socket[y] = e] EXCEPT !.b.produce[n] = y]
        BY <2>4
      <3>2. [Client EXCEPT !.socket[y] = e] = St(b, T, fate)
        BY <1>1 DEF St
      <3> HIDE DEF T
      <3>3. [St(b, T, fate) EXCEPT !.b.produce[n] = y] = St(d, T, fate)
        BY DEF St
      <3> QED BY <3>1, <3>2, <3>3
    <2> HIDE DEF h
    <2>7. /\ d \in GroupMembers /\ d.cluster = b.cluster /\ d.allBrokers = b.allBrokers /\ d.retries = b.retries
          /\ d.produce = h /\ d.fetch = b.fetch
      BY <1>1, <2>5 DEF GroupMembers
    <2> HIDE DEF d
    <2>8. Sound(d, T, fate) /\ Looking(d, T) /\ T[y].kind \in {"produce", "fetch"}
      <3> DEFINE kind == "produce"
      <3>1. /\ kind \in {"produce", "fetch"} /\ T = [socket EXCEPT ![y] = Blank(kind, n)]
            /\ kind = "produce" => /\ b.produce[n] = NoSocket /\ d.fetch = b.fetch
                            /\ d.produce = [b.produce EXCEPT ![n] = y]
            /\ kind # "fetch"
        BY <1>5, <2>7 DEF h, e
      <3> HIDE DEF kind, T, h, n
      <3>2. /\ Sound(d, [socket EXCEPT ![y] = Blank(kind, n)], fate)
            /\ Looking(d, [socket EXCEPT ![y] = Blank(kind, n)])
            /\ [socket EXCEPT ![y] = Blank(kind, n)][y].kind \in {"produce", "fetch"}
        <4>1. Sound(b, socket, fate) /\ Looking(b, socket)
          BY <1>1
        <4>2. /\ d \in GroupMembers /\ d.cluster = b.cluster /\ d.allBrokers = b.allBrokers
              /\ d.retries = b.retries
          BY <2>7
        <4>3. /\ kind = "produce" => /\ b.produce[n] = NoSocket /\ d.fetch = b.fetch
                                     /\ d.produce = [b.produce EXCEPT ![n] = y]
              /\ kind = "fetch" => /\ b.fetch[n] = NoSocket /\ d.produce = b.produce
                                   /\ d.fetch = [b.fetch EXCEPT ![n] = y]
              /\ kind \in {"produce", "fetch"}
          BY <3>1
        <4>4. Opens(b, socket, y, kind, n, d)
          BY <4>2, <4>3, <2>1, <2>2 DEF Opens
        <4> QED BY <4>1, <4>4, OpensFor
      <3> QED BY <3>1, <3>2
    <2> HIDE DEF T, n
    <2>9. Is(Write(St(d, T, fate), y, r, acks))
      BY <2>3, <2>6
    <2> QED BY <2>2, <2>8, <2>9, WriteKeeps
  <1> QED BY <1>2, <1>3, <1>4, <1>5

LEMMA FetchKeeps ==
  ASSUME ClientInv, NEW r \in Requests, fate[r] = "new", NEW can \in BOOLEAN, Fetch(r, can)
  PROVE  ClientInv'
  <1> DEFINE n == b.leader
             x == b.fetch[n]
             y == Next1(Client)
             yes == TRUE
  <1>1. /\ Sound(b, socket, fate) /\ b \in GroupMembers /\ socket \in [Sockets -> Socket]
        /\ Client = St(b, socket, fate) /\ Looking(b, socket)
    BY ClientTyped DEF ClientInv
  <1>0. yes \in BOOLEAN
    OBVIOUS
  <1>2. CASE n = NoNode
    <2>1. Is(Refuse(St(b, socket, fate), r, yes, can))
      BY <1>1, <1>2 DEF Fetch
    <2> HIDE DEF yes
    <2> QED BY <1>0, <1>1, <2>1, RefuseKeeps
  <1>3. CASE n # NoNode /\ x # NoSocket
    <2>1. n \in Nodes /\ x \in Sockets
      BY <1>1, <1>3 DEF GroupMembers
    <2>2. socket[x].kind = "fetch"
      BY <1>1, <2>1 DEF Sound, Mapped, Leads
    <2>3. Is(Write(St(b, socket, fate), x, r, yes))
      BY <1>1, <1>3 DEF Fetch
    <2> HIDE DEF yes
    <2> QED BY <1>0, <1>1, <2>1, <2>2, <2>3, WriteKeeps
  <1>4. CASE n # NoNode /\ x = NoSocket /\ ~Reach(Client, can)
    <2>1. PICK c : Known(Client) = St(c, socket, fate) /\ Sound(c, socket, fate)
      BY <1>4, KnownKeeps
    <2>2. Is(Refuse(St(c, socket, fate), r, yes, can))
      BY <1>4, <2>1 DEF Fetch
    <2> HIDE DEF yes
    <2> QED BY <1>0, <2>1, <2>2, RefuseKeeps
  <1>5. CASE n # NoNode /\ x = NoSocket /\ Reach(Client, can)
    <2> DEFINE e == Blank("fetch", n)
               h == [b.fetch EXCEPT ![n] = y]
               d == [b EXCEPT !.fetch = h]
               T == [socket EXCEPT ![y] = e]
    <2>1. n \in Nodes
      BY <1>1, <1>5 DEF GroupMembers
    <2>2. y \in Sockets /\ socket[y].phase = "gone"
      BY <1>5, NextIs
    <2>3. Is(Write([Client EXCEPT !.socket[y] = New("fetch", n), !.b.fetch[n] = y], y, r, yes))
      BY <1>5 DEF Fetch
    <2>4. New("fetch", n) = e
      BY <2>1, BlankIs DEF Kinds
    <2> HIDE DEF y, e, yes
    <2>5. h \in [Nodes -> Sockets \cup {NoSocket}]
      BY <1>1, <2>2 DEF GroupMembers
    <2>6. [Client EXCEPT !.socket[y] = New("fetch", n), !.b.fetch[n] = y] = St(d, T, fate)
      <3>1. [Client EXCEPT !.socket[y] = New("fetch", n), !.b.fetch[n] = y]
              = [[Client EXCEPT !.socket[y] = e] EXCEPT !.b.fetch[n] = y]
        BY <2>4
      <3>2. [Client EXCEPT !.socket[y] = e] = St(b, T, fate)
        BY <1>1 DEF St
      <3> HIDE DEF T
      <3>3. [St(b, T, fate) EXCEPT !.b.fetch[n] = y] = St(d, T, fate)
        BY DEF St
      <3> QED BY <3>1, <3>2, <3>3
    <2> HIDE DEF h
    <2>7. /\ d \in GroupMembers /\ d.cluster = b.cluster /\ d.allBrokers = b.allBrokers /\ d.retries = b.retries
          /\ d.fetch = h /\ d.produce = b.produce
      BY <1>1, <2>5 DEF GroupMembers
    <2> HIDE DEF d
    <2>8. Sound(d, T, fate) /\ Looking(d, T) /\ T[y].kind \in {"produce", "fetch"}
      <3> DEFINE kind == "fetch"
      <3>1. /\ kind \in {"produce", "fetch"} /\ T = [socket EXCEPT ![y] = Blank(kind, n)]
            /\ kind = "fetch" => /\ b.fetch[n] = NoSocket /\ d.produce = b.produce
                            /\ d.fetch = [b.fetch EXCEPT ![n] = y]
            /\ kind # "produce"
        BY <1>5, <2>7 DEF h, e
      <3> HIDE DEF kind, T, h, n
      <3>2. /\ Sound(d, [socket EXCEPT ![y] = Blank(kind, n)], fate)
            /\ Looking(d, [socket EXCEPT ![y] = Blank(kind, n)])
            /\ [socket EXCEPT ![y] = Blank(kind, n)][y].kind \in {"produce", "fetch"}
        <4>1. Sound(b, socket, fate) /\ Looking(b, socket)
          BY <1>1
        <4>2. /\ d \in GroupMembers /\ d.cluster = b.cluster /\ d.allBrokers = b.allBrokers
              /\ d.retries = b.retries
          BY <2>7
        <4>3. /\ kind = "produce" => /\ b.produce[n] = NoSocket /\ d.fetch = b.fetch
                                     /\ d.produce = [b.produce EXCEPT ![n] = y]
              /\ kind = "fetch" => /\ b.fetch[n] = NoSocket /\ d.produce = b.produce
                                   /\ d.fetch = [b.fetch EXCEPT ![n] = y]
              /\ kind \in {"produce", "fetch"}
          BY <3>1
        <4>4. Opens(b, socket, y, kind, n, d)
          BY <4>2, <4>3, <2>1, <2>2 DEF Opens
        <4> QED BY <4>1, <4>4, OpensFor
      <3> QED BY <3>1, <3>2
    <2> HIDE DEF T, n
    <2>9. Is(Write(St(d, T, fate), y, r, yes))
      BY <2>3, <2>6
    <2> QED BY <1>0, <2>2, <2>8, <2>9, WriteKeeps
  <1> QED BY <1>2, <1>3, <1>4, <1>5

LEMMA GetOffsetsKeeps ==
  ASSUME ClientInv, NEW r \in Requests, fate[r] = "new", NEW can \in BOOLEAN, GetOffsets(r, can)
  PROVE  ClientInv'
  <1> DEFINE n == b.leader
             y == Next1(Client)
             yes == TRUE
  <1>0. yes \in BOOLEAN
    OBVIOUS
  <1>1. /\ Sound(b, socket, fate) /\ b \in GroupMembers /\ socket \in [Sockets -> Socket]
        /\ Client = St(b, socket, fate) /\ Looking(b, socket) /\ fate \in [Requests -> Fates]
    BY ClientTyped DEF ClientInv
  <1>2. CASE n = NoNode
    <2>1. Is(Refuse(St(b, socket, fate), r, yes, can))
      BY <1>1, <1>2 DEF GetOffsets
    <2> HIDE DEF yes
    <2> QED BY <1>0, <1>1, <2>1, RefuseKeeps
  <1>3. CASE n # NoNode /\ ~Reach(Client, can)
    <2>1. PICK c : Known(Client) = St(c, socket, fate) /\ Sound(c, socket, fate)
      BY <1>3, KnownKeeps
    <2>2. Is(Refuse(St(c, socket, fate), r, yes, can))
      BY <1>3, <2>1 DEF GetOffsets
    <2> HIDE DEF yes
    <2> QED BY <1>0, <2>1, <2>2, RefuseKeeps
  <1>4. CASE n # NoNode /\ Reach(Client, can)
    <2> DEFINE e == Blank("offset", n)
               one == <<r>>
               o == [e EXCEPT !.sent = one]
               g == [fate EXCEPT ![r] = "sent"]
               T == [socket EXCEPT ![y] = e]
               U == [socket EXCEPT ![y] = o]
    <2>1. n \in Nodes
      BY <1>1, <1>4 DEF GroupMembers
    <2>2. y \in Sockets /\ socket[y].phase = "gone"
      BY <1>4, NextIs
    <2>3. Is(Write([Client EXCEPT !.socket[y] = New("offset", n)], y, r, TRUE))
      BY <1>4 DEF GetOffsets
    <2>4. New("offset", n) = e /\ e \in Socket /\ e.phase = "open" /\ e.kind = "offset" /\ e.node = n /\ e.sent = <<>>
      BY <2>1, BlankIs DEF Kinds
    <2> HIDE DEF y, e
    <2>5. [Client EXCEPT !.socket[y] = New("offset", n)] = St(b, T, fate)
      BY <1>1, <2>4 DEF St
    <2>6. T[y] = e
      BY <1>1, <2>2
    <2>7. [T EXCEPT ![y] = o] = U
      <3> HIDE DEF o, e
      <3> QED BY <1>1, <2>2
    <2> HIDE DEF T, n
    <2>8. Write(St(b, T, fate), y, r, TRUE) = St(b, U, g)
      <3> DEFINE s == St(b, T, fate)
      <3>1. s.b = b /\ s.socket = T /\ s.fate = fate
        BY DEF St
      <3>2. Write(s, y, r, TRUE) = [s EXCEPT !.socket[y].sent = Append(@, r), !.fate[r] = "sent"]
        BY <2>4, <2>6, <3>1 DEF Write
      <3>3. Append(e.sent, r) = one
        BY <2>4
      <3>4. [s EXCEPT !.socket[y].sent = Append(@, r), !.fate[r] = "sent"]
              = [[s EXCEPT !.socket[y].sent = one] EXCEPT !.fate[r] = "sent"]
        <4> HIDE DEF one
        <4>1. s.socket[y].sent = e.sent
          BY <2>6, <3>1
        <4> QED BY <3>3, <4>1
      <3>5. [s EXCEPT !.socket[y].sent = one] = St(b, [T EXCEPT ![y] = o], fate)
        <4> HIDE DEF one, e
        <4> QED BY <2>6 DEF St
      <3> HIDE DEF o
      <3>6. [St(b, U, fate) EXCEPT !.fate[r] = "sent"] = St(b, U, g)
        <4> HIDE DEF U
        <4> QED BY DEF St
      <3> HIDE DEF s, U, g
      <3>7. Write(s, y, r, TRUE) = St(b, U, g)
        BY <2>7, <3>2, <3>4, <3>5, <3>6
      <3> QED BY <3>7 DEF s
    <2>9. one \in Seq(Requests) /\ Len(one) = 1 /\ one[1] = r
      OBVIOUS
    <2> HIDE DEF one
    <2>10. /\ o \in Socket /\ o.phase = "open" /\ o.kind = "offset" /\ o.sent = one
      BY <2>4, <2>9 DEF Socket
    <2> HIDE DEF o
    <2>11. Carries(o)
      <3>1. \A i, j \in 1 .. Len(one) : i = j
        BY <2>9
      <3> QED BY <2>9, <2>10, <3>1 DEF Carries
    <2>12. \A q : Waits(o, q) <=> q = r
      <3>1. \A i \in 1 .. Len(one) : i = 1
        BY <2>9
      <3>2. 1 \in 1 .. Len(one)
        BY <2>9
      <3> QED BY <2>9, <2>10, <3>1, <3>2 DEF Waits
    <2>13. g \in [Requests -> Fates] /\ g[r] = "sent" /\ \A q \in Requests : q # r => g[q] = fate[q]
      BY <1>1 DEF Fates
    <2> HIDE DEF g
    <2>14. \A q : ~Waits(socket[y], q)
      BY <1>1, <2>2, GoneIsEmpty
    <2>15. Turns(socket[y], o, fate, g)
      BY <2>12, <2>13, <2>14 DEF Turns
    <2>16. Remaps(b.produce, b.produce, "produce", y, o) /\ Remaps(b.fetch, b.fetch, "fetch", y, o)
      BY <1>1, <2>2, <2>10 DEF Sound, Mapped, Remaps, Leads
    <2>17. Sound(b, U, g)
      BY <1>1, <2>2, <2>10, <2>11, <2>13, <2>15, <2>16, SoundChanges
    <2>18. ~Searches(socket[y])
      BY <2>2 DEF Searches
    <2>19. Looking(b, U)
      BY <1>1, <2>2, <2>18, LookingSame
    <2> HIDE DEF U
    <2>20. Is(St(b, U, g))
      BY <2>3, <2>5, <2>8
    <2> QED BY <2>17, <2>19, <2>20, BecomesSt
  <1> QED BY <1>2, <1>3, <1>4

LEMMA AskKeeps ==
  ASSUME ClientInv, NEW r \in Requests, NEW can \in BOOLEAN, Ask(r, can)
  PROVE  ClientInv'
  BY ProduceKeeps, FetchKeeps, GetOffsetsKeeps DEF Ask

(* A connection is closed under whoever waits on it. *)
Shut(e) == [phase |-> "closed", kind |-> e.kind, node |-> e.node, sent |-> <<>>, ok |-> e.ok]
Hushed(e, f) == [r \in Requests |-> IF Waits(e, r) THEN "silent" ELSE f[r]]

LEMMA ShutIs ==
  ASSUME NEW e \in Socket
  PROVE  /\ Shut(e) \in Socket /\ Shut(e).phase = "closed" /\ Shut(e).kind = e.kind /\ Shut(e).node = e.node
         /\ Shut(e).sent = <<>> /\ Carries(Shut(e)) /\ \A r : ~Waits(Shut(e), r)
         /\ [[e EXCEPT !.phase = "closed"] EXCEPT !.sent = <<>>] = Shut(e)
  <1> DEFINE none == <<>>
             o == e.ok
             z == [phase |-> "closed", kind |-> e.kind, node |-> e.node, sent |-> none, ok |-> o]
             e1 == [e EXCEPT !.phase = "closed"]
  <1>1. none \in Seq(Requests) /\ Len(none) = 0 /\ none = <<>> /\ o \in BOOLEAN /\ o = e.ok
    BY DEF Socket
  <1>2. e = [phase |-> e.phase, kind |-> e.kind, node |-> e.node, sent |-> e.sent, ok |-> e.ok]
    BY DEF Socket
  <1>3. Shut(e) = z
    BY DEF Shut
  <1> HIDE DEF none, o
  <1>4. e1 = [phase |-> "closed", kind |-> e.kind, node |-> e.node, sent |-> e.sent, ok |-> o]
    BY <1>1, <1>2
  <1> HIDE DEF e1
  <1>5. [e1 EXCEPT !.sent = none] = z
    BY <1>4
  <1>6. z \in Socket /\ z.phase = "closed" /\ z.kind = e.kind /\ z.node = e.node /\ z.sent = none
    BY <1>1 DEF Socket
  <1> HIDE DEF z
  <1>7. Carries(z) /\ \A r : ~Waits(z, r)
    BY <1>1, <1>6 DEF Carries, Waits
  <1>8. [[e EXCEPT !.phase = "closed"] EXCEPT !.sent = <<>>] = z
    BY <1>1, <1>5 DEF e1
  <1> QED BY <1>1, <1>3, <1>6, <1>7, <1>8

LEMMA DropIs ==
  ASSUME NEW c, NEW S \in [Sockets -> Socket], NEW f \in [Requests -> Fates], NEW x \in Sockets
  PROVE  Drop(St(c, S, f), x) = St(c, [S EXCEPT ![x] = Shut(S[x])], Hushed(S[x], f))
  <1> DEFINE s == St(c, S, f)
             none == <<>>
             e1 == [S[x] EXCEPT !.phase = "closed"]
             e2 == [e1 EXCEPT !.sent = none]
             g == Hushed(S[x], f)
  <1>1. s.b = c /\ s.socket = S /\ s.fate = f
    BY DEF St
  <1>2. S[x].sent \in Seq(Requests)
    BY DEF Socket
  <1>3. \A r \in Requests : r \in {S[x].sent[i] : i \in DOMAIN S[x].sent} <=> Waits(S[x], r)
    BY <1>2 DEF Waits
  <1>4. g = [r \in Requests |-> IF r \in {S[x].sent[i] : i \in DOMAIN S[x].sent} THEN "silent" ELSE f[r]]
    BY <1>3 DEF Hushed
  <1>5. Drop(s, x) = [[[s EXCEPT !.socket[x].phase = "closed"] EXCEPT !.socket[x].sent = none] EXCEPT !.fate = g]
    BY <1>1, <1>4 DEF Drop
  <1> HIDE DEF g, none
  <1>6. [s EXCEPT !.socket[x].phase = "closed"] = St(c, [S EXCEPT ![x] = e1], f)
    BY DEF St
  <1> HIDE DEF e1
  <1>7. [St(c, [S EXCEPT ![x] = e1], f) EXCEPT !.socket[x].sent = none]
          = St(c, [[S EXCEPT ![x] = e1] EXCEPT ![x] = [@ EXCEPT !.sent = none]], f)
    BY DEF St
  <1>8. [[S EXCEPT ![x] = e1] EXCEPT ![x] = [@ EXCEPT !.sent = none]] = [S EXCEPT ![x] = e2]
    OBVIOUS
  <1> HIDE DEF e2, s
  <1>9. [St(c, [S EXCEPT ![x] = e2], f) EXCEPT !.fate = g] = St(c, [S EXCEPT ![x] = e2], g)
    BY DEF St
  <1>10. Drop(s, x) = St(c, [S EXCEPT ![x] = e2], g)
    BY <1>5, <1>6, <1>7, <1>8, <1>9
  <1>11. e2 = Shut(S[x])
    BY ShutIs DEF e2, e1, none
  <1> QED BY <1>10, <1>11 DEF g, s

LEMMA DropKeeps ==
  ASSUME NEW c, NEW S, NEW f, Sound(c, S, f), Looking(c, S), NEW x \in Sockets, S[x].phase = "open",
         Is(Drop(St(c, S, f), x))
  PROVE  ClientInv'
  <1> DEFINE e == Shut(S[x])
             g == Hushed(S[x], f)
             T == [S EXCEPT ![x] = e]
  <1>1. c \in GroupMembers /\ S \in [Sockets -> Socket] /\ f \in [Requests -> Fates]
    BY DEF Sound
  <1>2. Is(St(c, T, g))
    BY <1>1, DropIs
  <1>3. /\ e \in Socket /\ Carries(e) /\ SameRole(S[x], e) /\ (\A r : ~Waits(e, r)) /\ (Searches(S[x]) => Searches(e))
    <2>1. S[x] \in Socket
      BY <1>1
    <2> QED BY <2>1, ShutIs DEF SameRole, Searches
  <1> HIDE DEF e
  <1>4. g \in [Requests -> Fates] /\ \A r \in Requests : g[r] = IF Waits(S[x], r) THEN "silent" ELSE f[r]
    BY <1>1 DEF Hushed, Fates
  <1> HIDE DEF g
  <1>5. Turns(S[x], e, f, g)
    BY <1>3, <1>4 DEF Turns
  <1>6. Sound(c, T, g)
    BY <1>1, <1>3, <1>4, <1>5, SameRemaps, SoundChanges
  <1>7. Looking(c, T)
    BY <1>1, <1>3, LookingSame
  <1> HIDE DEF T
  <1> QED BY <1>2, <1>6, <1>7, BecomesSt

LEMMA ReadMetaDataKeeps ==
  ASSUME ClientInv, NEW x \in Sockets, ReadMetaData(x)
  PROVE  ClientInv'
  <1>1. /\ Sound(b, socket, fate) /\ b \in GroupMembers /\ socket \in [Sockets -> Socket]
        /\ Client = St(b, socket, fate)
    BY ClientTyped
  <1>2. PICK nodes \in SUBSET Nodes, l \in Nodes \cup {NoNode} :
          Is(Drop([Client EXCEPT !.b.allBrokers = nodes, !.b.leader = l], x))
    BY DEF ReadMetaData
  <1> DEFINE d1 == [b EXCEPT !.allBrokers = nodes]
             d == [d1 EXCEPT !.leader = l]
  <1>3. d1 \in GroupMembers /\ d1.produce = b.produce /\ d1.fetch = b.fetch
    BY <1>1 DEF GroupMembers
  <1>4. [Client EXCEPT !.b.allBrokers = nodes, !.b.leader = l] = St(d, socket, fate)
    <2>1. [Client EXCEPT !.b.allBrokers = nodes] = St(d1, socket, fate)
      BY <1>1 DEF St
    <2> HIDE DEF d1
    <2>2. [St(d1, socket, fate) EXCEPT !.b.leader = l] = St(d, socket, fate)
      BY DEF St
    <2> HIDE DEF d
    <2>3. [Client EXCEPT !.b.allBrokers = nodes, !.b.leader = l]
            = [[Client EXCEPT !.b.allBrokers = nodes] EXCEPT !.b.leader = l]
      OBVIOUS
    <2> QED BY <2>1, <2>2, <2>3
  <1> HIDE DEF d1
  <1>5. d \in GroupMembers /\ d.produce = b.produce /\ d.fetch = b.fetch
    BY <1>3 DEF GroupMembers
  <1> HIDE DEF d
  <1>6. Sound(d, socket, fate)
    BY <1>1, <1>5, ImplChanges
  <1>7. Looking(d, socket)
    BY DEF Looking, Searches, ReadMetaData
  <1>8. Is(Drop(St(d, socket, fate), x))
    BY <1>2, <1>4
  <1> QED BY <1>6, <1>7, <1>8, DropKeeps DEF ReadMetaData

LEMMA BrokenKeeps ==
  ASSUME ClientInv, NEW x \in Sockets, Broken(x)
  PROVE  ClientInv'
  BY ClientTyped, DropKeeps DEF Broken, ClientInv

LEMMA Shorter ==
  ASSUME NEW a \in Socket, a.phase = "open", a.kind \in {"produce", "fetch"}, Carries(a), a.sent # <<>>
  PROVE  LET e == [a EXCEPT !.sent = Tail(a.sent)] IN
         /\ e \in Socket /\ Carries(e) /\ SameRole(a, e)
         /\ Head(a.sent) \in Requests /\ Waits(a, Head(a.sent)) /\ ~Waits(e, Head(a.sent))
         /\ \A q : q # Head(a.sent) => (Waits(e, q) <=> Waits(a, q))
  <1> DEFINE w == Tail(a.sent)
             h == Head(a.sent)
             e == [a EXCEPT !.sent = w]
  <1>1. a.sent \in Seq(Requests) /\ Len(a.sent) \in Nat /\ Len(a.sent) > 0
    BY DEF Socket
  <1>2. /\ w \in Seq(Requests) /\ Len(w) = Len(a.sent) - 1 /\ h = a.sent[1] /\ h \in Requests
        /\ \A i \in 1 .. Len(w) : w[i] = a.sent[i + 1]
    BY <1>1
  <1> HIDE DEF w, h
  <1>3. e \in Socket /\ e.phase = a.phase /\ e.kind = a.kind /\ e.node = a.node /\ e.sent = w
    BY <1>2 DEF Socket
  <1> HIDE DEF e
  <1>4. \A i, j \in 1 .. Len(a.sent) : a.sent[i] = a.sent[j] => i = j
    BY DEF Carries
  <1>5. \A i \in 1 .. Len(w) : i + 1 \in 1 .. Len(a.sent) /\ i + 1 # 1
    BY <1>1, <1>2
  <1>6. 1 \in 1 .. Len(a.sent)
    BY <1>1
  <1>7. Waits(a, h)
    BY <1>2, <1>6 DEF Waits
  <1>8. ~Waits(e, h)
    BY <1>2, <1>3, <1>4, <1>5, <1>6 DEF Waits
  <1>9. ASSUME NEW q, q # h PROVE Waits(e, q) <=> Waits(a, q)
    <2>1. Waits(e, q) => Waits(a, q)
      BY <1>2, <1>3, <1>5 DEF Waits
    <2>2. ASSUME NEW i \in 1 .. Len(a.sent), a.sent[i] = q PROVE Waits(e, q)
      <3>1. i # 1
        BY <1>2, <1>9, <2>2
      <3>2. i - 1 \in 1 .. Len(w) /\ (i - 1) + 1 = i
        BY <1>1, <1>2, <3>1
      <3>3. w[i - 1] = q
        BY <1>2, <2>2, <3>2
      <3> QED BY <1>3, <3>2, <3>3 DEF Waits
    <2> QED BY <2>1, <2>2 DEF Waits
  <1>10. Carries(e)
    <2> SUFFICES ASSUME NEW i \in 1 .. Len(w), NEW j \in 1 .. Len(w), w[i] = w[j] PROVE i = j
      BY <1>3 DEF Carries
    <2>1. i + 1 = j + 1
      BY <1>2, <1>4, <1>5
    <2> QED BY <1>1, <1>2, <2>1
  <1>11. SameRole(a, e)
    BY <1>3 DEF SameRole
  <1> QED BY <1>2, <1>3, <1>7, <1>8, <1>9, <1>10, <1>11 DEF e, w, h

LEMMA AnsweredKeeps ==
  ASSUME ClientInv, NEW x \in Sockets, Answered(x)
  PROVE  ClientInv'
  <1> DEFINE a == socket[x]
             w == Tail(a.sent)
             h == Head(a.sent)
             e == [a EXCEPT !.sent = w]
             v == "answered"
             g == [fate EXCEPT ![h] = v]
             T == [socket EXCEPT ![x] = e]
  <1>1. /\ Sound(b, socket, fate) /\ b \in GroupMembers /\ socket \in [Sockets -> Socket] /\ fate \in [Requests -> Fates]
        /\ Client = St(b, socket, fate) /\ Looking(b, socket) /\ a \in Socket /\ Carries(a)
    BY ClientTyped DEF ClientInv
  <1>2. /\ a.phase = "open" /\ a.kind \in {"produce", "fetch"} /\ a.sent # <<>>
        /\ Is(Answer([Client EXCEPT !.socket[x].sent = Tail(@)], h))
    BY DEF Answered
  <1>3. /\ e \in Socket /\ Carries(e) /\ SameRole(a, e) /\ h \in Requests /\ Waits(a, h) /\ ~Waits(e, h)
        /\ \A q : q # h => (Waits(e, q) <=> Waits(a, q))
    BY <1>1, <1>2, Shorter
  <1>4. fate[h] = "sent" /\ \A q \in Requests : Waits(a, q) => fate[q] = "sent"
    BY <1>1, <1>3 DEF Sound, Waiting
  <1>5. Answer([Client EXCEPT !.socket[x].sent = Tail(@)], h) = St(b, T, g)
    <2>1. [Client EXCEPT !.socket[x].sent = Tail(@)] = [Client EXCEPT !.socket[x].sent = w]
      BY <1>1 DEF St
    <2>2. [Client EXCEPT !.socket[x].sent = w] = St(b, T, fate)
      <3> HIDE DEF w
      <3> QED BY <1>1 DEF St
    <2> HIDE DEF T, h, w
    <2>3. Answer(St(b, T, fate), h) = St(b, T, g)
      <3>1. Answer(St(b, T, fate), h) = [St(b, T, fate) EXCEPT !.fate[h] = v]
        BY <1>4 DEF Answer, St
      <3> HIDE DEF v
      <3>2. [St(b, T, fate) EXCEPT !.fate[h] = v] = St(b, T, g)
        BY DEF St
      <3> QED BY <3>1, <3>2
    <2> HIDE DEF g
    <2> QED BY <2>1, <2>2, <2>3
  <1> HIDE DEF e, h
  <1>6. v \in Fates /\ v # "sent"
    BY DEF Fates
  <1>7. g \in [Requests -> Fates] /\ g[h] # "sent" /\ \A q \in Requests : q # h => g[q] = fate[q]
    BY <1>1, <1>3, <1>6
  <1> HIDE DEF g, v
  <1>8. Turns(a, e, fate, g)
    BY <1>3, <1>4, <1>7 DEF Turns
  <1>9. Sound(b, T, g)
    BY <1>1, <1>3, <1>7, <1>8, SameRemaps, SoundChanges
  <1>10. Looking(b, T)
    BY <1>1, <1>2, <1>3, LookingSame DEF Searches
  <1> HIDE DEF T
  <1>11. Is(St(b, T, g))
    BY <1>2, <1>5 DEF h
  <1> QED BY <1>9, <1>10, <1>11, BecomesSt

LEMMA OffsetShuts ==
  ASSUME ClientInv, NEW x \in Sockets, socket[x].phase = "open", socket[x].kind = "offset",
         NEW o \in Socket, o.kind = socket[x].kind, o.node = socket[x].node, o.sent = <<>>,
         NEW r, r = Head(socket[x].sent), NEW v \in Fates, v # "sent",
         Is(Drop(St(b, [socket EXCEPT ![x] = o], [fate EXCEPT ![r] = v]), x))
  PROVE  ClientInv'
  <1> DEFINE a == socket[x]
             g == [fate EXCEPT ![r] = v]
             e == Shut(o)
             T == [socket EXCEPT ![x] = o]
             U == [socket EXCEPT ![x] = e]
  <1>1. /\ Sound(b, socket, fate) /\ b \in GroupMembers /\ socket \in [Sockets -> Socket] /\ fate \in [Requests -> Fates]
        /\ Client = St(b, socket, fate) /\ Looking(b, socket) /\ a \in Socket /\ Carries(a)
    BY ClientTyped DEF ClientInv
  <1>2. a.sent \in Seq(Requests) /\ Len(a.sent) = 1 /\ r = a.sent[1] /\ r \in Requests
    BY <1>1 DEF Carries, Socket
  <1>3. \A q : Waits(a, q) <=> q = r
    <2>1. 1 \in 1 .. Len(a.sent) /\ \A i \in 1 .. Len(a.sent) : i = 1
      BY <1>2
    <2> QED BY <1>2, <2>1 DEF Waits
  <1>4. g \in [Requests -> Fates] /\ g[r] # "sent" /\ \A q \in Requests : q # r => g[q] = fate[q]
    BY <1>1, <1>2
  <1> HIDE DEF g
  <1>5. T \in [Sockets -> Socket] /\ T[x] = o /\ [T EXCEPT ![x] = e] = U
    <2> HIDE DEF e
    <2> QED BY <1>1
  <1>6. /\ e \in Socket /\ e.phase = "closed" /\ e.kind = a.kind /\ e.node = a.node /\ Carries(e)
        /\ \A q : ~Waits(e, q)
    BY ShutIs
  <1>7. Hushed(o, g) = g
    <2>1. \A q : ~Waits(o, q)
      <3>1. Len(o.sent) = 0
        OBVIOUS
      <3> QED BY <3>1 DEF Waits
    <2> QED BY <1>4, <2>1 DEF Hushed
  <1> HIDE DEF T, U, e
  <1>8. Is(St(b, U, g))
    <2>1. Is(Drop(St(b, T, g), x))
      BY DEF T, g
    <2>2. Drop(St(b, T, g), x) = St(b, U, g)
      BY <1>4, <1>5, <1>7, DropIs DEF e
    <2> QED BY <2>1, <2>2
  <1>9. Turns(a, e, fate, g)
    BY <1>3, <1>4, <1>6 DEF Turns
  <1>10. SameRole(a, e)
    BY <1>6 DEF SameRole
  <1>11. Sound(b, U, g)
    BY <1>1, <1>4, <1>6, <1>9, <1>10, SameRemaps, SoundChanges DEF U
  <1>12. ~Searches(a)
    BY DEF Searches
  <1>13. Looking(b, U)
    BY <1>1, <1>12, LookingSame DEF U
  <1> QED BY <1>8, <1>11, <1>13, BecomesSt

LEMMA OffsetAnsweredKeeps ==
  ASSUME ClientInv, NEW x \in Sockets, OffsetAnswered(x)
  PROVE  ClientInv'
  <1> DEFINE a == socket[x]
             none == <<>>
             yes == TRUE
             r == Head(a.sent)
             s == [Client EXCEPT !.socket[x].sent = <<>>]
             o1 == [a EXCEPT !.sent = none]
             o2 == [o1 EXCEPT !.ok = yes]
  <1>1. /\ socket \in [Sockets -> Socket] /\ fate \in [Requests -> Fates]
        /\ Client = St(b, socket, fate) /\ a \in Socket /\ Sound(b, socket, fate) /\ Carries(a)
    BY ClientTyped
  <1>2. a.phase = "open" /\ a.kind = "offset"
    BY DEF OffsetAnswered
  <1>3. fate[r] = "sent"
    <2>1. a.sent \in Seq(Requests) /\ Len(a.sent) = 1 /\ r = a.sent[1] /\ r \in Requests
      BY <1>1, <1>2 DEF Carries, Socket
    <2>2. Waits(a, r)
      <3>1. 1 \in 1 .. Len(a.sent)
        BY <2>1
      <3> QED BY <2>1, <3>1 DEF Waits
    <2> QED BY <1>1, <2>1, <2>2 DEF Sound, Waiting
  <1>4. s = St(b, [socket EXCEPT ![x] = o1], fate)
    <2>1. [St(b, socket, fate) EXCEPT !.socket[x].sent = none] = St(b, [socket EXCEPT ![x] = o1], fate)
      <3> HIDE DEF none
      <3> QED BY DEF St
    <2> QED BY <1>1, <2>1
  <1>5. none \in Seq(Requests) /\ yes \in BOOLEAN /\ none = <<>>
    OBVIOUS
  <1>6. PICK ok \in BOOLEAN :
          Is(Drop(IF ok THEN Answer([s EXCEPT !.socket[x].ok = TRUE], r) ELSE [s EXCEPT !.fate[r] = "silent"], x))
    BY DEF OffsetAnswered
  <1> HIDE DEF none, yes, r
  <1>7. o1 \in Socket /\ o1.kind = a.kind /\ o1.node = a.node /\ o1.sent = none
    BY <1>1, <1>5 DEF Socket
  <1> HIDE DEF o1
  <1>8. o2 \in Socket /\ o2.kind = a.kind /\ o2.node = a.node /\ o2.sent = none
    BY <1>5, <1>7 DEF Socket
  <1>9. CASE ok
    <2> DEFINE v == "answered"
    <2>1. Is(Drop(Answer([s EXCEPT !.socket[x].ok = yes], r), x))
      BY <1>6, <1>9 DEF yes
    <2> HIDE DEF s
    <2>2. [s EXCEPT !.socket[x].ok = yes] = St(b, [socket EXCEPT ![x] = o2], fate)
      <3>1. [St(b, [socket EXCEPT ![x] = o1], fate) EXCEPT !.socket[x].ok = yes]
              = St(b, [[socket EXCEPT ![x] = o1] EXCEPT ![x] = [@ EXCEPT !.ok = yes]], fate)
        BY DEF St
      <3>2. [[socket EXCEPT ![x] = o1] EXCEPT ![x] = [@ EXCEPT !.ok = yes]] = [socket EXCEPT ![x] = o2]
        BY <1>1
      <3> QED BY <1>4, <3>1, <3>2
    <2> HIDE DEF o2
    <2>3. Answer(St(b, [socket EXCEPT ![x] = o2], fate), r)
            = St(b, [socket EXCEPT ![x] = o2], [fate EXCEPT ![r] = v])
      <3> DEFINE T == [socket EXCEPT ![x] = o2]
      <3> HIDE DEF T
      <3>1. Answer(St(b, T, fate), r) = [St(b, T, fate) EXCEPT !.fate[r] = v]
        BY <1>3 DEF Answer, St
      <3> HIDE DEF v
      <3>2. [St(b, T, fate) EXCEPT !.fate[r] = v] = St(b, T, [fate EXCEPT ![r] = v])
        BY DEF St
      <3> QED BY <3>1, <3>2 DEF T
    <2>4. v \in Fates /\ v # "sent"
      BY DEF Fates
    <2> HIDE DEF v
    <2>5. Is(Drop(St(b, [socket EXCEPT ![x] = o2], [fate EXCEPT ![r] = v]), x))
      BY <2>1, <2>2, <2>3
    <2> QED BY <1>2, <1>5, <1>8, <2>4, <2>5, OffsetShuts DEF r
  <1>10. CASE ~ok
    <2> DEFINE v == "silent"
    <2>1. Is(Drop([s EXCEPT !.fate[r] = v], x))
      BY <1>6, <1>10
    <2>2. v \in Fates /\ v # "sent"
      BY DEF Fates
    <2> HIDE DEF v, s
    <2>3. [s EXCEPT !.fate[r] = v] = St(b, [socket EXCEPT ![x] = o1], [fate EXCEPT ![r] = v])
      BY <1>4 DEF St
    <2>4. Is(Drop(St(b, [socket EXCEPT ![x] = o1], [fate EXCEPT ![r] = v]), x))
      BY <2>1, <2>3
    <2> QED BY <1>2, <1>5, <1>7, <2>2, <2>4, OffsetShuts DEF r
  <1> QED BY <1>9, <1>10

(* closed() *)
Left(h, m, x) == \A n \in Nodes : m[n] = IF h[n] = x THEN NoSocket ELSE h[n]

LEMMA ReleasedSound ==
  ASSUME NEW c, NEW S, NEW f, Sound(c, S, f), NEW x \in Sockets, S[x].phase = "closed",
         NEW d \in GroupMembers, Left(c.produce, d.produce, x), Left(c.fetch, d.fetch, x)
  PROVE  Sound(d, [S EXCEPT ![x] = Unused], f)
  <1> DEFINE none == <<>>
             no == FALSE
             e == [phase |-> "gone", kind |-> "metadata", node |-> NoNode, sent |-> none, ok |-> no]
  <1>1. none \in Seq(Requests) /\ no \in BOOLEAN /\ Len(none) = 0 /\ none = <<>>
    OBVIOUS
  <1>2. Unused = e
    BY DEF Unused
  <1> HIDE DEF none, no
  <1>3. e \in Socket /\ e.phase = "gone" /\ e.kind = "metadata" /\ e.sent = none
    BY <1>1 DEF Socket
  <1> HIDE DEF e
  <1>4. Carries(e) /\ \A r : ~Waits(e, r)
    BY <1>1, <1>3 DEF Carries, Waits
  <1>5. \A r : ~Waits(S[x], r)
    BY GoneIsEmpty
  <1>6. Turns(S[x], e, f, f)
    BY <1>4, <1>5 DEF Turns
  <1>7. Remaps(c.produce, d.produce, "produce", x, e) /\ Remaps(c.fetch, d.fetch, "fetch", x, e)
    BY <1>3, ClientAssumption DEF Left, Remaps, Leads
  <1>8. f \in [Requests -> Fates]
    BY DEF Sound
  <1> QED BY <1>2, <1>3, <1>4, <1>6, <1>7, <1>8, SoundChanges

LEMMA LeftSame ==
  ASSUME NEW c, NEW S, NEW f, Sound(c, S, f), NEW x \in Sockets
  PROVE  /\ S[x].kind # "produce" => Left(c.produce, c.produce, x)
         /\ S[x].kind # "fetch" => Left(c.fetch, c.fetch, x)
  BY DEF Sound, Mapped, Leads, Left

LEMMA MetadataClosedKeeps ==
  ASSUME ClientInv, NEW x \in Sockets, socket[x].phase = "closed", socket[x].kind = "metadata", MetadataClosed(x)
  PROVE  ClientInv'
  <1> DEFINE T == [socket EXCEPT ![x] = Unused]
             s == Release(Client, x)
             m == IF b.retries < MaxRetries THEN b.retries + 1 ELSE b.retries
             c1 == [b EXCEPT !.retries = m]
             c2 == [b EXCEPT !.currentState = "Ready"]
  <1>1. /\ Sound(b, socket, fate) /\ b \in GroupMembers /\ Client = St(b, socket, fate) /\ Looking(b, socket)
    BY ClientTyped DEF ClientInv
  <1>2. Left(b.produce, b.produce, x) /\ Left(b.fetch, b.fetch, x)
    BY <1>1, LeftSame
  <1>3. s = St(b, T, fate)
    BY <1>1 DEF Release, St
  <1>4. Is(IF b.allBrokers = {} THEN [s EXCEPT !.b.retries = IF @ < MaxRetries THEN @ + 1 ELSE @]
           ELSE [s EXCEPT !.b.currentState = "Ready"])
    BY DEF MetadataClosed
  <1> HIDE DEF T, s
  <1>5. CASE b.allBrokers = {}
    <2>1. Is([s EXCEPT !.b.retries = IF @ < MaxRetries THEN @ + 1 ELSE @])
      BY <1>4, <1>5
    <2>2. [s EXCEPT !.b.retries = IF @ < MaxRetries THEN @ + 1 ELSE @] = St(c1, T, fate)
      BY <1>3 DEF St
    <2>3. m \in 0 .. MaxRetries /\ m > 0
      BY <1>1, ClientAssumption DEF GroupMembers
    <2> HIDE DEF m
    <2>4. c1 \in GroupMembers /\ c1.produce = b.produce /\ c1.fetch = b.fetch /\ c1.retries = m
      BY <1>1, <2>3 DEF GroupMembers
    <2> HIDE DEF c1
    <2>5. Sound(c1, T, fate)
      BY <1>1, <1>2, <2>4, ReleasedSound DEF T
    <2>6. Looking(c1, T)
      BY <2>3, <2>4 DEF Looking
    <2>7. Is(St(c1, T, fate))
      BY <2>1, <2>2
    <2> QED BY <2>5, <2>6, <2>7, BecomesSt
  <1>6. CASE b.allBrokers # {}
    <2>1. Is([s EXCEPT !.b.currentState = "Ready"])
      BY <1>4, <1>6
    <2>2. [s EXCEPT !.b.currentState = "Ready"] = St(c2, T, fate)
      BY <1>3 DEF St
    <2>4. c2 \in GroupMembers /\ c2.produce = b.produce /\ c2.fetch = b.fetch /\ c2.allBrokers = b.allBrokers
      BY <1>1 DEF GroupMembers
    <2> HIDE DEF c2
    <2>5. Sound(c2, T, fate)
      BY <1>1, <1>2, <2>4, ReleasedSound DEF T
    <2>6. Looking(c2, T)
      BY <1>6, <2>4 DEF Looking
    <2>7. Is(St(c2, T, fate))
      BY <2>1, <2>2
    <2> QED BY <2>5, <2>6, <2>7, BecomesSt
  <1> QED BY <1>5, <1>6

LEMMA ProduceClosedKeeps ==
  ASSUME ClientInv, NEW x \in Sockets, NEW can \in BOOLEAN, socket[x].phase = "closed",
         socket[x].kind = "produce", ProduceClosed(x, can)
  PROVE  ClientInv'
  <1> DEFINE T == [socket EXCEPT ![x] = Unused]
             h == [n \in Nodes |-> IF b.produce[n] = x THEN NoSocket ELSE b.produce[n]]
             d == [b EXCEPT !.produce = h]
  <1>1. /\ Sound(b, socket, fate) /\ b \in GroupMembers /\ Client = St(b, socket, fate)
    BY ClientTyped
  <1>2. h \in [Nodes -> Sockets \cup {NoSocket}] /\ Left(b.produce, h, x)
    BY <1>1 DEF GroupMembers, Left
  <1>3. [Client EXCEPT !.b.produce = [n \in Nodes |-> IF @[n] = x THEN NoSocket ELSE @[n]]] = St(d, socket, fate)
    BY <1>1 DEF St
  <1> HIDE DEF h
  <1>4. d \in GroupMembers /\ d.produce = h /\ d.fetch = b.fetch
    BY <1>1, <1>2 DEF GroupMembers
  <1> HIDE DEF d
  <1>5. Release(St(d, socket, fate), x) = St(d, T, fate)
    BY DEF Release, St
  <1>6. Sound(d, T, fate)
    <2>1. Left(b.fetch, b.fetch, x)
      BY <1>1, LeftSame
    <2> QED BY <1>1, <1>2, <1>4, <2>1, ReleasedSound
  <1> HIDE DEF T
  <1>7. Is(FetchMetaData(St(d, T, fate), can))
    BY <1>3, <1>5 DEF ProduceClosed
  <1> QED BY <1>6, <1>7, FetchesKeeps

LEMMA FetchClosedKeeps ==
  ASSUME ClientInv, NEW x \in Sockets, NEW can \in BOOLEAN, socket[x].phase = "closed",
         socket[x].kind = "fetch", FetchClosed(x, can)
  PROVE  ClientInv'
  <1> DEFINE T == [socket EXCEPT ![x] = Unused]
             h == [n \in Nodes |-> IF b.fetch[n] = x THEN NoSocket ELSE b.fetch[n]]
             d == [b EXCEPT !.fetch = h]
  <1>1. /\ Sound(b, socket, fate) /\ b \in GroupMembers /\ Client = St(b, socket, fate)
    BY ClientTyped
  <1>2. h \in [Nodes -> Sockets \cup {NoSocket}] /\ Left(b.fetch, h, x)
    BY <1>1 DEF GroupMembers, Left
  <1>3. [Client EXCEPT !.b.fetch = [n \in Nodes |-> IF @[n] = x THEN NoSocket ELSE @[n]]] = St(d, socket, fate)
    BY <1>1 DEF St
  <1> HIDE DEF h
  <1>4. d \in GroupMembers /\ d.fetch = h /\ d.produce = b.produce
    BY <1>1, <1>2 DEF GroupMembers
  <1> HIDE DEF d
  <1>5. Release(St(d, socket, fate), x) = St(d, T, fate)
    BY DEF Release, St
  <1>6. Sound(d, T, fate)
    <2>1. Left(b.produce, b.produce, x)
      BY <1>1, LeftSame
    <2> QED BY <1>1, <1>2, <1>4, <2>1, ReleasedSound
  <1> HIDE DEF T
  <1>7. Is(FetchMetaData(St(d, T, fate), can))
    BY <1>3, <1>5 DEF FetchClosed
  <1> QED BY <1>6, <1>7, FetchesKeeps

LEMMA OffsetClosedKeeps ==
  ASSUME ClientInv, NEW x \in Sockets, NEW can \in BOOLEAN, socket[x].phase = "closed",
         socket[x].kind = "offset", OffsetClosed(x, can)
  PROVE  ClientInv'
  <1> DEFINE T == [socket EXCEPT ![x] = Unused]
  <1>1. /\ Sound(b, socket, fate) /\ b \in GroupMembers /\ Client = St(b, socket, fate) /\ Looking(b, socket)
        /\ socket \in [Sockets -> Socket]
    BY ClientTyped DEF ClientInv
  <1>2. Release(Client, x) = St(b, T, fate)
    BY <1>1 DEF Release, St
  <1>3. Sound(b, T, fate)
    BY <1>1, LeftSame, ReleasedSound
  <1>4. Looking(b, T)
    <2>1. ~Searches(socket[x])
      BY DEF Searches
    <2> QED BY <1>1, <2>1, LookingSame
  <1> HIDE DEF T
  <1>5. Is(St(b, T, fate)) \/ Is(FetchMetaData(St(b, T, fate), can))
    BY <1>2 DEF OffsetClosed
  <1> QED BY <1>3, <1>4, <1>5, BecomesSt, FetchesKeeps

LEMMA SocketClosedKeeps ==
  ASSUME ClientInv, NEW x \in Sockets, NEW can \in BOOLEAN, SocketClosed(x, can)
  PROVE  ClientInv'
  BY MetadataClosedKeeps, ProduceClosedKeeps, FetchClosedKeeps, OffsetClosedKeeps DEF SocketClosed

LEMMA ClientStep == ClientInv /\ [ClientNext]_cvars => ClientInv'
  <1> SUFFICES ASSUME ClientInv, [ClientNext]_cvars PROVE ClientInv'
    OBVIOUS
  <1>1. CASE UNCHANGED cvars
    BY <1>1 DEF cvars, ClientInv
  <1>2. ASSUME NEW can \in BOOLEAN, Connect(can) \/ Retry(can) PROVE ClientInv'
    BY <1>2, ConnectKeeps
  <1>3. ASSUME NEW can \in BOOLEAN, NEW r \in Requests, Ask(r, can) PROVE ClientInv'
    BY <1>3, AskKeeps
  <1>4. ASSUME NEW can \in BOOLEAN, NEW x \in Sockets, SocketClosed(x, can) PROVE ClientInv'
    BY <1>4, SocketClosedKeeps
  <1>5. ASSUME NEW x \in Sockets, ReadMetaData(x) \/ Answered(x) \/ OffsetAnswered(x) \/ Broken(x) PROVE ClientInv'
    BY <1>5, ReadMetaDataKeeps, AnsweredKeeps, OffsetAnsweredKeeps, BrokenKeeps
  <1> QED BY <1>1, <1>2, <1>3, <1>4, <1>5 DEF ClientNext

(* Whatever breaks and whatever is refused, a request is answered once, a *)
(* connection that has not called closed() is the one its map leads to, *)
(* and the search for the cluster goes on (kafkaconnectorimpl.cpp, *)
(* kafkaproduceconnection.cpp, kafkafetchconnection.cpp). *)
THEOREM ClientKeptHolds == ClientSpec => []ClientKept
  <1>1. ClientInit => ClientInv
    BY ClientBegins
  <1>2. ClientInv /\ [ClientNext]_cvars => ClientInv'
    BY ClientStep
  <1>3. ClientInv => ClientKept
    BY ClientNow
  <1> QED BY <1>1, <1>2, <1>3, PTL DEF ClientSpec

----------------------------------------

(****************************************)
(* The shares of a Kafka group *)
(****************************************)

(* The smallest of the numbers that satisfy what a set is made of. *)
LEMMA LeastOf ==
  ASSUME NEW S, S \subseteq Nat, S # {}
  PROVE  \E m \in S : \A jj \in S : m <= jj
<1> DEFINE L == OpToRel(<, Nat)
<1>1. IsWellFoundedOn(L, Nat)
  BY NatLessThanWellFounded
<1>2. \A x, y \in Nat : x < y => <<x, y>> \in L
  BY DEF OpToRel
<1> HIDE DEF L
<1>3. PICK m \in S : \A jj \in S : ~(<<jj, m>> \in L)
  BY <1>1, WFMin
<1>4. \A jj \in S : m <= jj
  <2> TAKE jj \in S
  <2>1. jj \in Nat /\ m \in Nat
    OBVIOUS
  <2>2. ~(jj < m)
    BY <1>2, <1>3, <2>1
  <2> QED BY <2>1, <2>2
<1> QED BY <1>4

LEMMA MinIs ==
  ASSUME NEW S, S \subseteq Nat, S # {}
  PROVE  Min(S) \in S /\ \A jj \in S : Min(S) <= jj
<1>1. \E m \in S : \A jj \in S : m <= jj
  BY LeastOf
<1> QED BY <1>1 DEF Min

(* There is a first of pairs of numbers. *)
LEMMA FirstIs ==
  ASSUME NEW S, S \subseteq Nat \X Nat, S # {}
  PROVE  First(S) \in S
<1> DEFINE A == {x[1] : x \in S}
<1>0. \A x \in S : x[1] \in Nat /\ x[2] \in Nat /\ x = <<x[1], x[2]>>
  OBVIOUS
<1>1. PICK a \in A : \A dd \in A : a <= dd
  <2>1. A \subseteq Nat /\ A # {} BY <1>0
  <2> HIDE DEF A
  <2> QED BY <2>1, LeastOf
<1> DEFINE B == {x[2] : x \in {y \in S : y[1] = a}}
<1>2. PICK dd \in B : \A c \in B : dd <= c
  <2>1. B \subseteq Nat /\ B # {} BY <1>0
  <2> HIDE DEF B
  <2> QED BY <2>1, LeastOf
<1>3. PICK x \in S : x[1] = a /\ x[2] = dd
  OBVIOUS
<1>4. ASSUME NEW y \in S, y # x  PROVE Before(x, y)
  <2>1. a <= y[1] /\ y[1] \in Nat /\ y[2] \in Nat /\ x[1] \in Nat /\ x[2] \in Nat BY <1>0, <1>1
  <2>2. CASE y[1] = a
    <3>1. dd <= y[2] BY <1>2, <2>2
    <3>2. y[2] # x[2] BY <1>0, <1>3, <1>4, <2>2
    <3> QED BY <1>3, <2>1, <2>2, <3>1, <3>2 DEF Before
  <2>3. CASE y[1] # a
    BY <1>3, <2>1, <2>3 DEF Before
  <2> QED BY <2>2, <2>3
<1> HIDE DEF A, B
<1>5. \E z \in S : \A y \in S \ {z} : Before(z, y)
  BY <1>4
<1> QED BY <1>5 DEF First

(* A piece of a topic has as many partitions as numbers. *)
Piece(t, a, n) == {<<t, i>> : i \in a .. a + n - 1}

LEMMA PieceSize ==
  ASSUME NEW t, NEW a \in Nat, NEW n \in Nat
  PROVE  IsFiniteSet(Piece(t, a, n)) /\ Cardinality(Piece(t, a, n)) = n
<1> DEFINE P == {<<t, i>> : i \in a .. a + n - 1}
           I == a .. a + n - 1
           f == [i \in I |-> <<t, i>>]
<1>1. IsFiniteSet(I) /\ Cardinality(I) = n
  <2>1. IsFiniteSet(I) /\ Cardinality(I) = IF a > a + n - 1 THEN 0 ELSE (a + n - 1) - a + 1
    BY FS_Interval
  <2>2. (IF a > a + n - 1 THEN 0 ELSE (a + n - 1) - a + 1) = n OBVIOUS
  <2> HIDE DEF I
  <2> QED BY <2>1, <2>2
<1>2. f \in Bijection(I, P)
  <2>1. f \in [I -> P] OBVIOUS
  <2>2. \A i, j \in I : f[i] = f[j] => i = j OBVIOUS
  <2>3. \A x \in P : \E i \in I : f[i] = x OBVIOUS
  <2> HIDE DEF I, P, f
  <2> QED BY <2>1, <2>2, <2>3 DEF Bijection, Injection, Surjection, IsInjective
<1>3. ExistsBijection(I, P)
  BY <1>2 DEF ExistsBijection
<1> HIDE DEF I, P, f
<1>4. IsFiniteSet(P) /\ Cardinality(P) = n
  BY <1>1, <1>3, FS_Bijection
<1> QED BY <1>4 DEF P, Piece

LEMMA Grows ==
  ASSUME NEW dd \in Nat, NEW x \in Int, NEW y \in Int, x <= y
  PROVE  dd * x <= dd * y
BY SMTT(20)

LEMMA Divided ==
  ASSUME NEW a \in Nat, NEW dd \in Nat \ {0}
  PROVE  /\ a \div dd \in Nat /\ a % dd \in Nat /\ a % dd < dd
         /\ a = dd * (a \div dd) + (a % dd)
<1>1. a = dd * (a \div dd) + (a % dd)
  BY Z3
<1>2. a % dd \in 0 .. dd - 1
  BY Z3
<1>3. a \div dd \in Int
  BY Z3
<1> DEFINE q == a \div dd
           r == a % dd
<1>4. q \in Int /\ a = dd * q + r /\ r \in 0 .. dd - 1
  BY <1>1, <1>2, <1>3
<1> HIDE DEF q, r
<1>5. CASE q < 0
  <2>1. q + 1 <= 0 /\ q + 1 \in Int BY <1>4, <1>5
  <2>2. dd * (q + 1) <= dd * 0 BY <2>1, Grows
  <2>3. dd * (q + 1) = dd * q + dd BY <1>4, SMTT(20)
  <2>4. dd * q \in Int /\ dd * 0 = 0 BY <1>4
  <2> QED BY <1>4, <2>2, <2>3, <2>4
<1>6. CASE q >= 0
  <2>1. q \in Nat /\ r \in Nat /\ r < dd /\ a = dd * q + r BY <1>4, <1>6
  <2> QED BY <2>1 DEF q, r
<1> QED BY <1>4, <1>5, <1>6

----------------------------------------

(****************************************)
(* The shares of a topic.  "range": after j members the first Upto(t, j) *)
(* of its partitions are dealt out. *)
(****************************************)
Size(t) == Cardinality(known[t])
Each(t) == Size(t) \div Cardinality(Subscribers(t))
More(t) == Size(t) % Cardinality(Subscribers(t))
Upto(t, j) == Each(t) * j + (IF j < More(t) THEN j ELSE More(t))

\* The first n belong to members of S, who have as many each, but for one.
Dealt(t, n, S) ==
  /\ \A i \in 0 .. n - 1 : \E m \in S : \A o \in Members : <<t, i>> \in given[o] <=> o = m
  /\ \A m \in Members, i \in Nat : <<t, i>> \in given[m] => m \in S /\ i < n
  /\ \A m \in S : Cardinality(PartOf(m, t)) \in {Each(t), Each(t) + 1}

Untouched(t) == \A m \in Members, i \in Nat : <<t, i>> \notin given[m]

ShareTypes ==
  /\ at \in {"idle", "share", "done"} /\ protocol \in {"range", "roundrobin"}
  /\ subs \in [Members -> SUBSET Topics] /\ known \in [Topics -> SUBSET Partitions]
  /\ given \in [Members -> SUBSET (Topics \X Nat)]
  /\ topics \subseteq Topics /\ left \subseteq Topics \X Nat /\ waiting \subseteq Members
  /\ at = "idle" => /\ protocol = "range" /\ given = [m \in Members |-> {}]
                    /\ topics = {} /\ left = {} /\ waiting = {}

InTopic(t) ==
  /\ t \in topics /\ waiting \subseteq Subscribers(t)
  /\ count = Cardinality(Subscribers(t))
  /\ pId = Upto(t, count - Cardinality(waiting))
  /\ Dealt(t, pId, Subscribers(t) \ waiting)

RangeInv ==
  at # "idle" /\ protocol = "range" =>
    /\ left = {} /\ \A t \in topics : Subscribers(t) # {}
    /\ waiting # {} => topics # {} /\ \A t \in topics : t = Min(topics) => InTopic(t)
    /\ \A t \in topics : waiting = {} \/ t # Min(topics) => Untouched(t)
    /\ \A t \in Topics \ topics :
         IF Subscribers(t) = {} THEN Untouched(t) ELSE Dealt(t, Size(t), Subscribers(t))
    /\ at = "done" => topics = {}

(* "roundrobin": what is left and what is given are all there is, and the *)
(* members that had their turn in this round have one more. *)
RoundInv ==
  at # "idle" /\ protocol = "roundrobin" =>
    /\ topics = {} /\ waiting = {} /\ turn \in Keys(subs)
    /\ \A t \in Topics, i \in Nat :
         (<<t, i>> \in left \/ \E m \in Members : <<t, i>> \in given[m])
           <=> (Subscribers(t) # {} /\ i < Size(t))
    /\ \A m \in Members : /\ IsFiniteSet(given[m]) /\ given[m] \cap left = {}
                          /\ \A x \in given[m] : x[1] \in subs[m]
    /\ \A m, n \in Members : m # n => given[m] \cap given[n] = {}
    /\ (\A m, n \in Keys(subs) : subs[m] = subs[n]) =>
         \E c \in Nat : \A m \in Keys(subs) :
           Cardinality(given[m]) = IF m < turn THEN c + 1 ELSE c
    /\ at = "done" => left = {}

ShareInv == ShareTypes /\ RangeInv /\ RoundInv

----------------------------------------

LEMMA SizesAre ==
  ASSUME ShareTypes, NEW t \in Topics
  PROVE  /\ Size(t) \in Nat
         /\ Subscribers(t) \subseteq Members /\ IsFiniteSet(Subscribers(t))
         /\ Cardinality(Subscribers(t)) \in Nat
         /\ Subscribers(t) # {} =>
              /\ Cardinality(Subscribers(t)) \in Nat \ {0}
              /\ Each(t) \in Nat /\ More(t) \in Nat /\ More(t) < Cardinality(Subscribers(t))
              /\ Size(t) = Cardinality(Subscribers(t)) * Each(t) + More(t)
<1>1. known[t] \subseteq Partitions
  BY DEF ShareTypes
<1>2. IsFiniteSet(known[t])
  BY <1>1, AssignAssumption, FS_Subset
<1>3. Size(t) \in Nat
  BY <1>2, FS_CardinalityType DEF Size
<1>4. Subscribers(t) \subseteq Members
  BY DEF Subscribers
<1>5. IsFiniteSet(Subscribers(t))
  BY <1>4, AssignAssumption, FS_Subset
<1>6. Cardinality(Subscribers(t)) \in Nat
  BY <1>5, FS_CardinalityType
<1>7. Subscribers(t) # {} => Cardinality(Subscribers(t)) \in Nat \ {0}
  BY <1>5, <1>6, FS_EmptySet
<1>8. ASSUME Subscribers(t) # {}
      PROVE  /\ Each(t) \in Nat /\ More(t) \in Nat /\ More(t) < Cardinality(Subscribers(t))
             /\ Size(t) = Cardinality(Subscribers(t)) * Each(t) + More(t)
  <2> DEFINE a == Size(t)
             dd == Cardinality(Subscribers(t))
  <2>1. a \in Nat /\ dd \in Nat \ {0} BY <1>3, <1>7, <1>8
  <2> HIDE DEF a, dd
  <2>2. /\ a \div dd \in Nat /\ a % dd \in Nat /\ a % dd < dd
        /\ a = dd * (a \div dd) + (a % dd)
    BY <2>1, Divided
  <2> QED BY <2>2 DEF a, dd, Each, More
<1> QED BY <1>3, <1>4, <1>5, <1>6, <1>7, <1>8

(* The next member gets what is between. *)
LEMMA NextPiece ==
  ASSUME ShareTypes, NEW t \in Topics, Subscribers(t) # {},
         count = Cardinality(Subscribers(t)),
         NEW j \in 0 .. count - 1
  PROVE  /\ Upto(t, 0) = 0
         /\ Share(t, j) \in {Each(t), Each(t) + 1} /\ Share(t, j) \in Nat
         /\ Upto(t, j) \in Nat /\ Upto(t, j + 1) = Upto(t, j) + Share(t, j)
         /\ Upto(t, count) = Size(t)
<1> DEFINE q == Each(t)
           r == More(t)
<1>1. /\ count \in Nat \ {0} /\ q \in Nat /\ r \in Nat /\ r < count
      /\ Size(t) = count * q + r /\ Size(t) \in Nat /\ j \in Nat /\ j <= count - 1
  BY SizesAre
<1>2. Share(t, j) = q + (IF j < r THEN 1 ELSE 0)
  BY DEF Share, Each, More, Size
<1>3. \A i : Upto(t, i) = q * i + (IF i < r THEN i ELSE r)
  BY DEF Upto
<1> HIDE DEF q, r
<1>4. q * (j + 1) = q * j + q /\ q * j \in Nat
  BY <1>1, SMTT(20)
<1>5. q * count = count * q /\ count * q \in Nat /\ q * 0 = 0
  BY <1>1, SMTT(20)
<1>6. Share(t, j) \in {q, q + 1} /\ Share(t, j) \in Nat
  BY <1>1, <1>2
<1>7. Upto(t, 0) = 0
  BY <1>1, <1>3, <1>5
<1>8. Upto(t, count) = Size(t)
  <2>1. ~(count < r) BY <1>1
  <2> QED BY <1>1, <1>3, <1>5, <2>1
<1>9. Upto(t, j) \in Nat /\ Upto(t, j + 1) = Upto(t, j) + Share(t, j)
  <2> DEFINE p == q * j
             u == IF j < r THEN j ELSE r
             v == IF j + 1 < r THEN j + 1 ELSE r
             w == IF j < r THEN 1 ELSE 0
  <2>1. Upto(t, j) = p + u BY <1>3
  <2>2. Upto(t, j + 1) = (p + q) + v BY <1>3, <1>4
  <2>3. v = u + w /\ u \in Nat /\ w \in Nat BY <1>1
  <2>4. Share(t, j) = q + w BY <1>2
  <2>5. p \in Nat BY <1>4
  <2> HIDE DEF p, u, v, w
  <2> QED BY <1>1, <2>1, <2>2, <2>3, <2>4, <2>5
<1> QED BY <1>6, <1>7, <1>8, <1>9 DEF q

----------------------------------------

LEMMA SharesBegin == AssignInit => ShareInv
BY DEF AssignInit, ShareInv, ShareTypes, RangeInv, RoundInv

(* "range" begins with no topic given, "roundrobin" with all partitions left. *)
LEMMA BeginKeeps ==
  ASSUME ShareInv, BeginShares
  PROVE  ShareInv'
<1>1. PICK s \in [Members -> SUBSET Topics], jj \in [Topics -> SUBSET Partitions] :
        /\ Subscribe(s, jj)
        /\ at' = IF Keys(s) = {} THEN "done" ELSE "share"
        /\ \/ Keys(s) = {} /\ UNCHANGED <<protocol, topics, left, turn>>
           \/ /\ Keys(s) # {} /\ protocol' = "range"
              /\ topics' = {t \in UNION {s[m] : m \in Members} : jj[t] # {}}
              /\ UNCHANGED <<left, turn>>
           \/ /\ Keys(s) # {} /\ protocol' = "roundrobin"
              /\ left' = UNION {{<<t, i>> : i \in 0 .. Cardinality(jj[t]) - 1} :
                                t \in UNION {s[m] : m \in Members}}
              /\ turn' = Min(Keys(s))
              /\ UNCHANGED topics
  BY DEF BeginShares
<1>2. /\ subs' = s /\ known' = jj /\ given' = given /\ waiting' = waiting
      /\ given = [m \in Members |-> {}] /\ waiting = {} /\ left = {} /\ topics = {} /\ protocol = "range"
      /\ at' # "idle" /\ at' \in {"share", "done"}
  BY <1>1 DEF Subscribe, ShareInv, ShareTypes, BeginShares
<1>3. \A t : Subscribers(t)' = {m \in Members : t \in s[m]}
  BY <1>2 DEF Subscribers
<1>4. \A t \in Topics : Subscribers(t)' # {} <=> t \in UNION {s[m] : m \in Members}
  BY <1>3
<1>5. ASSUME ShareTypes', NEW t \in Topics
      PROVE  /\ Size(t)' \in Nat /\ Size(t)' = Cardinality(jj[t]) /\ (jj[t] = {} => Size(t)' = 0)
             /\ Subscribers(t)' # {} => Each(t)' \in Nat /\ (Size(t)' = 0 => Each(t)' = 0)
  <2>1. jj[t] \subseteq Partitions OBVIOUS
  <2>2. IsFiniteSet(jj[t]) BY <2>1, AssignAssumption, FS_Subset
  <2>3. Cardinality(jj[t]) \in Nat /\ (jj[t] = {} => Cardinality(jj[t]) = 0)
    BY <2>2, FS_CardinalityType, FS_EmptySet
  <2>4. Size(t)' = Cardinality(jj[t]) BY <1>2 DEF Size
  <2> DEFINE S == Subscribers(t)'
  <2>5. IsFiniteSet(S)
    <3>1. S \subseteq Members BY <1>3
    <3> QED BY <3>1, AssignAssumption, FS_Subset
  <2>6. S # {} => Cardinality(S) \in Nat \ {0}
    BY <2>5, FS_CardinalityType, FS_EmptySet
  <2> DEFINE a == Size(t)'
             dd == Cardinality(S)
  <2>7. Each(t)' = a \div dd BY DEF Each
  <2>8. a \in Nat BY <2>3, <2>4
  <2> HIDE DEF a, dd
  <2>9. dd \in Nat \ {0} => a \div dd \in Nat /\ (a = 0 => a \div dd = 0)
    <3> SUFFICES ASSUME dd \in Nat \ {0}  PROVE a \div dd \in Nat /\ (a = 0 => a \div dd = 0)
      OBVIOUS
    <3>1. a \div dd \in Nat BY <2>8, Divided
    <3>2. a = 0 => a \div dd = 0 BY SMT
    <3> QED BY <3>1, <3>2
  <2> QED BY <2>3, <2>4, <2>6, <2>7, <2>8, <2>9 DEF a, dd
<1>6. CASE Keys(s) = {} /\ UNCHANGED <<protocol, topics, left, turn>>
  <2>1. \A m \in Members : s[m] = {} BY <1>6 DEF Keys
  <2>2. ShareTypes'
    BY <1>1, <1>2, <1>6 DEF ShareInv, ShareTypes
  <2>3. \A t \in Topics : Subscribers(t)' = {} /\ Untouched(t)'
    BY <1>2, <1>3, <2>1 DEF Untouched
  <2>4. RangeInv'
    BY <1>2, <1>6, <2>3 DEF RangeInv
  <2>5. RoundInv'
    BY <1>2, <1>6 DEF RoundInv
  <2> QED BY <2>2, <2>4, <2>5 DEF ShareInv
<1>7. CASE /\ Keys(s) # {} /\ protocol' = "range"
           /\ topics' = {t \in UNION {s[m] : m \in Members} : jj[t] # {}}
           /\ UNCHANGED <<left, turn>>
  <2>1. ShareTypes'
    BY <1>1, <1>2, <1>7 DEF ShareInv, ShareTypes
  <2>2. \A t \in Topics : Untouched(t)'
    BY <1>2 DEF Untouched
  <2>3. \A t \in topics' : t \in Topics /\ Subscribers(t)' # {}
    BY <1>3, <1>7
  <2>4. ASSUME NEW t \in Topics \ topics', Subscribers(t)' # {}
        PROVE  Dealt(t, Size(t), Subscribers(t))'
    <3>1. jj[t] = {} BY <1>4, <1>7, <2>4
    <3>2. Size(t)' = 0 /\ Each(t)' = 0 BY <1>5, <2>1, <2>4, <3>1
    <3>3. \A m \in Members : PartOf(m, t)' = {} BY <1>2 DEF PartOf
    <3>4. \A m \in Subscribers(t)' : m \in Members BY <1>3
    <3>5. \A m \in Subscribers(t)' : Cardinality(PartOf(m, t)') = 0 BY <3>3, <3>4, FS_EmptySet
    <3>6. 0 .. Size(t)' - 1 = {} BY <3>2
    <3> QED BY <2>2, <2>4, <3>2, <3>5, <3>6 DEF Dealt, Untouched
  <2>5. at' # "done"
    BY <1>1, <1>7
  <2>6. RangeInv'
    BY <1>2, <1>7, <2>2, <2>3, <2>4, <2>5 DEF RangeInv
  <2>7. RoundInv'
    BY <1>7 DEF RoundInv
  <2> QED BY <2>1, <2>6, <2>7 DEF ShareInv
<1>8. CASE /\ Keys(s) # {} /\ protocol' = "roundrobin"
           /\ left' = UNION {{<<t, i>> : i \in 0 .. Cardinality(jj[t]) - 1} :
                             t \in UNION {s[m] : m \in Members}}
           /\ turn' = Min(Keys(s))
           /\ UNCHANGED topics
  <2>0. \A t \in Topics : Cardinality(jj[t]) \in Nat
    <3> TAKE t \in Topics
    <3>1. jj[t] \subseteq Partitions OBVIOUS
    <3>2. IsFiniteSet(jj[t]) BY <3>1, AssignAssumption, FS_Subset
    <3> QED BY <3>2, FS_CardinalityType
  <2>1. \A t \in UNION {s[m] : m \in Members} : t \in Topics
    OBVIOUS
  <2>2. \A x \in left' : x \in Topics \X Nat
    BY <1>8, <2>0, <2>1
  <2>3. ShareTypes'
    <3>1. left' \subseteq Topics \X Nat BY <2>2
    <3> QED BY <1>1, <1>2, <1>8, <3>1 DEF ShareInv, ShareTypes
  <2>4. Keys(subs)' = Keys(s) /\ Keys(s) \subseteq Members
    BY <1>2 DEF Keys
  <2>5. turn' \in Keys(s) /\ \A m \in Keys(s) : turn' <= m
    <3>1. Keys(s) \subseteq Nat BY <2>4, AssignAssumption
    <3> QED BY <1>8, <3>1, MinIs
  <2>6. ASSUME NEW t \in Topics, NEW i \in Nat
        PROVE  (<<t, i>> \in left' \/ \E m \in Members : <<t, i>> \in given'[m])
                 <=> (Subscribers(t)' # {} /\ i < Size(t)')
    <3>1. Size(t)' = Cardinality(jj[t]) /\ Size(t)' \in Nat BY <1>5, <2>3
    <3>2. <<t, i>> \in left' <=> t \in UNION {s[m] : m \in Members} /\ i \in 0 .. Cardinality(jj[t]) - 1
      BY <1>8
    <3>3. \A m \in Members : given'[m] = {} BY <1>2
    <3> QED BY <1>4, <3>1, <3>2, <3>3
  <2>7. \A m \in Members : given'[m] = {} /\ IsFiniteSet(given'[m]) /\ Cardinality(given'[m]) = 0
    BY <1>2, FS_EmptySet
  <2>8. \E c \in Nat : \A m \in Keys(s) : Cardinality(given'[m]) = IF m < turn' THEN c + 1 ELSE c
    <3>1. \A m \in Keys(s) : Cardinality(given'[m]) = 0 /\ ~(m < turn')
      <4> TAKE m \in Keys(s)
      <4>1. m \in Nat /\ turn' \in Nat /\ turn' <= m BY <2>4, <2>5, AssignAssumption
      <4> QED BY <2>4, <2>7, <4>1
    <3> QED BY <3>1
  <2>9. at' # "done"
    BY <1>1, <1>8
  <2>10. RoundInv'
    BY <1>2, <1>8, <2>4, <2>5, <2>6, <2>7, <2>8, <2>9 DEF RoundInv
  <2>11. RangeInv'
    BY <1>8 DEF RangeInv
  <2> QED BY <2>3, <2>10, <2>11 DEF ShareInv
<1> QED BY <1>1, <1>6, <1>7, <1>8

LEMMA RangeTopicKeeps ==
  ASSUME ShareInv, RangeTopic
  PROVE  ShareInv'
<1>0. PICK t : t = Min(topics)
  OBVIOUS
<1>1. /\ at = "share" /\ protocol = "range" /\ waiting = {} /\ topics # {}
      /\ waiting' = Subscribers(t) /\ count' = Cardinality(Subscribers(t)) /\ pId' = 0
      /\ UNCHANGED <<at, protocol, subs, known, given, topics, left, turn>>
  BY <1>0 DEF RangeTopic
<1>2. t \in topics /\ t \in Topics
  <2>1. topics \subseteq Nat /\ topics \subseteq Topics BY AssignAssumption DEF ShareInv, ShareTypes
  <2> QED BY <1>0, <1>1, <2>1, MinIs
<1>3. Subscribers(t) # {} /\ Untouched(t) /\ left = {}
  BY <1>1, <1>2 DEF ShareInv, RangeInv
<1>4. \A u : /\ Subscribers(u)' = Subscribers(u) /\ Size(u)' = Size(u) /\ Each(u)' = Each(u)
             /\ More(u)' = More(u) /\ (\A j : Upto(u, j)' = Upto(u, j))
             /\ (Untouched(u) => Untouched(u)')
             /\ (Dealt(u, Size(u), Subscribers(u)) => Dealt(u, Size(u), Subscribers(u))')
  BY <1>1 DEF Subscribers, Size, Each, More, Upto, Untouched, Dealt, PartOf
<1>5. ShareTypes'
  <2>1. Subscribers(t) \subseteq Members BY DEF Subscribers
  <2> QED BY <1>1, <2>1 DEF ShareInv, ShareTypes
<1>6. InTopic(t)'
  <2>1. count' \in Nat \ {0} BY <1>1, <1>2, <1>3, SizesAre DEF ShareInv
  <2>2. count' - Cardinality(waiting') = 0 BY <1>1, <2>1
  <2>3. Upto(t, 0) = 0
    <3>1. Size(t) \in Nat /\ Each(t) \in Nat /\ More(t) \in Nat BY <1>2, <1>3, SizesAre DEF ShareInv
    <3>2. Each(t) * 0 = 0 BY <3>1
    <3> QED BY <3>1, <3>2 DEF Upto
  <2>4. pId' = Upto(t, count - Cardinality(waiting))'
    BY <1>1, <1>4, <2>2, <2>3 DEF Upto
  <2>5. Dealt(t, pId, Subscribers(t) \ waiting)'
    <3>1. 0 .. pId' - 1 = {} /\ Subscribers(t)' \ waiting' = {} BY <1>1, <1>4
    <3>2. Untouched(t)' BY <1>3, <1>4
    <3> QED BY <3>1, <3>2 DEF Dealt, Untouched
  <2> QED BY <1>1, <1>2, <1>4, <2>4, <2>5 DEF InTopic
<1>7. RangeInv'
  <2>1. t = Min(topics)' BY <1>0, <1>1
  <2>2. RangeInv BY DEF ShareInv
  <2>3. left' = {} /\ topics' = topics /\ at' = "share" /\ \A u \in topics' : Subscribers(u)' # {}
    BY <1>1, <1>3, <1>4, <2>2 DEF RangeInv
  <2>4. \A u \in topics' : Untouched(u)'
    BY <1>1, <1>4, <2>2 DEF RangeInv
  <2>5. \A u \in Topics \ topics' :
          IF Subscribers(u)' = {} THEN Untouched(u)' ELSE Dealt(u, Size(u), Subscribers(u))'
    BY <1>1, <1>4, <2>2 DEF RangeInv
  <2>6. \A u \in topics' : u = Min(topics)' => InTopic(u)'
    BY <1>6, <2>1
  <2> QED BY <1>1, <2>3, <2>4, <2>5, <2>6 DEF RangeInv
<1>8. RoundInv'
  BY <1>1 DEF RoundInv
<1> QED BY <1>5, <1>7, <1>8 DEF ShareInv

(* "range": a member gets the next piece of the topic. *)
LEMMA RangeMemberKeeps ==
  ASSUME ShareInv, RangeMember
  PROVE  ShareInv'
<1>1. PICK t, m, j, n :
        /\ t = Min(topics) /\ m = Min(waiting) /\ j = count - Cardinality(waiting) /\ n = Share(t, j)
        /\ given' = [given EXCEPT ![m] = @ \cup {<<t, i>> : i \in pId .. pId + n - 1}]
        /\ pId' = pId + n
        /\ waiting' = waiting \ {m}
        /\ topics' = IF waiting = {m} THEN topics \ {t} ELSE topics
  BY DEF RangeMember
<1>2. /\ at = "share" /\ protocol = "range" /\ waiting # {}
      /\ UNCHANGED <<at, protocol, subs, known, left, count, turn>>
  BY DEF RangeMember
<1>3. ShareTypes /\ RangeInv
  BY DEF ShareInv
<1>4. topics # {} /\ topics \subseteq Topics /\ waiting \subseteq Members /\ left = {}
  BY <1>2, <1>3 DEF RangeInv, ShareTypes
<1>5. m \in waiting /\ m \in Members
  <2>1. waiting \subseteq Nat BY <1>4, AssignAssumption
  <2> QED BY <1>1, <1>2, <1>4, <2>1, MinIs
<1>6. t \in topics /\ t \in Topics
  <2>1. topics \subseteq Nat BY <1>4, AssignAssumption
  <2> QED BY <1>1, <1>4, <2>1, MinIs
<1> DEFINE S == Subscribers(t)
<1>7. /\ waiting \subseteq S /\ count = Cardinality(S) /\ pId = Upto(t, j) /\ S # {}
      /\ Dealt(t, pId, S \ waiting)
  <2>1. InTopic(t) BY <1>1, <1>2, <1>3, <1>6 DEF RangeInv
  <2> QED BY <1>1, <1>5, <2>1 DEF InTopic
<1>8. /\ IsFiniteSet(S) /\ IsFiniteSet(waiting) /\ S \subseteq Members
      /\ Cardinality(waiting) \in Nat \ {0} /\ Cardinality(waiting) <= count /\ count \in Nat
      /\ Cardinality(waiting') = Cardinality(waiting) - 1
      /\ waiting = {m} <=> waiting' = {}
  <2>1. IsFiniteSet(S) /\ S \subseteq Members /\ Cardinality(S) \in Nat BY <1>3, <1>6, SizesAre
  <2>2. IsFiniteSet(waiting) /\ Cardinality(waiting) <= Cardinality(S) BY <1>7, <2>1, FS_Subset
  <2>3. Cardinality(waiting) \in Nat \ {0} BY <1>2, <2>2, FS_CardinalityType, FS_EmptySet
  <2>4. Cardinality(waiting') = Cardinality(waiting) - 1 BY <1>1, <1>5, <2>2, FS_RemoveElement
  <2>5. waiting = {m} <=> waiting' = {} BY <1>1, <1>5
  <2> QED BY <1>7, <2>1, <2>2, <2>3, <2>4, <2>5
<1>9. j \in 0 .. count - 1 /\ j \in Nat /\ count - Cardinality(waiting') = j + 1
  BY <1>1, <1>8
<1>10. /\ n \in {Each(t), Each(t) + 1} /\ n \in Nat /\ pId \in Nat
       /\ pId' = Upto(t, j + 1) /\ Upto(t, count) = Size(t)
  BY <1>1, <1>3, <1>6, <1>7, <1>9, NextPiece
<1> HIDE DEF S
<1> DEFINE piece == {<<t, i>> : i \in pId .. pId + n - 1}
<1>11. given \in [Members -> SUBSET (Topics \X Nat)] /\ piece \subseteq Topics \X Nat
  BY <1>3, <1>6, <1>10 DEF ShareTypes
<1>12. /\ given' \in [Members -> SUBSET (Topics \X Nat)]
       /\ \A o \in Members \ {m} : given'[o] = given[o]
       /\ given'[m] = given[m] \cup piece
  <2> DEFINE g == given[m] \cup piece
  <2>1. g \in SUBSET (Topics \X Nat) BY <1>5, <1>11
  <2>2. given' = [given EXCEPT ![m] = g] BY <1>1
  <2> HIDE DEF g
  <2>3. given' \in [Members -> SUBSET (Topics \X Nat)] /\ given'[m] = g
        /\ \A o \in Members \ {m} : given'[o] = given[o]
    BY <1>5, <1>11, <2>1, <2>2
  <2> QED BY <2>3 DEF g
<1>13. \A i \in Nat : <<t, i>> \notin given[m]
  BY <1>5, <1>7 DEF Dealt
<1>14. \A u \in Topics \ {t}, o \in Members, i \in Nat : <<u, i>> \in given'[o] <=> <<u, i>> \in given[o]
  BY <1>12
<1>15. \A u, i : <<u, i>> \in piece <=> u = t /\ i \in pId .. pId + n - 1
  OBVIOUS
<1>16. PartOf(m, t)' = piece
  <2>1. \A x \in given'[m] : x[1] = t => x \in piece
    <3> SUFFICES ASSUME NEW x \in given'[m], x[1] = t  PROVE x \in piece
      OBVIOUS
    <3>1. x \in Topics \X Nat BY <1>5, <1>12
    <3>2. x = <<x[1], x[2]>> /\ x[2] \in Nat BY <3>1
    <3>3. x \notin given[m] BY <1>13, <3>2
    <3> QED BY <1>12, <3>3
  <2>2. \A x \in piece : x[1] = t /\ x \in given'[m]
    BY <1>12
  <2> HIDE DEF piece
  <2> QED BY <2>1, <2>2 DEF PartOf
<1>17. Cardinality(piece) = n
  <2>1. piece = Piece(t, pId, n) BY DEF Piece
  <2> HIDE DEF piece
  <2> QED BY <1>10, <2>1, PieceSize
<1>18. \A o \in Members \ {m} : \A u : PartOf(o, u)' = PartOf(o, u)
  BY <1>12 DEF PartOf
<1>19. \A u \in Topics \ {t} : PartOf(m, u)' = PartOf(m, u)
  <2> TAKE u \in Topics \ {t}
  <2>1. \A x \in piece : x[1] # u BY <1>15
  <2> HIDE DEF piece
  <2> QED BY <1>12, <2>1 DEF PartOf
<1> HIDE DEF piece
<1>20. \A u : /\ Subscribers(u)' = Subscribers(u) /\ Size(u)' = Size(u) /\ Each(u)' = Each(u)
              /\ More(u)' = More(u) /\ (\A i : Upto(u, i)' = Upto(u, i))
  BY <1>2 DEF Subscribers, Size, Each, More, Upto
<1>21. \A u \in Topics \ {t} : Untouched(u) => Untouched(u)'
  BY <1>14 DEF Untouched
<1>22. ASSUME NEW u \in Topics \ {t}, NEW jj \in Nat, Dealt(u, jj, Subscribers(u))
       PROVE  Dealt(u, jj, Subscribers(u))'
  <2>1. \A i \in 0 .. jj - 1 : i \in Nat OBVIOUS
  <2>2. \A o \in Members : PartOf(o, u)' = PartOf(o, u) BY <1>18, <1>19
  <2>3. \A o \in Subscribers(u) : o \in Members BY DEF Subscribers
  <2>4. Subscribers(u)' = Subscribers(u) /\ Each(u)' = Each(u) BY <1>20
  <2>5. \A i \in 0 .. jj - 1 : \E p \in Subscribers(u) : \A o \in Members : <<u, i>> \in given'[o] <=> o = p
    BY <1>14, <1>22, <2>1 DEF Dealt
  <2>6. \A p \in Members, i \in Nat : <<u, i>> \in given'[p] => p \in Subscribers(u) /\ i < jj
    BY <1>14, <1>22 DEF Dealt
  <2>7. \A p \in Subscribers(u) : Cardinality(PartOf(p, u)') \in {Each(u), Each(u) + 1}
    BY <1>22, <2>2, <2>3 DEF Dealt
  <2> QED BY <2>4, <2>5, <2>6, <2>7 DEF Dealt
<1>23. \A i \in 0 .. pId' - 1 : \E p \in S \ waiting' : \A o \in Members : <<t, i>> \in given'[o] <=> o = p
  <2> TAKE i \in 0 .. pId' - 1
  <2>0. i \in Nat /\ i < pId + n BY <1>1, <1>10
  <2>1. CASE i < pId
    <3>1. i \in 0 .. pId - 1 BY <1>10, <2>0, <2>1
    <3>2. PICK p \in S \ waiting : \A o \in Members : <<t, i>> \in given[o] <=> o = p BY <1>7, <3>1 DEF Dealt
    <3>3. <<t, i>> \notin piece BY <1>10, <1>15, <2>1, <2>0
    <3>4. \A o \in Members : <<t, i>> \in given'[o] <=> o = p BY <1>5, <1>12, <1>13, <2>0, <3>2, <3>3
    <3>5. p \in S \ waiting' BY <1>1, <3>2
    <3> QED BY <3>4, <3>5
  <2>2. CASE ~(i < pId)
    <3>1. <<t, i>> \in piece BY <1>10, <1>15, <2>0, <2>2
    <3>2. \A o \in Members \ {m} : <<t, i>> \notin given'[o] BY <1>7, <1>12, <2>0, <2>2 DEF Dealt
    <3>3. \A o \in Members : <<t, i>> \in given'[o] <=> o = m BY <1>12, <3>1, <3>2
    <3>4. m \in S \ waiting' BY <1>1, <1>5, <1>7
    <3> QED BY <3>3, <3>4
  <2> QED BY <2>1, <2>2
<1>24. \A o \in Members, i \in Nat : <<t, i>> \in given'[o] => o \in S \ waiting' /\ i < pId'
  <2> SUFFICES ASSUME NEW o \in Members, NEW i \in Nat, <<t, i>> \in given'[o]
               PROVE  o \in S \ waiting' /\ i < pId'
    OBVIOUS
  <2>1. CASE o = m
    <3>1. <<t, i>> \in piece BY <1>12, <1>13, <2>1
    <3>2. i \in pId .. pId + n - 1 BY <1>15, <3>1
    <3> QED BY <1>1, <1>5, <1>7, <1>10, <2>1, <3>2
  <2>2. CASE o # m
    <3>1. o \in S \ waiting /\ i < pId BY <1>7, <1>12, <2>2 DEF Dealt
    <3> QED BY <1>1, <1>10, <3>1
  <2> QED BY <2>1, <2>2
<1>25. \A o \in S \ waiting' : Cardinality(PartOf(o, t)') \in {Each(t), Each(t) + 1}
  <2> TAKE o \in S \ waiting'
  <2>1. CASE o = m BY <1>10, <1>16, <1>17, <2>1
  <2>2. CASE o # m
    <3>1. o \in S \ waiting /\ o \in Members BY <1>1, <1>8, <2>2
    <3> QED BY <1>7, <1>18, <2>2, <3>1 DEF Dealt
  <2> QED BY <2>1, <2>2
<1>26. Dealt(t, pId, Subscribers(t) \ waiting)'
  BY <1>20, <1>23, <1>24, <1>25 DEF Dealt, S
<1>27. ShareTypes'
  BY <1>1, <1>2, <1>3, <1>12 DEF ShareTypes
<1>28. RangeInv'
  <2>1. \A u \in topics' : u \in topics /\ u \in Topics /\ Subscribers(u)' # {}
    BY <1>1, <1>2, <1>3, <1>4, <1>20 DEF RangeInv
  <2>2. \A u \in Topics \ topics : IF Subscribers(u)' = {} THEN Untouched(u)' ELSE Dealt(u, Size(u), Subscribers(u))'
    <3> TAKE u \in Topics \ topics
    <3>1. u # t /\ Size(u) \in Nat BY <1>3, <1>6, SizesAre
    <3>2. CASE Subscribers(u) = {} BY <1>2, <1>3, <1>20, <1>21, <3>1, <3>2 DEF RangeInv
    <3>3. CASE Subscribers(u) # {}
      <4>1. Dealt(u, Size(u), Subscribers(u)) BY <1>2, <1>3, <3>3 DEF RangeInv
      <4> DEFINE jj == Size(u)
      <4>2. PICK c : c = jj OBVIOUS
      <4>3. c \in Nat /\ Dealt(u, c, Subscribers(u)) BY <3>1, <4>1, <4>2
      <4>4. Dealt(u, c, Subscribers(u))' BY <1>22, <3>1, <4>3
      <4>5. c = Size(u)' BY <1>20, <4>2
      <4>6. Dealt(u, Size(u), Subscribers(u))' BY <4>4, <4>5 DEF Dealt
      <4> QED BY <1>20, <3>3, <4>6
    <3> QED BY <3>2, <3>3
  <2>3. CASE waiting = {m}
    <3>1. waiting' = {} /\ topics' = topics \ {t} BY <1>1, <1>8, <2>3
    <3>2. \A u \in topics' : Untouched(u)' BY <1>1, <1>2, <1>3, <1>4, <1>21, <3>1 DEF RangeInv
    <3>3. pId' = Size(t)'
      <4>1. j + 1 = count BY <1>8, <1>9, <3>1, FS_EmptySet
      <4> QED BY <1>10, <1>20, <4>1
    <3>4. Dealt(t, Size(t), Subscribers(t))'
      BY <1>26, <3>1, <3>3 DEF Dealt
    <3>5. Subscribers(t)' # {} BY <1>7, <1>20 DEF S
    <3>6. \A u \in Topics \ topics' : IF Subscribers(u)' = {} THEN Untouched(u)' ELSE Dealt(u, Size(u), Subscribers(u))'
      <4> TAKE u \in Topics \ topics'
      <4>1. CASE u = t BY <3>4, <3>5, <4>1
      <4>2. CASE u # t
        <5>1. u \in Topics \ topics BY <3>1, <4>2
        <5> QED BY <2>2, <5>1
      <4> QED BY <4>1, <4>2
    <3> QED BY <1>2, <1>4, <2>1, <3>1, <3>2, <3>6 DEF RangeInv
  <2>4. CASE waiting # {m}
    <3>1. waiting' # {} /\ topics' = topics BY <1>1, <1>8, <2>4
    <3>2. Min(topics)' = t BY <1>1, <3>1
    <3>3. \A u \in topics' : u # t => Untouched(u)' BY <1>1, <1>2, <1>3, <1>4, <1>21, <3>1 DEF RangeInv
    <3>4. InTopic(t)'
      <4>1. Upto(t, count - Cardinality(waiting))' = Upto(t, j + 1)
        BY <1>2, <1>9, <1>20 DEF Upto
      <4>2. pId' = Upto(t, count - Cardinality(waiting))' BY <1>10, <4>1
      <4>3. waiting' \subseteq Subscribers(t)' /\ count' = Cardinality(Subscribers(t)')
        BY <1>1, <1>2, <1>7, <1>20 DEF S
      <4> QED BY <1>6, <1>26, <3>1, <4>2, <4>3 DEF InTopic
    <3> QED BY <1>2, <1>4, <2>1, <2>2, <3>1, <3>2, <3>3, <3>4 DEF RangeInv
  <2> QED BY <2>3, <2>4
<1>29. RoundInv'
  BY <1>2 DEF RoundInv
<1> QED BY <1>27, <1>28, <1>29 DEF ShareInv

(* The turn goes up through the members, and from the last to the first. *)
LEMMA TurnGoesOn ==
  ASSUME NEW m \in Keys(subs), ShareTypes
  PROVE  /\ NextMember(m) \in Keys(subs) /\ m \in Nat /\ NextMember(m) \in Nat
         /\ \/ m < NextMember(m) /\ \A x \in Keys(subs) : m < x => NextMember(m) <= x
            \/ \A x \in Keys(subs) : x <= m /\ NextMember(m) <= x
<1>1. Keys(subs) \subseteq Members /\ Keys(subs) \subseteq Nat
  BY AssignAssumption DEF Keys, ShareTypes
<1> DEFINE Later == {n \in Keys(subs) : n > m}
<1>2. CASE \E n \in Keys(subs) : n > m
  <2>1. Later # {} /\ Later \subseteq Nat BY <1>1, <1>2
  <2>2. NextMember(m) = Min(Later) BY <1>2 DEF NextMember
  <2>3. Min(Later) \in Later /\ \A x \in Later : Min(Later) <= x
    <3> HIDE DEF Later
    <3> QED BY <2>1, MinIs
  <2> QED BY <1>1, <2>2, <2>3
<1>3. CASE ~\E n \in Keys(subs) : n > m
  <2>1. NextMember(m) = Min(Keys(subs)) BY <1>3 DEF NextMember
  <2>2. Min(Keys(subs)) \in Keys(subs) /\ \A x \in Keys(subs) : Min(Keys(subs)) <= x
    BY <1>1, MinIs
  <2>3. \A x \in Keys(subs) : x <= m
    <3> TAKE x \in Keys(subs)
    <3>1. x \in Nat /\ m \in Nat /\ ~(x > m) BY <1>1, <1>3
    <3> QED BY <3>1
  <2> QED BY <1>1, <2>1, <2>2, <2>3
<1> QED BY <1>2, <1>3

(* "roundrobin": nothing is lost or given twice, and who has had the turn *)
(* is one ahead. *)
LEMMA RoundRobinKeeps ==
  ASSUME ShareInv, RoundRobin
  PROVE  ShareInv'
<1>1. PICK jj, own :
        /\ jj = turn /\ own = {x \in left : x[1] \in subs[turn]}
        /\ \/ own = {} /\ UNCHANGED <<given, left>>
           \/ /\ own # {} /\ given' = [given EXCEPT ![turn] = @ \cup {First(own)}]
              /\ left' = left \ {First(own)}
  BY DEF RoundRobin
<1>2. /\ at = "share" /\ protocol = "roundrobin" /\ left # {} /\ turn' = NextMember(turn)
      /\ UNCHANGED <<at, protocol, subs, known, topics, waiting, count, pId>>
  BY DEF RoundRobin
<1>3. ShareTypes
  BY DEF ShareInv
<1>4. /\ topics = {} /\ waiting = {} /\ turn \in Keys(subs)
      /\ \A t \in Topics, i \in Nat :
           (<<t, i>> \in left \/ \E m \in Members : <<t, i>> \in given[m])
             <=> (Subscribers(t) # {} /\ i < Size(t))
      /\ \A m \in Members : /\ IsFiniteSet(given[m]) /\ given[m] \cap left = {}
                            /\ \A x \in given[m] : x[1] \in subs[m]
      /\ \A m, n \in Members : m # n => given[m] \cap given[n] = {}
      /\ (\A m, n \in Keys(subs) : subs[m] = subs[n]) =>
           \E c \in Nat : \A m \in Keys(subs) :
             Cardinality(given[m]) = IF m < turn THEN c + 1 ELSE c
  BY <1>2 DEF ShareInv, RoundInv
<1>5. left \subseteq Topics \X Nat /\ given \in [Members -> SUBSET (Topics \X Nat)] /\ own \subseteq left
  BY <1>1, <1>3 DEF ShareTypes
<1>6. /\ turn \in Members /\ turn' \in Keys(subs) /\ turn \in Nat /\ turn' \in Nat
      /\ Keys(subs) \subseteq Members
      /\ \/ turn < turn' /\ \A x \in Keys(subs) : turn < x => turn' <= x
         \/ \A x \in Keys(subs) : x <= turn /\ turn' <= x
  <2>1. Keys(subs) \subseteq Members BY <1>3 DEF Keys, ShareTypes
  <2> QED BY <1>2, <1>3, <1>4, <2>1, TurnGoesOn
<1>7. \A t : Subscribers(t)' = Subscribers(t) /\ Size(t)' = Size(t)
  BY <1>2 DEF Subscribers, Size
<1>8. Keys(subs)' = Keys(subs)
  BY <1>2 DEF Keys
<1>9. RangeInv'
  BY <1>2 DEF RangeInv
<1>10. CASE own = {} /\ UNCHANGED <<given, left>>
  <2>1. ~\A m, n \in Keys(subs) : subs[m] = subs[n]
    <3> SUFFICES ASSUME \A m, n \in Keys(subs) : subs[m] = subs[n]  PROVE FALSE
      OBVIOUS
    <3>1. PICK x \in left : TRUE BY <1>2
    <3>2. x[1] \in Topics /\ x[2] \in Nat /\ x = <<x[1], x[2]>> BY <1>5
    <3>3. Subscribers(x[1]) # {} BY <1>4, <3>2
    <3>4. PICK m \in Members : x[1] \in subs[m] BY <3>3 DEF Subscribers
    <3>5. m \in Keys(subs) BY <1>3, <3>4 DEF Keys, ShareTypes
    <3>6. x[1] \in subs[turn] BY <1>4, <3>4, <3>5
    <3> QED BY <1>1, <1>10, <3>6
  <2>2. ShareTypes'
    BY <1>2, <1>3, <1>10 DEF ShareTypes
  <2>3. RoundInv'
    BY <1>2, <1>4, <1>6, <1>7, <1>8, <1>10, <2>1 DEF RoundInv
  <2> QED BY <1>9, <2>2, <2>3 DEF ShareInv
<1>11. CASE /\ own # {} /\ given' = [given EXCEPT ![turn] = @ \cup {First(own)}]
            /\ left' = left \ {First(own)}
  <2>1. PICK f : f = First(own)
    OBVIOUS
  <2>2. f \in own /\ f \in left /\ f \in Topics \X Nat /\ f[1] \in subs[turn]
    <3>1. own \subseteq Nat \X Nat BY <1>5, AssignAssumption
    <3> QED BY <1>1, <1>5, <1>11, <2>1, <3>1, FirstIs
  <2>3. /\ given' \in [Members -> SUBSET (Topics \X Nat)]
        /\ given'[turn] = given[turn] \cup {f}
        /\ \A o \in Members \ {turn} : given'[o] = given[o]
    <3> DEFINE g == given[turn] \cup {f}
    <3>1. g \in SUBSET (Topics \X Nat) BY <1>5, <1>6, <2>2
    <3>2. given' = [given EXCEPT ![turn] = g] BY <1>11, <2>1
    <3> HIDE DEF g
    <3>3. given' \in [Members -> SUBSET (Topics \X Nat)] /\ given'[turn] = g
          /\ \A o \in Members \ {turn} : given'[o] = given[o]
      BY <1>5, <1>6, <3>1, <3>2
    <3> QED BY <3>3 DEF g
  <2>4. left' = left \ {f}
    BY <1>11, <2>1
  <2>5. ShareTypes'
    BY <1>2, <1>3, <1>5, <2>3, <2>4 DEF ShareTypes
  <2>6. \A x : (x \in left' \/ \E m \in Members : x \in given'[m]) <=>
               (x \in left \/ \E m \in Members : x \in given[m])
    BY <1>6, <2>2, <2>3, <2>4
  <2>7. \A m \in Members : IsFiniteSet(given'[m])
    <3> TAKE m \in Members
    <3>1. CASE m = turn
      <4>1. IsFiniteSet(given[turn]) BY <1>4, <1>6
      <4>2. IsFiniteSet(given[turn] \cup {f}) BY <4>1, FS_AddElement
      <4> QED BY <2>3, <3>1, <4>2
    <3>2. CASE m # turn BY <1>4, <2>3, <3>2
    <3> QED BY <3>1, <3>2
  <2>8. \A m \in Members : given'[m] \cap left' = {} /\ \A x \in given'[m] : x[1] \in subs[m]
    BY <1>4, <1>6, <2>2, <2>3, <2>4
  <2>9. \A m, n \in Members : m # n => given'[m] \cap given'[n] = {}
    <3> SUFFICES ASSUME NEW m \in Members, NEW n \in Members, m # n, NEW x, x \in given'[m], x \in given'[n]
                 PROVE  FALSE
      OBVIOUS
    <3>1. CASE x = f
      <4>1. \A o \in Members : f \notin given[o] BY <1>4, <2>2
      <4> QED BY <2>3, <3>1, <4>1
    <3>2. CASE x # f
      <4>1. x \in given[m] /\ x \in given[n] BY <2>3, <3>2
      <4> QED BY <1>4, <4>1
    <3> QED BY <3>1, <3>2
  <2>10. ASSUME \A m, n \in Keys(subs) : subs[m] = subs[n]
         PROVE  \E c \in Nat : \A m \in Keys(subs) :
                  Cardinality(given'[m]) = IF m < turn' THEN c + 1 ELSE c
    <3>1. PICK c \in Nat : \A m \in Keys(subs) :
                             Cardinality(given[m]) = IF m < turn THEN c + 1 ELSE c
      BY <1>4, <2>10
    <3>2. Cardinality(given'[turn]) = c + 1
      <4>1. f \notin given[turn] BY <1>4, <1>6, <2>2
      <4>2. Cardinality(given'[turn]) = Cardinality(given[turn]) + 1
        BY <1>4, <1>6, <2>3, <4>1, FS_AddElement
      <4>3. Cardinality(given[turn]) = c BY <1>4, <1>6, <3>1
      <4> QED BY <4>2, <4>3
    <3>3. \A m \in Keys(subs) : m \in Nat /\ m \in Members BY <1>6, AssignAssumption
    <3>4. \A m \in Keys(subs) : Cardinality(given'[m]) = IF m <= turn THEN c + 1 ELSE c
      <4> TAKE m \in Keys(subs)
      <4>1. CASE m = turn BY <1>6, <3>2, <4>1
      <4>2. CASE m # turn
        <5>1. Cardinality(given'[m]) = IF m < turn THEN c + 1 ELSE c BY <2>3, <3>1, <3>3, <4>2
        <5>2. m <= turn <=> m < turn BY <1>6, <3>3, <4>2
        <5> QED BY <5>1, <5>2
      <4> QED BY <4>1, <4>2
    <3>5. CASE turn < turn' /\ \A x \in Keys(subs) : turn < x => turn' <= x
      <4>1. \A m \in Keys(subs) : m <= turn <=> m < turn' BY <1>6, <3>3, <3>5
      <4> QED BY <3>4, <4>1
    <3>6. CASE \A x \in Keys(subs) : x <= turn /\ turn' <= x
      <4>1. \A m \in Keys(subs) : m <= turn /\ ~(m < turn') BY <1>6, <3>3, <3>6
      <4>2. \A m \in Keys(subs) : Cardinality(given'[m]) = IF m < turn' THEN (c + 1) + 1 ELSE c + 1
        BY <3>4, <4>1
      <4> QED BY <4>2
    <3> QED BY <1>6, <3>5, <3>6
  <2>11. RoundInv'
    BY <1>2, <1>4, <1>6, <1>7, <1>8, <2>6, <2>7, <2>8, <2>9, <2>10 DEF RoundInv
  <2> QED BY <1>9, <2>5, <2>11 DEF ShareInv
<1> QED BY <1>1, <1>10, <1>11

LEMMA SharesKept == ShareInv /\ [AssignNext]_avars => ShareInv'
<1> SUFFICES ASSUME ShareInv, [AssignNext]_avars  PROVE ShareInv'
  OBVIOUS
<1>1. ASSUME UNCHANGED <<protocol, subs, known, given, topics, left, waiting, count, pId, turn>>,
             at' = at \/ (at = "share" /\ at' = "done" /\ topics = {} /\ left = {})
      PROVE  ShareInv'
  <2>1. \A t : /\ Subscribers(t)' = Subscribers(t) /\ Size(t)' = Size(t)
               /\ (Untouched(t) => Untouched(t)') /\ (InTopic(t) => InTopic(t)')
               /\ (Dealt(t, Size(t), Subscribers(t)) => Dealt(t, Size(t), Subscribers(t))')
    BY <1>1 DEF Subscribers, Size, Untouched, InTopic, Dealt, PartOf, Each, More, Upto
  <2>2. ShareTypes'
    BY <1>1 DEF ShareInv, ShareTypes
  <2>3. RangeInv'
    BY <1>1, <2>1 DEF ShareInv, RangeInv
  <2>4. RoundInv'
    BY <1>1, <2>1 DEF ShareInv, RoundInv, Keys
  <2> QED BY <2>2, <2>3, <2>4 DEF ShareInv
<1>2. CASE SharesDone
  BY <1>1, <1>2 DEF SharesDone
<1>3. CASE UNCHANGED avars
  BY <1>1, <1>3 DEF avars
<1> QED
  BY <1>2, <1>3, BeginKeeps, RangeTopicKeeps, RangeMemberKeeps, RoundRobinKeeps DEF AssignNext

LEMMA SharesAreFair == ShareInv => SharesFair
<1> SUFFICES ASSUME ShareInv, at = "done"  PROVE AssignedOnce /\ Even
  BY DEF SharesFair
<1>0. ShareTypes /\ protocol \in {"range", "roundrobin"}
  BY DEF ShareInv, ShareTypes
<1>1. \A m \in Members : \A x \in given[m] : x[1] \in Topics /\ x[2] \in Nat /\ x = <<x[1], x[2]>>
  <2>1. \A m \in Members : given[m] \subseteq Topics \X Nat BY <1>0 DEF ShareTypes
  <2> QED BY <2>1
<1>2. \A t \in Topics : Size(t) \in Nat
  BY <1>0, SizesAre
<1>3. Numbered => \A t \in Topics : known[t] = 0 .. Size(t) - 1
  BY DEF Numbered, Size
<1>4. CASE protocol = "range"
  <2>1. \A t \in Topics : IF Subscribers(t) = {} THEN Untouched(t) ELSE Dealt(t, Size(t), Subscribers(t))
    BY <1>4 DEF ShareInv, RangeInv
  <2>2. ASSUME Numbered, NEW t \in Topics
        PROVE  \A i \in known[t] : Subscribers(t) # {} => \E m \in Subscribers(t) : Owners(t, i) = {m}
    <3> SUFFICES ASSUME NEW i \in known[t], Subscribers(t) # {}
                 PROVE  \E m \in Subscribers(t) : Owners(t, i) = {m}
      OBVIOUS
    <3>1. i \in 0 .. Size(t) - 1 BY <1>3, <2>2
    <3>2. PICK m \in Subscribers(t) : \A o \in Members : <<t, i>> \in given[o] <=> o = m
      BY <2>1, <3>1 DEF Dealt
    <3>3. m \in Members BY DEF Subscribers
    <3>4. Owners(t, i) = {m} BY <3>2, <3>3 DEF Owners
    <3> QED BY <3>4
  <2>3. ASSUME Numbered, NEW m \in Members, NEW x \in given[m]
        PROVE  x[2] \in known[x[1]] /\ x[1] \in subs[m]
    <3> DEFINE t == x[1]
               i == x[2]
    <3>1. t \in Topics /\ i \in Nat /\ <<t, i>> \in given[m] BY <1>1
    <3> HIDE DEF t, i
    <3>2. ~Untouched(t) BY <3>1 DEF Untouched
    <3>3. m \in Subscribers(t) /\ i < Size(t) BY <2>1, <3>1, <3>2 DEF Dealt
    <3>4. i \in 0 .. Size(t) - 1 BY <1>2, <3>1, <3>3
    <3>5. i \in known[t] BY <1>3, <2>3, <3>1, <3>4
    <3>6. t \in subs[m] BY <3>3 DEF Subscribers
    <3> QED BY <3>5, <3>6 DEF t, i
  <2>4. AssignedOnce
    BY <2>2, <2>3 DEF AssignedOnce
  <2>5. Even
    <3>1. ASSUME NEW t \in Topics, NEW m \in Subscribers(t), NEW n \in Subscribers(t)
          PROVE  Cardinality(PartOf(m, t)) <= Cardinality(PartOf(n, t)) + 1
      <4>1. Each(t) \in Nat BY <1>0, SizesAre
      <4>2. /\ Cardinality(PartOf(m, t)) \in {Each(t), Each(t) + 1}
            /\ Cardinality(PartOf(n, t)) \in {Each(t), Each(t) + 1}
        BY <2>1 DEF Dealt
      <4> QED BY <4>1, <4>2
    <3> QED BY <1>4, <3>1 DEF Even
  <2> QED BY <2>4, <2>5
<1>5. CASE protocol = "roundrobin"
  <2>1. /\ left = {} /\ turn \in Keys(subs)
        /\ \A t \in Topics, i \in Nat :
             (<<t, i>> \in left \/ \E m \in Members : <<t, i>> \in given[m])
               <=> (Subscribers(t) # {} /\ i < Size(t))
        /\ \A m \in Members : \A x \in given[m] : x[1] \in subs[m]
        /\ \A m, n \in Members : m # n => given[m] \cap given[n] = {}
        /\ (\A m, n \in Keys(subs) : subs[m] = subs[n]) =>
             \E c \in Nat : \A m \in Keys(subs) :
               Cardinality(given[m]) = IF m < turn THEN c + 1 ELSE c
    BY <1>5 DEF ShareInv, RoundInv
  <2>2. ASSUME Numbered, NEW t \in Topics
        PROVE  \A i \in known[t] : Subscribers(t) # {} => \E m \in Subscribers(t) : Owners(t, i) = {m}
    <3> SUFFICES ASSUME NEW i \in known[t], Subscribers(t) # {}
                 PROVE  \E m \in Subscribers(t) : Owners(t, i) = {m}
      OBVIOUS
    <3>1. i \in Nat /\ i < Size(t) BY <1>2, <1>3, <2>2
    <3>2. PICK m \in Members : <<t, i>> \in given[m] BY <2>1, <3>1
    <3>3. \A o \in Members : <<t, i>> \in given[o] => o = m BY <2>1, <3>2
    <3>4. Owners(t, i) = {m} BY <3>2, <3>3 DEF Owners
    <3>5. <<t, i>>[1] \in subs[m] BY <2>1, <3>2
    <3>6. m \in Subscribers(t) BY <3>5 DEF Subscribers
    <3> QED BY <3>4, <3>6
  <2>3. ASSUME Numbered, NEW m \in Members, NEW x \in given[m]
        PROVE  x[2] \in known[x[1]] /\ x[1] \in subs[m]
    <3> DEFINE t == x[1]
               i == x[2]
    <3>1. t \in Topics /\ i \in Nat /\ <<t, i>> \in given[m] BY <1>1
    <3>2. t \in subs[m] BY <2>1
    <3> HIDE DEF t, i
    <3>3. i < Size(t) BY <2>1, <3>1
    <3>4. i \in 0 .. Size(t) - 1 BY <1>2, <3>1, <3>3
    <3>5. i \in known[t] BY <1>3, <2>3, <3>1, <3>4
    <3> QED BY <3>2, <3>5 DEF t, i
  <2>4. AssignedOnce
    BY <2>2, <2>3 DEF AssignedOnce
  <2>5. Even
    <3>1. ASSUME \A m, n \in Keys(subs) : subs[m] = subs[n], NEW m \in Keys(subs), NEW n \in Keys(subs)
          PROVE  Cardinality(given[m]) <= Cardinality(given[n]) + 1
      <4>1. PICK c \in Nat : \A o \in Keys(subs) :
                               Cardinality(given[o]) = IF o < turn THEN c + 1 ELSE c
        BY <2>1, <3>1
      <4>2. Cardinality(given[m]) \in {c, c + 1} /\ Cardinality(given[n]) \in {c, c + 1} BY <4>1
      <4> QED BY <4>1, <4>2
    <3> QED BY <1>5, <3>1 DEF Even
  <2> QED BY <2>4, <2>5
<1> QED BY <1>0, <1>4, <1>5

----------------------------------------

(* A function is defined by its first value and the way to the next: it is *)
(* put together from those that are defined up to a number. *)
GoesFrom(f, n, first, next) ==
  \A i \in 0 .. n : f[i] = IF i = 0 THEN first ELSE next[f[i - 1]]

LEMMA GoesOne ==
  ASSUME NEW first, NEW next, NEW f, NEW g, NEW m \in Nat, NEW n \in Nat, m <= n,
         GoesFrom(f, m, first, next), GoesFrom(g, n, first, next)
  PROVE  f[m] = g[m]
<1> DEFINE Bad == {i \in 0 .. m : f[i] # g[i]}
<1>1. CASE Bad # {}
  <2>1. Bad \subseteq Nat OBVIOUS
  <2>2. PICK i \in Bad : \A jj \in Bad : i <= jj
    <3> HIDE DEF Bad
    <3> QED BY <1>1, <2>1, LeastOf
  <2>3. i \in 0 .. m /\ i \in 0 .. n /\ f[i] # g[i] OBVIOUS
  <2>4. i # 0 BY <2>3 DEF GoesFrom
  <2>5. i - 1 \in 0 .. m /\ ~(i <= i - 1) BY <2>3, <2>4
  <2>6. f[i - 1] = g[i - 1] BY <2>2, <2>5
  <2> QED BY <2>3, <2>4, <2>6 DEF GoesFrom
<1>2. CASE Bad = {}
  BY <1>2
<1> QED BY <1>1, <1>2

Defined(first, next) ==
  \E f : f = [n \in Nat |-> IF n = 0 THEN first ELSE next[f[n - 1]]]

LEMMA GoesOn ==
  ASSUME NEW first, NEW next
  PROVE  Defined(first, next)
<1> DEFINE Bad == {n \in Nat : ~\E f : GoesFrom(f, n, first, next)}
<1>1. Bad = {}
  <2> SUFFICES ASSUME Bad # {}  PROVE FALSE
    OBVIOUS
  <2>1. PICK n \in Bad : \A jj \in Bad : n <= jj
    <3>1. Bad \subseteq Nat OBVIOUS
    <3> HIDE DEF Bad
    <3> QED BY <3>1, LeastOf
  <2>2. n \in Nat /\ ~\E f : GoesFrom(f, n, first, next) OBVIOUS
  <2>3. CASE n = 0
    <3> DEFINE g == [i \in 0 .. 0 |-> first]
    <3>1. GoesFrom(g, 0, first, next) BY DEF GoesFrom
    <3> QED BY <2>2, <2>3, <3>1
  <2>4. CASE n # 0
    <3>1. n - 1 \in Nat /\ ~(n <= n - 1) BY <2>2, <2>4
    <3>2. PICK f : GoesFrom(f, n - 1, first, next) BY <2>1, <3>1
    <3> DEFINE g == [i \in 0 .. n |-> IF i = 0 THEN first ELSE next[f[i - 1]]]
    <3>3. \A i \in 0 .. n : g[i] = IF i = 0 THEN first ELSE next[f[i - 1]] OBVIOUS
    <3>4. \A i \in 0 .. n - 1 : g[i] = f[i] BY <2>2, <3>2, <3>3 DEF GoesFrom
    <3> HIDE DEF g
    <3>5. \A i \in 0 .. n : i # 0 => i - 1 \in 0 .. n - 1 BY <2>2
    <3>6. GoesFrom(g, n, first, next) BY <3>3, <3>4, <3>5 DEF GoesFrom
    <3> QED BY <2>2, <3>6
  <2> QED BY <2>3, <2>4
<1>2. \A n \in Nat : \E f : GoesFrom(f, n, first, next)
  BY <1>1
<1> DEFINE To(n) == CHOOSE f : GoesFrom(f, n, first, next)
           h == [n \in Nat |-> To(n)[n]]
<1>3. \A n \in Nat : GoesFrom(To(n), n, first, next)
  BY <1>2
<1> HIDE DEF To, Bad
<1>4. \A n \in Nat : h[n] = IF n = 0 THEN first ELSE next[h[n - 1]]
  <2> TAKE n \in Nat
  <2>1. h[n] = To(n)[n] /\ n \in 0 .. n OBVIOUS
  <2>2. To(n)[n] = IF n = 0 THEN first ELSE next[To(n)[n - 1]] BY <1>3, <2>1 DEF GoesFrom
  <2>3. CASE n # 0
    <3>1. n - 1 \in Nat /\ n - 1 <= n BY <2>3
    <3>2. h[n - 1] = To(n - 1)[n - 1] BY <3>1
    <3> DEFINE f == To(n - 1)
               g == To(n)
               jj == n - 1
    <3>3. GoesFrom(f, jj, first, next) /\ GoesFrom(g, n, first, next) /\ jj \in Nat /\ jj <= n BY <1>3, <3>1
    <3> HIDE DEF f, g, jj
    <3>4. f[jj] = g[jj] BY <3>3, GoesOne
    <3> QED BY <2>1, <2>2, <2>3, <3>2, <3>4 DEF f, g, jj
  <2> QED BY <2>1, <2>2, <2>3
<1>5. h = [n \in Nat |-> IF n = 0 THEN first ELSE next[h[n - 1]]]
  <2>1. h = [n \in Nat |-> h[n]] OBVIOUS
  <2> DEFINE V(n) == IF n = 0 THEN first ELSE next[h[n - 1]]
  <2>2. \A n \in Nat : h[n] = V(n) BY <1>4
  <2> HIDE DEF h, V
  <2>3. h = [n \in Nat |-> V(n)] BY <2>1, <2>2
  <2> QED BY <2>3 DEF V
<1> QED BY <1>5 DEF Defined

LEMMA TurnsAre ==
  ASSUME ShareTypes, turn \in Keys(subs)
  PROVE  /\ \A n \in Nat : TurnAfter[n] \in Keys(subs)
         /\ TurnAfter[0] = turn
         /\ \A n \in Nat : TurnAfter[n + 1] = NextMember(TurnAfter[n])
<1> DEFINE Body(f) == [n \in Nat |-> IF n = 0 THEN turn ELSE NextMember(f[n - 1])]
           K == Keys(subs)
           next == [m \in K |-> NextMember(m)]
<1>1. \A m \in K : NextMember(m) \in K
  BY TurnGoesOn
<1>2. PICK f : f = [n \in Nat |-> IF n = 0 THEN turn ELSE next[f[n - 1]]]
  <2> HIDE DEF next
  <2>1. Defined(turn, next) BY GoesOn
  <2> QED BY <2>1 DEF Defined
<1>3. \A n \in Nat : f[n] = IF n = 0 THEN turn ELSE next[f[n - 1]]
  <2> HIDE DEF next
  <2> QED BY <1>2
<1>5. \A m \in K : next[m] = NextMember(m)
  OBVIOUS
<1> HIDE DEF next, K
<1>6. \A n \in Nat : f[n] \in K
  <2> DEFINE Bad == {n \in Nat : f[n] \notin K}
  <2>1. CASE Bad # {}
    <3>1. PICK n \in Bad : \A jj \in Bad : n <= jj
      <4>1. Bad \subseteq Nat OBVIOUS
      <4> HIDE DEF Bad
      <4> QED BY <2>1, <4>1, LeastOf
    <3>2. n \in Nat /\ f[n] \notin K OBVIOUS
    <3>3. n # 0 BY <1>3, <3>2 DEF K
    <3>4. n - 1 \in Nat /\ ~(n <= n - 1) BY <3>2, <3>3
    <3>5. f[n - 1] \in K BY <3>1, <3>4
    <3> QED BY <1>1, <1>3, <1>5, <3>2, <3>3, <3>5
  <2> QED BY <2>1
<1>7. f = Body(f)
  <2> DEFINE V(n) == IF n = 0 THEN turn ELSE next[f[n - 1]]
             W(n) == IF n = 0 THEN turn ELSE NextMember(f[n - 1])
  <2>1. \A n \in Nat : V(n) = W(n)
    <3> TAKE n \in Nat
    <3>1. n # 0 => n - 1 \in Nat OBVIOUS
    <3> QED BY <1>5, <1>6, <3>1
  <2>2. f = [n \in Nat |-> V(n)] BY <1>2
  <2> HIDE DEF V, W
  <2>3. f = [n \in Nat |-> W(n)] BY <2>1, <2>2
  <2> QED BY <2>3 DEF W
<1>8. TurnAfter = CHOOSE g : g = Body(g)
  BY DEF TurnAfter
<1>9. TurnAfter = Body(TurnAfter)
  <2> HIDE DEF Body
  <2> QED BY <1>7, <1>8
<1>10. \A n \in Nat : TurnAfter[n] = IF n = 0 THEN turn ELSE NextMember(TurnAfter[n - 1])
  BY <1>9
<1>11. \A n \in Nat : TurnAfter[n] \in K
  <2> DEFINE Bad == {n \in Nat : TurnAfter[n] \notin K}
  <2>1. CASE Bad # {}
    <3>1. PICK n \in Bad : \A jj \in Bad : n <= jj
      <4>1. Bad \subseteq Nat OBVIOUS
      <4> HIDE DEF Bad
      <4> QED BY <2>1, <4>1, LeastOf
    <3>2. n \in Nat /\ TurnAfter[n] \notin K OBVIOUS
    <3>3. n # 0 BY <1>10, <3>2 DEF K
    <3>4. n - 1 \in Nat /\ ~(n <= n - 1) BY <3>2, <3>3
    <3>5. TurnAfter[n - 1] \in K BY <3>1, <3>4
    <3> QED BY <1>1, <1>10, <3>2, <3>3, <3>5
  <2> QED BY <2>1
<1>12. \A n \in Nat : TurnAfter[n + 1] = NextMember(TurnAfter[n])
  <2> TAKE n \in Nat
  <2>1. n + 1 \in Nat /\ n + 1 # 0 /\ (n + 1) - 1 = n OBVIOUS
  <2> QED BY <1>10, <2>1
<1>13. TurnAfter[0] = turn
  BY <1>10
<1> QED BY <1>11, <1>12, <1>13 DEF K

(* The members that get the turn from m on, up to jj. *)
Between(m, jj) ==
  {x \in Keys(subs) : IF m <= jj THEN m < x /\ x <= jj ELSE m < x \/ x <= jj}

LEMMA TurnComesNearer ==
  ASSUME ShareTypes, NEW m \in Keys(subs), NEW jj \in Keys(subs)
  PROVE  /\ IsFiniteSet(Between(m, jj)) /\ Cardinality(Between(m, jj)) \in 0 .. Cardinality(Members)
         /\ Cardinality(Between(m, jj)) = 0 => m = jj
         /\ m # jj => Cardinality(Between(NextMember(m), jj)) = Cardinality(Between(m, jj)) - 1
<1> DEFINE n == NextMember(m)
           B == Between(m, jj)
<1>1. Keys(subs) \subseteq Members /\ \A x \in Keys(subs) : x \in Nat
  BY AssignAssumption DEF Keys, ShareTypes
<1>2. /\ n \in Keys(subs) /\ m \in Nat /\ n \in Nat
      /\ \/ m < n /\ \A x \in Keys(subs) : m < x => n <= x
         \/ \A x \in Keys(subs) : x <= m /\ n <= x
  BY TurnGoesOn
<1> HIDE DEF n
<1>3. B \subseteq Keys(subs) /\ B \subseteq Members
  BY <1>1 DEF Between
<1>4. IsFiniteSet(B) /\ Cardinality(B) \in Nat /\ Cardinality(B) <= Cardinality(Members)
      /\ Cardinality(Members) \in Nat
  BY <1>3, AssignAssumption, FS_Subset, FS_CardinalityType
<1>5. ASSUME Cardinality(B) = 0  PROVE m = jj
  <2>1. B = {} BY <1>4, <1>5, FS_EmptySet
  <2>2. jj \notin B /\ jj \in Nat /\ m \in Nat BY <1>1, <2>1
  <2> QED BY <2>2 DEF Between
<1>6. ASSUME m # jj  PROVE Cardinality(Between(n, jj)) = Cardinality(B) - 1
  <2>0. jj \in Nat /\ m \in Nat /\ n \in Nat BY <1>1, <1>2
  <2>1. n \in B
    BY <1>1, <1>2, <1>6, <2>0 DEF Between
  <2>2. \A x \in Keys(subs) : x \in Between(n, jj) <=> x \in B /\ x # n
    <3> TAKE x \in Keys(subs)
    <3>1. x \in Nat BY <1>1
    <3> QED BY <1>2, <1>6, <2>0, <3>1 DEF Between
  <2>3. Between(n, jj) = B \ {n}
    <3>1. Between(n, jj) \subseteq Keys(subs) BY DEF Between
    <3> HIDE DEF B
    <3> QED BY <1>3, <2>2, <3>1
  <2> QED BY <1>4, <2>1, <2>3, FS_RemoveElement
<1> QED BY <1>4, <1>5, <1>6 DEF n

LEMMA RoundsGive == ShareInv => NoIdleRound
<1> SUFFICES ASSUME ShareInv, at = "share", protocol = "roundrobin", left # {}
             PROVE  \E n \in 0 .. Cardinality(Members), x \in left : x[1] \in subs[TurnAfter[n]]
  BY DEF NoIdleRound
<1>1. ShareTypes /\ turn \in Keys(subs)
  BY DEF ShareInv, RoundInv
<1>2. PICK x \in left : x[1] \in Topics /\ x[2] \in Nat /\ x = <<x[1], x[2]>>
  <2>1. left \subseteq Topics \X Nat BY <1>1 DEF ShareTypes
  <2> QED BY <2>1
<1>3. Subscribers(x[1]) # {}
  <2>1. <<x[1], x[2]>> \in left BY <1>2
  <2> QED BY <1>2, <2>1 DEF ShareInv, RoundInv
<1>4. PICK jj \in Keys(subs) : x[1] \in subs[jj]
  <2>1. PICK m \in Members : x[1] \in subs[m] BY <1>3 DEF Subscribers
  <2> QED BY <1>1, <2>1 DEF Keys, ShareTypes
<1> DEFINE Far(n) == Cardinality(Between(TurnAfter[n], jj))
           d == Far(0)
<1>5. \A n \in Nat : TurnAfter[n] \in Keys(subs)
  BY <1>1, TurnsAre
<1>6. \A n \in Nat : /\ Far(n) \in 0 .. Cardinality(Members)
                     /\ Far(n) = 0 => TurnAfter[n] = jj
                     /\ TurnAfter[n] # jj => Far(n + 1) = Far(n) - 1
  <2> TAKE n \in Nat
  <2>1. TurnAfter[n + 1] = NextMember(TurnAfter[n]) /\ TurnAfter[n] \in Keys(subs) BY <1>1, TurnsAre
  <2> QED BY <1>1, <2>1, TurnComesNearer
<1>7. Cardinality(Members) \in Nat
  BY AssignAssumption, FS_CardinalityType
<1> HIDE DEF Far
<1>8. \E n \in 0 .. Cardinality(Members) : TurnAfter[n] = jj
  <2> SUFFICES ASSUME \A n \in 0 .. Cardinality(Members) : TurnAfter[n] # jj  PROVE FALSE
    OBVIOUS
  <2> DEFINE c == Cardinality(Members)
             Bad == {n \in 0 .. c : Far(n) # Far(0) - n}
  <2>1. Bad = {}
    <3> SUFFICES ASSUME Bad # {}  PROVE FALSE
      OBVIOUS
    <3>1. Bad \subseteq Nat BY <1>7
    <3>2. PICK n \in Bad : \A i \in Bad : n <= i
      <4> HIDE DEF Bad
      <4> QED BY <3>1, LeastOf
    <3>3. n \in Nat /\ n <= c /\ Far(n) # Far(0) - n /\ Far(0) \in Nat BY <1>6, <1>7
    <3>4. n # 0 BY <3>3
    <3>5. n - 1 \in Nat /\ n - 1 \in 0 .. c /\ ~(n <= n - 1) /\ (n - 1) + 1 = n BY <1>7, <3>3, <3>4
    <3>6. Far(n - 1) = Far(0) - (n - 1) BY <3>2, <3>5
    <3>7. Far(n) = Far(n - 1) - 1
      <4>1. TurnAfter[n - 1] # jj BY <3>5
      <4>2. Far((n - 1) + 1) = Far(n - 1) - 1 BY <1>6, <3>5, <4>1
      <4> QED BY <3>5, <4>2
    <3> QED BY <3>3, <3>6, <3>7
  <2>2. Far(0) \in 0 .. c BY <1>6
  <2>3. Far(Far(0)) = Far(0) - Far(0) BY <2>1, <2>2
  <2>4. Far(Far(0)) = 0 /\ Far(0) \in Nat BY <1>7, <2>2, <2>3
  <2>5. TurnAfter[Far(0)] = jj BY <1>6, <2>4
  <2> QED BY <2>2, <2>5
<1> QED BY <1>2, <1>4, <1>8

(* Whatever the members subscribe to, and however many they, the topics *)
(* and the partitions are, computeGroupAssignment() gives every partition *)
(* to one member that wants it, evenly, and no round gives nothing. *)
THEOREM FairSharesHold == AssignSpec => []FairShares
<1>1. ShareInv => FairShares
  BY SharesAreFair, RoundsGive DEF FairShares
<1> QED
  BY <1>1, SharesBegin, SharesKept, PTL DEF AssignSpec

========================================
