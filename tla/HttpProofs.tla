------------------------------ MODULE HttpProofs ------------------------------
(****************************************)
(* What is proved of the HTTP server and of its redirects. *)
(****************************************)
EXTENDS HttpThreads, HttpConnection, RedirectForward, FiniteSetTheorems, SequenceTheorems,
        NaturalsInduction, WellFoundedInduction, TLAPS

(****************************************)
(* The threads of a server.  Two updates of a counter may overlap: what *)
(* was written first is lost.  A counter is too low by at most the raises *)
(* that were lost; it is exact where nothing was lost. *)
(****************************************)

ThreadsTypes ==
  /\ HttpThreadsTypeOK
  /\ thread \in [Parsers -> Threads \cup {Nobody}] /\ counter \in Nat
  /\ raising \in Int /\ lowering \in [Threads -> Int]
  /\ waitPosted \subseteq Threads
  /\ lost \in [raises: SUBSET Parsers, ends: SUBSET Parsers]
  /\ server \in [stopped: BOOLEAN, at: -1 .. ThreadCount, deleted: SUBSET Threads]

Live(t) == {q \in OnThread(t) : parser[q] \in {"alive", "deleting"}}
Low(t)  == OnThread(t) \cap lost.raises

\* The updates that are under way
Updates ==
  /\ \A q \in Parsers : parser[q] = "none" <=> thread[q] = Nobody
  /\ \A q, r \in Parsers : Building(q) /\ Building(r) => q = r
  /\ \A q, r \in Parsers : parser[q] = "deleting" /\ parser[r] = "deleting" /\ thread[q] = thread[r] => q = r
  /\ server.stopped => \A q \in Parsers : ~Building(q)
  /\ ~server.stopped => waitPosted = {} /\ leaving = {} /\ server.deleted = {} /\ \A t \in Threads : sem[t] = 0
  /\ \A q \in lost.raises \cup lost.ends : parser[q] \in {"alive", "deleting", "gone"}

\* The counter of a thread and the updates of it are too low by what was lost,
\* and nobody is let go before.
NotBelow(t) ==
  /\ Cardinality(Live(t)) <= active[t] + Cardinality(Low(t))
  /\ Lowers(t) => Cardinality(Live(t)) <= lowering[t] + Cardinality(Low(t))
  /\ Raises(t) => Cardinality(Live(t)) <= raising + Cardinality(Low(t))
  /\ sem[t] > 0 \/ t \in server.deleted => Cardinality(Live(t)) <= Cardinality(Low(t))

\* Nothing was lost of the counter of a thread.
Counted(t) == OnThread(t) \cap (lost.raises \cup lost.ends) = {}

Exact(t) ==
  /\ active[t] = Cardinality(Live(t))
  /\ Lowers(t) => lowering[t] = active[t]
  /\ Raises(t) => raising = active[t]
  /\ t = server.at => t \in waitPosted \/ sem[t] > 0 \/ (t \in leaving /\ Live(t) # {})

ThreadsInv == ThreadsTypes /\ Updates /\ \A t \in Threads : NotBelow(t) /\ (Counted(t) => Exact(t))

LEMMA SomeParsers ==
  ASSUME NEW S \in SUBSET Parsers
  PROVE  /\ Cardinality(S) \in Nat /\ (Cardinality(S) = 0 <=> S = {})
         /\ \A q : /\ q \notin S => Cardinality(S \cup {q}) = Cardinality(S) + 1
                   /\ q \in S => Cardinality(S \ {q}) = Cardinality(S) - 1
<1>1. IsFiniteSet(S)
  BY HttpThreadsAssumption, FS_Subset
<1>2. Cardinality(S) \in Nat /\ (Cardinality(S) = 0 <=> S = {})
  BY <1>1, FS_CardinalityType, FS_EmptySet
<1>3. ASSUME NEW q, q \notin S PROVE Cardinality(S \cup {q}) = Cardinality(S) + 1
  BY <1>1, <1>3, FS_AddElement
<1>4. ASSUME NEW q, q \in S PROVE Cardinality(S \ {q}) = Cardinality(S) - 1
  BY <1>1, <1>4, FS_RemoveElement
<1> QED BY <1>1, <1>2, <1>3, <1>4

LEMMA CountsAreNat ==
  \A t : /\ Live(t) \in SUBSET Parsers /\ Low(t) \in SUBSET Parsers
         /\ Cardinality(Live(t)) \in Nat /\ Cardinality(Low(t)) \in Nat
         /\ Cardinality(Live(t)) = 0 <=> Live(t) = {}
<1>1. \A t : Live(t) \in SUBSET Parsers /\ Low(t) \in SUBSET Parsers
  BY DEF Live, Low, OnThread
<1> QED BY <1>1, SomeParsers

LEMMA ThreadsBegin == HttpThreadsInit => ThreadsInv
<1> SUFFICES ASSUME HttpThreadsInit PROVE ThreadsInv
  OBVIOUS
<1>1. ThreadsTypes
  <2>1. server \in [stopped: BOOLEAN, at: -1 .. ThreadCount, deleted: SUBSET Threads]
    <3>1. -1 \in -1 .. ThreadCount
      BY HttpThreadsAssumption
    <3> QED BY <3>1 DEF HttpThreadsInit, Nobody
  <2>2. raising \in Int /\ lowering \in [Threads -> Int] /\ counter \in Nat
    BY DEF HttpThreadsInit, NoValue
  <2>3. active \in [Threads -> Int] /\ sem \in [Threads -> Nat]
    <3>1. 0 \in Int /\ 0 \in Nat
      OBVIOUS
    <3> QED BY <3>1 DEF HttpThreadsInit
  <2>4. /\ lost \in [raises: SUBSET Parsers, ends: SUBSET Parsers]
        /\ thread \in [Parsers -> Threads \cup {Nobody}] /\ waitPosted \subseteq Threads
    BY DEF HttpThreadsInit
  <2> QED BY <2>1, <2>2, <2>3, <2>4 DEF HttpThreadsInit, ThreadsTypes, HttpThreadsTypeOK
<1>2. \A t \in Threads : Live(t) = {} /\ Low(t) = {}
  <2>1. \A q \in Parsers : parser[q] = "none"
    BY DEF HttpThreadsInit
  <2>2. lost.raises = {}
    BY DEF HttpThreadsInit
  <2> QED BY <2>1, <2>2 DEF Live, Low, OnThread
<1>3. \A t \in Threads : Cardinality(Live(t)) = 0 /\ Cardinality(Low(t)) = 0
  BY <1>2, FS_EmptySet
<1>4. Updates
  BY DEF HttpThreadsInit, Updates, Building
<1>5. \A t \in Threads : ~Lowers(t) /\ ~Raises(t)
  BY DEF HttpThreadsInit, Lowers, Raises, OnThread, Building
<1>6. ASSUME NEW t \in Threads PROVE NotBelow(t) /\ Exact(t)
  <2>1. active[t] = 0 /\ sem[t] = 0 /\ server.deleted = {} /\ server.at # t
    BY DEF HttpThreadsInit, Nobody, Threads
  <2> QED BY <2>1, <1>3, <1>5 DEF NotBelow, Exact
<1> QED BY <1>1, <1>4, <1>6 DEF ThreadsInv

LEMMA ThreadsTyped == ThreadsTypes /\ [HttpThreadsNext]_threadsvars => ThreadsTypes'
<1> SUFFICES ASSUME ThreadsTypes, [HttpThreadsNext]_threadsvars PROVE ThreadsTypes'
  OBVIOUS
<1> USE HttpThreadsAssumption DEF ThreadsTypes, HttpThreadsTypeOK
<1>1. ASSUME NEW q \in Parsers, NewConnection(q) PROVE ThreadsTypes'
  <2>1. counter' \in Nat /\ counter' % ThreadCount \in Threads
    BY <1>1 DEF NewConnection, Threads
  <2> QED BY <1>1, <2>1 DEF NewConnection
<1>2. ASSUME NEW q \in Parsers, NewRequest(q) PROVE ThreadsTypes'
  <2>1. raising + 1 \in Int /\ NoValue \in Int
    BY DEF NoValue
  <2> HIDE DEF NoValue
  <2>2. active' \in [Threads -> Int]
    BY <1>2, <2>1 DEF NewRequest
  <2>3. lost' \in [raises: SUBSET Parsers, ends: SUBSET Parsers]
    <3> DEFINE more == lost.raises \cup {q}
    <3>1. more \in SUBSET Parsers
      OBVIOUS
    <3>2. lost' = lost \/ lost' = [lost EXCEPT !.raises = more]
      BY <1>2 DEF NewRequest
    <3> HIDE DEF more
    <3> QED BY <3>1, <3>2
  <2> QED BY <1>2, <2>1, <2>2, <2>3 DEF NewRequest
<1>3. ASSUME NEW t \in Threads, NEW q \in Parsers, ParserEnds(t, q) PROVE ThreadsTypes'
  BY <1>3 DEF ParserEnds
<1>4. ASSUME NEW t \in Threads, NEW q \in Parsers, RequestFinished(t, q) PROVE ThreadsTypes'
  <2>1. lost' \in [raises: SUBSET Parsers, ends: SUBSET Parsers]
    <3> DEFINE more == lost.ends \cup {q}
    <3>1. more \in SUBSET Parsers
      OBVIOUS
    <3>2. lost' = lost \/ lost' = [lost EXCEPT !.ends = more]
      BY <1>4 DEF RequestFinished
    <3> HIDE DEF more
    <3> QED BY <3>1, <3>2
  <2>2. active' \in [Threads -> Int] /\ sem' \in [Threads -> Nat] /\ lowering' \in [Threads -> Int]
    BY <1>4 DEF RequestFinished, NoValue
  <2> QED BY <1>4, <2>1, <2>2 DEF RequestFinished
<1>5. ASSUME NEW t \in Threads, WaitForRequestsToFinish(t) PROVE ThreadsTypes'
  BY <1>5 DEF WaitForRequestsToFinish
<1>6. CASE Stop
  <2>1. 0 \in Threads /\ 0 \in -1 .. ThreadCount
    BY DEF Threads
  <2>2. server' \in [stopped: BOOLEAN, at: -1 .. ThreadCount, deleted: SUBSET Threads]
    BY <1>6, <2>1 DEF Stop
  <2> QED BY <1>6, <2>1, <2>2 DEF Stop
<1>7. CASE ThreadDeleted
  <2> DEFINE t == server.at
  <2>1. t \in Threads /\ sem[t] > 0 /\ t + 1 \in -1 .. ThreadCount
    BY <1>7 DEF ThreadDeleted, Threads
  <2>2. server' = [server EXCEPT !.deleted = server.deleted \cup {t}, !.at = t + 1]
    BY <1>7 DEF ThreadDeleted
  <2>3. server' \in [stopped: BOOLEAN, at: -1 .. ThreadCount, deleted: SUBSET Threads]
    BY <2>1, <2>2
  <2>4. sem' \in [Threads -> Nat]
    BY <1>7, <2>1 DEF ThreadDeleted
  <2> QED BY <1>7, <2>1, <2>3, <2>4 DEF ThreadDeleted
<1>8. CASE UNCHANGED threadsvars
  BY <1>8 DEF threadsvars
<1> QED BY <1>1, <1>2, <1>3, <1>4, <1>5, <1>6, <1>7, <1>8 DEF HttpThreadsNext

\* What is true of a thread stays so while none of it changes.
LEMMA ThreadStands ==
  ASSUME NEW t \in Threads, NotBelow(t), Counted(t) => Exact(t),
         Live(t)' = Live(t), Low(t)' = Low(t), Counted(t)' => Counted(t),
         active'[t] = active[t],
         Lowers(t)' => Lowers(t) /\ lowering'[t] = lowering[t],
         Raises(t)' => Raises(t) /\ raising' = raising,
         sem'[t] > 0 => sem[t] > 0,
         t \in server'.deleted => t \in server.deleted \/ sem[t] > 0,
         t = server'.at =>
           t \in waitPosted' \/ (t = server.at /\ UNCHANGED <<waitPosted, leaving, sem>>)
  PROVE  NotBelow(t)' /\ (Counted(t)' => Exact(t)')
<1>1. NotBelow(t)'
  BY DEF NotBelow
<1>2. Counted(t)' => Exact(t)'
  BY DEF Exact
<1> QED BY <1>1, <1>2

LEMMA ThreadsKept == ThreadsInv /\ [HttpThreadsNext]_threadsvars => ThreadsInv'
<1> SUFFICES ASSUME ThreadsInv, [HttpThreadsNext]_threadsvars
             PROVE  Updates' /\ \A t \in Threads : NotBelow(t)' /\ (Counted(t)' => Exact(t)')
  BY ThreadsTyped DEF ThreadsInv
<1>0. /\ ThreadsTypes /\ ThreadsTypes' /\ Updates
      /\ \A t \in Threads : NotBelow(t) /\ (Counted(t) => Exact(t))
  BY ThreadsTyped DEF ThreadsInv
<1>1. ASSUME NEW q \in Parsers, NewConnection(q)
      PROVE  Updates' /\ \A t \in Threads : NotBelow(t)' /\ (Counted(t)' => Exact(t)')
  <2> DEFINE s == counter' % ThreadCount
  <2>1. /\ parser' = [parser EXCEPT ![q] = "building"] /\ parser[q] = "none" /\ thread[q] = Nobody
        /\ thread' = [thread EXCEPT ![q] = s] /\ s \in Threads /\ s # Nobody
        /\ raising' = active[s] /\ ~server.stopped /\ \A r \in Parsers : ~Building(r)
        /\ UNCHANGED <<active, lowering, leaving, waitPosted, sem, server, lost>>
    <3>1. counter' \in Nat /\ s \in Threads
      BY <1>0, <1>1, HttpThreadsAssumption DEF NewConnection, ThreadsTypes, Threads
    <3>2. thread[q] = Nobody /\ parser[q] = "none"
      BY <1>0, <1>1 DEF NewConnection, Updates
    <3>3. ASSUME NEW r \in Parsers, Building(r) PROVE FALSE
      <4>1. thread[r] \in Threads
        BY <1>0, <3>3 DEF Updates, ThreadsTypes, Building
      <4> QED BY <1>1, <3>3, <4>1 DEF NewConnection, Raises, OnThread
    <3> QED BY <1>1, <3>1, <3>2, <3>3 DEF NewConnection, Threads, Nobody
  <2> HIDE DEF s
  <2>2. Updates'
    BY <1>0, <2>1 DEF Updates, Building, ThreadsTypes, HttpThreadsTypeOK
  <2>3. ASSUME NEW t \in Threads
        PROVE  /\ Live(t)' = Live(t) /\ (Counted(t)' => Counted(t))
               /\ Lowers(t)' => Lowers(t)
               /\ Raises(t)' => t = s
               /\ ~Raises(t) /\ Low(t)' = Low(t)
    <3>1. thread \in [Parsers -> Threads \cup {Nobody}] /\ parser \in [Parsers -> {"none", "building", "alive", "deleting", "gone"}]
      BY <1>0 DEF ThreadsTypes, HttpThreadsTypeOK
    <3>2. q \notin OnThread(t) /\ (OnThread(t)' = OnThread(t) \/ (OnThread(t)' = OnThread(t) \cup {q} /\ t = s))
      BY <2>1, <3>1 DEF OnThread, Threads, Nobody
    <3>3. \A r \in Parsers : r # q => parser'[r] = parser[r]
      BY <2>1, <3>1
    <3>4. parser'[q] = "building"
      BY <2>1, <3>1
    <3>5. OnThread(t) \subseteq Parsers
      BY DEF OnThread
    <3>6. Live(t)' = Live(t)
      BY <3>2, <3>3, <3>4, <3>5 DEF Live
    <3>7. Counted(t)' => Counted(t)
      BY <2>1, <3>2 DEF Counted
    <3>8. (Lowers(t)' => Lowers(t)) /\ (Raises(t)' => t = s) /\ ~Raises(t)
      BY <2>1, <3>2, <3>3, <3>4, <3>5 DEF Lowers, Raises, Building
    <3>9. q \notin lost.raises
      BY <1>0, <2>1 DEF Updates
    <3> QED BY <2>1, <3>2, <3>6, <3>7, <3>8, <3>9 DEF Low
  <2>4. ASSUME NEW t \in Threads PROVE NotBelow(t)' /\ (Counted(t)' => Exact(t)')
    <3>1. active[t] \in Int /\ Cardinality(Low(t)) \in Nat /\ Cardinality(Live(t)) \in Nat
      BY <1>0, CountsAreNat DEF ThreadsTypes, HttpThreadsTypeOK
    <3>2. NotBelow(t) /\ Low(t)' = Low(t)
      BY <1>0, <2>3
    <3>3. NotBelow(t)'
      BY <2>1, <2>3, <3>1, <3>2 DEF NotBelow
    <3>4. Counted(t)' => Exact(t)'
      BY <1>0, <2>1, <2>3 DEF Exact
    <3> QED BY <3>3, <3>4
  <2> QED BY <2>2, <2>4
<1>2. ASSUME NEW q \in Parsers, NewRequest(q)
      PROVE  Updates' /\ \A t \in Threads : NotBelow(t)' /\ (Counted(t)' => Exact(t)')
  <2>0. PICK s \in Threads : s = thread[q]
    BY <1>0, <1>2 DEF NewRequest, Updates, Building, ThreadsTypes
  <2>1. /\ parser' = [parser EXCEPT ![q] = "alive"] /\ parser[q] = "building" /\ s \in Threads
        /\ active' = [active EXCEPT ![s] = raising + 1] /\ ~server.stopped
        /\ lost'.ends = lost.ends
        /\ lost'.raises = IF Lowers(s) THEN lost.raises \cup {q} ELSE lost.raises
        /\ UNCHANGED <<thread, lowering, leaving, waitPosted, sem, server>>
        /\ Raises(s)
    <3>1. parser[q] = "building" /\ s # Nobody /\ ~server.stopped /\ s \in Threads
      BY <1>0, <1>2, <2>0 DEF NewRequest, Updates, Building, Threads, Nobody
    <3>2. Raises(s)
      BY <2>0, <3>1 DEF Raises, OnThread, Building
    <3>3. lost' = IF Lowers(s) THEN [lost EXCEPT !.raises = lost.raises \cup {q}] ELSE lost
      BY <1>2, <2>0 DEF NewRequest
    <3>4. /\ lost'.ends = lost.ends
          /\ lost'.raises = IF Lowers(s) THEN lost.raises \cup {q} ELSE lost.raises
      BY <1>0, <3>3 DEF ThreadsTypes
    <3>5. /\ parser' = [parser EXCEPT ![q] = "alive"] /\ active' = [active EXCEPT ![s] = raising + 1]
          /\ UNCHANGED <<thread, lowering, leaving, waitPosted, sem, server>>
      BY <1>2, <2>0 DEF NewRequest
    <3> QED BY <3>1, <3>2, <3>4, <3>5
  <2>2. Updates'
    BY <1>0, <2>1 DEF Updates, Building, ThreadsTypes, HttpThreadsTypeOK
  <2>3. /\ Live(s)' = Live(s) \cup {q} /\ q \notin Live(s)
        /\ \A t \in Threads : ~Raises(t)'
        /\ \A t \in Threads : Lowers(t)' <=> Lowers(t)
    BY <1>0, <2>0, <2>1 DEF Live, Raises, Lowers, OnThread, Building, Updates, ThreadsTypes, HttpThreadsTypeOK
  <2>4. ASSUME NEW t \in Threads, t # s PROVE NotBelow(t)' /\ (Counted(t)' => Exact(t)')
    <3>1. Live(t)' = Live(t) /\ Low(t)' = Low(t) /\ (Counted(t)' => Counted(t)) /\ active'[t] = active[t]
      BY <1>0, <2>0, <2>1, <2>4 DEF Live, Low, Counted, OnThread, ThreadsTypes, HttpThreadsTypeOK
    <3> QED BY <1>0, <2>1, <2>3, <3>1, ThreadStands
  <2>5. NotBelow(s)'
    <3> DEFINE low == Cardinality(Low(s))
    <3>1. /\ Cardinality(Live(s)') = Cardinality(Live(s)) + 1 /\ Cardinality(Live(s)) \in Nat
          /\ low \in Nat /\ raising \in Int /\ active'[s] = raising + 1 /\ lowering[s] \in Int
      BY <1>0, <2>1, <2>3, SomeParsers, CountsAreNat DEF ThreadsTypes, HttpThreadsTypeOK
    <3>2. Cardinality(Low(s)') = IF Lowers(s) THEN Cardinality(Low(s) \cup {q}) ELSE low
      <4>1. Low(s)' = IF Lowers(s) THEN Low(s) \cup {q} ELSE Low(s)
        BY <1>0, <2>0, <2>1 DEF Low, OnThread
      <4> QED BY <4>1
    <3>3. sem'[s] = 0 /\ s \notin server'.deleted
      BY <1>0, <2>1 DEF Updates
    <3>4. CASE Lowers(s) /\ q \notin Low(s)
      <4>1. Cardinality(Low(s)') = low + 1
        BY <3>2, <3>4, SomeParsers, CountsAreNat
      <4>2. NotBelow(s)
        BY <1>0, <2>1
      <4>3. Cardinality(Live(s)) <= raising + low /\ Cardinality(Live(s)) <= lowering[s] + low
        BY <2>1, <3>4, <4>2 DEF NotBelow
      <4>4. ~Raises(s)' /\ lowering'[s] = lowering[s]
        BY <2>1, <2>3
      <4> HIDE DEF low
      <4> QED BY <3>1, <3>3, <4>1, <4>3, <4>4 DEF NotBelow
    <3>5. q \notin lost.raises
      BY <1>0, <2>1 DEF Updates
    <3>6. CASE ~Lowers(s)
      <4>1. Cardinality(Low(s)') = low
        BY <3>2, <3>6
      <4>2. NotBelow(s)
        BY <1>0, <2>1
      <4>3. Cardinality(Live(s)) <= raising + low
        BY <2>1, <4>2 DEF NotBelow
      <4>4. ~Raises(s)' /\ ~Lowers(s)'
        BY <2>1, <2>3, <3>6
      <4> HIDE DEF low
      <4> QED BY <3>1, <3>3, <4>1, <4>3, <4>4 DEF NotBelow
    <3> QED BY <3>4, <3>5, <3>6 DEF Low
  <2>6. Counted(s)' => Exact(s)'
    <3> SUFFICES ASSUME Counted(s)' PROVE Exact(s)'
      OBVIOUS
    <3>1. q \in OnThread(s)'
      BY <1>0, <2>0, <2>1 DEF OnThread
    <3>2. ~Lowers(s) /\ Counted(s)
      <4>1. OnThread(s)' = OnThread(s)
        BY <2>1 DEF OnThread
      <4>2. q \notin lost'.raises /\ lost.raises \subseteq lost'.raises
        BY <2>1, <3>1 DEF Counted
      <4> QED BY <2>1, <4>1, <4>2 DEF Counted
    <3>3. /\ Cardinality(Live(s)') = Cardinality(Live(s)) + 1 /\ active'[s] = raising + 1
      BY <1>0, <2>1, <2>3, SomeParsers, CountsAreNat DEF ThreadsTypes, HttpThreadsTypeOK
    <3>4. Exact(s)
      BY <1>0, <2>1, <3>2
    <3>5. raising = Cardinality(Live(s)) /\ (s = server.at => s \in waitPosted \/ sem[s] > 0 \/ s \in leaving)
      BY <2>1, <3>4 DEF Exact
    <3>6. ~Raises(s)' /\ ~Lowers(s)' /\ Live(s)' # {}
      BY <2>1, <2>3, <3>2
    <3> QED BY <2>1, <3>3, <3>5, <3>6 DEF Exact
  <2> QED BY <2>1, <2>2, <2>4, <2>5, <2>6
<1>3. ASSUME NEW s \in Threads, NEW q \in Parsers, ParserEnds(s, q)
      PROVE  Updates' /\ \A t \in Threads : NotBelow(t)' /\ (Counted(t)' => Exact(t)')
  <2>1. /\ parser' = [parser EXCEPT ![q] = "deleting"] /\ parser[q] = "alive" /\ thread[q] = s
        /\ lowering' = [lowering EXCEPT ![s] = active[s]] /\ ~Lowers(s)
        /\ UNCHANGED <<thread, counter, active, raising, leaving, waitPosted, sem, server, lost>>
    BY <1>3 DEF ParserEnds
  <2>2. Updates'
    BY <1>0, <2>1 DEF Updates, Building, Lowers, OnThread, ThreadsTypes, HttpThreadsTypeOK
  <2>3. ASSUME NEW t \in Threads
        PROVE  /\ Live(t)' = Live(t) /\ Low(t)' = Low(t) /\ (Counted(t)' <=> Counted(t))
               /\ Raises(t)' <=> Raises(t)
               /\ t # s => (Lowers(t)' <=> Lowers(t))
    BY <1>0, <2>1 DEF Live, Low, Counted, Raises, Lowers, OnThread, Building, ThreadsTypes, HttpThreadsTypeOK
  <2>4. NotBelow(s)'
    <3>1. NotBelow(s) /\ lowering'[s] = active[s]
      BY <1>0, <2>1 DEF ThreadsTypes
    <3>2. Live(s)' = Live(s) /\ Low(s)' = Low(s) /\ (Raises(s)' <=> Raises(s))
      BY <2>3
    <3> QED BY <2>1, <3>1, <3>2 DEF NotBelow
  <2>5. Counted(s)' => Exact(s)'
    <3>1. (Counted(s)' => Exact(s)) /\ lowering'[s] = active[s]
      BY <1>0, <2>1, <2>3 DEF ThreadsTypes
    <3>2. Live(s)' = Live(s) /\ (Raises(s)' <=> Raises(s))
      BY <2>3
    <3> QED BY <2>1, <3>1, <3>2 DEF Exact
  <2>6. ASSUME NEW t \in Threads, t # s PROVE NotBelow(t)' /\ (Counted(t)' => Exact(t)')
    <3>1. lowering'[t] = lowering[t]
      BY <1>0, <2>1, <2>6 DEF ThreadsTypes
    <3> QED BY <1>0, <2>1, <2>3, <2>6, <3>1, ThreadStands
  <2> QED BY <2>2, <2>4, <2>5, <2>6
<1>4. ASSUME NEW s \in Threads, NEW q \in Parsers, s \notin server.deleted, RequestFinished(s, q)
      PROVE  Updates' /\ \A t \in Threads : NotBelow(t)' /\ (Counted(t)' => Exact(t)')
  <2>1. /\ parser' = [parser EXCEPT ![q] = "gone"] /\ parser[q] = "deleting" /\ thread[q] = s
        /\ active' = [active EXCEPT ![s] = lowering[s] - 1]
        /\ lowering' = [lowering EXCEPT ![s] = NoValue]
        /\ sem' = IF s \in leaving /\ active'[s] = 0 THEN [sem EXCEPT ![s] = @ + 1] ELSE sem
        /\ lost'.raises = lost.raises
        /\ lost'.ends = IF Raises(s) THEN lost.ends \cup {q} ELSE lost.ends
        /\ UNCHANGED <<thread, counter, raising, leaving, waitPosted, server>>
    BY <1>0, <1>4 DEF RequestFinished, ThreadsTypes
  <2>2. Lowers(s)
    BY <2>1 DEF Lowers, OnThread
  <2>3. /\ Live(s)' = Live(s) \ {q} /\ q \in Live(s) /\ ~Lowers(s)'
        /\ \A t \in Threads : /\ Raises(t)' <=> Raises(t)
                              /\ Low(t)' = Low(t)
                              /\ Counted(t)' => Counted(t)
                              /\ t # s => (Lowers(t)' <=> Lowers(t)) /\ Live(t)' = Live(t)
    <3>1. \A r \in Parsers : parser[r] = "deleting" /\ thread[r] = s => r = q
      BY <1>0, <2>1 DEF Updates
    <3> QED BY <1>0, <2>1, <3>1
            DEF Live, Low, Counted, Raises, Lowers, OnThread, Building, ThreadsTypes, HttpThreadsTypeOK
  <2>4. /\ Cardinality(Live(s)') = Cardinality(Live(s)) - 1 /\ Cardinality(Live(s)) \in Nat
        /\ Cardinality(Live(s)') = 0 <=> Live(s)' = {}
        /\ Cardinality(Low(s)) \in Nat /\ lowering[s] \in Int /\ raising \in Int
        /\ active'[s] = lowering[s] - 1 /\ sem \in [Threads -> Nat]
    <3>1. Live(s)' \in SUBSET Parsers /\ Live(s) \in SUBSET Parsers
      BY <2>3, CountsAreNat
    <3>2. Cardinality(Live(s)') = Cardinality(Live(s)) - 1
      BY <2>3, <3>1, SomeParsers
    <3>3. /\ Cardinality(Live(s)) \in Nat /\ Cardinality(Low(s)) \in Nat
          /\ Cardinality(Live(s)') = 0 <=> Live(s)' = {}
      BY <3>1, SomeParsers, CountsAreNat
    <3> QED BY <1>0, <2>1, <3>2, <3>3 DEF ThreadsTypes, HttpThreadsTypeOK
  <2>5. Updates'
    <3>1. server.stopped \/ (leaving = {} /\ sem' = sem)
      BY <1>0, <2>1 DEF Updates
    <3> QED BY <1>0, <2>1, <3>1 DEF Updates, Building, ThreadsTypes, HttpThreadsTypeOK
  <2>6. NotBelow(s)'
    <3>1. sem'[s] > 0 => sem[s] > 0 \/ active'[s] = 0
      BY <2>1
    <3> QED BY <1>0, <2>1, <2>2, <2>3, <2>4, <3>1 DEF NotBelow
  <2>7. Counted(s)' => Exact(s)'
    <3> SUFFICES ASSUME Counted(s)' PROVE Exact(s)'
      OBVIOUS
    <3>1. ~Raises(s) /\ Exact(s)
      <4>1. q \in OnThread(s)'
        BY <2>1 DEF OnThread
      <4> QED BY <1>0, <2>1, <2>3, <4>1 DEF Counted
    <3>2. active'[s] = Cardinality(Live(s)')
      BY <2>2, <2>4, <3>1 DEF Exact
    <3>3. s \in leaving => sem'[s] > 0 \/ Live(s)' # {}
      <4>1. CASE s \in leaving /\ active'[s] = 0
        BY <2>1, <2>4, <4>1
      <4>2. CASE active'[s] # 0
        BY <2>4, <3>2, <4>2
      <4> QED BY <4>1, <4>2
    <3>4. sem[s] > 0 => sem'[s] > 0
      BY <2>1, <2>4
    <3> QED BY <2>1, <2>3, <3>1, <3>2, <3>3, <3>4 DEF Exact
  <2>8. ASSUME NEW t \in Threads, t # s PROVE NotBelow(t)' /\ (Counted(t)' => Exact(t)')
    <3>1. lowering'[t] = lowering[t] /\ active'[t] = active[t] /\ sem'[t] = sem[t]
      BY <1>0, <2>1, <2>8 DEF ThreadsTypes, HttpThreadsTypeOK
    <3>2. NotBelow(t)'
      BY <1>0, <2>1, <2>3, <2>8, <3>1 DEF NotBelow
    <3>3. Counted(t)' => Exact(t)'
      BY <1>0, <2>1, <2>3, <2>8, <3>1 DEF Exact
    <3> QED BY <3>2, <3>3
  <2> QED BY <2>5, <2>6, <2>7, <2>8
<1>5. ASSUME NEW s \in Threads, WaitForRequestsToFinish(s)
      PROVE  Updates' /\ \A t \in Threads : NotBelow(t)' /\ (Counted(t)' => Exact(t)')
  <2>1. /\ \/ active[s] = 0 /\ sem' = [sem EXCEPT ![s] = @ + 1] /\ UNCHANGED leaving
           \/ active[s] # 0 /\ leaving' = leaving \cup {s} /\ UNCHANGED sem
        /\ waitPosted' = waitPosted \ {s} /\ s \in waitPosted /\ sem \in [Threads -> Nat]
        /\ UNCHANGED <<parser, thread, counter, active, raising, lowering, server, lost>>
    BY <1>0, <1>5 DEF WaitForRequestsToFinish, ThreadsTypes, HttpThreadsTypeOK
  <2>2. Updates'
    BY <1>0, <2>1 DEF Updates, Building
  <2>3. ASSUME NEW t \in Threads
        PROVE  /\ Live(t)' = Live(t) /\ Low(t)' = Low(t) /\ (Counted(t)' <=> Counted(t))
               /\ (Raises(t)' <=> Raises(t)) /\ (Lowers(t)' <=> Lowers(t))
               /\ Cardinality(Live(t)) \in Nat /\ (Cardinality(Live(t)) = 0 <=> Live(t) = {})
    BY <2>1, CountsAreNat DEF Live, Low, Counted, Raises, Lowers, OnThread, Building
  <2>4. NotBelow(s)'
    <3>1. /\ NotBelow(s) /\ (sem'[s] > 0 => sem[s] > 0 \/ active[s] = 0)
          /\ Live(s)' = Live(s) /\ Low(s)' = Low(s) /\ (Raises(s)' <=> Raises(s)) /\ (Lowers(s)' <=> Lowers(s))
      BY <1>0, <2>1, <2>3
    <3>2. Cardinality(Live(s)) \in Nat /\ Cardinality(Low(s)) \in Nat
      BY CountsAreNat
    <3> QED BY <2>1, <3>1, <3>2 DEF NotBelow
  <2>5. Counted(s)' => Exact(s)'
    BY <1>0, <2>1, <2>3 DEF Exact
  <2>6. ASSUME NEW t \in Threads, t # s PROVE NotBelow(t)' /\ (Counted(t)' => Exact(t)')
    <3>1. sem'[t] = sem[t] /\ (t \in waitPosted => t \in waitPosted') /\ (t \in leaving => t \in leaving')
      BY <2>1, <2>6
    <3>2. NotBelow(t)'
      BY <1>0, <2>1, <2>3, <3>1 DEF NotBelow
    <3>3. Counted(t)' => Exact(t)'
      BY <1>0, <2>1, <2>3, <3>1 DEF Exact
    <3> QED BY <3>2, <3>3
  <2> QED BY <2>2, <2>4, <2>5, <2>6
<1>6. CASE Stop
  <2>1. /\ \A r \in Parsers : ~Building(r)
        /\ server'.stopped /\ server'.at = 0 /\ server'.deleted = server.deleted /\ waitPosted' = {0}
        /\ UNCHANGED <<parser, thread, counter, active, raising, lowering, leaving, sem, lost>>
    <3>1. ASSUME NEW r \in Parsers, Building(r) PROVE FALSE
      <4>1. thread[r] \in Threads
        BY <1>0, <3>1 DEF Updates, ThreadsTypes, Building
      <4> QED BY <1>6, <3>1, <4>1 DEF Stop, Raises, OnThread
    <3> QED BY <1>0, <1>6, <3>1 DEF Stop, ThreadsTypes
  <2>2. Updates'
    BY <1>0, <2>1 DEF Updates, Building
  <2>3. ASSUME NEW t \in Threads PROVE NotBelow(t)' /\ (Counted(t)' => Exact(t)')
    <3>1. /\ Live(t)' = Live(t) /\ Low(t)' = Low(t) /\ (Counted(t)' <=> Counted(t))
          /\ (Raises(t)' <=> Raises(t)) /\ (Lowers(t)' <=> Lowers(t))
      BY <2>1 DEF Live, Low, Counted, Raises, Lowers, OnThread, Building
    <3>2. t = server'.at => t \in waitPosted'
      BY <2>1
    <3> QED BY <1>0, <2>1, <3>1, <3>2, ThreadStands
  <2> QED BY <2>2, <2>3
<1>7. CASE ThreadDeleted
  <2> DEFINE s == server.at
  <2>1. /\ s \in Threads /\ sem[s] > 0
        /\ sem' = [sem EXCEPT ![s] = @ - 1] /\ sem \in [Threads -> Nat]
        /\ server'.stopped = server.stopped /\ server'.deleted = server.deleted \cup {s} /\ server'.at = s + 1
        /\ waitPosted' = waitPosted \cup ({s + 1} \cap Threads)
        /\ UNCHANGED <<parser, thread, counter, active, raising, lowering, leaving, lost>>
    BY <1>0, <1>7 DEF ThreadDeleted, ThreadsTypes, HttpThreadsTypeOK
  <2> HIDE DEF s
  <2>2. server.stopped
    BY <1>0, <2>1 DEF Updates
  <2>3. Updates'
    BY <1>0, <2>1, <2>2 DEF Updates, Building
  <2>4. ASSUME NEW t \in Threads PROVE NotBelow(t)' /\ (Counted(t)' => Exact(t)')
    <3>1. /\ Live(t)' = Live(t) /\ Low(t)' = Low(t) /\ (Counted(t)' <=> Counted(t))
          /\ (Raises(t)' <=> Raises(t)) /\ (Lowers(t)' <=> Lowers(t))
      BY <2>1 DEF Live, Low, Counted, Raises, Lowers, OnThread, Building
    <3>2. /\ t = server'.at => t \in waitPosted'
          /\ sem'[t] > 0 => sem[t] > 0
          /\ t \in server'.deleted => t \in server.deleted \/ sem[t] > 0
      BY <2>1
    <3> QED BY <1>0, <2>1, <3>1, <3>2, ThreadStands
  <2> QED BY <2>3, <2>4
<1>8. CASE UNCHANGED threadsvars
  <2>1. Updates'
    BY <1>0, <1>8 DEF threadsvars, Updates, Building
  <2>2. ASSUME NEW t \in Threads PROVE NotBelow(t)' /\ (Counted(t)' => Exact(t)')
    BY <1>0, <1>8 DEF threadsvars, NotBelow, Exact, Counted, Live, Low, Raises, Lowers, OnThread, Building
  <2> QED BY <2>1, <2>2
<1> QED BY <1>1, <1>2, <1>3, <1>4, <1>5, <1>6, <1>7, <1>8 DEF HttpThreadsNext

(* newRequest, requestFinished, waitForRequestsToFinish and ~HttpThread, *)
(* with any number of connections and threads and in every overlap of two *)
(* updates of a counter: a thread is ended under no more parsers than were *)
(* accepted while it was counting an end, and where no update was lost, *)
(* the destructor is let go. *)
THEOREM ThreadsOutliveHolds == HttpThreadsSpec => []ThreadsOutlive
<1>1. ThreadsInv => ThreadsOutlive
  <2> SUFFICES ASSUME ThreadsInv PROVE ThreadsOutlive
    OBVIOUS
  <2>0. ThreadsTypes /\ Updates /\ \A t \in Threads : NotBelow(t) /\ (Counted(t) => Exact(t))
    BY DEF ThreadsInv
  <2>1. ASSUME NEW t \in server.deleted
        PROVE  Cardinality({q \in OnThread(t) : parser[q] # "gone"}) <= Cardinality(OnThread(t) \cap lost.raises)
    <3>1. t \in Threads /\ server.stopped
      BY <2>0, <2>1 DEF ThreadsTypes, HttpThreadsTypeOK, Updates
    <3>2. t # Nobody
      BY <3>1 DEF Threads, Nobody
    <3>3. {q \in OnThread(t) : parser[q] # "gone"} = Live(t)
      BY <2>0, <3>1, <3>2 DEF Live, OnThread, Updates, Building, ThreadsTypes, HttpThreadsTypeOK
    <3> QED BY <2>0, <2>1, <3>1, <3>3 DEF NotBelow, Low
  <2>2. ASSUME NEW t \in Threads, t = server.at, \A q \in OnThread(t) : parser[q] = "gone", Counted(t)
        PROVE  sem[t] > 0 \/ t \in waitPosted
    <3>1. Live(t) = {}
      BY <2>2 DEF Live
    <3> QED BY <2>0, <2>2, <3>1 DEF Exact
  <2> QED BY <2>1, <2>2 DEF ThreadsOutlive, Counted
<1> QED BY <1>1, ThreadsBegin, ThreadsKept, PTL DEF HttpThreadsSpec

----------------------------------------
(* How many calls of a kind are posted, when one is added or taken. *)

PostedIn(q, op) == Cardinality({i \in 1 .. Len(q) : q[i].op = op})

LEMMA CountIsNat ==
  ASSUME NEW S, NEW q \in Seq(S), NEW op
  PROVE  /\ PostedIn(q, op) \in Nat
         /\ IsFiniteSet({i \in 1 .. Len(q) : q[i].op = op})
         /\ PostedIn(q, op) = 0 <=> \A i \in 1 .. Len(q) : q[i].op # op
  <1> DEFINE T == {i \in 1 .. Len(q) : q[i].op = op}
  <1>1. Len(q) \in Nat
    OBVIOUS
  <1>2. IsFiniteSet(1 .. Len(q))
    BY <1>1, FS_Interval
  <1>3. IsFiniteSet(T)
    BY <1>2, FS_Subset
  <1>4. Cardinality(T) \in Nat /\ (Cardinality(T) = 0 <=> T = {})
    BY <1>3, FS_CardinalityType, FS_EmptySet
  <1> QED BY <1>3, <1>4 DEF PostedIn

LEMMA CountAppended ==
  ASSUME NEW S, NEW q \in Seq(S), NEW m \in S, NEW op
  PROVE  PostedIn(Append(q, m), op) = PostedIn(q, op) + (IF m.op = op THEN 1 ELSE 0)
  <1> DEFINE r == Append(q, m)
             T == {i \in 1 .. Len(q) : q[i].op = op}
             U == {i \in 1 .. Len(r) : r[i].op = op}
  <1>0. PostedIn(Append(q, m), op) = Cardinality(U) /\ PostedIn(q, op) = Cardinality(T)
    BY DEF PostedIn
  <1>1. /\ Len(q) \in Nat /\ Len(r) = Len(q) + 1 /\ r[Len(q) + 1] = m
        /\ \A i \in 1 .. Len(q) : r[i] = q[i]
    OBVIOUS
  <1>2. IsFiniteSet(T)
    BY CountIsNat
  <1> HIDE DEF r
  <1>3. CASE m.op = op
    <2>1. U = T \cup {Len(q) + 1} /\ Len(q) + 1 \notin T
      BY <1>1, <1>3
    <2> HIDE DEF U, T
    <2>2. Cardinality(U) = Cardinality(T) + 1
      BY <1>2, <2>1, FS_AddElement
    <2> QED BY ONLY <1>0, <1>3, <2>2
  <1>4. CASE m.op # op
    <2>1. U = T
      BY <1>1, <1>4
    <2>2. Cardinality(T) \in Nat
      BY <1>2, FS_CardinalityType
    <2> HIDE DEF U, T
    <2>3. Cardinality(U) = Cardinality(T) /\ Cardinality(T) \in Nat
      BY <2>1, <2>2
    <2> QED BY ONLY <1>0, <1>4, <2>3
  <1> QED BY <1>3, <1>4

LEMMA CountTaken ==
  ASSUME NEW S, NEW q \in Seq(S), q # <<>>, NEW op
  PROVE  PostedIn(q, op) = PostedIn(Tail(q), op) + (IF Head(q).op = op THEN 1 ELSE 0)
  <1> DEFINE r == Tail(q)
             U == {i \in 1 .. Len(q) : q[i].op = op}
             T == {i \in 1 .. Len(r) : r[i].op = op}
             V == {i \in 2 .. Len(q) : q[i].op = op}
  <1>0. PostedIn(Tail(q), op) = Cardinality(T) /\ PostedIn(q, op) = Cardinality(U)
    BY DEF PostedIn
  <1>1. /\ Len(q) \in Nat \ {0} /\ Len(r) = Len(q) - 1 /\ Head(q) = q[1]
        /\ \A i \in 1 .. Len(r) : r[i] = q[i + 1] /\ r \in Seq(S)
    OBVIOUS
  <1>2. IsFiniteSet(U) /\ Cardinality(U) \in Nat
    BY CountIsNat, FS_CardinalityType
  <1>3. IsFiniteSet(T) /\ Cardinality(T) \in Nat
    <2>1. r \in Seq(S)
      OBVIOUS
    <2> HIDE DEF r
    <2> QED BY <2>1, CountIsNat, FS_CardinalityType
  <1>4. V \subseteq U
    BY <1>1
  <1>5. IsFiniteSet(V)
    BY <1>2, <1>4, FS_Subset
  <1>6. Cardinality(V) = Cardinality(T)
    <2> HIDE DEF r
    <2> DEFINE f == [i \in T |-> i + 1]
    <2>1. f \in [T -> V]
      BY <1>1
    <2>2. \A i, j \in T : f[i] = f[j] => i = j
      BY <1>1
    <2>3. \A v \in V : v - 1 \in T /\ f[v - 1] = v
      BY <1>1
    <2>4. f \in Bijection(T, V)
      BY <2>1, <2>2, <2>3 DEF Bijection, Injection, Surjection, IsInjective
    <2> HIDE DEF f, T, V
    <2>5. ExistsBijection(T, V)
      BY <2>4 DEF ExistsBijection
    <2>6. IsFiniteSet(T) /\ IsFiniteSet(V)
      BY <1>3, <1>5
    <2>7. Cardinality(T) = Cardinality(V)
      BY ONLY <2>4, <2>5, <2>6, FS_SameCardinalityBij, FS_Bijection
    <2> QED BY <2>7
  <1> HIDE DEF r
  <1>7. CASE Head(q).op = op
    <2>1. U = V \cup {1} /\ 1 \notin V
      BY <1>1, <1>7
    <2>2. Cardinality(U) = Cardinality(V) + 1
      <3> HIDE DEF U, V
      <3> QED BY <1>5, <2>1, FS_AddElement
    <2>3. Cardinality(U) = Cardinality(T) + 1
      <3> HIDE DEF U, V, T
      <3> QED BY <1>6, <2>2
    <2> HIDE DEF U, V, T
    <2> QED BY ONLY <1>0, <1>7, <2>3, <1>3
  <1>8. CASE Head(q).op # op
    <2>1. U = V
      BY <1>1, <1>8
    <2>2. Cardinality(U) = Cardinality(T) /\ Cardinality(T) \in Nat
      <3> HIDE DEF U, V, T
      <3> QED BY <1>3, <1>6, <2>1
    <2> HIDE DEF U, V, T
    <2> QED BY ONLY <1>0, <1>8, <2>2
  <1> QED BY <1>7, <1>8

(****************************************)
(* A connection of the server.  The right to read it is one token: the *)
(* watcher, bytes that were posted, a parse that is scheduled or runs, a *)
(* handler that returns to the parser, or an upload nobody has taken. *)
(* Whoever holds the token may call startReadWatcher, so closed() comes *)
(* once; and the references of the parser are the open requests, the *)
(* detachRequest calls on their way and the connection, until it has said *)
(* closed() or was taken over. *)
(****************************************)
Posting == [op: {"bytes", "closed", "detach"}] \cup [op: {"reply"}, id: Ids]

NetOK(c) ==
  /\ c = [watch |-> c.watch, closed |-> c.closed, informed |-> c.informed,
          telling |-> c.telling, data |-> c.data]
  /\ c.watch \in BOOLEAN /\ c.closed \in SUBSET HardClosed /\ c.telling \in Nat
  /\ c.informed \subseteq c.closed /\ (c.watch => R \notin c.closed)

ParserOK(q) ==
  /\ q = [header |-> q.header, body |-> q.body, length |-> q.length, count |-> q.count,
          nextReply |-> q.nextReply, replies |-> q.replies, refs |-> q.refs,
          detached |-> q.detached, pass |-> q.pass, hook |-> q.hook, alive |-> q.alive]
  /\ q.count \in 0 .. MaxRequests /\ q.refs \in Int
  /\ q.detached \in BOOLEAN /\ q.pass \in BOOLEAN /\ q.hook \in BOOLEAN /\ q.alive \in BOOLEAN

Types(c, q, l, s, ph, r, a) ==
  /\ NetOK(c) /\ ParserOK(s) /\ q \in Seq(Posting) /\ l \in SUBSET {"parse", "delete"}
  /\ ph \in {"idle", "parse", "handler"} /\ r \in [Ids -> {"none", "handler", "kept", "gone"}]
  /\ a \in [Ids -> BOOLEAN]

One(holds) == IF holds THEN 1 ELSE 0

Readers(c, q, l, s, ph) ==
  One(c.watch) + PostedIn(q, "bytes") + One("parse" \in l) + One(ph = "parse")
    + One(ph = "handler" /\ ~s.pass /\ ~s.detached) + One(s.pass /\ ~s.hook)

OneReader(c, q, l, s, ph) ==
  /\ Readers(c, q, l, s, ph) <= 1
  /\ c.informed # {} \/ s.detached => Readers(c, q, l, s, ph) = 0
  /\ Readers(c, q, l, s, ph) = 1 /\ PostedIn(q, "bytes") = 0 => c.data = <<>>

ToldOnce(c, q, s) ==
  /\ c.telling + PostedIn(q, "closed") <= 1
  /\ c.informed = {} => c.telling + PostedIn(q, "closed") = 0
  /\ s.detached => c.informed = {}

Holding(r) == {n \in Ids : r[n] \in {"handler", "kept"}}

OwnRef(c, q, s) ==
  IF s.detached THEN 0 ELSE IF c.informed = {} THEN 1 ELSE c.telling + PostedIn(q, "closed")

Referred(c, q, s, r) ==
  s.refs = Cardinality(Holding(r)) + PostedIn(q, "detach") + OwnRef(c, q, s)

Phases(l, s, ph, r, a) ==
  /\ ph = "parse" \/ "parse" \in l => ~s.pass
  /\ s.pass => s.header = <<>>
  /\ s.hook => s.pass
  /\ ph = "handler" => /\ s.count \in Ids /\ r[s.count] \in {"handler", "kept"}
                       /\ s.detached => a[s.count]
  /\ \A n \in Ids : r[n] = "none" <=> n > s.count

(* A reply that is posted is before the detachRequest of its request. *)
RepliesHeld(q, r) ==
  \A i \in 1 .. Len(q) : q[i].op = "reply" =>
    r[q[i].id] = "kept" \/ \E j \in i + 1 .. Len(q) : q[j].op = "detach"

Unreferenced(l, s) == "delete" \in l \/ ~s.alive => s.refs = 0

HInv(c, q, l, s, ph, r, a) ==
  /\ Types(c, q, l, s, ph, r, a) /\ OneReader(c, q, l, s, ph) /\ ToldOnce(c, q, s)
  /\ Referred(c, q, s, r) /\ Phases(l, s, ph, r, a) /\ RepliesHeld(q, r) /\ Unreferenced(l, s)

----------------------------------------
(* Without references nothing is under way. *)
LEMMA HoldingFinite ==
  ASSUME NEW r
  PROVE  IsFiniteSet(Holding(r)) /\ Cardinality(Holding(r)) \in Nat
         /\ (Cardinality(Holding(r)) = 0 <=> Holding(r) = {})
  <1>1. IsFiniteSet(Ids)
    BY HttpAssumption, FS_Interval DEF Ids
  <1>2. Holding(r) \subseteq Ids
    BY DEF Holding
  <1>3. IsFiniteSet(Holding(r))
    BY <1>1, <1>2, FS_Subset
  <1> QED BY <1>3, FS_CardinalityType, FS_EmptySet

LEMMA Counts ==
  ASSUME NEW q \in Seq(Posting)
  PROVE  /\ PostedIn(q, "bytes") \in Nat /\ PostedIn(q, "closed") \in Nat /\ PostedIn(q, "detach") \in Nat
         /\ PostedIn(q, "bytes") = 0 => \A i \in 1 .. Len(q) : q[i].op # "bytes"
         /\ PostedIn(q, "closed") = 0 => \A i \in 1 .. Len(q) : q[i].op # "closed"
         /\ PostedIn(q, "detach") = 0 => \A i \in 1 .. Len(q) : q[i].op # "detach"
  BY CountIsNat

LEMMA Quiet ==
  ASSUME NEW c, NEW q, NEW l, NEW s, NEW ph, NEW r, NEW a, HInv(c, q, l, s, ph, r, a), s.refs = 0
  PROVE  /\ q = <<>> /\ c.telling = 0 /\ ~c.watch /\ ph = "idle" /\ "parse" \notin l
         /\ Holding(r) = {}
  <1>1. Types(c, q, l, s, ph, r, a)
    BY DEF HInv
  <1>2. /\ PostedIn(q, "bytes") \in Nat /\ PostedIn(q, "closed") \in Nat /\ PostedIn(q, "detach") \in Nat
        /\ Cardinality(Holding(r)) \in Nat
    BY <1>1, Counts, HoldingFinite DEF Types
  <1>3. c.telling \in Nat /\ OwnRef(c, q, s) \in Nat
    BY <1>1, <1>2 DEF Types, NetOK, OwnRef
  <1>4. Cardinality(Holding(r)) = 0 /\ PostedIn(q, "detach") = 0 /\ OwnRef(c, q, s) = 0
    BY <1>2, <1>3 DEF HInv, Referred
  <1>5. c.telling = 0 /\ PostedIn(q, "closed") = 0 /\ (s.detached \/ c.informed # {})
    BY <1>2, <1>3, <1>4 DEF OwnRef, HInv, ToldOnce
  <1>6. Readers(c, q, l, s, ph) = 0
    BY <1>5 DEF HInv, OneReader
  <1>7. ~c.watch /\ PostedIn(q, "bytes") = 0 /\ "parse" \notin l /\ ph # "parse"
    BY <1>2, <1>6 DEF Readers, One
  <1>8. Holding(r) = {}
    BY <1>4, HoldingFinite
  <1>9. ph # "handler"
    BY <1>8 DEF HInv, Phases, Holding
  <1>10. q = <<>>
    <2> SUFFICES ASSUME q # <<>> PROVE FALSE
      OBVIOUS
    <2>1. q \in Seq(Posting)
      BY <1>1 DEF Types
    <2>2. 1 \in 1 .. Len(q) /\ q[1] \in Posting
      BY <2>1
    <2>3. q[1].op = "reply" /\ q[1].id \in Ids
      BY <1>4, <1>5, <1>7, <2>1, <2>2, Counts DEF Posting
    <2>4. r[q[1].id] # "kept"
      BY <1>8, <2>3 DEF Holding
    <2>5. \A j \in 1 .. Len(q) : q[j].op # "detach"
      BY <1>4, <2>1, Counts
    <2>6. Len(q) \in Nat
      BY <2>1
    <2> QED BY <2>2, <2>3, <2>4, <2>5, <2>6 DEF HInv, RepliesHeld
  <1> QED BY <1>1, <1>5, <1>7, <1>8, <1>9, <1>10 DEF Types

----------------------------------------
(* What happens to the connection. *)

LEMMA CloseNet ==
  ASSUME NEW c, NetOK(c), NEW type, R \in type, type \subseteq HardClosed,
         c.watch => c.informed = {}
  PROVE  LET e == Close(c, type)
         IN  /\ NetOK(e) /\ ~e.watch /\ e.data = c.data
             /\ c.watch => e.informed # {} /\ e.telling = c.telling + 1
             /\ ~c.watch => e.informed = c.informed /\ e.telling = c.telling
  <1> DEFINE cl == c.closed \cup type
             wt == c.watch /\ R \notin type
             no == FALSE
             z  == [c EXCEPT !.closed = cl, !.watch = wt]
             y  == [watch |-> no, closed |-> cl, informed |-> c.informed,
                    telling |-> c.telling, data |-> c.data]
  <1>0. wt = no
    OBVIOUS
  <1>a. Close(c, type) = IF z.closed # c.closed /\ (no \/ z.watch # c.watch) THEN Tell(z) ELSE z
    BY DEF Close, CloseNow
  <1>3. cl \in SUBSET HardClosed /\ R \in cl /\ c.informed \subseteq cl
    BY DEF NetOK
  <1>n. ~no
    OBVIOUS
  <1>e. c = [watch |-> c.watch, closed |-> c.closed, informed |-> c.informed,
             telling |-> c.telling, data |-> c.data]
    BY DEF NetOK
  <1> HIDE DEF wt, no, cl
  <1>1. z = y
    <2> DEFINE x == [c EXCEPT !.closed = cl]
    <2>1. x = [watch |-> c.watch, closed |-> cl, informed |-> c.informed,
               telling |-> c.telling, data |-> c.data]
      BY <1>e
    <2>2. z = [x EXCEPT !.watch = wt]
      OBVIOUS
    <2> HIDE DEF x, z
    <2>3. [x EXCEPT !.watch = wt] = [watch |-> wt, closed |-> cl, informed |-> c.informed,
               telling |-> c.telling, data |-> c.data]
      BY ONLY <2>1
    <2> QED BY ONLY <2>2, <2>3, <1>0 DEF y
  <1>f. y.watch = no /\ y.closed = cl /\ y.informed = c.informed /\ y.telling = c.telling /\ y.data = c.data
    OBVIOUS
  <1>4. NetOK(y)
    <2>1. y = [watch |-> y.watch, closed |-> y.closed, informed |-> y.informed,
               telling |-> y.telling, data |-> y.data]
      OBVIOUS
    <2>2. y.watch \in BOOLEAN
      BY <1>f, <1>n DEF no
    <2> QED BY <2>1, <2>2, <1>n, <1>3, <1>f DEF NetOK
  <1>2. Close(c, type) = IF y.closed # c.closed /\ (no \/ y.watch # c.watch) THEN Tell(y) ELSE y
    BY <1>a, <1>1
  <1>b. c.watch \in BOOLEAN /\ no \in BOOLEAN
    BY DEF NetOK, no
  <1> HIDE DEF z
  <1>5. CASE ~c.watch
    <2>1. y.watch = c.watch
      BY <1>5, <1>f, <1>n, <1>b
    <2> HIDE DEF y
    <2>2. Close(c, type) = y
      BY <1>2, <2>1, <1>n
    <2> QED BY <1>4, <1>5, <1>f, <1>n, <2>2
  <1>6. CASE c.watch
    <2>1. y.closed # c.closed /\ y.informed # y.closed /\ y.watch # c.watch
      <3>1. cl # c.closed
        BY <1>3, <1>6 DEF NetOK
      <3>2. c.informed = {}
        BY <1>6
      <3> HIDE DEF y
      <3> QED BY <1>3, <1>6, <1>f, <1>n, <3>1, <3>2
    <2>2. Close(c, type) = Tell(y)
      BY <1>2, <2>1
    <2>3. Tell(y) = [watch |-> no, closed |-> cl, informed |-> cl,
                     telling |-> c.telling + 1, data |-> c.data]
      BY <2>1, <1>f DEF Tell
    <2> DEFINE t == Tell(y)
    <2>4. t.watch = no /\ t.closed = cl /\ t.informed = cl /\ t.telling = c.telling + 1 /\ t.data = c.data
          /\ t = [watch |-> t.watch, closed |-> t.closed, informed |-> t.informed,
                  telling |-> t.telling, data |-> t.data]
      BY <2>3
    <2> HIDE DEF t, y
    <2>5. t.watch \in BOOLEAN /\ ~t.watch
      BY <2>4, <1>n, <1>b
    <2>6. c.telling + 1 \in Nat
      BY DEF NetOK
    <2>7. NetOK(t)
      BY <2>4, <2>5, <2>6, <1>3 DEF NetOK
    <2>8. Close(c, type) = t
      BY <2>2 DEF t
    <2>9. t.informed # {}
      BY <2>4, <1>3
    <2> QED BY ONLY <2>4, <2>5, <2>7, <2>8, <2>9, <1>6
  <1> QED BY <1>5, <1>6, <1>b

LEMMA StartNet ==
  ASSUME NEW c, NetOK(c), c.informed = {}, ~c.watch
  PROVE  LET e == StartRead(c)
         IN  /\ NetOK(e) /\ e.data = c.data
             /\ \/ e.watch /\ e.informed = {} /\ e.telling = c.telling
                \/ ~e.watch /\ e.informed # {} /\ e.telling = c.telling + 1
  <1>1. CASE R \in c.closed
    <2>1. StartRead(c) = [watch |-> c.watch, closed |-> c.closed, informed |-> c.closed,
                          telling |-> c.telling + 1, data |-> c.data]
      BY <1>1 DEF StartRead, Tell, NetOK
    <2> QED BY <1>1, <2>1 DEF NetOK
  <1>2. CASE R \notin c.closed
    <2> DEFINE yes == TRUE
    <2>1. StartRead(c) = [watch |-> yes, closed |-> c.closed, informed |-> c.informed,
                          telling |-> c.telling, data |-> c.data]
      BY <1>2 DEF StartRead, NetOK
    <2> QED BY <1>2, <2>1 DEF NetOK
  <1> QED BY <1>1, <1>2

----------------------------------------
(* Nobody holds the token, and startReadWatcher may be called. *)
TokenFree(c, q, l, s, ph) == Readers(c, q, l, s, ph) = 0 /\ c.informed = {} /\ ~s.detached

Same(s, t) ==
  /\ ParserOK(t) /\ t.count = s.count /\ t.refs = s.refs /\ t.detached = s.detached
  /\ t.alive = s.alive /\ t.pass = s.pass /\ t.hook = s.hook

LEMMA ParserMoves ==
  ASSUME NEW c, NEW q, NEW l, NEW s, NEW ph, NEW r, NEW a, HInv(c, q, l, s, ph, r, a),
         NEW t, Same(s, t), t.pass => t.header = <<>>
  PROVE  HInv(c, q, l, t, ph, r, a) /\ Readers(c, q, l, t, ph) = Readers(c, q, l, s, ph)
  <1>1. Types(c, q, l, t, ph, r, a)
    BY DEF HInv, Types, Same
  <1>2. Readers(c, q, l, t, ph) = Readers(c, q, l, s, ph)
    BY DEF Readers, Same
  <1>3. OneReader(c, q, l, t, ph) /\ ToldOnce(c, q, t)
    BY <1>2 DEF HInv, OneReader, ToldOnce, Same
  <1>4. Referred(c, q, t, r) /\ Unreferenced(l, t)
    BY DEF HInv, Referred, OwnRef, Same, Unreferenced
  <1>5. Phases(l, t, ph, r, a)
    BY DEF HInv, Phases, Same
  <1> QED BY <1>1, <1>2, <1>3, <1>4, <1>5 DEF HInv

LEMMA AnswerMoves ==
  ASSUME NEW c, NEW q, NEW l, NEW s, NEW ph, NEW r, NEW a, HInv(c, q, l, s, ph, r, a),
         NEW n \in Ids
  PROVE  HInv(c, q, l, s, ph, r, [a EXCEPT ![n] = TRUE])
  <1> DEFINE b == [a EXCEPT ![n] = TRUE]
  <1>1. a \in [Ids -> BOOLEAN]
    BY DEF HInv, Types
  <1>2. b \in [Ids -> BOOLEAN] /\ \A m \in Ids : a[m] => b[m]
    BY <1>1
  <1> HIDE DEF b
  <1>3. Types(c, q, l, s, ph, r, b) /\ Phases(l, s, ph, r, b)
    BY <1>2 DEF HInv, Types, Phases
  <1>4. HInv(c, q, l, s, ph, r, b)
    BY <1>3 DEF HInv
  <1> QED BY <1>4 DEF b

LEMMA NetMoves ==
  ASSUME NEW c, NEW q, NEW l, NEW s, NEW ph, NEW r, NEW a, HInv(c, q, l, s, ph, r, a),
         NEW e, NetOK(e), e.watch = c.watch, e.informed = c.informed, e.telling = c.telling,
         e.data = c.data \/ e.data = <<>> \/ Readers(c, q, l, s, ph) = 0
  PROVE  HInv(e, q, l, s, ph, r, a) /\ Readers(e, q, l, s, ph) = Readers(c, q, l, s, ph)
  <1>1. Types(e, q, l, s, ph, r, a)
    BY DEF HInv, Types
  <1>2. Readers(e, q, l, s, ph) = Readers(c, q, l, s, ph)
    BY DEF Readers
  <1>3. OneReader(e, q, l, s, ph) /\ ToldOnce(e, q, s)
    BY <1>2 DEF HInv, OneReader, ToldOnce
  <1>4. Referred(e, q, s, r)
    BY DEF HInv, Referred, OwnRef
  <1> QED BY <1>1, <1>2, <1>3, <1>4 DEF HInv

(* A handler keeps its request. *)
LEMMA KeepMoves ==
  ASSUME NEW c, NEW q, NEW l, NEW s, NEW ph, NEW r, NEW a, HInv(c, q, l, s, ph, r, a),
         NEW n \in Ids, r[n] \in {"handler", "kept"}
  PROVE  HInv(c, q, l, s, ph, [r EXCEPT ![n] = "kept"], a)
  <1> DEFINE t == [r EXCEPT ![n] = "kept"]
  <1>1. r \in [Ids -> {"none", "handler", "kept", "gone"}]
    BY DEF HInv, Types
  <1>2. /\ t \in [Ids -> {"none", "handler", "kept", "gone"}] /\ t[n] = "kept"
        /\ \A m \in Ids : m # n => t[m] = r[m]
    BY <1>1
  <1> HIDE DEF t
  <1>3. Holding(t) = Holding(r)
    BY <1>2 DEF Holding
  <1>4. Types(c, q, l, s, ph, t, a) /\ Referred(c, q, s, t)
    BY <1>2, <1>3 DEF HInv, Types, Referred
  <1>5. Phases(l, s, ph, t, a)
    BY <1>2 DEF HInv, Phases
  <1>6. RepliesHeld(q, t)
    <2>1. \A m : r[m] = "kept" /\ m \in Ids => t[m] = "kept"
      BY <1>2
    <2>2. \A i \in 1 .. Len(q) : q[i].op = "reply" => q[i].id \in Ids
      BY DEF HInv, Types, Posting
    <2> QED BY <2>1, <2>2 DEF HInv, RepliesHeld
  <1>7. HInv(c, q, l, s, ph, t, a)
    BY <1>4, <1>5, <1>6 DEF HInv
  <1> QED BY <1>7 DEF t

LEMMA CloseMoves ==
  ASSUME NEW c, NEW q, NEW l, NEW s, NEW ph, NEW r, NEW a, HInv(c, q, l, s, ph, r, a),
         NEW type, R \in type, type \subseteq HardClosed
  PROVE  HInv(Close(c, type), q, l, s, ph, r, a)
  <1> DEFINE e == Close(c, type)
  <1>1. NetOK(c) /\ PostedIn(q, "bytes") \in Nat /\ PostedIn(q, "closed") \in Nat /\ c.telling \in Nat
    BY Counts DEF HInv, Types, NetOK
  <1>2. c.watch => c.informed = {} /\ ~s.detached /\ Readers(c, q, l, s, ph) = 1
    BY <1>1 DEF HInv, OneReader, Readers, One
  <1>3. /\ NetOK(e) /\ ~e.watch /\ e.data = c.data
        /\ c.watch => e.informed # {} /\ e.telling = c.telling + 1
        /\ ~c.watch => e.informed = c.informed /\ e.telling = c.telling
    BY <1>1, <1>2, CloseNet
  <1>b. e.watch \in BOOLEAN /\ c.watch \in BOOLEAN
    BY <1>1, <1>3 DEF NetOK
  <1> SUFFICES HInv(e, q, l, s, ph, r, a)
    OBVIOUS
  <1> HIDE DEF e
  <1>4. CASE c.watch
    <2>1. Readers(e, q, l, s, ph) = 0
      <3>1. Readers(c, q, l, s, ph) = 1 + PostedIn(q, "bytes") + One("parse" \in l) + One(ph = "parse")
              + One(ph = "handler" /\ ~s.pass /\ ~s.detached) + One(s.pass /\ ~s.hook)
        BY <1>4 DEF Readers, One
      <3>2. Readers(e, q, l, s, ph) = 0 + PostedIn(q, "bytes") + One("parse" \in l) + One(ph = "parse")
              + One(ph = "handler" /\ ~s.pass /\ ~s.detached) + One(s.pass /\ ~s.hook)
        BY <1>3 DEF Readers, One
      <3>3. \A x \in BOOLEAN : One(x) \in Nat
        BY DEF One
      <3> QED BY <1>1, <1>2, <1>4, <3>1, <3>2, <3>3 DEF One
    <2>2. OneReader(e, q, l, s, ph)
      BY <2>1 DEF OneReader
    <2>3. c.telling + PostedIn(q, "closed") = 0
      BY <1>2, <1>4 DEF HInv, ToldOnce
    <2>4. ToldOnce(e, q, s)
      BY <1>1, <1>2, <1>3, <1>4, <2>3 DEF ToldOnce
    <2>5. OwnRef(e, q, s) = 1 /\ OwnRef(c, q, s) = 1
      BY <1>1, <1>2, <1>3, <1>4, <2>3 DEF OwnRef
    <2>6. Referred(e, q, s, r)
      BY <2>5 DEF HInv, Referred
    <2>7. Types(e, q, l, s, ph, r, a)
      BY <1>3 DEF HInv, Types
    <2> QED BY <2>2, <2>4, <2>6, <2>7 DEF HInv
  <1>5. CASE ~c.watch
    <2>1. e.watch = c.watch
      BY <1>3, <1>5, <1>b
    <2>2. HInv(e, q, l, s, ph, r, a)
      BY ONLY <1>3, <1>5, <2>1, NetMoves, HInv(c, q, l, s, ph, r, a)
    <2> QED BY <2>2
  <1> QED BY <1>4, <1>5

LEMMA StartMoves ==
  ASSUME NEW c, NEW q, NEW l, NEW s, NEW ph, NEW r, NEW a, HInv(c, q, l, s, ph, r, a),
         TokenFree(c, q, l, s, ph), c.data = <<>>
  PROVE  HInv(StartRead(c), q, l, s, ph, r, a)
  <1> DEFINE e == StartRead(c)
  <1>1. NetOK(c) /\ PostedIn(q, "bytes") \in Nat /\ PostedIn(q, "closed") \in Nat /\ c.telling \in Nat
    BY Counts DEF HInv, Types, NetOK
  <1>2. c.informed = {} /\ ~s.detached /\ ~c.watch
    BY <1>1 DEF TokenFree, Readers, One
  <1>3. /\ NetOK(e) /\ e.data = c.data
        /\ \/ e.watch /\ e.informed = {} /\ e.telling = c.telling
           \/ ~e.watch /\ e.informed # {} /\ e.telling = c.telling + 1
    BY <1>1, <1>2, StartNet
  <1> HIDE DEF e
  <1>6. c.telling + PostedIn(q, "closed") = 0
    BY <1>2 DEF HInv, ToldOnce
  <1>7. Types(e, q, l, s, ph, r, a)
    BY <1>3 DEF HInv, Types
  <1>8. Readers(e, q, l, s, ph) = One(e.watch)
    <2>1. Readers(c, q, l, s, ph) = 0 + PostedIn(q, "bytes") + One("parse" \in l) + One(ph = "parse")
              + One(ph = "handler" /\ ~s.pass /\ ~s.detached) + One(s.pass /\ ~s.hook)
      BY <1>2 DEF Readers, One
    <2>2. Readers(e, q, l, s, ph) = One(e.watch) + PostedIn(q, "bytes") + One("parse" \in l) + One(ph = "parse")
              + One(ph = "handler" /\ ~s.pass /\ ~s.detached) + One(s.pass /\ ~s.hook)
      BY DEF Readers
    <2>3. \A x \in BOOLEAN : One(x) \in Nat
      BY DEF One
    <2> QED BY <1>1, <2>1, <2>2 DEF TokenFree, One
  <1>9. OneReader(e, q, l, s, ph)
    BY <1>2, <1>3, <1>8 DEF OneReader, One
  <1>10. ToldOnce(e, q, s)
    BY <1>1, <1>2, <1>3, <1>6 DEF ToldOnce
  <1>11. OwnRef(e, q, s) = 1 /\ OwnRef(c, q, s) = 1
    BY <1>1, <1>2, <1>3, <1>6 DEF OwnRef
  <1>12. Referred(e, q, s, r)
    BY <1>11 DEF HInv, Referred
  <1>13. HInv(e, q, l, s, ph, r, a)
    BY <1>7, <1>9, <1>10, <1>12 DEF HInv
  <1> QED BY <1>13 DEF e

----------------------------------------
(* Posting and taking a call. *)
LEMMA Taken ==
  ASSUME NEW q \in Seq(Posting), q # <<>>
  PROVE  /\ Tail(q) \in Seq(Posting) /\ Head(q) \in Posting
         /\ PostedIn(q, "bytes") = PostedIn(Tail(q), "bytes") + (IF Head(q).op = "bytes" THEN 1 ELSE 0)
         /\ PostedIn(q, "closed") = PostedIn(Tail(q), "closed") + (IF Head(q).op = "closed" THEN 1 ELSE 0)
         /\ PostedIn(q, "detach") = PostedIn(Tail(q), "detach") + (IF Head(q).op = "detach" THEN 1 ELSE 0)
         /\ PostedIn(Tail(q), "bytes") \in Nat /\ PostedIn(Tail(q), "closed") \in Nat
         /\ PostedIn(Tail(q), "detach") \in Nat
  <1>1. Tail(q) \in Seq(Posting) /\ Head(q) \in Posting
    OBVIOUS
  <1>2. PostedIn(q, "bytes") = PostedIn(Tail(q), "bytes") + (IF Head(q).op = "bytes" THEN 1 ELSE 0)
    BY CountTaken
  <1>3. PostedIn(q, "closed") = PostedIn(Tail(q), "closed") + (IF Head(q).op = "closed" THEN 1 ELSE 0)
    BY CountTaken
  <1>4. PostedIn(q, "detach") = PostedIn(Tail(q), "detach") + (IF Head(q).op = "detach" THEN 1 ELSE 0)
    BY CountTaken
  <1>5. /\ PostedIn(Tail(q), "bytes") \in Nat /\ PostedIn(Tail(q), "closed") \in Nat
        /\ PostedIn(Tail(q), "detach") \in Nat
    BY ONLY <1>1, Counts
  <1> QED BY <1>1, <1>2, <1>3, <1>4, <1>5

LEMMA Appended ==
  ASSUME NEW q \in Seq(Posting), NEW m \in Posting
  PROVE  /\ Append(q, m) \in Seq(Posting)
         /\ PostedIn(Append(q, m), "bytes") = PostedIn(q, "bytes") + (IF m.op = "bytes" THEN 1 ELSE 0)
         /\ PostedIn(Append(q, m), "closed") = PostedIn(q, "closed") + (IF m.op = "closed" THEN 1 ELSE 0)
         /\ PostedIn(Append(q, m), "detach") = PostedIn(q, "detach") + (IF m.op = "detach" THEN 1 ELSE 0)
         /\ PostedIn(q, "bytes") \in Nat /\ PostedIn(q, "closed") \in Nat
         /\ PostedIn(q, "detach") \in Nat
  <1>1. Append(q, m) \in Seq(Posting)
    OBVIOUS
  <1>2. PostedIn(Append(q, m), "bytes") = PostedIn(q, "bytes") + (IF m.op = "bytes" THEN 1 ELSE 0)
    BY CountAppended
  <1>3. PostedIn(Append(q, m), "closed") = PostedIn(q, "closed") + (IF m.op = "closed" THEN 1 ELSE 0)
    BY CountAppended
  <1>4. PostedIn(Append(q, m), "detach") = PostedIn(q, "detach") + (IF m.op = "detach" THEN 1 ELSE 0)
    BY CountAppended
  <1>5. /\ PostedIn(q, "bytes") \in Nat /\ PostedIn(q, "closed") \in Nat
        /\ PostedIn(q, "detach") \in Nat
    BY ONLY Counts, q \in Seq(Posting)
  <1> QED BY <1>1, <1>2, <1>3, <1>4, <1>5

LEMMA RepliesTaken ==
  ASSUME NEW q \in Seq(Posting), q # <<>>, NEW r, RepliesHeld(q, r)
  PROVE  RepliesHeld(Tail(q), r)
  <1> DEFINE t == Tail(q)
  <1>1. /\ Len(t) = Len(q) - 1 /\ Len(q) \in Nat
        /\ \A i \in 1 .. Len(t) : t[i] = q[i + 1]
    OBVIOUS
  <1> HIDE DEF t
  <1>2. ASSUME NEW i \in 1 .. Len(t), t[i].op = "reply"
        PROVE  r[t[i].id] = "kept" \/ \E j \in i + 1 .. Len(t) : t[j].op = "detach"
    <2>1. i + 1 \in 1 .. Len(q) /\ t[i] = q[i + 1]
      BY <1>1
    <2>2. r[q[i + 1].id] = "kept" \/ \E j \in i + 2 .. Len(q) : q[j].op = "detach"
      <3>1. r[q[i + 1].id] = "kept" \/ \E j \in (i + 1) + 1 .. Len(q) : q[j].op = "detach"
        BY <2>1, <1>2 DEF RepliesHeld
      <3> QED BY <3>1, <1>1
    <2>3. ASSUME NEW j \in i + 2 .. Len(q), q[j].op = "detach"
          PROVE  \E k \in i + 1 .. Len(t) : t[k].op = "detach"
      <3>1. j - 1 \in i + 1 .. Len(t) /\ j - 1 \in 1 .. Len(t) /\ t[j - 1] = q[(j - 1) + 1] /\ (j - 1) + 1 = j
        BY <1>1
      <3> QED BY <2>3, <3>1
    <2> QED BY <2>1, <2>2, <2>3
  <1>3. RepliesHeld(t, r)
    BY <1>2 DEF RepliesHeld
  <1> QED BY <1>3 DEF t

LEMMA RepliesAppended ==
  ASSUME NEW q \in Seq(Posting), NEW r, NEW u, NEW m \in Posting, RepliesHeld(q, r),
         m.op = "reply" => u[m.id] = "kept",
         \A n \in Ids : r[n] = "kept" => u[n] = "kept" \/ m.op = "detach"
  PROVE  RepliesHeld(Append(q, m), u)
  <1> DEFINE t == Append(q, m)
  <1>1. /\ Len(t) = Len(q) + 1 /\ Len(q) \in Nat /\ t[Len(q) + 1] = m
        /\ \A i \in 1 .. Len(q) : t[i] = q[i] /\ q[i] \in Posting
    OBVIOUS
  <1> HIDE DEF t
  <1>2. ASSUME NEW i \in 1 .. Len(t), t[i].op = "reply"
        PROVE  u[t[i].id] = "kept" \/ \E j \in i + 1 .. Len(t) : t[j].op = "detach"
    <2>1. CASE i = Len(q) + 1
      BY <1>1, <1>2, <2>1
    <2>2. CASE i \in 1 .. Len(q)
      <3>1. t[i] = q[i] /\ q[i].id \in Ids
        BY <1>1, <1>2, <2>2 DEF Posting
      <3>2. r[q[i].id] = "kept" \/ \E j \in i + 1 .. Len(q) : q[j].op = "detach"
        BY <1>2, <2>2, <3>1 DEF RepliesHeld
      <3>3. CASE r[q[i].id] = "kept"
        <4>1. u[q[i].id] = "kept" \/ m.op = "detach"
          BY <3>1, <3>3
        <4>2. Len(t) \in i + 1 .. Len(t) /\ t[Len(t)] = m
          BY <1>1, <2>2
        <4> QED BY <3>1, <4>1, <4>2
      <3>4. ASSUME NEW j \in i + 1 .. Len(q), q[j].op = "detach"
            PROVE  \E k \in i + 1 .. Len(t) : t[k].op = "detach"
        <4>1. j \in 1 .. Len(q) /\ j \in i + 1 .. Len(t)
          BY <1>1, <2>2
        <4> QED BY <1>1, <3>4, <4>1
      <3> QED BY <3>2, <3>3, <3>4
    <2> QED BY <1>1, <2>1, <2>2
  <1>3. RepliesHeld(t, u)
    BY <1>2 DEF RepliesHeld
  <1> QED BY <1>3 DEF t

----------------------------------------
(* The token is put down. *)
LEMMA TokenTaken ==
  ASSUME NEW c, NEW q, NEW l, NEW s, NEW ph, NEW r, NEW a, HInv(c, q, l, s, ph, r, a), q # <<>>, Head(q).op = "bytes"
  PROVE  HInv(c, Tail(q), l, s, ph, r, a) /\ TokenFree(c, Tail(q), l, s, ph)
  <1> DEFINE t == Tail(q)
  <1> SUFFICES HInv(c, t, l, s, ph, r, a) /\ TokenFree(c, t, l, s, ph)
    OBVIOUS
  <1>1. q \in Seq(Posting)
    BY DEF HInv, Types
  <1>2. /\ t \in Seq(Posting) /\ PostedIn(q, "bytes") = PostedIn(t, "bytes") + 1
        /\ PostedIn(q, "closed") = PostedIn(t, "closed")
        /\ PostedIn(q, "detach") = PostedIn(t, "detach")
        /\ PostedIn(t, "bytes") \in Nat /\ PostedIn(t, "closed") \in Nat
        /\ PostedIn(t, "detach") \in Nat
    BY <1>1, Taken
  <1>3. RepliesHeld(t, r)
    BY <1>1, RepliesTaken DEF HInv
  <1> HIDE DEF t
  <1>4. Readers(c, q, l, s, ph) = Readers(c, t, l, s, ph) + 1 /\ Readers(c, t, l, s, ph) \in Nat
    BY <1>2 DEF Readers, One
  <1>5. Readers(c, t, l, s, ph) = 0 /\ c.informed = {} /\ ~s.detached
    BY <1>4 DEF HInv, OneReader
  <1>6. OneReader(c, t, l, s, ph) /\ TokenFree(c, t, l, s, ph)
    BY <1>5 DEF OneReader, TokenFree
  <1>7. Types(c, t, l, s, ph, r, a)
    BY <1>2 DEF HInv, Types
  <1>8. ToldOnce(c, t, s) /\ Referred(c, t, s, r)
    BY <1>2 DEF HInv, ToldOnce, Referred, OwnRef
  <1> QED BY <1>3, <1>6, <1>7, <1>8 DEF HInv

LEMMA TokenStopped ==
  ASSUME NEW c, NEW q, NEW l, NEW s, NEW ph, NEW r, NEW a, HInv(c, q, l, s, ph, r, a), c.watch,
         NEW e, NetOK(e), ~e.watch, e.informed = c.informed, e.telling = c.telling
  PROVE  HInv(e, q, l, s, ph, r, a) /\ TokenFree(e, q, l, s, ph)
  <1>1. PostedIn(q, "bytes") \in Nat
    BY Counts DEF HInv, Types
  <1>2. Readers(c, q, l, s, ph) = Readers(e, q, l, s, ph) + 1 /\ Readers(e, q, l, s, ph) \in Nat
    BY <1>1 DEF Readers, One
  <1>3. Readers(e, q, l, s, ph) = 0 /\ c.informed = {} /\ ~s.detached
    BY <1>2 DEF HInv, OneReader
  <1>4. OneReader(e, q, l, s, ph) /\ TokenFree(e, q, l, s, ph)
    BY <1>3 DEF OneReader, TokenFree
  <1>5. Types(e, q, l, s, ph, r, a)
    BY DEF HInv, Types
  <1>6. ToldOnce(e, q, s) /\ Referred(e, q, s, r)
    BY DEF HInv, ToldOnce, Referred, OwnRef
  <1> QED BY <1>4, <1>5, <1>6 DEF HInv

LEMMA TokenDue ==
  ASSUME NEW c, NEW q, NEW l, NEW s, NEW ph, NEW r, NEW a, HInv(c, q, l, s, ph, r, a), "parse" \in l
  PROVE  /\ HInv(c, q, l \ {"parse"}, s, ph, r, a) /\ TokenFree(c, q, l \ {"parse"}, s, ph)
         /\ c.data = <<>> /\ ~s.pass
  <1> DEFINE t == l \ {"parse"}
  <1>0. t \in SUBSET {"parse", "delete"} /\ "parse" \notin t /\ ("delete" \in t <=> "delete" \in l)
    BY DEF HInv, Types
  <1> SUFFICES HInv(c, q, t, s, ph, r, a) /\ TokenFree(c, q, t, s, ph) /\ c.data = <<>> /\ ~s.pass
    OBVIOUS
  <1> HIDE DEF t
  <1>1. PostedIn(q, "bytes") \in Nat
    BY Counts DEF HInv, Types
  <1>2. Readers(c, q, l, s, ph) = Readers(c, q, t, s, ph) + 1 /\ Readers(c, q, t, s, ph) \in Nat
    BY <1>0, <1>1 DEF Readers, One
  <1>3. Readers(c, q, t, s, ph) = 0 /\ Readers(c, q, l, s, ph) = 1 /\ c.informed = {} /\ ~s.detached
    BY <1>2 DEF HInv, OneReader
  <1>4. OneReader(c, q, t, s, ph) /\ TokenFree(c, q, t, s, ph)
    BY <1>3 DEF OneReader, TokenFree
  <1>5. PostedIn(q, "bytes") = 0
    BY <1>1, <1>3 DEF Readers, One
  <1>6. c.data = <<>>
    BY <1>3, <1>5 DEF HInv, OneReader
  <1>7. Types(c, q, t, s, ph, r, a) /\ Phases(t, s, ph, r, a) /\ Unreferenced(t, s)
    BY <1>0 DEF HInv, Types, Phases, Unreferenced
  <1>8. ~s.pass
    BY DEF HInv, Phases
  <1> QED BY <1>4, <1>6, <1>7, <1>8 DEF HInv

LEMMA TokenParsed ==
  ASSUME NEW c, NEW q, NEW l, NEW s, NEW ph, NEW r, NEW a, HInv(c, q, l, s, ph, r, a), ph = "parse"
  PROVE  /\ HInv(c, q, l, s, "idle", r, a) /\ TokenFree(c, q, l, s, "idle")
         /\ c.data = <<>> /\ ~s.pass /\ "parse" \notin l /\ ~c.watch /\ PostedIn(q, "bytes") = 0
         /\ "delete" \notin l /\ s.alive /\ s.refs # 0
  <1> DEFINE i == "idle"
  <1> SUFFICES /\ HInv(c, q, l, s, i, r, a) /\ TokenFree(c, q, l, s, i)
               /\ c.data = <<>> /\ ~s.pass /\ "parse" \notin l /\ ~c.watch /\ PostedIn(q, "bytes") = 0
               /\ "delete" \notin l /\ s.alive /\ s.refs # 0
    OBVIOUS
  <1>0. i # "parse" /\ i # "handler" /\ i \in {"idle", "parse", "handler"}
    OBVIOUS
  <1> HIDE DEF i
  <1>1. PostedIn(q, "bytes") \in Nat
    BY Counts DEF HInv, Types
  <1>2. Readers(c, q, l, s, ph) = Readers(c, q, l, s, i) + 1 /\ Readers(c, q, l, s, i) \in Nat
    BY <1>0, <1>1 DEF Readers, One
  <1>3. Readers(c, q, l, s, i) = 0 /\ Readers(c, q, l, s, ph) = 1 /\ c.informed = {} /\ ~s.detached
    BY <1>2 DEF HInv, OneReader
  <1>4. OneReader(c, q, l, s, i) /\ TokenFree(c, q, l, s, i)
    BY <1>3 DEF OneReader, TokenFree
  <1>5. PostedIn(q, "bytes") = 0 /\ "parse" \notin l /\ ~c.watch
    BY <1>1, <1>3 DEF Readers, One
  <1>6. c.data = <<>>
    BY <1>3, <1>5 DEF HInv, OneReader
  <1>7. Types(c, q, l, s, i, r, a) /\ Phases(l, s, i, r, a)
    BY <1>0 DEF HInv, Types, Phases
  <1>8. ~s.pass
    BY DEF HInv, Phases
  <1>9. s.refs # 0
    BY Quiet
  <1>10. "delete" \notin l /\ s.alive
    BY <1>9 DEF HInv, Unreferenced
  <1> QED BY <1>4, <1>5, <1>6, <1>7, <1>8, <1>9, <1>10 DEF HInv

(* The token is taken up. *)
LEMMA TokenToParse ==
  ASSUME NEW c, NEW q, NEW l, NEW s, NEW ph, NEW r, NEW a, HInv(c, q, l, s, ph, r, a), ph = "idle", TokenFree(c, q, l, s, ph), c.data = <<>>, ~s.pass
  PROVE  HInv(c, q, l, s, "parse", r, a)
  <1> DEFINE i == "parse"
  <1> SUFFICES HInv(c, q, l, s, i, r, a)
    OBVIOUS
  <1>0. i = "parse" /\ i # "handler" /\ i \in {"idle", "parse", "handler"}
    OBVIOUS
  <1> HIDE DEF i
  <1>1. PostedIn(q, "bytes") \in Nat
    BY Counts DEF HInv, Types
  <1>2. Readers(c, q, l, s, i) = Readers(c, q, l, s, ph) + 1
    BY <1>0, <1>1 DEF Readers, One
  <1>3. OneReader(c, q, l, s, i)
    BY <1>2 DEF OneReader, TokenFree
  <1>4. Types(c, q, l, s, i, r, a) /\ Phases(l, s, i, r, a)
    BY <1>0 DEF HInv, Types, Phases
  <1> QED BY <1>3, <1>4 DEF HInv

LEMMA TokenToLater ==
  ASSUME NEW c, NEW q, NEW l, NEW s, NEW ph, NEW r, NEW a, HInv(c, q, l, s, ph, r, a), TokenFree(c, q, l, s, ph), c.data = <<>>, ~s.pass
  PROVE  HInv(c, q, l \cup {"parse"}, s, ph, r, a)
  <1> DEFINE t == l \cup {"parse"}
  <1> SUFFICES HInv(c, q, t, s, ph, r, a)
    OBVIOUS
  <1>0. t \in SUBSET {"parse", "delete"} /\ "parse" \in t /\ ("delete" \in t <=> "delete" \in l)
    BY DEF HInv, Types
  <1> HIDE DEF t
  <1>1. PostedIn(q, "bytes") \in Nat
    BY Counts DEF HInv, Types
  <1>2. Readers(c, q, t, s, ph) = Readers(c, q, l, s, ph) + 1
    BY <1>0, <1>1 DEF Readers, One, TokenFree
  <1>3. OneReader(c, q, t, s, ph)
    BY <1>2 DEF OneReader, TokenFree
  <1>4. Types(c, q, t, s, ph, r, a) /\ Phases(t, s, ph, r, a) /\ Unreferenced(t, s)
    BY <1>0 DEF HInv, Types, Phases, Unreferenced
  <1> QED BY <1>3, <1>4 DEF HInv

LEMMA TokenPosted ==
  ASSUME NEW c, NEW q, NEW l, NEW s, NEW ph, NEW r, NEW a, HInv(c, q, l, s, ph, r, a), TokenFree(c, q, l, s, ph)
  PROVE  HInv(c, Append(q, [op |-> "bytes"]), l, s, ph, r, a)
  <1> DEFINE m == [op |-> "bytes"]
             t == Append(q, m)
  <1> SUFFICES HInv(c, t, l, s, ph, r, a)
    OBVIOUS
  <1>1. q \in Seq(Posting)
    BY DEF HInv, Types
  <1>2. m \in Posting /\ m.op = "bytes"
    BY DEF Posting
  <1> HIDE DEF m
  <1>3. /\ t \in Seq(Posting) /\ PostedIn(t, "bytes") = PostedIn(q, "bytes") + 1
        /\ PostedIn(q, "closed") = PostedIn(t, "closed")
        /\ PostedIn(q, "detach") = PostedIn(t, "detach")
        /\ PostedIn(q, "bytes") \in Nat /\ PostedIn(q, "closed") \in Nat
        /\ PostedIn(q, "detach") \in Nat
    BY <1>1, <1>2, Appended
  <1>4. RepliesHeld(t, r)
    BY <1>1, <1>2, RepliesAppended DEF HInv
  <1> HIDE DEF t
  <1>5. Readers(c, t, l, s, ph) = Readers(c, q, l, s, ph) + 1
    BY <1>3 DEF Readers, One
  <1>6. OneReader(c, t, l, s, ph)
    BY <1>3, <1>5 DEF OneReader, TokenFree, Readers, One
  <1>7. Types(c, t, l, s, ph, r, a)
    BY <1>3 DEF HInv, Types
  <1>8. ToldOnce(c, t, s) /\ Referred(c, t, s, r)
    BY <1>3 DEF HInv, ToldOnce, Referred, OwnRef
  <1> QED BY <1>4, <1>6, <1>7, <1>8 DEF HInv

----------------------------------------
(* The references of the parser. *)
Fewer(s, t) ==
  /\ ParserOK(t) /\ t.count = s.count /\ t.refs = s.refs - 1 /\ t.alive = s.alive
  /\ t.pass = s.pass /\ t.hook = s.hook /\ t.header = s.header

Ended(l, s) == IF s.refs = 1 THEN l \cup {"delete"} ELSE l

LEMMA EndedMoves ==
  ASSUME NEW c, NEW q, NEW l, NEW s, NEW ph, NEW r, NEW a, HInv(c, q, l, s, ph, r, a), s.refs # 0,
         NEW t, t.refs = s.refs - 1, t.alive = s.alive
  PROVE  /\ Ended(l, s) \in SUBSET {"parse", "delete"}
         /\ "parse" \in Ended(l, s) <=> "parse" \in l
         /\ Unreferenced(Ended(l, s), t)
  <1>1. l \in SUBSET {"parse", "delete"} /\ s.refs \in Int
    BY DEF HInv, Types, ParserOK
  <1>2. "delete" \notin l /\ s.alive
    BY DEF HInv, Unreferenced
  <1>3. t.alive
    BY <1>2
  <1>4. Unreferenced(Ended(l, s), t)
    BY <1>1, <1>2, <1>3 DEF Unreferenced, Ended
  <1> QED BY <1>1, <1>4 DEF Ended

LEMMA HeldIsNat ==
  ASSUME NEW c, NEW q, NEW l, NEW s, NEW ph, NEW r, NEW a, HInv(c, q, l, s, ph, r, a)
  PROVE  /\ PostedIn(q, "bytes") \in Nat /\ PostedIn(q, "closed") \in Nat /\ PostedIn(q, "detach") \in Nat
         /\ Cardinality(Holding(r)) \in Nat /\ OwnRef(c, q, s) \in Nat /\ c.telling \in Nat
         /\ s.refs \in Int
  <1>1. /\ PostedIn(q, "bytes") \in Nat /\ PostedIn(q, "closed") \in Nat /\ PostedIn(q, "detach") \in Nat
    BY Counts DEF HInv, Types
  <1>2. c.telling \in Nat /\ s.refs \in Int
    BY DEF HInv, Types, NetOK, ParserOK
  <1> QED BY <1>1, <1>2, HoldingFinite DEF OwnRef

LEMMA PostedGoes ==
  ASSUME NEW c, NEW q, NEW l, NEW s, NEW ph, NEW r, NEW a, HInv(c, q, l, s, ph, r, a), q # <<>>, Head(q).op \in {"closed", "detach"},
         NEW t, Fewer(s, t), t.detached = s.detached
  PROVE  HInv(c, Tail(q), Ended(l, s), t, ph, r, a)
  <1> DEFINE v == Tail(q)
             k == Ended(l, s)
  <1> SUFFICES HInv(c, v, k, t, ph, r, a)
    OBVIOUS
  <1>1. q \in Seq(Posting)
    BY DEF HInv, Types
  <1>2. /\ v \in Seq(Posting)
        /\ PostedIn(q, "bytes") = PostedIn(v, "bytes")
        /\ PostedIn(q, "closed") = PostedIn(v, "closed") + (IF Head(q).op = "closed" THEN 1 ELSE 0)
        /\ PostedIn(q, "detach") = PostedIn(v, "detach") + (IF Head(q).op = "detach" THEN 1 ELSE 0)
        /\ PostedIn(v, "bytes") \in Nat /\ PostedIn(v, "closed") \in Nat
        /\ PostedIn(v, "detach") \in Nat
    BY <1>1, Taken
  <1>3. RepliesHeld(v, r)
    BY <1>1, RepliesTaken DEF HInv
  <1>4. /\ PostedIn(q, "bytes") \in Nat /\ PostedIn(q, "closed") \in Nat /\ PostedIn(q, "detach") \in Nat
        /\ Cardinality(Holding(r)) \in Nat /\ OwnRef(c, q, s) \in Nat /\ c.telling \in Nat
        /\ s.refs \in Int
    BY HeldIsNat
  <1> HIDE DEF v
  <1>5. Head(q).op = "closed" => /\ ~s.detached /\ c.informed # {}
                                 /\ c.telling = 0 /\ PostedIn(v, "closed") = 0
    BY <1>2, <1>4 DEF HInv, ToldOnce
  <1>6. OwnRef(c, q, s) = OwnRef(c, v, t) + (IF Head(q).op = "closed" THEN 1 ELSE 0)
    BY <1>2, <1>4, <1>5 DEF OwnRef
  <1>7. s.refs = Cardinality(Holding(r)) + PostedIn(q, "detach") + OwnRef(c, q, s)
    BY DEF HInv, Referred
  <1>a. OwnRef(c, v, t) \in Nat
    BY <1>2, <1>4 DEF OwnRef
  <1>8. s.refs # 0 /\ Referred(c, v, t, r)
    <2>1. t.refs = s.refs - 1
      BY DEF Fewer
    <2>2. /\ Cardinality(Holding(r)) \in Nat /\ PostedIn(v, "detach") \in Nat /\ OwnRef(c, v, t) \in Nat
      BY <1>2, <1>4, <1>a
    <2>3. s.refs = Cardinality(Holding(r)) + PostedIn(v, "detach") + OwnRef(c, v, t) + 1
      <3>1. CASE Head(q).op = "closed"
        <4>1. PostedIn(q, "detach") = PostedIn(v, "detach") /\ OwnRef(c, q, s) = OwnRef(c, v, t) + 1
          BY <1>2, <1>6, <3>1
        <4> QED BY ONLY <1>7, <2>2, <4>1
      <3>2. CASE Head(q).op = "detach"
        <4>1. PostedIn(q, "detach") = PostedIn(v, "detach") + 1 /\ OwnRef(c, q, s) = OwnRef(c, v, t)
          BY <1>2, <1>6, <1>a, <3>2
        <4> QED BY ONLY <1>7, <2>2, <4>1
      <3> QED BY <3>1, <3>2
    <2>4. s.refs # 0 /\ t.refs = Cardinality(Holding(r)) + PostedIn(v, "detach") + OwnRef(c, v, t)
      BY ONLY <2>1, <2>2, <2>3
    <2> QED BY <2>4 DEF Referred
  <1>9. k \in SUBSET {"parse", "delete"} /\ ("parse" \in k <=> "parse" \in l) /\ Unreferenced(k, t)
    BY <1>8, EndedMoves DEF Fewer
  <1> HIDE DEF k
  <1>10. Types(c, v, k, t, ph, r, a)
    BY <1>2, <1>9 DEF HInv, Types, Fewer
  <1>11. Readers(c, v, k, t, ph) = Readers(c, q, l, s, ph)
    BY <1>2, <1>9 DEF Readers, Fewer
  <1>12. OneReader(c, v, k, t, ph)
    BY <1>2, <1>11 DEF HInv, OneReader
  <1>13. ToldOnce(c, v, t)
    BY <1>2, <1>4, <1>5 DEF HInv, ToldOnce
  <1>14. Phases(k, t, ph, r, a)
    BY <1>9 DEF HInv, Phases, Fewer
  <1> QED BY <1>3, <1>8, <1>9, <1>10, <1>12, <1>13, <1>14 DEF HInv

LEMMA HandlerGoes ==
  ASSUME NEW c, NEW q, NEW l, NEW s, NEW ph, NEW r, NEW a, HInv(c, q, l, s, ph, r, a), ph # "handler", NEW n \in Ids, r[n] = "handler",
         NEW t, Fewer(s, t), t.detached = s.detached
  PROVE  /\ HInv(c, q, Ended(l, s), t, ph, [r EXCEPT ![n] = "gone"], a)
         /\ Readers(c, q, Ended(l, s), t, ph) = Readers(c, q, l, s, ph)
  <1> DEFINE u == [r EXCEPT ![n] = "gone"]
             k == Ended(l, s)
  <1> SUFFICES /\ HInv(c, q, k, t, ph, u, a)
               /\ Readers(c, q, k, t, ph) = Readers(c, q, l, s, ph)
    OBVIOUS
  <1>1. r \in [Ids -> {"none", "handler", "kept", "gone"}]
    BY DEF HInv, Types
  <1>2. /\ u \in [Ids -> {"none", "handler", "kept", "gone"}] /\ u[n] = "gone"
        /\ \A m \in Ids : m # n => u[m] = r[m]
    BY <1>1
  <1> HIDE DEF u
  <1>3. Holding(u) = Holding(r) \ {n} /\ n \in Holding(r)
    BY <1>2 DEF Holding
  <1>4. /\ PostedIn(q, "bytes") \in Nat /\ PostedIn(q, "closed") \in Nat /\ PostedIn(q, "detach") \in Nat
        /\ Cardinality(Holding(r)) \in Nat /\ OwnRef(c, q, s) \in Nat /\ s.refs \in Int
    BY HeldIsNat
  <1>5. Cardinality(Holding(u)) = Cardinality(Holding(r)) - 1 /\ Cardinality(Holding(u)) \in Nat
    <2>1. IsFiniteSet(Holding(r)) /\ Cardinality(Holding(u)) \in Nat
      BY HoldingFinite
    <2>2. Cardinality(Holding(r) \ {n}) = Cardinality(Holding(r)) - 1
      BY ONLY <1>3, <2>1, FS_RemoveElement
    <2> QED BY <1>3, <2>1, <2>2
  <1>6. OwnRef(c, q, s) = OwnRef(c, q, t)
    BY DEF OwnRef
  <1>7. s.refs = Cardinality(Holding(r)) + PostedIn(q, "detach") + OwnRef(c, q, s)
    BY DEF HInv, Referred
  <1>8. s.refs # 0 /\ Referred(c, q, t, u)
    BY <1>4, <1>5, <1>6, <1>7 DEF Referred, Fewer
  <1>9. k \in SUBSET {"parse", "delete"} /\ ("parse" \in k <=> "parse" \in l) /\ Unreferenced(k, t)
    BY <1>8, EndedMoves DEF Fewer
  <1> HIDE DEF k
  <1>10. Types(c, q, k, t, ph, u, a)
    BY <1>2, <1>9 DEF HInv, Types, Fewer
  <1>11. Readers(c, q, k, t, ph) = Readers(c, q, l, s, ph)
    BY <1>9 DEF Readers, Fewer
  <1>12. OneReader(c, q, k, t, ph) /\ ToldOnce(c, q, t)
    BY <1>11 DEF HInv, OneReader, ToldOnce
  <1>14. Phases(k, t, ph, u, a)
    <2>1. \A m \in Ids : u[m] = "none" <=> m > t.count
      <3>1. \A m \in Ids : r[m] = "none" <=> m > t.count
        BY DEF HInv, Phases, Fewer
      <3> QED BY <1>2, <3>1
    <2> QED BY <1>9, <2>1 DEF HInv, Phases, Fewer
  <1>15. RepliesHeld(q, u)
    <2>1. \A i \in 1 .. Len(q) : q[i].op = "reply" => q[i].id \in Ids
      BY DEF HInv, Types, Posting
    <2>2. \A m \in Ids : r[m] = "kept" => u[m] = "kept"
      BY <1>2
    <2> QED BY <2>1, <2>2 DEF HInv, RepliesHeld
  <1> QED BY <1>8, <1>9, <1>10, <1>11, <1>12, <1>14, <1>15 DEF HInv

LEMMA KeeperGoes ==
  ASSUME NEW c, NEW q, NEW l, NEW s, NEW ph, NEW r, NEW a, HInv(c, q, l, s, ph, r, a), NEW n \in Ids, r[n] = "kept", ph = "handler" => n # s.count
  PROVE  HInv(c, Append(q, [op |-> "detach"]), l, s, ph, [r EXCEPT ![n] = "gone"], a)
  <1> DEFINE m == [op |-> "detach"]
             v == Append(q, m)
             u == [r EXCEPT ![n] = "gone"]
  <1> SUFFICES HInv(c, v, l, s, ph, u, a)
    OBVIOUS
  <1>1. q \in Seq(Posting) /\ r \in [Ids -> {"none", "handler", "kept", "gone"}]
    BY DEF HInv, Types
  <1>2. m \in Posting /\ m.op = "detach"
    BY DEF Posting
  <1>3. /\ u \in [Ids -> {"none", "handler", "kept", "gone"}] /\ u[n] = "gone"
        /\ \A j \in Ids : j # n => u[j] = r[j]
    BY <1>1
  <1> HIDE DEF m, u
  <1>4. /\ v \in Seq(Posting) /\ PostedIn(v, "bytes") = PostedIn(q, "bytes")
        /\ PostedIn(v, "closed") = PostedIn(q, "closed")
        /\ PostedIn(v, "detach") = PostedIn(q, "detach") + 1
        /\ PostedIn(q, "bytes") \in Nat /\ PostedIn(q, "closed") \in Nat
        /\ PostedIn(q, "detach") \in Nat
    BY <1>1, <1>2, Appended
  <1>5. RepliesHeld(v, u)
    BY <1>1, <1>2, RepliesAppended DEF HInv
  <1> HIDE DEF v
  <1>6. Holding(u) = Holding(r) \ {n} /\ n \in Holding(r)
    BY <1>3 DEF Holding
  <1>7. Cardinality(Holding(u)) = Cardinality(Holding(r)) - 1 /\ Cardinality(Holding(r)) \in Nat
    <2>1. IsFiniteSet(Holding(r)) /\ Cardinality(Holding(r)) \in Nat
      BY HoldingFinite
    <2>2. Cardinality(Holding(r) \ {n}) = Cardinality(Holding(r)) - 1
      BY ONLY <1>6, <2>1, FS_RemoveElement
    <2> QED BY <1>6, <2>1, <2>2
  <1>8. Types(c, v, l, s, ph, u, a)
    BY <1>3, <1>4 DEF HInv, Types
  <1>9. Readers(c, v, l, s, ph) = Readers(c, q, l, s, ph)
    BY <1>4 DEF Readers
  <1>10. OneReader(c, v, l, s, ph) /\ ToldOnce(c, v, s)
    BY <1>4, <1>9 DEF HInv, OneReader, ToldOnce
  <1>11. OwnRef(c, v, s) = OwnRef(c, q, s) /\ OwnRef(c, q, s) \in Nat
    BY <1>4, HeldIsNat DEF OwnRef
  <1>12. s.refs = Cardinality(Holding(r)) + PostedIn(q, "detach") + OwnRef(c, q, s)
    BY DEF HInv, Referred
  <1>13. Referred(c, v, s, u)
    BY <1>4, <1>7, <1>11, <1>12 DEF Referred
  <1>14. Phases(l, s, ph, u, a)
    <2>1. \A j \in Ids : u[j] = "none" <=> j > s.count
      <3>1. \A j \in Ids : r[j] = "none" <=> j > s.count
        BY DEF HInv, Phases
      <3> QED BY <1>3, <3>1
    <2>2. ph = "handler" => s.count \in Ids /\ u[s.count] \in {"handler", "kept"}
      <3>1. ph = "handler" => s.count \in Ids /\ r[s.count] \in {"handler", "kept"}
        BY DEF HInv, Phases
      <3> QED BY <1>3, <3>1
    <2> QED BY <2>1, <2>2 DEF HInv, Phases
  <1> QED BY <1>5, <1>8, <1>10, <1>13, <1>14 DEF HInv

LEMMA KeeperAnswers ==
  ASSUME NEW c, NEW q, NEW l, NEW s, NEW ph, NEW r, NEW a, HInv(c, q, l, s, ph, r, a), NEW n \in Ids, r[n] = "kept"
  PROVE  HInv(c, Append(q, [op |-> "reply", id |-> n]), l, s, ph, r, a)
  <1> DEFINE m == [op |-> "reply", id |-> n]
             v == Append(q, m)
  <1> SUFFICES HInv(c, v, l, s, ph, r, a)
    OBVIOUS
  <1>1. q \in Seq(Posting)
    BY DEF HInv, Types
  <1>2. m \in Posting /\ m.op = "reply" /\ m.id = n
    BY DEF Posting
  <1> HIDE DEF m
  <1>4. /\ v \in Seq(Posting) /\ PostedIn(v, "bytes") = PostedIn(q, "bytes")
        /\ PostedIn(v, "closed") = PostedIn(q, "closed")
        /\ PostedIn(v, "detach") = PostedIn(q, "detach")
        /\ PostedIn(q, "bytes") \in Nat /\ PostedIn(q, "closed") \in Nat
        /\ PostedIn(q, "detach") \in Nat
    BY <1>1, <1>2, Appended
  <1>5. RepliesHeld(v, r)
    BY <1>1, <1>2, RepliesAppended DEF HInv
  <1> HIDE DEF v
  <1>8. Types(c, v, l, s, ph, r, a)
    BY <1>4 DEF HInv, Types
  <1>9. Readers(c, v, l, s, ph) = Readers(c, q, l, s, ph)
    BY <1>4 DEF Readers
  <1>10. OneReader(c, v, l, s, ph) /\ ToldOnce(c, v, s)
    BY <1>4, <1>9 DEF HInv, OneReader, ToldOnce
  <1>11. Referred(c, v, s, r)
    BY <1>4 DEF HInv, Referred, OwnRef
  <1> QED BY <1>5, <1>8, <1>10, <1>11 DEF HInv

LEMMA ReplyTaken ==
  ASSUME NEW c, NEW q, NEW l, NEW s, NEW ph, NEW r, NEW a, HInv(c, q, l, s, ph, r, a), q # <<>>, Head(q).op = "reply"
  PROVE  HInv(c, Tail(q), l, s, ph, r, a)
  <1> DEFINE v == Tail(q)
  <1> SUFFICES HInv(c, v, l, s, ph, r, a)
    OBVIOUS
  <1>1. q \in Seq(Posting)
    BY DEF HInv, Types
  <1>2. /\ v \in Seq(Posting) /\ PostedIn(q, "bytes") = PostedIn(v, "bytes")
        /\ PostedIn(q, "closed") = PostedIn(v, "closed")
        /\ PostedIn(q, "detach") = PostedIn(v, "detach")
        /\ PostedIn(v, "bytes") \in Nat /\ PostedIn(v, "closed") \in Nat
        /\ PostedIn(v, "detach") \in Nat
    BY <1>1, Taken
  <1>3. RepliesHeld(v, r)
    BY <1>1, RepliesTaken DEF HInv
  <1> HIDE DEF v
  <1>8. Types(c, v, l, s, ph, r, a)
    BY <1>2 DEF HInv, Types
  <1>9. Readers(c, v, l, s, ph) = Readers(c, q, l, s, ph)
    BY <1>2 DEF Readers
  <1>10. OneReader(c, v, l, s, ph) /\ ToldOnce(c, v, s)
    BY <1>2, <1>9 DEF HInv, OneReader, ToldOnce
  <1>11. Referred(c, v, s, r)
    BY <1>2 DEF HInv, Referred, OwnRef
  <1> QED BY <1>3, <1>8, <1>10, <1>11 DEF HInv

LEMMA ClosePosted ==
  ASSUME NEW c, NEW q, NEW l, NEW s, NEW ph, NEW r, NEW a, HInv(c, q, l, s, ph, r, a), c.telling > 0,
         NEW e, NetOK(e), e.watch = c.watch, e.informed = c.informed, e.data = c.data,
         e.telling = c.telling - 1
  PROVE  HInv(e, Append(q, [op |-> "closed"]), l, s, ph, r, a)
  <1> DEFINE m == [op |-> "closed"]
             v == Append(q, m)
  <1> SUFFICES HInv(e, v, l, s, ph, r, a)
    OBVIOUS
  <1>1. q \in Seq(Posting)
    BY DEF HInv, Types
  <1>2. m \in Posting /\ m.op = "closed"
    BY DEF Posting
  <1> HIDE DEF m
  <1>4. /\ v \in Seq(Posting) /\ PostedIn(v, "bytes") = PostedIn(q, "bytes")
        /\ PostedIn(v, "closed") = PostedIn(q, "closed") + 1
        /\ PostedIn(v, "detach") = PostedIn(q, "detach")
        /\ PostedIn(q, "bytes") \in Nat /\ PostedIn(q, "closed") \in Nat
        /\ PostedIn(q, "detach") \in Nat
    BY <1>1, <1>2, Appended
  <1>5. RepliesHeld(v, r)
    BY <1>1, <1>2, RepliesAppended DEF HInv
  <1>6. c.telling \in Nat
    BY DEF HInv, Types, NetOK
  <1> HIDE DEF v
  <1>8. Types(e, v, l, s, ph, r, a)
    BY <1>4 DEF HInv, Types
  <1>9. Readers(e, v, l, s, ph) = Readers(c, q, l, s, ph)
    BY <1>4 DEF Readers
  <1>10. OneReader(e, v, l, s, ph)
    BY <1>4, <1>9 DEF HInv, OneReader
  <1>11. c.informed # {} /\ e.telling + PostedIn(v, "closed") = c.telling + PostedIn(q, "closed")
    BY <1>4, <1>6 DEF HInv, ToldOnce
  <1>12. ToldOnce(e, v, s)
    BY <1>11 DEF HInv, ToldOnce
  <1>13. Referred(e, v, s, r)
    BY <1>4, <1>11 DEF HInv, Referred, OwnRef
  <1> QED BY <1>5, <1>8, <1>10, <1>12, <1>13 DEF HInv

----------------------------------------
(* Handlers. *)
LEMMA HandMoves ==
  ASSUME NEW c, NEW q, NEW l, NEW s, NEW ph, NEW r, NEW a, HInv(c, q, l, s, ph, r, a), ph = "parse",
         NEW n \in Ids, n = s.count + 1,
         NEW t, ParserOK(t), t.count = n, t.refs = s.refs + 1, t.alive = s.alive,
         t.detached = s.detached, t.hook = s.hook, t.pass => t.header = <<>>
  PROVE  HInv(c, q, l, t, "handler", [r EXCEPT ![n] = "handler"], a)
  <1> DEFINE h == "handler"
             u == [r EXCEPT ![n] = "handler"]
  <1> SUFFICES HInv(c, q, l, t, h, u, a)
    OBVIOUS
  <1>0. h = "handler" /\ h # "parse" /\ h \in {"idle", "parse", "handler"}
    OBVIOUS
  <1> HIDE DEF h
  <1>1. /\ TokenFree(c, q, l, s, "idle") /\ c.data = <<>> /\ ~s.pass /\ "parse" \notin l /\ ~c.watch
        /\ PostedIn(q, "bytes") = 0 /\ "delete" \notin l /\ s.alive
    BY TokenParsed
  <1>2. r \in [Ids -> {"none", "handler", "kept", "gone"}]
    BY DEF HInv, Types
  <1>3. /\ u \in [Ids -> {"none", "handler", "kept", "gone"}] /\ u[n] = "handler"
        /\ \A m \in Ids : m # n => u[m] = r[m]
    BY <1>2
  <1>4. \A m \in Ids : r[m] = "none" <=> m > s.count
    BY DEF HInv, Phases
  <1>5. s.count \in 0 .. MaxRequests /\ MaxRequests \in Nat /\ s.refs \in Int
    BY HttpAssumption DEF HInv, Types, ParserOK
  <1>6. r[n] = "none"
    BY <1>4, <1>5
  <1> HIDE DEF u
  <1>7. Holding(u) = Holding(r) \cup {n} /\ n \notin Holding(r)
    BY <1>3, <1>6 DEF Holding
  <1>8. Cardinality(Holding(u)) = Cardinality(Holding(r)) + 1 /\ Cardinality(Holding(r)) \in Nat
    <2>1. IsFiniteSet(Holding(r)) /\ Cardinality(Holding(r)) \in Nat
      BY HoldingFinite
    <2>2. Cardinality(Holding(r) \cup {n}) = Cardinality(Holding(r)) + 1
      BY ONLY <1>7, <2>1, FS_AddElement
    <2> QED BY <1>7, <2>1, <2>2
  <1>9. ~t.detached /\ ~t.hook /\ t.alive /\ c.informed = {} /\ t.pass \in BOOLEAN
    <2>1. ~s.detached /\ c.informed = {}
      BY <1>1 DEF TokenFree
    <2>2. ~s.hook
      BY <1>1 DEF HInv, Phases
    <2> QED BY <1>1, <2>1, <2>2 DEF ParserOK
  <1>10. Types(c, q, l, t, h, u, a)
    BY <1>0, <1>3 DEF HInv, Types
  <1>11. Readers(c, q, l, t, h) = 1
    <2>1. CASE t.pass
      BY <1>0, <1>1, <1>9, <2>1 DEF Readers, One
    <2>2. CASE ~t.pass
      BY <1>0, <1>1, <1>9, <2>2 DEF Readers, One
    <2> QED BY <2>1, <2>2
  <1>12. OneReader(c, q, l, t, h)
    BY <1>1, <1>9, <1>11 DEF OneReader
  <1>13. ToldOnce(c, q, t)
    BY <1>9 DEF HInv, ToldOnce
  <1>14. OwnRef(c, q, t) = OwnRef(c, q, s)
    BY <1>9 DEF OwnRef
  <1>15. Referred(c, q, t, u)
    <2>1. s.refs = Cardinality(Holding(r)) + PostedIn(q, "detach") + OwnRef(c, q, s)
      BY DEF HInv, Referred
    <2> QED BY <1>8, <1>14, <2>1, HeldIsNat DEF Referred
  <1>16. Phases(l, t, h, u, a)
    <2>1. \A m \in Ids : u[m] = "none" <=> m > n
      BY <1>3, <1>4, <1>5 DEF Ids
    <2> QED BY <1>0, <1>1, <1>3, <1>9, <2>1 DEF Phases
  <1>17. RepliesHeld(q, u)
    <2>1. \A i \in 1 .. Len(q) : q[i].op = "reply" => q[i].id \in Ids
      BY DEF HInv, Types, Posting
    <2>2. \A m \in Ids : r[m] = "kept" => u[m] = "kept"
      BY <1>3, <1>6
    <2> QED BY <2>1, <2>2 DEF HInv, RepliesHeld
  <1>18. Unreferenced(l, t)
    BY <1>1, <1>9 DEF Unreferenced
  <1> QED BY <1>10, <1>12, <1>13, <1>15, <1>16, <1>17, <1>18 DEF HInv

LEMMA HookMoves ==
  ASSUME NEW c, NEW q, NEW l, NEW s, NEW ph, NEW r, NEW a, HInv(c, q, l, s, ph, r, a), ph = "handler", s.pass, ~s.hook,
         NEW t, ParserOK(t), t.count = s.count, t.refs = s.refs, t.alive = s.alive,
         t.detached = s.detached, t.pass = s.pass, t.hook, t.header = s.header
  PROVE  HInv(c, q, l, t, ph, r, a) /\ TokenFree(c, q, l, t, ph) /\ c.data = <<>>
  <1>1. PostedIn(q, "bytes") \in Nat
    BY HeldIsNat
  <1>2. Readers(c, q, l, s, ph) = Readers(c, q, l, t, ph) + 1 /\ Readers(c, q, l, t, ph) \in Nat
    BY <1>1 DEF Readers, One
  <1>3. Readers(c, q, l, t, ph) = 0 /\ Readers(c, q, l, s, ph) = 1 /\ c.informed = {} /\ ~s.detached
    BY <1>2 DEF HInv, OneReader
  <1>4. PostedIn(q, "bytes") = 0
    BY <1>1, <1>3 DEF Readers, One
  <1>5. c.data = <<>>
    BY <1>3, <1>4 DEF HInv, OneReader
  <1>6. TokenFree(c, q, l, t, ph) /\ OneReader(c, q, l, t, ph)
    BY <1>3 DEF TokenFree, OneReader
  <1>7. Types(c, q, l, t, ph, r, a)
    BY DEF HInv, Types
  <1>8. ToldOnce(c, q, t) /\ Referred(c, q, t, r) /\ Unreferenced(l, t)
    BY DEF HInv, ToldOnce, Referred, OwnRef, Unreferenced
  <1>9. Phases(l, t, ph, r, a)
    BY DEF HInv, Phases
  <1> QED BY <1>5, <1>6, <1>7, <1>8, <1>9 DEF HInv

LEMMA DetachMoves ==
  ASSUME NEW c, NEW q, NEW l, NEW s, NEW ph, NEW r, NEW a, HInv(c, q, l, s, ph, r, a), ph = "handler", ~s.pass,  ~s.detached, a[s.count],
         NEW t, Fewer(s, t), t.detached
  PROVE  HInv(c, q, Ended(l, s), t, ph, r, a)
  <1> DEFINE k == Ended(l, s)
  <1> SUFFICES HInv(c, q, k, t, ph, r, a)
    OBVIOUS
  <1>1. /\ PostedIn(q, "bytes") \in Nat /\ PostedIn(q, "closed") \in Nat /\ PostedIn(q, "detach") \in Nat
        /\ Cardinality(Holding(r)) \in Nat /\ OwnRef(c, q, s) \in Nat /\ c.telling \in Nat
        /\ s.refs \in Int
    BY HeldIsNat
  <1>2. Readers(c, q, l, s, ph) = Readers(c, q, l, t, ph) + 1 /\ Readers(c, q, l, t, ph) \in Nat
    BY <1>1 DEF Readers, One, Fewer
  <1>3. Readers(c, q, l, t, ph) = 0 /\ Readers(c, q, l, s, ph) = 1 /\ c.informed = {}
    BY <1>2 DEF HInv, OneReader
  <1>4. OwnRef(c, q, s) = 1 /\ OwnRef(c, q, t) = 0
    BY <1>3 DEF OwnRef
  <1>5. s.refs # 0 /\ Referred(c, q, t, r)
    BY <1>1, <1>4 DEF HInv, Referred, Fewer
  <1>6. k \in SUBSET {"parse", "delete"} /\ ("parse" \in k <=> "parse" \in l) /\ Unreferenced(k, t)
    BY <1>5, EndedMoves DEF Fewer
  <1> HIDE DEF k
  <1>7. Types(c, q, k, t, ph, r, a)
    BY <1>6 DEF HInv, Types, Fewer
  <1>8. Readers(c, q, k, t, ph) = 0
    BY <1>3, <1>6 DEF Readers
  <1>9. OneReader(c, q, k, t, ph) /\ ToldOnce(c, q, t)
    BY <1>3, <1>8 DEF HInv, OneReader, ToldOnce
  <1>10. Phases(k, t, ph, r, a)
    BY <1>6 DEF HInv, Phases, Fewer
  <1> QED BY <1>5, <1>6, <1>7, <1>9, <1>10 DEF HInv

LEMMA ReturnMoves ==
  ASSUME NEW c, NEW q, NEW l, NEW s, NEW ph, NEW r, NEW a, HInv(c, q, l, s, ph, r, a), ph = "handler"
  PROVE  /\ HInv(c, q, l, s, "idle", r, a)
         /\ ~s.pass /\ ~s.detached => TokenFree(c, q, l, s, "idle") /\ c.data = <<>>
  <1> DEFINE i == "idle"
  <1> SUFFICES /\ HInv(c, q, l, s, i, r, a)
               /\ ~s.pass /\ ~s.detached => TokenFree(c, q, l, s, i) /\ c.data = <<>>
    OBVIOUS
  <1>0. i # "parse" /\ i # "handler" /\ i \in {"idle", "parse", "handler"}
    OBVIOUS
  <1> HIDE DEF i
  <1>1. PostedIn(q, "bytes") \in Nat
    BY HeldIsNat
  <1>2. ASSUME ~s.pass, ~s.detached
        PROVE  OneReader(c, q, l, s, i) /\ TokenFree(c, q, l, s, i) /\ c.data = <<>>
    <2>1. Readers(c, q, l, s, ph) = Readers(c, q, l, s, i) + 1 /\ Readers(c, q, l, s, i) \in Nat
      BY <1>0, <1>1, <1>2 DEF Readers, One
    <2>2. Readers(c, q, l, s, i) = 0 /\ Readers(c, q, l, s, ph) = 1 /\ c.informed = {} /\ ~s.detached
      BY <2>1 DEF HInv, OneReader
    <2>3. OneReader(c, q, l, s, i) /\ TokenFree(c, q, l, s, i)
      BY <2>2 DEF OneReader, TokenFree
    <2>4. PostedIn(q, "bytes") = 0
      BY <1>1, <1>2, <2>2 DEF Readers, One
    <2>5. c.data = <<>>
      BY <2>2, <2>4 DEF HInv, OneReader
    <2> QED BY <2>3, <2>5
  <1>3. ASSUME s.pass \/ s.detached
        PROVE  OneReader(c, q, l, s, i)
    <2>1. Readers(c, q, l, s, ph) = Readers(c, q, l, s, i)
      BY <1>0, <1>3 DEF Readers, One
    <2>2. OneReader(c, q, l, s, i)
      BY <2>1 DEF HInv, OneReader
    <2> QED BY <2>2
  <1>4. OneReader(c, q, l, s, i) /\ (~s.pass /\ ~s.detached => TokenFree(c, q, l, s, i) /\ c.data = <<>>)
    BY <1>2, <1>3
  <1>5. Types(c, q, l, s, i, r, a) /\ Phases(l, s, i, r, a)
    BY <1>0 DEF HInv, Types, Phases
  <1> QED BY <1>4, <1>5 DEF HInv

(* An upload that is passed through ends. *)
LEMMA UploadEnds ==
  ASSUME NEW c, NEW q, NEW l, NEW s, NEW ph, NEW r, NEW a, HInv(c, q, l, s, ph, r, a), ph = "idle", s.pass, s.hook,
         NEW t, ParserOK(t), t.count = s.count, t.refs = s.refs, t.alive = s.alive,
         t.detached = s.detached, ~t.pass, ~t.hook
  PROVE  HInv(c, q, l, t, ph, r, a) /\ Readers(c, q, l, t, ph) = Readers(c, q, l, s, ph)
  <1>1. Readers(c, q, l, t, ph) = Readers(c, q, l, s, ph)
    BY DEF Readers, One
  <1>2. OneReader(c, q, l, t, ph)
    BY <1>1 DEF HInv, OneReader
  <1>7. Types(c, q, l, t, ph, r, a)
    BY DEF HInv, Types
  <1>8. ToldOnce(c, q, t) /\ Referred(c, q, t, r) /\ Unreferenced(l, t)
    BY DEF HInv, ToldOnce, Referred, OwnRef, Unreferenced
  <1>9. Phases(l, t, ph, r, a)
    BY DEF HInv, Phases
  <1> QED BY <1>1, <1>2, <1>7, <1>8, <1>9 DEF HInv

LEMMA DeleteMoves ==
  ASSUME NEW c, NEW q, NEW l, NEW s, NEW ph, NEW r, NEW a, HInv(c, q, l, s, ph, r, a), "delete" \in l,
         NEW t, ParserOK(t), t.count = s.count, t.refs = s.refs, ~t.alive,
         t.detached = s.detached, t.pass = s.pass, t.hook = s.hook, t.header = s.header
  PROVE  HInv(c, q, l \ {"delete"}, t, ph, r, a)
  <1> DEFINE k == l \ {"delete"}
  <1> SUFFICES HInv(c, q, k, t, ph, r, a)
    OBVIOUS
  <1>1. k \in SUBSET {"parse", "delete"} /\ ("parse" \in k <=> "parse" \in l)
    BY DEF HInv, Types
  <1> HIDE DEF k
  <1>2. Readers(c, q, k, t, ph) = Readers(c, q, l, s, ph)
    BY <1>1 DEF Readers
  <1>3. OneReader(c, q, k, t, ph)
    BY <1>2 DEF HInv, OneReader
  <1>7. Types(c, q, k, t, ph, r, a)
    BY <1>1 DEF HInv, Types
  <1>8. ToldOnce(c, q, t) /\ Referred(c, q, t, r) /\ Unreferenced(k, t)
    BY DEF HInv, ToldOnce, Referred, OwnRef, Unreferenced
  <1>9. Phases(k, t, ph, r, a)
    BY <1>1 DEF HInv, Phases
  <1> QED BY <1>3, <1>7, <1>8, <1>9 DEF HInv

----------------------------------------
(* Records of the parser and of the connection. *)
LEMMA ParserText ==
  ASSUME NEW s, ParserOK(s), NEW h, NEW b, NEW n
  PROVE  /\ Same(s, [s EXCEPT !.header = h])
         /\ Same(s, [s EXCEPT !.body = b])
         /\ Same(s, [s EXCEPT !.length = n])
         /\ Same(s, [s EXCEPT !.header = h, !.body = b])
         /\ Same(s, [s EXCEPT !.header = h, !.body = b, !.length = n])
         /\ Same(s, [s EXCEPT !.nextReply = h])
         /\ Same(s, [s EXCEPT !.replies = h])
         /\ Same(s, [s EXCEPT !.nextReply = h, !.replies = b])
         /\ [s EXCEPT !.length = n].header = s.header
         /\ [s EXCEPT !.body = b].header = s.header
  <1>0. Same(s, s)
    BY DEF Same
  <1>1. ASSUME NEW t, ParserOK(t), Same(s, t), NEW v
        PROVE  Same(s, [t EXCEPT !.header = v])
    <2> DEFINE x == [t EXCEPT !.header = v]
    <2>1. t = [header |-> t.header, body |-> t.body, length |-> t.length, count |-> t.count,
               nextReply |-> t.nextReply, replies |-> t.replies, refs |-> t.refs, detached |-> t.detached,
               pass |-> t.pass, hook |-> t.hook, alive |-> t.alive]
      BY <1>1 DEF ParserOK
    <2>2. x = [header |-> v, body |-> t.body, length |-> t.length, count |-> t.count,
               nextReply |-> t.nextReply, replies |-> t.replies, refs |-> t.refs, detached |-> t.detached,
               pass |-> t.pass, hook |-> t.hook, alive |-> t.alive]
      BY <2>1
    <2>3. /\ x = [header |-> x.header, body |-> x.body, length |-> x.length, count |-> x.count,
                  nextReply |-> x.nextReply, replies |-> x.replies, refs |-> x.refs, detached |-> x.detached,
                  pass |-> x.pass, hook |-> x.hook, alive |-> x.alive]
          /\ x.count = t.count /\ x.refs = t.refs /\ x.detached = t.detached
          /\ x.alive = t.alive /\ x.pass = t.pass /\ x.hook = t.hook
      BY <2>2
    <2> HIDE DEF x
    <2>4. ParserOK(x)
      BY <2>3, <1>1 DEF ParserOK
    <2>5. Same(s, x)
      BY <2>3, <2>4, <1>1 DEF Same
    <2> QED BY <2>5 DEF x
  <1>2. ASSUME NEW t, ParserOK(t), Same(s, t), NEW v
        PROVE  Same(s, [t EXCEPT !.body = v])
    <2> DEFINE x == [t EXCEPT !.body = v]
    <2>1. t = [header |-> t.header, body |-> t.body, length |-> t.length, count |-> t.count,
               nextReply |-> t.nextReply, replies |-> t.replies, refs |-> t.refs, detached |-> t.detached,
               pass |-> t.pass, hook |-> t.hook, alive |-> t.alive]
      BY <1>2 DEF ParserOK
    <2>2. x = [header |-> t.header, body |-> v, length |-> t.length, count |-> t.count,
               nextReply |-> t.nextReply, replies |-> t.replies, refs |-> t.refs, detached |-> t.detached,
               pass |-> t.pass, hook |-> t.hook, alive |-> t.alive]
      BY <2>1
    <2>3. /\ x = [header |-> x.header, body |-> x.body, length |-> x.length, count |-> x.count,
                  nextReply |-> x.nextReply, replies |-> x.replies, refs |-> x.refs, detached |-> x.detached,
                  pass |-> x.pass, hook |-> x.hook, alive |-> x.alive]
          /\ x.count = t.count /\ x.refs = t.refs /\ x.detached = t.detached
          /\ x.alive = t.alive /\ x.pass = t.pass /\ x.hook = t.hook
      BY <2>2
    <2> HIDE DEF x
    <2>4. ParserOK(x)
      BY <2>3, <1>2 DEF ParserOK
    <2>5. Same(s, x)
      BY <2>3, <2>4, <1>2 DEF Same
    <2> QED BY <2>5 DEF x
  <1>3. ASSUME NEW t, ParserOK(t), Same(s, t), NEW v
        PROVE  Same(s, [t EXCEPT !.length = v])
    <2> DEFINE x == [t EXCEPT !.length = v]
    <2>1. t = [header |-> t.header, body |-> t.body, length |-> t.length, count |-> t.count,
               nextReply |-> t.nextReply, replies |-> t.replies, refs |-> t.refs, detached |-> t.detached,
               pass |-> t.pass, hook |-> t.hook, alive |-> t.alive]
      BY <1>3 DEF ParserOK
    <2>2. x = [header |-> t.header, body |-> t.body, length |-> v, count |-> t.count,
               nextReply |-> t.nextReply, replies |-> t.replies, refs |-> t.refs, detached |-> t.detached,
               pass |-> t.pass, hook |-> t.hook, alive |-> t.alive]
      BY <2>1
    <2>3. /\ x = [header |-> x.header, body |-> x.body, length |-> x.length, count |-> x.count,
                  nextReply |-> x.nextReply, replies |-> x.replies, refs |-> x.refs, detached |-> x.detached,
                  pass |-> x.pass, hook |-> x.hook, alive |-> x.alive]
          /\ x.count = t.count /\ x.refs = t.refs /\ x.detached = t.detached
          /\ x.alive = t.alive /\ x.pass = t.pass /\ x.hook = t.hook
      BY <2>2
    <2> HIDE DEF x
    <2>4. ParserOK(x)
      BY <2>3, <1>3 DEF ParserOK
    <2>5. Same(s, x)
      BY <2>3, <2>4, <1>3 DEF Same
    <2> QED BY <2>5 DEF x
  <1>4. ASSUME NEW t, ParserOK(t), Same(s, t), NEW v
        PROVE  Same(s, [t EXCEPT !.nextReply = v])
    <2> DEFINE x == [t EXCEPT !.nextReply = v]
    <2>1. t = [header |-> t.header, body |-> t.body, length |-> t.length, count |-> t.count,
               nextReply |-> t.nextReply, replies |-> t.replies, refs |-> t.refs, detached |-> t.detached,
               pass |-> t.pass, hook |-> t.hook, alive |-> t.alive]
      BY <1>4 DEF ParserOK
    <2>2. x = [header |-> t.header, body |-> t.body, length |-> t.length, count |-> t.count,
               nextReply |-> v, replies |-> t.replies, refs |-> t.refs, detached |-> t.detached,
               pass |-> t.pass, hook |-> t.hook, alive |-> t.alive]
      BY <2>1
    <2>3. /\ x = [header |-> x.header, body |-> x.body, length |-> x.length, count |-> x.count,
                  nextReply |-> x.nextReply, replies |-> x.replies, refs |-> x.refs, detached |-> x.detached,
                  pass |-> x.pass, hook |-> x.hook, alive |-> x.alive]
          /\ x.count = t.count /\ x.refs = t.refs /\ x.detached = t.detached
          /\ x.alive = t.alive /\ x.pass = t.pass /\ x.hook = t.hook
      BY <2>2
    <2> HIDE DEF x
    <2>4. ParserOK(x)
      BY <2>3, <1>4 DEF ParserOK
    <2>5. Same(s, x)
      BY <2>3, <2>4, <1>4 DEF Same
    <2> QED BY <2>5 DEF x
  <1>5. ASSUME NEW t, ParserOK(t), Same(s, t), NEW v
        PROVE  Same(s, [t EXCEPT !.replies = v])
    <2> DEFINE x == [t EXCEPT !.replies = v]
    <2>1. t = [header |-> t.header, body |-> t.body, length |-> t.length, count |-> t.count,
               nextReply |-> t.nextReply, replies |-> t.replies, refs |-> t.refs, detached |-> t.detached,
               pass |-> t.pass, hook |-> t.hook, alive |-> t.alive]
      BY <1>5 DEF ParserOK
    <2>2. x = [header |-> t.header, body |-> t.body, length |-> t.length, count |-> t.count,
               nextReply |-> t.nextReply, replies |-> v, refs |-> t.refs, detached |-> t.detached,
               pass |-> t.pass, hook |-> t.hook, alive |-> t.alive]
      BY <2>1
    <2>3. /\ x = [header |-> x.header, body |-> x.body, length |-> x.length, count |-> x.count,
                  nextReply |-> x.nextReply, replies |-> x.replies, refs |-> x.refs, detached |-> x.detached,
                  pass |-> x.pass, hook |-> x.hook, alive |-> x.alive]
          /\ x.count = t.count /\ x.refs = t.refs /\ x.detached = t.detached
          /\ x.alive = t.alive /\ x.pass = t.pass /\ x.hook = t.hook
      BY <2>2
    <2> HIDE DEF x
    <2>4. ParserOK(x)
      BY <2>3, <1>5 DEF ParserOK
    <2>5. Same(s, x)
      BY <2>3, <2>4, <1>5 DEF Same
    <2> QED BY <2>5 DEF x
  <1>6. \A t : Same(s, t) => ParserOK(t)
    BY DEF Same
  <1>7. /\ Same(s, [s EXCEPT !.header = h]) /\ Same(s, [s EXCEPT !.body = b])
        /\ Same(s, [s EXCEPT !.length = n]) /\ Same(s, [s EXCEPT !.nextReply = h])
        /\ Same(s, [s EXCEPT !.replies = h])
    BY <1>0, <1>1, <1>2, <1>3, <1>4, <1>5
  <1>8. Same(s, [s EXCEPT !.header = h, !.body = b])
    <2> DEFINE y == [s EXCEPT !.header = h]
    <2>1. Same(s, y) /\ ParserOK(y)
      BY <1>6, <1>7
    <2> HIDE DEF y
    <2>2. Same(s, [y EXCEPT !.body = b])
      BY <1>2, <2>1
    <2> QED BY <2>2 DEF y
  <1>9. Same(s, [s EXCEPT !.header = h, !.body = b, !.length = n])
    <2> DEFINE y == [s EXCEPT !.header = h, !.body = b]
    <2>1. Same(s, y) /\ ParserOK(y)
      BY <1>6, <1>8
    <2> HIDE DEF y
    <2>2. Same(s, [y EXCEPT !.length = n])
      BY <1>3, <2>1
    <2> QED BY <2>2 DEF y
  <1>10. Same(s, [s EXCEPT !.nextReply = h, !.replies = b])
    <2> DEFINE y == [s EXCEPT !.nextReply = h]
    <2>1. Same(s, y) /\ ParserOK(y)
      BY <1>6, <1>7
    <2> HIDE DEF y
    <2>2. Same(s, [y EXCEPT !.replies = b])
      BY <1>5, <2>1
    <2> QED BY <2>2 DEF y
  <1>11. [s EXCEPT !.length = n].header = s.header /\ [s EXCEPT !.body = b].header = s.header
    BY DEF ParserOK
  <1> QED BY <1>7, <1>8, <1>9, <1>10, <1>11

----------------------------------------
HttpInv == HInv(net, queue, later, p, phase, req, answered)

LEMMA Now ==
  ASSUME HttpInv
  PROVE  /\ NetOK(net) /\ ParserOK(p) /\ queue \in Seq(Posting) /\ later \in SUBSET {"parse", "delete"}
         /\ phase \in {"idle", "parse", "handler"} /\ p.pass => p.header = <<>>
         /\ phase = "handler" => p.count \in Ids
  BY DEF HttpInv, HInv, Types, Phases

LEMMA HttpInit ==
  ASSUME Init
  PROVE  HttpInv
  <1> DEFINE e == <<>>
             yes == TRUE
             no == FALSE
  <1>1. /\ net.watch /\ net.closed = {} /\ net.informed = {} /\ net.telling = 0 /\ net.data = <<>>
        /\ NetOK(net)
    BY DEF Init, NetOK
  <1>2. /\ p.header = <<>> /\ p.count = 0 /\ p.refs = 1 /\ ~p.detached /\ ~p.pass /\ ~p.hook /\ p.alive
        /\ p = [header |-> p.header, body |-> p.body, length |-> p.length, count |-> p.count,
                nextReply |-> p.nextReply, replies |-> p.replies, refs |-> p.refs,
                detached |-> p.detached, pass |-> p.pass, hook |-> p.hook, alive |-> p.alive]
        /\ p.detached \in BOOLEAN /\ p.pass \in BOOLEAN /\ p.hook \in BOOLEAN /\ p.alive \in BOOLEAN
    BY DEF Init
  <1>3. ParserOK(p)
    BY <1>2, HttpAssumption DEF ParserOK
  <1>4. /\ queue = <<>> /\ later = {} /\ phase = "idle"
        /\ req = [n \in Ids |-> "none"] /\ answered = [n \in Ids |-> FALSE]
    BY DEF Init
  <1>5. queue \in Seq(Posting) /\ \A i \in 1 .. Len(queue) : FALSE
    BY <1>4
  <1>6. \A op : PostedIn(queue, op) = 0
    <2> TAKE op
    <2>1. {i \in 1 .. Len(queue) : queue[i].op = op} = {}
      BY <1>5
    <2> QED BY <2>1, FS_EmptySet DEF PostedIn
  <1>7. Cardinality(Holding(req)) = 0
    <2>1. Holding(req) = {}
      BY <1>4 DEF Holding
    <2> QED BY <2>1, FS_EmptySet
  <1>8. Types(net, queue, later, p, phase, req, answered)
    BY <1>1, <1>3, <1>4, <1>5 DEF Types
  <1>9. Readers(net, queue, later, p, phase) = 1
    BY <1>1, <1>2, <1>4, <1>6 DEF Readers, One
  <1>10. OneReader(net, queue, later, p, phase) /\ ToldOnce(net, queue, p)
    BY <1>1, <1>2, <1>6, <1>9 DEF OneReader, ToldOnce
  <1>11. Referred(net, queue, p, req)
    BY <1>1, <1>2, <1>6, <1>7 DEF Referred, OwnRef
  <1>12. Phases(later, p, phase, req, answered)
    BY <1>2, <1>4 DEF Phases, Ids
  <1>13. RepliesHeld(queue, req) /\ Unreferenced(later, p)
    BY <1>2, <1>4, <1>5 DEF RepliesHeld, Unreferenced
  <1> QED BY <1>8, <1>10, <1>11, <1>12, <1>13 DEF HttpInv, HInv

(* What follows from the invariant is what was claimed. *)
LEMMA HttpSafe ==
  ASSUME HttpInv
  PROVE  SharedSafely
  <1>1. ~p.alive => /\ queue = <<>> /\ net.telling = 0 /\ ~net.watch
                    /\ Holding(req) = {}
    <2>1. ~p.alive => p.refs = 0
      BY DEF HttpInv, HInv, Unreferenced
    <2> QED BY <2>1, Quiet DEF HttpInv
  <1>2. Holding(req) = {} => \A n \in Ids : req[n] \in {"none", "gone"}
    BY DEF Holding, HttpInv, HInv, Types
  <1>3. net.watch => PostedIn(queue, "bytes") = 0 /\ "parse" \notin later /\ net.data = <<>>
    <2>1. PostedIn(queue, "bytes") \in Nat
      BY HeldIsNat DEF HttpInv
    <2>2. ASSUME net.watch
          PROVE  /\ PostedIn(queue, "bytes") = 0 /\ "parse" \notin later
                 /\ Readers(net, queue, later, p, phase) = 1
      BY <2>1, <2>2 DEF HttpInv, HInv, OneReader, Readers, One
    <2> QED BY <2>2 DEF HttpInv, HInv, OneReader
  <1>4. PostedIn(queue, "bytes") = Posted("bytes")
    BY DEF PostedIn, Posted
  <1> QED BY <1>1, <1>2, <1>3, <1>4 DEF SharedSafely

----------------------------------------
(* The network. *)
LEMMA NetRecords ==
  ASSUME NEW c, NetOK(c), NEW v
  PROVE  /\ LET e == [c EXCEPT !.data = v] IN
            /\ NetOK(e) /\ e.watch = c.watch /\ e.informed = c.informed /\ e.telling = c.telling
            /\ e.data = v /\ e.closed = c.closed
         /\ c.telling > 0 => LET e == [c EXCEPT !.telling = @ - 1] IN
            /\ NetOK(e) /\ e.watch = c.watch /\ e.informed = c.informed /\ e.telling = c.telling - 1
            /\ e.data = c.data
         /\ LET e == [c EXCEPT !.watch = FALSE, !.data = v] IN
            /\ NetOK(e) /\ ~e.watch /\ e.informed = c.informed /\ e.telling = c.telling
  <1> DEFINE no == FALSE
             x == [c EXCEPT !.data = v]
             y == [c EXCEPT !.telling = @ - 1]
             w == [c EXCEPT !.watch = no]
             z == [c EXCEPT !.watch = FALSE, !.data = v]
  <1>1. c = [watch |-> c.watch, closed |-> c.closed, informed |-> c.informed,
             telling |-> c.telling, data |-> c.data]
    BY DEF NetOK
  <1>2. x = [watch |-> c.watch, closed |-> c.closed, informed |-> c.informed,
             telling |-> c.telling, data |-> v]
    BY <1>1
  <1>3. NetOK(x) /\ x.watch = c.watch /\ x.informed = c.informed /\ x.telling = c.telling /\ x.data = v
          /\ x.closed = c.closed
    BY <1>2 DEF NetOK
  <1>4. y = [watch |-> c.watch, closed |-> c.closed, informed |-> c.informed,
             telling |-> c.telling - 1, data |-> c.data]
    BY <1>1
  <1>5. c.telling > 0 => /\ NetOK(y) /\ y.watch = c.watch /\ y.informed = c.informed
                         /\ y.telling = c.telling - 1 /\ y.data = c.data
    BY <1>4 DEF NetOK
  <1>6. z = [w EXCEPT !.data = v] /\ ~no /\ no \in BOOLEAN
    OBVIOUS
  <1> HIDE DEF no, z
  <1>7. w = [watch |-> no, closed |-> c.closed, informed |-> c.informed,
             telling |-> c.telling, data |-> c.data]
    BY <1>1
  <1> HIDE DEF w
  <1>9. [w EXCEPT !.data = v] = [watch |-> no, closed |-> c.closed, informed |-> c.informed,
             telling |-> c.telling, data |-> v]
    BY ONLY <1>7
  <1>10. z = [watch |-> no, closed |-> c.closed, informed |-> c.informed,
              telling |-> c.telling, data |-> v]
    BY ONLY <1>6, <1>9
  <1>11. /\ z.watch = no /\ z.closed = c.closed /\ z.informed = c.informed /\ z.telling = c.telling
         /\ z = [watch |-> z.watch, closed |-> z.closed, informed |-> z.informed,
                 telling |-> z.telling, data |-> z.data]
    BY ONLY <1>10
  <1>12. z.watch \in BOOLEAN /\ ~z.watch
    BY ONLY <1>6, <1>11
  <1>8. NetOK(z) /\ ~z.watch /\ z.informed = c.informed /\ z.telling = c.telling
    BY <1>11, <1>12 DEF NetOK
  <1> QED BY <1>3, <1>5, <1>8 DEF z

LEMMA ReceiveStep ==
  ASSUME HttpInv, Receive
  PROVE  HttpInv'
  <1>1. PICK n \in 1 .. Len(wire) :
          net' = [net EXCEPT !.watch = FALSE, !.data = @ \o SubSeq(wire, 1, n)]
    BY DEF Receive
  <1>2. net.watch /\ NetOK(net)
    BY Now DEF Receive
  <1>3. NetOK(net') /\ ~(net'.watch) /\ net'.informed = net.informed /\ net'.telling = net.telling
    BY <1>1, <1>2, NetRecords
  <1>4. HInv(net', queue, later, p, phase, req, answered) /\ TokenFree(net', queue, later, p, phase)
    BY <1>2, <1>3, TokenStopped DEF HttpInv
  <1>5. HInv(net', Append(queue, [op |-> "bytes"]), later, p, phase, req, answered)
    BY <1>4, TokenPosted
  <1> QED BY <1>5 DEF HttpInv, Receive

LEMMA LoseStep ==
  ASSUME HttpInv, Lose
  PROVE  HttpInv'
  <1>1. net' = Close(net, {R}) \/ net' = Close(net, HardClosed)
    BY DEF Lose
  <1>2. HInv(net', queue, later, p, phase, req, answered)
    BY <1>1, CloseMoves DEF HttpInv, HardClosed
  <1> QED BY <1>2 DEF HttpInv, Lose

LEMMA TellClosedStep ==
  ASSUME HttpInv, TellClosed
  PROVE  HttpInv'
  <1>1. net.telling > 0 /\ net' = [net EXCEPT !.telling = @ - 1] /\ NetOK(net)
    BY Now DEF TellClosed
  <1>2. /\ NetOK(net') /\ net'.watch = net.watch /\ net'.informed = net.informed
        /\ net'.telling = net.telling - 1 /\ net'.data = net.data
    BY <1>1, NetRecords
  <1>3. HInv(net', Append(queue, [op |-> "closed"]), later, p, phase, req, answered)
    BY <1>1, <1>2, ClosePosted DEF HttpInv
  <1> QED BY <1>3 DEF HttpInv, TellClosed

LEMMA AbortStep ==
  ASSUME HttpInv, NEW n \in Ids, Abort(n)
  PROVE  HttpInv'
  <1>1. net' = Close(net, HardClosed)
    BY DEF Abort
  <1>2. HInv(net', queue, later, p, phase, req, answered)
    BY <1>1, CloseMoves DEF HttpInv, HardClosed
  <1> QED BY <1>2 DEF HttpInv, Abort

----------------------------------------
(* The event loop of the HTTP thread. *)
LEMMA UnrefRecord ==
  ASSUME NEW s, ParserOK(s)
  PROVE  Fewer(s, Unref(s)) /\ Unref(s).detached = s.detached
  <1> DEFINE v == s.refs - 1
             x == [s EXCEPT !.refs = v]
  <1>1. v \in Int
    BY DEF ParserOK
  <1>2. x = Unref(s)
    BY DEF Unref
  <1> HIDE DEF v
  <1>3. /\ x = [header |-> x.header, body |-> x.body, length |-> x.length, count |-> x.count,
               nextReply |-> x.nextReply, replies |-> x.replies, refs |-> x.refs, detached |-> x.detached,
               pass |-> x.pass, hook |-> x.hook, alive |-> x.alive]
        /\ x.header = s.header /\ x.count = s.count /\ x.refs = v /\ x.detached = s.detached
        /\ x.pass = s.pass /\ x.hook = s.hook /\ x.alive = s.alive
    BY DEF ParserOK
  <1> HIDE DEF x
  <1>4. ParserOK(x)
    BY <1>1, <1>3 DEF ParserOK
  <1>5. x.refs = s.refs - 1
    BY <1>3 DEF v
  <1>6. Fewer(s, x)
    BY <1>3, <1>4, <1>5 DEF Fewer
  <1> QED BY <1>2, <1>3, <1>6

LEMMA UploadRecord ==
  ASSUME NEW s, ParserOK(s), NEW rest
  PROVE  LET t == [s EXCEPT !.pass = FALSE, !.hook = FALSE, !.length = -1, !.header = rest]
         IN  /\ ParserOK(t) /\ t.count = s.count /\ t.refs = s.refs /\ t.alive = s.alive
             /\ t.detached = s.detached /\ ~t.pass /\ ~t.hook
  <1> DEFINE no == FALSE
             n == -1
             x == [s EXCEPT !.pass = no]
             y == [x EXCEPT !.hook = no]
             z == [y EXCEPT !.length = n]
             t == [z EXCEPT !.header = rest]
  <1>1. t = [s EXCEPT !.pass = FALSE, !.hook = FALSE, !.length = -1, !.header = rest]
    OBVIOUS
  <1>2. ~no /\ no \in BOOLEAN
    OBVIOUS
  <1> HIDE DEF no, n
  <1>3. /\ x = [header |-> x.header, body |-> x.body, length |-> x.length, count |-> x.count,
               nextReply |-> x.nextReply, replies |-> x.replies, refs |-> x.refs, detached |-> x.detached,
               pass |-> x.pass, hook |-> x.hook, alive |-> x.alive]
        /\ x.header = s.header /\ x.count = s.count /\ x.refs = s.refs /\ x.detached = s.detached
        /\ x.pass = no /\ x.hook = s.hook /\ x.alive = s.alive
    BY DEF ParserOK
  <1>a. ParserOK(x)
    <2> HIDE DEF x
    <2> QED BY <1>2, <1>3 DEF ParserOK
  <1> HIDE DEF x
  <1>4. /\ y = [header |-> y.header, body |-> y.body, length |-> y.length, count |-> y.count,
               nextReply |-> y.nextReply, replies |-> y.replies, refs |-> y.refs, detached |-> y.detached,
               pass |-> y.pass, hook |-> y.hook, alive |-> y.alive]
        /\ y.header = x.header /\ y.count = x.count /\ y.refs = x.refs /\ y.detached = x.detached
        /\ y.pass = x.pass /\ y.hook = no /\ y.alive = x.alive
    BY <1>a DEF ParserOK
  <1>b. ParserOK(y)
    <2> HIDE DEF y
    <2> QED BY <1>2, <1>4, <1>a DEF ParserOK
  <1> HIDE DEF y
  <1>5. Same(y, z)
    BY <1>b, ParserText
  <1>c. ParserOK(z)
    BY <1>5 DEF Same
  <1> HIDE DEF z
  <1>6. Same(z, t)
    BY <1>c, ParserText
  <1> HIDE DEF t
  <1>7. /\ ParserOK(t) /\ t.count = s.count /\ t.refs = s.refs /\ t.alive = s.alive
        /\ t.detached = s.detached /\ ~t.pass /\ ~t.hook
    BY <1>2, <1>3, <1>4, <1>5, <1>6 DEF Same
  <1> QED BY <1>1, <1>7

LEMMA NewBytesPassThroughStep ==
  ASSUME HttpInv, NewBytesPassThrough
  PROVE  HttpInv'
  <1> DEFINE v == Tail(queue)
             e == <<>>
             c == [net EXCEPT !.data = e]
             rest == SubSeq(net.data, p.length + 1, Len(net.data))
  <1>1. /\ phase = "idle" /\ queue # <<>> /\ Head(queue).op = "bytes" /\ queue' = v /\ p.pass
        /\ phase' = phase /\ req' = req /\ answered' = answered
    BY DEF NewBytesPassThrough, Handle
  <1>2. NetOK(net) /\ ParserOK(p) /\ p.header = <<>>
    BY <1>1, Now
  <1>3. HInv(net, v, later, p, phase, req, answered) /\ TokenFree(net, v, later, p, phase)
    BY <1>1, TokenTaken DEF HttpInv
  <1> HIDE DEF v
  <1>4. NetOK(c) /\ c.watch = net.watch /\ c.informed = net.informed /\ c.telling = net.telling /\ c.data = e
    <2> HIDE DEF e
    <2> QED BY <1>2, NetRecords
  <1>5. e = <<>>
    OBVIOUS
  <1> SUFFICES HInv(net', v, later', p', phase, req, answered)
    BY <1>1 DEF HttpInv
  <1>6. CASE p.hook /\ PassThroughEnds
    <2>1. /\ p' = [p EXCEPT !.pass = FALSE, !.hook = FALSE, !.length = -1, !.header = rest]
          /\ later' = IF rest = <<>> THEN later ELSE later \cup {"parse"}
          /\ net' = IF rest = <<>> THEN StartRead(c) ELSE c
      BY <1>6 DEF PassThroughEnds
    <2> HIDE DEF rest, c, e
    <2>2. /\ ParserOK(p') /\ p'.count = p.count /\ p'.refs = p.refs /\ p'.alive = p.alive
          /\ p'.detached = p.detached /\ ~(p'.pass) /\ ~(p'.hook)
      BY <1>2, <2>1, UploadRecord
    <2>3. HInv(net, v, later, p', phase, req, answered)
          /\ Readers(net, v, later, p', phase) = Readers(net, v, later, p, phase)
      BY ONLY <1>1, <1>3, <1>6, <2>2, UploadEnds
    <2>4. HInv(c, v, later, p', phase, req, answered)
          /\ Readers(c, v, later, p', phase) = Readers(net, v, later, p', phase)
      BY ONLY <1>4, <1>5, <2>3, NetMoves
    <2>5. TokenFree(c, v, later, p', phase) /\ c.data = <<>>
      BY <1>3, <1>4, <1>5, <2>2, <2>3, <2>4 DEF TokenFree
    <2>6. CASE rest = <<>>
      <3>1. HInv(StartRead(c), v, later, p', phase, req, answered)
        BY ONLY <2>4, <2>5, StartMoves
      <3> QED BY <2>1, <2>6, <3>1
    <2>7. CASE rest # <<>>
      <3>1. HInv(c, v, later \cup {"parse"}, p', phase, req, answered)
        BY ONLY <2>2, <2>4, <2>5, TokenToLater
      <3> QED BY <2>1, <2>7, <3>1
    <2> QED BY <2>6, <2>7
  <1>7. CASE PassThroughGoesOn
    <2> DEFINE n == p.length - Len(net.data)
    <2>1. p' = [p EXCEPT !.length = n] /\ net' = StartRead(c) /\ later' = later
      BY <1>7 DEF PassThroughGoesOn
    <2> HIDE DEF n, c, e
    <2>2. Same(p, p') /\ p'.header = p.header
      BY <1>2, <2>1, ParserText
    <2>3. HInv(net, v, later, p', phase, req, answered)
          /\ Readers(net, v, later, p', phase) = Readers(net, v, later, p, phase)
      BY ONLY <1>2, <1>3, <2>2, ParserMoves
    <2>4. HInv(c, v, later, p', phase, req, answered)
          /\ Readers(c, v, later, p', phase) = Readers(net, v, later, p', phase)
      BY ONLY <1>4, <1>5, <2>3, NetMoves
    <2>5. TokenFree(c, v, later, p', phase) /\ c.data = <<>>
      BY <1>3, <1>4, <1>5, <2>2, <2>3, <2>4 DEF TokenFree, Same
    <2>6. HInv(StartRead(c), v, later, p', phase, req, answered)
      BY ONLY <2>4, <2>5, StartMoves
    <2> QED BY <2>1, <2>6
  <1>8. CASE UNCHANGED <<p, net, later>>
    BY <1>3, <1>8
  <1>9. \/ p.hook /\ PassThroughEnds
        \/ PassThroughGoesOn
        \/ UNCHANGED <<p, net, later>>
    BY DEF NewBytesPassThrough
  <1> QED BY <1>6, <1>7, <1>8, <1>9

LEMMA NewBytesAvailableStep ==
  ASSUME HttpInv, NewBytesAvailable
  PROVE  HttpInv'
  <1> DEFINE v == Tail(queue)
             h == p.header \o net.data
             b == p.body \o net.data
             e == <<>>
             c == [net EXCEPT !.data = e]
  <1>1. /\ phase = "idle" /\ queue # <<>> /\ Head(queue).op = "bytes" /\ queue' = v /\ ~p.pass
        /\ phase' = "parse" /\ req' = req /\ answered' = answered /\ later' = later
        /\ net' = c
    BY DEF NewBytesAvailable, Handle
  <1>2. NetOK(net) /\ ParserOK(p)
    BY Now
  <1>3. HInv(net, v, later, p, phase, req, answered) /\ TokenFree(net, v, later, p, phase)
    BY <1>1, TokenTaken DEF HttpInv
  <1>4. p' = [p EXCEPT !.header = h] \/ p' = [p EXCEPT !.body = b]
    BY DEF NewBytesAvailable
  <1> HIDE DEF v, h, b
  <1>5. Same(p, p') /\ ~(p'.pass)
    <2>1. Same(p, [p EXCEPT !.header = h]) /\ Same(p, [p EXCEPT !.body = b])
      BY ONLY <1>2, ParserText
    <2>3. Same(p, p')
      BY ONLY <1>4, <2>1
    <2> QED BY <1>1, <2>3 DEF Same
  <1>6. NetOK(c) /\ c.watch = net.watch /\ c.informed = net.informed /\ c.telling = net.telling /\ c.data = e
    <2> HIDE DEF e
    <2> QED BY <1>2, NetRecords
  <1>7. e = <<>>
    OBVIOUS
  <1> HIDE DEF c, e
  <1>8. HInv(net, v, later, p', phase, req, answered)
        /\ Readers(net, v, later, p', phase) = Readers(net, v, later, p, phase)
    BY ONLY <1>3, <1>5, ParserMoves
  <1>9. HInv(c, v, later, p', phase, req, answered)
        /\ Readers(c, v, later, p', phase) = Readers(net, v, later, p', phase)
    BY ONLY <1>6, <1>7, <1>8, NetMoves
  <1>10. TokenFree(c, v, later, p', phase) /\ c.data = <<>>
    BY <1>3, <1>5, <1>6, <1>7, <1>8, <1>9 DEF TokenFree, Same
  <1>11. HInv(c, v, later, p', "parse", req, answered)
    BY ONLY <1>1, <1>5, <1>9, <1>10, TokenToParse
  <1> QED BY <1>1, <1>11 DEF HttpInv

LEMMA PostedGoesStep ==
  ASSUME HttpInv, Closed \/ DetachPosted
  PROVE  HttpInv'
  <1>1. /\ queue # <<>> /\ Head(queue).op \in {"closed", "detach"} /\ queue' = Tail(queue)
        /\ p' = Unref(p) /\ later' = Ended(later, p)
        /\ net' = net /\ phase' = phase /\ req' = req /\ answered' = answered
    BY DEF Closed, DetachPosted, Handle, Deleting, Ended
  <1>2. Fewer(p, Unref(p)) /\ Unref(p).detached = p.detached
    BY Now, UnrefRecord
  <1>3. HInv(net, Tail(queue), Ended(later, p), Unref(p), phase, req, answered)
    BY <1>1, <1>2, PostedGoes DEF HttpInv
  <1> QED BY <1>1, <1>3 DEF HttpInv

(* sendReply changes nothing of what the invariant is about, except that an *)
(* upload that is not read closes the connection. *)
LEMMA ReplySent ==
  ASSUME NEW c, NEW q, NEW l, NEW s, NEW ph, NEW r, NEW a, HInv(c, q, l, s, ph, r, a), NEW n
  PROVE  /\ HInv(c, q, l, Flushed(s), ph, r, a)
         /\ HInv(c, q, l, [s EXCEPT !.replies = @ \cup {n}], ph, r, a)
         /\ HInv(Close(c, ReadWriteClosed), q, l, Flushed(s), ph, r, a)
  <1>1. ParserOK(s) /\ (s.pass => s.header = <<>>)
    BY DEF HInv, Types, Phases
  <1> DEFINE next == CHOOSE m \in s.nextReply + 1 .. MaxRequests + 1 :
                       /\ m \notin s.replies
                       /\ \A i \in s.nextReply + 1 .. m - 1 : i \in s.replies
             left == {i \in s.replies : i > next}
             more == s.replies \cup {n}
             x == [s EXCEPT !.nextReply = next, !.replies = left]
             y == [s EXCEPT !.replies = more]
  <1>2. Flushed(s) = x /\ [s EXCEPT !.replies = @ \cup {n}] = y
    BY DEF Flushed
  <1> HIDE DEF left, more, next
  <1>3. Same(s, x) /\ Same(s, y)
    BY <1>1, ParserText
  <1>4. x.header = s.header /\ y.header = s.header
    BY <1>1 DEF ParserOK
  <1> HIDE DEF x, y
  <1>5. HInv(c, q, l, x, ph, r, a)
    <2>1. x.pass => x.header = <<>>
      BY <1>1, <1>3, <1>4 DEF Same
    <2> QED BY <1>3, <2>1, ParserMoves
  <1>6. HInv(c, q, l, y, ph, r, a)
    <2>1. y.pass => y.header = <<>>
      BY <1>1, <1>3, <1>4 DEF Same
    <2> QED BY <1>3, <2>1, ParserMoves
  <1>7. HInv(Close(c, ReadWriteClosed), q, l, x, ph, r, a)
    BY <1>5, CloseMoves DEF ReadWriteClosed, HardClosed
  <1> QED BY <1>2, <1>5, <1>6, <1>7

LEMMA ReplyPostedStep ==
  ASSUME HttpInv, ReplyPosted
  PROVE  HttpInv'
  <1> DEFINE n == Head(queue).id
  <1>1. /\ queue # <<>> /\ Head(queue).op = "reply" /\ queue' = Tail(queue)
        /\ later' = later /\ phase' = phase /\ req' = req /\ answered' = answered
        /\ SendReply(p, net, n)
    BY DEF ReplyPosted, Handle
  <1> HIDE DEF n
  <1>2. HInv(net, Tail(queue), later, p, phase, req, answered)
    BY <1>1, ReplyTaken DEF HttpInv
  <1>3. \/ p' = Flushed(p) /\ net' \in {net, Close(net, ReadWriteClosed)}
        \/ p' = [p EXCEPT !.replies = @ \cup {n}] /\ net' = net
    BY <1>1 DEF SendReply
  <1>4. /\ HInv(net, Tail(queue), later, Flushed(p), phase, req, answered)
        /\ HInv(net, Tail(queue), later, [p EXCEPT !.replies = @ \cup {n}], phase, req, answered)
        /\ HInv(Close(net, ReadWriteClosed), Tail(queue), later, Flushed(p), phase, req, answered)
    BY ONLY <1>2, ReplySent
  <1>5. HInv(net', Tail(queue), later, p', phase, req, answered)
    BY ONLY <1>3, <1>4
  <1> QED BY <1>1, <1>5 DEF HttpInv

LEMMA ParseLaterStep ==
  ASSUME HttpInv, ParseLater
  PROVE  HttpInv'
  <1>1. /\ phase = "idle" /\ "parse" \in later /\ later' = later \ {"parse"} /\ phase' = "parse"
        /\ UNCHANGED <<net, queue, p, req, answered>>
    BY DEF ParseLater
  <1>2. /\ HInv(net, queue, later \ {"parse"}, p, phase, req, answered)
        /\ TokenFree(net, queue, later \ {"parse"}, p, phase) /\ net.data = <<>> /\ ~p.pass
    BY <1>1, TokenDue DEF HttpInv
  <1>3. HInv(net, queue, later \ {"parse"}, p, "parse", req, answered)
    BY <1>1, <1>2, TokenToParse
  <1> QED BY <1>1, <1>3 DEF HttpInv

LEMMA DeleteStep ==
  ASSUME HttpInv, Delete
  PROVE  HttpInv'
  <1> DEFINE no == FALSE
             x == [p EXCEPT !.alive = no]
  <1>1. /\ "delete" \in later /\ later' = later \ {"delete"} /\ p' = x
        /\ UNCHANGED <<net, queue, phase, req, answered>>
    BY DEF Delete
  <1>2. ~no /\ no \in BOOLEAN /\ ParserOK(p)
    BY Now
  <1> HIDE DEF no
  <1>3. /\ x = [header |-> x.header, body |-> x.body, length |-> x.length, count |-> x.count,
               nextReply |-> x.nextReply, replies |-> x.replies, refs |-> x.refs, detached |-> x.detached,
               pass |-> x.pass, hook |-> x.hook, alive |-> x.alive]
        /\ x.header = p.header /\ x.count = p.count /\ x.refs = p.refs /\ x.detached = p.detached
        /\ x.pass = p.pass /\ x.hook = p.hook /\ x.alive = no
    BY <1>2 DEF ParserOK
  <1> HIDE DEF x
  <1>4. ParserOK(x) /\ ~x.alive
    BY <1>2, <1>3 DEF ParserOK
  <1>5. HInv(net, queue, later \ {"delete"}, x, phase, req, answered)
    BY <1>1, <1>3, <1>4, DeleteMoves DEF HttpInv
  <1> QED BY <1>1, <1>5 DEF HttpInv

----------------------------------------
(* parseRequest. *)
LEMMA SplitSame ==
  ASSUME ParserOK(p)
  PROVE  Same(p, Split)
  <1> DEFINE e == EndPos(p.header)
             h == SubSeq(p.header, 1, e)
             b == SubSeq(p.header, e + 1, Len(p.header))
             n == IF kind[Head(p.header).req] = "get" THEN -1 ELSE Size(kind[Head(p.header).req])
  <1>1. Split = IF p.length # -1 THEN p ELSE [p EXCEPT !.header = h, !.body = b, !.length = n]
    BY DEF Split
  <1> HIDE DEF h, b, n
  <1>2. Same(p, [p EXCEPT !.header = h, !.body = b, !.length = n])
    BY ONLY ParserOK(p), ParserText
  <1>3. Same(p, p)
    BY DEF Same
  <1> QED BY <1>1, <1>2, <1>3

LEMMA AwaitStep ==
  ASSUME HttpInv, AwaitHeader \/ AwaitBody
  PROVE  HttpInv'
  <1>1. /\ phase = "parse" /\ phase' = "idle" /\ net' = Pause(net) /\ p' \in {p, Split}
        /\ UNCHANGED <<queue, later, req, answered>>
    BY DEF AwaitHeader, AwaitBody
  <1>2. /\ HInv(net, queue, later, p, "idle", req, answered) /\ TokenFree(net, queue, later, p, "idle")
        /\ net.data = <<>> /\ ~p.pass
    BY <1>1, TokenParsed DEF HttpInv
  <1>3. Same(p, p') /\ ~(p'.pass)
    <2>1. Same(p, p) /\ Same(p, Split)
      BY Now, SplitSame DEF Same
    <2>2. Same(p, p')
      BY ONLY <1>1, <2>1
    <2> QED BY <1>2, <2>2 DEF Same
  <1>4. HInv(net, queue, later, p', "idle", req, answered)
        /\ Readers(net, queue, later, p', "idle") = Readers(net, queue, later, p, "idle")
    BY ONLY <1>2, <1>3, ParserMoves
  <1>5. TokenFree(net, queue, later, p', "idle")
    BY <1>2, <1>3, <1>4 DEF TokenFree, Same
  <1>6. HInv(StartRead(net), queue, later, p', "idle", req, answered)
    BY ONLY <1>2, <1>4, <1>5, StartMoves
  <1>7. net' = StartRead(net)
    BY <1>1, <1>2 DEF Pause
  <1> QED BY <1>1, <1>6, <1>7 DEF HttpInv

LEMMA BadHeaderStep ==
  ASSUME HttpInv, BadHeader
  PROVE  HttpInv'
  <1> DEFINE h == <<Head(p.header)>>
             b == SubSeq(p.header, EndPos(p.header) + 1, Len(p.header))
             c == Close(net, HardClosed)
  <1>1. /\ phase = "parse" /\ phase' = "idle" /\ net' = Pause(c)
        /\ p' = [p EXCEPT !.header = h, !.body = b]
        /\ UNCHANGED <<queue, later, req, answered>>
    BY DEF BadHeader
  <1>2. /\ HInv(net, queue, later, p, "idle", req, answered) /\ TokenFree(net, queue, later, p, "idle")
        /\ net.data = <<>> /\ ~p.pass /\ ~net.watch
    BY <1>1, TokenParsed DEF HttpInv
  <1> HIDE DEF h, b, c
  <1>3. Same(p, p') /\ ~(p'.pass)
    <2>1. ParserOK(p)
      BY Now
    <2>2. Same(p, [p EXCEPT !.header = h, !.body = b])
      BY ONLY <2>1, ParserText
    <2> QED BY <1>1, <1>2, <2>2 DEF Same
  <1>4. HInv(net, queue, later, p', "idle", req, answered)
        /\ Readers(net, queue, later, p', "idle") = Readers(net, queue, later, p, "idle")
    BY ONLY <1>2, <1>3, ParserMoves
  <1>5. TokenFree(net, queue, later, p', "idle")
    BY <1>2, <1>3, <1>4 DEF TokenFree, Same
  <1>6. HInv(c, queue, later, p', "idle", req, answered)
    BY <1>4, CloseMoves DEF HardClosed, c
  <1>7. NetOK(c) /\ ~c.watch /\ c.data = <<>> /\ c.informed = net.informed
    <2>1. NetOK(net) /\ R \in HardClosed
      BY Now DEF HardClosed
    <2> QED BY <1>2, <2>1, CloseNet DEF c
  <1>8. TokenFree(c, queue, later, p', "idle")
    <2>1. c.watch = net.watch
      <3>1. c.watch \in BOOLEAN /\ net.watch \in BOOLEAN
        BY <1>7, Now DEF NetOK
      <3> QED BY <1>2, <1>7, <3>1
    <2> QED BY <1>5, <1>7, <2>1 DEF TokenFree, Readers
  <1>9. HInv(StartRead(c), queue, later, p', "idle", req, answered)
    BY ONLY <1>6, <1>7, <1>8, StartMoves
  <1>10. net' = StartRead(c)
    BY <1>1, <1>2 DEF Pause
  <1> QED BY <1>1, <1>9, <1>10 DEF HttpInv

LEMMA HandStep ==
  ASSUME HttpInv, Hand
  PROVE  HttpInv'
  <1> DEFINE s    == Split
             size == Size(Asked)
             next == NextHeader
             n    == p.count + 1
             have == IF Len(s.body) < size THEN Len(s.body) ELSE size
             most == have < size
             more == p.refs + 1
             len  == IF have < size THEN size - have ELSE -1
             e    == <<>>
             t1   == [s EXCEPT !.header = next, !.body = e, !.length = len]
             t2   == [t1 EXCEPT !.pass = most]
             t3   == [t2 EXCEPT !.count = n]
             t4   == [t3 EXCEPT !.refs = more]
  <1>1. /\ phase = "parse" /\ phase' = "handler" /\ p' = t4 /\ n <= MaxRequests
        /\ req' = [req EXCEPT ![n] = "handler"]
        /\ UNCHANGED <<net, queue, later, answered>>
    BY DEF Hand, HandOver
  <1>2. ParserOK(p)
    BY Now
  <1>3. Same(p, s) /\ ParserOK(s)
    BY <1>2, SplitSame DEF Same
  <1>4. most \in BOOLEAN /\ (most => next = <<>>)
    <2>1. size \in Int
      BY HttpAssumption DEF Size
    <2>2. most => Len(s.body) < size
      BY <2>1
    <2> QED BY <2>2 DEF NextHeader
  <1>5. n \in Ids /\ n = p.count + 1 /\ more = p.refs + 1 /\ more \in Int /\ n \in 0 .. MaxRequests
    BY <1>1, <1>2, HttpAssumption DEF ParserOK, Ids
  <1> HIDE DEF s, next, n, most, more, len, e, have, size
  <1>6. Same(s, t1) /\ ParserOK(t1)
    <2>1. Same(s, t1)
      BY ONLY <1>3, ParserText DEF t1
    <2> QED BY <2>1 DEF Same
  <1>7. t1.header = next
    BY <1>3 DEF ParserOK
  <1> HIDE DEF t1
  <1>8. /\ t2 = [header |-> t2.header, body |-> t2.body, length |-> t2.length, count |-> t2.count,
              nextReply |-> t2.nextReply, replies |-> t2.replies, refs |-> t2.refs, detached |-> t2.detached,
              pass |-> t2.pass, hook |-> t2.hook, alive |-> t2.alive]
        /\ t2.header = t1.header /\ t2.count = t1.count /\ t2.refs = t1.refs /\ t2.detached = t1.detached
        /\ t2.pass = most /\ t2.hook = t1.hook /\ t2.alive = t1.alive
    BY <1>6 DEF ParserOK
  <1> HIDE DEF t2
  <1>9. /\ t3 = [header |-> t3.header, body |-> t3.body, length |-> t3.length, count |-> t3.count,
              nextReply |-> t3.nextReply, replies |-> t3.replies, refs |-> t3.refs, detached |-> t3.detached,
              pass |-> t3.pass, hook |-> t3.hook, alive |-> t3.alive]
        /\ t3.header = t2.header /\ t3.count = n /\ t3.refs = t2.refs /\ t3.detached = t2.detached
        /\ t3.pass = t2.pass /\ t3.hook = t2.hook /\ t3.alive = t2.alive
    BY <1>8 DEF ParserOK
  <1> HIDE DEF t3
  <1>a. /\ t4 = [header |-> t4.header, body |-> t4.body, length |-> t4.length, count |-> t4.count,
              nextReply |-> t4.nextReply, replies |-> t4.replies, refs |-> t4.refs, detached |-> t4.detached,
              pass |-> t4.pass, hook |-> t4.hook, alive |-> t4.alive]
        /\ t4.header = t3.header /\ t4.count = t3.count /\ t4.refs = more /\ t4.detached = t3.detached
        /\ t4.pass = t3.pass /\ t4.hook = t3.hook /\ t4.alive = t3.alive
    BY <1>9 DEF ParserOK
  <1> HIDE DEF t4
  <1>10. ParserOK(t4)
    BY <1>4, <1>5, <1>6, <1>8, <1>9, <1>a DEF ParserOK
  <1>11. /\ t4.count = n /\ t4.refs = p.refs + 1 /\ t4.alive = p.alive
         /\ t4.detached = p.detached /\ t4.hook = p.hook /\ (t4.pass => t4.header = <<>>)
    BY <1>3, <1>4, <1>5, <1>6, <1>7, <1>8, <1>9, <1>a DEF Same
  <1>12. HInv(net, queue, later, t4, "handler", [req EXCEPT ![n] = "handler"], answered)
    BY <1>1, <1>5, <1>10, <1>11, HandMoves DEF HttpInv
  <1> QED BY <1>1, <1>12 DEF HttpInv

----------------------------------------
(* Handlers on the HTTP thread and elsewhere. *)
LEMMA HandlerReplyStep ==
  ASSUME HttpInv, HandlerReply
  PROVE  HttpInv'
  <1>1. /\ phase = "handler" /\ answered' = [answered EXCEPT ![p.count] = TRUE]
        /\ UNCHANGED <<queue, later, phase, req>> /\ p.count \in Ids
    BY Now DEF HandlerReply
  <1>2. HInv(net, queue, later, p, phase, req, answered')
    BY <1>1, AnswerMoves DEF HttpInv
  <1>3. \/ p' = Flushed(p) /\ net' \in {net, Close(net, ReadWriteClosed)}
        \/ p' = [p EXCEPT !.replies = @ \cup {p.count}] /\ net' = net
    BY DEF HandlerReply, SendReply
  <1>4. /\ HInv(net, queue, later, Flushed(p), phase, req, answered')
        /\ HInv(net, queue, later, [p EXCEPT !.replies = @ \cup {p.count}], phase, req, answered')
        /\ HInv(Close(net, ReadWriteClosed), queue, later, Flushed(p), phase, req, answered')
    BY ONLY <1>2, ReplySent
  <1>5. HInv(net', queue, later, p', phase, req, answered')
    BY ONLY <1>3, <1>4
  <1> QED BY <1>1, <1>5 DEF HttpInv

LEMMA HandlerKeepStep ==
  ASSUME HttpInv, HandlerKeep
  PROVE  HttpInv'
  <1>1. /\ req[p.count] = "handler" /\ p.count \in Ids /\ req' = [req EXCEPT ![p.count] = "kept"]
        /\ UNCHANGED <<net, queue, later, p, phase, answered>>
    BY Now DEF HandlerKeep
  <1>2. HInv(net, queue, later, p, phase, [req EXCEPT ![p.count] = "kept"], answered)
    BY <1>1, KeepMoves DEF HttpInv
  <1> QED BY <1>1, <1>2 DEF HttpInv

LEMMA HandlerHookStep ==
  ASSUME HttpInv, HandlerHook
  PROVE  HttpInv'
  <1> DEFINE yes == TRUE
             t == [p EXCEPT !.hook = yes]
  <1>1. /\ phase = "handler" /\ p.pass /\ ~p.hook /\ p' = t /\ net' = StartRead(net)
        /\ req' = [req EXCEPT ![p.count] = "kept"]
        /\ UNCHANGED <<queue, later, phase, answered>>
    BY DEF HandlerHook
  <1>2. ParserOK(p) /\ p.count \in Ids /\ yes /\ yes \in BOOLEAN
    BY <1>1, Now
  <1>3. req[p.count] \in {"handler", "kept"}
    BY <1>1 DEF HttpInv, HInv, Phases
  <1>p. ParserOK(p)
    BY <1>2
  <1> HIDE DEF yes
  <1>4. /\ t = [header |-> t.header, body |-> t.body, length |-> t.length, count |-> t.count,
              nextReply |-> t.nextReply, replies |-> t.replies, refs |-> t.refs, detached |-> t.detached,
              pass |-> t.pass, hook |-> t.hook, alive |-> t.alive]
        /\ t.header = p.header /\ t.count = p.count /\ t.refs = p.refs /\ t.detached = p.detached
        /\ t.pass = p.pass /\ t.hook = yes /\ t.alive = p.alive
    BY <1>p DEF ParserOK
  <1> HIDE DEF t
  <1>5. ParserOK(t) /\ t.hook
    BY <1>2, <1>4 DEF ParserOK
  <1>6. /\ HInv(net, queue, later, t, phase, req, answered) /\ TokenFree(net, queue, later, t, phase)
        /\ net.data = <<>>
    BY <1>1, <1>4, <1>5, HookMoves DEF HttpInv
  <1>7. HInv(StartRead(net), queue, later, t, phase, req, answered)
    BY ONLY <1>6, StartMoves
  <1>8. HInv(StartRead(net), queue, later, t, phase, [req EXCEPT ![p.count] = "kept"], answered)
    BY ONLY <1>2, <1>3, <1>7, KeepMoves
  <1> QED BY <1>1, <1>8 DEF HttpInv

LEMMA HandlerDetachStep ==
  ASSUME HttpInv, HandlerDetach
  PROVE  HttpInv'
  <1> DEFINE yes == TRUE
             u == Unref(p)
             t == [u EXCEPT !.detached = yes]
             b == [answered EXCEPT ![p.count] = TRUE]
  <1>1. /\ phase = "handler" /\ ~p.pass /\ p' = t /\ later' = Ended(later, p) /\ answered' = b
        /\ ~answered[p.count] /\ UNCHANGED <<net, queue, phase, req>>
    BY DEF HandlerDetach, Deleting, Ended
  <1>2. ParserOK(p) /\ p.count \in Ids /\ yes /\ yes \in BOOLEAN
    BY <1>1, Now
  <1>3. ~p.detached
    BY <1>1 DEF HttpInv, HInv, Phases
  <1>4. HInv(net, queue, later, p, phase, req, b)
    BY <1>2, AnswerMoves DEF HttpInv
  <1>5. b[p.count]
    BY <1>2 DEF HttpInv, HInv, Types
  <1>6. Fewer(p, u) /\ ParserOK(u)
    <2>1. Fewer(p, u)
      BY <1>2, UnrefRecord
    <2> QED BY <2>1 DEF Fewer
  <1> HIDE DEF yes, u, b
  <1>7. /\ t = [header |-> t.header, body |-> t.body, length |-> t.length, count |-> t.count,
              nextReply |-> t.nextReply, replies |-> t.replies, refs |-> t.refs, detached |-> t.detached,
              pass |-> t.pass, hook |-> t.hook, alive |-> t.alive]
        /\ t.header = u.header /\ t.count = u.count /\ t.refs = u.refs /\ t.detached = yes
        /\ t.pass = u.pass /\ t.hook = u.hook /\ t.alive = u.alive
    BY <1>6 DEF ParserOK
  <1> HIDE DEF t
  <1>8. ParserOK(t) /\ t.detached
    BY <1>2, <1>6, <1>7 DEF ParserOK
  <1>9. Fewer(p, t)
    BY <1>6, <1>7, <1>8 DEF Fewer
  <1>10. HInv(net, queue, Ended(later, p), t, phase, req, b)
    BY <1>1, <1>3, <1>4, <1>5, <1>8, <1>9, DetachMoves
  <1> QED BY <1>1, <1>10 DEF HttpInv

LEMMA HandlerReturnStep ==
  ASSUME HttpInv, HandlerReturn
  PROVE  HttpInv'
  <1> DEFINE open == IF p.detached \/ p.header # <<>> THEN net ELSE Pause(net)
             goes == [req EXCEPT ![p.count] = "gone"]
             b == [answered EXCEPT ![p.count] = TRUE]
  <1>1. /\ phase = "handler" /\ phase' = LoopOn(p) /\ queue' = queue
        /\ \/ net' = open /\ UNCHANGED <<p, later, req, answered>>
           \/ /\ req[p.count] = "handler"
              /\ net' = open /\ p' = Unref(p) /\ later' = Ended(later, p)
              /\ req' = goes /\ answered' = answered
           \/ /\ req[p.count] = "handler"
              /\ SendReply(Unref(p), open, p.count) /\ later' = Ended(later, p)
              /\ req' = goes /\ answered' = b
    BY DEF HandlerReturn, Deleting, Ended
  <1>2. p.count \in Ids /\ ParserOK(p) /\ (p.pass => p.header = <<>>)
    BY <1>1, Now
  <1>3. /\ HInv(net, queue, later, p, "idle", req, answered)
        /\ ~p.pass /\ ~p.detached => TokenFree(net, queue, later, p, "idle") /\ net.data = <<>>
    BY <1>1, ReturnMoves DEF HttpInv
  <1>4. HInv(open, queue, later, p, LoopOn(p), req, answered) /\ LoopOn(p) # "handler"
    <2>1. CASE p.detached
      BY <1>3, <2>1 DEF LoopOn
    <2>2. CASE ~p.detached /\ p.header # <<>>
      <3>1. HInv(net, queue, later, p, "parse", req, answered)
        BY ONLY <1>2, <1>3, <2>2, TokenToParse
      <3> QED BY <2>2, <3>1 DEF LoopOn
    <2>3. CASE ~p.detached /\ p.header = <<>>
      <3>1. LoopOn(p) = "idle" /\ open = IF p.pass THEN net ELSE StartRead(net)
        BY <2>3 DEF LoopOn, Pause
      <3>2. ~p.pass => HInv(StartRead(net), queue, later, p, "idle", req, answered)
        BY ONLY <1>3, <2>3, StartMoves
      <3> HIDE DEF open
      <3> QED BY <1>3, <3>1, <3>2
    <2> QED BY <2>1, <2>2, <2>3
  <1> HIDE DEF open
  <1>5. Fewer(p, Unref(p)) /\ Unref(p).detached = p.detached
    BY <1>2, UnrefRecord
  <1>6. CASE net' = open /\ UNCHANGED <<p, later, req, answered>>
    BY <1>1, <1>4, <1>6 DEF HttpInv
  <1>7. ASSUME req[p.count] = "handler"
        PROVE  HInv(open, queue, Ended(later, p), Unref(p), LoopOn(p), goes, answered)
    BY ONLY <1>2, <1>4, <1>5, <1>7, HandlerGoes
  <1>8. CASE /\ req[p.count] = "handler"
             /\ net' = open /\ p' = Unref(p) /\ later' = Ended(later, p)
             /\ req' = goes /\ answered' = answered
    <2> HIDE DEF goes
    <2> QED BY <1>1, <1>7, <1>8 DEF HttpInv
  <1>9. CASE /\ req[p.count] = "handler"
             /\ SendReply(Unref(p), open, p.count) /\ later' = Ended(later, p)
             /\ req' = goes /\ answered' = b
    <2> DEFINE u == Unref(p)
               k == Ended(later, p)
    <2>1. HInv(open, queue, k, u, LoopOn(p), goes, answered)
      BY <1>7, <1>9
    <2> HIDE DEF goes, u, k
    <2>2. HInv(open, queue, k, u, LoopOn(p), goes, b)
      BY ONLY <1>2, <2>1, AnswerMoves
    <2>3. \/ p' = Flushed(u) /\ net' \in {open, Close(open, ReadWriteClosed)}
          \/ p' = [u EXCEPT !.replies = @ \cup {p.count}] /\ net' = open
      BY <1>9 DEF SendReply, u
    <2> HIDE DEF b
    <2>4. /\ HInv(open, queue, k, Flushed(u), LoopOn(p), goes, b)
          /\ HInv(open, queue, k, [u EXCEPT !.replies = @ \cup {p.count}], LoopOn(p), goes, b)
          /\ HInv(Close(open, ReadWriteClosed), queue, k, Flushed(u), LoopOn(p), goes, b)
      BY ONLY <2>2, ReplySent
    <2>5. HInv(net', queue, k, p', LoopOn(p), goes, b)
      BY ONLY <2>3, <2>4
    <2> QED BY <1>1, <1>9, <2>5 DEF HttpInv, k
  <1> QED BY <1>1, <1>6, <1>8, <1>9

LEMMA KeeperStep ==
  ASSUME HttpInv, NEW n \in Ids, Keeper(n)
  PROVE  HttpInv'
  <1>1. CASE KeeperReply(n)
    <2>1. /\ req[n] = "kept" /\ answered' = [answered EXCEPT ![n] = TRUE]
          /\ queue' = Append(queue, [op |-> "reply", id |-> n])
          /\ UNCHANGED <<net, later, p, phase, req>>
      BY <1>1 DEF KeeperReply
    <2>2. HInv(net, Append(queue, [op |-> "reply", id |-> n]), later, p, phase, req, answered)
      BY <2>1, KeeperAnswers DEF HttpInv
    <2>3. HInv(net, Append(queue, [op |-> "reply", id |-> n]), later, p, phase, req,
               [answered EXCEPT ![n] = TRUE])
      BY <2>2, AnswerMoves
    <2> QED BY <2>1, <2>3 DEF HttpInv
  <1>2. CASE KeeperDrop(n)
    <2>1. /\ req[n] = "kept" /\ req' = [req EXCEPT ![n] = "gone"]
          /\ queue' = Append(queue, [op |-> "detach"])
          /\ UNCHANGED <<net, later, p, phase, answered>>
          /\ phase = "handler" => n # p.count
      BY <1>2 DEF KeeperDrop
    <2>2. HInv(net, Append(queue, [op |-> "detach"]), later, p, phase, [req EXCEPT ![n] = "gone"], answered)
      BY <2>1, KeeperGoes DEF HttpInv
    <2> QED BY <2>1, <2>2 DEF HttpInv
  <1> QED BY <1>1, <1>2 DEF Keeper

(* No step breaks the invariant. *)
LEMMA HttpKept == HttpInv /\ [Next]_vars => HttpInv'
  <1> SUFFICES ASSUME HttpInv, [Next]_vars PROVE HttpInv'
    OBVIOUS
  <1>1. CASE Network
    BY <1>1, ReceiveStep, LoseStep, TellClosedStep DEF Network
  <1>2. CASE Events
    <2>1. CASE NewBytesPassThrough \/ NewBytesAvailable
      BY <2>1, NewBytesPassThroughStep, NewBytesAvailableStep
    <2>2. CASE Closed \/ DetachPosted \/ ReplyPosted
      BY <2>2, PostedGoesStep, ReplyPostedStep
    <2>3. CASE ParseLater \/ Delete
      BY <2>3, ParseLaterStep, DeleteStep
    <2> QED BY <1>2, <2>1, <2>2, <2>3 DEF Events
  <1>3. CASE Parse
    BY <1>3, AwaitStep, BadHeaderStep, HandStep DEF Parse
  <1>4. CASE Handler
    BY <1>4, HandlerReplyStep, HandlerKeepStep, HandlerHookStep, HandlerDetachStep DEF Handler
  <1>5. CASE HandlerReturn
    BY <1>5, HandlerReturnStep
  <1>6. CASE \E n \in Ids : Keeper(n) \/ Abort(n)
    BY <1>6, KeeperStep, AbortStep
  <1>7. CASE UNCHANGED vars
    BY <1>7 DEF vars, HttpInv
  <1> QED BY <1>1, <1>2, <1>3, <1>4, <1>5, <1>6, <1>7 DEF Next

(****************************************)
(* Whatever the client sends and however its connection ends, and in *)
(* whatever order handlers and other threads answer, drop and abort any *)
(* number of requests: nobody uses a parser that was deleted, and the two *)
(* threads never touch readData at the same time. *)
(****************************************)
THEOREM SharedSafelyHolds == Spec => []SharedSafely
  <1>1. Init => HttpInv
    BY HttpInit
  <1>2. HttpInv /\ [Next]_vars => HttpInv'
    BY HttpKept
  <1>3. HttpInv => SharedSafely
    BY HttpSafe
  <1> QED BY <1>1, <1>2, <1>3, PTL DEF Spec

----------------------------------------
(****************************************)
(* The order of the replies.  A reply is given once: the parser has it, or *)
(* one call carries it there.  What the parser has is everything before *)
(* nextReply, which is what was written, and some of what comes after it. *)
(****************************************)
Replied(s, n) == n < s.nextReply \/ n \in s.replies

InOrder(c, s, w) ==
  /\ s.nextReply \in 1 .. MaxRequests + 1 /\ s.replies \in SUBSET Ids
  /\ \A n \in s.replies : n > s.nextReply
  /\ w \in Seq(Nat) /\ Len(w) < s.nextReply
  /\ W \notin c.closed => Len(w) = s.nextReply - 1
  /\ \A i \in 1 .. Len(w) : w[i] = i

Carries(q, i, n) == q[i].op = "reply" /\ q[i].id = n

GivenOnce(q, s, a) ==
  \A i \in 1 .. Len(q) : q[i].op = "reply" =>
    /\ a[q[i].id] /\ ~Replied(s, q[i].id)
    /\ \A j \in 1 .. Len(q) : Carries(q, j, q[i].id) => j = i

NoneLost(q, s, a) ==
  \A n \in Ids :
    /\ Replied(s, n) => a[n]
    /\ a[n] /\ ~s.detached => Replied(s, n) \/ \E i \in 1 .. Len(q) : Carries(q, i, n)

Given(q, s, a) == GivenOnce(q, s, a) /\ NoneLost(q, s, a)

OrderInv == InOrder(net, p, written) /\ Given(queue, p, answered)

(* t has the replies s has. *)
SameReplies(s, t) ==
  /\ t.nextReply = s.nextReply /\ t.replies = s.replies /\ (s.detached => t.detached)

LEMMA OrderNow ==
  ASSUME HttpInv, OrderInv
  PROVE  RepliesInOrder
  <1>1. \A i \in 1 .. Len(written) : written[i] = i
    BY DEF OrderInv, InOrder
  <1>2. p.nextReply \notin p.replies
    BY DEF OrderInv, InOrder, Ids
  <1>3. ASSUME NEW n \in Ids, answered[n], ~p.detached
        PROVE  \/ n < p.nextReply \/ n \in p.replies
               \/ \E i \in 1 .. Len(queue) : queue[i] = [op |-> "reply", id |-> n]
    <2>1. CASE Replied(p, n)
      BY <2>1 DEF Replied
    <2>2. ASSUME NEW i \in 1 .. Len(queue), Carries(queue, i, n)
          PROVE  queue[i] = [op |-> "reply", id |-> n]
      <3>1. queue[i] \in Posting
        BY Now
      <3> QED BY <2>2, <3>1 DEF Carries, Posting
    <2>3. Replied(p, n) \/ \E i \in 1 .. Len(queue) : Carries(queue, i, n)
      BY <1>3 DEF OrderInv, Given, NoneLost
    <2> QED BY <2>1, <2>2, <2>3
  <1> QED BY <1>1, <1>2, <1>3 DEF RepliesInOrder

LEMMA OrderBegins ==
  ASSUME Init
  PROVE  OrderInv
  <1>1. /\ p.nextReply = 1 /\ p.replies = {} /\ written = <<>> /\ queue = <<>>
        /\ answered = [n \in Ids |-> FALSE]
    BY DEF Init
  <1>2. Len(written) = 0 /\ Len(queue) = 0 /\ written \in Seq(Nat)
    BY <1>1
  <1>3. InOrder(net, p, written)
    BY <1>1, <1>2, HttpAssumption DEF InOrder
  <1>4. GivenOnce(queue, p, answered)
    BY <1>2 DEF GivenOnce
  <1>5. NoneLost(queue, p, answered)
    BY <1>1 DEF NoneLost, Replied, Ids
  <1> QED BY <1>3, <1>4, <1>5 DEF OrderInv, Given

----------------------------------------
(* What leaves the order alone. *)
LEMMA ClosedGrows ==
  ASSUME NEW c, NetOK(c), NEW type
  PROVE  c.closed \subseteq Close(c, type).closed /\ type \subseteq Close(c, type).closed
  <1> DEFINE cl == c.closed \cup type
             wt == c.watch /\ R \notin type
             x  == [c EXCEPT !.closed = cl]
             z  == [x EXCEPT !.watch = wt]
             no == FALSE
  <1>1. Close(c, type) = IF z.closed # c.closed /\ (no \/ z.watch # c.watch) THEN Tell(z) ELSE z
    BY DEF Close, CloseNow
  <1> HIDE DEF cl, wt, no
  <1>2. x = [watch |-> c.watch, closed |-> cl, informed |-> c.informed,
             telling |-> c.telling, data |-> c.data]
    BY DEF NetOK
  <1> HIDE DEF x
  <1>3. z = [watch |-> wt, closed |-> cl, informed |-> c.informed,
             telling |-> c.telling, data |-> c.data]
    BY <1>2
  <1> HIDE DEF z
  <1>4. z.closed = cl /\ Tell(z).closed = cl
    BY <1>3 DEF Tell
  <1> QED BY <1>1, <1>4 DEF cl

LEMMA StartGrows ==
  ASSUME NEW c, NetOK(c)
  PROVE  StartRead(c).closed = c.closed
  BY DEF NetOK, StartRead, Tell

LEMMA OrderOfSame ==
  ASSUME NEW c, NEW s, NEW w, InOrder(c, s, w), NEW d, c.closed \subseteq d.closed,
         NEW t, SameReplies(s, t)
  PROVE  InOrder(d, t, w)
  BY DEF InOrder, SameReplies

LEMMA GivenSame ==
  ASSUME NEW q, NEW s, NEW a, Given(q, s, a), NEW t, SameReplies(s, t)
  PROVE  Given(q, t, a)
  <1>1. \A n : Replied(t, n) <=> Replied(s, n)
    BY DEF Replied, SameReplies
  <1>2. GivenOnce(q, t, a)
    BY <1>1 DEF Given, GivenOnce
  <1>3. NoneLost(q, t, a)
    BY <1>1 DEF Given, NoneLost, SameReplies
  <1> QED BY <1>2, <1>3 DEF Given

LEMMA GivenPosted ==
  ASSUME NEW q \in Seq(Posting), NEW s, NEW a, Given(q, s, a), NEW m, m.op # "reply"
  PROVE  Given(Append(q, m), s, a)
  <1> DEFINE t == Append(q, m)
  <1>1. /\ Len(t) = Len(q) + 1 /\ Len(q) \in Nat /\ t[Len(q) + 1] = m
        /\ \A i \in 1 .. Len(q) : t[i] = q[i]
    <2>1. q \in Seq(Posting \cup {m})
      OBVIOUS
    <2> QED BY <2>1
  <1> HIDE DEF t
  <1>2. \A i \in 1 .. Len(t) : t[i].op = "reply" => i \in 1 .. Len(q) /\ t[i] = q[i]
    BY <1>1
  <1>3. GivenOnce(t, s, a)
    BY <1>1, <1>2 DEF Given, GivenOnce, Carries
  <1>4. NoneLost(t, s, a)
    BY <1>1 DEF Given, NoneLost, Carries
  <1> QED BY <1>3, <1>4 DEF Given, t

LEMMA GivenTaken ==
  ASSUME NEW q \in Seq(Posting), q # <<>>, NEW s, NEW a, Given(q, s, a), Head(q).op # "reply"
  PROVE  Given(Tail(q), s, a)
  <1> DEFINE t == Tail(q)
  <1>1. /\ Len(t) = Len(q) - 1 /\ Len(q) \in Nat /\ Len(q) > 0 /\ Head(q) = q[1]
        /\ \A i \in 1 .. Len(t) : t[i] = q[i + 1]
    OBVIOUS
  <1> HIDE DEF t
  <1>2. \A i \in 1 .. Len(t) : i + 1 \in 1 .. Len(q) /\ t[i] = q[i + 1]
    BY <1>1
  <1>3. ASSUME NEW i \in 1 .. Len(q), q[i].op = "reply"
        PROVE  i - 1 \in 1 .. Len(t) /\ t[i - 1] = q[i]
    <2>1. i # 1
      BY <1>1, <1>3
    <2>2. i - 1 \in 1 .. Len(t) /\ (i - 1) + 1 = i
      BY <1>1, <2>1
    <2> QED BY <1>1, <2>2
  <1>4. GivenOnce(t, s, a)
    <2> SUFFICES ASSUME NEW i \in 1 .. Len(t), t[i].op = "reply"
                 PROVE  /\ a[t[i].id] /\ ~Replied(s, t[i].id)
                        /\ \A j \in 1 .. Len(t) : Carries(t, j, t[i].id) => j = i
      BY DEF GivenOnce
    <2>1. /\ a[t[i].id] /\ ~Replied(s, t[i].id)
          /\ \A j \in 1 .. Len(q) : Carries(q, j, t[i].id) => j = i + 1
      BY <1>2 DEF Given, GivenOnce
    <2>2. ASSUME NEW j \in 1 .. Len(t), Carries(t, j, t[i].id) PROVE j = i
      <3>1. j + 1 = i + 1
        BY <1>2, <2>1, <2>2 DEF Carries
      <3> QED BY <3>1
    <2> QED BY <2>1, <2>2
  <1>5. NoneLost(t, s, a)
    <2> SUFFICES ASSUME NEW n \in Ids, NEW i \in 1 .. Len(q), Carries(q, i, n)
                 PROVE  \E j \in 1 .. Len(t) : Carries(t, j, n)
      BY DEF Given, NoneLost
    <2>1. i - 1 \in 1 .. Len(t) /\ t[i - 1] = q[i]
      BY <1>3 DEF Carries
    <2> QED BY <2>1 DEF Carries
  <1> QED BY <1>4, <1>5 DEF Given, t

(* The smallest of the numbers that satisfy what a set is made of. *)
LEMMA Smallest ==
  ASSUME NEW S, S \subseteq Nat, S # {}
  PROVE  \E m \in S : \A k \in S : m <= k
  <1> DEFINE L == OpToRel(<, Nat)
  <1>1. IsWellFoundedOn(L, Nat)
    BY NatLessThanWellFounded
  <1>2. \A x, y \in Nat : x < y => <<x, y>> \in L
    BY DEF OpToRel
  <1> HIDE DEF L
  <1>3. PICK m \in S : \A k \in S : ~(<<k, m>> \in L)
    BY <1>1, WFMin
  <1>4. \A k \in S : m <= k
    <2> TAKE k \in S
    <2>1. k \in Nat /\ m \in Nat
      OBVIOUS
    <2>2. ~(k < m)
      BY <1>2, <1>3, <2>1
    <2> QED BY <2>1, <2>2
  <1> QED BY <1>4

LEMMA NextAwaited ==
  ASSUME NEW s, ParserOK(s), s.nextReply \in Ids, s.replies \in SUBSET Ids
  PROVE  LET t == Flushed(s) IN
         /\ t.nextReply \in s.nextReply + 1 .. MaxRequests + 1 /\ t.nextReply \notin s.replies
         /\ \A i \in s.nextReply + 1 .. t.nextReply - 1 : i \in s.replies
         /\ t.replies = {i \in s.replies : i > t.nextReply} /\ t.detached = s.detached
  <1> DEFINE lo == s.nextReply + 1
             hi == MaxRequests + 1
             S == {m \in lo .. hi : m \notin s.replies}
             Good(m) == m \notin s.replies /\ \A i \in lo .. m - 1 : i \in s.replies
             next == CHOOSE m \in lo .. hi : Good(m)
             left == {i \in s.replies : i > next}
             x == [s EXCEPT !.nextReply = next]
             t == [x EXCEPT !.replies = left]
  <1>1. lo \in Nat /\ hi \in Nat /\ hi \in S
    BY HttpAssumption DEF Ids
  <1>2. PICK m \in S : \A k \in S : m <= k
    <2>1. S \subseteq Nat
      BY <1>1
    <2> HIDE DEF S
    <2> QED BY <1>1, <2>1, Smallest
  <1>3. m \in lo .. hi /\ Good(m)
    <2>1. ASSUME NEW i \in lo .. m - 1 PROVE i \in s.replies
      <3>1. i \in lo .. hi /\ ~(m <= i)
        BY <1>1, <1>2
      <3> QED BY <1>2, <3>1
    <2> QED BY <1>2, <2>1
  <1>4. next \in lo .. hi /\ Good(next)
    BY <1>3
  <1>5. Flushed(s) = [s EXCEPT !.nextReply = next, !.replies = left]
    BY DEF Flushed
  <1>6. Flushed(s) = t
    BY <1>5
  <1> HIDE DEF next, left
  <1>7. x.nextReply = next /\ x.detached = s.detached
        /\ x = [header |-> x.header, body |-> x.body, length |-> x.length, count |-> x.count,
               nextReply |-> x.nextReply, replies |-> x.replies, refs |-> x.refs,
               detached |-> x.detached, pass |-> x.pass, hook |-> x.hook, alive |-> x.alive]
    BY DEF ParserOK
  <1> HIDE DEF x
  <1>8. t.nextReply = next /\ t.replies = left /\ t.detached = s.detached
    BY <1>7
  <1> HIDE DEF t
  <1>9. t.replies = {i \in s.replies : i > t.nextReply}
    BY <1>8 DEF left
  <1> QED BY <1>4, <1>6, <1>8, <1>9

(* sendReply: the parser has one reply more, and what it wrote is in order. *)
LEMMA SentInOrder ==
  ASSUME NEW c, NetOK(c), NEW s, ParserOK(s), InOrder(c, s, written),
         NEW n \in Ids, ~Replied(s, n), SendReply(s, c, n)
  PROVE  /\ InOrder(net', p', written') /\ p'.detached = s.detached
         /\ \A m \in Ids : Replied(p', m) <=> (Replied(s, m) \/ m = n)
  <1>1. /\ n \in Nat /\ n >= 1 /\ n <= MaxRequests /\ MaxRequests \in Nat
        /\ s.nextReply \in Nat /\ n >= s.nextReply /\ n \notin s.replies
    BY HttpAssumption DEF Ids, InOrder, Replied
  <1>2. CASE n = s.nextReply
    <2> DEFINE t == Flushed(s)
    <2>1. /\ t.nextReply \in n + 1 .. MaxRequests + 1 /\ t.nextReply \notin s.replies
          /\ \A i \in n + 1 .. t.nextReply - 1 : i \in s.replies
          /\ t.replies = {i \in s.replies : i > t.nextReply} /\ t.detached = s.detached
      BY <1>2, NextAwaited DEF InOrder
    <2>2. /\ p' = t
          /\ written' = IF W \in c.closed THEN written
                        ELSE written \o [i \in 1 .. t.nextReply - n |-> n + i - 1]
          /\ net' = IF s.pass THEN Close(c, ReadWriteClosed) ELSE c
      BY <1>2 DEF SendReply
    <2> HIDE DEF t
    <2>3. c.closed \subseteq net'.closed
      BY <2>2, ClosedGrows
    <2>4. \A m \in Ids : Replied(t, m) <=> (Replied(s, m) \/ m = n)
      <3> TAKE m \in Ids
      <3>1. m \in Nat
        BY DEF Ids
      <3>2. t.nextReply \in Nat /\ t.nextReply > n
        BY <1>1, <2>1
      <3>3. CASE m < t.nextReply
        <4>1. m < n \/ m = n \/ m \in n + 1 .. t.nextReply - 1
          BY <1>1, <3>1, <3>2, <3>3
        <4> QED BY <1>2, <2>1, <3>3, <4>1 DEF Replied
      <3>4. CASE m >= t.nextReply
        <4>1. ~(m < n) /\ m # n /\ (m = t.nextReply \/ m > t.nextReply) /\ ~(m < t.nextReply)
          BY <1>1, <3>1, <3>2, <3>4
        <4> QED BY <1>2, <2>1, <4>1 DEF Replied
      <3> QED BY <3>1, <3>2, <3>3, <3>4
    <2>5. /\ t.nextReply \in 1 .. MaxRequests + 1 /\ t.replies \in SUBSET Ids
          /\ \A m \in t.replies : m > t.nextReply
      BY <1>1, <2>1 DEF InOrder
    <2>6. CASE W \in c.closed
      <3>1. Len(written) < t.nextReply
        <4>1. Len(written) \in Nat /\ Len(written) < s.nextReply
          BY DEF InOrder
        <4> QED BY <1>1, <1>2, <2>1, <4>1
      <3> QED BY <2>2, <2>3, <2>4, <2>5, <2>6, <3>1, <2>1 DEF InOrder
    <2>7. CASE W \notin c.closed
      <3> DEFINE len == t.nextReply - n
                 v == [i \in 1 .. len |-> n + i - 1]
                 w == written \o v
      <3>1. written \in Seq(Nat) /\ Len(written) = n - 1 /\ \A i \in 1 .. Len(written) : written[i] = i
        BY <1>2, <2>7 DEF InOrder
      <3>2. len \in Nat /\ len > 0
        BY <1>1, <2>1
      <3> HIDE DEF len
      <3>3. v \in Seq(Nat) /\ Len(v) = len /\ \A i \in 1 .. len : v[i] = n + i - 1
        <4>1. \A i \in 1 .. len : n + i - 1 \in Nat
          BY <1>1, <3>2
        <4> QED BY <3>2, <4>1
      <3> HIDE DEF v
      <3>4. /\ w \in Seq(Nat) /\ Len(w) = (n - 1) + len
            /\ \A i \in 1 .. Len(w) : w[i] = IF i <= n - 1 THEN written[i] ELSE v[i - (n - 1)]
        <4> DEFINE lw == Len(written)
                   lv == Len(v)
        <4>1. written \in Seq(Nat) /\ v \in Seq(Nat)
          BY <3>1, <3>3
        <4>2. /\ w \in Seq(Nat) /\ Len(w) = lw + lv
              /\ \A i \in 1 .. lw + lv : w[i] = IF i <= lw THEN written[i] ELSE v[i - lw]
          BY ONLY <4>1, ConcatProperties DEF lw, lv, w
        <4>3. lw = n - 1 /\ lv = len
          BY <3>1, <3>3
        <4> HIDE DEF lw, lv, w
        <4> QED BY ONLY <4>2, <4>3
      <3> HIDE DEF w
      <3>5. Len(w) = t.nextReply - 1
        BY <1>1, <2>1, <3>4 DEF len
      <3>6. \A i \in 1 .. Len(w) : w[i] = i
        <4> TAKE i \in 1 .. Len(w)
        <4>1. CASE i <= n - 1
          <5>1. i \in 1 .. Len(written)
            BY <1>1, <3>1, <4>1
          <5> QED BY <3>1, <3>4, <4>1, <5>1
        <4>2. CASE ~(i <= n - 1)
          <5>1. i - (n - 1) \in 1 .. len /\ n + (i - (n - 1)) - 1 = i
            BY <1>1, <3>2, <3>4, <4>2
          <5> QED BY <3>3, <3>4, <4>2, <5>1
        <4> QED BY <4>1, <4>2
      <3>7. written' = w
        BY <2>2, <2>7 DEF w, v, len
      <3>8. Len(w) < t.nextReply
        BY <1>1, <2>1, <3>5
      <3>9. InOrder(net', t, w)
        BY <2>3, <2>5, <3>4, <3>5, <3>6, <3>8 DEF InOrder
      <3> QED BY <2>1, <2>2, <2>4, <3>7, <3>9
    <2> QED BY <2>6, <2>7
  <1>3. CASE n # s.nextReply
    <2> DEFINE more == s.replies \cup {n}
               t == [s EXCEPT !.replies = more]
    <2>1. p' = t /\ net' = c /\ written' = written
      BY <1>3 DEF SendReply
    <2> HIDE DEF more
    <2>2. t.nextReply = s.nextReply /\ t.replies = more /\ t.detached = s.detached
      BY DEF ParserOK
    <2> HIDE DEF t
    <2>3. n > s.nextReply
      BY <1>1, <1>3
    <2>4. InOrder(c, t, written)
      BY <2>2, <2>3 DEF InOrder, more
    <2>5. \A m \in Ids : Replied(t, m) <=> (Replied(s, m) \/ m = n)
      BY <2>2 DEF Replied, more
    <2> QED BY <2>1, <2>2, <2>4, <2>5
  <1> QED BY <1>2, <1>3

----------------------------------------
(* What gives a reply. *)
LEMMA GivenNow ==
  ASSUME NEW q \in Seq(Posting), NEW s, NEW a \in [Ids -> BOOLEAN], Given(q, s, a),
         NEW n \in Ids, ~a[n], NEW t, s.detached => t.detached,
         \A m \in Ids : Replied(t, m) <=> (Replied(s, m) \/ m = n)
  PROVE  ~Replied(s, n) /\ Given(q, t, [a EXCEPT ![n] = TRUE])
  <1> DEFINE yes == TRUE
             b == [a EXCEPT ![n] = yes]
  <1>1. b[n] /\ \A m \in Ids : m # n => b[m] = a[m]
    OBVIOUS
  <1> HIDE DEF yes, b
  <1>2. \A i \in 1 .. Len(q) : q[i].op = "reply" => q[i].id \in Ids
    BY DEF Posting
  <1>3. \A i \in 1 .. Len(q) : q[i].op = "reply" => q[i].id # n
    BY DEF Given, GivenOnce
  <1>4. GivenOnce(q, t, b)
    <2> SUFFICES ASSUME NEW i \in 1 .. Len(q), q[i].op = "reply"
                 PROVE  /\ b[q[i].id] /\ ~Replied(t, q[i].id)
                        /\ \A j \in 1 .. Len(q) : Carries(q, j, q[i].id) => j = i
      BY DEF GivenOnce
    <2> QED BY <1>1, <1>2, <1>3 DEF Given, GivenOnce
  <1>5. NoneLost(q, t, b)
    <2> SUFFICES ASSUME NEW m \in Ids
                 PROVE  /\ Replied(t, m) => b[m]
                        /\ b[m] /\ ~t.detached =>
                             Replied(t, m) \/ \E i \in 1 .. Len(q) : Carries(q, i, m)
      BY DEF NoneLost
    <2>1. CASE m = n
      BY <1>1, <2>1
    <2>2. CASE m # n
      <3>1. /\ Replied(s, m) => a[m]
            /\ a[m] /\ ~s.detached => Replied(s, m) \/ \E i \in 1 .. Len(q) : Carries(q, i, m)
        BY DEF Given, NoneLost
      <3> QED BY <1>1, <2>2, <3>1
    <2> QED BY <2>1, <2>2
  <1>6. ~Replied(s, n)
    BY DEF Given, NoneLost
  <1> QED BY <1>4, <1>5, <1>6 DEF Given, b, yes

LEMMA GivenDetached ==
  ASSUME NEW q \in Seq(Posting), NEW s, NEW a \in [Ids -> BOOLEAN], Given(q, s, a),
         NEW n \in Ids, NEW t, SameReplies(s, t), t.detached
  PROVE  Given(q, t, [a EXCEPT ![n] = TRUE])
  <1> DEFINE yes == TRUE
             b == [a EXCEPT ![n] = yes]
  <1>1. \A m \in Ids : a[m] => b[m]
    OBVIOUS
  <1> HIDE DEF yes, b
  <1>2. \A i \in 1 .. Len(q) : q[i].op = "reply" => q[i].id \in Ids
    BY DEF Posting
  <1>3. \A m : Replied(t, m) <=> Replied(s, m)
    BY DEF Replied, SameReplies
  <1>4. GivenOnce(q, t, b)
    BY <1>1, <1>2, <1>3 DEF Given, GivenOnce
  <1>5. NoneLost(q, t, b)
    BY <1>1, <1>3 DEF Given, NoneLost
  <1> QED BY <1>4, <1>5 DEF Given, b, yes

(* The call takes the reply to the parser. *)
LEMMA GivenCalled ==
  ASSUME NEW q \in Seq(Posting), NEW s, NEW a \in [Ids -> BOOLEAN], Given(q, s, a),
         NEW n \in Ids, ~a[n]
  PROVE  Given(Append(q, [op |-> "reply", id |-> n]), s, [a EXCEPT ![n] = TRUE])
  <1> DEFINE yes == TRUE
             b == [a EXCEPT ![n] = yes]
             r == [op |-> "reply", id |-> n]
             t == Append(q, r)
             z == Len(q) + 1
  <1>1. b[n] /\ \A m \in Ids : m # n => b[m] = a[m]
    OBVIOUS
  <1>2. r.op = "reply" /\ r.id = n
    OBVIOUS
  <1>3. \A i \in 1 .. Len(q) : q[i].op = "reply" => q[i].id \in Ids /\ q[i].id # n
    BY DEF Posting, Given, GivenOnce
  <1>4. ~Replied(s, n)
    BY DEF Given, NoneLost
  <1> HIDE DEF yes, b, r
  <1>5. Len(t) = z /\ z \in 1 .. z /\ Len(q) \in Nat /\ t[z] = r
        /\ \A i \in 1 .. Len(q) : t[i] = q[i] /\ i \in 1 .. z
    <2>1. q \in Seq(Posting \cup {r})
      OBVIOUS
    <2> QED BY <2>1
  <1>6. \A i \in 1 .. z : i \in 1 .. Len(q) \/ i = z
    BY <1>5
  <1> HIDE DEF t, z
  <1>7. GivenOnce(t, s, b)
    <2> SUFFICES ASSUME NEW i \in 1 .. z, t[i].op = "reply"
                 PROVE  /\ b[t[i].id] /\ ~Replied(s, t[i].id)
                        /\ \A j \in 1 .. z : Carries(t, j, t[i].id) => j = i
      BY <1>5 DEF GivenOnce
    <2>1. CASE i = z
      <3>1. b[t[i].id] /\ ~Replied(s, t[i].id)
        BY <1>1, <1>2, <1>4, <1>5, <2>1
      <3>2. ASSUME NEW j \in 1 .. z, Carries(t, j, t[i].id) PROVE j = i
        BY <1>2, <1>3, <1>5, <1>6, <2>1, <3>2 DEF Carries
      <3> QED BY <3>1, <3>2
    <2>2. CASE i \in 1 .. Len(q)
      <3>1. t[i] = q[i] /\ q[i].op = "reply" /\ q[i].id \in Ids /\ q[i].id # n
        BY <1>3, <1>5, <2>2
      <3>2. /\ a[q[i].id] /\ ~Replied(s, q[i].id)
            /\ \A j \in 1 .. Len(q) : Carries(q, j, q[i].id) => j = i
        BY <2>2, <3>1 DEF Given, GivenOnce
      <3>3. ASSUME NEW j \in 1 .. z, Carries(t, j, t[i].id) PROVE j = i
        <4>1. j # z
          BY <1>2, <1>5, <3>1, <3>3 DEF Carries
        <4>2. j \in 1 .. Len(q) /\ t[j] = q[j]
          BY <1>5, <1>6, <4>1
        <4> QED BY <3>1, <3>2, <3>3, <4>2 DEF Carries
      <3>4. b[q[i].id] = a[q[i].id]
        BY <1>1, <3>1
      <3> QED BY <3>1, <3>2, <3>3, <3>4
    <2> QED BY <1>6, <2>1, <2>2
  <1>8. NoneLost(t, s, b)
    <2> SUFFICES ASSUME NEW m \in Ids
                 PROVE  /\ Replied(s, m) => b[m]
                        /\ b[m] /\ ~s.detached =>
                             Replied(s, m) \/ \E i \in 1 .. z : Carries(t, i, m)
      BY <1>5 DEF NoneLost
    <2>1. CASE m = n
      BY <1>1, <1>2, <1>5, <2>1 DEF Carries
    <2>2. CASE m # n
      <3>1. /\ Replied(s, m) => a[m]
            /\ a[m] /\ ~s.detached => Replied(s, m) \/ \E i \in 1 .. Len(q) : Carries(q, i, m)
        BY DEF Given, NoneLost
      <3>2. (\E i \in 1 .. Len(q) : Carries(q, i, m)) => \E i \in 1 .. z : Carries(t, i, m)
        BY <1>5 DEF Carries
      <3> QED BY <1>1, <2>2, <3>1, <3>2
    <2> QED BY <2>1, <2>2
  <1> QED BY <1>7, <1>8 DEF Given, b, yes, t, r

LEMMA GivenArrived ==
  ASSUME NEW q \in Seq(Posting), q # <<>>, NEW s, NEW a, Given(q, s, a), Head(q).op = "reply",
         NEW t, t.detached = s.detached,
         \A m \in Ids : Replied(t, m) <=> (Replied(s, m) \/ m = Head(q).id)
  PROVE  Given(Tail(q), t, a)
  <1> DEFINE u == Tail(q)
             n == Head(q).id
  <1>1. /\ Len(u) = Len(q) - 1 /\ Len(q) \in Nat /\ 1 \in 1 .. Len(q) /\ Head(q) = q[1]
        /\ \A i \in 1 .. Len(u) : u[i] = q[i + 1]
    OBVIOUS
  <1>2. a[n] /\ ~Replied(s, n) /\ \A j \in 1 .. Len(q) : Carries(q, j, n) => j = 1
    BY <1>1 DEF Given, GivenOnce
  <1>3. \A i \in 1 .. Len(q) : q[i].op = "reply" => q[i].id \in Ids
    BY DEF Posting
  <1> HIDE DEF u
  <1>4. \A i \in 1 .. Len(u) : i + 1 \in 1 .. Len(q) /\ u[i] = q[i + 1] /\ i + 1 # 1
    BY <1>1
  <1>5. GivenOnce(u, t, a)
    <2> SUFFICES ASSUME NEW i \in 1 .. Len(u), u[i].op = "reply"
                 PROVE  /\ a[u[i].id] /\ ~Replied(t, u[i].id)
                        /\ \A j \in 1 .. Len(u) : Carries(u, j, u[i].id) => j = i
      BY DEF GivenOnce
    <2>1. /\ a[u[i].id] /\ ~Replied(s, u[i].id) /\ u[i].id \in Ids
          /\ \A j \in 1 .. Len(q) : Carries(q, j, u[i].id) => j = i + 1
      BY <1>3, <1>4 DEF Given, GivenOnce
    <2>2. u[i].id # n
      BY <1>2, <1>4 DEF Carries
    <2>3. ASSUME NEW j \in 1 .. Len(u), Carries(u, j, u[i].id) PROVE j = i
      <3>1. j + 1 = i + 1
        BY <1>4, <2>1, <2>3 DEF Carries
      <3> QED BY <3>1
    <2> QED BY <2>1, <2>2, <2>3
  <1>6. NoneLost(u, t, a)
    <2> SUFFICES ASSUME NEW m \in Ids
                 PROVE  /\ Replied(t, m) => a[m]
                        /\ a[m] /\ ~t.detached =>
                             Replied(t, m) \/ \E i \in 1 .. Len(u) : Carries(u, i, m)
      BY DEF NoneLost
    <2>1. /\ Replied(s, m) => a[m]
          /\ a[m] /\ ~s.detached => Replied(s, m) \/ \E i \in 1 .. Len(q) : Carries(q, i, m)
      BY DEF Given, NoneLost
    <2>2. ASSUME NEW i \in 1 .. Len(q), Carries(q, i, m), m # n
          PROVE  \E j \in 1 .. Len(u) : Carries(u, j, m)
      <3>1. i # 1
        BY <1>1, <2>2 DEF Carries
      <3>2. i - 1 \in 1 .. Len(u) /\ (i - 1) + 1 = i
        BY <1>1, <3>1
      <3> QED BY <1>4, <2>2, <3>2 DEF Carries
    <2> QED BY <1>2, <2>1, <2>2
  <1> QED BY <1>5, <1>6 DEF Given, u

----------------------------------------
(* The steps that give no reply. *)
OtherCalls ==
  \/ queue' = queue
  \/ queue # <<>> /\ Head(queue).op # "reply" /\ queue' = Tail(queue)
  \/ \E m \in [op: {"bytes", "closed", "detach"}] : queue' = Append(queue, m)

LEMMA NoReplyStep ==
  ASSUME HttpInv, OrderInv, net.closed \subseteq net'.closed, SameReplies(p, p'), OtherCalls,
         written' = written, answered' = answered
  PROVE  OrderInv'
  <1>1. InOrder(net', p', written)
    BY OrderOfSame DEF OrderInv
  <1>2. queue \in Seq(Posting) /\ Given(queue, p', answered)
    BY Now, GivenSame DEF OrderInv
  <1>3. Given(queue', p', answered)
    <2>1. CASE queue' = queue
      BY <1>2, <2>1
    <2>2. CASE queue # <<>> /\ Head(queue).op # "reply" /\ queue' = Tail(queue)
      BY <1>2, <2>2, GivenTaken
    <2>3. ASSUME NEW m \in [op: {"bytes", "closed", "detach"}], queue' = Append(queue, m)
          PROVE  Given(queue', p', answered)
      <3>1. m.op # "reply"
        OBVIOUS
      <3> QED BY <1>2, <2>3, <3>1, GivenPosted
    <2> QED BY <2>1, <2>2, <2>3 DEF OtherCalls
  <1> QED BY <1>1, <1>3 DEF OrderInv

LEMMA NetworkOrder ==
  ASSUME HttpInv, OrderInv, Network \/ \E n \in Ids : Abort(n)
  PROVE  OrderInv'
  <1>1. NetOK(net)
    BY Now
  <1>2. SameReplies(p, p') /\ written' = written /\ answered' = answered
    BY DEF Network, Receive, Lose, TellClosed, Abort, SameReplies
  <1>3. OtherCalls
    <2>1. CASE Receive \/ TellClosed
      BY <2>1 DEF Receive, TellClosed, OtherCalls
    <2>2. CASE Lose \/ \E n \in Ids : Abort(n)
      BY <2>2 DEF Lose, Abort, OtherCalls
    <2> QED BY <2>1, <2>2 DEF Network
  <1>4. net.closed \subseteq net'.closed
    <2>1. CASE Receive
      <3>1. PICK k \in 1 .. Len(wire) :
              net' = [net EXCEPT !.watch = FALSE, !.data = @ \o SubSeq(wire, 1, k)]
        BY <2>1 DEF Receive
      <3> QED BY <1>1, <3>1 DEF NetOK
    <2>2. CASE TellClosed
      BY <1>1, <2>2 DEF TellClosed, NetOK
    <2>3. CASE Lose \/ \E n \in Ids : Abort(n)
      <3>1. \E type : net' = Close(net, type)
        BY <2>3 DEF Lose, Abort
      <3> QED BY <1>1, <3>1, ClosedGrows
    <2> QED BY <2>1, <2>2, <2>3 DEF Network
  <1> QED BY <1>2, <1>3, <1>4, NoReplyStep

LEMMA EventsOrder ==
  ASSUME HttpInv, OrderInv, NewBytesPassThrough \/ NewBytesAvailable \/ Closed \/ DetachPosted
                              \/ ParseLater \/ Delete
  PROVE  OrderInv'
  <1>1. NetOK(net) /\ ParserOK(p)
    BY Now
  <1>2. written' = written /\ answered' = answered
    BY DEF NewBytesPassThrough, NewBytesAvailable, Closed, DetachPosted, ParseLater, Delete
  <1>3. OtherCalls
    BY DEF NewBytesPassThrough, NewBytesAvailable, Closed, DetachPosted, ParseLater, Delete,
           Handle, OtherCalls
  <1> DEFINE e == <<>>
             c == [net EXCEPT !.data = e]
  <1>4. NetOK(c) /\ c.closed = net.closed
    <2> HIDE DEF e
    <2> QED BY <1>1, NetRecords
  <1>5. CASE NewBytesPassThrough
    <2> DEFINE rest == SubSeq(net.data, p.length + 1, Len(net.data))
               t == [p EXCEPT !.pass = FALSE, !.hook = FALSE, !.length = -1, !.header = rest]
               n == p.length - Len(net.data)
               u == [p EXCEPT !.length = n]
    <2>1. \/ p' = t /\ net' \in {c, StartRead(c)}
          \/ p' = u /\ net' = StartRead(c)
          \/ p' = p /\ net' = net
      BY <1>5 DEF NewBytesPassThrough, PassThroughEnds, PassThroughGoesOn
    <2> HIDE DEF rest, n, c
    <2>2. SameReplies(p, t) /\ SameReplies(p, u) /\ SameReplies(p, p)
      BY <1>1 DEF SameReplies, ParserOK
    <2>3. StartRead(c).closed = net.closed
      BY <1>4, StartGrows
    <2> HIDE DEF t, u
    <2>4. SameReplies(p, p') /\ net.closed \subseteq net'.closed
      BY <1>4, <2>1, <2>2, <2>3
    <2> QED BY <1>2, <1>3, <2>4, NoReplyStep
  <1>6. CASE NewBytesAvailable
    <2> DEFINE h == p.header \o net.data
               b == p.body \o net.data
    <2>1. (p' = [p EXCEPT !.header = h] \/ p' = [p EXCEPT !.body = b]) /\ net' = c
      BY <1>6 DEF NewBytesAvailable
    <2> HIDE DEF h, b, c
    <2>2. SameReplies(p, p')
      BY <1>1, <2>1 DEF SameReplies, ParserOK
    <2> QED BY <1>2, <1>3, <1>4, <2>1, <2>2, NoReplyStep
  <1>7. CASE Closed \/ DetachPosted
    <2>1. p' = Unref(p) /\ net' = net
      BY <1>7 DEF Closed, DetachPosted
    <2>2. SameReplies(p, p')
      BY <1>1, <2>1 DEF SameReplies, ParserOK, Unref
    <2> QED BY <1>2, <1>3, <2>1, <2>2, NoReplyStep
  <1>8. CASE ParseLater \/ Delete
    <2>1. net' = net /\ (p' = p \/ p' = [p EXCEPT !.alive = FALSE])
      BY <1>8 DEF ParseLater, Delete
    <2>2. SameReplies(p, p')
      BY <1>1, <2>1 DEF SameReplies, ParserOK
    <2> QED BY <1>2, <1>3, <2>1, <2>2, NoReplyStep
  <1> QED BY <1>5, <1>6, <1>7, <1>8

LEMMA SplitReplies ==
  ASSUME ParserOK(p)
  PROVE  SameReplies(p, Split) /\ ParserOK(Split)
  <1> DEFINE e == EndPos(p.header)
             h == SubSeq(p.header, 1, e)
             b == SubSeq(p.header, e + 1, Len(p.header))
             n == IF kind[Head(p.header).req] = "get" THEN -1 ELSE Size(kind[Head(p.header).req])
  <1>1. Split = IF p.length # -1 THEN p ELSE [p EXCEPT !.header = h, !.body = b, !.length = n]
    BY DEF Split
  <1> HIDE DEF h, b, n
  <1>2. SameReplies(p, [p EXCEPT !.header = h, !.body = b, !.length = n]) /\ SameReplies(p, p)
    BY DEF SameReplies, ParserOK
  <1>3. ParserOK(Split)
    BY SplitSame DEF Same
  <1> QED BY <1>1, <1>2, <1>3

LEMMA ParseOrder ==
  ASSUME HttpInv, OrderInv, Parse
  PROVE  OrderInv'
  <1>1. NetOK(net) /\ ParserOK(p) /\ SameReplies(p, Split) /\ ParserOK(Split)
    BY Now, SplitReplies
  <1>2. written' = written /\ answered' = answered /\ OtherCalls
    BY DEF Parse, AwaitHeader, BadHeader, AwaitBody, Hand, HandOver, OtherCalls
  <1>3. ASSUME NEW c, NetOK(c) PROVE Pause(c).closed = c.closed
    BY <1>3, StartGrows DEF Pause
  <1>4. CASE AwaitHeader \/ AwaitBody
    <2>1. net' = Pause(net) /\ (p' = p \/ p' = Split)
      BY <1>4 DEF AwaitHeader, AwaitBody
    <2>2. net.closed \subseteq net'.closed
      BY <1>1, <1>3, <2>1
    <2>3. SameReplies(p, p')
      BY <1>1, <2>1 DEF SameReplies
    <2> QED BY <1>2, <2>2, <2>3, NoReplyStep
  <1>5. CASE BadHeader
    <2> DEFINE h == <<Head(p.header)>>
               b == SubSeq(p.header, EndPos(p.header) + 1, Len(p.header))
               c == Close(net, HardClosed)
    <2>1. net' = Pause(c) /\ p' = [p EXCEPT !.header = h, !.body = b]
      BY <1>5 DEF BadHeader
    <2> HIDE DEF h, b
    <2>2. SameReplies(p, p')
      BY <1>1, <2>1 DEF SameReplies, ParserOK
    <2>3. net.closed \subseteq c.closed /\ NetOK(c)
      <3>1. HInv(c, queue, later, p, phase, req, answered)
        BY CloseMoves DEF HttpInv, HardClosed
      <3> QED BY <1>1, <3>1, ClosedGrows DEF HInv, Types
    <2> HIDE DEF c
    <2>4. net.closed \subseteq net'.closed
      BY <1>3, <2>1, <2>3
    <2> QED BY <1>2, <2>2, <2>4, NoReplyStep
  <1>6. CASE Hand
    <2> DEFINE s    == Split
               next == NextHeader
               size == Size(Asked)
               have == IF Len(s.body) < size THEN Len(s.body) ELSE size
               n    == p.count + 1
               len  == IF have < size THEN size - have ELSE -1
               most == have < size
               more == p.refs + 1
    <2>1. p' = [s EXCEPT !.header = next, !.body = <<>>, !.length = len, !.pass = most,
                         !.count = n, !.refs = more] /\ net' = net
      BY <1>6 DEF Hand, HandOver
    <2> HIDE DEF s, next, size, have, n, len, most, more
    <2>2. ParserOK(s) /\ SameReplies(p, s)
      BY <1>1 DEF s
    <2>3. SameReplies(s, p')
      BY <2>1, <2>2 DEF SameReplies, ParserOK
    <2>4. SameReplies(p, p')
      BY <2>2, <2>3 DEF SameReplies
    <2> QED BY <1>2, <2>1, <2>4, NoReplyStep
  <1> QED BY <1>4, <1>5, <1>6 DEF Parse

----------------------------------------
(* The steps that give one. *)
LEMMA ReplyPostedOrder ==
  ASSUME HttpInv, OrderInv, ReplyPosted
  PROVE  OrderInv'
  <1> DEFINE n == Head(queue).id
  <1>1. /\ queue # <<>> /\ Head(queue).op = "reply" /\ queue' = Tail(queue)
        /\ answered' = answered /\ SendReply(p, net, n)
    BY DEF ReplyPosted, Handle
  <1>2. NetOK(net) /\ ParserOK(p) /\ queue \in Seq(Posting)
    BY Now
  <1>3. n \in Ids /\ ~Replied(p, n)
    <2>1. 1 \in 1 .. Len(queue) /\ queue[1] = Head(queue) /\ Head(queue) \in Posting
      BY <1>1, <1>2
    <2>2. n \in Ids
      BY <1>1, <2>1 DEF Posting
    <2>3. ~Replied(p, n)
      BY <1>1, <2>1 DEF OrderInv, Given, GivenOnce
    <2> QED BY <2>2, <2>3
  <1>4. /\ InOrder(net', p', written') /\ p'.detached = p.detached
        /\ \A m \in Ids : Replied(p', m) <=> (Replied(p, m) \/ m = n)
    BY <1>1, <1>2, <1>3, SentInOrder DEF OrderInv
  <1>5. Given(Tail(queue), p', answered)
    BY <1>1, <1>2, <1>4, GivenArrived DEF OrderInv
  <1> QED BY <1>1, <1>4, <1>5 DEF OrderInv

(* A handler replies, itself or by returning without having replied. *)
LEMMA HandlerSends ==
  ASSUME HttpInv, OrderInv, p.count \in Ids, ~answered[p.count],
         answered' = [answered EXCEPT ![p.count] = TRUE], queue' = queue,
         NEW s, ParserOK(s), SameReplies(p, s), NEW c, NetOK(c), net.closed \subseteq c.closed,
         SendReply(s, c, p.count)
  PROVE  OrderInv'
  <1>1. queue \in Seq(Posting) /\ answered \in [Ids -> BOOLEAN]
    BY DEF HttpInv, HInv, Types
  <1>2. InOrder(c, s, written) /\ Given(queue, s, answered)
    BY OrderOfSame, GivenSame DEF OrderInv
  <1>3. ~Replied(s, p.count)
    BY <1>2 DEF Given, NoneLost
  <1>4. /\ InOrder(net', p', written') /\ p'.detached = s.detached
        /\ \A m \in Ids : Replied(p', m) <=> (Replied(s, m) \/ m = p.count)
    BY <1>2, <1>3, SentInOrder
  <1>5. Given(queue, p', [answered EXCEPT ![p.count] = TRUE])
    BY <1>1, <1>2, <1>4, GivenNow
  <1> QED BY <1>4, <1>5 DEF OrderInv

LEMMA HandlerOrder ==
  ASSUME HttpInv, OrderInv, Handler
  PROVE  OrderInv'
  <1>1. /\ NetOK(net) /\ ParserOK(p) /\ queue \in Seq(Posting) /\ p.count \in Ids
        /\ answered \in [Ids -> BOOLEAN]
    BY Now DEF Handler, HandlerReply, HandlerKeep, HandlerHook, HandlerDetach, HttpInv, HInv, Types
  <1>2. CASE HandlerReply
    <2>1. /\ ~answered[p.count] /\ answered' = [answered EXCEPT ![p.count] = TRUE]
          /\ queue' = queue /\ SendReply(p, net, p.count)
      BY <1>2 DEF HandlerReply
    <2> QED BY <1>1, <2>1, HandlerSends DEF SameReplies
  <1>3. CASE HandlerKeep
    <2>1. SameReplies(p, p') /\ OtherCalls /\ UNCHANGED <<net, written, answered>>
      BY <1>3 DEF HandlerKeep, SameReplies, OtherCalls
    <2> QED BY <2>1, NoReplyStep
  <1>4. CASE HandlerHook
    <2>1. /\ p' = [p EXCEPT !.hook = TRUE] /\ net' = StartRead(net) /\ OtherCalls
          /\ UNCHANGED <<written, answered>>
      BY <1>4 DEF HandlerHook, OtherCalls
    <2>2. SameReplies(p, p') /\ net.closed \subseteq net'.closed
      BY <1>1, <2>1, StartGrows DEF SameReplies, ParserOK
    <2> QED BY <2>1, <2>2, NoReplyStep
  <1>5. CASE HandlerDetach
    <2> DEFINE yes == TRUE
               u == Unref(p)
               t == [u EXCEPT !.detached = yes]
    <2>1. /\ p' = t /\ answered' = [answered EXCEPT ![p.count] = TRUE]
          /\ UNCHANGED <<net, queue, written>>
      BY <1>5 DEF HandlerDetach
    <2>2. yes
      OBVIOUS
    <2>3. SameReplies(p, u) /\ ParserOK(u)
      BY <1>1, UnrefRecord DEF SameReplies, ParserOK, Unref, Fewer
    <2> HIDE DEF yes, u
    <2>4. t.nextReply = u.nextReply /\ t.replies = u.replies /\ t.detached = yes
      BY <2>3 DEF ParserOK
    <2> HIDE DEF t
    <2>5. SameReplies(p, t) /\ t.detached
      BY <2>2, <2>3, <2>4 DEF SameReplies
    <2>6. Given(queue, t, [answered EXCEPT ![p.count] = TRUE])
      BY <1>1, <2>5, GivenDetached DEF OrderInv
    <2>7. InOrder(net, t, written)
      BY <2>5, OrderOfSame DEF OrderInv
    <2> QED BY <2>1, <2>6, <2>7 DEF OrderInv
  <1> QED BY <1>2, <1>3, <1>4, <1>5 DEF Handler

LEMMA HandlerReturnOrder ==
  ASSUME HttpInv, OrderInv, HandlerReturn
  PROVE  OrderInv'
  <1> DEFINE open == IF p.detached \/ p.header # <<>> THEN net ELSE Pause(net)
  <1>1. NetOK(net) /\ ParserOK(p) /\ p.count \in Ids /\ (p.pass => p.header = <<>>)
    BY Now DEF HandlerReturn
  <1>2. /\ queue' = queue
        /\ \/ net' = open /\ UNCHANGED <<p, answered, written>>
           \/ net' = open /\ p' = Unref(p) /\ UNCHANGED <<answered, written>>
           \/ /\ ~answered[p.count] /\ SendReply(Unref(p), open, p.count)
              /\ answered' = [answered EXCEPT ![p.count] = TRUE]
    BY DEF HandlerReturn
  <1>3. NetOK(open) /\ net.closed \subseteq open.closed
    <2>1. CASE open = net
      BY <1>1, <2>1
    <2>2. CASE ~p.detached /\ p.header = <<>> /\ ~p.pass
      <3>1. HInv(net, queue, later, p, "idle", req, answered)
            /\ TokenFree(net, queue, later, p, "idle") /\ net.data = <<>>
        BY <2>2, ReturnMoves DEF HttpInv, HandlerReturn
      <3>2. HInv(StartRead(net), queue, later, p, "idle", req, answered)
        BY ONLY <3>1, StartMoves
      <3>3. NetOK(StartRead(net))
        BY <3>2 DEF HInv, Types
      <3> QED BY <1>1, <2>2, <3>3, StartGrows DEF Pause
    <2>3. open = net \/ (~p.detached /\ p.header = <<>> /\ ~p.pass)
      BY DEF Pause
    <2> QED BY <2>1, <2>2, <2>3
  <1>4. SameReplies(p, p) /\ SameReplies(p, Unref(p)) /\ ParserOK(Unref(p))
    BY <1>1, UnrefRecord DEF SameReplies, ParserOK, Unref, Fewer
  <1> HIDE DEF open
  <1>5. CASE net' = open /\ (p' = p \/ p' = Unref(p)) /\ UNCHANGED <<answered, written>>
    BY <1>2, <1>3, <1>4, <1>5, NoReplyStep DEF OtherCalls
  <1>6. CASE /\ ~answered[p.count] /\ SendReply(Unref(p), open, p.count)
             /\ answered' = [answered EXCEPT ![p.count] = TRUE]
    BY <1>1, <1>2, <1>3, <1>4, <1>6, HandlerSends
  <1> QED BY <1>2, <1>5, <1>6

LEMMA KeeperOrder ==
  ASSUME HttpInv, OrderInv, NEW n \in Ids, Keeper(n)
  PROVE  OrderInv'
  <1>1. CASE KeeperReply(n)
    <2>1. /\ ~answered[n] /\ answered' = [answered EXCEPT ![n] = TRUE]
          /\ queue' = Append(queue, [op |-> "reply", id |-> n])
          /\ UNCHANGED <<net, p, written>>
      BY <1>1 DEF KeeperReply
    <2>2. queue \in Seq(Posting) /\ answered \in [Ids -> BOOLEAN]
      BY DEF HttpInv, HInv, Types
    <2>3. Given(queue', p, answered')
      BY <2>1, <2>2, GivenCalled DEF OrderInv
    <2> QED BY <2>1, <2>3 DEF OrderInv
  <1>2. CASE KeeperDrop(n)
    <2>1. /\ queue' = Append(queue, [op |-> "detach"])
          /\ UNCHANGED <<net, p, answered, written>>
      BY <1>2 DEF KeeperDrop
    <2>2. SameReplies(p, p') /\ OtherCalls
      BY <2>1 DEF SameReplies, OtherCalls
    <2> QED BY <2>1, <2>2, NoReplyStep
  <1> QED BY <1>1, <1>2 DEF Keeper

LEMMA OrderKept == HttpInv /\ OrderInv /\ [Next]_vars => OrderInv'
  <1> SUFFICES ASSUME HttpInv, OrderInv, [Next]_vars PROVE OrderInv'
    OBVIOUS
  <1>1. CASE Network \/ \E n \in Ids : Abort(n)
    BY <1>1, NetworkOrder
  <1>2. CASE Events
    BY <1>2, EventsOrder, ReplyPostedOrder DEF Events
  <1>3. CASE Parse
    BY <1>3, ParseOrder
  <1>4. CASE Handler \/ HandlerReturn
    BY <1>4, HandlerOrder, HandlerReturnOrder
  <1>5. CASE \E n \in Ids : Keeper(n)
    BY <1>5, KeeperOrder
  <1>6. CASE UNCHANGED vars
    BY <1>6 DEF vars, OrderInv
  <1> QED BY <1>1, <1>2, <1>3, <1>4, <1>5, <1>6 DEF Next

(****************************************)
(* Replies go out in the order of the requests, each once, in whatever *)
(* order handlers and other threads give them, and a reply that was given *)
(* is written, or waits for an earlier request, or is on its way to the *)
(* parser (the conjunct RepliesInOrder of PipelineKept). *)
(****************************************)
THEOREM RepliesOrderedHolds == Spec => []RepliesInOrder
  <1>1. Init => HttpInv /\ OrderInv
    BY HttpInit, OrderBegins
  <1>2. HttpInv /\ OrderInv /\ [Next]_vars => (HttpInv /\ OrderInv)'
    BY HttpKept, OrderKept
  <1>3. HttpInv /\ OrderInv => RepliesInOrder
    BY OrderNow
  <1> QED BY <1>1, <1>2, <1>3, PTL DEF Spec

----------------------------------------
(* A socket of the event layer. *)

EndType == [watch: BOOLEAN, closed: SUBSET HardClosed, informed: SUBSET HardClosed, telling: Nat,
            unsent: BOOLEAN, closing: BOOLEAN]

(* Nobody waits for bytes of a half that is closed, and closed() is called *)
(* only when it is. *)
Sound(s) ==
  /\ s.informed \subseteq s.closed
  /\ s.watch => R \notin s.closed
  /\ s.telling > 0 => R \in s.closed

LEMMA TellIs ==
  ASSUME NEW s \in EndType, s.informed # s.closed
  PROVE  LET e == Tell(s) IN
         /\ e \in EndType /\ e.informed = s.closed /\ e.telling = s.telling + 1
         /\ e.closed = s.closed /\ e.watch = s.watch
<1> DEFINE more == s.telling + 1
           e == [s EXCEPT !.informed = s.closed, !.telling = more]
<1>1. more \in Nat
  BY DEF EndType
<1>2. Tell(s) = e
  BY DEF Tell
<1> HIDE DEF more
<1>3. e \in EndType
  BY <1>1 DEF EndType
<1>4. e.informed = s.closed /\ e.telling = more /\ e.closed = s.closed
  BY DEF EndType
<1>5. e.watch = s.watch
  BY DEF EndType
<1> HIDE DEF e
<1> QED BY <1>2, <1>3, <1>4, <1>5 DEF more

LEMMA StartReadIs ==
  ASSUME NEW s \in EndType, Sound(s)
  PROVE  LET e == StartRead(s) IN
         /\ e \in EndType /\ Sound(e) /\ e.closed = s.closed
         /\ \/ /\ R \notin s.closed /\ e.watch
               /\ e.telling = s.telling /\ e.informed = s.informed
            \/ R \in s.closed /\ e.telling = s.telling + 1 /\ ~e.watch
            \/ /\ R \in s.closed /\ ~e.watch
               /\ e.telling = s.telling /\ e.informed = s.informed /\ s.informed = s.closed
<1> DEFINE e == StartRead(s)
<1>1. CASE R \notin s.closed
  <2>1. e = [s EXCEPT !.watch = TRUE]
    BY <1>1 DEF StartRead
  <2> HIDE DEF e
  <2>2. e \in EndType /\ e.watch /\ e.closed = s.closed /\ e.telling = s.telling /\ e.informed = s.informed
    BY <2>1 DEF EndType
  <2> QED BY <2>2, <1>1 DEF Sound, e
<1>2. CASE R \in s.closed /\ s.informed # s.closed
  <2>1. e = Tell(s)
    BY <1>2 DEF StartRead
  <2> HIDE DEF e
  <2>2. /\ e \in EndType /\ e.informed = s.closed /\ e.telling = s.telling + 1
        /\ e.closed = s.closed /\ e.watch = s.watch
    BY <2>1, <1>2, TellIs
  <2> QED BY <2>2, <1>2 DEF Sound, e
<1>3. CASE R \in s.closed /\ s.informed = s.closed
  BY <1>3 DEF StartRead, Tell, Sound
<1> QED BY <1>1, <1>2, <1>3

----------------------------------------
(****************************************)
(* The redirect server.  The forwarder is always in turn: its watcher, one *)
(* closed() or one deletion.  The reader is told of its end twice at most, *)
(* by its own connection and by the forwarder; as long as no two of these *)
(* wait together it goes once, and whoever goes takes his pointer from the *)
(* other, who is told or told to write no more. *)
(****************************************)
Begun(b)   == b \in {"assign", "watch", "built"}
HasLeft(x) == x.deletes > 0 \/ x.life = "freed"
ObjType    == [life: {"none", "live", "freed"}, knows: BOOLEAN, deletes: Nat]

(* The write half is closed, or will be behind the last byte. *)
Shut(c) == W \in c.closed \/ (c.closing /\ c.unsent)

(* b how far the handler is, i and o the connections of the reader x and *)
(* the forwarder y. *)
PairTypes(b, i, o, x, y) ==
  /\ i \in EndType /\ Sound(i) /\ o \in EndType /\ Sound(o)
  /\ x \in ObjType /\ y \in ObjType
  /\ b \in {"handler", "left", "answered", "detach", "failed", "assign", "watch", "built"}

Unbuilt(b, i, o, x, y) ==
  /\ ~Begun(b) => /\ x.life = "none" /\ ~x.knows /\ x.deletes = 0
                  /\ ~i.watch /\ i.telling = 0 /\ i.informed = {}
  /\ b # "built" => ~o.watch /\ o.telling = 0 /\ o.informed = {}
  /\ b \notin {"built", "failed"} => y.deletes = 0 /\ y.life # "freed"
  /\ b \notin {"watch", "built"} => ~y.knows
  /\ b = "failed" => y.deletes + One(y.life = "freed") <= 1

OutTurn(b, o, y) ==
  b = "built" => /\ One(o.watch) + o.telling + y.deletes + One(y.life = "freed") = 1
                 /\ o.watch \/ R \in o.closed

(* v the sides that were ended, d those whose bytes were dropped. *)
Passed(b, i, o, x, y, d, v) ==
  /\ b # "failed" /\ R \in o.closed => "out" \in v \/ W \in i.closed
  /\ b \in {"watch", "built"} /\ ~y.knows => W \in i.closed
  /\ Begun(b) => /\ ~x.knows => R \in o.closed
                 /\ i.watch \/ R \in i.closed
  /\ "out" \in d => W \in i.closed
  /\ "in" \in d => o.closed # {}

ReaderTurn(b, i, x) ==
  /\ i.telling <= 1
  /\ x.deletes + One(x.life = "freed") <= 1
  /\ HasLeft(x) => i.telling = 0 /\ R \in i.closed /\ W \in i.closed

Pointers(b, i, o, x, y, m) ==
  /\ ~x.knows => HasLeft(y)
  /\ HasLeft(y) => /\ ~x.knows \/ HasLeft(x)
                   /\ Shut(i)
                   /\ "forgotten" \in m \/ HasLeft(x) \/ (W \in i.closed /\ i.telling > 0)
  /\ R \in i.closed /\ i.telling = 0 => Shut(o) \/ HasLeft(y)
  /\ y.life = "freed" => Shut(o)
  /\ b \in {"watch", "built"} => /\ HasLeft(x) => ~y.knows \/ HasLeft(y)
                                 /\ ~y.knows => HasLeft(x)

Paired(b, i, o, x, y, m) ==
  /\ "misused" \notin m
  /\ ReaderTurn(b, i, x)
  /\ Begun(b) => Pointers(b, i, o, x, y, m)

PairInv(b, i, o, x, y, d, v, m, t) ==
  /\ PairTypes(b, i, o, x, y) /\ Unbuilt(b, i, o, x, y) /\ OutTurn(b, o, y)
  /\ Passed(b, i, o, x, y, d, v)
  /\ ~t /\ "raced" \notin m => Paired(b, i, o, x, y, m)

ForwardInv ==
  /\ line \in [Sides -> EndType] /\ obj \in [Sides -> ObjType]
  /\ PairInv(building, line["in"], line["out"], obj["in"], obj["out"], dropped, over, mishap, twice)

LEMMA ForwardNow ==
  ASSUME ForwardInv
  PROVE  ForwardsToTheEnd
  <1> DEFINE i == line["in"]
             o == line["out"]
             x == obj["in"]
             y == obj["out"]
  <1>1. PairInv(building, i, o, x, y, dropped, over, mishap, twice)
    BY DEF ForwardInv
  <1>2. PairTypes(building, i, o, x, y) /\ OutTurn(building, o, y)
        /\ Passed(building, i, o, x, y, dropped, over)
        /\ (~twice /\ "raced" \notin mishap => Paired(building, i, o, x, y, mishap))
    BY <1>1 DEF PairInv
  <1>3. "misused" \in mishap => twice \/ "raced" \in mishap
    BY <1>2 DEF Paired
  <1>4. Begun(building) /\ R \in o.closed => "out" \in over \/ W \in i.closed
    BY <1>2 DEF Passed, Begun
  <1>5. "out" \in dropped => W \in i.closed
    BY <1>2 DEF Passed
  <1>6. "in" \in dropped => o.closed # {}
    BY <1>2 DEF Passed
  <1>7. ASSUME AtRest, building = "built", ~twice, "raced" \notin mishap
        PROVE  /\ R \in i.closed /\ ~Gone("in") => W \in o.closed
               /\ R \in o.closed => W \in i.closed /\ Gone("out")
               /\ Gone("out") => Gone("in") \/ "forgotten" \in mishap
    <2>1. /\ i.telling = 0 /\ o.telling = 0 /\ x.deletes = 0 /\ y.deletes = 0 /\ ~i.unsent /\ ~o.unsent
      BY <1>7 DEF AtRest, Sides
    <2>2. Pointers(building, i, o, x, y, mishap)
      BY <1>2, <1>7 DEF Paired, Begun
    <2>3. (HasLeft(x) => x.life = "freed") /\ (HasLeft(y) => y.life = "freed")
      BY <2>1 DEF HasLeft
    <2>4. (Shut(i) => W \in i.closed) /\ (Shut(o) => W \in o.closed)
      BY <2>1 DEF Shut
    <2>5. R \in o.closed => y.life = "freed"
      <3>1. R \in o.closed => ~o.watch
        BY <1>2 DEF PairTypes, Sound
      <3>2. R \in o.closed => One(y.life = "freed") = 1
        BY <1>2, <1>7, <2>1, <3>1 DEF OutTurn, One
      <3> QED BY <3>2 DEF One
    <2>6. HasLeft(y) => W \in i.closed
      BY <2>2, <2>4 DEF Pointers
    <2>7. R \in i.closed => W \in o.closed
      BY <2>1, <2>2, <2>3, <2>4 DEF Pointers
    <2>8. HasLeft(y) => x.life = "freed" \/ "forgotten" \in mishap
      BY <2>1, <2>2, <2>3 DEF Pointers
    <2>9. y.life = "freed" => HasLeft(y)
      BY DEF HasLeft
    <2> QED BY <2>5, <2>6, <2>7, <2>8, <2>9 DEF Gone
  <1> QED BY <1>3, <1>4, <1>5, <1>6, <1>7 DEF ForwardsToTheEnd, Begun

LEMMA ForwardBegins ==
  ASSUME RedirectInit
  PROVE  ForwardInv
  <1> DEFINE no == FALSE
             e == [watch |-> no, closed |-> {}, informed |-> {}, telling |-> 0,
                   unsent |-> no, closing |-> no]
             z == [life |-> "none", knows |-> no, deletes |-> 0]
  <1>0. ~no /\ no \in BOOLEAN
    OBVIOUS
  <1>1. /\ line = [s \in Sides |-> e] /\ obj = [s \in Sides |-> z]
        /\ building = "handler" /\ mishap = {} /\ ~twice /\ dropped = {} /\ over = {}
    BY DEF RedirectInit, NewEnd
  <1> HIDE DEF no
  <1>2. /\ e \in EndType /\ z \in ObjType /\ e.watch = no /\ e.closed = {} /\ e.informed = {}
        /\ e.telling = 0 /\ z.life = "none" /\ z.knows = no /\ z.deletes = 0
    BY <1>0 DEF EndType, ObjType
  <1> HIDE DEF e, z
  <1>3. line["in"] = e /\ line["out"] = e /\ obj["in"] = z /\ obj["out"] = z
    BY <1>1 DEF Sides
  <1>4. line \in [Sides -> EndType] /\ obj \in [Sides -> ObjType]
    BY <1>1, <1>2
  <1>5. Sound(e)
    BY <1>0, <1>2 DEF Sound
  <1>6. PairTypes("handler", e, e, z, z)
    BY <1>2, <1>5 DEF PairTypes
  <1>7. Unbuilt("handler", e, e, z, z) /\ OutTurn("handler", e, z)
    BY <1>0, <1>2 DEF Unbuilt, Begun, OutTurn
  <1>8. Passed("handler", e, e, z, z, {}, {})
    BY <1>2 DEF Passed, Begun
  <1>9. Paired("handler", e, e, z, z, {})
    BY <1>0, <1>2 DEF Paired, Begun, ReaderTurn, HasLeft, One
  <1>10. PairInv("handler", e, e, z, z, {}, {}, mishap, twice)
    BY <1>1, <1>6, <1>7, <1>8, <1>9 DEF PairInv
  <1> QED BY <1>1, <1>3, <1>4, <1>10 DEF ForwardInv

----------------------------------------
(* What happens to a connection. *)
LEMMA CloseNowIs ==
  ASSUME NEW s \in EndType, Sound(s), NEW type \in SUBSET HardClosed, NEW notify \in BOOLEAN,
         notify => R \in s.closed \cup type
  PROVE  LET e == CloseNow(s, type, notify) IN
         /\ e \in EndType /\ Sound(e) /\ e.closed = s.closed \cup type
         /\ e.watch = (s.watch /\ R \notin type) /\ e.unsent = s.unsent /\ e.closing = s.closing
         /\ IF (s.watch /\ R \in type) \/ (notify /\ e.closed # s.closed)
              THEN e.telling = s.telling + 1
              ELSE e.telling = s.telling /\ e.informed = s.informed
  <1> DEFINE cl == s.closed \cup type
             wt == s.watch /\ R \notin type
             f  == [s EXCEPT !.closed = cl, !.watch = wt]
             e  == CloseNow(s, type, notify)
             y  == [watch |-> wt, closed |-> cl, informed |-> s.informed, telling |-> s.telling,
                    unsent |-> s.unsent, closing |-> s.closing]
             more == s.telling + 1
             z  == [watch |-> wt, closed |-> cl, informed |-> cl, telling |-> more,
                    unsent |-> s.unsent, closing |-> s.closing]
  <1>1. cl \in SUBSET HardClosed /\ wt \in BOOLEAN /\ s.informed \subseteq cl /\ s.telling \in Nat
        /\ more \in Nat
    BY DEF EndType, Sound
  <1>2. e = IF f.closed # s.closed /\ (notify \/ f.watch # s.watch) THEN Tell(f) ELSE f
    BY DEF CloseNow
  <1>3. s = [watch |-> s.watch, closed |-> s.closed, informed |-> s.informed, telling |-> s.telling,
             unsent |-> s.unsent, closing |-> s.closing]
        /\ s.watch \in BOOLEAN /\ s.unsent \in BOOLEAN /\ s.closing \in BOOLEAN
    BY DEF EndType
  <1>w. wt = (s.watch /\ R \notin type)
    OBVIOUS
  <1> HIDE DEF cl, wt, e, more
  <1>4. f = y
    <2> DEFINE g == [s EXCEPT !.closed = cl]
    <2>1. g = [watch |-> s.watch, closed |-> cl, informed |-> s.informed, telling |-> s.telling,
               unsent |-> s.unsent, closing |-> s.closing]
      BY <1>3
    <2>2. f = [g EXCEPT !.watch = wt]
      OBVIOUS
    <2> HIDE DEF g, f
    <2>3. [g EXCEPT !.watch = wt] = y
      BY ONLY <2>1 DEF y
    <2> QED BY ONLY <2>2, <2>3
  <1>5. /\ y.watch = wt /\ y.closed = cl /\ y.informed = s.informed /\ y.telling = s.telling
        /\ y.unsent = s.unsent /\ y.closing = s.closing /\ y \in EndType
    BY <1>1, <1>3 DEF EndType
  <1>6. /\ z.watch = wt /\ z.closed = cl /\ z.informed = cl /\ z.telling = more
        /\ z.unsent = s.unsent /\ z.closing = s.closing /\ z \in EndType
    BY <1>1, <1>3 DEF EndType
  <1>7. y.informed # y.closed => Tell(y) = z
    <2> DEFINE g == [y EXCEPT !.informed = cl]
               h == [g EXCEPT !.telling = more]
    <2>1. y.telling + 1 = more
      BY <1>5 DEF more
    <2>2. g = [watch |-> wt, closed |-> cl, informed |-> cl, telling |-> s.telling,
               unsent |-> s.unsent, closing |-> s.closing]
      OBVIOUS
    <2>3. y.informed # y.closed => Tell(y) = [y EXCEPT !.informed = cl, !.telling = more]
      BY <1>5, <2>1 DEF Tell
    <2>4. [y EXCEPT !.informed = cl, !.telling = more] = h
      OBVIOUS
    <2> HIDE DEF g
    <2>5. h = z
      BY <2>2
    <2> QED BY <2>3, <2>4, <2>5
  <1>8. e = IF y.closed # s.closed /\ (notify \/ y.watch # s.watch) THEN Tell(y) ELSE y
    BY <1>2, <1>4
  <1>9. Sound(y)
    <2>1. wt => R \notin cl
      BY <1>w DEF Sound, cl
    <2>2. s.telling > 0 => R \in cl
      BY DEF Sound, cl
    <2> QED BY <1>1, <1>5, <2>1, <2>2 DEF Sound
  <1> HIDE DEF f, y, z
  <1>10. CASE cl # s.closed /\ (notify \/ wt # s.watch)
    <2>1. y.informed # y.closed
      <3>1. s.informed \subseteq s.closed /\ s.closed \subseteq cl
        BY DEF Sound, cl
      <3> QED BY <1>5, <1>10, <3>1
    <2>2. e = z
      BY <1>5, <1>7, <1>8, <1>10, <2>1
    <2>3. R \in cl /\ ~wt
      <3>1. wt # s.watch => s.watch /\ R \in type
        BY <1>1, <1>3, <1>w
      <3>2. R \in cl
        BY <1>10, <3>1 DEF cl
      <3>3. wt => R \notin cl
        BY <1>5, <1>9 DEF Sound
      <3> QED BY <3>2, <3>3
    <2>4. Sound(z)
      BY <1>6, <2>3 DEF Sound
    <2>5. (s.watch /\ R \in type) \/ (notify /\ e.closed # s.closed)
      BY <1>1, <1>3, <1>6, <1>w, <1>10, <2>2
    <2> QED BY <1>6, <1>w, <2>2, <2>4, <2>5 DEF e, cl, more
  <1>11. CASE ~(cl # s.closed /\ (notify \/ wt # s.watch))
    <2>1. e = y
      BY <1>5, <1>8, <1>11
    <2>2. ~((s.watch /\ R \in type) \/ (notify /\ e.closed # s.closed))
      <3>1. s.watch /\ R \in type => cl # s.closed /\ wt # s.watch
        BY <1>w DEF Sound, cl
      <3> QED BY <1>5, <1>11, <2>1, <3>1
    <2> QED BY <1>5, <1>9, <1>w, <2>1, <2>2 DEF e, cl
  <1> QED BY <1>10, <1>11

(* A half closes or a byte leaves; who waits for bytes is told. *)
Moves(s, e) ==
  /\ e \in EndType /\ Sound(e) /\ s.closed \subseteq e.closed /\ (Shut(s) => Shut(e))
  /\ \/ e.watch = s.watch /\ e.telling = s.telling /\ e.informed = s.informed
     \/ s.watch /\ ~e.watch /\ R \in e.closed /\ e.telling = s.telling + 1

LEMMA NowMoves ==
  ASSUME NEW s \in EndType, Sound(s), NEW type \in SUBSET HardClosed
  PROVE  Moves(s, CloseNow(s, type, FALSE))
  <1> DEFINE no == FALSE
             e == CloseNow(s, type, no)
  <1>1. no \in BOOLEAN /\ ~no
    OBVIOUS
  <1> HIDE DEF no
  <1>2. /\ e \in EndType /\ Sound(e) /\ e.closed = s.closed \cup type
        /\ e.watch = (s.watch /\ R \notin type) /\ e.unsent = s.unsent /\ e.closing = s.closing
        /\ IF (s.watch /\ R \in type) \/ (no /\ e.closed # s.closed)
             THEN e.telling = s.telling + 1
             ELSE e.telling = s.telling /\ e.informed = s.informed
    BY <1>1, CloseNowIs
  <1> HIDE DEF e
  <1>3. Shut(s) => Shut(e)
    BY <1>2 DEF Shut
  <1>4. Moves(s, e)
    <2>1. CASE s.watch /\ R \in type
      BY <1>2, <1>3, <2>1 DEF Moves
    <2>2. CASE ~(s.watch /\ R \in type)
      <3>1. e.telling = s.telling /\ e.informed = s.informed
        BY <1>1, <1>2, <2>2
      <3>2. e.watch = s.watch
        BY <1>2, <2>2 DEF EndType
      <3> QED BY <1>2, <1>3, <3>1, <3>2 DEF Moves
    <2> QED BY <2>1, <2>2
  <1> QED BY <1>4 DEF e, no

(* What does not concern the callbacks. *)
LEMMA BytesMove ==
  ASSUME NEW s \in EndType, Sound(s)
  PROVE  /\ Moves(s, Write(s)) /\ Write(s).closed = s.closed
         /\ LET u == [s EXCEPT !.closing = TRUE] IN
            u \in EndType /\ Sound(u) /\ u.closed = s.closed /\ u.watch = s.watch
              /\ u.telling = s.telling /\ u.informed = s.informed /\ u.unsent = s.unsent /\ u.closing
         /\ LET u == [s EXCEPT !.unsent = FALSE] IN
            u \in EndType /\ Sound(u) /\ u.closed = s.closed /\ u.watch = s.watch
              /\ u.telling = s.telling /\ u.informed = s.informed /\ u.closing = s.closing
         /\ LET u == [s EXCEPT !.watch = FALSE] IN
            u \in EndType /\ Sound(u) /\ u.closed = s.closed /\ ~u.watch
              /\ u.telling = s.telling /\ u.informed = s.informed
              /\ u.closing = s.closing /\ u.unsent = s.unsent
  <1> DEFINE yes == TRUE
             no == FALSE
             more == W \notin s.closed
             w == [s EXCEPT !.unsent = more]
             u1 == [s EXCEPT !.closing = yes]
             u2 == [s EXCEPT !.unsent = no]
             u3 == [s EXCEPT !.watch = no]
  <1>1. yes /\ yes \in BOOLEAN /\ ~no /\ no \in BOOLEAN /\ more \in BOOLEAN
    OBVIOUS
  <1>2. Write(s) = w
    BY DEF Write
  <1>m. more = (W \notin s.closed)
    OBVIOUS
  <1> HIDE DEF yes, no, more
  <1>3. /\ w \in EndType /\ w.closed = s.closed /\ w.watch = s.watch /\ w.telling = s.telling
        /\ w.informed = s.informed /\ w.closing = s.closing /\ w.unsent = more
    BY <1>1 DEF EndType
  <1>4. /\ u1 \in EndType /\ u1.closed = s.closed /\ u1.watch = s.watch /\ u1.telling = s.telling
        /\ u1.informed = s.informed /\ u1.unsent = s.unsent /\ u1.closing = yes
    BY <1>1 DEF EndType
  <1>5. /\ u2 \in EndType /\ u2.closed = s.closed /\ u2.watch = s.watch /\ u2.telling = s.telling
        /\ u2.informed = s.informed /\ u2.closing = s.closing
    BY <1>1 DEF EndType
  <1>6. /\ u3 \in EndType /\ u3.closed = s.closed /\ u3.watch = no /\ u3.telling = s.telling
        /\ u3.informed = s.informed /\ u3.closing = s.closing /\ u3.unsent = s.unsent
    BY <1>1 DEF EndType
  <1> HIDE DEF w, u1, u2, u3
  <1>7. Sound(w) /\ Sound(u1) /\ Sound(u2)
    BY <1>3, <1>4, <1>5 DEF Sound
  <1>8. Sound(u3) /\ ~u3.watch
    BY <1>1, <1>6 DEF Sound
  <1>9. Shut(s) => Shut(w)
    BY <1>3, <1>m DEF Shut
  <1>10. Moves(s, w)
    BY <1>3, <1>7, <1>9 DEF Moves
  <1>11. u1.closing
    BY <1>1, <1>4
  <1> QED BY <1>2, <1>3, <1>4, <1>5, <1>6, <1>7, <1>8, <1>10, <1>11 DEF u1, u2, u3, yes, no

LEMMA DrainMoves ==
  ASSUME NEW s \in EndType, Sound(s)
  PROVE  /\ W \notin s.closed /\ s.unsent => Moves(s, Sent(s))
         /\ Moves(s, Unsent(s, {W})) /\ Moves(s, Unsent(s, HardClosed))
  <1> DEFINE u == [s EXCEPT !.unsent = FALSE]
  <1>1. /\ u \in EndType /\ Sound(u) /\ u.closed = s.closed /\ u.watch = s.watch
        /\ u.telling = s.telling /\ u.informed = s.informed /\ u.closing = s.closing
    BY BytesMove
  <1>2. /\ Sent(s) = IF s.closing THEN CloseNow(u, {W}, FALSE) ELSE u
        /\ Unsent(s, {W}) = CloseNow(u, {W}, FALSE)
        /\ Unsent(s, HardClosed) = CloseNow(u, HardClosed, FALSE)
    BY DEF Sent, Unsent
  <1> HIDE DEF u
  <1>3. ASSUME NEW type \in SUBSET HardClosed, W \in type
        PROVE  Moves(s, CloseNow(u, type, FALSE))
    <2> DEFINE e == CloseNow(u, type, FALSE)
    <2>1. Moves(u, e)
      BY ONLY <1>1, <1>3, NowMoves
    <2>2. e.closed = u.closed \cup type
      BY ONLY <1>1, <1>3, CloseNowIs, FALSE \in BOOLEAN
    <2> HIDE DEF e
    <2>3. Shut(e)
      BY <1>3, <2>2 DEF Shut
    <2> QED BY <1>1, <2>1, <2>3 DEF Moves, e
  <1>4. {W} \in SUBSET HardClosed /\ HardClosed \in SUBSET HardClosed /\ W \in HardClosed
    BY DEF HardClosed
  <1>5. Moves(s, CloseNow(u, {W}, FALSE)) /\ Moves(s, CloseNow(u, HardClosed, FALSE))
    BY <1>3, <1>4
  <1>6. W \notin s.closed /\ ~s.closing => Moves(s, u)
    BY <1>1 DEF Moves, Shut
  <1> QED BY <1>2, <1>5, <1>6

(* A close that waits for the bytes that are written. *)
LEMMA GentlyIs ==
  ASSUME NEW s \in EndType, Sound(s), NEW type \in {ReadWriteClosed, {W}}, NEW notify \in BOOLEAN,
         notify => R \in type
  PROVE  LET e == CloseGently(s, type, notify) IN
         /\ e \in EndType /\ Sound(e) /\ s.closed \subseteq e.closed /\ Shut(e)
         /\ e.closed \subseteq s.closed \cup type /\ (R \in type => R \in e.closed)
         /\ e.watch = (s.watch /\ R \notin type)
         /\ IF (s.watch /\ R \in type) \/ (notify /\ e.closed # s.closed)
              THEN e.telling = s.telling + 1
              ELSE e.telling = s.telling /\ e.informed = s.informed
  <1> DEFINE u == [s EXCEPT !.closing = TRUE]
             e == CloseGently(s, type, notify)
             less == type \ {W}
             waits == s.unsent /\ W \in type \ s.closed /\ s.closed \cup type # HardClosed
  <1>1. /\ u \in EndType /\ Sound(u) /\ u.closed = s.closed /\ u.watch = s.watch
        /\ u.telling = s.telling /\ u.informed = s.informed /\ u.unsent = s.unsent /\ u.closing
    BY BytesMove
  <1>2. e = IF waits THEN CloseNow(u, less, notify) ELSE CloseNow(s, type, notify)
    BY DEF CloseGently
  <1>3. /\ type \in SUBSET HardClosed /\ less \in SUBSET HardClosed /\ W \in type
        /\ (R \in less <=> R \in type) /\ less \subseteq type
    BY DEF ReadWriteClosed, HardClosed, R, W
  <1>w. waits => s.unsent
    OBVIOUS
  <1> HIDE DEF u, e, less, waits
  <1>4. CASE waits
    <2>1. e = CloseNow(u, less, notify)
      BY <1>2, <1>4
    <2>2. /\ e \in EndType /\ Sound(e) /\ e.closed = u.closed \cup less
          /\ e.watch = (u.watch /\ R \notin less) /\ e.unsent = u.unsent /\ e.closing = u.closing
          /\ IF (u.watch /\ R \in less) \/ (notify /\ e.closed # u.closed)
               THEN e.telling = u.telling + 1
               ELSE e.telling = u.telling /\ e.informed = u.informed
      <3>1. notify \in BOOLEAN /\ (notify => R \in u.closed \cup less)
        BY <1>3
      <3>2. LET f == CloseNow(u, less, notify) IN
            /\ f \in EndType /\ Sound(f) /\ f.closed = u.closed \cup less
            /\ f.watch = (u.watch /\ R \notin less) /\ f.unsent = u.unsent /\ f.closing = u.closing
            /\ IF (u.watch /\ R \in less) \/ (notify /\ f.closed # u.closed)
                 THEN f.telling = u.telling + 1
                 ELSE f.telling = u.telling /\ f.informed = u.informed
        <4>1. u \in EndType /\ Sound(u) /\ less \in SUBSET HardClosed
          BY <1>1, <1>3
        <4> QED BY ONLY <3>1, <4>1, CloseNowIs
      <3> QED BY <2>1, <3>2
    <2>3. Shut(e)
      BY <1>1, <1>4, <1>w, <2>2 DEF Shut
    <2>4. e.watch = (s.watch /\ R \notin type)
      BY <1>1, <1>3, <2>2
    <2>5. /\ s.closed \subseteq e.closed /\ e.closed \subseteq s.closed \cup type
          /\ (R \in type => R \in e.closed)
      BY <1>1, <1>3, <2>2
    <2>6. IF (s.watch /\ R \in type) \/ (notify /\ e.closed # s.closed)
            THEN e.telling = s.telling + 1
            ELSE e.telling = s.telling /\ e.informed = s.informed
      BY <1>1, <1>3, <2>2
    <2> QED BY <2>2, <2>3, <2>4, <2>5, <2>6 DEF e
  <1>5. CASE ~waits
    <2>1. e = CloseNow(s, type, notify)
      BY <1>2, <1>5
    <2>2. /\ e \in EndType /\ Sound(e) /\ e.closed = s.closed \cup type
          /\ e.watch = (s.watch /\ R \notin type) /\ e.unsent = s.unsent /\ e.closing = s.closing
          /\ IF (s.watch /\ R \in type) \/ (notify /\ e.closed # s.closed)
               THEN e.telling = s.telling + 1
               ELSE e.telling = s.telling /\ e.informed = s.informed
      BY <1>3, <2>1, CloseNowIs
    <2>3. Shut(e)
      BY <1>3, <2>2 DEF Shut
    <2> QED BY <2>2, <2>3 DEF e
  <1> QED BY <1>4, <1>5

LEMMA GentlyMoves ==
  ASSUME NEW s \in EndType, Sound(s), NEW type \in {ReadWriteClosed, {W}}
  PROVE  LET e == CloseGently(s, type, FALSE) IN
         Moves(s, e) /\ Shut(e) /\ (R \in type => R \in e.closed) /\ e.closed \subseteq s.closed \cup type
  <1> DEFINE no == FALSE
             e == CloseGently(s, type, no)
  <1>1. no \in BOOLEAN /\ ~no
    OBVIOUS
  <1> HIDE DEF no
  <1>2. /\ e \in EndType /\ Sound(e) /\ s.closed \subseteq e.closed /\ Shut(e)
        /\ e.closed \subseteq s.closed \cup type /\ (R \in type => R \in e.closed)
        /\ e.watch = (s.watch /\ R \notin type)
        /\ IF (s.watch /\ R \in type) \/ (no /\ e.closed # s.closed)
             THEN e.telling = s.telling + 1
             ELSE e.telling = s.telling /\ e.informed = s.informed
    BY <1>1, GentlyIs
  <1> HIDE DEF e
  <1>3. CASE s.watch /\ R \in type
    BY <1>2, <1>3 DEF Moves, e, no
  <1>4. CASE ~(s.watch /\ R \in type)
    <2>1. e.telling = s.telling /\ e.informed = s.informed
      BY <1>1, <1>2, <1>4
    <2>2. e.watch = s.watch
      BY <1>2, <1>4 DEF EndType
    <2>3. Moves(s, e)
      BY <1>2, <2>1, <2>2 DEF Moves
    <2> QED BY <1>2, <2>3 DEF e, no
  <1> QED BY <1>3, <1>4

LEMMA WatchIs ==
  ASSUME NEW s \in EndType, Sound(s), s.informed = {}
  PROVE  LET e == StartRead(s) IN
         /\ e \in EndType /\ Sound(e) /\ e.closed = s.closed /\ (Shut(s) => Shut(e))
         /\ IF R \in s.closed THEN e.telling = s.telling + 1 /\ ~e.watch
            ELSE e.telling = s.telling /\ e.watch
  <1> DEFINE e == StartRead(s)
  <1>1. /\ e \in EndType /\ Sound(e) /\ e.closed = s.closed
        /\ \/ R \notin s.closed /\ e.watch /\ e.telling = s.telling
           \/ R \in s.closed /\ e.telling = s.telling + 1 /\ ~e.watch
           \/ R \in s.closed /\ s.informed = s.closed
    BY StartReadIs
  <1>2. Shut(s) => Shut(e)
    BY DEF EndType, StartRead, Tell, Shut
  <1> HIDE DEF e
  <1>3. R \in s.closed => s.informed # s.closed
    OBVIOUS
  <1>4. IF R \in s.closed THEN e.telling = s.telling + 1 /\ ~e.watch
        ELSE e.telling = s.telling /\ e.watch
    BY <1>1, <1>3
  <1> QED BY <1>1, <1>2, <1>4 DEF e

----------------------------------------
(* Halves close and bytes leave on both connections. *)
LEMMA LinesMove ==
  ASSUME NEW b, NEW i, NEW o, NEW x, NEW y, NEW d, NEW v, NEW m, NEW t,
         PairInv(b, i, o, x, y, d, v, m, t),
         NEW j, Moves(i, j), NEW q, Moves(o, q), NEW u, v \subseteq u,
         R \in q.closed => R \in o.closed \/ "out" \in u \/ W \in j.closed,
         NEW tt, ~tt => ~t /\ ~(j.telling > 1)
  PROVE  PairInv(b, j, q, x, y, d, u, m, tt)
  <1>1. PairTypes(b, i, o, x, y) /\ Unbuilt(b, i, o, x, y) /\ OutTurn(b, o, y)
        /\ Passed(b, i, o, x, y, d, v)
    BY DEF PairInv
  <1>2. i \in EndType /\ Sound(i) /\ o \in EndType /\ Sound(o) /\ x \in ObjType /\ y \in ObjType
    BY <1>1 DEF PairTypes
  <1>3. /\ i.telling \in Nat /\ o.telling \in Nat /\ y.deletes \in Nat
        /\ i.watch \in BOOLEAN /\ o.watch \in BOOLEAN
    BY <1>2 DEF EndType, ObjType
  <1>4. PairTypes(b, j, q, x, y)
    BY <1>1 DEF PairTypes, Moves
  <1>5. Unbuilt(b, j, q, x, y)
    <2>1. ~Begun(b) => ~j.watch /\ j.telling = 0 /\ j.informed = {}
      BY <1>1 DEF Unbuilt, Moves
    <2>2. b # "built" => ~q.watch /\ q.telling = 0 /\ q.informed = {}
      BY <1>1 DEF Unbuilt, Moves
    <2> QED BY <1>1, <2>1, <2>2 DEF Unbuilt
  <1>6. OutTurn(b, q, y)
    <2> SUFFICES ASSUME b = "built"
                 PROVE  /\ One(q.watch) + q.telling + y.deletes + One(y.life = "freed") = 1
                        /\ q.watch \/ R \in q.closed
      BY DEF OutTurn
    <2>1. One(o.watch) + o.telling + y.deletes + One(y.life = "freed") = 1
          /\ (o.watch \/ R \in o.closed)
      BY <1>1 DEF OutTurn
    <2>2. One(q.watch) + q.telling = One(o.watch) + o.telling
      BY <1>3 DEF Moves, One
    <2>3. One(y.life = "freed") \in Nat /\ One(o.watch) \in Nat /\ One(q.watch) \in Nat /\ q.telling \in Nat
      BY DEF One, Moves, EndType
    <2>4. q.watch \/ R \in q.closed
      BY <2>1 DEF Moves
    <2> QED BY <1>3, <2>1, <2>2, <2>3, <2>4
  <1>7. Passed(b, j, q, x, y, d, u)
    <2>1. Begun(b) => j.watch \/ R \in j.closed
      BY <1>1 DEF Passed, Moves
    <2>2. i.closed \subseteq j.closed /\ o.closed \subseteq q.closed
      BY DEF Moves
    <2>3. b # "failed" /\ R \in q.closed => "out" \in u \/ W \in j.closed
      BY <1>1, <2>2 DEF Passed
    <2>4. "in" \in d => q.closed # {}
      BY <1>1, <2>2 DEF Passed
    <2> QED BY <1>1, <2>1, <2>2, <2>3, <2>4 DEF Passed
  <1>8. ASSUME ~tt, "raced" \notin m PROVE Paired(b, j, q, x, y, m)
    <2>1. Paired(b, i, o, x, y, m) /\ j.telling <= 1
      BY <1>8 DEF PairInv, Moves, EndType
    <2>2. ReaderTurn(b, j, x)
      <3>1. HasLeft(x) => j.telling = 0 /\ R \in j.closed /\ W \in j.closed
        <4>1. HasLeft(x) => i.telling = 0 /\ R \in i.closed /\ W \in i.closed
          BY <2>1 DEF Paired, ReaderTurn
        <4>2. R \in i.closed => ~i.watch
          BY <1>2 DEF Sound
        <4> QED BY <4>1, <4>2 DEF Moves
      <3> QED BY <2>1, <3>1 DEF Paired, ReaderTurn
    <2>3. ASSUME Begun(b) PROVE Pointers(b, j, q, x, y, m)
      <3>1. Pointers(b, i, o, x, y, m)
        BY <2>1, <2>3 DEF Paired
      <3>2. (Shut(i) => Shut(j)) /\ (Shut(o) => Shut(q))
        BY DEF Moves
      <3>3. W \in i.closed /\ i.telling > 0 => W \in j.closed /\ j.telling > 0
        BY <1>3 DEF Moves
      <3>4. R \in j.closed /\ j.telling = 0 => R \in i.closed /\ i.telling = 0
        <4>1. i.watch \/ R \in i.closed
          BY <1>1, <2>3 DEF Passed
        <4> QED BY <1>3, <4>1 DEF Moves, Sound
      <3> QED BY <3>1, <3>2, <3>3, <3>4 DEF Pointers
    <2> QED BY <2>1, <2>2, <2>3 DEF Paired
  <1> QED BY <1>4, <1>5, <1>6, <1>7, <1>8 DEF PairInv

LEMMA StandStill ==
  ASSUME NEW s \in EndType, Sound(s)
  PROVE  Moves(s, s)
  BY DEF Moves

(* What is known before a step, and what has to be shown of it. *)
LEMMA PairNow ==
  ASSUME ForwardInv
  PROVE  /\ PairInv(building, line["in"], line["out"], obj["in"], obj["out"], dropped, over, mishap, twice)
         /\ PairTypes(building, line["in"], line["out"], obj["in"], obj["out"])
         /\ Unbuilt(building, line["in"], line["out"], obj["in"], obj["out"])
         /\ OutTurn(building, line["out"], obj["out"])
         /\ Passed(building, line["in"], line["out"], obj["in"], obj["out"], dropped, over)
         /\ \A s \in Sides : line[s] \in EndType /\ Sound(line[s]) /\ obj[s] \in ObjType
                               /\ line[s].telling \in Nat /\ obj[s].deletes \in Nat
                               /\ line[s].watch \in BOOLEAN /\ obj[s].knows \in BOOLEAN
  <1>1. PairInv(building, line["in"], line["out"], obj["in"], obj["out"], dropped, over, mishap, twice)
    BY DEF ForwardInv
  <1>2. PairTypes(building, line["in"], line["out"], obj["in"], obj["out"])
    BY <1>1 DEF PairInv
  <1>3. \A s \in Sides : line[s] \in EndType /\ Sound(line[s]) /\ obj[s] \in ObjType
    BY <1>2 DEF PairTypes, Sides
  <1>4. \A s \in Sides : /\ line[s].telling \in Nat /\ obj[s].deletes \in Nat
                         /\ line[s].watch \in BOOLEAN /\ obj[s].knows \in BOOLEAN
    BY <1>3 DEF EndType, ObjType
  <1> QED BY <1>1, <1>2, <1>3, <1>4 DEF PairInv

LEMMA OnLines ==
  ASSUME ForwardInv, NEW e \in EndType, NEW s \in Sides, line' = [line EXCEPT ![s] = e]
  PROVE  /\ line' \in [Sides -> EndType] /\ line'[s] = e
         /\ \A r \in Sides : r # s => line'[r] = line[r]
  BY DEF ForwardInv

LEMMA OnObjects ==
  ASSUME ForwardInv, NEW e \in ObjType, NEW s \in Sides, obj' = [obj EXCEPT ![s] = e]
  PROVE  /\ obj' \in [Sides -> ObjType] /\ obj'[s] = e
         /\ \A r \in Sides : r # s => obj'[r] = obj[r]
  BY DEF ForwardInv

----------------------------------------
(* The sockets. *)
LEMMA SocketKeeps ==
  ASSUME ForwardInv, NEW s \in Sides, NEW e, Moves(line[s], e), Socket(s, e),
         NEW tt, ~tt => ~twice /\ ~(line'["in"].telling > 1)
  PROVE  /\ line' \in [Sides -> EndType] /\ obj' \in [Sides -> ObjType]
         /\ PairInv(building', line'["in"], line'["out"], obj'["in"], obj'["out"], dropped', over', mishap', tt)
  <1>1. /\ line' = [line EXCEPT ![s] = e]
        /\ over' = IF R \in e.closed \ line[s].closed THEN over \cup {s} ELSE over
        /\ building' = building /\ obj' = obj /\ mishap' = mishap /\ dropped' = dropped
    BY DEF Socket
  <1>2. e \in EndType
    BY DEF Moves
  <1>3. /\ line' \in [Sides -> EndType] /\ line'[s] = e
        /\ \A r \in Sides : r # s => line'[r] = line[r]
    BY <1>1, <1>2, OnLines
  <1>4. "in" \in Sides /\ "out" \in Sides /\ (s = "in" \/ s = "out")
    BY DEF Sides
  <1>5. Moves(line["in"], line'["in"]) /\ Moves(line["out"], line'["out"])
    BY <1>3, <1>4, PairNow, StandStill
  <1>6. over \subseteq over'
    BY <1>1
  <1>7. R \in line'["out"].closed => R \in line["out"].closed \/ "out" \in over'
    BY <1>1, <1>3, <1>4
  <1>8. PairInv(building, line'["in"], line'["out"], obj["in"], obj["out"], dropped, over', mishap, tt)
    BY <1>5, <1>6, <1>7, PairNow, LinesMove
  <1>9. obj \in [Sides -> ObjType]
    BY DEF ForwardInv
  <1> QED BY <1>1, <1>3, <1>8, <1>9

LEMMA SocketsKeep ==
  ASSUME ForwardInv, NEW s \in Sides, PeerEnds(s) \/ PeerResets(s) \/ Drain(s),
         ~twice' => ~twice /\ ~(line'["in"].telling > 1)
  PROVE  ForwardInv'
  <1>1. line[s] \in EndType /\ Sound(line[s])
    BY PairNow
  <1>2. {R} \in SUBSET HardClosed /\ HardClosed \in SUBSET HardClosed
    BY DEF HardClosed
  <1>3. \E e : Moves(line[s], e) /\ Socket(s, e)
    <2>1. CASE PeerEnds(s)
      BY <1>1, <1>2, <2>1, NowMoves DEF PeerEnds, Close
    <2>2. CASE PeerResets(s)
      BY <1>1, <1>2, <2>2, NowMoves DEF PeerResets, Close
    <2>3. CASE Drain(s)
      <3>1. \E e \in {Sent(line[s]), Unsent(line[s], {W}), Unsent(line[s], HardClosed)} : Socket(s, e)
        BY <2>3 DEF Drain
      <3>2. W \notin line[s].closed /\ line[s].unsent
        BY <2>3 DEF Drain
      <3> QED BY <1>1, <3>1, <3>2, DrainMoves
    <2> QED BY <2>1, <2>2, <2>3
  <1> QED BY <1>3, SocketKeeps DEF ForwardInv

LEMMA ManagerStopsKeeps ==
  ASSUME ForwardInv, ManagerStops, ~twice' => ~twice /\ ~(line'["in"].telling > 1)
  PROVE  ForwardInv'
  <1>1. /\ line' = [s \in Sides |-> Close(line[s], HardClosed)] /\ over' = Sides
        /\ building' = building /\ obj' = obj /\ mishap' = mishap /\ dropped' = dropped
    BY DEF ManagerStops
  <1>2. HardClosed \in SUBSET HardClosed
    OBVIOUS
  <1>3. \A s \in Sides : Moves(line[s], line'[s])
    BY <1>1, <1>2, PairNow, NowMoves DEF Close
  <1>4. "in" \in Sides /\ "out" \in Sides
    BY DEF Sides
  <1>5. line' \in [Sides -> EndType]
    <2>1. \A s \in Sides : Close(line[s], HardClosed) \in EndType
      BY <1>1, <1>3 DEF Moves
    <2> QED BY <1>1, <2>1
  <1>6. PairInv(building, line["in"], line["out"], obj["in"], obj["out"], dropped, Sides, mishap, twice)
    <2>1. Passed(building, line["in"], line["out"], obj["in"], obj["out"], dropped, Sides)
      BY <1>4, PairNow DEF Passed
    <2> QED BY <2>1, PairNow DEF PairInv
  <1>7. PairInv(building, line'["in"], line'["out"], obj["in"], obj["out"], dropped, Sides, mishap, twice')
    BY <1>3, <1>4, <1>6, LinesMove
  <1>8. obj \in [Sides -> ObjType]
    BY DEF ForwardInv
  <1> QED BY <1>1, <1>5, <1>7, <1>8 DEF ForwardInv
----------------------------------------
(* The handler. *)
LEMMA HandleRequestKeeps ==
  ASSUME ForwardInv, HandleRequest, ~twice' => ~twice /\ ~(line'["in"].telling > 1)
  PROVE  ForwardInv'
  <1> DEFINE i == line["in"]
             o == line["out"]
             x == obj["in"]
             y == obj["out"]
  <1>1. /\ building = "handler" /\ building' \in {"left", "answered"}
        /\ line' = line /\ obj' = obj /\ mishap' = mishap /\ dropped' = dropped /\ over' = over
    BY DEF HandleRequest, Ends
  <1>2. /\ PairInv(building, i, o, x, y, dropped, over, mishap, twice)
        /\ PairTypes(building, i, o, x, y) /\ Unbuilt(building, i, o, x, y)
        /\ Passed(building, i, o, x, y, dropped, over)
    BY PairNow
  <1>3. /\ line \in [Sides -> EndType] /\ obj \in [Sides -> ObjType]
    BY DEF ForwardInv
  <1> HIDE DEF i, o, x, y
  <1>4. PairTypes(building', i, o, x, y) /\ Unbuilt(building', i, o, x, y) /\ OutTurn(building', o, y)
    BY <1>1, <1>2 DEF PairTypes, Unbuilt, Begun, OutTurn
  <1>5. Passed(building', i, o, x, y, dropped, over)
    BY <1>1, <1>2 DEF Passed, Begun
  <1>6. ~twice' /\ "raced" \notin mishap => Paired(building', i, o, x, y, mishap)
    <2>1. ~twice' /\ "raced" \notin mishap => Paired(building, i, o, x, y, mishap)
      BY <1>2 DEF PairInv
    <2> QED BY <1>1, <2>1 DEF Paired, Begun, ReaderTurn
  <1>7. PairInv(building', i, o, x, y, dropped, over, mishap, twice')
    BY <1>4, <1>5, <1>6 DEF PairInv
  <1> QED BY <1>1, <1>3, <1>7 DEF ForwardInv, i, o, x, y

LEMMA NewForwarderKeeps ==
  ASSUME ForwardInv, NewForwarder, ~twice' => ~twice /\ ~(line'["in"].telling > 1)
  PROVE  ForwardInv'
  <1> DEFINE i == line["in"]
             o == line["out"]
             x == obj["in"]
             y == obj["out"]
             q == Write(o)
             z == [y EXCEPT !.life = "live"]
  <1>1. /\ building = "handler" /\ building' = "detach"
        /\ line' = [line EXCEPT !["out"] = q] /\ obj' = [obj EXCEPT !["out"] = z]
        /\ mishap' = mishap /\ dropped' = dropped /\ over' = over
    BY DEF NewForwarder, Ends
  <1>2. /\ PairInv(building, i, o, x, y, dropped, over, mishap, twice)
        /\ PairTypes(building, i, o, x, y) /\ Unbuilt(building, i, o, x, y)
        /\ Passed(building, i, o, x, y, dropped, over)
    BY PairNow
  <1>3. i \in EndType /\ Sound(i) /\ o \in EndType /\ Sound(o) /\ x \in ObjType /\ y \in ObjType
    BY <1>2 DEF PairTypes
  <1>4. "in" \in Sides /\ "out" \in Sides
    BY DEF Sides
  <1>5. Moves(o, q) /\ q.closed = o.closed
    BY <1>3, BytesMove
  <1>6. z \in ObjType /\ z.life = "live" /\ z.knows = y.knows /\ z.deletes = y.deletes
    BY <1>3 DEF ObjType
  <1>7. q \in EndType
    BY <1>5 DEF Moves
  <1>8. line' \in [Sides -> EndType] /\ line'["out"] = q /\ line'["in"] = i
    BY <1>1, <1>4, <1>7, OnLines
  <1>9. obj' \in [Sides -> ObjType] /\ obj'["out"] = z /\ obj'["in"] = x
    BY <1>1, <1>4, <1>6, OnObjects
  <1>10. twice' \/ (~twice /\ ~(i.telling > 1))
    BY <1>8
  <1> HIDE DEF i, o, x, y, q, z
  <1>11. PairInv("handler", i, q, x, y, dropped, over, mishap, twice')
    BY <1>1, <1>2, <1>3, <1>5, <1>10, LinesMove, StandStill
  <1>12. PairTypes("handler", i, q, x, y) /\ Unbuilt("handler", i, q, x, y)
         /\ Passed("handler", i, q, x, y, dropped, over)
    BY <1>11 DEF PairInv
  <1>13. PairTypes("detach", i, q, x, z) /\ Unbuilt("detach", i, q, x, z) /\ OutTurn("detach", q, z)
    BY <1>6, <1>12 DEF PairTypes, Unbuilt, Begun, OutTurn
  <1>14. Passed("detach", i, q, x, z, dropped, over)
    BY <1>12 DEF Passed, Begun
  <1>15. ~twice' /\ "raced" \notin mishap => Paired("detach", i, q, x, z, mishap)
    <2>1. ~twice' /\ "raced" \notin mishap => Paired("handler", i, q, x, y, mishap)
      BY <1>11 DEF PairInv
    <2> QED BY <2>1 DEF Paired, Begun, ReaderTurn
  <1>16. PairInv("detach", i, q, x, z, dropped, over, mishap, twice')
    BY <1>13, <1>14, <1>15 DEF PairInv
  <1> QED BY <1>1, <1>8, <1>9, <1>16 DEF ForwardInv

LEMMA CannotDetachKeeps ==
  ASSUME ForwardInv, CannotDetach, ~twice' => ~twice /\ ~(line'["in"].telling > 1)
  PROVE  ForwardInv'
  <1> DEFINE i == line["in"]
             o == line["out"]
             x == obj["in"]
             y == obj["out"]
             more == y.deletes + 1
             z == [y EXCEPT !.deletes = more]
  <1>1. /\ building = "detach" /\ building' = "failed"
        /\ line' = line /\ obj' = [obj EXCEPT !["out"] = z]
        /\ mishap' = mishap /\ dropped' = dropped /\ over' = over
    BY DEF CannotDetach
  <1>2. /\ PairInv(building, i, o, x, y, dropped, over, mishap, twice)
        /\ PairTypes(building, i, o, x, y) /\ Unbuilt(building, i, o, x, y)
        /\ Passed(building, i, o, x, y, dropped, over)
    BY PairNow
  <1>3. y \in ObjType /\ line \in [Sides -> EndType]
    BY <1>2 DEF PairTypes, ForwardInv
  <1>4. "in" \in Sides /\ "out" \in Sides
    BY DEF Sides
  <1>5. more \in Nat
    BY <1>3 DEF ObjType
  <1>m. y.deletes = 0 => more = 1
    OBVIOUS
  <1> HIDE DEF more
  <1>6. z \in ObjType /\ z.life = y.life /\ z.knows = y.knows /\ z.deletes = more
    BY <1>3, <1>5 DEF ObjType
  <1>9. obj' \in [Sides -> ObjType] /\ obj'["out"] = z /\ obj'["in"] = x
    BY <1>1, <1>4, <1>6, OnObjects
  <1> HIDE DEF i, o, x, y, z
  <1>12. y.deletes = 0 /\ y.life # "freed" /\ more = 1
    BY <1>1, <1>2, <1>m DEF Unbuilt
  <1>13. PairTypes("failed", i, o, x, z)
    BY <1>2, <1>6 DEF PairTypes
  <1>14. Unbuilt("failed", i, o, x, z) /\ OutTurn("failed", o, z)
    <2>1. z.deletes + One(z.life = "freed") <= 1
      BY <1>6, <1>12 DEF One
    <2> QED BY <1>1, <1>2, <1>6, <2>1 DEF Unbuilt, Begun, OutTurn
  <1>15. Passed("failed", i, o, x, z, dropped, over)
    BY <1>1, <1>2 DEF Passed, Begun
  <1>16. ~twice' /\ "raced" \notin mishap => Paired("failed", i, o, x, z, mishap)
    <2>1. ~twice' /\ "raced" \notin mishap => Paired("detach", i, o, x, y, mishap)
      BY <1>1, <1>2 DEF PairInv
    <2> QED BY <2>1 DEF Paired, Begun, ReaderTurn
  <1>17. PairInv("failed", i, o, x, z, dropped, over, mishap, twice')
    BY <1>13, <1>14, <1>15, <1>16 DEF PairInv
  <1> QED BY <1>1, <1>3, <1>9, <1>17 DEF ForwardInv, i, o

LEMMA NewReaderKeeps ==
  ASSUME ForwardInv, NewReader, ~twice' => ~twice /\ ~(line'["in"].telling > 1)
  PROVE  ForwardInv'
  <1> DEFINE i == line["in"]
             o == line["out"]
             x == obj["in"]
             y == obj["out"]
             j == StartRead(i)
             yes == TRUE
             z == [x EXCEPT !.life = "live", !.knows = yes]
  <1>1. /\ building = "detach" /\ building' = "assign"
        /\ line' = [line EXCEPT !["in"] = j] /\ obj' = [obj EXCEPT !["in"] = z]
        /\ mishap' = mishap /\ dropped' = dropped /\ over' = over
    BY DEF NewReader
  <1>2. /\ PairInv(building, i, o, x, y, dropped, over, mishap, twice)
        /\ PairTypes(building, i, o, x, y) /\ Unbuilt(building, i, o, x, y)
        /\ Passed(building, i, o, x, y, dropped, over)
    BY PairNow
  <1>3. i \in EndType /\ Sound(i) /\ x \in ObjType
    BY <1>2 DEF PairTypes
  <1>4. "in" \in Sides /\ "out" \in Sides
    BY DEF Sides
  <1>5. yes /\ yes \in BOOLEAN
    OBVIOUS
  <1> HIDE DEF yes
  <1>6. z \in ObjType /\ z.life = "live" /\ z.knows /\ z.deletes = x.deletes
    BY <1>3, <1>5 DEF ObjType
  <1>7. ~Begun("detach") /\ ~Begun("handler") /\ Begun("assign")
    BY DEF Begun
  <1>8. /\ i.informed = {} /\ ~i.watch /\ i.telling = 0 /\ x.deletes = 0
        /\ y.deletes = 0 /\ y.life # "freed"
    BY <1>1, <1>2, <1>7 DEF Unbuilt
  <1>9. /\ j \in EndType /\ Sound(j) /\ j.closed = i.closed
        /\ IF R \in i.closed THEN j.telling = i.telling + 1 /\ ~j.watch ELSE j.telling = i.telling /\ j.watch
    BY <1>3, <1>8, WatchIs
  <1>10. line' \in [Sides -> EndType] /\ line'["in"] = j /\ line'["out"] = o
    BY <1>1, <1>4, <1>9, OnLines
  <1>11. obj' \in [Sides -> ObjType] /\ obj'["in"] = z /\ obj'["out"] = y
    BY <1>1, <1>4, <1>6, OnObjects
  <1> HIDE DEF i, o, x, y, j, z
  <1>12. PairTypes("assign", j, o, z, y)
    BY <1>2, <1>6, <1>9 DEF PairTypes
  <1>13. Unbuilt("assign", j, o, z, y) /\ OutTurn("assign", o, y)
    BY <1>1, <1>2, <1>7 DEF Unbuilt, OutTurn
  <1>14. Passed("assign", j, o, z, y, dropped, over)
    BY <1>1, <1>2, <1>6, <1>9 DEF Passed
  <1>15. ~twice' /\ "raced" \notin mishap => Paired("assign", j, o, z, y, mishap)
    <2>1. ~HasLeft(z) /\ ~HasLeft(y)
      BY <1>6, <1>8 DEF HasLeft
    <2>2. j.telling <= 1 /\ (R \in j.closed => j.telling = 1)
      BY <1>8, <1>9
    <2>3. z.deletes + One(z.life = "freed") <= 1
      BY <1>6, <1>8 DEF One
    <2>4. ReaderTurn("assign", j, z)
      BY <2>1, <2>2, <2>3 DEF ReaderTurn
    <2>5. Pointers("assign", j, o, z, y, mishap)
      BY <1>6, <1>8, <2>1, <2>2 DEF Pointers
    <2>6. ~twice' /\ "raced" \notin mishap => "misused" \notin mishap
      BY <1>2 DEF PairInv, Paired
    <2> QED BY <2>4, <2>5, <2>6 DEF Paired
  <1>16. PairInv("assign", j, o, z, y, dropped, over, mishap, twice')
    BY <1>12, <1>13, <1>14, <1>15 DEF PairInv
  <1> QED BY <1>1, <1>10, <1>11, <1>16 DEF ForwardInv

LEMMA AssignReaderKeeps ==
  ASSUME ForwardInv, AssignReader, ~twice' => ~twice /\ ~(line'["in"].telling > 1)
  PROVE  ForwardInv'
  <1> DEFINE i == line["in"]
             o == line["out"]
             x == obj["in"]
             y == obj["out"]
             yes == TRUE
             z == [y EXCEPT !.knows = yes]
  <1>1. /\ building = "assign" /\ building' = "watch"
        /\ line' = line /\ obj' = [obj EXCEPT !["out"] = z]
        /\ mishap' = (IF x.deletes > 0 \/ x.life = "freed" THEN mishap \cup {"raced"} ELSE mishap)
        /\ dropped' = dropped /\ over' = over
    BY DEF AssignReader
  <1>2. /\ PairInv(building, i, o, x, y, dropped, over, mishap, twice)
        /\ PairTypes(building, i, o, x, y) /\ Unbuilt(building, i, o, x, y)
        /\ Passed(building, i, o, x, y, dropped, over)
    BY PairNow
  <1>3. y \in ObjType /\ line \in [Sides -> EndType]
    BY <1>2 DEF PairTypes, ForwardInv
  <1>4. "in" \in Sides /\ "out" \in Sides
    BY DEF Sides
  <1>5. yes /\ yes \in BOOLEAN
    OBVIOUS
  <1> HIDE DEF yes
  <1>6. z \in ObjType /\ z.life = y.life /\ z.knows /\ z.deletes = y.deletes
    BY <1>3, <1>5 DEF ObjType
  <1>7. obj' \in [Sides -> ObjType] /\ obj'["out"] = z /\ obj'["in"] = x
    BY <1>1, <1>4, <1>6, OnObjects
  <1> HIDE DEF i, o, x, y, z
  <1>8. Begun("assign") /\ Begun("watch")
    BY DEF Begun
  <1>9. y.deletes = 0 /\ y.life # "freed"
    BY <1>1, <1>2 DEF Unbuilt
  <1>10. PairTypes("watch", i, o, x, z) /\ Unbuilt("watch", i, o, x, z) /\ OutTurn("watch", o, z)
    BY <1>1, <1>2, <1>6, <1>8, <1>9 DEF PairTypes, Unbuilt, OutTurn
  <1>11. Passed("watch", i, o, x, z, dropped, over)
    BY <1>1, <1>2, <1>6, <1>8 DEF Passed
  <1>12. ASSUME ~twice', "raced" \notin mishap' PROVE Paired("watch", i, o, x, z, mishap')
    <2>1. ~HasLeft(x) /\ mishap' = mishap
      BY <1>1, <1>12 DEF HasLeft
    <2>2. Paired("assign", i, o, x, y, mishap)
      BY <1>1, <1>2, <1>12, <2>1 DEF PairInv
    <2>3. ReaderTurn("watch", i, x)
      BY <2>2 DEF Paired, ReaderTurn
    <2>4. ~HasLeft(y) /\ ~HasLeft(z)
      BY <1>6, <1>9 DEF HasLeft
    <2>5. Pointers("watch", i, o, x, z, mishap)
      BY <1>6, <1>8, <1>9, <2>1, <2>2, <2>4 DEF Paired, Pointers
    <2> QED BY <2>1, <2>2, <2>3, <2>5 DEF Paired
  <1>13. PairInv("watch", i, o, x, z, dropped, over, mishap', twice')
    BY <1>10, <1>11, <1>12 DEF PairInv
  <1> QED BY <1>1, <1>3, <1>7, <1>13 DEF ForwardInv, i, o

LEMMA WatchDestinationKeeps ==
  ASSUME ForwardInv, WatchDestination, ~twice' => ~twice /\ ~(line'["in"].telling > 1)
  PROVE  ForwardInv'
  <1> DEFINE i == line["in"]
             o == line["out"]
             x == obj["in"]
             y == obj["out"]
             q == StartRead(o)
  <1>1. /\ building = "watch" /\ building' = "built"
        /\ line' = [line EXCEPT !["out"] = q] /\ obj' = obj
        /\ mishap' = mishap /\ dropped' = dropped /\ over' = over
    BY DEF WatchDestination
  <1>2. /\ PairInv(building, i, o, x, y, dropped, over, mishap, twice)
        /\ PairTypes(building, i, o, x, y) /\ Unbuilt(building, i, o, x, y)
        /\ Passed(building, i, o, x, y, dropped, over)
    BY PairNow
  <1>3. o \in EndType /\ Sound(o) /\ obj \in [Sides -> ObjType]
    BY <1>2 DEF PairTypes, ForwardInv
  <1>4. "in" \in Sides /\ "out" \in Sides
    BY DEF Sides
  <1>8. /\ o.informed = {} /\ ~o.watch /\ o.telling = 0 /\ y.deletes = 0 /\ y.life # "freed"
    BY <1>1, <1>2 DEF Unbuilt
  <1>9. /\ q \in EndType /\ Sound(q) /\ q.closed = o.closed /\ (Shut(o) => Shut(q))
        /\ IF R \in o.closed THEN q.telling = o.telling + 1 /\ ~q.watch ELSE q.telling = o.telling /\ q.watch
    BY <1>3, <1>8, WatchIs
  <1>10. line' \in [Sides -> EndType] /\ line'["out"] = q /\ line'["in"] = i
    BY <1>1, <1>4, <1>9, OnLines
  <1> HIDE DEF i, o, x, y, q
  <1>11. Begun("watch") /\ Begun("built")
    BY DEF Begun
  <1>12. PairTypes("built", i, q, x, y)
    BY <1>2, <1>9 DEF PairTypes
  <1>13. Unbuilt("built", i, q, x, y)
    BY <1>1, <1>2, <1>11 DEF Unbuilt
  <1>14. OutTurn("built", q, y)
    <2>1. One(q.watch) + q.telling = 1
      BY <1>8, <1>9 DEF One
    <2>2. q.watch \/ R \in q.closed
      BY <1>9
    <2>3. q.telling \in Nat /\ One(q.watch) \in Nat /\ One(y.life = "freed") = 0
      BY <1>8, <1>9 DEF EndType, One
    <2> QED BY <1>8, <2>1, <2>2, <2>3 DEF OutTurn
  <1>15. Passed("built", i, q, x, y, dropped, over)
    BY <1>1, <1>2, <1>9, <1>11 DEF Passed
  <1>16. ~twice' /\ "raced" \notin mishap => Paired("built", i, q, x, y, mishap)
    <2>1. ~twice' /\ "raced" \notin mishap => Paired("watch", i, o, x, y, mishap)
      BY <1>1, <1>2 DEF PairInv
    <2>2. Pointers("watch", i, o, x, y, mishap) => Pointers("built", i, q, x, y, mishap)
      BY <1>9 DEF Pointers
    <2>3. ReaderTurn("watch", i, x) => ReaderTurn("built", i, x)
      BY DEF ReaderTurn
    <2> QED BY <1>11, <2>1, <2>2, <2>3 DEF Paired
  <1>17. PairInv("built", i, q, x, y, dropped, over, mishap, twice')
    BY <1>12, <1>13, <1>14, <1>15, <1>16 DEF PairInv
  <1> QED BY <1>1, <1>3, <1>10, <1>17 DEF ForwardInv, x, y
----------------------------------------
(* What came is written to the other side. *)
LEMMA WritesKeep ==
  ASSUME ForwardInv, NEW s \in Sides, NEW knows \in BOOLEAN,
         line' = IF knows THEN [line EXCEPT ![s] = Write(@)] ELSE line,
         ~twice' => ~twice /\ ~(line'["in"].telling > 1)
  PROVE  /\ line' \in [Sides -> EndType]
         /\ PairInv(building, line'["in"], line'["out"], obj["in"], obj["out"], dropped, over, mishap, twice')
         /\ \A r \in Sides : line'[r].closed = line[r].closed
  <1>1. "in" \in Sides /\ "out" \in Sides
    BY DEF Sides
  <1>2. \A r \in Sides : line[r] \in EndType /\ Sound(line[r])
    BY PairNow
  <1>3. line \in [Sides -> EndType]
    BY DEF ForwardInv
  <1>4. line' \in [Sides -> EndType]
        /\ \A r \in Sides : Moves(line[r], line'[r]) /\ line'[r].closed = line[r].closed
    <2>1. CASE ~knows
      BY <1>2, <1>3, <2>1, StandStill
    <2>2. CASE knows
      <3> DEFINE e == Write(line[s])
      <3>1. Moves(line[s], e) /\ e.closed = line[s].closed
        BY <1>2, BytesMove
      <3>2. e \in EndType /\ line' = [line EXCEPT ![s] = e]
        BY <2>2, <3>1 DEF Moves
      <3> HIDE DEF e
      <3>3. /\ line' \in [Sides -> EndType] /\ line'[s] = e
            /\ \A r \in Sides : r # s => line'[r] = line[r]
        BY <3>2, OnLines
      <3>4. \A r \in Sides : r # s => Moves(line[r], line[r])
        BY <1>2, StandStill
      <3> QED BY <3>1, <3>3, <3>4
    <2> QED BY <2>1, <2>2
  <1>5. PairInv(building, line["in"], line["out"], obj["in"], obj["out"], dropped, over, mishap, twice)
    BY PairNow
  <1>6. PairInv(building, line'["in"], line'["out"], obj["in"], obj["out"], dropped, over, mishap, twice')
    BY <1>1, <1>4, <1>5, LinesMove
  <1> QED BY <1>4, <1>6

LEMMA NewBytesKeeps ==
  ASSUME ForwardInv, NEW s \in Sides, NewBytes(s), ~twice' => ~twice /\ ~(line'["in"].telling > 1)
  PROVE  ForwardInv'
  <1> DEFINE i == line["in"]
             o == line["out"]
             x == obj["in"]
             y == obj["out"]
             b == building
             j == line'["in"]
             q == line'["out"]
             knows == obj[s].knows
  <1>1. /\ line[s].watch
        /\ line' = IF knows THEN [line EXCEPT ![Other(s)] = Write(@)] ELSE line
        /\ dropped' = IF knows /\ W \notin line[Other(s)].closed THEN dropped ELSE dropped \cup {s}
        /\ mishap' = mishap \cup (IF Gone(s) \/ (knows /\ Gone(Other(s))) THEN {"misused"} ELSE {})
        /\ building' = building /\ obj' = obj /\ over' = over
    BY DEF NewBytes, Misuse
  <1>2. /\ PairInv(b, i, o, x, y, dropped, over, mishap, twice)
        /\ PairTypes(b, i, o, x, y) /\ Unbuilt(b, i, o, x, y) /\ OutTurn(b, o, y)
        /\ Passed(b, i, o, x, y, dropped, over)
    BY PairNow
  <1>3. Other(s) \in Sides /\ knows \in BOOLEAN /\ obj \in [Sides -> ObjType]
    BY PairNow DEF Other, Sides, ForwardInv
  <1>4. /\ line' \in [Sides -> EndType]
        /\ PairInv(b, j, q, x, y, dropped, over, mishap, twice')
        /\ j.closed = i.closed /\ q.closed = o.closed
    <2> HIDE DEF knows
    <2>1. "in" \in Sides /\ "out" \in Sides
      BY DEF Sides
    <2> QED BY <1>1, <1>3, <2>1, WritesKeep
  <1>5. i \in EndType /\ Sound(i) /\ o \in EndType /\ Sound(o) /\ x \in ObjType /\ y \in ObjType
    BY <1>2 DEF PairTypes
  <1>6. ASSUME s = "in"
        PROVE  /\ i.watch /\ Begun(b)
               /\ dropped' = IF x.knows /\ W \notin o.closed THEN dropped ELSE dropped \cup {"in"}
               /\ x.life = "freed" \/ (x.knows /\ y.life = "freed") \/ mishap' = mishap
    BY <1>1, <1>2, <1>6 DEF Other, Gone, Unbuilt
  <1>7. ASSUME s = "out"
        PROVE  /\ o.watch /\ b = "built" /\ Begun(b)
               /\ dropped' = IF y.knows /\ W \notin i.closed THEN dropped ELSE dropped \cup {"out"}
               /\ y.life = "freed" \/ (y.knows /\ x.life = "freed") \/ mishap' = mishap
    <2>1. o.watch /\ b = "built"
      BY <1>1, <1>2, <1>7 DEF Unbuilt
    <2> QED BY <1>1, <1>7, <2>1 DEF Other, Gone, Begun
  <1>8. ("raced" \in mishap' <=> "raced" \in mishap)
    BY <1>1
  <1>9. s = "in" \/ s = "out"
    BY DEF Sides
  <1> HIDE DEF i, o, x, y, b, j, q, knows
  <1>10. Passed(b, j, q, x, y, dropped', over)
    <2>1. Passed(b, j, q, x, y, dropped, over)
      BY <1>4 DEF PairInv
    <2>2. "out" \in dropped' => W \in j.closed
      <3>1. CASE s = "in"
        BY <1>6, <2>1, <3>1 DEF Passed
      <3>2. CASE s = "out"
        <4>1. ~y.knows => W \in i.closed
          BY <1>2, <1>7, <3>2 DEF Passed
        <4> QED BY <1>4, <1>7, <2>1, <3>2, <4>1 DEF Passed
      <3> QED BY <1>9, <3>1, <3>2
    <2>3. "in" \in dropped' => q.closed # {}
      <3>1. CASE s = "out"
        BY <1>7, <2>1, <3>1 DEF Passed
      <3>2. CASE s = "in"
        <4>1. ~x.knows => R \in o.closed
          BY <1>2, <1>6, <3>2 DEF Passed
        <4> QED BY <1>4, <1>6, <2>1, <3>2, <4>1 DEF Passed
      <3> QED BY <1>9, <3>1, <3>2
    <2> QED BY <2>1, <2>2, <2>3 DEF Passed
  <1>11. ASSUME ~twice', "raced" \notin mishap' PROVE Paired(b, j, q, x, y, mishap')
    <2>1. Paired(b, j, q, x, y, mishap)
      BY <1>4, <1>8, <1>11 DEF PairInv
    <2>2. Paired(b, i, o, x, y, mishap)
      BY <1>2, <1>8, <1>11 DEF PairInv
    <2>3. ReaderTurn(b, i, x) /\ (Begun(b) => Pointers(b, i, o, x, y, mishap))
      BY <2>2 DEF Paired
    <2>4. mishap' = mishap
      <3>1. CASE s = "in"
        <4>1. ~HasLeft(x)
          BY <1>5, <1>6, <2>3, <3>1 DEF ReaderTurn, Sound
        <4>2. HasLeft(y) => ~x.knows
          BY <1>6, <2>3, <3>1, <4>1 DEF Pointers
        <4> QED BY <1>6, <3>1, <4>1, <4>2 DEF HasLeft
      <3>2. CASE s = "out"
        <4>1. o.telling \in Nat /\ y.deletes \in Nat /\ One(o.watch) = 1 /\ One(y.life = "freed") \in {0, 1}
          BY <1>5, <1>7, <3>2 DEF EndType, ObjType, One
        <4>2. y.deletes = 0 /\ One(y.life = "freed") = 0
          BY <1>2, <1>7, <3>2, <4>1 DEF OutTurn
        <4>3. y.life # "freed"
          BY <4>2 DEF One
        <4>4. ~HasLeft(y)
          BY <4>2, <4>3 DEF HasLeft
        <4>5. HasLeft(x) => ~y.knows
          BY <1>7, <2>3, <3>2, <4>4 DEF Pointers
        <4> QED BY <1>7, <3>2, <4>3, <4>5 DEF HasLeft
      <3> QED BY <1>9, <3>1, <3>2
    <2> QED BY <2>1, <2>4
  <1>12. PairInv(b, j, q, x, y, dropped', over, mishap', twice')
    BY <1>4, <1>10, <1>11 DEF PairInv
  <1> QED BY <1>1, <1>3, <1>4, <1>12 DEF ForwardInv, b, j, q, x, y

(* closed() has been called. *)
LEMMA CallIs ==
  ASSUME NEW s \in EndType, Sound(s), s.telling > 0
  PROVE  LET e == [s EXCEPT !.telling = @ - 1] IN
         /\ e \in EndType /\ Sound(e) /\ e.closed = s.closed /\ e.watch = s.watch
         /\ e.telling = s.telling - 1 /\ e.informed = s.informed /\ (Shut(e) <=> Shut(s))
         /\ R \in s.closed /\ ~s.watch
  <1> DEFINE less == s.telling - 1
             e == [s EXCEPT !.telling = less]
  <1>1. less \in Nat /\ (less > 0 => s.telling > 0)
    BY DEF EndType
  <1> HIDE DEF less
  <1>2. /\ e \in EndType /\ e.closed = s.closed /\ e.watch = s.watch
        /\ e.telling = less /\ e.informed = s.informed /\ e.closing = s.closing /\ e.unsent = s.unsent
    BY <1>1 DEF EndType
  <1> HIDE DEF e
  <1>3. Sound(e)
    BY <1>1, <1>2 DEF Sound
  <1>4. Shut(e) <=> Shut(s)
    BY <1>2 DEF Shut
  <1>5. R \in s.closed /\ ~s.watch
    BY DEF Sound
  <1>6. /\ e \in EndType /\ Sound(e) /\ e.closed = s.closed /\ e.watch = s.watch
        /\ e.telling = s.telling - 1 /\ e.informed = s.informed /\ (Shut(e) <=> Shut(s))
        /\ R \in s.closed /\ ~s.watch
    BY <1>2, <1>3, <1>4, <1>5 DEF less
  <1> QED BY ONLY <1>6 DEF e, less

LEMMA DeletesIs ==
  ASSUME NEW x \in ObjType
  PROVE  LET z == [x EXCEPT !.deletes = @ + 1] IN
         z \in ObjType /\ z.life = x.life /\ z.knows = x.knows /\ z.deletes = x.deletes + 1 /\ HasLeft(z)
  <1> DEFINE more == x.deletes + 1
             z == [x EXCEPT !.deletes = more]
  <1>1. more \in Nat /\ more > 0
    BY DEF ObjType
  <1> HIDE DEF more
  <1>2. z \in ObjType /\ z.life = x.life /\ z.knows = x.knows /\ z.deletes = more
    BY <1>1 DEF ObjType
  <1> HIDE DEF z
  <1>3. HasLeft(z)
    BY <1>1, <1>2 DEF HasLeft
  <1> QED BY <1>2, <1>3 DEF z, more

LEMMA FreedIs ==
  ASSUME NEW x \in ObjType, x.deletes > 0
  PROVE  LET z == [x EXCEPT !.deletes = @ - 1, !.life = "freed"] IN
         z \in ObjType /\ z.life = "freed" /\ z.knows = x.knows /\ z.deletes = x.deletes - 1 /\ HasLeft(z)
  <1> DEFINE less == x.deletes - 1
             z == [x EXCEPT !.deletes = less, !.life = "freed"]
  <1>1. less \in Nat
    BY DEF ObjType
  <1> HIDE DEF less
  <1>2. z \in ObjType /\ z.life = "freed" /\ z.knows = x.knows /\ z.deletes = less
    BY <1>1 DEF ObjType
  <1> HIDE DEF z
  <1>3. HasLeft(z)
    BY <1>2 DEF HasLeft
  <1>4. z \in ObjType /\ z.life = "freed" /\ z.knows = x.knows /\ z.deletes = x.deletes - 1 /\ HasLeft(z)
    BY <1>2, <1>3 DEF less
  <1> QED BY ONLY <1>4 DEF z, less

LEMMA ForgetsIs ==
  ASSUME NEW x \in ObjType, NEW takes
  PROVE  LET z == [x EXCEPT !.knows = @ /\ ~takes] IN
         z \in ObjType /\ z.life = x.life /\ (z.knows <=> x.knows /\ ~takes) /\ z.deletes = x.deletes
                       /\ (HasLeft(z) <=> HasLeft(x))
  <1> DEFINE yet == x.knows /\ ~takes
             z == [x EXCEPT !.knows = yet]
  <1>1. yet \in BOOLEAN /\ (yet <=> x.knows /\ ~takes)
    OBVIOUS
  <1> HIDE DEF yet
  <1>2. z \in ObjType /\ z.life = x.life /\ z.knows = yet /\ z.deletes = x.deletes
    BY <1>1 DEF ObjType
  <1> HIDE DEF z
  <1>3. HasLeft(z) <=> HasLeft(x)
    BY <1>2 DEF HasLeft
  <1> QED BY <1>1, <1>2, <1>3 DEF z, yet

(* One leaves and takes his pointer from the other. *)
LEMMA LeaveIs ==
  ASSUME ForwardInv, NEW s \in Sides, Leave(s, TRUE)
  PROVE  LET z == obj'[s]
             w == obj'[Other(s)]
         IN  /\ obj' \in [Sides -> ObjType]
             /\ z.life = obj[s].life /\ z.knows = obj[s].knows /\ z.deletes = obj[s].deletes + 1 /\ HasLeft(z)
             /\ w.life = obj[Other(s)].life /\ (w.knows <=> obj[Other(s)].knows /\ ~obj[s].knows)
             /\ w.deletes = obj[Other(s)].deletes /\ (HasLeft(w) <=> HasLeft(obj[Other(s)]))
  <1> DEFINE takes == TRUE /\ obj[s].knows
             z == [obj[s] EXCEPT !.deletes = @ + 1]
             w == [obj[Other(s)] EXCEPT !.knows = @ /\ ~takes]
             h == [obj EXCEPT ![s] = z]
  <1>1. Other(s) \in Sides /\ Other(s) # s
    BY DEF Other, Sides
  <1>2. obj[s] \in ObjType /\ obj[Other(s)] \in ObjType /\ obj \in [Sides -> ObjType]
    BY <1>1, PairNow DEF ForwardInv
  <1>3. obj' = [h EXCEPT ![Other(s)] = w]
    BY <1>1, <1>2 DEF Leave
  <1>4. z \in ObjType /\ z.life = obj[s].life /\ z.knows = obj[s].knows /\ z.deletes = obj[s].deletes + 1 /\ HasLeft(z)
    BY <1>2, DeletesIs
  <1>5. takes <=> obj[s].knows
    OBVIOUS
  <1> HIDE DEF takes
  <1>6. /\ w \in ObjType /\ w.life = obj[Other(s)].life /\ (w.knows <=> obj[Other(s)].knows /\ ~takes)
        /\ w.deletes = obj[Other(s)].deletes /\ (HasLeft(w) <=> HasLeft(obj[Other(s)]))
    BY <1>2, ForgetsIs
  <1> HIDE DEF z, w
  <1>7. h \in [Sides -> ObjType] /\ h[s] = z
    BY <1>2, <1>4
  <1> HIDE DEF h
  <1>8. obj' \in [Sides -> ObjType] /\ obj'[s] = z /\ obj'[Other(s)] = w
    BY <1>1, <1>3, <1>6, <1>7
  <1> QED BY <1>4, <1>5, <1>6, <1>8
----------------------------------------
(* The reader goes, and the forwarder no longer knows it. *)
LEMMA ReaderLeaves ==
  ASSUME NEW b, NEW i, NEW o, NEW q, NEW x, NEW y, NEW xx, NEW yy, NEW j, NEW d, NEW v, NEW m, NEW mm, NEW t, NEW tt,
         PairInv(b, i, o, x, y, d, v, m, t), i.telling > 0,
         j \in EndType, Sound(j), j.closed = i.closed, j.watch = i.watch,
         j.telling = i.telling - 1, Shut(j) <=> Shut(i),
         IF x.knows THEN Moves(o, q) /\ Shut(q) ELSE q = o,
         R \in q.closed => R \in o.closed \/ W \in i.closed,
         xx \in ObjType, yy \in ObjType,
         yy.life = y.life, yy.deletes = y.deletes, HasLeft(yy) <=> HasLeft(y),
         xx.life = x.life, xx.knows = x.knows,
         IF W \in i.closed
           THEN xx.deletes = x.deletes + 1 /\ HasLeft(xx) /\ (yy.knows <=> y.knows /\ ~x.knows)
           ELSE xx = x /\ yy = y,
         mm = m \cup (IF x.life = "freed" \/ (x.knows /\ y.life = "freed") THEN {"misused"} ELSE {}),
         ~tt => ~t
  PROVE  PairInv(b, j, q, xx, yy, d, v, mm, tt)
  <1>1. PairTypes(b, i, o, x, y) /\ Unbuilt(b, i, o, x, y) /\ OutTurn(b, o, y)
        /\ Passed(b, i, o, x, y, d, v)
    BY DEF PairInv
  <1>2. i \in EndType /\ Sound(i) /\ o \in EndType /\ Sound(o) /\ x \in ObjType /\ y \in ObjType
    BY <1>1 DEF PairTypes
  <1>3. Begun(b) /\ R \in i.closed /\ ~i.watch /\ i.telling \in Nat
    BY <1>1, <1>2 DEF Unbuilt, Sound, EndType
  <1>4. Moves(o, q) /\ Moves(i, i)
    BY <1>2, StandStill
  <1>5. PairInv(b, i, q, x, y, d, v, m, tt \/ i.telling > 1)
    <2>1. R \in q.closed => R \in o.closed \/ "out" \in v \/ W \in i.closed
      OBVIOUS
    <2> DEFINE late == tt \/ i.telling > 1
    <2>3. ~late => ~t /\ ~(i.telling > 1)
      OBVIOUS
    <2> HIDE DEF late
    <2>4. v \subseteq v
      OBVIOUS
    <2>5. PairInv(b, i, q, x, y, d, v, m, late)
      <3>1. PairInv(b, i, o, x, y, d, v, m, t)
        OBVIOUS
      <3> QED BY ONLY <1>4, <2>1, <2>3, <2>4, <3>1, LinesMove
    <2> QED BY <2>5 DEF late
  <1>6. PairTypes(b, i, q, x, y) /\ Unbuilt(b, i, q, x, y) /\ OutTurn(b, q, y)
        /\ Passed(b, i, q, x, y, d, v)
    BY <1>5 DEF PairInv
  <1>7. PairTypes(b, j, q, xx, yy)
    BY <1>6 DEF PairTypes
  <1>8. Unbuilt(b, j, q, xx, yy)
    BY <1>3, <1>6 DEF Unbuilt
  <1>9. OutTurn(b, q, yy)
    BY <1>6 DEF OutTurn
  <1>10. Passed(b, j, q, xx, yy, d, v)
    BY <1>6 DEF Passed
  <1>11. ASSUME ~tt, "raced" \notin mm PROVE Paired(b, j, q, xx, yy, mm)
    <2>1. ~t /\ "raced" \notin m
      BY <1>11
    <2>2. Paired(b, i, o, x, y, m)
      BY <2>1 DEF PairInv
    <2>3. i.telling = 1 /\ ReaderTurn(b, i, x) /\ Pointers(b, i, o, x, y, m)
      BY <1>3, <2>2 DEF Paired, ReaderTurn
    <2>4. Paired(b, i, q, x, y, m)
      BY <1>5, <2>1, <2>3, <1>11 DEF PairInv
    <2>5. Pointers(b, i, q, x, y, m)
      BY <1>3, <2>4 DEF Paired
    <2>6. ~HasLeft(x)
      BY <2>3 DEF ReaderTurn
    <2>7. HasLeft(y) => ~x.knows
      BY <2>5, <2>6 DEF Pointers
    <2>8. mm = m
      BY <2>6, <2>7 DEF HasLeft
    <2>9. j.telling = 0
      BY <2>3
    <2>10. ReaderTurn(b, j, xx)
      <3>1. CASE W \in i.closed
        <4>1. x.deletes = 0 /\ x.life # "freed"
          BY <1>2, <2>6 DEF HasLeft, ObjType
        <4>2. xx.deletes = 1 /\ xx.life # "freed"
          BY <3>1, <4>1
        <4>3. xx.deletes + One(xx.life = "freed") <= 1
          BY <4>2 DEF One
        <4> QED BY <1>3, <2>9, <3>1, <4>3 DEF ReaderTurn
      <3>2. CASE W \notin i.closed
        BY <2>3, <2>6, <2>9, <3>2 DEF ReaderTurn
      <3> QED BY <3>1, <3>2
    <2>11. Pointers(b, j, q, xx, yy, m)
      <3>1. ~xx.knows => HasLeft(yy)
        BY <2>5 DEF Pointers
      <3>2. HasLeft(yy) => /\ ~xx.knows \/ HasLeft(xx)
                           /\ Shut(j)
                           /\ "forgotten" \in m \/ HasLeft(xx) \/ (W \in j.closed /\ j.telling > 0)
        BY <2>5, <2>6, <2>7 DEF Pointers
      <3>3. Shut(q) \/ HasLeft(yy)
        BY <2>5 DEF Pointers
      <3>4. yy.life = "freed" => Shut(q)
        BY <2>5 DEF Pointers
      <3>5. b \in {"watch", "built"} => /\ HasLeft(xx) => ~yy.knows \/ HasLeft(yy)
                                        /\ ~yy.knows => HasLeft(xx)
        <4>1. CASE W \in i.closed
          <5>1. ~x.knows => HasLeft(y)
            BY <2>5 DEF Pointers
          <5> QED BY <4>1, <5>1
        <4>2. CASE W \notin i.closed
          BY <2>5, <4>2 DEF Pointers
        <4> QED BY <4>1, <4>2
      <3> QED BY <3>1, <3>2, <3>3, <3>4, <3>5 DEF Pointers
    <2>12. "misused" \notin m
      BY <2>2 DEF Paired
    <2> QED BY <2>8, <2>10, <2>11, <2>12 DEF Paired
  <1> QED BY <1>7, <1>8, <1>9, <1>10, <1>11 DEF PairInv

LEMMA ReaderClosedKeeps ==
  ASSUME ForwardInv, ReaderClosed, ~twice' => ~twice /\ ~(line'["in"].telling > 1)
  PROVE  ForwardInv'
  <1> DEFINE i == line["in"]
             o == line["out"]
             x == obj["in"]
             y == obj["out"]
             j == [i EXCEPT !.telling = @ - 1]
             type == IF W \in i.closed THEN ReadWriteClosed ELSE {W}
             q == IF x.knows THEN CloseGently(o, type, FALSE) ELSE o
             c == [line EXCEPT !["in"] = j]
  <1>1. "in" \in Sides /\ "out" \in Sides /\ Other("in") = "out"
    BY DEF Sides, Other
  <1>2. /\ i.telling > 0
        /\ line' = IF ~x.knows THEN Called("in")
                   ELSE [Called("in") EXCEPT !["out"] =
                          CloseGently(@, IF W \in Called("in")["in"].closed THEN ReadWriteClosed ELSE {W}, FALSE)]
        /\ IF W \in i.closed THEN Leave("in", TRUE) ELSE UNCHANGED obj
        /\ mishap' = mishap \cup (IF x.life = "freed" \/ (x.knows /\ y.life = "freed") THEN {"misused"} ELSE {})
        /\ building' = building /\ dropped' = dropped /\ over' = over
    BY <1>1 DEF ReaderClosed, ReaderClosedTelling, Calls, Misuse, Gone
  <1>3. /\ PairInv(building, i, o, x, y, dropped, over, mishap, twice)
        /\ PairTypes(building, i, o, x, y) /\ Unbuilt(building, i, o, x, y)
    BY PairNow
  <1>4. i \in EndType /\ Sound(i) /\ o \in EndType /\ Sound(o) /\ x \in ObjType /\ y \in ObjType
    BY <1>3 DEF PairTypes
  <1>5. /\ j \in EndType /\ Sound(j) /\ j.closed = i.closed /\ j.watch = i.watch
        /\ j.telling = i.telling - 1 /\ (Shut(j) <=> Shut(i))
    BY <1>2, <1>4, CallIs
  <1>6. line \in [Sides -> EndType] /\ obj \in [Sides -> ObjType]
    BY DEF ForwardInv
  <1>7. Called("in") = c
    BY <1>1 DEF Called
  <1>8. type \in {ReadWriteClosed, {W}} /\ (R \in type => W \in i.closed)
    BY DEF R, W
  <1> HIDE DEF j, type
  <1>9. c \in [Sides -> EndType] /\ c["in"] = j /\ c["out"] = o
    BY <1>1, <1>5, <1>6
  <1>10. line' = IF ~x.knows THEN c ELSE [c EXCEPT !["out"] = CloseGently(o, type, FALSE)]
    <2>1. W \in c["in"].closed <=> W \in i.closed
      BY <1>5, <1>9
    <2> QED BY <1>2, <1>7, <1>9, <2>1 DEF type
  <1>11. /\ IF x.knows THEN Moves(o, q) /\ Shut(q) ELSE q = o
         /\ R \in q.closed => R \in o.closed \/ W \in i.closed
    BY <1>4, <1>8, GentlyMoves
  <1>12. q \in EndType
    BY <1>4, <1>11 DEF Moves
  <1>13. line' \in [Sides -> EndType] /\ line'["in"] = j /\ line'["out"] = q
    <2> HIDE DEF c, i, o
    <2>1. CASE ~x.knows
      BY <1>9, <1>10, <2>1
    <2>2. CASE x.knows
      <3>1. line' = [c EXCEPT !["out"] = q]
        BY <1>10, <2>2
      <3> HIDE DEF q
      <3> QED BY <1>1, <1>9, <1>12, <3>1
    <2> QED BY <2>1, <2>2
  <1>14. /\ obj' \in [Sides -> ObjType]
         /\ LET xx == obj'["in"]
                yy == obj'["out"]
            IN  /\ xx \in ObjType /\ yy \in ObjType
                /\ yy.life = y.life /\ yy.deletes = y.deletes /\ (HasLeft(yy) <=> HasLeft(y))
                /\ xx.life = x.life /\ xx.knows = x.knows
                /\ IF W \in i.closed
                     THEN xx.deletes = x.deletes + 1 /\ HasLeft(xx) /\ (yy.knows <=> y.knows /\ ~x.knows)
                     ELSE xx = x /\ yy = y
    <2>1. CASE W \in i.closed
      <3>1. Leave("in", TRUE)
        BY <1>2, <2>1
      <3> HIDE DEF i
      <3> QED BY <1>1, <2>1, <3>1, LeaveIs
    <2>2. CASE W \notin i.closed
      BY <1>1, <1>2, <1>6, <2>2
    <2> QED BY <2>1, <2>2
  <1> DEFINE xx == obj'["in"]
             yy == obj'["out"]
  <1> HIDE DEF i, o, x, y, q, xx, yy
  <1>15. PairInv(building, j, q, xx, yy, dropped, over, mishap', twice')
    BY <1>2, <1>3, <1>5, <1>11, <1>14, ReaderLeaves DEF xx, yy
  <1> QED BY <1>2, <1>13, <1>14, <1>15 DEF ForwardInv, xx, yy
----------------------------------------
(* The forwarder goes, and the reader is to be told that its connection is *)
(* closed both ways. *)
LEMMA ForwarderLeaves ==
  ASSUME NEW b, NEW i, NEW o, NEW r, NEW x, NEW y, NEW xx, NEW yy, NEW j, NEW d, NEW v, NEW m, NEW mm, NEW t, NEW tt,
         PairInv(b, i, o, x, y, d, v, m, t), o.telling > 0,
         r \in EndType, Sound(r), r.closed = o.closed, r.watch = o.watch, r.telling = o.telling - 1,
         j \in EndType, Sound(j), i.closed \subseteq j.closed,
         IF y.knows THEN /\ Shut(j) /\ R \in j.closed
                         /\ j.closed # i.closed => j.telling > 0
         ELSE j = i,
         xx \in ObjType, yy \in ObjType,
         xx.life = x.life, xx.deletes = x.deletes, HasLeft(xx) <=> HasLeft(x),
         yy.life = y.life, yy.knows = y.knows, yy.deletes = y.deletes + 1, HasLeft(yy),
         xx.knows <=> x.knows /\ ~y.knows,
         mm = (m \cup (IF y.life = "freed" \/ (y.knows /\ x.life = "freed") THEN {"misused"} ELSE {}))
                \cup (IF y.knows /\ (j.closing \/ (i.closed = j.closed /\ j.telling = 0)) THEN {"forgotten"} ELSE {}),
         ~tt => ~t /\ ~(j.telling > 1)
  PROVE  PairInv(b, j, r, xx, yy, d, v, mm, tt)
  <1>1. PairTypes(b, i, o, x, y) /\ Unbuilt(b, i, o, x, y) /\ OutTurn(b, o, y)
        /\ Passed(b, i, o, x, y, d, v)
    BY DEF PairInv
  <1>2. i \in EndType /\ Sound(i) /\ o \in EndType /\ Sound(o) /\ x \in ObjType /\ y \in ObjType
    BY <1>1 DEF PairTypes
  <1>3. b = "built" /\ Begun(b) /\ R \in o.closed /\ ~o.watch
    BY <1>1, <1>2 DEF Unbuilt, Sound, Begun, EndType
  <1>4. /\ o.telling = 1 /\ y.deletes = 0 /\ y.life # "freed"
    <2>1. o.telling \in Nat /\ y.deletes \in Nat /\ One(o.watch) = 0 /\ One(y.life = "freed") \in {0, 1}
      BY <1>2, <1>3 DEF EndType, ObjType, One
    <2>2. o.telling = 1 /\ y.deletes = 0 /\ One(y.life = "freed") = 0
      BY <1>1, <1>3, <2>1 DEF OutTurn
    <2> QED BY <2>2 DEF One
  <1>5. PairTypes(b, j, r, xx, yy)
    BY <1>1 DEF PairTypes
  <1>6. Unbuilt(b, j, r, xx, yy)
    BY <1>3 DEF Unbuilt
  <1>7. OutTurn(b, r, yy)
    <2>1. One(r.watch) = 0 /\ r.telling = 0 /\ yy.deletes = 1 /\ One(yy.life = "freed") = 0
      BY <1>3, <1>4 DEF One
    <2> QED BY <1>3, <2>1 DEF OutTurn
  <1>8. Passed(b, j, r, xx, yy, d, v)
    <2>1. j.watch \/ R \in j.closed
      BY <1>1, <1>3 DEF Passed
    <2> QED BY <1>1, <1>3, <2>1 DEF Passed
  <1>9. ASSUME ~tt, "raced" \notin mm PROVE Paired(b, j, r, xx, yy, mm)
    <2>1. ~t /\ "raced" \notin m /\ j.telling <= 1
      BY <1>9 DEF EndType
    <2>2. Paired(b, i, o, x, y, m)
      BY <2>1 DEF PairInv
    <2>3. ReaderTurn(b, i, x) /\ Pointers(b, i, o, x, y, m) /\ "misused" \notin m
      BY <1>3, <2>2 DEF Paired
    <2>4. ~HasLeft(y)
      BY <1>4 DEF HasLeft
    <2>5. HasLeft(x) <=> ~y.knows
      BY <1>3, <2>3, <2>4 DEF Pointers
    <2>6. "misused" \notin mm
      BY <1>4, <2>3, <2>5 DEF HasLeft
    <2>7. ReaderTurn(b, j, xx)
      BY <2>1, <2>3, <2>5 DEF ReaderTurn
    <2>8. Pointers(b, j, r, xx, yy, mm)
      <3>1. Shut(j)
        <4>1. ~y.knows => W \in i.closed
          BY <1>1, <1>3 DEF Passed
        <4> QED BY <4>1 DEF Shut
      <3>2. "forgotten" \in mm \/ HasLeft(xx) \/ (W \in j.closed /\ j.telling > 0)
        <4>1. CASE ~y.knows
          BY <2>5, <4>1
        <4>2. CASE y.knows /\ (j.closing \/ (i.closed = j.closed /\ j.telling = 0))
          BY <4>2
        <4>3. CASE y.knows /\ ~j.closing /\ ~(i.closed = j.closed /\ j.telling = 0)
          <5>1. W \in j.closed
            BY <3>1, <4>3 DEF Shut
          <5>2. j.telling \in Nat
            BY DEF EndType
          <5> QED BY <4>3, <5>1, <5>2
        <4> QED BY <4>1, <4>2, <4>3
      <3>3. ~xx.knows \/ HasLeft(xx)
        BY <2>5
      <3>4. yy.life # "freed"
        BY <1>4
      <3>5. ~yy.knows => HasLeft(xx)
        BY <2>5
      <3> QED BY <3>1, <3>2, <3>3, <3>4, <3>5 DEF Pointers
    <2> QED BY <2>6, <2>7, <2>8 DEF Paired
  <1> QED BY <1>5, <1>6, <1>7, <1>8, <1>9 DEF PairInv

LEMMA ForwarderClosedKeeps ==
  ASSUME ForwardInv, ForwarderClosed, ~twice' => ~twice /\ ~(line'["in"].telling > 1)
  PROVE  ForwardInv'
  <1> DEFINE i == line["in"]
             o == line["out"]
             x == obj["in"]
             y == obj["out"]
             r == [o EXCEPT !.telling = @ - 1]
             j == IF y.knows THEN CloseGently(i, ReadWriteClosed, TRUE) ELSE i
             c == [line EXCEPT !["out"] = r]
  <1>1. "in" \in Sides /\ "out" \in Sides /\ Other("out") = "in"
    BY DEF Sides, Other
  <1>2. /\ PairInv(building, i, o, x, y, dropped, over, mishap, twice)
        /\ PairTypes(building, i, o, x, y)
    BY PairNow
  <1>3. i \in EndType /\ Sound(i) /\ o \in EndType /\ Sound(o) /\ x \in ObjType /\ y \in ObjType
    BY <1>2 DEF PairTypes
  <1>4. line \in [Sides -> EndType] /\ obj \in [Sides -> ObjType]
    BY DEF ForwardInv
  <1>5. o.telling > 0 /\ building' = building /\ dropped' = dropped /\ over' = over
    BY DEF ForwarderClosed, Calls
  <1>6. /\ r \in EndType /\ Sound(r) /\ r.closed = o.closed /\ r.watch = o.watch
        /\ r.telling = o.telling - 1 /\ R \in o.closed
    BY <1>3, <1>5, CallIs
  <1>7. Called("out") = c
    BY <1>1 DEF Called
  <1>8. c \in [Sides -> EndType] /\ c["in"] = i /\ c["out"] = r
    <2> HIDE DEF r
    <2> QED BY <1>1, <1>4, <1>6
  <1>9. /\ line' = [c EXCEPT !["in"] = j]
        /\ Leave("out", TRUE)
        /\ mishap' = (mishap \cup (IF y.life = "freed" \/ (y.knows /\ x.life = "freed") THEN {"misused"} ELSE {}))
             \cup (IF y.knows /\ (j.closing \/ (i.closed = j.closed /\ j.telling = 0)) THEN {"forgotten"} ELSE {})
    <2> HIDE DEF c
    <2> QED BY <1>1, <1>6, <1>7, <1>8 DEF ForwarderClosed, Misuse, Gone
  <1>10. /\ j \in EndType /\ Sound(j) /\ i.closed \subseteq j.closed
         /\ IF y.knows THEN /\ Shut(j) /\ R \in j.closed
                            /\ j.closed # i.closed => j.telling > 0
            ELSE j = i
    <2>1. CASE ~y.knows
      BY <1>3, <2>1
    <2>2. CASE y.knows
      <3> DEFINE yes == TRUE
                 e == CloseGently(i, ReadWriteClosed, yes)
      <3>1. yes \in BOOLEAN /\ yes /\ R \in ReadWriteClosed
        BY DEF ReadWriteClosed
      <3> HIDE DEF yes
      <3>2. /\ e \in EndType /\ Sound(e) /\ i.closed \subseteq e.closed /\ Shut(e)
            /\ R \in e.closed
            /\ IF (i.watch /\ R \in ReadWriteClosed) \/ (yes /\ e.closed # i.closed)
                 THEN e.telling = i.telling + 1
                 ELSE e.telling = i.telling /\ e.informed = i.informed
        BY <1>3, <3>1, GentlyIs
      <3>3. i.telling \in Nat
        BY <1>3 DEF EndType
      <3>4. e.closed # i.closed => e.telling > 0
        <4> HIDE DEF e, i
        <4> QED BY <3>1, <3>2, <3>3
      <3> HIDE DEF e
      <3>5. j = e
        BY <2>2 DEF e, yes
      <3> HIDE DEF j
      <3> QED BY <2>2, <3>2, <3>4, <3>5
    <2> QED BY <2>1, <2>2
  <1> HIDE DEF j, r
  <1>11. line' \in [Sides -> EndType] /\ line'["in"] = j /\ line'["out"] = r
    <2> HIDE DEF c, i, o
    <2> QED BY <1>1, <1>8, <1>9, <1>10
  <1>12. /\ obj' \in [Sides -> ObjType]
         /\ LET xx == obj'["in"]
                yy == obj'["out"]
            IN  /\ xx \in ObjType /\ yy \in ObjType
                /\ xx.life = x.life /\ xx.deletes = x.deletes /\ (HasLeft(xx) <=> HasLeft(x))
                /\ yy.life = y.life /\ yy.knows = y.knows /\ yy.deletes = y.deletes + 1 /\ HasLeft(yy)
                /\ (xx.knows <=> x.knows /\ ~y.knows)
    BY <1>1, <1>9, LeaveIs
  <1> DEFINE xx == obj'["in"]
             yy == obj'["out"]
  <1> HIDE DEF i, o, x, y, xx, yy
  <1>13. PairInv(building, j, r, xx, yy, dropped, over, mishap', twice')
    <2>1. ~twice' => ~twice /\ ~(j.telling > 1)
      BY <1>11
    <2> QED BY <1>2, <1>5, <1>6, <1>9, <1>10, <1>12, <2>1, ForwarderLeaves DEF xx, yy
  <1> QED BY <1>5, <1>11, <1>12, <1>13 DEF ForwardInv, xx, yy
----------------------------------------
(* deleteNext: the watcher stops, and the connection closes behind its *)
(* last byte. *)
LEMMA DeletedIs ==
  ASSUME NEW s \in EndType, Sound(s)
  PROVE  LET e == CloseGently([s EXCEPT !.watch = FALSE], ReadWriteClosed, FALSE) IN
         /\ e \in EndType /\ Sound(e) /\ s.closed \subseteq e.closed /\ Shut(e)
         /\ R \in e.closed /\ ~e.watch /\ e.telling = s.telling /\ e.informed = s.informed
  <1> DEFINE u == [s EXCEPT !.watch = FALSE]
             e == CloseGently(u, ReadWriteClosed, FALSE)
  <1>1. /\ u \in EndType /\ Sound(u) /\ u.closed = s.closed /\ ~u.watch
        /\ u.telling = s.telling /\ u.informed = s.informed
    BY BytesMove
  <1> HIDE DEF u
  <1>2. Moves(u, e) /\ Shut(e) /\ R \in e.closed
    BY <1>1, GentlyMoves DEF ReadWriteClosed
  <1> HIDE DEF e
  <1>3. /\ e \in EndType /\ Sound(e) /\ u.closed \subseteq e.closed
        /\ e.telling = u.telling /\ e.informed = u.informed
    BY <1>1, <1>2 DEF Moves
  <1>4. ~e.watch
    BY <1>2, <1>3 DEF Sound
  <1>5. /\ e \in EndType /\ Sound(e) /\ s.closed \subseteq e.closed /\ Shut(e)
        /\ R \in e.closed /\ ~e.watch /\ e.telling = s.telling /\ e.informed = s.informed
    BY <1>1, <1>2, <1>3, <1>4
  <1> QED BY ONLY <1>5 DEF e, u

LEMMA DeletedStep ==
  ASSUME ForwardInv, NEW s \in Sides, DeleteNext(s)
  PROVE  LET e == line'[s]
             z == obj'[s]
         IN  /\ line' \in [Sides -> EndType] /\ obj' \in [Sides -> ObjType]
             /\ \A r \in Sides : r # s => line'[r] = line[r] /\ obj'[r] = obj[r]
             /\ e \in EndType /\ Sound(e) /\ line[s].closed \subseteq e.closed /\ Shut(e)
             /\ R \in e.closed /\ ~e.watch /\ e.telling = line[s].telling /\ e.informed = line[s].informed
             /\ z \in ObjType /\ z.life = "freed" /\ z.knows = obj[s].knows
             /\ z.deletes = obj[s].deletes - 1 /\ HasLeft(z) /\ HasLeft(obj[s])
             /\ mishap' = mishap \cup (IF obj[s].life = "freed" THEN {"misused"} ELSE {})
             /\ building' = building /\ dropped' = dropped /\ over' = over
  <1> DEFINE z == [obj[s] EXCEPT !.deletes = @ - 1, !.life = "freed"]
             e == CloseGently([line[s] EXCEPT !.watch = FALSE], ReadWriteClosed, FALSE)
  <1>1. obj[s] \in ObjType /\ line[s] \in EndType /\ Sound(line[s])
    BY PairNow
  <1>2. /\ obj[s].deletes > 0 /\ line' = [line EXCEPT ![s] = e] /\ obj' = [obj EXCEPT ![s] = z]
        /\ mishap' = mishap \cup (IF obj[s].life = "freed" THEN {"misused"} ELSE {})
        /\ building' = building /\ dropped' = dropped /\ over' = over
    BY DEF DeleteNext, Gone
  <1>3. z \in ObjType /\ z.life = "freed" /\ z.knows = obj[s].knows /\ z.deletes = obj[s].deletes - 1 /\ HasLeft(z)
    BY <1>1, <1>2, FreedIs
  <1>4. /\ e \in EndType /\ Sound(e) /\ line[s].closed \subseteq e.closed /\ Shut(e)
        /\ R \in e.closed /\ ~e.watch /\ e.telling = line[s].telling /\ e.informed = line[s].informed
    BY <1>1, DeletedIs
  <1>5. HasLeft(obj[s])
    BY <1>2 DEF HasLeft
  <1> HIDE DEF e, z
  <1>6. /\ line' \in [Sides -> EndType] /\ line'[s] = e
        /\ \A r \in Sides : r # s => line'[r] = line[r]
    BY <1>2, <1>4, OnLines
  <1>7. /\ obj' \in [Sides -> ObjType] /\ obj'[s] = z
        /\ \A r \in Sides : r # s => obj'[r] = obj[r]
    BY <1>2, <1>3, OnObjects
  <1> QED BY <1>2, <1>3, <1>4, <1>5, <1>6, <1>7

LEMMA ReaderDeleted ==
  ASSUME ForwardInv, DeleteNext("in"), ~twice' => ~twice /\ ~(line'["in"].telling > 1)
  PROVE  ForwardInv'
  <1> DEFINE b == building
             i == line["in"]
             o == line["out"]
             x == obj["in"]
             y == obj["out"]
             j == line'["in"]
             z == obj'["in"]
  <1>1. "in" \in Sides /\ "out" \in Sides
    BY DEF Sides
  <1>2. /\ line' \in [Sides -> EndType] /\ obj' \in [Sides -> ObjType]
        /\ line'["out"] = o /\ obj'["out"] = y
        /\ j \in EndType /\ Sound(j) /\ i.closed \subseteq j.closed /\ Shut(j)
        /\ R \in j.closed /\ ~j.watch /\ j.telling = i.telling /\ j.informed = i.informed
        /\ z \in ObjType /\ z.life = "freed" /\ z.knows = x.knows
        /\ z.deletes = x.deletes - 1 /\ HasLeft(z) /\ HasLeft(x)
        /\ mishap' = mishap \cup (IF x.life = "freed" THEN {"misused"} ELSE {})
        /\ building' = building /\ dropped' = dropped /\ over' = over
    BY <1>1, DeletedStep
  <1>3. x.deletes > 0
    BY DEF DeleteNext
  <1>4. /\ PairInv(b, i, o, x, y, dropped, over, mishap, twice)
        /\ PairTypes(b, i, o, x, y) /\ Unbuilt(b, i, o, x, y) /\ OutTurn(b, o, y)
        /\ Passed(b, i, o, x, y, dropped, over)
        /\ x.deletes \in Nat /\ i.telling \in Nat
    BY <1>1, PairNow
  <1> HIDE DEF b, i, o, x, y, j, z
  <1>5. Begun(b)
    BY <1>3, <1>4 DEF Unbuilt
  <1>6. PairTypes(b, j, o, z, y) /\ Unbuilt(b, j, o, z, y)
    BY <1>2, <1>4, <1>5 DEF PairTypes, Unbuilt
  <1>7. Passed(b, j, o, z, y, dropped, over)
    BY <1>2, <1>4 DEF Passed
  <1>8. ASSUME ~twice', "raced" \notin mishap' PROVE Paired(b, j, o, z, y, mishap')
    <2>1. ~twice /\ "raced" \notin mishap
      BY <1>2, <1>8 DEF b
    <2>2. Paired(b, i, o, x, y, mishap)
      BY <1>4, <2>1 DEF PairInv
    <2>3. ReaderTurn(b, i, x) /\ Pointers(b, i, o, x, y, mishap) /\ "misused" \notin mishap
      BY <1>5, <2>2 DEF Paired
    <2>4. x.deletes + One(x.life = "freed") <= 1 /\ One(x.life = "freed") \in {0, 1}
      BY <2>3 DEF ReaderTurn, One
    <2>5. x.deletes = 1 /\ One(x.life = "freed") = 0
      BY <1>3, <1>4, <2>4
    <2>6. x.life # "freed" /\ mishap' = mishap
      BY <1>2, <2>5 DEF One
    <2>7. ReaderTurn(b, j, z)
      <3>1. z.deletes + One(z.life = "freed") <= 1
        BY <1>2, <2>5 DEF One
      <3>2. i.telling = 0 /\ R \in i.closed /\ W \in i.closed
        BY <1>2, <2>3 DEF ReaderTurn
      <3> QED BY <1>2, <3>1, <3>2 DEF ReaderTurn
    <2>8. Pointers(b, j, o, z, y, mishap)
      <3>1. i.telling = 0 /\ R \in i.closed
        BY <1>2, <2>3 DEF ReaderTurn
      <3> QED BY <1>2, <2>3, <3>1 DEF Pointers
    <2> QED BY <2>3, <2>6, <2>7, <2>8 DEF Paired
  <1>9. PairInv(b, j, o, z, y, dropped, over, mishap', twice')
    BY <1>4, <1>6, <1>7, <1>8 DEF PairInv
  <1> QED BY <1>2, <1>9 DEF ForwardInv, b, o, y, j, z

LEMMA ForwarderDeleted ==
  ASSUME ForwardInv, DeleteNext("out"), ~twice' => ~twice /\ ~(line'["in"].telling > 1)
  PROVE  ForwardInv'
  <1> DEFINE b == building
             i == line["in"]
             o == line["out"]
             x == obj["in"]
             y == obj["out"]
             q == line'["out"]
             z == obj'["out"]
  <1>1. "in" \in Sides /\ "out" \in Sides
    BY DEF Sides
  <1>2. /\ line' \in [Sides -> EndType] /\ obj' \in [Sides -> ObjType]
        /\ line'["in"] = i /\ obj'["in"] = x
        /\ q \in EndType /\ Sound(q) /\ o.closed \subseteq q.closed /\ Shut(q)
        /\ R \in q.closed /\ ~q.watch /\ q.telling = o.telling /\ q.informed = o.informed
        /\ z \in ObjType /\ z.life = "freed" /\ z.knows = y.knows
        /\ z.deletes = y.deletes - 1 /\ HasLeft(z) /\ HasLeft(y)
        /\ mishap' = mishap \cup (IF y.life = "freed" THEN {"misused"} ELSE {})
        /\ building' = building /\ dropped' = dropped /\ over' = over
    BY <1>1, DeletedStep
  <1>3. y.deletes > 0
    BY DEF DeleteNext
  <1>4. /\ PairInv(b, i, o, x, y, dropped, over, mishap, twice)
        /\ PairTypes(b, i, o, x, y) /\ Unbuilt(b, i, o, x, y) /\ OutTurn(b, o, y)
        /\ Passed(b, i, o, x, y, dropped, over)
        /\ y.deletes \in Nat /\ o.telling \in Nat
    BY <1>1, PairNow
  <1> HIDE DEF b, i, o, x, y, q, z
  <1>5. b \in {"built", "failed"}
    BY <1>3, <1>4 DEF Unbuilt
  <1>6. /\ y.deletes = 1 /\ y.life # "freed" /\ mishap' = mishap
        /\ b = "built" => o.telling = 0 /\ R \in o.closed
    <2>1. One(o.watch) \in {0, 1} /\ One(y.life = "freed") \in {0, 1}
      BY DEF One
    <2>2. /\ y.deletes = 1 /\ One(y.life = "freed") = 0
          /\ b = "built" => o.telling = 0 /\ One(o.watch) = 0
      <3>1. CASE b = "built"
        BY <1>3, <1>4, <2>1, <3>1 DEF OutTurn
      <3>2. CASE b = "failed"
        BY <1>3, <1>4, <2>1, <3>2 DEF Unbuilt
      <3> QED BY <1>5, <3>1, <3>2
    <2>3. b = "built" => R \in o.closed
      BY <1>4, <2>2 DEF OutTurn, One
    <2>4. y.life # "freed"
      BY <2>2 DEF One
    <2> QED BY <1>2, <2>2, <2>3, <2>4
  <1>7. z.deletes = 0 /\ One(z.life = "freed") = 1 /\ One(q.watch) = 0
    BY <1>2, <1>6 DEF One
  <1>8. PairTypes(b, i, q, x, z)
    BY <1>2, <1>4 DEF PairTypes
  <1>9. Unbuilt(b, i, q, x, z)
    BY <1>2, <1>4, <1>5, <1>7 DEF Unbuilt
  <1>10. OutTurn(b, q, z)
    BY <1>2, <1>6, <1>7 DEF OutTurn
  <1>11. Passed(b, i, q, x, z, dropped, over)
    BY <1>2, <1>4, <1>5, <1>6 DEF Passed, Begun
  <1>12. ASSUME ~twice', "raced" \notin mishap' PROVE Paired(b, i, q, x, z, mishap')
    <2>1. ~twice /\ "raced" \notin mishap
      BY <1>2, <1>12
    <2>2. Paired(b, i, o, x, y, mishap)
      BY <1>4, <2>1 DEF PairInv
    <2>3. Begun(b) => Pointers(b, i, q, x, z, mishap)
      <3>1. Begun(b) => Pointers(b, i, o, x, y, mishap)
        BY <2>2 DEF Paired
      <3> QED BY <1>2, <3>1 DEF Pointers
    <2> QED BY <1>6, <2>2, <2>3 DEF Paired
  <1>13. PairInv(b, i, q, x, z, dropped, over, mishap', twice')
    BY <1>8, <1>9, <1>10, <1>11, <1>12 DEF PairInv
  <1> QED BY <1>2, <1>13 DEF ForwardInv, b, i, x, q, z

LEMMA ForwardKept == ForwardInv /\ [RedirectNext]_redirectvars => ForwardInv'
  <1> SUFFICES ASSUME ForwardInv, [RedirectNext]_redirectvars
               PROVE  ForwardInv'
    OBVIOUS
  <1>1. CASE RedirectNext
    <2>1. RedirectStep /\ twice' = (twice \/ \E s \in Sides : line'[s].telling > 1)
      BY <1>1 DEF RedirectNext
    <2>2. ~twice' => ~twice /\ ~(line'["in"].telling > 1)
      BY <2>1 DEF Sides
    <2>3. CASE HandleRequest
      BY <2>2, <2>3, HandleRequestKeeps
    <2>4. CASE NewForwarder
      BY <2>2, <2>4, NewForwarderKeeps
    <2>5. CASE CannotDetach
      BY <2>2, <2>5, CannotDetachKeeps
    <2>6. CASE NewReader
      BY <2>2, <2>6, NewReaderKeeps
    <2>7. CASE AssignReader
      BY <2>2, <2>7, AssignReaderKeeps
    <2>8. CASE WatchDestination
      BY <2>2, <2>8, WatchDestinationKeeps
    <2>9. CASE ForwarderClosed
      BY <2>2, <2>9, ForwarderClosedKeeps
    <2>10. CASE ReaderClosed
      BY <2>2, <2>10, ReaderClosedKeeps
    <2>11. CASE ManagerStops
      BY <2>2, <2>11, ManagerStopsKeeps
    <2>12. ASSUME NEW s \in Sides, NewBytes(s) PROVE ForwardInv'
      BY <2>2, <2>12, NewBytesKeeps
    <2>13. ASSUME NEW s \in Sides, DeleteNext(s) PROVE ForwardInv'
      <3>1. s = "in" \/ s = "out"
        BY DEF Sides
      <3> QED BY <2>2, <2>13, <3>1, ReaderDeleted, ForwarderDeleted
    <2>14. ASSUME NEW s \in Sides, PeerEnds(s) \/ PeerResets(s) \/ Drain(s) PROVE ForwardInv'
      BY <2>2, <2>14, SocketsKeep
    <2> QED BY <2>1, <2>3, <2>4, <2>5, <2>6, <2>7, <2>8, <2>9, <2>10, <2>11, <2>12, <2>13, <2>14
            DEF RedirectStep
  <1>2. CASE UNCHANGED redirectvars
    BY <1>2 DEF redirectvars, ForwardInv
  <1> QED BY <1>1, <1>2

(* Two connections that forward to each other end as one: neither of their *)
(* objects is used after its end, the reply is not cut by the last word of *)
(* the client, and an end of one side reaches the other; except where the *)
(* code schedules a second closed(), or the client ends too early. *)
THEOREM ForwardsToTheEndHolds == RedirectSpec => []ForwardsToTheEnd
  <1>1. RedirectInit => ForwardInv
    BY ForwardBegins
  <1>2. ForwardInv => ForwardsToTheEnd
    BY ForwardNow
  <1> QED BY <1>1, <1>2, ForwardKept, PTL DEF RedirectSpec
========================================
