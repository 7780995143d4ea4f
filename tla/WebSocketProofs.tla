--------------------------- MODULE WebSocketProofs --------------------------
(****************************************)
(* Theorems about WSCommManager, for any number of connections and frames: *)
(* the three maps agree, what is told of a connection is in order and only *)
(* after its session was accepted, and no connection is left unread *)
(* without a reason. *)
(* *)
(* The invariant has one part per question: Line (what the network thread *)
(* has posted and may still post), Work (what the service thread has left *)
(* to do), Session (what a connection's session makes of it), Maps, and *)
(* Wakes (who reads the connection next). *)
(* *)
(* And about RMI, which sends its calls over these connections, for any *)
(* number of connections, requests, registrations and signals: every *)
(* callback gets the reply to its own request, in order, and nothing of a *)
(* connection that has gone is kept. *)
(****************************************)
EXTENDS WSCommManager, RMI, SequenceTheorems, FiniteSetTheorems, WellFoundedInduction, TLAPS

Mail == [op : {"eof", "closed"}] \cup [op : {"bytes"}, frames : Seq(Frame)]
Job  == [op : {"tell", "read"}, conn : Conns]
Tcp  == [st : {"none", "up", "gone"}, watch : BOOLEAN, eof : BOOLEAN,
         tell : {"no", "due", "done"}, sent : 0 .. MaxFrames]
Info == [conns : SUBSET Conns, verified : BOOLEAN, lastClosed : {"never", "recent", "old"}]

Types ==
  /\ checker \in BOOLEAN
  /\ tcp \in [Conns -> Tcp]
  /\ inbox \in [Conns -> Seq(Mail)]
  /\ buf \in [Conns -> Seq(Frame)]
  /\ work \in Seq(Job)
  /\ dataId \in [Conns -> {0} \cup Ids]
  /\ known \subseteq Ids /\ clientIds \subseteq Ids /\ checked \subseteq Ids
  /\ info \in [Ids -> Info]
  /\ issued \in Nat
  /\ checks \subseteq Ids \X Conns
  /\ told \in [Conns -> Seq({"new", "msg", "closed"})]

(* Bytes of c wait in its queue; c is about to be told of, or to be read. *)
Has(c)   == inbox[c] # <<>> /\ inbox[c][1].op = "bytes"
Reads(c) == \E i \in 1 .. Len(work) : work[i] = Read(c)
Tells(c) == \E i \in 1 .. Len(work) : work[i] = Tell(c)
Ok(c)    == info[dataId[c]].verified

Line(c) ==
  /\ tcp[c].watch =>
       tcp[c].st = "up" /\ ~tcp[c].eof /\ tcp[c].tell = "no" /\ inbox[c] = <<>> /\ ~Reads(c)
  /\ \A i \in 1 .. Len(inbox[c]) :
       IF inbox[c][i].op = "closed" THEN i = Len(inbox[c]) /\ tcp[c].tell = "done"
       ELSE i = 1 /\ (inbox[c][i].op = "eof" => tcp[c].eof)
  /\ inbox[c] # <<>> => tcp[c].st = "up"
  /\ tcp[c].st = "gone" => tcp[c].tell = "done"
  /\ tcp[c].st = "none" => ~tcp[c].eof /\ tcp[c].tell = "no" /\ told[c] = <<>>
  /\ tcp[c].st # "up" => dataId[c] = 0 /\ ~Reads(c)
  /\ Reads(c) => ~Has(c)

Work ==
  /\ \A i, j \in 1 .. Len(work) : work[i] = work[j] => i = j
  /\ \A i \in 1 .. Len(work), c \in Conns :
       /\ work[i] = Tell(c) => dataId[c] # 0 /\ told[c] = <<>> /\ Ok(c)
       /\ work[i] = Read(c) /\ dataId[c] # 0 /\ told[c] = <<>> => i > 1 /\ work[i - 1] = Tell(c)

Session(c) ==
  /\ dataId[c] = 0 =>
       /\ told[c] \in {<<>>, <<"closed">>, <<"new", "closed">>, <<"new", "msg", "closed">>}
       /\ told[c] # <<>> => ~Reads(c) /\ ~Has(c) /\ ~tcp[c].watch
  /\ dataId[c] # 0 =>
       /\ dataId[c] \in clientIds
       /\ told[c] \in {<<>>, <<"new">>, <<"new", "msg">>}
       /\ told[c] = <<>> => ~tcp[c].watch /\ ~Has(c)
       /\ Ok(c) => told[c] # <<>> \/ Tells(c)
       /\ ~Ok(c) => /\ checker /\ told[c] = <<>> /\ ~Reads(c)
                    /\ tcp[c].tell = "no" => <<dataId[c], c>> \in checks

Opened == {c \in Conns : dataId[c] # 0 \/ told[c] # <<>>}

Maps ==
  /\ clientIds \subseteq known
  /\ \A d \in known : d <= issued
  /\ \A p \in checks : p[1] <= issued
  /\ \A c \in Conns, d \in Ids : c \in info[d].conns <=> dataId[c] = d
  /\ \A d \in clientIds : checker /\ info[d].verified => d \in checked
  /\ issued <= Cardinality(Opened)

Wakes(c) ==
  tcp[c].st = "up" /\ ~tcp[c].eof /\ tcp[c].tell = "no" =>
    tcp[c].watch \/ Has(c) \/ Reads(c) \/ (dataId[c] # 0 /\ ~Ok(c))

WInv ==
  /\ Types /\ Work /\ Maps
  /\ \A c \in Conns : Line(c) /\ Session(c) /\ Wakes(c)

----------------------------------------
(* The network thread's record of a connection *)

LEMMA ShutFacts ==
  ASSUME NEW t \in [Conns -> Tcp], NEW c \in Conns
  PROVE  LET u == Shut(t, c)
         IN  /\ u \in [Conns -> Tcp]
             /\ u[c].st = t[c].st /\ ~u[c].watch /\ u[c].eof = t[c].eof
             /\ u[c].tell # "no" /\ (u[c].tell = "done" <=> t[c].tell = "done")
             /\ \A e \in Conns \ {c} : u[e] = t[e]
  <1> DEFINE u == Shut(t, c)
             l == IF t[c].tell = "no" THEN "due" ELSE t[c].tell
             r == [t[c] EXCEPT !.watch = FALSE, !.tell = l]
  <1>1. t[c] \in Tcp /\ l \in {"due", "done"} /\ (l = "done" <=> t[c].tell = "done")
    BY DEF Tcp
  <1>2. u = [t EXCEPT ![c] = r]
    BY <1>1 DEF Shut, Tcp
  <1> HIDE DEF l, u
  <1>3. /\ r \in Tcp /\ r.st = t[c].st /\ ~r.watch /\ r.eof = t[c].eof /\ r.tell = l
    BY <1>1 DEF Tcp
  <1> HIDE DEF r
  <1>4. QED
    BY <1>1, <1>2, <1>3 DEF u

LEMMA WatcherFacts ==
  ASSUME NEW t \in [Conns -> Tcp], NEW c \in Conns
  PROVE  LET u == StartReadWatcher(t, c)
         IN  /\ u \in [Conns -> Tcp]
             /\ u[c].st = t[c].st /\ u[c].eof = t[c].eof /\ u[c].tell = t[c].tell
             /\ ~t[c].eof /\ t[c].tell = "no" => u[c].watch
             /\ ~(~t[c].eof /\ t[c].tell = "no") => u[c].watch = t[c].watch
             /\ \A e \in Conns \ {c} : u[e] = t[e]
  <1> DEFINE u == StartReadWatcher(t, c)
             r == [t[c] EXCEPT !.watch = TRUE]
  <1>1. t[c] \in Tcp /\ t[c].eof \in BOOLEAN
    BY DEF Tcp
  <1>2. CASE t[c].eof \/ t[c].tell # "no"
    BY <1>1, <1>2 DEF StartReadWatcher
  <1>3. CASE ~(t[c].eof \/ t[c].tell # "no")
    <2>1. u = [t EXCEPT ![c] = r]
      BY <1>3 DEF StartReadWatcher
    <2>2. r \in Tcp /\ r.st = t[c].st /\ r.watch /\ r.eof = t[c].eof /\ r.tell = t[c].tell
      BY <1>1 DEF Tcp
    <2> HIDE DEF r, u
    <2> QED BY <1>1, <1>3, <2>1, <2>2 DEF u
  <1>4. QED
    BY <1>2, <1>3

----------------------------------------
(* The service thread's work *)

LEMMA TailWork ==
  ASSUME Types, Work, work # <<>>, work' = Tail(work)
  PROVE  /\ Len(work) \in Nat \ {0} /\ Len(work') = Len(work) - 1 /\ Head(work) = work[1]
         /\ \A i \in 1 .. Len(work') : work'[i] = work[i + 1] /\ i + 1 \in 1 .. Len(work)
         /\ \A e : Reads(e)' <=> Reads(e) /\ Head(work) # Read(e)
         /\ \A e : Tells(e)' <=> Tells(e) /\ Head(work) # Tell(e)
  <1>1. work \in Seq(Job)
    BY DEF Types
  <1>2. Len(work) \in Nat \ {0} /\ Len(work') = Len(work) - 1 /\ Head(work) = work[1]
    BY <1>1
  <1>3. \A i \in 1 .. Len(work') : work'[i] = work[i + 1] /\ i + 1 \in 1 .. Len(work)
    BY <1>1, <1>2, HeadTailProperties
  <1>4. \A i \in 1 .. Len(work) : i # 1 => work'[i - 1] = work[i] /\ i - 1 \in 1 .. Len(work')
    <2> TAKE i \in 1 .. Len(work)
    <2> HAVE i # 1
    <2>1. i - 1 \in 1 .. Len(work') /\ (i - 1) + 1 = i
      BY <1>2
    <2> QED BY <1>3, <2>1
  <1>5. \A i \in 1 .. Len(work) : work[i] = work[1] => i = 1
    BY <1>2 DEF Work
  <1>6. \A x : (\E i \in 1 .. Len(work') : work'[i] = x)
                 <=> (\E i \in 1 .. Len(work) : work[i] = x) /\ work[1] # x
    <2> TAKE x
    <2>1. ASSUME NEW i \in 1 .. Len(work'), work'[i] = x
          PROVE  (\E j \in 1 .. Len(work) : work[j] = x) /\ work[1] # x
      <3>1. i + 1 \in 1 .. Len(work) /\ work[i + 1] = x /\ i + 1 # 1
        BY <1>2, <1>3, <2>1
      <3> QED BY <1>5, <3>1
    <2>2. ASSUME NEW i \in 1 .. Len(work), work[i] = x, work[1] # x
          PROVE  \E j \in 1 .. Len(work') : work'[j] = x
      BY <1>4, <2>2
    <2> QED BY <2>1, <2>2
  <1> QED BY <1>2, <1>3, <1>6 DEF Reads, Tells

LEMMA TailKeeps ==
  ASSUME Types, Work, work # <<>>, work' = Tail(work),
         \A e \in Conns : Tells(e)' => dataId'[e] # 0 /\ told'[e] = <<>> /\ Ok(e)',
         \A e \in Conns : Reads(e)' /\ dataId'[e] # 0 /\ told'[e] = <<>> =>
                            dataId[e] # 0 /\ told[e] = <<>> /\ Head(work) # Tell(e)
  PROVE  Work'
  <1>1. /\ Len(work) \in Nat \ {0} /\ Len(work') = Len(work) - 1 /\ Head(work) = work[1]
        /\ \A i \in 1 .. Len(work') : work'[i] = work[i + 1] /\ i + 1 \in 1 .. Len(work)
    BY TailWork
  <1>2. \A i, j \in 1 .. Len(work') : work'[i] = work'[j] => i = j
    <2> TAKE i, j \in 1 .. Len(work')
    <2> HAVE work'[i] = work'[j]
    <2>1. i + 1 = j + 1
      BY <1>1 DEF Work
    <2> QED BY <1>1, <2>1
  <1>3. ASSUME NEW i \in 1 .. Len(work'), NEW c \in Conns, work'[i] = Read(c),
               dataId'[c] # 0, told'[c] = <<>>
        PROVE  i > 1 /\ work'[i - 1] = Tell(c)
    <2>1. dataId[c] # 0 /\ told[c] = <<>> /\ work[1] # Tell(c)
      BY <1>1, <1>3 DEF Reads
    <2>2. i + 1 \in 1 .. Len(work) /\ work[i + 1] = Read(c)
      BY <1>1, <1>3
    <2>3. work[(i + 1) - 1] = Tell(c)
      BY <2>1, <2>2 DEF Work
    <2>4. (i + 1) - 1 = i /\ i \in Nat /\ i # 0
      BY <1>1
    <2>5. i > 1
      BY <2>1, <2>3, <2>4
    <2>6. i - 1 \in 1 .. Len(work') /\ (i - 1) + 1 = i
      BY <1>1, <2>4, <2>5
    <2> QED BY <1>1, <2>3, <2>4, <2>5, <2>6
  <1>4. ASSUME NEW i \in 1 .. Len(work'), NEW c \in Conns, work'[i] = Tell(c)
        PROVE  dataId'[c] # 0 /\ told'[c] = <<>> /\ Ok(c)'
    BY <1>4 DEF Tells
  <1> QED BY <1>2, <1>3, <1>4 DEF Work

LEMMA SameWork ==
  ASSUME Work, work' = work,
         \A e \in Conns : Tells(e) => dataId'[e] # 0 /\ told'[e] = <<>> /\ Ok(e)',
         \A e \in Conns : Reads(e) /\ dataId'[e] # 0 /\ told'[e] = <<>> =>
                            dataId[e] # 0 /\ told[e] = <<>>
  PROVE  Work' /\ \A e : (Reads(e)' <=> Reads(e)) /\ (Tells(e)' <=> Tells(e))
  BY DEF Work, Reads, Tells

(* A connection that a step has nothing to do with. *)
LEMMA Aside ==
  ASSUME NEW c \in Conns, Line(c), Session(c), Wakes(c),
         tcp'[c] = tcp[c], inbox'[c] = inbox[c], dataId'[c] = dataId[c], told'[c] = told[c],
         checker' = checker, Reads(c)' <=> Reads(c), Tells(c)' <=> Tells(c),
         dataId[c] # 0 =>
           /\ dataId[c] \in clientIds' /\ (Ok(c)' <=> Ok(c))
           /\ <<dataId[c], c>> \in checks => <<dataId[c], c>> \in checks'
  PROVE  Line(c)' /\ Session(c)' /\ Wakes(c)'
  <1>1. Has(c)' <=> Has(c)
    BY DEF Has
  <1>2. Line(c)'
    BY <1>1 DEF Line
  <1>3. Session(c)'
    BY <1>1 DEF Session
  <1>4. Wakes(c)'
    BY <1>1 DEF Wakes
  <1> QED BY <1>2, <1>3, <1>4

----------------------------------------
(* The network thread *)

Rest == <<checker, work, dataId, known, info, clientIds, issued, checked, checks, told>>

LEMMA NetStep ==
  ASSUME WInv, NEW c \in Conns, UNCHANGED Rest,
         tcp' \in [Conns -> Tcp], inbox' \in [Conns -> Seq(Mail)], buf' \in [Conns -> Seq(Frame)],
         \A e \in Conns \ {c} : tcp'[e] = tcp[e] /\ inbox'[e] = inbox[e],
         Line(c)' /\ Session(c)' /\ Wakes(c)'
  PROVE  WInv'
  <1>1. Types'
    BY DEF WInv, Types, Rest
  <1>2. Work' /\ \A e : (Reads(e)' <=> Reads(e)) /\ (Tells(e)' <=> Tells(e))
    <2>1. \A e \in Conns : Tells(e) => dataId'[e] # 0 /\ told'[e] = <<>> /\ Ok(e)'
      BY DEF WInv, Work, Tells, Rest, Ok
    <2> QED BY <2>1, SameWork DEF WInv, Rest
  <1>3. Maps'
    <2>1. Opened' = Opened
      BY DEF Opened, Rest
    <2> QED BY <2>1 DEF WInv, Maps, Rest
  <1>4. ASSUME NEW e \in Conns \ {c} PROVE Line(e)' /\ Session(e)' /\ Wakes(e)'
    <2>1. /\ Line(e) /\ Session(e) /\ Wakes(e)
          /\ tcp'[e] = tcp[e] /\ inbox'[e] = inbox[e] /\ dataId'[e] = dataId[e] /\ told'[e] = told[e]
          /\ checker' = checker /\ (Reads(e)' <=> Reads(e)) /\ (Tells(e)' <=> Tells(e))
          /\ dataId[e] # 0 => dataId[e] \in clientIds' /\ (Ok(e)' <=> Ok(e)) /\ checks' = checks
      BY <1>2 DEF WInv, Rest, Session, Ok
    <2> QED BY <2>1, Aside
  <1> QED BY <1>1, <1>2, <1>3, <1>4 DEF WInv

LEMMA PostFacts ==
  ASSUME inbox \in [Conns -> Seq(Mail)], NEW c \in Conns, NEW m \in Mail, Post(c, m)
  PROVE  /\ inbox' \in [Conns -> Seq(Mail)]
         /\ Len(inbox[c]) \in Nat /\ Len(inbox'[c]) = Len(inbox[c]) + 1
         /\ inbox'[c][Len(inbox[c]) + 1] = m /\ inbox'[c] # <<>>
         /\ \A i \in 1 .. Len(inbox[c]) : inbox'[c][i] = inbox[c][i]
         /\ \A e \in Conns \ {c} : inbox'[e] = inbox[e]
         /\ inbox[c] = <<>> => Len(inbox'[c]) = 1 /\ inbox'[c][1] = m
  <1> DEFINE q == Append(inbox[c], m)
  <1>1. inbox[c] \in Seq(Mail) /\ q \in Seq(Mail)
    OBVIOUS
  <1>2. /\ Len(inbox[c]) \in Nat /\ Len(q) = Len(inbox[c]) + 1 /\ q[Len(inbox[c]) + 1] = m
        /\ \A i \in 1 .. Len(inbox[c]) : q[i] = inbox[c][i]
    BY <1>1
  <1>3. inbox' = [inbox EXCEPT ![c] = q]
    BY DEF Post
  <1>4. inbox[c] = <<>> => Len(q) = 1 /\ q[1] = m
    BY <1>1, <1>2
  <1> HIDE DEF q
  <1>5. q # <<>>
    BY <1>2
  <1> QED BY <1>1, <1>2, <1>3, <1>4, <1>5

(* What stays of a connection while only the network thread acts. *)
LEMMA SameMind ==
  ASSUME UNCHANGED Rest, NEW c
  PROVE  /\ dataId'[c] = dataId[c] /\ told'[c] = told[c] /\ (Ok(c)' <=> Ok(c))
         /\ (Reads(c)' <=> Reads(c)) /\ (Tells(c)' <=> Tells(c))
         /\ checker' = checker /\ checks' = checks /\ clientIds' = clientIds
  BY DEF Rest, Ok, Reads, Tells

LEMMA ReceiveKeeps == ASSUME NEW c \in Conns PROVE WInv /\ Receive(c) => WInv'
  <1> SUFFICES ASSUME WInv, Receive(c) PROVE WInv'
    OBVIOUS
  <1>1. PICK n \in 1 .. MaxFrames - tcp[c].sent : \E fs \in [1 .. n -> Frame] :
           /\ tcp' = [tcp EXCEPT ![c].watch = FALSE, ![c].sent = @ + n]
           /\ Post(c, [op |-> "bytes", frames |-> fs])
    BY DEF Receive
  <1>2. PICK fs \in [1 .. n -> Frame] :
           /\ tcp' = [tcp EXCEPT ![c].watch = FALSE, ![c].sent = @ + n]
           /\ Post(c, [op |-> "bytes", frames |-> fs])
    BY <1>1
  <1>3. UNCHANGED Rest /\ buf' = buf /\ tcp[c].watch
    BY DEF Receive, Rest, maps
  <1>4. /\ tcp \in [Conns -> Tcp] /\ inbox \in [Conns -> Seq(Mail)] /\ buf \in [Conns -> Seq(Frame)]
        /\ Line(c) /\ Session(c) /\ Wakes(c)
    BY DEF WInv, Types
  <1>5. /\ tcp' \in [Conns -> Tcp]
        /\ tcp'[c].st = tcp[c].st /\ ~tcp'[c].watch /\ tcp'[c].eof = tcp[c].eof
        /\ tcp'[c].tell = tcp[c].tell
        /\ \A e \in Conns \ {c} : tcp'[e] = tcp[e]
    <2> DEFINE k == tcp[c].sent + n
               r == [tcp[c] EXCEPT !.watch = FALSE, !.sent = k]
    <2>1. tcp[c] \in Tcp /\ k \in 0 .. MaxFrames
      BY <1>4, WSAssumption DEF Tcp
    <2>2. tcp' = [tcp EXCEPT ![c] = r]
      BY <1>2, <1>4
    <2> HIDE DEF k
    <2>3. /\ r \in Tcp /\ r.st = tcp[c].st /\ ~r.watch /\ r.eof = tcp[c].eof /\ r.tell = tcp[c].tell
      BY <2>1 DEF Tcp
    <2> HIDE DEF r
    <2> QED BY <1>4, <2>2, <2>3
  <1>6. [op |-> "bytes", frames |-> fs] \in Mail
    <2>1. n \in Nat
      BY <1>4
    <2>2. fs \in Seq(Frame)
      BY <2>1, IsASeq
    <2> QED BY <2>2 DEF Mail
  <1> DEFINE m == [op |-> "bytes", frames |-> fs]
  <1>7. m.op = "bytes" /\ m \in Mail /\ Post(c, m)
    BY <1>2, <1>6
  <1> HIDE DEF m
  <1>8. /\ inbox' \in [Conns -> Seq(Mail)] /\ Len(inbox'[c]) = 1 /\ inbox'[c][1] = m /\ inbox'[c] # <<>>
        /\ \A e \in Conns \ {c} : inbox'[e] = inbox[e]
    BY <1>3, <1>4, <1>7, PostFacts DEF Line
  <1>9. /\ dataId'[c] = dataId[c] /\ told'[c] = told[c] /\ (Ok(c)' <=> Ok(c))
        /\ (Reads(c)' <=> Reads(c)) /\ (Tells(c)' <=> Tells(c))
        /\ checker' = checker /\ checks' = checks /\ clientIds' = clientIds
    BY <1>3, SameMind
  <1>10. Line(c)' /\ Session(c)' /\ Wakes(c)'
    <2>1. Has(c)'
      BY <1>7, <1>8 DEF Has
    <2>2. Line(c)'
      BY <1>3, <1>4, <1>5, <1>7, <1>8, <1>9 DEF Line
    <2>3. Session(c)'
      BY <1>3, <1>4, <1>5, <1>9 DEF Session, Line
    <2>4. Wakes(c)'
      BY <2>1 DEF Wakes
    <2> QED BY <2>2, <2>3, <2>4
  <1> QED BY <1>3, <1>4, <1>5, <1>8, <1>10, NetStep

LEMMA EndOfStreamKeeps == ASSUME NEW c \in Conns PROVE WInv /\ EndOfStream(c) => WInv'
  <1> SUFFICES ASSUME WInv, EndOfStream(c) PROVE WInv'
    OBVIOUS
  <1> DEFINE m == [op |-> "eof"]
  <1>1. /\ UNCHANGED Rest /\ buf' = buf /\ tcp[c].watch /\ Post(c, m)
        /\ tcp' = [tcp EXCEPT ![c].watch = FALSE, ![c].eof = TRUE]
    BY DEF EndOfStream, Rest, maps
  <1>2. /\ tcp \in [Conns -> Tcp] /\ inbox \in [Conns -> Seq(Mail)] /\ buf \in [Conns -> Seq(Frame)]
        /\ Line(c) /\ Session(c) /\ Wakes(c)
    BY DEF WInv, Types
  <1>3. /\ tcp' \in [Conns -> Tcp]
        /\ tcp'[c].st = tcp[c].st /\ ~tcp'[c].watch /\ tcp'[c].eof /\ tcp'[c].tell = tcp[c].tell
        /\ \A e \in Conns \ {c} : tcp'[e] = tcp[e]
    <2> DEFINE r == [tcp[c] EXCEPT !.watch = FALSE, !.eof = TRUE]
    <2>1. tcp' = [tcp EXCEPT ![c] = r]
      BY <1>1, <1>2
    <2>2. tcp[c] \in Tcp
      BY <1>2
    <2>3. r \in Tcp /\ r.st = tcp[c].st /\ ~r.watch /\ r.eof /\ r.tell = tcp[c].tell
      BY <2>2 DEF Tcp
    <2> HIDE DEF r
    <2> QED BY <1>2, <2>1, <2>3
  <1>4. m \in Mail /\ m.op = "eof"
    BY DEF Mail
  <1> HIDE DEF m
  <1>5. /\ inbox' \in [Conns -> Seq(Mail)] /\ Len(inbox'[c]) = 1 /\ inbox'[c][1] = m /\ inbox'[c] # <<>>
        /\ \A e \in Conns \ {c} : inbox'[e] = inbox[e]
    BY <1>1, <1>2, <1>4, PostFacts DEF Line
  <1>6. /\ dataId'[c] = dataId[c] /\ told'[c] = told[c] /\ (Ok(c)' <=> Ok(c))
        /\ (Reads(c)' <=> Reads(c)) /\ (Tells(c)' <=> Tells(c))
        /\ checker' = checker /\ checks' = checks /\ clientIds' = clientIds
    BY <1>1, SameMind
  <1>7. Line(c)' /\ Session(c)' /\ Wakes(c)'
    <2>1. ~Has(c)'
      BY <1>4, <1>5 DEF Has
    <2>2. Line(c)'
      BY <1>1, <1>2, <1>3, <1>4, <1>5, <1>6, <2>1 DEF Line
    <2>3. Session(c)'
      BY <1>1, <1>2, <1>3, <1>6, <2>1 DEF Session
    <2>4. Wakes(c)'
      BY <1>3 DEF Wakes
    <2> QED BY <2>2, <2>3, <2>4
  <1> QED BY <1>1, <1>2, <1>3, <1>5, <1>7, NetStep

LEMMA LoseKeeps == ASSUME NEW c \in Conns PROVE WInv /\ Lose(c) => WInv'
  <1> SUFFICES ASSUME WInv, Lose(c) PROVE WInv'
    OBVIOUS
  <1>1. /\ UNCHANGED Rest /\ buf' = buf /\ inbox' = inbox /\ tcp' = Shut(tcp, c)
        /\ tcp[c].st = "up" /\ tcp[c].tell = "no"
    BY DEF Lose, Rest, maps
  <1>2. /\ tcp \in [Conns -> Tcp] /\ inbox \in [Conns -> Seq(Mail)] /\ buf \in [Conns -> Seq(Frame)]
        /\ Line(c) /\ Session(c) /\ Wakes(c)
    BY DEF WInv, Types
  <1>3. /\ tcp' \in [Conns -> Tcp]
        /\ tcp'[c].st = tcp[c].st /\ ~tcp'[c].watch /\ tcp'[c].eof = tcp[c].eof
        /\ tcp'[c].tell # "no" /\ (tcp'[c].tell = "done" <=> tcp[c].tell = "done")
        /\ \A e \in Conns \ {c} : tcp'[e] = tcp[e]
    BY <1>1, <1>2, ShutFacts
  <1>4. /\ dataId'[c] = dataId[c] /\ told'[c] = told[c] /\ (Ok(c)' <=> Ok(c))
        /\ (Reads(c)' <=> Reads(c)) /\ (Tells(c)' <=> Tells(c))
        /\ checker' = checker /\ checks' = checks /\ clientIds' = clientIds
        /\ (Has(c)' <=> Has(c))
    BY <1>1, SameMind DEF Has
  <1>5. Line(c)' /\ Session(c)' /\ Wakes(c)'
    <2>1. Line(c)'
      BY <1>1, <1>2, <1>3, <1>4 DEF Line
    <2>2. Session(c)'
      BY <1>2, <1>3, <1>4 DEF Session
    <2>3. Wakes(c)'
      BY <1>3 DEF Wakes
    <2> QED BY <2>1, <2>2, <2>3
  <1> QED BY <1>1, <1>2, <1>3, <1>5, NetStep

LEMMA TellClosedKeeps == ASSUME NEW c \in Conns PROVE WInv /\ TellClosed(c) => WInv'
  <1> SUFFICES ASSUME WInv, TellClosed(c) PROVE WInv'
    OBVIOUS
  <1> DEFINE m == [op |-> "closed"]
  <1>1. /\ UNCHANGED Rest /\ buf' = buf /\ Post(c, m) /\ tcp[c].tell = "due"
        /\ tcp' = [tcp EXCEPT ![c].tell = "done"]
    BY DEF TellClosed, Rest, maps
  <1>2. /\ tcp \in [Conns -> Tcp] /\ inbox \in [Conns -> Seq(Mail)] /\ buf \in [Conns -> Seq(Frame)]
        /\ Line(c) /\ Session(c) /\ Wakes(c)
    BY DEF WInv, Types
  <1>3. /\ tcp' \in [Conns -> Tcp]
        /\ tcp'[c].st = tcp[c].st /\ tcp'[c].watch = tcp[c].watch /\ tcp'[c].eof = tcp[c].eof
        /\ tcp'[c].tell = "done"
        /\ \A e \in Conns \ {c} : tcp'[e] = tcp[e]
    <2> DEFINE r == [tcp[c] EXCEPT !.tell = "done"]
    <2>1. tcp' = [tcp EXCEPT ![c] = r]
      BY <1>1, <1>2
    <2>2. tcp[c] \in Tcp
      BY <1>2
    <2>3. r \in Tcp /\ r.st = tcp[c].st /\ r.watch = tcp[c].watch /\ r.eof = tcp[c].eof /\ r.tell = "done"
      BY <2>2 DEF Tcp
    <2> HIDE DEF r
    <2> QED BY <1>2, <2>1, <2>3
  <1>4. m \in Mail /\ m.op = "closed"
    BY DEF Mail
  <1> HIDE DEF m
  <1>5. /\ inbox' \in [Conns -> Seq(Mail)]
        /\ Len(inbox[c]) \in Nat /\ Len(inbox'[c]) = Len(inbox[c]) + 1
        /\ inbox'[c][Len(inbox[c]) + 1] = m /\ inbox'[c] # <<>>
        /\ \A i \in 1 .. Len(inbox[c]) : inbox'[c][i] = inbox[c][i]
        /\ \A e \in Conns \ {c} : inbox'[e] = inbox[e]
        /\ inbox[c] = <<>> => inbox'[c][1] = m
    BY <1>1, <1>2, <1>4, PostFacts
  <1>6. /\ dataId'[c] = dataId[c] /\ told'[c] = told[c] /\ (Ok(c)' <=> Ok(c))
        /\ (Reads(c)' <=> Reads(c)) /\ (Tells(c)' <=> Tells(c))
        /\ checker' = checker /\ checks' = checks /\ clientIds' = clientIds
    BY <1>1, SameMind
  <1>7. Has(c)' <=> Has(c)
    <2>1. CASE inbox[c] = <<>>
      BY <1>4, <1>5, <2>1 DEF Has
    <2>2. CASE inbox[c] # <<>>
      <3>1. 1 \in 1 .. Len(inbox[c])
        BY <1>2, <2>2
      <3> QED BY <1>5, <2>2, <3>1 DEF Has
    <2> QED BY <2>1, <2>2
  <1>8. Line(c)' /\ Session(c)' /\ Wakes(c)'
    <2>1. \A i \in 1 .. Len(inbox[c]) :
            inbox[c][i].op # "closed" /\ i = 1 /\ (inbox[c][i].op = "eof" => tcp[c].eof)
      BY <1>1, <1>2 DEF Line
    <2>2. ASSUME NEW i \in 1 .. Len(inbox'[c])
          PROVE  IF inbox'[c][i].op = "closed" THEN i = Len(inbox'[c])
                 ELSE i = 1 /\ (inbox'[c][i].op = "eof" => tcp'[c].eof)
      <3>1. i \in 1 .. Len(inbox[c]) \/ i = Len(inbox[c]) + 1
        BY <1>5
      <3> QED BY <1>3, <1>4, <1>5, <2>1, <3>1
    <2>3. tcp[c].st = "up"
      BY <1>1, <1>2 DEF Line, Tcp
    <2>4. Line(c)'
      BY <1>1, <1>2, <1>3, <1>5, <1>6, <1>7, <2>2, <2>3 DEF Line
    <2>5. Session(c)'
      BY <1>2, <1>3, <1>6, <1>7 DEF Session
    <2>6. Wakes(c)'
      BY <1>3 DEF Wakes
    <2> QED BY <2>4, <2>5, <2>6
  <1> QED BY <1>1, <1>2, <1>3, <1>5, <1>8, NetStep

LEMMA AddConnectionKeeps == ASSUME NEW c \in Conns PROVE WInv /\ AddConnection(c) => WInv'
  <1> SUFFICES ASSUME WInv, AddConnection(c) PROVE WInv'
    OBVIOUS
  <1>1. /\ UNCHANGED Rest /\ buf' = buf /\ inbox' = inbox /\ tcp[c].st = "none"
        /\ tcp' = [tcp EXCEPT ![c].st = "up", ![c].watch = TRUE]
    BY DEF AddConnection, Rest, maps
  <1>2. /\ tcp \in [Conns -> Tcp] /\ inbox \in [Conns -> Seq(Mail)] /\ buf \in [Conns -> Seq(Frame)]
        /\ Line(c) /\ Session(c) /\ Wakes(c)
    BY DEF WInv, Types
  <1>3. /\ tcp' \in [Conns -> Tcp]
        /\ tcp'[c].st = "up" /\ tcp'[c].watch /\ tcp'[c].eof = tcp[c].eof
        /\ tcp'[c].tell = tcp[c].tell
        /\ \A e \in Conns \ {c} : tcp'[e] = tcp[e]
    <2> DEFINE r == [tcp[c] EXCEPT !.st = "up", !.watch = TRUE]
    <2>1. tcp' = [tcp EXCEPT ![c] = r]
      BY <1>1, <1>2
    <2>2. tcp[c] \in Tcp
      BY <1>2
    <2>3. r \in Tcp /\ r.st = "up" /\ r.watch /\ r.eof = tcp[c].eof /\ r.tell = tcp[c].tell
      BY <2>2 DEF Tcp
    <2> HIDE DEF r
    <2> QED BY <1>2, <2>1, <2>3
  <1>4. /\ dataId'[c] = dataId[c] /\ told'[c] = told[c] /\ (Ok(c)' <=> Ok(c))
        /\ (Reads(c)' <=> Reads(c)) /\ (Tells(c)' <=> Tells(c))
        /\ checker' = checker /\ checks' = checks /\ clientIds' = clientIds
        /\ (Has(c)' <=> Has(c))
    BY <1>1, SameMind DEF Has
  <1>5. dataId[c] = 0 /\ told[c] = <<>> /\ ~Reads(c) /\ inbox[c] = <<>> /\ ~tcp[c].eof /\ tcp[c].tell = "no"
    BY <1>1, <1>2 DEF Line
  <1>6. Line(c)' /\ Session(c)' /\ Wakes(c)'
    <2>1. Line(c)'
      BY <1>1, <1>2, <1>3, <1>4, <1>5 DEF Line
    <2>2. Session(c)'
      BY <1>2, <1>3, <1>4, <1>5 DEF Session
    <2>3. Wakes(c)'
      BY <1>3 DEF Wakes
    <2> QED BY <2>1, <2>2, <2>3
  <1> QED BY <1>1, <1>2, <1>3, <1>6, NetStep

----------------------------------------
(* The service thread takes what the network thread has posted. *)

(* A step about connection c and, at most, its session. *)
LEMMA OneStep ==
  ASSUME WInv, NEW c \in Conns, Types', Work', Maps', Line(c)' /\ Session(c)' /\ Wakes(c)',
         checker' = checker,
         \A e \in Conns \ {c} :
           /\ tcp'[e] = tcp[e] /\ inbox'[e] = inbox[e] /\ dataId'[e] = dataId[e] /\ told'[e] = told[e]
           /\ (Reads(e)' <=> Reads(e)) /\ (Tells(e)' <=> Tells(e))
           /\ dataId[e] # 0 =>
                /\ dataId[e] \in clientIds' /\ (Ok(e)' <=> Ok(e))
                /\ <<dataId[e], e>> \in checks => <<dataId[e], e>> \in checks'
  PROVE  WInv'
  <1>1. ASSUME NEW e \in Conns \ {c} PROVE Line(e)' /\ Session(e)' /\ Wakes(e)'
    <2>1. Line(e) /\ Session(e) /\ Wakes(e)
      BY DEF WInv
    <2> QED BY <2>1, Aside
  <1> QED BY <1>1 DEF WInv

LEMMA TakeFacts ==
  ASSUME inbox \in [Conns -> Seq(Mail)], NEW c \in Conns, Line(c), inbox[c] # <<>>,
         inbox' = [inbox EXCEPT ![c] = Tail(@)]
  PROVE  /\ inbox' \in [Conns -> Seq(Mail)]
         /\ Head(inbox[c]) = inbox[c][1] /\ Head(inbox[c]) \in Mail
         /\ \A e \in Conns \ {c} : inbox'[e] = inbox[e]
         /\ \A i \in 1 .. Len(inbox'[c]) :
              inbox'[c][i].op = "closed" /\ i = Len(inbox'[c]) /\ tcp[c].tell = "done"
         /\ ~Has(c)' /\ tcp[c].st = "up" /\ ~tcp[c].watch
         /\ Head(inbox[c]).op = "closed" => inbox'[c] = <<>> /\ tcp[c].tell = "done"
  <1> DEFINE q == Tail(inbox[c])
  <1>1. inbox[c] \in Seq(Mail) /\ q \in Seq(Mail)
    OBVIOUS
  <1>2. /\ Len(inbox[c]) \in Nat \ {0} /\ Len(q) = Len(inbox[c]) - 1
        /\ Head(inbox[c]) = inbox[c][1] /\ Head(inbox[c]) \in Mail
    BY <1>1
  <1>3. \A i \in 1 .. Len(q) : q[i] = inbox[c][i + 1] /\ i + 1 \in 1 .. Len(inbox[c]) /\ i + 1 # 1
    BY <1>1, <1>2, HeadTailProperties
  <1>4. inbox' = [inbox EXCEPT ![c] = q]
    OBVIOUS
  <1> HIDE DEF q
  <1>5. inbox' \in [Conns -> Seq(Mail)] /\ inbox'[c] = q /\ \A e \in Conns \ {c} : inbox'[e] = inbox[e]
    BY <1>1, <1>4
  <1>6. ASSUME NEW i \in 1 .. Len(q) PROVE q[i].op = "closed" /\ i = Len(q) /\ tcp[c].tell = "done"
    <2>1. inbox[c][i + 1].op = "closed" /\ i + 1 = Len(inbox[c]) /\ tcp[c].tell = "done"
      BY <1>3 DEF Line
    <2> QED BY <1>2, <1>3, <2>1
  <1>7. ~Has(c)'
    <2> SUFFICES ASSUME q # <<>> PROVE q[1].op # "bytes"
      BY <1>5 DEF Has
    <2>1. 1 \in 1 .. Len(q)
      BY <1>1
    <2> QED BY <1>6, <2>1
  <1>8. Head(inbox[c]).op = "closed" => q = <<>> /\ tcp[c].tell = "done"
    <2> SUFFICES ASSUME inbox[c][1].op = "closed" PROVE q = <<>> /\ tcp[c].tell = "done"
      BY <1>2
    <2>1. 1 \in 1 .. Len(inbox[c])
      BY <1>2
    <2>2. 1 = Len(inbox[c]) /\ tcp[c].tell = "done"
      BY <2>1 DEF Line
    <2>3. Len(q) = 0
      BY <1>2, <2>2
    <2> QED BY <1>1, <2>2, <2>3, EmptySeq
  <1>9. tcp[c].st = "up" /\ ~tcp[c].watch
    BY DEF Line
  <1> QED BY <1>2, <1>5, <1>6, <1>7, <1>8, <1>9

LEMMA IdleFacts == ASSUME Idle PROVE \A e : ~Reads(e) /\ ~Tells(e)
  <1>1. Len(work) = 0
    BY DEF Idle
  <1> QED BY <1>1 DEF Reads, Tells

LEMMA NewBytesKeeps == ASSUME NEW c \in Conns PROVE WInv /\ NewBytesAvailable(c) => WInv'
  <1> SUFFICES ASSUME WInv, NewBytesAvailable(c) PROVE WInv'
    OBVIOUS
  <1>1. /\ Idle /\ inbox[c] # <<>> /\ Head(inbox[c]).op = "bytes"
        /\ inbox' = [inbox EXCEPT ![c] = Tail(@)]
        /\ buf' = [buf EXCEPT ![c] = @ \o Head(inbox[c]).frames]
        /\ work' = <<Read(c)>>
        /\ UNCHANGED <<checker, tcp, dataId, known, info, clientIds, issued, checked, checks, told>>
    BY DEF NewBytesAvailable, maps
  <1>2. Types /\ Line(c) /\ Session(c) /\ Wakes(c)
    BY DEF WInv
  <1>3. /\ inbox' \in [Conns -> Seq(Mail)]
        /\ Head(inbox[c]) = inbox[c][1] /\ Head(inbox[c]) \in Mail
        /\ \A e \in Conns \ {c} : inbox'[e] = inbox[e]
        /\ \A i \in 1 .. Len(inbox'[c]) :
             inbox'[c][i].op = "closed" /\ i = Len(inbox'[c]) /\ tcp[c].tell = "done"
        /\ ~Has(c)' /\ tcp[c].st = "up" /\ ~tcp[c].watch
    BY <1>1, <1>2, TakeFacts DEF Types
  <1>4. Has(c)
    BY <1>1, <1>3 DEF Has
  <1>5. Len(work') = 1 /\ work'[1] = Read(c) /\ work' \in Seq(Job)
    BY <1>1 DEF Read, Job
  <1>6. /\ Reads(c)' /\ \A e \in Conns \ {c} : ~Reads(e)' /\ ~Tells(e)'
        /\ ~Tells(c)' /\ \A e : ~Reads(e) /\ ~Tells(e)
    <2>1. \A e : ~Reads(e) /\ ~Tells(e)
      BY <1>1, IdleFacts
    <2>2. \A i \in 1 .. Len(work') : i = 1
      BY <1>5
    <2>3. 1 \in 1 .. Len(work')
      BY <1>5
    <2> QED BY <1>5, <2>1, <2>2, <2>3 DEF Reads, Tells, Read, Tell
  <1>7. Types'
    <2>1. Head(inbox[c]).frames \in Seq(Frame)
      BY <1>1, <1>3 DEF Mail
    <2>2. buf' \in [Conns -> Seq(Frame)]
      BY <1>1, <1>2, <2>1 DEF Types
    <2> QED BY <1>1, <1>2, <1>3, <1>5, <2>2 DEF Types
  <1>8. dataId[c] # 0 => told[c] # <<>>
    BY <1>2, <1>4 DEF Session
  <1>9. Work'
    <2>1. \A i \in 1 .. Len(work') : i = 1
      BY <1>5
    <2> QED BY <1>1, <1>5, <1>8, <2>1 DEF Work, Read, Tell
  <1>10. Maps'
    BY <1>1 DEF WInv, Maps, Opened
  <1>11. Ok(c)' <=> Ok(c)
    BY <1>1 DEF Ok
  <1>12. Line(c)'
    BY <1>1, <1>2, <1>3 DEF Line
  <1>13. Session(c)'
    BY <1>1, <1>2, <1>3, <1>4, <1>6, <1>8, <1>11 DEF Session
  <1>14. Wakes(c)'
    BY <1>6 DEF Wakes
  <1>15. ASSUME NEW e \in Conns \ {c}
         PROVE  dataId[e] # 0 => dataId[e] \in clientIds' /\ (Ok(e)' <=> Ok(e))
    BY <1>1 DEF WInv, Session, Ok
  <1> QED BY <1>1, <1>3, <1>6, <1>7, <1>9, <1>10, <1>12, <1>13, <1>14, <1>15, OneStep

LEMMA AppendOne == ASSUME NEW S, NEW x \in S PROVE Append(<<>>, x) = <<x>>
  OBVIOUS

LEMMA AppendTwo == ASSUME NEW S, NEW x \in S, NEW y \in S PROVE Append(<<x>>, y) = <<x, y>>
  <1> DEFINE a == Append(<<x>>, y)
             b == <<x, y>>
  <1>1. <<x>> \in Seq(S) /\ b \in Seq(S)
    OBVIOUS
  <1>2. a \in Seq(S)
    BY <1>1
  <1>3. Len(a) = 2 /\ Len(b) = 2 /\ a[1] = x /\ a[2] = y /\ b[1] = x /\ b[2] = y
    OBVIOUS
  <1> HIDE DEF a, b
  <1>4. \A i \in 1 .. 2 : a[i] = b[i]
    BY <1>3
  <1> QED BY <1>1, <1>2, <1>3, <1>4, SeqEqual DEF a, b

LEMMA AppendThree ==
  ASSUME NEW S, NEW x \in S, NEW y \in S, NEW z \in S PROVE Append(<<x, y>>, z) = <<x, y, z>>
  <1> DEFINE a == Append(<<x, y>>, z)
             b == <<x, y, z>>
  <1>1. <<x, y>> \in Seq(S) /\ b \in Seq(S)
    OBVIOUS
  <1>2. a \in Seq(S)
    BY <1>1
  <1>3. /\ Len(a) = 3 /\ Len(b) = 3
        /\ a[1] = x /\ a[2] = y /\ a[3] = z /\ b[1] = x /\ b[2] = y /\ b[3] = z
    OBVIOUS
  <1> HIDE DEF a, b
  <1>4. \A i \in 1 .. 3 : a[i] = b[i]
    BY <1>3
  <1> QED BY <1>1, <1>2, <1>3, <1>4, SeqEqual DEF a, b

LEMMA AppendFacts ==
  /\ Append(<<>>, "new") = <<"new">>
  /\ Append(<<>>, "closed") = <<"closed">>
  /\ Append(<<"new">>, "msg") = <<"new", "msg">>
  /\ Append(<<"new">>, "closed") = <<"new", "closed">>
  /\ Append(<<"new", "msg">>, "closed") = <<"new", "msg", "closed">>
  <1> DEFINE S == {"new", "msg", "closed"}
  <1>1. "new" \in S /\ "msg" \in S /\ "closed" \in S
    OBVIOUS
  <1> HIDE DEF S
  <1> QED BY <1>1, AppendOne, AppendTwo, AppendThree

(* A connection leaves its session. *)
LEMMA LeaveFacts ==
  ASSUME WInv, NEW c \in Conns, dataId[c] # 0, Leave(c),
         UNCHANGED <<checker, known, clientIds, issued, checks>>, Opened' = Opened
  PROVE  /\ dataId' \in [Conns -> {0} \cup Ids] /\ dataId'[c] = 0
         /\ info' \in [Ids -> Info] /\ checked' \subseteq Ids
         /\ \A e \in Conns \ {c} :
              dataId'[e] = dataId[e] /\ (dataId[e] # 0 => (Ok(e)' <=> Ok(e)))
         /\ Maps'
  <1> DEFINE d    == dataId[c]
             rest == info[d].conns \ {c}
             v    == IF rest # {} THEN info[d].verified ELSE FALSE
             l    == IF rest = {} THEN "recent" ELSE info[d].lastClosed
             r    == [info[d] EXCEPT !.conns = rest, !.verified = v, !.lastClosed = l]
  <1>1. Types /\ d \in Ids /\ info[d] \in Info /\ Maps
    BY DEF WInv, Types
  <1>2. rest \in SUBSET Conns /\ v \in BOOLEAN /\ l \in {"never", "recent", "old"}
    BY <1>1 DEF Info
  <1>3. info' = [info EXCEPT ![d] = r]
    <2>1. v = (info[d].verified /\ rest # {})
      BY <1>1 DEF Info
    <2> HIDE DEF v, rest, d
    <2>2. info' = [info EXCEPT ![d].conns = rest, ![d].verified = @ /\ rest # {},
                               ![d].lastClosed = IF rest = {} THEN "recent" ELSE @]
      BY DEF Leave, d, rest
    <2> QED BY <1>1, <2>1, <2>2 DEF Types
  <1>4. r \in Info /\ r.conns = rest /\ r.verified = v
    <2> HIDE DEF rest, v, l, d
    <2> QED BY <1>1, <1>2 DEF Info
  <1>5. dataId' = [dataId EXCEPT ![c] = 0]
        /\ checked' = IF rest = {} THEN checked \ {d} ELSE checked
    BY DEF Leave
  <1>6. \A x \in Ids, e \in Conns : e \in info[x].conns <=> dataId[e] = x
    BY <1>1 DEF Maps
  <1>7. 0 \notin Ids
    BY DEF Ids
  <1> HIDE DEF r
  <1>8. info' \in [Ids -> Info] /\ info'[d] = r /\ \A x \in Ids \ {d} : info'[x] = info[x]
    BY <1>1, <1>3, <1>4 DEF Types
  <1>9. dataId' \in [Conns -> {0} \cup Ids] /\ dataId'[c] = 0 /\ \A e \in Conns \ {c} : dataId'[e] = dataId[e]
    BY <1>1, <1>5 DEF Types
  <1>10. ASSUME NEW e \in Conns \ {c}, dataId[e] # 0 PROVE Ok(e)' <=> Ok(e)
    <2>1. dataId[e] \in Ids
      BY <1>1, <1>10 DEF Types
    <2>2. CASE dataId[e] = d
      <3>1. e \in rest
        BY <1>6, <2>1, <2>2
      <3>2. v = info[d].verified
        BY <3>1
      <3> HIDE DEF v
      <3> QED BY <1>4, <1>8, <1>9, <2>2, <3>2 DEF Ok
    <2>3. CASE dataId[e] # d
      BY <1>8, <1>9, <2>1, <2>3 DEF Ok
    <2> QED BY <2>2, <2>3
  <1>11. \A x \in Ids, e \in Conns : e \in info'[x].conns <=> dataId'[e] = x
    <2> TAKE x \in Ids, e \in Conns
    <2>1. CASE x = d
      BY <1>4, <1>6, <1>7, <1>8, <1>9, <2>1
    <2>2. CASE x # d
      BY <1>6, <1>7, <1>8, <1>9, <2>2
    <2> QED BY <2>1, <2>2
  <1>12. \A x \in clientIds : checker /\ info'[x].verified => x \in checked'
    <2> TAKE x \in clientIds
    <2> HAVE checker /\ info'[x].verified
    <2>0. x \in Ids /\ checked \subseteq Ids
      BY <1>1 DEF Types
    <2>1. CASE x = d
      <3>1. v
        BY <1>4, <1>8, <2>1
      <3>2. rest # {} /\ info[d].verified
        BY <3>1
      <3>3. d \in checked
        BY <1>1, <2>1, <3>2 DEF Maps
      <3> QED BY <1>5, <2>1, <3>2, <3>3
    <2>2. CASE x # d
      <3>1. info[x].verified
        BY <1>8, <2>0, <2>2
      <3>2. x \in checked
        BY <1>1, <3>1 DEF Maps
      <3> QED BY <1>5, <2>2, <3>2
    <2> QED BY <2>1, <2>2
  <1>13. Maps'
    BY <1>1, <1>11, <1>12 DEF Maps
  <1>14. checked' \subseteq Ids
    BY <1>1, <1>5 DEF Types
  <1> QED BY <1>8, <1>9, <1>10, <1>13, <1>14

LEMMA ClosedKeeps == ASSUME NEW c \in Conns PROVE WInv /\ Closed(c) => WInv'
  <1> SUFFICES ASSUME WInv, Closed(c) PROVE WInv'
    OBVIOUS
  <1>1. /\ Idle /\ inbox[c] # <<>> /\ Head(inbox[c]).op \in {"eof", "closed"}
        /\ inbox' = [inbox EXCEPT ![c] = Tail(@)]
        /\ tcp' = IF Head(inbox[c]).op = "eof" THEN Shut(tcp, c) ELSE [tcp EXCEPT ![c].st = "gone"]
        /\ UNCHANGED <<checker, buf, work, checks, known, clientIds, issued>>
    BY DEF Closed, maps
  <1>2. Types /\ Line(c) /\ Session(c) /\ Wakes(c) /\ Maps
    BY DEF WInv
  <1>3. /\ inbox' \in [Conns -> Seq(Mail)]
        /\ \A e \in Conns \ {c} : inbox'[e] = inbox[e]
        /\ \A i \in 1 .. Len(inbox'[c]) :
             inbox'[c][i].op = "closed" /\ i = Len(inbox'[c]) /\ tcp[c].tell = "done"
        /\ ~Has(c)' /\ tcp[c].st = "up" /\ ~tcp[c].watch
        /\ Head(inbox[c]).op = "closed" => inbox'[c] = <<>> /\ tcp[c].tell = "done"
    BY <1>1, <1>2, TakeFacts DEF Types
  <1>4. /\ \A e : ~Reads(e) /\ ~Tells(e)
        /\ \A e : (Reads(e)' <=> Reads(e)) /\ (Tells(e)' <=> Tells(e))
    BY <1>1, IdleFacts DEF Reads, Tells
  <1>5. /\ tcp' \in [Conns -> Tcp] /\ ~tcp'[c].watch
        /\ \A e \in Conns \ {c} : tcp'[e] = tcp[e]
        /\ \/ tcp'[c].st = "up" /\ tcp'[c].tell # "no" /\ (tcp'[c].tell = "done" <=> tcp[c].tell = "done")
           \/ tcp'[c].st = "gone" /\ tcp'[c].tell = "done" /\ inbox'[c] = <<>>
    <2>1. CASE Head(inbox[c]).op = "eof"
      <3>1. tcp' = Shut(tcp, c) /\ tcp \in [Conns -> Tcp]
        BY <1>1, <1>2, <2>1 DEF Types
      <3>2. /\ tcp' \in [Conns -> Tcp] /\ tcp'[c].st = tcp[c].st /\ ~tcp'[c].watch
            /\ tcp'[c].tell # "no" /\ (tcp'[c].tell = "done" <=> tcp[c].tell = "done")
            /\ \A e \in Conns \ {c} : tcp'[e] = tcp[e]
        BY <3>1, ShutFacts
      <3> QED BY <1>3, <3>2
    <2>2. CASE Head(inbox[c]).op = "closed"
      <3> DEFINE r == [tcp[c] EXCEPT !.st = "gone"]
      <3>1. tcp' = [tcp EXCEPT ![c] = r]
        BY <1>1, <1>2, <2>2 DEF Types
      <3>2. tcp[c] \in Tcp
        BY <1>2 DEF Types
      <3>3. r \in Tcp /\ r.st = "gone" /\ ~r.watch /\ r.tell = "done"
        BY <1>3, <2>2, <3>2 DEF Tcp
      <3> HIDE DEF r
      <3> QED BY <1>2, <1>3, <2>2, <3>1, <3>3 DEF Types
    <2> QED BY <1>1, <2>1, <2>2
  <1>6. Work'
    BY <1>1 DEF Idle, Work
  <1>7. /\ dataId' \in [Conns -> {0} \cup Ids] /\ dataId'[c] = 0
        /\ info' \in [Ids -> Info] /\ checked' \subseteq Ids
        /\ told' \in [Conns -> Seq({"new", "msg", "closed"})]
        /\ told'[c] \in {<<>>, <<"closed">>, <<"new", "closed">>, <<"new", "msg", "closed">>}
        /\ \A e \in Conns \ {c} : /\ dataId'[e] = dataId[e] /\ told'[e] = told[e]
                                  /\ dataId[e] # 0 => (Ok(e)' <=> Ok(e))
        /\ Maps'
    <2>1. CASE dataId[c] = 0
      <3>1. UNCHANGED <<dataId, known, info, clientIds, issued, checked, told>>
        BY <2>1 DEF Closed, maps
      <3>2. Maps'
        BY <1>1, <1>2, <3>1 DEF Maps, Opened
      <3> QED BY <1>2, <2>1, <3>1, <3>2 DEF Types, Session, Ok
    <2>2. CASE dataId[c] # 0
      <3>1. Leave(c) /\ told' = [told EXCEPT ![c] = Append(@, "closed")]
        BY <2>2 DEF Closed
      <3> DEFINE t == Append(told[c], "closed")
      <3>2. t \in {<<"closed">>, <<"new", "closed">>, <<"new", "msg", "closed">>}
        <4>1. told[c] \in {<<>>, <<"new">>, <<"new", "msg">>}
          BY <1>2, <2>2 DEF Session
        <4> QED BY <4>1, AppendFacts
      <3>3. told' = [told EXCEPT ![c] = t]
        BY <3>1
      <3>4. t \in Seq({"new", "msg", "closed"})
        BY <1>2 DEF Types
      <3> HIDE DEF t
      <3>5. /\ told' \in [Conns -> Seq({"new", "msg", "closed"})] /\ told'[c] = t
            /\ \A e \in Conns \ {c} : told'[e] = told[e]
        BY <1>2, <3>3, <3>4 DEF Types
      <3>6. dataId' = [dataId EXCEPT ![c] = 0]
        BY <3>1 DEF Leave
      <3>7. Opened' = Opened
        <4>1. t # <<>>
          BY <3>2
        <4>2. \A e \in Conns \ {c} : dataId'[e] = dataId[e]
          BY <1>2, <3>6 DEF Types
        <4> QED BY <2>2, <3>5, <4>1, <4>2 DEF Opened
      <3>8. /\ dataId' \in [Conns -> {0} \cup Ids] /\ dataId'[c] = 0
            /\ info' \in [Ids -> Info] /\ checked' \subseteq Ids
            /\ \A e \in Conns \ {c} :
                 dataId'[e] = dataId[e] /\ (dataId[e] # 0 => (Ok(e)' <=> Ok(e)))
            /\ Maps'
        BY <1>1, <2>2, <3>1, <3>7, LeaveFacts
      <3> QED BY <3>2, <3>5, <3>8
    <2> QED BY <2>1, <2>2
  <1>8. Types'
    BY <1>1, <1>2, <1>3, <1>5, <1>7 DEF Types
  <1>9. Line(c)'
    BY <1>2, <1>3, <1>4, <1>5, <1>7 DEF Line
  <1>10. Session(c)'
    BY <1>3, <1>4, <1>5, <1>7 DEF Session
  <1>11. Wakes(c)'
    BY <1>5 DEF Wakes
  <1>12. ASSUME NEW e \in Conns \ {c}, dataId[e] # 0 PROVE dataId[e] \in clientIds'
    BY <1>1, <1>12 DEF WInv, Session
  <1> QED BY <1>1, <1>3, <1>4, <1>5, <1>6, <1>7, <1>8, <1>9, <1>10, <1>11, <1>12, OneStep

----------------------------------------
(* continueRead *)

LEMMA ReadingFacts ==
  ASSUME WInv, NEW c \in Conns, Reading(c)
  PROVE  /\ work # <<>> /\ Head(work) = Read(c) /\ Reads(c) /\ ~Tells(c)
         /\ tcp[c].st = "up" /\ ~Has(c) /\ ~tcp[c].watch
         /\ dataId[c] = 0 => told[c] = <<>>
         /\ dataId[c] # 0 => told[c] \in {<<"new">>, <<"new", "msg">>} /\ Ok(c)
         /\ tcp[c].tell = "no" /\ ~tcp[c].eof => inbox[c] = <<>>
  <1>1. Types /\ Work /\ Line(c) /\ Session(c)
    BY DEF WInv
  <1>2. /\ work # <<>> /\ Head(work) = Read(c) /\ Len(work) \in Nat \ {0} /\ work[1] = Read(c)
        /\ 1 \in 1 .. Len(work)
    <2>1. work # <<>> /\ Head(work) = Read(c) /\ work \in Seq(Job)
      BY <1>1 DEF Reading, Types
    <2> QED BY <2>1
  <1>3. Reads(c)
    BY <1>2 DEF Reads
  <1>4. dataId[c] # 0 => told[c] # <<>>
    BY <1>1, <1>2 DEF Work
  <1>5. ~Tells(c)
    BY <1>1, <1>3, <1>4 DEF Work, Session, Tells
  <1>6. tcp[c].tell = "no" /\ ~tcp[c].eof => inbox[c] = <<>>
    <2> SUFFICES ASSUME tcp[c].tell = "no", ~tcp[c].eof, inbox[c] # <<>> PROVE FALSE
      OBVIOUS
    <2>1. inbox[c] \in Seq(Mail)
      BY <1>1 DEF Types
    <2>2. 1 \in 1 .. Len(inbox[c]) /\ inbox[c][1] \in Mail
      BY <2>1
    <2>3. inbox[c][1].op # "closed" /\ inbox[c][1].op # "eof"
      BY <1>1, <2>2 DEF Line
    <2>4. inbox[c][1].op # "bytes"
      BY <1>1, <1>3 DEF Line, Has
    <2> QED BY <2>2, <2>3, <2>4 DEF Mail
  <1> QED BY <1>1, <1>2, <1>3, <1>4, <1>5, <1>6 DEF Line, Session

LEMMA HandleFacts ==
  ASSUME WInv, NEW c \in Conns, NEW frames, Handle(c, frames)
  PROVE  /\ Reading(c) /\ buf' \in [Conns -> Seq(Frame)] /\ UNCHANGED <<checker, inbox>>
         /\ Head(buf[c]) \in Frame /\ Head(buf[c]) \in frames
  <1>1. Reading(c) /\ buf[c] # <<>> /\ buf' = [buf EXCEPT ![c] = Tail(@)] /\ UNCHANGED <<checker, inbox>>
        /\ Head(buf[c]) \in frames
    BY DEF Handle
  <1>2. buf \in [Conns -> Seq(Frame)] /\ buf[c] \in Seq(Frame)
    BY DEF WInv, Types
  <1>3. Tail(buf[c]) \in Seq(Frame) /\ Head(buf[c]) \in Frame
    BY <1>1, <1>2
  <1> QED BY <1>1, <1>2, <1>3

(* Reading ends, nothing else of the session changes. *)
LEMMA StopStep ==
  ASSUME WInv, NEW c \in Conns, Reading(c), StopRead, inbox' = inbox,
         UNCHANGED <<checker, dataId, known, info, clientIds, issued, checked, checks, told>>,
         buf' \in [Conns -> Seq(Frame)], tcp' \in [Conns -> Tcp],
         \A e \in Conns \ {c} : tcp'[e] = tcp[e],
         tcp'[c].st = tcp[c].st, tcp'[c].eof = tcp[c].eof,
         \/ tcp'[c].tell = tcp[c].tell /\ (tcp'[c].watch <=> ~tcp[c].eof /\ tcp[c].tell = "no")
         \/ tcp'[c].tell # "no" /\ (tcp'[c].tell = "done" <=> tcp[c].tell = "done") /\ ~tcp'[c].watch
  PROVE  WInv'
  <1>1. Types /\ Work /\ Line(c) /\ Session(c) /\ Wakes(c) /\ Maps
    BY DEF WInv
  <1>2. /\ work # <<>> /\ Head(work) = Read(c) /\ Reads(c) /\ ~Tells(c)
        /\ tcp[c].st = "up" /\ ~Has(c) /\ ~tcp[c].watch
        /\ dataId[c] = 0 => told[c] = <<>>
        /\ dataId[c] # 0 => told[c] \in {<<"new">>, <<"new", "msg">>} /\ Ok(c)
        /\ tcp[c].tell = "no" /\ ~tcp[c].eof => inbox[c] = <<>>
    BY ReadingFacts
  <1>3. /\ work' = Tail(work)
        /\ \A e : Reads(e)' <=> Reads(e) /\ Read(c) # Read(e)
        /\ \A e : Tells(e)' <=> Tells(e) /\ Read(c) # Tell(e)
    BY <1>1, <1>2, TailWork DEF StopRead
  <1>4. ~Reads(c)' /\ ~Tells(c)' /\ \A e \in Conns \ {c} : (Reads(e)' <=> Reads(e)) /\ (Tells(e)' <=> Tells(e))
    BY <1>2, <1>3 DEF Read, Tell
  <1>5. \A e \in Conns : dataId'[e] = dataId[e] /\ told'[e] = told[e] /\ (Ok(e)' <=> Ok(e))
    BY DEF Ok
  <1>6. Work'
    <2>1. \A e \in Conns : Tells(e)' => dataId'[e] # 0 /\ told'[e] = <<>> /\ Ok(e)'
      <3>1. \A e \in Conns : Tells(e) => dataId[e] # 0 /\ told[e] = <<>> /\ Ok(e)
        BY <1>1 DEF Work, Tells
      <3> QED BY <1>3, <1>5, <3>1
    <2>2. \A e \in Conns : Head(work) # Tell(e)
      BY <1>2 DEF Read, Tell
    <2> QED BY <1>1, <1>2, <1>3, <1>5, <2>1, <2>2, TailKeeps
  <1>7. Types'
    <2>1. work \in Seq(Job)
      BY <1>1 DEF Types
    <2>2. work' \in Seq(Job)
      BY <1>2, <1>3, <2>1
    <2> QED BY <1>1, <2>2 DEF Types
  <1>8. Maps'
    BY <1>1 DEF Maps, Opened
  <1>9. Has(c)' <=> Has(c)
    BY DEF Has
  <1>10. Line(c)'
    BY <1>1, <1>2, <1>4, <1>5, <1>9 DEF Line
  <1>11. Session(c)'
    BY <1>1, <1>2, <1>4, <1>5, <1>9 DEF Session
  <1>12. Wakes(c)'
    BY <1>1 DEF Wakes
  <1>13. ASSUME NEW e \in Conns \ {c}, dataId[e] # 0 PROVE dataId[e] \in clientIds'
    BY <1>13 DEF WInv, Session
  <1> QED BY <1>4, <1>5, <1>6, <1>7, <1>8, <1>10, <1>11, <1>12, <1>13, OneStep

LEMMA NoMoreFramesKeeps == ASSUME NEW c \in Conns PROVE WInv /\ NoMoreFrames(c) => WInv'
  <1> SUFFICES ASSUME WInv, NoMoreFrames(c) PROVE WInv'
    OBVIOUS
  <1>1. /\ Reading(c) /\ tcp' = StartReadWatcher(tcp, c) /\ StopRead
        /\ UNCHANGED <<checker, inbox, buf, dataId, known, info, clientIds, issued, checked, checks, told>>
    BY DEF NoMoreFrames, maps
  <1>2. tcp \in [Conns -> Tcp] /\ buf' \in [Conns -> Seq(Frame)] /\ ~tcp[c].watch
    BY <1>1, ReadingFacts DEF WInv, Types
  <1>3. /\ tcp' \in [Conns -> Tcp]
        /\ tcp'[c].st = tcp[c].st /\ tcp'[c].eof = tcp[c].eof /\ tcp'[c].tell = tcp[c].tell
        /\ ~tcp[c].eof /\ tcp[c].tell = "no" => tcp'[c].watch
        /\ ~(~tcp[c].eof /\ tcp[c].tell = "no") => tcp'[c].watch = tcp[c].watch
        /\ \A e \in Conns \ {c} : tcp'[e] = tcp[e]
    BY <1>1, <1>2, WatcherFacts
  <1> QED BY <1>1, <1>2, <1>3, StopStep

LEMMA CloseFrameKeeps == ASSUME NEW c \in Conns PROVE WInv /\ CloseFrame(c) => WInv'
  <1> SUFFICES ASSUME WInv, CloseFrame(c) PROVE WInv'
    OBVIOUS
  <1>1. /\ Handle(c, {Bye}) /\ tcp' = Shut(tcp, c) /\ StopRead
        /\ UNCHANGED <<dataId, known, info, clientIds, issued, checked, checks, told>>
    BY DEF CloseFrame, maps
  <1>2. tcp \in [Conns -> Tcp]
    BY DEF WInv, Types
  <1>3. /\ tcp' \in [Conns -> Tcp]
        /\ tcp'[c].st = tcp[c].st /\ ~tcp'[c].watch /\ tcp'[c].eof = tcp[c].eof
        /\ tcp'[c].tell # "no" /\ (tcp'[c].tell = "done" <=> tcp[c].tell = "done")
        /\ \A e \in Conns \ {c} : tcp'[e] = tcp[e]
    BY <1>1, <1>2, ShutFacts
  <1>4. Reading(c) /\ buf' \in [Conns -> Seq(Frame)] /\ UNCHANGED <<checker, inbox>>
    BY <1>1, HandleFacts
  <1> QED BY <1>1, <1>3, <1>4, StopStep

LEMMA HelloAgainKeeps == ASSUME NEW c \in Conns PROVE WInv /\ HelloAgain(c) => WInv'
  <1> SUFFICES ASSUME WInv, HelloAgain(c) PROVE WInv'
    OBVIOUS
  <1>1. /\ buf' \in [Conns -> Seq(Frame)] /\ inbox' = inbox /\ tcp' = tcp /\ UNCHANGED Rest
    BY HandleFacts DEF HelloAgain, ReadOn, maps, Rest
  <1>2. /\ tcp' \in [Conns -> Tcp] /\ inbox' \in [Conns -> Seq(Mail)]
        /\ Line(c) /\ Session(c) /\ Wakes(c)
    BY <1>1 DEF WInv, Types
  <1>3. /\ dataId'[c] = dataId[c] /\ told'[c] = told[c] /\ (Ok(c)' <=> Ok(c))
        /\ (Reads(c)' <=> Reads(c)) /\ (Tells(c)' <=> Tells(c))
        /\ checker' = checker /\ checks' = checks /\ clientIds' = clientIds
        /\ (Has(c)' <=> Has(c))
    BY <1>1, SameMind DEF Has
  <1>4. Line(c)' /\ Session(c)' /\ Wakes(c)'
    <2>1. Line(c)'
      BY <1>1, <1>2, <1>3 DEF Line
    <2>2. Session(c)'
      BY <1>1, <1>2, <1>3 DEF Session
    <2>3. Wakes(c)'
      BY <1>1, <1>2, <1>3 DEF Wakes
    <2> QED BY <2>1, <2>2, <2>3
  <1> QED BY <1>1, <1>2, <1>4, NetStep

LEMMA RefuseKeeps == ASSUME NEW c \in Conns PROVE WInv /\ Refuse(c) => WInv'
  <1> SUFFICES ASSUME WInv, Refuse(c) PROVE WInv'
    OBVIOUS
  <1>1. /\ buf' \in [Conns -> Seq(Frame)] /\ inbox' = inbox /\ tcp' = Shut(tcp, c) /\ UNCHANGED Rest
        /\ Reading(c)
    BY HandleFacts DEF Refuse, ReadOn, maps, Rest
  <1>2. /\ tcp \in [Conns -> Tcp] /\ inbox' \in [Conns -> Seq(Mail)]
        /\ Line(c) /\ Session(c) /\ Wakes(c)
    BY <1>1 DEF WInv, Types
  <1>3. /\ tcp' \in [Conns -> Tcp]
        /\ tcp'[c].st = tcp[c].st /\ ~tcp'[c].watch /\ tcp'[c].eof = tcp[c].eof
        /\ tcp'[c].tell # "no" /\ (tcp'[c].tell = "done" <=> tcp[c].tell = "done")
        /\ \A e \in Conns \ {c} : tcp'[e] = tcp[e]
    BY <1>1, <1>2, ShutFacts
  <1>4. /\ dataId'[c] = dataId[c] /\ told'[c] = told[c] /\ (Ok(c)' <=> Ok(c))
        /\ (Reads(c)' <=> Reads(c)) /\ (Tells(c)' <=> Tells(c))
        /\ checker' = checker /\ checks' = checks /\ clientIds' = clientIds
        /\ (Has(c)' <=> Has(c)) /\ tcp[c].st = "up"
    BY <1>1, SameMind, ReadingFacts DEF Has
  <1>5. Line(c)' /\ Session(c)' /\ Wakes(c)'
    <2>1. Line(c)'
      BY <1>1, <1>2, <1>3, <1>4 DEF Line
    <2>2. Session(c)'
      BY <1>2, <1>3, <1>4 DEF Session
    <2>3. Wakes(c)'
      BY <1>3 DEF Wakes
    <2> QED BY <2>1, <2>2, <2>3
  <1> QED BY <1>1, <1>2, <1>3, <1>5, NetStep

LEMMA HandleMsgKeeps == ASSUME NEW c \in Conns PROVE WInv /\ HandleMsg(c) => WInv'
  <1> SUFFICES ASSUME WInv, HandleMsg(c) PROVE WInv'
    OBVIOUS
  <1> DEFINE t == IF Last(told[c]) = "msg" THEN told[c] ELSE Append(told[c], "msg")
  <1>1. /\ Reading(c) /\ buf' \in [Conns -> Seq(Frame)] /\ UNCHANGED <<checker, inbox>>
        /\ told' = [told EXCEPT ![c] = t] /\ dataId[c] # 0
        /\ UNCHANGED <<work, tcp, dataId, known, info, clientIds, issued, checked, checks>>
    BY HandleFacts DEF HandleMsg, ReadOn, maps
  <1>2. Types /\ Work /\ Line(c) /\ Session(c) /\ Wakes(c) /\ Maps
    BY DEF WInv
  <1>3. /\ Reads(c) /\ ~Tells(c) /\ told[c] \in {<<"new">>, <<"new", "msg">>} /\ Ok(c)
        /\ tcp[c].st = "up" /\ ~Has(c) /\ ~tcp[c].watch
    BY <1>1, ReadingFacts
  <1>4. t = <<"new", "msg">>
    <2>1. CASE told[c] = <<"new">>
      <3>1. Last(told[c]) = "new"
        BY <2>1 DEF Last
      <3> QED BY <2>1, <3>1, AppendFacts
    <2>2. CASE told[c] = <<"new", "msg">>
      BY <2>2 DEF Last
    <2> QED BY <1>3, <2>1, <2>2
  <1> HIDE DEF t
  <1>5. /\ told' \in [Conns -> Seq({"new", "msg", "closed"})]
        /\ told'[c] = <<"new", "msg">> /\ told'[c] # <<>>
        /\ \A e \in Conns \ {c} : told'[e] = told[e]
    BY <1>1, <1>2, <1>4 DEF Types
  <1>6. \A e \in Conns : dataId'[e] = dataId[e] /\ (Ok(e)' <=> Ok(e))
    BY <1>1 DEF Ok
  <1>7. Work' /\ \A e : (Reads(e)' <=> Reads(e)) /\ (Tells(e)' <=> Tells(e))
    <2>1. \A e \in Conns : Tells(e) => dataId'[e] # 0 /\ told'[e] = <<>> /\ Ok(e)'
      <3>1. \A e \in Conns : Tells(e) => dataId[e] # 0 /\ told[e] = <<>> /\ Ok(e)
        BY <1>2 DEF Work, Tells
      <3> QED BY <1>3, <1>5, <1>6, <3>1
    <2> QED BY <1>1, <1>2, <1>5, <2>1, SameWork
  <1>8. Types'
    BY <1>1, <1>2, <1>5 DEF Types
  <1>9. Maps'
    <2>1. Opened' = Opened
      BY <1>1, <1>5 DEF Opened
    <2> QED BY <1>1, <1>2, <2>1 DEF Maps
  <1>10. Has(c)' <=> Has(c)
    BY <1>1 DEF Has
  <1>11. Line(c)'
    BY <1>1, <1>2, <1>3, <1>7, <1>10 DEF Line
  <1>12. Session(c)'
    BY <1>1, <1>2, <1>3, <1>5, <1>6 DEF Session
  <1>13. Wakes(c)'
    BY <1>3, <1>7 DEF Wakes
  <1>14. ASSUME NEW e \in Conns \ {c}, dataId[e] # 0 PROVE dataId[e] \in clientIds'
    BY <1>1, <1>14 DEF WInv, Session
  <1> QED BY <1>1, <1>5, <1>6, <1>7, <1>8, <1>9, <1>11, <1>12, <1>13, <1>14, OneStep

LEMMA NewConnectionKeeps == ASSUME NEW c \in Conns PROVE WInv /\ NewConnection(c) => WInv'
  <1> SUFFICES ASSUME WInv, NewConnection(c) PROVE WInv'
    OBVIOUS
  <1> DEFINE t == Append(told[c], "new")
  <1>1. /\ work # <<>> /\ Head(work) = Tell(c) /\ work' = Tail(work)
        /\ told' = [told EXCEPT ![c] = t]
        /\ UNCHANGED <<checker, tcp, inbox, buf, dataId, known, info, clientIds, issued, checked, checks>>
    BY DEF NewConnection, maps, net
  <1>2. Types /\ Work /\ Line(c) /\ Session(c) /\ Wakes(c) /\ Maps
    BY DEF WInv
  <1>3. /\ Len(work) \in Nat \ {0} /\ Head(work) = work[1]
        /\ \A e : Reads(e)' <=> Reads(e) /\ Tell(c) # Read(e)
        /\ \A e : Tells(e)' <=> Tells(e) /\ Tell(c) # Tell(e)
    BY <1>1, <1>2, TailWork
  <1>4. /\ \A e \in Conns : Reads(e)' <=> Reads(e)
        /\ \A e \in Conns \ {c} : Tells(e)' <=> Tells(e)
        /\ ~Tells(c)'
    BY <1>3 DEF Read, Tell
  <1>5. dataId[c] # 0 /\ told[c] = <<>> /\ Ok(c)
    <2>1. 1 \in 1 .. Len(work) /\ work[1] = Tell(c)
      BY <1>1, <1>3
    <2> QED BY <1>2, <2>1 DEF Work
  <1>6. t = <<"new">> /\ t # <<>>
    BY <1>5, AppendFacts
  <1> HIDE DEF t
  <1>7. /\ told' \in [Conns -> Seq({"new", "msg", "closed"})]
        /\ told'[c] = <<"new">> /\ told'[c] # <<>>
        /\ \A e \in Conns \ {c} : told'[e] = told[e]
    BY <1>1, <1>2, <1>6 DEF Types
  <1>8. \A e \in Conns : dataId'[e] = dataId[e] /\ (Ok(e)' <=> Ok(e))
    BY <1>1 DEF Ok
  <1>9. Work'
    <2>1. \A e \in Conns : Tells(e)' => dataId'[e] # 0 /\ told'[e] = <<>> /\ Ok(e)'
      <3>1. \A e \in Conns : Tells(e) => dataId[e] # 0 /\ told[e] = <<>> /\ Ok(e)
        BY <1>2 DEF Work, Tells
      <3> QED BY <1>4, <1>7, <1>8, <3>1
    <2>2. \A e \in Conns \ {c} : Head(work) # Tell(e)
      BY <1>1 DEF Tell
    <2> QED BY <1>1, <1>2, <1>7, <1>8, <2>1, <2>2, TailKeeps
  <1>10. Types'
    <2>1. work \in Seq(Job)
      BY <1>2 DEF Types
    <2>2. work' \in Seq(Job)
      BY <1>1, <2>1
    <2> QED BY <1>1, <1>2, <1>7, <2>2 DEF Types
  <1>11. Maps'
    <2>1. Opened' = Opened
      BY <1>1, <1>5, <1>7 DEF Opened
    <2> QED BY <1>1, <1>2, <2>1 DEF Maps
  <1>12. Has(c)' <=> Has(c)
    BY <1>1 DEF Has
  <1>13. tcp[c].st = "up"
    BY <1>2, <1>5 DEF Line
  <1>14. Line(c)'
    BY <1>1, <1>2, <1>4, <1>12, <1>13 DEF Line
  <1>15. Session(c)'
    BY <1>1, <1>2, <1>5, <1>7, <1>8 DEF Session
  <1>16. Wakes(c)'
    BY <1>1, <1>2, <1>4, <1>8, <1>12 DEF Wakes
  <1>17. ASSUME NEW e \in Conns \ {c}, dataId[e] # 0 PROVE dataId[e] \in clientIds'
    BY <1>1, <1>17 DEF WInv, Session
  <1> QED BY <1>1, <1>4, <1>7, <1>8, <1>9, <1>10, <1>11, <1>14, <1>15, <1>16, <1>17, OneStep

(* A connection enters session d, which it resumes or has just opened; v *)
(* is what is known of the session. *)
LEMMA EnterKeeps ==
  ASSUME WInv, NEW c \in Conns, Reading(c), dataId[c] = 0,
         NEW d \in Ids, NEW v \in BOOLEAN, Enter(c, d, v),
         buf' \in [Conns -> Seq(Frame)], UNCHANGED <<checker, inbox, tcp, checked>>,
         known' \subseteq Ids, clientIds' \subseteq known', issued' \in Nat,
         clientIds \subseteq clientIds', d \in clientIds', clientIds' \subseteq clientIds \cup {d},
         issued <= issued', issued' <= issued + 1, \A x \in known' : x <= issued',
         \A e \in Conns : dataId[e] = d => (Ok(e) <=> v \/ ~checker),
         checker /\ v => d \in checked
  PROVE  WInv'
  <1> DEFINE w == IF checker THEN v ELSE TRUE
             k == info[d].conns \cup {c}
             r == [info[d] EXCEPT !.conns = k, !.verified = w]
             t == Append(told[c], "new")
  <1>1. Types /\ Work /\ Line(c) /\ Session(c) /\ Wakes(c) /\ Maps
    BY DEF WInv
  <1>2. /\ work # <<>> /\ Head(work) = Read(c) /\ Reads(c) /\ ~Tells(c)
        /\ tcp[c].st = "up" /\ ~Has(c) /\ ~tcp[c].watch /\ told[c] = <<>>
    BY ReadingFacts
  <1>3. w = (v \/ ~checker) /\ w \in BOOLEAN
    BY <1>1 DEF Types
  <1>4. info' = [info EXCEPT ![d] = r]
    <2> HIDE DEF w, k
    <2>1. info' = [info EXCEPT ![d].conns = k, ![d].verified = w]
      BY <1>3 DEF Enter, k
    <2> QED BY <1>1, <2>1 DEF Types
  <1>5. r \in Info /\ r.conns = k /\ r.verified = w
    <2>1. info[d] \in Info /\ k \in SUBSET Conns
      BY <1>1 DEF Types, Info
    <2> HIDE DEF w, k
    <2> QED BY <1>3, <2>1 DEF Info
  <1>6. /\ dataId' = [dataId EXCEPT ![c] = d]
        /\ w => told' = [told EXCEPT ![c] = t] /\ work' = work /\ checks' = checks
        /\ ~w => told' = told /\ work' = Tail(work) /\ checks' = checks \cup {<<d, c>>}
    BY <1>3 DEF Enter, ReadOn, StopRead
  <1> HIDE DEF r, w
  <1>7. /\ info' \in [Ids -> Info] /\ info'[d].conns = k /\ (info'[d].verified <=> w)
        /\ \A x \in Ids \ {d} : info'[x] = info[x]
    BY <1>1, <1>4, <1>5 DEF Types
  <1>8. /\ dataId' \in [Conns -> {0} \cup Ids] /\ dataId'[c] = d
        /\ \A e \in Conns \ {c} : dataId'[e] = dataId[e]
    BY <1>1, <1>6 DEF Types
  <1>9. d # 0 /\ 0 \notin Ids
    BY DEF Ids
  <1>10. t = <<"new">> /\ t # <<>>
    BY <1>2, AppendFacts
  <1> HIDE DEF t
  <1>11. /\ told' \in [Conns -> Seq({"new", "msg", "closed"})]
         /\ w => told'[c] = <<"new">> /\ told'[c] # <<>>
         /\ ~w => told'[c] = <<>>
         /\ \A e \in Conns \ {c} : told'[e] = told[e]
    <2>1. told \in [Conns -> Seq({"new", "msg", "closed"})] /\ <<"new">> \in Seq({"new", "msg", "closed"})
      BY <1>1 DEF Types
    <2> QED BY <1>2, <1>3, <1>6, <1>10, <2>1
  <1>12. Ok(c)' <=> w
    BY <1>7, <1>8 DEF Ok
  <1>13. ASSUME NEW e \in Conns \ {c}, dataId[e] # 0
         PROVE  (Ok(e)' <=> Ok(e)) /\ dataId[e] \in clientIds'
    <2>1. dataId[e] \in Ids /\ dataId[e] \in clientIds
      BY <1>1, <1>13 DEF Types, WInv, Session
    <2>2. CASE dataId[e] = d
      BY <1>3, <1>7, <1>8, <2>1, <2>2 DEF Ok
    <2>3. CASE dataId[e] # d
      BY <1>7, <1>8, <2>1, <2>3 DEF Ok
    <2> QED BY <2>1, <2>2, <2>3
  <1>14. \A e \in Conns : Tells(e) => e # c /\ dataId[e] # 0 /\ told[e] = <<>> /\ Ok(e)
    BY <1>1, <1>2 DEF Work, Tells
  <1>15. /\ Work'
         /\ \A e \in Conns \ {c} : (Reads(e)' <=> Reads(e)) /\ (Tells(e)' <=> Tells(e))
         /\ w => Reads(c)'
         /\ ~w => ~Reads(c)'
    <2>1. CASE w
      <3>1. \A e \in Conns : Tells(e) => dataId'[e] # 0 /\ told'[e] = <<>> /\ Ok(e)'
        BY <1>8, <1>11, <1>13, <1>14
      <3>2. \A e \in Conns : Reads(e) /\ dataId'[e] # 0 /\ told'[e] = <<>> => dataId[e] # 0 /\ told[e] = <<>>
        BY <1>8, <1>11, <2>1
      <3>3. Work' /\ \A e : (Reads(e)' <=> Reads(e)) /\ (Tells(e)' <=> Tells(e))
        BY <1>1, <1>6, <2>1, <3>1, <3>2, SameWork
      <3> QED BY <1>2, <2>1, <3>3
    <2>2. CASE ~w
      <3>1. /\ work' = Tail(work)
            /\ \A e : Reads(e)' <=> Reads(e) /\ Read(c) # Read(e)
            /\ \A e : Tells(e)' <=> Tells(e) /\ Read(c) # Tell(e)
        BY <1>1, <1>2, <1>6, <2>2, TailWork
      <3>2. /\ ~Reads(c)'
            /\ \A e \in Conns \ {c} : (Reads(e)' <=> Reads(e)) /\ (Tells(e)' <=> Tells(e))
            /\ ~Tells(c)'
        BY <1>2, <3>1 DEF Read, Tell
      <3>3. \A e \in Conns : Tells(e)' => dataId'[e] # 0 /\ told'[e] = <<>> /\ Ok(e)'
        BY <1>8, <1>11, <1>13, <1>14, <3>2
      <3>4. \A e \in Conns : Reads(e)' /\ dataId'[e] # 0 /\ told'[e] = <<>> =>
                               dataId[e] # 0 /\ told[e] = <<>> /\ Head(work) # Tell(e)
        BY <1>2, <1>8, <1>11, <3>2 DEF Read, Tell
      <3>5. Work'
        BY <1>1, <1>2, <3>1, <3>3, <3>4, TailKeeps
      <3> QED BY <2>2, <3>2, <3>5
    <2> QED BY <1>3, <2>1, <2>2
  <1>16. checks' \subseteq Ids \X Conns /\ checks \subseteq checks' /\ (\A p \in checks' : p[1] <= issued')
         /\ (~w => <<d, c>> \in checks')
    <2>1. \A p \in checks : p[1] \in Nat /\ p[1] <= issued'
      <3>1. \A p \in checks : p[1] \in Nat /\ p[1] <= issued
        BY <1>1 DEF Types, Maps, Ids
      <3> QED BY <1>1, <3>1 DEF Types
    <2>2. <<d, c>> \in Ids \X Conns /\ d <= issued'
      OBVIOUS
    <2> QED BY <1>1, <1>3, <1>6, <2>1, <2>2 DEF Types
  <1>17. Types'
    <2>1. work \in Seq(Job)
      BY <1>1 DEF Types
    <2>2. work' \in Seq(Job)
      <3>1. Tail(work) \in Seq(Job)
        BY <1>2, <2>1
      <3>2. work' = work \/ work' = Tail(work)
        BY <1>6
      <3> QED BY <2>1, <3>1, <3>2
    <2>3. clientIds' \subseteq Ids /\ checked' \subseteq Ids
      BY <1>1 DEF Types
    <2> QED BY <1>1, <1>7, <1>8, <1>11, <1>16, <2>2, <2>3 DEF Types
  <1>18. Maps'
    <2>1. \A x \in Ids, e \in Conns : e \in info'[x].conns <=> dataId'[e] = x
      <3> TAKE x \in Ids, e \in Conns
      <3>1. e \in info[x].conns <=> dataId[e] = x
        BY <1>1 DEF Maps
      <3>2. CASE x = d
        BY <1>7, <1>8, <3>1, <3>2
      <3>3. CASE x # d
        BY <1>7, <1>8, <1>9, <3>1, <3>3
      <3> QED BY <3>2, <3>3
    <2>2. \A x \in clientIds' : checker' /\ info'[x].verified => x \in checked'
      <3> TAKE x \in clientIds'
      <3> HAVE checker' /\ info'[x].verified
      <3>1. CASE x = d
        BY <1>3, <1>7, <3>1
      <3>2. CASE x # d
        BY <1>1, <1>7, <3>2 DEF Types, Maps
      <3> QED BY <3>1, <3>2
    <2>3. issued' <= Cardinality(Opened')
      <3>1. Opened' = Opened \cup {c} /\ c \notin Opened
        <4>1. c \in Opened'
          BY <1>8, <1>9 DEF Opened
        <4>2. c \notin Opened
          BY <1>2 DEF Opened
        <4>3. \A e \in Conns \ {c} : e \in Opened' <=> e \in Opened
          BY <1>8, <1>11 DEF Opened
        <4>4. Opened \subseteq Conns /\ Opened' \subseteq Conns
          BY DEF Opened
        <4> QED BY <4>1, <4>2, <4>3, <4>4
      <3>2. IsFiniteSet(Opened)
        BY WSAssumption, FS_Subset DEF Opened
      <3>3. Cardinality(Opened') = Cardinality(Opened) + 1 /\ Cardinality(Opened) \in Nat
        BY <3>1, <3>2, FS_AddElement, FS_CardinalityType
      <3>4. issued <= Cardinality(Opened) /\ issued \in Nat
        BY <1>1 DEF Maps, Types
      <3> QED BY <3>3, <3>4
    <2> QED BY <1>16, <2>1, <2>2, <2>3 DEF Maps
  <1>19. Has(c)' <=> Has(c)
    BY DEF Has
  <1>20. Line(c)'
    BY <1>1, <1>2, <1>19 DEF Line
  <1>21. Session(c)'
    <2>1. ~w => checker'
      BY <1>3
    <2>2. ~Has(c)' /\ ~tcp'[c].watch /\ dataId'[c] # 0 /\ dataId'[c] = d
      BY <1>2, <1>8, <1>9, <1>19
    <2>3. told'[c] \in {<<>>, <<"new">>, <<"new", "msg">>} /\ (w => told'[c] # <<>>) /\ (~w => told'[c] = <<>>)
      BY <1>3, <1>11
    <2> QED BY <1>12, <1>15, <1>16, <2>1, <2>2, <2>3 DEF Session
  <1>22. Wakes(c)'
    BY <1>8, <1>9, <1>12, <1>15 DEF Wakes
  <1> QED BY <1>8, <1>11, <1>13, <1>15, <1>16, <1>17, <1>18, <1>20, <1>21, <1>22, OneStep

LEMMA HelloResumesKeeps == ASSUME NEW c \in Conns PROVE WInv /\ HelloResumes(c) => WInv'
  <1> SUFFICES ASSUME WInv, HelloResumes(c) PROVE WInv'
    OBVIOUS
  <1> DEFINE d == Head(buf[c]).id
             v == info[d].verified
  <1>1. /\ Handle(c, {Hello(i) : i \in clientIds}) /\ dataId[c] = 0 /\ Enter(c, d, v)
        /\ UNCHANGED <<tcp, known, clientIds, issued, checked>>
    BY DEF HelloResumes
  <1>2. /\ Reading(c) /\ buf' \in [Conns -> Seq(Frame)] /\ UNCHANGED <<checker, inbox>>
        /\ Head(buf[c]) \in {Hello(i) : i \in clientIds}
    BY <1>1, HandleFacts
  <1>3. Types /\ Maps
    BY DEF WInv
  <1>4. d \in clientIds /\ d \in Ids
    BY <1>2, <1>3 DEF Hello, Types
  <1>5. v \in BOOLEAN
    BY <1>3, <1>4 DEF Types, Info
  <1>6. \A e \in Conns : dataId[e] = d => (Ok(e) <=> v \/ ~checker)
    <2> TAKE e \in Conns
    <2> HAVE dataId[e] = d
    <2>1. Ok(e) <=> v
      BY DEF Ok
    <2>2. Session(e) /\ dataId[e] # 0
      BY <1>4 DEF WInv, Ids
    <2>3. ~checker => Ok(e)
      BY <2>2 DEF Session
    <2> QED BY <2>1, <2>3
  <1>7. checker /\ v => d \in checked
    BY <1>3, <1>4 DEF Maps
  <1>8. /\ known' \subseteq Ids /\ clientIds' \subseteq known' /\ issued' \in Nat
        /\ clientIds \subseteq clientIds' /\ d \in clientIds' /\ clientIds' \subseteq clientIds \cup {d}
        /\ issued <= issued' /\ issued' <= issued + 1 /\ \A x \in known' : x <= issued'
    BY <1>1, <1>3, <1>4 DEF Types, Maps
  <1> HIDE DEF d, v
  <1> QED BY <1>1, <1>2, <1>4, <1>5, <1>6, <1>7, <1>8, EnterKeeps

LEMMA SendNewClientIdKeeps == ASSUME NEW c \in Conns PROVE WInv /\ SendNewClientId(c) => WInv'
  <1> SUFFICES ASSUME WInv, SendNewClientId(c) PROVE WInv'
    OBVIOUS
  <1> DEFINE d == issued + 1
             v == FALSE
  <1>1. /\ dataId[c] = 0 /\ Enter(c, d, v) /\ UNCHANGED <<tcp, checked>>
        /\ issued' = d /\ known' = known \cup {d} /\ clientIds' = clientIds \cup {d}
    BY DEF SendNewClientId
  <1>2. /\ Reading(c) /\ buf' \in [Conns -> Seq(Frame)] /\ UNCHANGED <<checker, inbox>>
    BY HandleFacts DEF SendNewClientId
  <1>3. Types /\ Maps
    BY DEF WInv
  <1>4. d \in Ids
    <2>1. c \notin Opened
      BY <1>1, <1>2, ReadingFacts DEF Opened
    <2>2. IsFiniteSet(Opened) /\ IsFiniteSet(Opened \cup {c}) /\ Opened \cup {c} \subseteq Conns
      <3>1. Opened \cup {c} \subseteq Conns /\ Opened \subseteq Conns
        BY DEF Opened
      <3> QED BY <3>1, WSAssumption, FS_Subset
    <2>3. Cardinality(Opened \cup {c}) = Cardinality(Opened) + 1 /\ Cardinality(Opened) \in Nat
      BY <2>1, <2>2, FS_AddElement, FS_CardinalityType
    <2>4. Cardinality(Opened \cup {c}) <= Cardinality(Conns) /\ Cardinality(Conns) \in Nat
      BY <2>2, WSAssumption, FS_Subset, FS_CardinalityType
    <2>5. issued <= Cardinality(Opened) /\ issued \in Nat
      BY <1>3 DEF Maps, Types
    <2> QED BY <2>3, <2>4, <2>5 DEF Ids
  <1>5. \A x \in known : x \in Nat /\ x <= issued
    BY <1>3 DEF Types, Maps, Ids
  <1>6. \A e \in Conns : dataId[e] # d
    <2> TAKE e \in Conns
    <2>1. dataId[e] # 0 => dataId[e] \in known
      BY <1>3 DEF WInv, Session, Maps
    <2> QED BY <1>3, <1>5, <2>1 DEF Types
  <1>7. /\ known' \subseteq Ids /\ clientIds' \subseteq known' /\ issued' \in Nat
        /\ clientIds \subseteq clientIds' /\ d \in clientIds' /\ clientIds' \subseteq clientIds \cup {d}
        /\ issued <= issued' /\ issued' <= issued + 1 /\ \A x \in known' : x <= issued'
    BY <1>1, <1>3, <1>4, <1>5 DEF Types, Maps
  <1>8. v \in BOOLEAN /\ ~v
    OBVIOUS
  <1> HIDE DEF d, v
  <1> QED BY <1>1, <1>2, <1>4, <1>6, <1>7, <1>8, EnterKeeps

----------------------------------------
(* The checker's answers *)

LEMMA InTurnFacts ==
  ASSUME NEW S \in SUBSET Conns, NEW s \in SetToSeqs(S)
  PROVE  /\ InTurn(s) \in Seq(Job)
         /\ \A e \in S : \E i \in 1 .. Len(InTurn(s)) : InTurn(s)[i] = Read(e)
         /\ \A e \in S : \E i \in 1 .. Len(InTurn(s)) : InTurn(s)[i] = Tell(e)
         /\ \A i \in 1 .. Len(InTurn(s)) : \A e :
              InTurn(s)[i] = Read(e) \/ InTurn(s)[i] = Tell(e) => e \in S
         /\ \A i, j \in 1 .. Len(InTurn(s)) : InTurn(s)[i] = InTurn(s)[j] => i = j
         /\ \A i \in 1 .. Len(InTurn(s)) : \A e :
              InTurn(s)[i] = Read(e) => i > 1 /\ InTurn(s)[i - 1] = Tell(e)
  <1> DEFINE n == Cardinality(S)
             w == InTurn(s)
  <1>1. IsFiniteSet(S) /\ n \in Nat
    BY WSAssumption, FS_Subset, FS_CardinalityType
  <1>2. s \in [1 .. n -> S] /\ \A i, j \in 1 .. n : i # j => s[i] # s[j]
    BY DEF SetToSeqs
  <1>3. \A e \in S : \E i \in 1 .. n : s[i] = e
    <2>1. s \in Injection(1 .. n, S)
      BY <1>2 DEF Injection, IsInjective
    <2>2. Cardinality(1 .. n) = n
      BY <1>1, FS_Interval
    <2>3. s \in Surjection(1 .. n, S)
      BY <1>1, <2>1, <2>2, FS_Injection
    <2> QED BY <2>3 DEF Surjection
  <1>4. Len(s) = n
    BY <1>1, <1>2
  <1>5. w = [i \in 1 .. 2 * n |-> IF i % 2 = 1 THEN Tell(s[(i + 1) \div 2]) ELSE Read(s[i \div 2])]
    BY <1>4 DEF InTurn
  <1>6. Len(w) = 2 * n /\ w \in Seq(Job)
    <2>1. \A i \in 1 .. 2 * n : w[i] \in Job
      <3> TAKE i \in 1 .. 2 * n
      <3>1. CASE i % 2 = 1
        <4>1. (i + 1) \div 2 \in 1 .. n
          BY <1>1, <3>1
        <4> QED BY <1>2, <1>5, <3>1, <4>1 DEF Tell, Job
      <3>2. CASE i % 2 # 1
        <4>1. i \div 2 \in 1 .. n
          BY <1>1, <3>2
        <4> QED BY <1>2, <1>5, <3>2, <4>1 DEF Read, Job
      <3> QED BY <3>1, <3>2
    <2>2. 2 * n \in Nat
      BY <1>1
    <2> HIDE DEF w
    <2>3. w \in [1 .. 2 * n -> Job]
      BY <1>5, <2>1
    <2> QED BY <2>2, <2>3
  <1>7. \A i \in 1 .. n : /\ 2 * i \in 1 .. 2 * n /\ w[2 * i] = Read(s[i])
                          /\ 2 * i - 1 \in 1 .. 2 * n /\ w[2 * i - 1] = Tell(s[i])
    <2> TAKE i \in 1 .. n
    <2>1. 2 * i \in 1 .. 2 * n /\ 2 * i - 1 \in 1 .. 2 * n
      BY <1>1
    <2>2. (2 * i) % 2 = 0 /\ (2 * i) \div 2 = i /\ (2 * i - 1) % 2 = 1 /\ ((2 * i - 1) + 1) \div 2 = i
      BY <1>1
    <2> HIDE DEF n
    <2> QED BY <1>5, <2>1, <2>2
  <1>8. \A i \in 1 .. 2 * n : \E k \in 1 .. n : \/ i = 2 * k /\ w[i] = Read(s[k])
                                                \/ i = 2 * k - 1 /\ w[i] = Tell(s[k])
    <2> TAKE i \in 1 .. 2 * n
    <2>1. CASE i % 2 = 1
      <3>1. (i + 1) \div 2 \in 1 .. n /\ i = 2 * ((i + 1) \div 2) - 1
        BY <1>1, <2>1
      <3> QED BY <1>5, <2>1, <3>1
    <2>2. CASE i % 2 # 1
      <3>1. i \div 2 \in 1 .. n /\ i = 2 * (i \div 2)
        BY <1>1, <2>2
      <3> QED BY <1>5, <2>2, <3>1
    <2> QED BY <2>1, <2>2
  <1> HIDE DEF w, n
  <1>9. \A e \in S : (\E i \in 1 .. Len(w) : w[i] = Read(e)) /\ (\E i \in 1 .. Len(w) : w[i] = Tell(e))
    <2> TAKE e \in S
    <2>1. PICK i \in 1 .. n : s[i] = e
      BY <1>3
    <2> QED BY <1>6, <1>7, <2>1
  <1>10. \A i \in 1 .. Len(w) : \A e : w[i] = Read(e) \/ w[i] = Tell(e) => e \in S
    <2> TAKE i \in 1 .. Len(w)
    <2> TAKE e
    <2>1. PICK k \in 1 .. n : w[i] = Read(s[k]) \/ w[i] = Tell(s[k])
      BY <1>6, <1>8
    <2> QED BY <1>2, <2>1 DEF Read, Tell
  <1>11. \A i, j \in 1 .. Len(w) : w[i] = w[j] => i = j
    <2> TAKE i, j \in 1 .. Len(w)
    <2> HAVE w[i] = w[j]
    <2>1. PICK k \in 1 .. n : \/ i = 2 * k /\ w[i] = Read(s[k])
                              \/ i = 2 * k - 1 /\ w[i] = Tell(s[k])
      BY <1>6, <1>8
    <2>2. PICK l \in 1 .. n : \/ j = 2 * l /\ w[j] = Read(s[l])
                              \/ j = 2 * l - 1 /\ w[j] = Tell(s[l])
      BY <1>6, <1>8
    <2>3. s[k] = s[l]
      BY <2>1, <2>2 DEF Read, Tell
    <2>4. k = l
      BY <1>2, <2>3
    <2> QED BY <2>1, <2>2, <2>4 DEF Read, Tell
  <1>12. \A i \in 1 .. Len(w) : \A e : w[i] = Read(e) => i > 1 /\ w[i - 1] = Tell(e)
    <2> TAKE i \in 1 .. Len(w)
    <2> TAKE e
    <2> HAVE w[i] = Read(e)
    <2>1. PICK k \in 1 .. n : \/ i = 2 * k /\ w[i] = Read(s[k])
                              \/ i = 2 * k - 1 /\ w[i] = Tell(s[k])
      BY <1>6, <1>8
    <2>2. i = 2 * k /\ s[k] = e
      BY <2>1 DEF Read, Tell
    <2> QED BY <1>1, <1>7, <2>2
  <1> QED BY <1>6, <1>9, <1>10, <1>11, <1>12 DEF w

(* A step after which every connection is where it was. *)
LEMMA NobodyStep ==
  ASSUME WInv, Types', Maps', UNCHANGED <<checker, tcp, inbox, work, dataId, told>>,
         \A e \in Conns : dataId[e] # 0 =>
           /\ dataId[e] \in clientIds' /\ (Ok(e)' <=> Ok(e))
           /\ ~Ok(e) /\ <<dataId[e], e>> \in checks => <<dataId[e], e>> \in checks'
  PROVE  WInv'
  <1>1. Work' /\ \A e : (Reads(e)' <=> Reads(e)) /\ (Tells(e)' <=> Tells(e))
    <2>1. \A e \in Conns : Tells(e) => dataId'[e] # 0 /\ told'[e] = <<>> /\ Ok(e)'
      BY DEF WInv, Work, Tells
    <2> QED BY <2>1, SameWork DEF WInv
  <1>2. ASSUME NEW e \in Conns PROVE Line(e)' /\ Session(e)' /\ Wakes(e)'
    <2>1. Line(e) /\ Session(e) /\ Wakes(e)
      BY DEF WInv
    <2>2. Has(e)' <=> Has(e)
      BY DEF Has
    <2>3. Line(e)'
      BY <1>1, <2>1, <2>2 DEF Line
    <2>4. Session(e)'
      BY <1>1, <2>1, <2>2 DEF Session
    <2>5. Wakes(e)'
      BY <1>1, <2>1, <2>2 DEF Wakes
    <2> QED BY <2>3, <2>4, <2>5
  <1> QED BY <1>1, <1>2 DEF WInv

LEMMA RejectKeeps ==
  ASSUME NEW d \in Ids, NEW c \in Conns PROVE WInv /\ Reject(d, c) => WInv'
  <1> SUFFICES ASSUME WInv, Reject(d, c) PROVE WInv'
    OBVIOUS
  <1>1. /\ Idle /\ checks' = checks \ {<<d, c>>}
        /\ tcp' = IF tcp[c].st = "up" THEN Shut(tcp, c) ELSE tcp
        /\ UNCHANGED <<checker, inbox, buf, clientIds, issued, dataId, told, work, known, info, checked>>
    BY DEF Reject, Answer
  <1>2. Types /\ Work /\ Maps /\ Line(c) /\ Session(c) /\ Wakes(c)
    BY DEF WInv
  <1>3. /\ \A e : ~Reads(e) /\ ~Tells(e)
        /\ \A e : (Reads(e)' <=> Reads(e)) /\ (Tells(e)' <=> Tells(e)) /\ (Ok(e)' <=> Ok(e))
    BY <1>1, IdleFacts DEF Reads, Tells, Ok
  <1>4. /\ tcp' \in [Conns -> Tcp] /\ \A e \in Conns \ {c} : tcp'[e] = tcp[e]
        /\ \/ tcp[c].st # "up" /\ tcp'[c] = tcp[c]
           \/ /\ tcp'[c].st = "up" /\ ~tcp'[c].watch /\ tcp'[c].eof = tcp[c].eof /\ tcp[c].st = "up"
              /\ tcp'[c].tell # "no" /\ (tcp'[c].tell = "done" <=> tcp[c].tell = "done")
    <2>1. tcp \in [Conns -> Tcp]
      BY <1>2 DEF Types
    <2>2. CASE tcp[c].st = "up"
      <3>1. tcp' = Shut(tcp, c)
        BY <1>1, <2>2
      <3> QED BY <2>1, <2>2, <3>1, ShutFacts
    <2>3. CASE tcp[c].st # "up"
      BY <1>1, <2>1, <2>3
    <2> QED BY <2>2, <2>3
  <1>5. Types'
    BY <1>1, <1>2, <1>4 DEF Types
  <1>6. Work'
    BY <1>1 DEF Idle, Work
  <1>7. Maps'
    BY <1>1, <1>2 DEF Maps, Opened
  <1>8. Has(c)' <=> Has(c)
    BY <1>1 DEF Has
  <1>9. Line(c)'
    BY <1>1, <1>2, <1>3, <1>4, <1>8 DEF Line
  <1>10. Session(c)'
    <2>1. tcp[c].st # "up" => dataId[c] = 0
      BY <1>2 DEF Line
    <2> QED BY <1>1, <1>2, <1>3, <1>4, <1>8, <2>1 DEF Session
  <1>11. Wakes(c)'
    BY <1>4 DEF Wakes
  <1>12. ASSUME NEW e \in Conns \ {c}
         PROVE  /\ dataId[e] # 0 => dataId[e] \in clientIds'
                /\ <<dataId[e], e>> \in checks => <<dataId[e], e>> \in checks'
    BY <1>1 DEF WInv, Session
  <1> QED BY <1>1, <1>3, <1>4, <1>5, <1>6, <1>7, <1>9, <1>10, <1>11, <1>12, OneStep

(* connDataOk, for a session that is known or has expired. *)
LEMMA VerifyKeeps ==
  ASSUME NEW d \in Ids, NEW c \in Conns, WInv, Answer(d, c), Verify(d),
         known' = known \cup {d}, tcp' = tcp
  PROVE  WInv'
  <1>1. /\ Idle /\ <<d, c>> \in checks /\ checks' = checks \ {<<d, c>>}
        /\ info' = [info EXCEPT ![d].verified = TRUE] /\ checked' = checked \cup {d}
        /\ UNCHANGED <<checker, inbox, buf, clientIds, issued, dataId, told>>
    BY DEF Answer, Verify
  <1>2. Types /\ Work /\ Maps
    BY DEF WInv
  <1>3. \A e : ~Reads(e) /\ ~Tells(e)
    BY <1>1, IdleFacts
  <1>4. /\ info' \in [Ids -> Info] /\ info'[d].verified /\ info'[d].conns = info[d].conns
        /\ \A x \in Ids \ {d} : info'[x] = info[x]
    <2> DEFINE r == [info[d] EXCEPT !.verified = TRUE]
    <2>1. info[d] \in Info /\ info' = [info EXCEPT ![d] = r]
      BY <1>1, <1>2 DEF Types
    <2>2. r \in Info /\ r.verified /\ r.conns = info[d].conns
      BY <2>1 DEF Info
    <2> HIDE DEF r
    <2> QED BY <1>2, <2>1, <2>2 DEF Types
  <1>5. \A e \in Conns : dataId[e] # 0 => dataId[e] \in Ids /\ (Ok(e)' <=> Ok(e) \/ dataId[e] = d)
    <2> TAKE e \in Conns
    <2> HAVE dataId[e] # 0
    <2>1. dataId[e] \in Ids
      BY <1>2 DEF Types
    <2>2. CASE dataId[e] = d
      BY <1>1, <1>4, <2>1, <2>2 DEF Ok
    <2>3. CASE dataId[e] # d
      BY <1>1, <1>4, <2>1, <2>3 DEF Ok
    <2> QED BY <2>1, <2>2, <2>3
  <1>6. Maps'
    <2>1. \A x \in known' : x <= issued
      <3>1. d <= issued
        BY <1>1, <1>2 DEF Maps
      <3> QED BY <1>2, <3>1 DEF Maps
    <2>2. \A e \in Conns, x \in Ids : e \in info'[x].conns <=> dataId'[e] = x
      <3> TAKE e \in Conns, x \in Ids
      <3>1. e \in info[x].conns <=> dataId[e] = x
        BY <1>2 DEF Maps
      <3>2. CASE x = d
        BY <1>1, <1>4, <3>1, <3>2
      <3>3. CASE x # d
        BY <1>1, <1>4, <3>1, <3>3
      <3> QED BY <3>2, <3>3
    <2>3. \A x \in clientIds' : checker' /\ info'[x].verified => x \in checked'
      <3> TAKE x \in clientIds'
      <3> HAVE checker' /\ info'[x].verified
      <3>1. CASE x = d
        BY <1>1, <3>1
      <3>2. CASE x # d
        BY <1>1, <1>2, <1>4, <3>2 DEF Types, Maps
      <3> QED BY <3>1, <3>2
    <2>4. Opened' = Opened
      BY <1>1 DEF Opened
    <2>5. clientIds' \subseteq known'
      BY <1>1, <1>2 DEF Maps
    <2>6. \A p \in checks' : p[1] <= issued'
      BY <1>1, <1>2 DEF Maps
    <2> QED BY <1>1, <1>2, <2>1, <2>2, <2>3, <2>4, <2>5, <2>6 DEF Maps
  <1>7. work' \in Seq(Job) => Types'
    BY <1>1, <1>2, <1>4 DEF Types
  <1>8. CASE info[d].verified
    <2>1. work' = work
      BY <1>1, <1>8 DEF Verify, Idle
    <2>2. Types'
      BY <1>2, <1>7, <2>1 DEF Types
    <2>3. ASSUME NEW e \in Conns, dataId[e] # 0
          PROVE  /\ dataId[e] \in clientIds' /\ (Ok(e)' <=> Ok(e))
                 /\ ~Ok(e) /\ <<dataId[e], e>> \in checks => <<dataId[e], e>> \in checks'
      <3>1. dataId[e] \in clientIds
        BY <2>3 DEF WInv, Session
      <3>2. dataId[e] = d => Ok(e)
        BY <1>8 DEF Ok
      <3> QED BY <1>1, <1>5, <2>3, <3>1, <3>2
    <2> QED BY <1>1, <1>6, <2>1, <2>2, <2>3, NobodyStep
  <1>9. CASE ~info[d].verified
    <2> DEFINE S == info[d].conns
    <2>1. S \in SUBSET Conns
      BY <1>2 DEF Types, Info
    <2>2. PICK s \in SetToSeqs(S) : work' = InTurn(s)
      BY <1>9 DEF Verify
    <2>3. /\ work' \in Seq(Job)
          /\ \A e \in S : \E i \in 1 .. Len(work') : work'[i] = Read(e)
          /\ \A e \in S : \E i \in 1 .. Len(work') : work'[i] = Tell(e)
          /\ \A i \in 1 .. Len(work') : \A e : work'[i] = Read(e) \/ work'[i] = Tell(e) => e \in S
          /\ \A i, j \in 1 .. Len(work') : work'[i] = work'[j] => i = j
          /\ \A i \in 1 .. Len(work') : \A e : work'[i] = Read(e) => i > 1 /\ work'[i - 1] = Tell(e)
      <3> HIDE DEF S
      <3> QED BY ONLY <2>1, <2>2, WSAssumption, InTurnFacts
    <2>4. \A e : (Reads(e)' <=> e \in S) /\ (Tells(e)' <=> e \in S)
      BY <2>3 DEF Reads, Tells
    <2>5. \A e \in Conns : e \in S <=> dataId[e] = d
      BY <1>2 DEF Maps
    <2>6. d # 0
      BY DEF Ids
    <2>7. \A e \in S : e \in Conns /\ dataId[e] = d /\ dataId[e] # 0 /\ ~Ok(e)
      BY <1>9, <2>1, <2>5, <2>6 DEF Ok
    <2>8. \A e \in S : told[e] = <<>> /\ ~tcp[e].watch /\ ~Has(e) /\ tcp[e].st = "up"
      <3> TAKE e \in S
      <3>1. Line(e) /\ Session(e)
        BY <2>7 DEF WInv
      <3> QED BY <2>7, <3>1 DEF Line, Session
    <2> HIDE DEF S
    <2>9. Work'
      <3>1. ASSUME NEW i \in 1 .. Len(work'), NEW e \in Conns, work'[i] = Tell(e)
            PROVE  dataId'[e] # 0 /\ told'[e] = <<>> /\ Ok(e)'
        <4>1. e \in S
          BY <2>3, <3>1
        <4> QED BY <1>1, <1>5, <2>7, <2>8, <4>1
      <3> QED BY <2>3, <3>1 DEF Work
    <2>10. ASSUME NEW e \in Conns PROVE Line(e)' /\ Session(e)' /\ Wakes(e)'
      <3>1. Line(e) /\ Session(e) /\ Wakes(e)
        BY DEF WInv
      <3>2. Has(e)' <=> Has(e)
        BY <1>1 DEF Has
      <3>3. CASE e \in S
        <4>1. Line(e)'
          BY <1>1, <2>8, <3>1, <3>2, <3>3 DEF Line
        <4>2. Ok(e)' /\ Tells(e)' /\ Reads(e)'
          BY <1>5, <2>4, <2>7, <3>3
        <4>3. Session(e)'
          BY <1>1, <2>7, <2>8, <3>1, <3>2, <3>3, <4>2 DEF Session
        <4> QED BY <4>1, <4>2, <4>3 DEF Wakes
      <3>4. CASE e \notin S
        <4>1. ~Reads(e) /\ ~Tells(e) /\ ~Reads(e)' /\ ~Tells(e)'
          BY <1>3, <2>4, <3>4
        <4>2. dataId[e] # d
          BY <2>5, <3>4
        <4>3. dataId[e] # 0 =>
                /\ dataId[e] \in clientIds' /\ (Ok(e)' <=> Ok(e))
                /\ <<dataId[e], e>> \in checks => <<dataId[e], e>> \in checks'
          BY <1>1, <1>5, <3>1, <4>2 DEF Session
        <4> QED BY <1>1, <3>1, <4>1, <4>3, Aside
      <3> QED BY <3>3, <3>4
    <2> QED BY <1>6, <1>7, <2>3, <2>9, <2>10 DEF WInv
  <1> QED BY <1>8, <1>9

LEMMA ConnDataOkKeeps ==
  ASSUME NEW d \in Ids, NEW c \in Conns PROVE WInv /\ ConnDataOk(d, c) => WInv'
  BY VerifyKeeps DEF ConnDataOk

LEMMA UpdateConnDataKeeps ==
  ASSUME NEW d \in Ids, NEW c \in Conns PROVE WInv /\ UpdateConnData(d, c) => WInv'
  <1> SUFFICES ASSUME WInv, UpdateConnData(d, c) PROVE WInv'
    OBVIOUS
  <1>1. Answer(d, c) /\ UNCHANGED <<tcp, known>>
    BY DEF UpdateConnData
  <1>2. CASE d \in known
    BY <1>1, <1>2, VerifyKeeps DEF UpdateConnData
  <1>3. CASE d \notin known
    <2>1. /\ checks' = checks \ {<<d, c>>}
          /\ UNCHANGED <<checker, tcp, inbox, buf, work, dataId, known, info, clientIds, issued, checked, told>>
      BY <1>1, <1>3 DEF UpdateConnData, Answer
    <2>2. Types /\ Maps
      BY DEF WInv
    <2>3. Types'
      BY <2>1, <2>2 DEF Types
    <2>4. Maps'
      BY <2>1, <2>2 DEF Maps, Opened
    <2>5. ASSUME NEW e \in Conns, dataId[e] # 0
          PROVE  /\ dataId[e] \in clientIds' /\ (Ok(e)' <=> Ok(e))
                 /\ <<dataId[e], e>> \in checks => <<dataId[e], e>> \in checks'
      <3>1. dataId[e] \in clientIds /\ dataId[e] # d
        <4>1. Session(e)
          BY DEF WInv
        <4>2. dataId[e] \in clientIds
          BY <2>5, <4>1 DEF Session
        <4> QED BY <1>3, <2>2, <4>2 DEF Maps
      <3>2. Ok(e)' <=> Ok(e)
        BY <2>1 DEF Ok
      <3>3. dataId[e] = d \/ (<<dataId[e], e>> \in checks => <<dataId[e], e>> \in checks')
        BY <2>1
      <3> QED BY <2>1, <3>1, <3>2, <3>3
    <2> QED BY <2>1, <2>3, <2>4, <2>5, NobodyStep
  <1> QED BY <1>2, <1>3

----------------------------------------
(* The session timeout *)

LEMMA TimeoutPassesKeeps ==
  ASSUME NEW d \in Ids PROVE WInv /\ TimeoutPasses(d) => WInv'
  <1> SUFFICES ASSUME WInv, TimeoutPasses(d) PROVE WInv'
    OBVIOUS
  <1>1. /\ info' = [info EXCEPT ![d].lastClosed = "old"]
        /\ UNCHANGED <<checker, tcp, inbox, buf, work, dataId, known, clientIds, issued, checked, checks, told>>
    BY DEF TimeoutPasses, net
  <1>2. Types /\ Maps
    BY DEF WInv
  <1>3. /\ info' \in [Ids -> Info]
        /\ \A x \in Ids : info'[x].conns = info[x].conns /\ info'[x].verified = info[x].verified
    <2> DEFINE r == [info[d] EXCEPT !.lastClosed = "old"]
    <2>1. info[d] \in Info /\ info' = [info EXCEPT ![d] = r]
      BY <1>1, <1>2 DEF Types
    <2>2. r \in Info /\ r.verified = info[d].verified /\ r.conns = info[d].conns
      BY <2>1 DEF Info
    <2> HIDE DEF r
    <2> QED BY <1>2, <2>1, <2>2 DEF Types
  <1>4. Types'
    BY <1>1, <1>2, <1>3 DEF Types
  <1>5. Maps'
    <2>1. \A x \in clientIds' : checker' /\ info'[x].verified => x \in checked'
      BY <1>1, <1>2, <1>3 DEF Types, Maps
    <2> QED BY <1>1, <1>2, <1>3, <2>1 DEF Maps, Opened
  <1>6. ASSUME NEW e \in Conns, dataId[e] # 0
        PROVE  dataId[e] \in clientIds' /\ (Ok(e)' <=> Ok(e))
    <2>1. dataId[e] \in clientIds /\ dataId[e] \in Ids
      BY <1>2, <1>6 DEF WInv, Session, Types
    <2> QED BY <1>1, <1>3, <2>1 DEF Ok
  <1> QED BY <1>1, <1>4, <1>5, <1>6, NobodyStep

LEMMA CheckTimeoutKeeps == WInv /\ CheckTimeout => WInv'
  <1> SUFFICES ASSUME WInv, CheckTimeout PROVE WInv'
    OBVIOUS
  <1>1. /\ known' = known \ Expired /\ clientIds' = clientIds \ Expired
        /\ info' = [d \in Ids |-> IF d \in Expired THEN NoInfo ELSE info[d]]
        /\ UNCHANGED <<checker, tcp, inbox, buf, work, dataId, issued, checked, checks, told>>
    BY DEF CheckTimeout, net
  <1>2. Types /\ Maps
    BY DEF WInv
  <1>3. NoInfo \in Info /\ NoInfo.conns = {}
    BY DEF NoInfo, Info
  <1>4. \A d \in Expired : d \in Ids /\ info[d].conns = {}
    BY <1>2 DEF Expired, Types
  <1>5. /\ info' \in [Ids -> Info]
        /\ \A d \in Ids : info'[d].conns = info[d].conns
        /\ \A d \in Ids \ Expired : info'[d] = info[d]
    <2>1. \A d \in Ids : info[d] \in Info
      BY <1>2 DEF Types
    <2> HIDE DEF Expired, NoInfo
    <2> QED BY <1>1, <1>3, <1>4, <2>1
  <1> HIDE DEF Expired, NoInfo
  <1>6. Types'
    BY <1>1, <1>2, <1>5 DEF Types
  <1>7. Maps'
    <2>1. \A x \in clientIds' : checker' /\ info'[x].verified => x \in checked'
      BY <1>1, <1>2, <1>5 DEF Types, Maps
    <2>2. clientIds' \subseteq known' /\ \A x \in known' : x <= issued'
      BY <1>1, <1>2 DEF Maps
    <2> QED BY <1>1, <1>2, <1>5, <2>1, <2>2 DEF Maps, Opened
  <1>8. ASSUME NEW e \in Conns, dataId[e] # 0
        PROVE  dataId[e] \in clientIds' /\ (Ok(e)' <=> Ok(e))
    <2>1. dataId[e] \in clientIds /\ dataId[e] \in Ids
      BY <1>2, <1>8 DEF WInv, Session, Types
    <2>2. e \in info[dataId[e]].conns
      BY <1>2, <2>1 DEF Maps
    <2>3. dataId[e] \notin Expired
      BY <1>4, <2>2
    <2> QED BY <1>1, <1>5, <2>1, <2>3 DEF Ok
  <1> QED BY <1>1, <1>6, <1>7, <1>8, NobodyStep

----------------------------------------
(* The invariant *)

LEMMA InitHolds == Init => WInv
  <1> SUFFICES ASSUME Init PROVE WInv
    OBVIOUS
  <1>1. \A c \in Conns : /\ tcp[c] \in Tcp /\ tcp[c].st = "none" /\ ~tcp[c].watch
                         /\ ~tcp[c].eof /\ tcp[c].tell = "no"
    <2> DEFINE r == [st |-> "none", watch |-> FALSE, eof |-> FALSE, tell |-> "no", sent |-> 0]
    <2>1. 0 \in 0 .. MaxFrames
      BY WSAssumption
    <2>2. r \in Tcp /\ r.st = "none" /\ ~r.watch /\ ~r.eof /\ r.tell = "no"
      BY <2>1 DEF Tcp
    <2>3. \A c \in Conns : tcp[c] = r
      BY DEF Init
    <2> HIDE DEF r
    <2> QED BY <2>2, <2>3
  <1>2. tcp \in [Conns -> Tcp]
    <2>1. tcp = [c \in Conns |-> tcp[c]]
      BY DEF Init
    <2> QED BY <1>1, <2>1
  <1>3. /\ NoInfo \in Info /\ NoInfo.conns = {}
        /\ info = [d \in Ids |-> NoInfo]
    BY DEF Init, NoInfo, Info
  <1>4. info \in [Ids -> Info] /\ \A d \in Ids : info[d].conns = {}
    <2> HIDE DEF NoInfo
    <2> QED BY <1>3
  <1>5. /\ checker \in BOOLEAN /\ work = <<>> /\ known = {} /\ clientIds = {} /\ issued = 0
        /\ checks = {} /\ checked = {}
        /\ inbox = [c \in Conns |-> <<>>] /\ buf = [c \in Conns |-> <<>>]
        /\ told = [c \in Conns |-> <<>>] /\ dataId = [c \in Conns |-> 0]
    BY DEF Init
  <1>6. Types
    BY <1>2, <1>4, <1>5 DEF Types
  <1>7. \A e : ~Reads(e) /\ ~Tells(e)
    BY <1>5, IdleFacts DEF Idle
  <1>8. Work
    BY <1>5 DEF Work
  <1>9. Maps
    <2>1. Opened = {}
      BY <1>5 DEF Opened
    <2>2. Cardinality(Opened) = 0
      BY <2>1, FS_EmptySet
    <2>3. \A c \in Conns, d \in Ids : dataId[c] # d
      BY <1>5 DEF Ids
    <2> QED BY <1>4, <1>5, <2>2, <2>3 DEF Maps
  <1>10. ASSUME NEW c \in Conns PROVE Line(c) /\ Session(c) /\ Wakes(c)
    <2>1. ~Has(c) /\ inbox[c] = <<>> /\ Len(inbox[c]) = 0
      BY <1>5 DEF Has
    <2>2. Line(c)
      BY <1>1, <1>5, <1>7, <2>1 DEF Line
    <2>3. Session(c)
      BY <1>1, <1>5, <1>7, <2>1 DEF Session
    <2>4. Wakes(c)
      BY <1>1 DEF Wakes
    <2> QED BY <2>2, <2>3, <2>4
  <1> QED BY <1>6, <1>8, <1>9, <1>10 DEF WInv

LEMMA StutterHolds == WInv /\ UNCHANGED vars => WInv'
  <1> SUFFICES ASSUME WInv, UNCHANGED vars PROVE WInv'
    OBVIOUS
  <1>1. /\ UNCHANGED <<checker, tcp, inbox, buf, work, dataId, known, info, clientIds, issued, checked>>
        /\ UNCHANGED <<checks, told>>
    BY DEF vars, net, maps
  <1>2. Types /\ Maps
    BY DEF WInv
  <1>3. Types'
    BY <1>1, <1>2 DEF Types
  <1>4. Maps'
    BY <1>1, <1>2 DEF Maps, Opened
  <1>5. ASSUME NEW e \in Conns, dataId[e] # 0 PROVE dataId[e] \in clientIds' /\ (Ok(e)' <=> Ok(e))
    BY <1>1, <1>5 DEF WInv, Session, Ok
  <1> QED BY <1>1, <1>3, <1>4, <1>5, NobodyStep

LEMMA NextHolds == WInv /\ Next => WInv'
  <1> SUFFICES ASSUME WInv, Next PROVE WInv'
    OBVIOUS
  <1>1. ASSUME NEW c \in Conns, Client(c) PROVE WInv'
    BY <1>1, AddConnectionKeeps, ReceiveKeeps, EndOfStreamKeeps, LoseKeeps DEF Client
  <1>2. ASSUME NEW c \in Conns, Service(c) PROVE WInv'
    BY <1>2, TellClosedKeeps, NewBytesKeeps, ClosedKeeps DEF Service
  <1>3. ASSUME NEW c \in Conns, Frames(c) PROVE WInv'
    BY <1>3, NoMoreFramesKeeps, HelloResumesKeeps, SendNewClientIdKeeps, HelloAgainKeeps,
       HandleMsgKeeps, RefuseKeeps, CloseFrameKeeps, NewConnectionKeeps DEF Frames
  <1>4. CASE Answers
    BY <1>4, RejectKeeps, ConnDataOkKeeps, UpdateConnDataKeeps DEF Answers
  <1>5. CASE Clock
    BY <1>5, CheckTimeoutKeeps, TimeoutPassesKeeps DEF Clock
  <1> QED BY <1>1, <1>2, <1>3, <1>4, <1>5 DEF Next, System

LEMMA InvHolds == Spec => []WInv
  <1>1. WInv /\ [Next]_vars => WInv'
    BY NextHolds, StutterHolds
  <1> QED BY <1>1, InitHolds, PTL DEF Spec

(* The maps of the manager agree (wscommmanager.h: connId2dataId_, *)
(* connInfos_, clientIds_), whatever joins, leaves and expires. *)
THEOREM MapsAgreeHolds == Spec => []MapsAgree
  <1>1. WInv => MapsAgree
    <2> SUFFICES ASSUME WInv PROVE MapsAgree
      OBVIOUS
    <2>1. clientIds \subseteq known /\ \A c \in Conns, d \in Ids : c \in info[d].conns <=> dataId[c] = d
      BY DEF WInv, Maps
    <2>2. ASSUME NEW c \in Conns, dataId[c] # 0 PROVE dataId[c] \in clientIds /\ tcp[c].st = "up"
      BY <2>2 DEF WInv, Session, Line
    <2> QED BY <2>1, <2>2 DEF MapsAgree
  <1> QED BY <1>1, InvHolds, PTL

(* Listeners and handlers hear of a connection in order, and not before *)
(* its session was accepted (newConnection, handleMsg, connectionClosed). *)
THEOREM ToldInOrderHolds == Spec => []ToldInOrder
  <1>1. WInv => ToldInOrder
    <2> SUFFICES ASSUME WInv, NEW c \in Conns
                 PROVE  /\ told[c] \in {<<>>, <<"closed">>, <<"new">>, <<"new", "msg">>,
                                        <<"new", "closed">>, <<"new", "msg", "closed">>}
                        /\ checker /\ dataId[c] # 0 /\ told[c] # <<>> => dataId[c] \in checked
      BY DEF ToldInOrder, CheckedFirst
    <2>1. Session(c) /\ Maps
      BY DEF WInv
    <2>2. told[c] \in {<<>>, <<"closed">>, <<"new">>, <<"new", "msg">>,
                       <<"new", "closed">>, <<"new", "msg", "closed">>}
      BY <2>1 DEF Session
    <2>3. checker /\ dataId[c] # 0 /\ told[c] # <<>> => dataId[c] \in checked
      BY <2>1 DEF Session, Maps, Ok
    <2> QED BY <2>2, <2>3
  <1> QED BY <1>1, InvHolds, PTL

(* Between two events of the service thread, an open connection that *)
(* nobody reads is one whose session the checker has still to answer for *)
(* (startReadWatcher after connDataOk). *)
THEOREM StoppedForAReasonHolds == Spec => []StoppedForAReason
  <1>1. WInv => StoppedForAReason
    <2> SUFFICES ASSUME WInv, NEW c \in Conns, Idle, inbox[c] = <<>>,
                        tcp[c] = [tcp[c] EXCEPT !.st = "up", !.watch = FALSE, !.eof = FALSE, !.tell = "no"]
                 PROVE  <<dataId[c], c>> \in checks /\ ~info[dataId[c]].verified
      BY DEF StoppedForAReason
    <2>1. Session(c) /\ Wakes(c) /\ tcp[c] \in Tcp
      BY DEF WInv, Types
    <2>2. tcp[c].st = "up" /\ ~tcp[c].watch /\ ~tcp[c].eof /\ tcp[c].tell = "no"
      BY <2>1 DEF Tcp
    <2>3. ~Reads(c) /\ ~Has(c)
      BY IdleFacts DEF Has
    <2> QED BY <2>1, <2>2, <2>3 DEF Session, Wakes, Ok
  <1> QED BY <1>1, InvHolds, PTL

----------------------------------------
(* RMI: sequences, sets of messages and the invariant *)

(* A sequence has something of P; one such thing at most; and something of *)
(* Q behind whatever is of P. *)
Some(s, P) == \E i \in 1 .. Len(s) : s[i] \in P
Once(s, P) == \A i, j \in 1 .. Len(s) : s[i] \in P /\ s[j] \in P => i = j
After(s, P, Q) == \A i \in 1 .. Len(s) : s[i] \in P => \E j \in 1 .. Len(s) : i < j /\ s[j] \in Q

(* What a sequence has when it grows at its end, loses its head, or is cut. *)
LEMMA HeadIs == ASSUME NEW A, NEW s \in Seq(A), s # <<>> PROVE Head(s) = s[1]
BY HeadTailProperties

LEMMA AppendHas ==
  ASSUME NEW A, NEW s \in Seq(A), NEW e \in A
  PROVE  /\ Append(s, e) \in Seq(A) /\ Append(s, e) # <<>>
         /\ \A P : Some(Append(s, e), P) <=> Some(s, P) \/ e \in P
         /\ \A P : Once(s, P) /\ (e \in P => ~Some(s, P)) => Once(Append(s, e), P)
         /\ \A P, Q : After(s, P, Q) /\ e \notin P => After(Append(s, e), P, Q)
         /\ \A P, Q : e \in Q /\ e \notin P => After(Append(s, e), P, Q)
         /\ s # <<>> => Head(Append(s, e)) = Head(s)
<1> DEFINE t == Append(s, e)
<1>1. /\ t \in Seq(A) /\ Len(t) = Len(s) + 1 /\ t[Len(s) + 1] = e
      /\ \A i \in 1 .. Len(s) : t[i] = s[i] /\ Len(s) \in Nat
  OBVIOUS
<1>2. 1 .. Len(t) = 1 .. Len(s) \cup {Len(s) + 1} /\ Len(s) + 1 \notin 1 .. Len(s) /\ Len(s) \in Nat
  BY <1>1
<1>3. t # <<>> /\ (s # <<>> => Head(t) = Head(s))
  <2>1. t # <<>> BY <1>1, <1>2
  <2>2. s # <<>> => Len(s) # 0 BY EmptySeq
  <2>3. s # <<>> => 1 \in 1 .. Len(s) BY <1>2, <2>2
  <2>4. Head(t) = t[1] /\ Head(s) = s[1] OBVIOUS
  <2> QED BY <2>1, <2>3, <2>4, <1>1
<1> HIDE DEF t
<1>4. \A P : Some(t, P) <=> Some(s, P) \/ e \in P
  BY <1>1, <1>2 DEF Some
<1>5. \A P : Once(s, P) /\ (e \in P => ~Some(s, P)) => Once(t, P)
  <2> SUFFICES ASSUME NEW P, Once(s, P), e \in P => ~Some(s, P),
                      NEW i \in 1 .. Len(t), NEW j \in 1 .. Len(t), t[i] \in P, t[j] \in P
               PROVE  i = j
    BY DEF Once
  <2> QED BY <1>1, <1>2 DEF Once, Some
<1>6. \A P, Q : After(s, P, Q) /\ e \notin P => After(t, P, Q)
  <2> SUFFICES ASSUME NEW P, NEW Q, After(s, P, Q), e \notin P, NEW i \in 1 .. Len(t), t[i] \in P
               PROVE  \E j \in 1 .. Len(t) : i < j /\ t[j] \in Q
    BY DEF After
  <2>1. i \in 1 .. Len(s) /\ s[i] \in P BY <1>1, <1>2
  <2>2. PICK j \in 1 .. Len(s) : i < j /\ s[j] \in Q BY <2>1 DEF After
  <2> QED BY <2>2, <1>1, <1>2
<1>7. \A P, Q : e \in Q /\ e \notin P => After(t, P, Q)
  <2> SUFFICES ASSUME NEW P, NEW Q, e \in Q, e \notin P, NEW i \in 1 .. Len(t), t[i] \in P
               PROVE  \E j \in 1 .. Len(t) : i < j /\ t[j] \in Q
    BY DEF After
  <2>1. i \in 1 .. Len(s) BY <1>1, <1>2
  <2>2. i < Len(s) + 1 BY <2>1, <1>2
  <2> QED BY <2>2, <1>1, <1>2
<1> QED BY <1>1, <1>3, <1>4, <1>5, <1>6, <1>7 DEF t

LEMMA TailHas ==
  ASSUME NEW A, NEW s \in Seq(A), s # <<>>
  PROVE  /\ Head(s) \in A /\ Tail(s) \in Seq(A)
         /\ \A P : Some(s, P) <=> Some(Tail(s), P) \/ Head(s) \in P
         /\ \A P : Once(s, P) => Once(Tail(s), P) /\ (Head(s) \in P => ~Some(Tail(s), P))
         /\ \A P, Q : After(s, P, Q) => After(Tail(s), P, Q) /\ (Head(s) \in P => Some(Tail(s), Q))
<1> DEFINE t == Tail(s)
<1>1. /\ Head(s) \in A /\ Head(s) = s[1] /\ t \in Seq(A) /\ Len(t) = Len(s) - 1 /\ Len(s) \in Nat
      /\ \A i \in 1 .. Len(t) : t[i] = s[i + 1]
  BY HeadTailProperties
<1>2. Len(s) # 0 BY EmptySeq
<1>3. /\ \A i \in 1 .. Len(t) : i + 1 \in 1 .. Len(s)
      /\ \A i \in 1 .. Len(s) : i = 1 \/ (i - 1 \in 1 .. Len(t) /\ t[i - 1] = s[i] /\ i > 1)
      /\ 1 \in 1 .. Len(s)
  BY <1>1, <1>2
<1> HIDE DEF t
<1>4. \A P : Some(s, P) <=> Some(t, P) \/ Head(s) \in P
  BY <1>1, <1>3 DEF Some
<1>5. \A P : Once(s, P) => Once(t, P) /\ (Head(s) \in P => ~Some(t, P))
  <2> SUFFICES ASSUME NEW P, Once(s, P)  PROVE Once(t, P) /\ (Head(s) \in P => ~Some(t, P))
    OBVIOUS
  <2>1. ASSUME NEW i \in 1 .. Len(t), NEW j \in 1 .. Len(t), t[i] \in P, t[j] \in P  PROVE i = j
    <3>1. i + 1 = j + 1 BY <2>1, <1>1, <1>3 DEF Once
    <3> QED BY <3>1
  <2>2. ASSUME Head(s) \in P, NEW i \in 1 .. Len(t), t[i] \in P  PROVE FALSE
    <3>1. i + 1 = 1 BY <2>2, <1>1, <1>3 DEF Once
    <3> QED BY <3>1
  <2> QED BY <2>1, <2>2 DEF Once, Some
<1>6. \A P, Q : After(s, P, Q) => After(t, P, Q) /\ (Head(s) \in P => Some(t, Q))
  <2> SUFFICES ASSUME NEW P, NEW Q, After(s, P, Q)
               PROVE  After(t, P, Q) /\ (Head(s) \in P => Some(t, Q))
    OBVIOUS
  <2>1. ASSUME NEW i \in 1 .. Len(t), t[i] \in P  PROVE \E j \in 1 .. Len(t) : i < j /\ t[j] \in Q
    <3>1. PICK j \in 1 .. Len(s) : i + 1 < j /\ s[j] \in Q BY <2>1, <1>1, <1>3 DEF After
    <3>2. j - 1 \in 1 .. Len(t) /\ t[j - 1] = s[j] /\ i < j - 1 BY <3>1, <1>3
    <3> QED BY <3>1, <3>2
  <2>2. ASSUME Head(s) \in P  PROVE Some(t, Q)
    <3>1. PICK j \in 1 .. Len(s) : 1 < j /\ s[j] \in Q BY <2>2, <1>1, <1>3 DEF After
    <3>2. j - 1 \in 1 .. Len(t) /\ t[j - 1] = s[j] BY <3>1, <1>3
    <3> QED BY <3>1, <3>2 DEF Some
  <2> QED BY <2>1, <2>2 DEF After
<1> QED BY <1>1, <1>4, <1>5, <1>6 DEF t

(* What follows has none of them. *)
LEMMA JoinHas ==
  ASSUME NEW A, NEW s \in Seq(A), NEW t \in Seq(A)
  PROVE  /\ s \o t \in Seq(A)
         /\ \A P : Some(s \o t, P) <=> Some(s, P) \/ Some(t, P)
         /\ \A P : Once(s, P) /\ ~Some(t, P) => Once(s \o t, P)
         /\ \A P : ~Some(s, P) /\ Once(t, P) => Once(s \o t, P)
         /\ \A P, Q : After(s, P, Q) /\ ~Some(t, P) => After(s \o t, P, Q)
         /\ s # <<>> => s \o t # <<>> /\ Head(s \o t) = Head(s)
<1> DEFINE u == s \o t
<1>1. /\ u \in Seq(A) /\ Len(u) = Len(s) + Len(t) /\ Len(s) \in Nat /\ Len(t) \in Nat
      /\ \A i \in 1 .. Len(s) : u[i] = s[i]
      /\ \A i \in 1 .. Len(t) : u[Len(s) + i] = t[i]
  BY ConcatProperties
<1>2. /\ \A i \in 1 .. Len(s) : i \in 1 .. Len(u)
      /\ \A i \in 1 .. Len(t) : Len(s) + i \in 1 .. Len(u)
      /\ \A i \in 1 .. Len(u) : i \in 1 .. Len(s) \/
             (i - Len(s) \in 1 .. Len(t) /\ Len(s) + (i - Len(s)) = i)
  BY <1>1
<1>3. s # <<>> => u # <<>> /\ Head(u) = Head(s)
  <2>1. s # <<>> => Len(s) # 0 BY EmptySeq
  <2>2. s # <<>> => 1 \in 1 .. Len(s) BY <1>1, <2>1
  <2>4. s # <<>> => Len(u) # 0 BY <1>1, <2>1
  <2>3. s # <<>> => Head(u) = u[1] /\ Head(s) = s[1] BY <1>1, <2>4, HeadIs
  <2> QED BY <2>2, <2>3, <2>4, <1>1
<1> HIDE DEF u
<1>4. \A P : Some(u, P) <=> Some(s, P) \/ Some(t, P)
  <2> SUFFICES ASSUME NEW P PROVE Some(u, P) <=> Some(s, P) \/ Some(t, P)
    OBVIOUS
  <2>1. ASSUME NEW i \in 1 .. Len(u), u[i] \in P  PROVE Some(s, P) \/ Some(t, P)
    BY <2>1, <1>1, <1>2 DEF Some
  <2>2. ASSUME NEW i \in 1 .. Len(s), s[i] \in P  PROVE Some(u, P) BY <2>2, <1>1, <1>2 DEF Some
  <2>3. ASSUME NEW i \in 1 .. Len(t), t[i] \in P  PROVE Some(u, P) BY <2>3, <1>1, <1>2 DEF Some
  <2> QED BY <2>1, <2>2, <2>3 DEF Some
<1>5. \A P : Once(s, P) /\ ~Some(t, P) => Once(u, P)
  <2> SUFFICES ASSUME NEW P, Once(s, P), ~Some(t, P),
                      NEW i \in 1 .. Len(u), NEW j \in 1 .. Len(u), u[i] \in P, u[j] \in P
               PROVE  i = j
    BY DEF Once
  <2>1. i \in 1 .. Len(s) /\ j \in 1 .. Len(s) BY <1>1, <1>2 DEF Some
  <2> QED BY <2>1, <1>1 DEF Once
<1>6. \A P : ~Some(s, P) /\ Once(t, P) => Once(u, P)
  <2> SUFFICES ASSUME NEW P, ~Some(s, P), Once(t, P),
                      NEW i \in 1 .. Len(u), NEW j \in 1 .. Len(u), u[i] \in P, u[j] \in P
               PROVE  i = j
    BY DEF Once
  <2>1. /\ i - Len(s) \in 1 .. Len(t) /\ Len(s) + (i - Len(s)) = i
        /\ j - Len(s) \in 1 .. Len(t) /\ Len(s) + (j - Len(s)) = j
    BY <1>1, <1>2 DEF Some
  <2>2. t[i - Len(s)] \in P /\ t[j - Len(s)] \in P BY <2>1, <1>1
  <2>3. i - Len(s) = j - Len(s) BY <2>1, <2>2 DEF Once
  <2> QED BY <2>1, <2>3
<1>7. \A P, Q : After(s, P, Q) /\ ~Some(t, P) => After(u, P, Q)
  <2> SUFFICES ASSUME NEW P, NEW Q, After(s, P, Q), ~Some(t, P), NEW i \in 1 .. Len(u), u[i] \in P
               PROVE  \E j \in 1 .. Len(u) : i < j /\ u[j] \in Q
    BY DEF After
  <2>1. i \in 1 .. Len(s) /\ s[i] \in P BY <1>1, <1>2 DEF Some
  <2>2. PICK j \in 1 .. Len(s) : i < j /\ s[j] \in Q BY <2>1 DEF After
  <2> QED BY <2>2, <1>1, <1>2
<1> QED BY <1>1, <1>3, <1>4, <1>5, <1>6, <1>7 DEF u

LEMMA CutHas ==
  ASSUME NEW A, NEW s \in Seq(A), NEW n \in 0 .. Len(s)
  PROVE  /\ SubSeq(s, 1, n) \in Seq(A)
         /\ \A P : Some(SubSeq(s, 1, n), P) => Some(s, P)
         /\ \A P : Once(s, P) => Once(SubSeq(s, 1, n), P)
         /\ SubSeq(s, 1, n) # <<>> => s # <<>> /\ Head(SubSeq(s, 1, n)) = Head(s)
<1> DEFINE t == SubSeq(s, 1, n)
<1>1. t \in Seq(A) /\ Len(t) = n /\ \A i \in 1 .. n : t[i] = s[i]
  OBVIOUS
<1>2. \A i \in 1 .. n : i \in 1 .. Len(s) OBVIOUS
<1>3. t # <<>> => s # <<>> /\ Head(t) = Head(s)
  <2>1. t # <<>> => Len(t) # 0 BY EmptySeq
  <2>2. t # <<>> => 1 \in 1 .. n /\ 1 \in 1 .. Len(s) BY <1>1, <1>2, <2>1
  <2>3. t # <<>> => s # <<>> BY <2>2
  <2>4. t # <<>> => Head(t) = t[1] /\ Head(s) = s[1] BY <1>1, <2>3, HeadIs
  <2> QED BY <1>1, <2>2, <2>3, <2>4
<1> HIDE DEF t
<1> QED BY <1>1, <1>2, <1>3 DEF Some, Once, t

LEMMA EmptyHas ==
  /\ \A P : ~Some(<<>>, P) /\ Once(<<>>, P)
  /\ \A P, Q : After(<<>>, P, Q)
BY DEF Some, Once, After

LEMMA OneHas ==
  ASSUME NEW A, NEW e \in A
  PROVE  <<e>> \in Seq(A) /\ (\A P : Some(<<e>>, P) <=> e \in P) /\ (\A P : Once(<<e>>, P))
<1>1. Len(<<e>>) = 1 /\ <<e>>[1] = e OBVIOUS
<1>2. 1 .. 1 = {1} OBVIOUS
<1> QED BY <1>1, <1>2 DEF Some, Once

LEMMA LeastOf ==
  ASSUME NEW S, S \subseteq Nat, S # {}
  PROVE  \E m \in S : \A k \in S : m <= k
<1> DEFINE L == OpToRel(<, Nat)
<1>1. IsWellFoundedOn(L, Nat)
  BY NatLessThanWellFounded
<1>2. \A x, y \in Nat : x < y => <<x, y>> \in L
  BY DEF OpToRel
<1> HIDE DEF L
<1>3. PICK m \in S : \A k \in S : ~(<<k, m>> \in L)
  BY <1>1, WFMin
<1>4. \A k \in S : m <= k
  <2> TAKE k \in S
  <2>1. k \in Nat /\ m \in Nat
    OBVIOUS
  <2>2. ~(k < m)
    BY <1>2, <1>3, <2>1
  <2> QED BY <2>1, <2>2
<1> QED BY <1>4

(* Induction up to a number, over what a set is made of. *)
LEMMA UpTo ==
  ASSUME NEW S, NEW n \in Nat, 0 \in S, \A i \in 0 .. n - 1 : i \in S => i + 1 \in S
  PROVE  0 .. n \subseteq S
<1> DEFINE Odd == (0 .. n) \ S
<1>1. CASE Odd # {}
  <2>1. PICK i \in Odd : \A j \in Odd : i <= j
    <3>1. Odd \subseteq Nat OBVIOUS
    <3> HIDE DEF Odd
    <3> QED BY <1>1, <3>1, LeastOf
  <2>2. i # 0 /\ i \in 0 .. n /\ i \notin S OBVIOUS
  <2>3. i - 1 \in 0 .. n - 1 /\ i - 1 \in 0 .. n /\ ~(i <= i - 1) BY <2>2
  <2>4. i - 1 \in S BY <2>1, <2>3
  <2>5. (i - 1) + 1 = i BY <2>2
  <2> QED BY <2>2, <2>3, <2>4, <2>5
<1> QED BY <1>1

(* removeAll, element by element. *)
Keeping(f, s, G, n) ==
  f = [i \in 0 .. n |-> IF i = 0 THEN <<>> ELSE IF s[i] \in G THEN f[i - 1] ELSE Append(f[i - 1], s[i])]

LEMMA KeepingExists ==
  ASSUME NEW s, NEW G, NEW n \in Nat
  PROVE  \E f : Keeping(f, s, G, n)
<1> DEFINE S == {i \in Nat : \E f : Keeping(f, s, G, i)}
           Step(f, j) == IF j = 0 THEN <<>> ELSE IF s[j] \in G THEN f[j - 1] ELSE Append(f[j - 1], s[j])
<1>1. 0 \in S
  <2> DEFINE f == [i \in 0 .. 0 |-> <<>>]
  <2>1. Keeping(f, s, G, 0) BY DEF Keeping
  <2> QED BY <2>1
<1>2. ASSUME NEW i \in 0 .. n - 1, i \in S  PROVE i + 1 \in S
  <2>1. PICK f : Keeping(f, s, G, i) BY <1>2
  <2>2. i \in Nat OBVIOUS
  <2> DEFINE g == [j \in 0 .. i + 1 |-> Step(f, j)]
  <2>3. \A j \in 0 .. i : f[j] = Step(f, j) BY <2>1 DEF Keeping
  <2>4. \A j \in 0 .. i + 1 : g[j] = Step(f, j) OBVIOUS
  <2>5. \A j \in 0 .. i : j \in 0 .. i + 1 BY <2>2
  <2>6. \A j \in 0 .. i : g[j] = f[j]
    <3> HIDE DEF Step, g
    <3> QED BY <2>3, <2>4, <2>5
  <2>7. \A j \in 0 .. i + 1 : j # 0 => j - 1 \in 0 .. i BY <2>2
  <2>8. \A j \in 0 .. i + 1 : Step(f, j) = Step(g, j)
    <3> HIDE DEF g
    <3> QED BY <2>6, <2>7
  <2>9. g = [j \in 0 .. i + 1 |-> Step(g, j)]
    <3>1. [j \in 0 .. i + 1 |-> Step(f, j)] = [j \in 0 .. i + 1 |-> Step(g, j)]
      <4> HIDE DEF Step, g
      <4> QED BY <2>8
    <3> QED BY <3>1
  <2>10. Keeping(g, s, G, i + 1)
    <3> HIDE DEF g
    <3> QED BY <2>9 DEF Keeping
  <2> QED BY <2>2, <2>10
<1> HIDE DEF S
<1>3. 0 .. n \subseteq S BY <1>1, <1>2, UpTo
<1>4. n \in S BY <1>3
<1> QED BY <1>4 DEF S

LEMMA WithoutHas ==
  ASSUME NEW A, NEW s \in Seq(A), NEW G
  PROVE  /\ Without(s, G) \in Seq(A)
         /\ \A P : Some(Without(s, G), P) => Some(s, P)
         /\ ~Some(Without(s, G), G)
<1> DEFINE u == CHOOSE f : f = [i \in 0 .. Len(s) |->
             IF i = 0 THEN <<>> ELSE IF s[i] \in G THEN f[i - 1] ELSE Append(f[i - 1], s[i])]
<1>0. Len(s) \in Nat OBVIOUS
<1>1. Without(s, G) = u[Len(s)] BY DEF Without
<1>2. PICK f : f = [i \in 0 .. Len(s) |->
             IF i = 0 THEN <<>> ELSE IF s[i] \in G THEN f[i - 1] ELSE Append(f[i - 1], s[i])]
  <2>1. PICK f : Keeping(f, s, G, Len(s)) BY <1>0, KeepingExists
  <2> QED BY <2>1 DEF Keeping
<1>3. u = [i \in 0 .. Len(s) |->
             IF i = 0 THEN <<>> ELSE IF s[i] \in G THEN u[i - 1] ELSE Append(u[i - 1], s[i])]
  BY <1>2
<1> HIDE DEF u
<1>4. \A i \in 0 .. Len(s) : u[i] = IF i = 0 THEN <<>> ELSE IF s[i] \in G THEN u[i - 1] ELSE Append(u[i - 1], s[i])
  BY <1>3
<1> DEFINE Fine(t) == t \in Seq(A) /\ (\A P : Some(t, P) => Some(s, P)) /\ ~Some(t, G)
           S == {i \in Nat : Fine(u[i])}
<1>5. 0 \in S
  <2>1. u[0] = <<>> BY <1>0, <1>4
  <2>2. <<>> \in Seq(A) OBVIOUS
  <2> QED BY <2>1, <2>2, EmptyHas
<1>6. ASSUME NEW i \in 0 .. Len(s) - 1, i \in S  PROVE i + 1 \in S
  <2>1. i + 1 \in 1 .. Len(s) /\ i + 1 \in 0 .. Len(s) /\ i + 1 # 0 /\ i + 1 \in Nat /\ (i + 1) - 1 = i
    BY <1>0
  <2>2. Fine(u[i]) /\ s[i + 1] \in A BY <1>6, <2>1
  <2>3. u[i + 1] = IF s[i + 1] \in G THEN u[i] ELSE Append(u[i], s[i + 1]) BY <1>4, <2>1
  <2>4. CASE s[i + 1] \in G BY <2>1, <2>2, <2>3, <2>4
  <2>5. CASE s[i + 1] \notin G
    <3>1. u[i + 1] = Append(u[i], s[i + 1]) BY <2>3, <2>5
    <3>2. /\ Append(u[i], s[i + 1]) \in Seq(A)
          /\ \A P : Some(Append(u[i], s[i + 1]), P) <=> Some(u[i], P) \/ s[i + 1] \in P
      BY <2>2, AppendHas
    <3>3. \A P : s[i + 1] \in P => Some(s, P) BY <2>1 DEF Some
    <3>4. Fine(u[i + 1]) BY <2>2, <2>5, <3>1, <3>2, <3>3
    <3> QED BY <2>1, <3>4
  <2> QED BY <2>4, <2>5
<1>7. 0 .. Len(s) \subseteq S
  <2> HIDE DEF S
  <2> QED BY <1>0, <1>5, <1>6, UpTo
<1>8. Len(s) \in S BY <1>0, <1>7
<1> QED BY <1>1, <1>8

----------------------------------------

UpMessage   == {Greeting} \cup [op : {"request"}, no : Requests] \cup [op : {"reg", "unreg"}, no : Regs]
DownMessage == [op : {"reply"}, no : Requests] \cup [op : {"signal"}, no : Regs]
Posts == [conn : Links, msg : UpMessage \cup DownMessage \cup {Gone}]
InPosts == {e \in Posts : e.msg.op # "hello"}
Calls == {e \in Posts : e.msg.op \in {"request", "reg", "unreg", "gone"}}
Listener == {e \in Posts : e.msg.op = "reg"}
Delayed == {e \in Posts : e.msg.op = "request"}

AsyncType == [op : {"reg", "unreg"}, no : Regs]
ClientType == [ws : 0 .. MaxLinks, open : BOOLEAN, active : BOOLEAN, callback : 0 .. MaxRequests,
               waiting : Seq(Requests), async : Seq(AsyncType), rsigs : Seq(Regs)]

(* Which calls each queue takes. *)
RmiTypes ==
  /\ client \in ClientType
  /\ sock \in [Links -> {"none", "up", "down", "told"}]
  /\ up \in [Links -> Seq(UpMessage)] /\ down \in [Links -> Seq(DownMessage)]
  /\ greeted \subseteq Links
  /\ server \in [queue : Seq(InPosts), active : SUBSET Links]
  /\ service \in [queue : Seq(Calls), listeners : Seq(Listener), delayed : SUBSET Delayed]
  /\ made \in [requests : 0 .. MaxRequests, regs : 0 .. MaxRegs, ended : SUBSET Regs, signals : Nat]
  /\ fate \in [Requests -> {"new", "waits", "sent", "thrown", "answered", "lost", "refused"}]
  /\ answers \in Seq([request : Requests, reply : Requests])

(* The browser has one connection; the last does not break. *)
LinkInv ==
  /\ \A c \in Links : sock[c] = "up" => c = client.ws
  /\ client.ws # 0 => sock[client.ws] # "none"
  /\ client.ws = 0 => ~client.open
  /\ sock[MaxLinks] \in {"none", "up"}
  /\ \A c \in Links : sock[c] \in {"none", "told"} => up[c] = <<>>

Of(c, Q) == {e \in Q : e.conn = c}

(* Of a connection that has not said hello there is nothing. *)
Quiet(c) ==
  /\ ~Some(server.queue, Of(c, Posts)) /\ ~Some(service.queue, Of(c, Posts))
  /\ ~Some(service.listeners, Of(c, Posts))
  /\ \A e \in service.delayed : e.conn # c
  /\ c \notin server.active
  /\ down[c] = <<>>
  /\ up[c] # <<>> => Head(up[c]) = Greeting

(* Before its greeting a connection has sent nothing that counts: the *)
(* server hears of it first, so it hears of its end as well. *)
HelloInv ==
  /\ \A c \in Links : sock[c] = "none" \/ (c = client.ws /\ ~client.open) => up[c] = <<>> /\ c \notin greeted
  /\ \A c \in Links \ greeted : Quiet(c)
  /\ client.open /\ sock[client.ws] = "up" /\ client.ws \notin greeted => up[client.ws] # <<>>

(* Requests of a connection and their replies, with numbers in N. *)
Asks(N)       == {m \in UpMessage : m.op = "request" /\ m.no \in N}
Replies(N)    == {m \in DownMessage : m.op = "reply" /\ m.no \in N}
AsksOf(c, N)    == {e \in Posts : e.conn = c /\ e.msg.op = "request" /\ e.msg.no \in N}
RepliesOf(c, N) == {e \in Posts : e.conn = c /\ e.msg.op = "reply" /\ e.msg.no \in N}

(* A request with a number in N, or its reply, is at place p. *)
Places == {"up", "server", "service", "delayed", "reply", "down"}
Lies(p, c, N) ==
  \/ p = "up"      /\ Some(up[c], Asks(N))
  \/ p = "server"  /\ Some(server.queue, AsksOf(c, N))
  \/ p = "service" /\ Some(service.queue, AsksOf(c, N))
  \/ p = "delayed" /\ service.delayed \cap AsksOf(c, N) # {}
  \/ p = "reply"   /\ Some(server.queue, RepliesOf(c, N))
  \/ p = "down"    /\ Some(down[c], Replies(N))
Alone(p, c) ==
  /\ p = "up"      => Once(up[c], Asks(Nat))
  /\ p = "server"  => Once(server.queue, AsksOf(c, Nat))
  /\ p = "service" => Once(service.queue, AsksOf(c, Nat))
  /\ p = "delayed" => \A x, y \in service.delayed : x.conn = c /\ y.conn = c => x = y
  /\ p = "reply"   => Once(server.queue, RepliesOf(c, Nat))
  /\ p = "down"    => Once(down[c], Replies(Nat))
OnWay(c, N) == \E p \in Places : Lies(p, c, N)

(* A connection has one request on its way, at one place; it is active *)
(* from the server's taking it to its reply. *)
AloneOne(c) ==
  /\ \A p \in Places : Alone(p, c)
  /\ \A p, q \in Places : Lies(p, c, Nat) /\ Lies(q, c, Nat) => p = q
  /\ c \in server.active => \E p \in {"service", "delayed", "reply"} : Lies(p, c, Nat)
AloneInv == \A c \in Links : AloneOne(c)

(* What is on its way on the connection the browser has is the request the *)
(* callback belongs to, and while it is up and unanswered, it is there. *)
CarryInv ==
  \A d \in Links : d = client.ws =>
    /\ \A n \in Nat : OnWay(d, {n}) => n = client.callback
    /\ client.callback \in Requests /\ fate[client.callback] = "sent" /\ sock[d] = "up" => OnWay(d, Nat)

(* What was answered, what the callback belongs to and what waits come in *)
(* the order in which they were requested, and each request is in one of *)
(* these; requestActive tells whether there is any. *)
BrowserInv ==
  /\ client.callback # 0 \/ client.waiting # <<>> \/ client.rsigs # <<>> => client.active
  /\ client.ws # 0 /\ ~client.open => client.active
  /\ \A i \in 1 .. Len(answers) : answers[i].request = answers[i].reply
  /\ \A i, j \in 1 .. Len(answers) : i < j => answers[i].request < answers[j].request
  /\ \A i \in 1 .. Len(answers) :
       /\ client.callback # 0 /\ fate[client.callback] = "sent" => answers[i].request < client.callback
       /\ \A k \in 1 .. Len(client.waiting) : answers[i].request < client.waiting[k]
       /\ answers[i].request <= made.requests
  /\ client.callback <= made.requests
  /\ \A k \in 1 .. Len(client.waiting) :
       /\ client.callback < client.waiting[k] /\ client.waiting[k] <= made.requests
       /\ \A j \in 1 .. k - 1 : client.waiting[j] < client.waiting[k]
  /\ \A r \in Requests : fate[r] = "waits" => \E k \in 1 .. Len(client.waiting) : client.waiting[k] = r
  /\ \A r \in Requests : fate[r] = "sent" => r = client.callback /\ client.open
  /\ client.open /\ client.active => client.callback # 0 /\ fate[client.callback] = "sent"
  /\ \A r \in Requests : fate[r] # "refused"

Regd(c)   == {e \in Posts : e.conn = c /\ e.msg.op = "reg"}
GoneOf(c) == {e \in Posts : e.conn = c /\ e.msg = Gone}
(* Once the manager has reported the end of a connection, that report is *)
(* behind every registration of it in both queues. *)
GoneInv ==
  \A c \in Links :
    sock[c] = "told" =>
      /\ After(server.queue, Regd(c), GoneOf(c))
      /\ Some(server.queue, GoneOf(c)) \/ After(service.queue, Regd(c), GoneOf(c))
      /\ Some(service.listeners, Regd(c)) => Some(server.queue, GoneOf(c)) \/ Some(service.queue, GoneOf(c))

RmiInv == RmiTypes /\ LinkInv /\ HelloInv /\ AloneInv /\ CarryInv /\ BrowserInv /\ GoneInv

----------------------------------------
(* RMI: types are kept *)

(* The sets of messages and posts. *)
LEMMA MessageIs ==
  /\ \A m \in UpMessage \cup DownMessage \cup {Gone} : m.no \in Nat
  /\ \A m \in UpMessage : m = Greeting \/ m.op \in {"request", "reg", "unreg"}
  /\ \A m \in UpMessage : m.op = "request" => m.no \in Requests
  /\ \A m \in DownMessage : m.op \in {"reply", "signal"}
  /\ \A m \in DownMessage : m.op = "reply" => m.no \in Requests
  /\ \A m \in UpMessage \cup DownMessage \cup {Gone} :
       /\ m.op \in {"request", "reg", "unreg"} => m \in UpMessage
       /\ m.op \in {"reply", "signal"} => m \in DownMessage
       /\ m.op = "hello" => m = Greeting
       /\ m.op = "gone" => m = Gone
       /\ m.op \in {"request", "reply"} => m.no \in Requests
       /\ m.op \in {"reg", "unreg", "signal"} => m.no \in Regs
  /\ Greeting \in UpMessage /\ Greeting.op = "hello" /\ Gone.op = "gone"
  /\ \A r \in Requests : Request(r) \in UpMessage /\ Reply(r) \in DownMessage
  /\ \A i \in Regs : Reg(i) \in UpMessage /\ Unreg(i) \in UpMessage /\ Signal(i) \in DownMessage
BY RMIAssumption DEF UpMessage, DownMessage, Greeting, Gone, Request, Reply, Reg, Unreg, Signal, Requests, Regs

LEMMA PostIs ==
  ASSUME NEW c \in Links, NEW m \in UpMessage \cup DownMessage \cup {Gone}
  PROVE  /\ At(c, m) \in Posts /\ At(c, m).conn = c /\ At(c, m).msg = m
         /\ m.op # "hello" => At(c, m) \in InPosts
         /\ m.op \in {"request", "reg", "unreg", "gone"} => At(c, m) \in Calls
BY DEF At, Posts, InPosts, Calls

LEMMA Subsets ==
  /\ InPosts \subseteq Posts /\ Calls \subseteq InPosts
  /\ Listener \subseteq Calls /\ Delayed \subseteq Calls
  /\ \A e \in Posts : e.conn \in Links /\ e.msg \in UpMessage \cup DownMessage \cup {Gone} /\ e = At(e.conn, e.msg)
BY DEF Posts, InPosts, Calls, Listener, Delayed, At

(****************************************)
(* Types *)
(****************************************)

LEMMA SeqGrows ==
  ASSUME NEW A, NEW B, A \subseteq B, NEW s \in Seq(A)  PROVE s \in Seq(B)
<1>1. Len(s) \in Nat /\ s \in [1 .. Len(s) -> A] OBVIOUS
<1>2. s \in [1 .. Len(s) -> B] BY <1>1
<1> QED BY <1>1, <1>2, SeqDef

LEMMA ClientIs ==
  ASSUME NEW c \in ClientType
  PROVE  /\ \A s \in Seq(Requests) : [c EXCEPT !.waiting = s] \in ClientType
         /\ \A r \in 0 .. MaxRequests : /\ [c EXCEPT !.active = TRUE, !.callback = r] \in ClientType
                                      /\ \A s \in Seq(Requests) : [c EXCEPT !.callback = r, !.waiting = s] \in ClientType
         /\ \A m \in Seq(AsyncType) : /\ [c EXCEPT !.async = m] \in ClientType
                                     /\ [c EXCEPT !.open = TRUE, !.async = m] \in ClientType
         /\ \A w \in 0 .. MaxLinks : /\ [c EXCEPT !.ws = w, !.open = FALSE] \in ClientType
                                    /\ [c EXCEPT !.ws = w, !.open = FALSE, !.active = TRUE] \in ClientType
         /\ \A s \in Seq(Regs) : /\ [c EXCEPT !.rsigs = s] \in ClientType
                               /\ \A r \in 0 .. MaxRequests : [c EXCEPT !.callback = r, !.active = FALSE, !.rsigs = s] \in ClientType
BY DEF ClientType

LEMMA SentType ==
  ASSUME RmiTypes, NEW ms \in Seq(UpMessage), client.ws # 0
  PROVE  Sent(ms) \in [Links -> Seq(UpMessage)]
<1>1. client.ws \in Links BY DEF RmiTypes, Links, ClientType
<1>2. up[client.ws] \o ms \in Seq(UpMessage) BY <1>1 DEF RmiTypes
<1> QED BY <1>1, <1>2 DEF RmiTypes, Sent

LEMMA NextTypes ==
  ASSUME RmiTypes
  PROVE  NextRequest \in Seq(UpMessage)
<1>1. client.waiting # <<>> => Head(client.waiting) \in Requests BY DEF RmiTypes, ClientType
<1> QED BY <1>1, MessageIs DEF NextRequest

LEMMA CheckTypes ==
  ASSUME RmiTypes, NEW c \in ClientType
  PROVE  CheckWaiting(c) \in ClientType
<1>0. c.waiting \in Seq(Requests) BY DEF ClientType
<1>1. c.waiting # <<>> => Head(c.waiting) \in Requests /\ Tail(c.waiting) \in Seq(Requests)
  BY <1>0, HeadTailProperties
<1>2. \A r \in Requests : r \in 0 .. MaxRequests BY DEF Requests
<1>3. <<>> \in Seq(Regs) /\ 0 \in 0 .. MaxRequests BY RMIAssumption
<1>4. CASE c.waiting # <<>>
  <2>1. CheckWaiting(c) = [c EXCEPT !.callback = Head(c.waiting), !.waiting = Tail(c.waiting)]
    BY <1>4 DEF CheckWaiting, ClientType
  <2>2. [c EXCEPT !.callback = Head(c.waiting), !.waiting = Tail(c.waiting)] \in ClientType
    BY <1>1, <1>2, <1>4 DEF ClientType
  <2> QED BY <2>1, <2>2
<1>5. CASE c.waiting = <<>>
  <2>1. CheckWaiting(c) = [c EXCEPT !.callback = 0, !.active = FALSE, !.rsigs = <<>>]
    BY <1>5 DEF CheckWaiting, ClientType
  <2>2. [c EXCEPT !.callback = 0, !.active = FALSE, !.rsigs = <<>>] \in ClientType
    <3>1. \A s \in Seq(Regs) : [c EXCEPT !.callback = 0, !.active = FALSE, !.rsigs = s] \in ClientType
      BY <1>3 DEF ClientType
    <3> QED BY <1>3, <3>1
  <2> QED BY <2>1, <2>2
<1> QED BY <1>4, <1>5

LEMMA TypesBegin == RmiInit => RmiTypes
<1> SUFFICES ASSUME RmiInit PROVE RmiTypes OBVIOUS
<1>1. client \in ClientType
  <2>1. <<>> \in Seq(Requests) /\ <<>> \in Seq(AsyncType) /\ <<>> \in Seq(Regs) OBVIOUS
  <2> QED BY <2>1, RMIAssumption DEF RmiInit, ClientType
<1>2. /\ up \in [Links -> Seq(UpMessage)] /\ down \in [Links -> Seq(DownMessage)]
      /\ server \in [queue : Seq(InPosts), active : SUBSET Links]
      /\ service \in [queue : Seq(Calls), listeners : Seq(Listener), delayed : SUBSET Delayed]
      /\ answers \in Seq([request : Requests, reply : Requests])
  <2>1. <<>> \in Seq(InPosts) /\ <<>> \in Seq(Calls) /\ <<>> \in Seq(Listener) OBVIOUS
  <2>2. <<>> \in Seq(UpMessage) /\ <<>> \in Seq(DownMessage) /\ <<>> \in Seq([request : Requests, reply : Requests])
    OBVIOUS
  <2> QED BY <2>1, <2>2 DEF RmiInit
<1> QED BY <1>1, <1>2, RMIAssumption DEF RmiInit, RmiTypes

LEMMA TypesApplication ==
  ASSUME RmiTypes, Application PROVE RmiTypes'
<1>1. ASSUME NEW r \in Requests, r = made.requests + 1, SendRequest(r) PROVE RmiTypes'
  <2>1. r \in 0 .. MaxRequests BY DEF Requests
  <2>2. made' \in [requests : 0 .. MaxRequests, regs : 0 .. MaxRegs, ended : SUBSET Regs, signals : Nat]
    BY <1>1, <2>1 DEF RmiTypes, SendRequest
  <2>3. fate' \in [Requests -> {"new", "waits", "sent", "thrown", "answered", "lost", "refused"}]
    BY <1>1 DEF RmiTypes, SendRequest
  <2>4. Append(client.waiting, r) \in Seq(Requests) BY DEF RmiTypes, ClientType
  <2>5. client' \in ClientType
    <3>1. client \in ClientType BY DEF RmiTypes
    <3>2. \/ client' = [client EXCEPT !.waiting = Append(client.waiting, r)]
          \/ client' = [client EXCEPT !.active = TRUE, !.callback = r]
      BY <1>1, <3>1 DEF SendRequest, ClientType
    <3> QED BY <3>1, <3>2, <2>1, <2>4, ClientIs
  <2>6. up' \in [Links -> Seq(UpMessage)]
    <3>1. <<Request(r)>> \in Seq(UpMessage) BY MessageIs
    <3>2. client.ws # 0 => Sent(<<Request(r)>>) \in [Links -> Seq(UpMessage)] BY <3>1, SentType
    <3> QED BY <1>1, <3>2 DEF RmiTypes, SendRequest
  <2> QED BY <1>1, <2>2, <2>3, <2>5, <2>6 DEF RmiTypes, SendRequest
<1>2. ASSUME NEW m \in AsyncType, SendAsync(m),
             made' \in [requests : 0 .. MaxRequests, regs : 0 .. MaxRegs, ended : SUBSET Regs, signals : Nat]
      PROVE  RmiTypes'
  <2>1. Append(client.async, m) \in Seq(AsyncType) BY DEF RmiTypes, ClientType
  <2>2. client' \in ClientType
    <3>1. client \in ClientType BY DEF RmiTypes
    <3>2. client' = client \/ client' = [client EXCEPT !.async = Append(client.async, m)]
      BY <1>2, <3>1 DEF SendAsync, ClientType
    <3> QED BY <3>1, <3>2, <2>1, ClientIs
  <2>3. up' \in [Links -> Seq(UpMessage)]
    <3>1. m \in UpMessage BY DEF UpMessage, AsyncType
    <3>2. <<m>> \in Seq(UpMessage) BY <3>1
    <3>3. client.ws # 0 => Sent(<<m>>) \in [Links -> Seq(UpMessage)] BY <3>2, SentType
    <3> QED BY <1>2, <3>3 DEF RmiTypes, SendAsync
  <2> QED BY <1>2, <2>2, <2>3 DEF RmiTypes, SendAsync
<1>3. Register => RmiTypes'
  <2> SUFFICES ASSUME Register PROVE RmiTypes' OBVIOUS
  <2>1. made.regs + 1 \in Regs /\ made.regs + 1 \in 0 .. MaxRegs
    BY RMIAssumption DEF Register, RmiTypes, Regs
  <2>2. made' \in [requests : 0 .. MaxRequests, regs : 0 .. MaxRegs, ended : SUBSET Regs, signals : Nat]
    BY <2>1 DEF RmiTypes, Register
  <2>3. Reg(made.regs + 1) \in AsyncType BY <2>1 DEF Reg, AsyncType
  <2> QED BY <1>2, <2>2, <2>3 DEF Register
<1>4. Unregister => RmiTypes'
  <2> SUFFICES ASSUME NEW i \in 1 .. made.regs, i \notin made.ended,
                      made' = [made EXCEPT !.ended = @ \cup {i}], SendAsync(Unreg(i))
               PROVE  RmiTypes'
    BY DEF Unregister
  <2>1. i \in Regs BY RMIAssumption DEF RmiTypes, Regs
  <2>2. made' \in [requests : 0 .. MaxRequests, regs : 0 .. MaxRegs, ended : SUBSET Regs, signals : Nat]
    BY <2>1 DEF RmiTypes
  <2>3. Unreg(i) \in AsyncType BY <2>1 DEF Unreg, AsyncType
  <2> QED BY <1>2, <2>2, <2>3
<1> QED BY <1>1, <1>3, <1>4 DEF Application

LEMMA TypesBrowser ==
  ASSUME RmiTypes, Browser PROVE RmiTypes'
<1> DEFINE Fates == {"new", "waits", "sent", "thrown", "answered", "lost", "refused"}
<1>a. client \in ClientType /\ fate \in [Requests -> Fates] BY DEF RmiTypes
<1>b. \A f \in [Requests -> Fates] : SentNext(f) \in [Requests -> Fates]
  <2>1. client.waiting # <<>> => Head(client.waiting) \in Requests BY DEF RmiTypes, ClientType
  <2> QED BY <2>1 DEF SentNext
<1>c. ASSUME NEW op, Arrives(op)
      PROVE  /\ client.ws \in Links /\ down' \in [Links -> Seq(DownMessage)]
             /\ Head(down[client.ws]) \in DownMessage /\ Head(down[client.ws]).op = op
  <2>1. client.ws \in Links BY <1>c DEF RmiTypes, Arrives, Links, ClientType
  <2>2. down[client.ws] \in Seq(DownMessage) /\ down[client.ws] # <<>> BY <1>c, <2>1 DEF RmiTypes, Arrives
  <2>3. Tail(down[client.ws]) \in Seq(DownMessage) /\ Head(down[client.ws]) \in DownMessage
    BY <2>2, HeadTailProperties
  <2> QED BY <1>c, <2>1, <2>3 DEF RmiTypes, Arrives
<1>1. Start => RmiTypes'
  <2> SUFFICES ASSUME Start PROVE RmiTypes' OBVIOUS
  <2>1. \A c \in Links : c \in 0 .. MaxLinks BY DEF Links
  <2>2. client' \in ClientType
    <3>1. PICK c \in Links : client' = [client EXCEPT !.ws = c, !.open = FALSE, !.active = TRUE] BY DEF Start
    <3> QED BY <1>a, <2>1, <3>1, ClientIs
  <2>3. sock' \in [Links -> {"none", "up", "down", "told"}] BY DEF RmiTypes, Start
  <2> QED BY <2>2, <2>3 DEF RmiTypes, Start, hist
<1>2. WsOpen => RmiTypes'
  <2> SUFFICES ASSUME WsOpen PROVE RmiTypes' OBVIOUS
  <2>1. client.ws # 0 BY DEF WsOpen, Opening
  <2>2. client.async \in Seq(UpMessage)
    <3>1. AsyncType \subseteq UpMessage BY DEF AsyncType, UpMessage
    <3>2. client.async \in Seq(AsyncType) BY DEF RmiTypes, ClientType
    <3> QED BY <3>1, <3>2, SeqGrows
  <2>3. <<Greeting>> \in Seq(UpMessage) BY MessageIs
  <2>4. <<Greeting>> \o client.async \o NextRequest \in Seq(UpMessage)
    BY <2>2, <2>3, NextTypes
  <2>5. up' \in [Links -> Seq(UpMessage)] BY <2>1, <2>4, SentType DEF WsOpen
  <2>6. [client EXCEPT !.open = TRUE, !.async = <<>>] \in ClientType
    <3>1. <<>> \in Seq(AsyncType) OBVIOUS
    <3> QED BY <1>a, <3>1, ClientIs
  <2>7. client' \in ClientType BY <2>6, CheckTypes DEF WsOpen
  <2> QED BY <1>a, <1>b, <2>5, <2>7 DEF WsOpen, RmiTypes
<1>3. NewReply => RmiTypes'
  <2> SUFFICES ASSUME NewReply PROVE RmiTypes' OBVIOUS
  <2>1. /\ client.ws \in Links /\ down' \in [Links -> Seq(DownMessage)]
        /\ Head(down[client.ws]).no \in Requests
    BY <1>c, MessageIs DEF NewReply
  <2>2. client.ws # 0 BY <2>1 DEF Links
  <2>3. up' \in [Links -> Seq(UpMessage)] BY <2>2, NextTypes, SentType DEF NewReply
  <2>4. client' \in ClientType BY <1>a, CheckTypes DEF NewReply
  <2>5. client.callback # 0 => client.callback \in Requests BY DEF RmiTypes, Requests, ClientType
  <2>6. fate' \in [Requests -> Fates]
    <3>1. (IF client.callback = 0 THEN fate ELSE [fate EXCEPT ![client.callback] = "answered"]) \in [Requests -> Fates]
      BY <1>a, <2>5
    <3> QED BY <3>1, <1>b DEF NewReply
  <2>7. answers' \in Seq([request : Requests, reply : Requests])
    <3>1. client.callback # 0 => [request |-> client.callback, reply |-> Head(down[client.ws]).no] \in [request : Requests, reply : Requests]
      BY <2>1, <2>5
    <3>2. answers \in Seq([request : Requests, reply : Requests]) BY DEF RmiTypes
    <3>3. \/ answers' = answers
          \/ client.callback # 0 /\ answers' = Append(answers, [request |-> client.callback, reply |-> Head(down[client.ws]).no])
      BY DEF NewReply
    <3>4. ASSUME NEW a \in [request : Requests, reply : Requests]
          PROVE  Append(answers, a) \in Seq([request : Requests, reply : Requests])
      BY <3>2
    <3> QED BY <3>1, <3>2, <3>3, <3>4
  <2> QED BY <2>1, <2>3, <2>4, <2>6, <2>7 DEF NewReply, RmiTypes
<1>4. NewSignal => RmiTypes'
  <2> SUFFICES ASSUME NewSignal PROVE RmiTypes' OBVIOUS
  <2>1. /\ down' \in [Links -> Seq(DownMessage)] /\ Head(down[client.ws]) \in DownMessage
        /\ Head(down[client.ws]).op = "signal"
    BY <1>c DEF NewSignal
  <2>2. Head(down[client.ws]).no \in Regs BY <2>1, MessageIs
  <2>3. Append(client.rsigs, Head(down[client.ws]).no) \in Seq(Regs) BY <2>2 DEF RmiTypes, ClientType
  <2>4. client' \in ClientType BY <1>a, <2>3, ClientIs DEF NewSignal
  <2> QED BY <2>1, <2>4 DEF NewSignal, RmiTypes, hist
<1>5. WsClose => RmiTypes'
  <2> SUFFICES ASSUME WsClose PROVE RmiTypes' OBVIOUS
  <2>1. client' \in ClientType
    <3>1. client' = [client EXCEPT !.ws = 0, !.open = FALSE] /\ 0 \in 0 .. MaxLinks
      BY RMIAssumption DEF WsClose
    <3> QED BY <1>a, <3>1, ClientIs
  <2>2. fate' \in [Requests -> Fates] BY <1>a DEF WsClose
  <2> QED BY <2>1, <2>2 DEF WsClose, RmiTypes, wires
<1> QED BY <1>1, <1>2, <1>3, <1>4, <1>5 DEF Browser

LEMMA PostedType ==
  ASSUME RmiTypes, NEW c \in Links, NEW m \in UpMessage \cup DownMessage \cup {Gone}, m.op # "hello"
  PROVE  /\ Posted(server, c, m) \in [queue : Seq(InPosts), active : SUBSET Links]
         /\ m.op \in {"request", "reg", "unreg", "gone"} =>
              Posted(service, c, m) \in [queue : Seq(Calls), listeners : Seq(Listener), delayed : SUBSET Delayed]
<1>1. Append(server.queue, At(c, m)) \in Seq(InPosts) BY PostIs DEF RmiTypes
<1>2. m.op \in {"request", "reg", "unreg", "gone"} => Append(service.queue, At(c, m)) \in Seq(Calls)
  BY PostIs DEF RmiTypes
<1> QED BY <1>1, <1>2 DEF RmiTypes, Posted

LEMMA TypesNetwork ==
  ASSUME RmiTypes, NEW c \in Links, Break(c) \/ Manager(c)  PROVE RmiTypes'
<1>1. Break(c) => RmiTypes'
  <2> SUFFICES ASSUME sock' = [sock EXCEPT ![c] = "down"], NEW i \in 0 .. Len(up[c]), NEW j \in 0 .. Len(down[c]),
         up' = [up EXCEPT ![c] = SubSeq(@, 1, i)], down' = [down EXCEPT ![c] = SubSeq(@, 1, j)],
         UNCHANGED <<client, greeted, server, service, hist>>
      PROVE RmiTypes'
    BY DEF Break
  <2>1. SubSeq(up[c], 1, i) \in Seq(UpMessage) /\ SubSeq(down[c], 1, j) \in Seq(DownMessage)
    BY CutHas DEF RmiTypes
  <2> QED BY <2>1 DEF RmiTypes, hist
<1>2. NewMsg(c) => RmiTypes'
  <2> SUFFICES ASSUME NewMsg(c) PROVE RmiTypes' OBVIOUS
  <2>1. Head(up[c]) \in UpMessage /\ Tail(up[c]) \in Seq(UpMessage)
    BY HeadTailProperties DEF NewMsg, RmiTypes
  <2>2. Head(up[c]) # Greeting => Posted(server, c, Head(up[c])) \in [queue : Seq(InPosts), active : SUBSET Links]
    BY <2>1, MessageIs, PostedType
  <2> QED BY <2>1, <2>2 DEF RmiTypes, NewMsg, hist
<1>3. LinkClosed(c) => RmiTypes'
  <2> SUFFICES ASSUME LinkClosed(c) PROVE RmiTypes' OBVIOUS
  <2>1. Posted(server, c, Gone) \in [queue : Seq(InPosts), active : SUBSET Links]
    BY MessageIs, PostedType
  <2> QED BY <2>1 DEF RmiTypes, LinkClosed, hist
<1> QED BY <1>1, <1>2, <1>3 DEF Manager

LEMMA HeadOfServer ==
  ASSUME RmiTypes, server.queue # <<>>
  PROVE  /\ Head(server.queue) \in InPosts /\ Tail(server.queue) \in Seq(InPosts)
         /\ Head(server.queue).conn \in Links
         /\ Head(server.queue).msg \in UpMessage \cup DownMessage \cup {Gone}
         /\ Head(server.queue) = At(Head(server.queue).conn, Head(server.queue).msg)
         /\ Head(server.queue).msg.op # "hello"
<1>1. Head(server.queue) \in InPosts /\ Tail(server.queue) \in Seq(InPosts)
  BY HeadTailProperties DEF RmiTypes
<1> QED BY <1>1, Subsets DEF InPosts

LEMMA HeadOfService ==
  ASSUME RmiTypes, service.queue # <<>>
  PROVE  /\ Serving \in Calls /\ Tail(service.queue) \in Seq(Calls)
         /\ Serving.conn \in Links
         /\ Serving.msg \in UpMessage \cup DownMessage \cup {Gone}
         /\ Serving = At(Serving.conn, Serving.msg)
<1>1. Serving \in Calls /\ Tail(service.queue) \in Seq(Calls)
  BY HeadTailProperties DEF RmiTypes, Serving
<1> QED BY <1>1, Subsets

LEMMA TypesServer ==
  ASSUME RmiTypes, Server PROVE RmiTypes'
<1>1. HandleCall => RmiTypes'
  <2> SUFFICES ASSUME HandleCall PROVE RmiTypes' OBVIOUS
  <2> DEFINE e == Head(server.queue)
  <2>1. /\ e.conn \in Links /\ e.msg \in UpMessage \cup DownMessage \cup {Gone}
        /\ e.msg.op # "hello" /\ Tail(server.queue) \in Seq(InPosts)
    BY HeadOfServer DEF HandleCall, ServerTakes
  <2>2. Posted(service, e.conn, e.msg) \in [queue : Seq(Calls), listeners : Seq(Listener), delayed : SUBSET Delayed]
    BY <2>1, PostedType DEF HandleCall, ServerTakes
  <2>3. e.msg.op = "request" => e.msg.no \in Requests BY <2>1, MessageIs
  <2> HIDE DEF e
  <2>4. /\ server' = [server EXCEPT !.queue = Tail(server.queue),
                  !.active = IF e.msg.op = "request" THEN server.active \cup {e.conn} ELSE server.active]
        /\ service' = service \/ service' = Posted(service, e.conn, e.msg)
        /\ sock' = sock \/ sock' = [sock EXCEPT ![e.conn] = "down"]
        /\ fate' = fate \/ (e.msg.op = "request" /\ fate' = [fate EXCEPT ![e.msg.no] = "refused"])
        /\ UNCHANGED <<client, up, down, greeted, made, answers>>
    <3>1. CASE e.msg.op = "request" /\ e.conn \in server.active BY <3>1 DEF HandleCall, e
    <3>2. CASE ~(e.msg.op = "request" /\ e.conn \in server.active)
      <4>1. server' = [server EXCEPT !.queue = Tail(server.queue),
                  !.active = IF e.msg.op = "request" THEN server.active \cup {e.conn} ELSE server.active]
        BY DEF HandleCall, e
      <4>2. service' = Posted(service, e.conn, e.msg) BY <3>2 DEF HandleCall, e
      <4>3. sock' = sock /\ fate' = fate BY <3>2 DEF HandleCall, e
      <4>4. UNCHANGED <<client, up, down, greeted, made, answers>> BY DEF HandleCall
      <4> QED BY <4>1, <4>2, <4>3, <4>4
    <3> QED BY <3>1, <3>2
  <2>5. server' \in [queue : Seq(InPosts), active : SUBSET Links]
    BY <2>1, <2>4 DEF RmiTypes
  <2>6. fate' \in [Requests -> {"new", "waits", "sent", "thrown", "answered", "lost", "refused"}]
    BY <2>3, <2>4 DEF RmiTypes
  <2>7. sock' \in [Links -> {"none", "up", "down", "told"}] BY <2>1, <2>4 DEF RmiTypes
  <2> QED BY <2>2, <2>4, <2>5, <2>6, <2>7 DEF RmiTypes
<1>2. SendOut => RmiTypes'
  <2> SUFFICES ASSUME SendOut PROVE RmiTypes' OBVIOUS
  <2> DEFINE e == Head(server.queue)
  <2>1. /\ e.conn \in Links /\ e.msg \in UpMessage \cup DownMessage \cup {Gone}
        /\ Tail(server.queue) \in Seq(InPosts) /\ e.msg.op \in {"reply", "signal"}
    BY HeadOfServer DEF SendOut, ServerTakes
  <2>2. e.msg \in DownMessage BY <2>1, MessageIs
  <2>3. /\ server' = [server EXCEPT !.queue = Tail(server.queue), !.active = server.active \ {e.conn}]
        /\ down' = IF sock[e.conn] = "up" THEN [down EXCEPT ![e.conn] = Append(down[e.conn], e.msg)] ELSE down
        /\ UNCHANGED <<client, sock, up, greeted, service, hist>>
    BY <2>1 DEF SendOut, RmiTypes
  <2> HIDE DEF e
  <2>4. Append(down[e.conn], e.msg) \in Seq(DownMessage) BY <2>1, <2>2 DEF RmiTypes
  <2>5. server' \in [queue : Seq(InPosts), active : SUBSET Links] BY <2>1, <2>3 DEF RmiTypes
  <2>6. down' \in [Links -> Seq(DownMessage)] BY <2>1, <2>3, <2>4 DEF RmiTypes
  <2> QED BY <2>3, <2>5, <2>6 DEF RmiTypes, hist
<1> QED BY <1>1, <1>2 DEF Server

LEMMA TypesService ==
  ASSUME RmiTypes, RmiService \/ HandleRemote PROVE RmiTypes'
<1> DEFINE Servers == [queue : Seq(InPosts), active : SUBSET Links]
           Services == [queue : Seq(Calls), listeners : Seq(Listener), delayed : SUBSET Delayed]
<1>0. server \in Servers /\ service \in Services BY DEF RmiTypes
<1>a. ASSUME NEW op, ServiceTakes(op)
      PROVE  /\ Serving \in Calls /\ Tail(service.queue) \in Seq(Calls) /\ Serving.msg.op = op
             /\ Serving.conn \in Links /\ Serving.msg \in UpMessage \cup DownMessage \cup {Gone}
             /\ Serving = At(Serving.conn, Serving.msg)
  BY <1>a, HeadOfService DEF ServiceTakes, Serving
<1>b. ASSUME server' \in Servers, service' \in Services, UNCHANGED <<client, wires, fate, answers>>,
             made' \in [requests : 0 .. MaxRequests, regs : 0 .. MaxRegs, ended : SUBSET Regs, signals : Nat]
      PROVE  RmiTypes'
  BY <1>b DEF RmiTypes, wires
<1>c. ASSUME server' \in Servers, service' \in Services, UNCHANGED <<client, wires, hist>>  PROVE RmiTypes'
  BY <1>c DEF RmiTypes, wires, hist
<1>1. ReplyNow => RmiTypes'
  <2> SUFFICES ASSUME ReplyNow PROVE RmiTypes' OBVIOUS
  <2>1. Serving.msg.no \in Requests /\ Serving.conn \in Links /\ Tail(service.queue) \in Seq(Calls)
    BY <1>a, MessageIs DEF ReplyNow
  <2>2. Reply(Serving.msg.no) \in DownMessage /\ Reply(Serving.msg.no).op # "hello"
    BY <2>1, MessageIs DEF Reply
  <2>3. server' \in Servers BY <2>1, <2>2, PostedType DEF ReplyNow
  <2>4. service' \in Services BY <1>0, <2>1 DEF ReplyNow
  <2> QED BY <1>c, <2>3, <2>4 DEF ReplyNow
<1>2. DelayReply => RmiTypes'
  <2> SUFFICES ASSUME DelayReply PROVE RmiTypes' OBVIOUS
  <2>1. Serving \in Delayed /\ Tail(service.queue) \in Seq(Calls)
    BY <1>a, Subsets DEF DelayReply, Delayed
  <2>2. service.delayed \cup {Serving} \in SUBSET Delayed BY <2>1, <1>0
  <2>3. service' \in Services BY <1>0, <2>1, <2>2 DEF DelayReply
  <2> QED BY <1>0, <1>c, <2>3 DEF DelayReply
<1>3. SendDelayed => RmiTypes'
  <2> SUFFICES ASSUME NEW e \in service.delayed, service' = [service EXCEPT !.delayed = @ \ {e}],
                      server' = Posted(server, e.conn, Reply(e.msg.no)), UNCHANGED <<client, wires, hist>>
               PROVE  RmiTypes'
    BY DEF SendDelayed
  <2>1. e \in Delayed BY <1>0
  <2>2. e.conn \in Links /\ e.msg.no \in Requests BY <2>1, Subsets, MessageIs DEF Delayed
  <2>3. Reply(e.msg.no) \in DownMessage /\ Reply(e.msg.no).op # "hello" BY <2>2, MessageIs DEF Reply
  <2>4. server' \in Servers BY <2>2, <2>3, PostedType
  <2>5. service' \in Services BY <1>0
  <2> QED BY <1>c, <2>4, <2>5
<1>4. RegClient => RmiTypes'
  <2> SUFFICES ASSUME RegClient PROVE RmiTypes' OBVIOUS
  <2>1. Serving \in Listener /\ Tail(service.queue) \in Seq(Calls)
    BY <1>a, Subsets DEF RegClient, Listener
  <2>2. service.listeners \in Seq(Listener) BY <1>0
  <2>3. Append(service.listeners, Serving) \in Seq(Listener) BY <2>1, <2>2
  <2>4. service' \in Services BY <1>0, <2>1, <2>3 DEF RegClient
  <2> QED BY <1>0, <1>c, <2>4 DEF RegClient
<1>5. ASSUME NEW G, Tail(service.queue) \in Seq(Calls),
             service' = [service EXCEPT !.queue = Tail(@), !.listeners = Without(@, G)]
      PROVE  service' \in Services
  <2>1. service.listeners \in Seq(Listener) BY <1>0
  <2>2. Without(service.listeners, G) \in Seq(Listener) BY <2>1, WithoutHas
  <2> QED BY <1>0, <1>5, <2>2
<1>6. UnregClient => RmiTypes'
  <2> SUFFICES ASSUME UnregClient PROVE RmiTypes' OBVIOUS
  <2>1. Tail(service.queue) \in Seq(Calls) BY <1>a DEF UnregClient
  <2> QED BY <1>0, <1>c, <1>5, <2>1 DEF UnregClient
<1>7. ConnectionClosed => RmiTypes'
  <2> SUFFICES ASSUME ConnectionClosed PROVE RmiTypes' OBVIOUS
  <2>1. Tail(service.queue) \in Seq(Calls) BY <1>a DEF ConnectionClosed
  <2> QED BY <1>0, <1>c, <1>5, <2>1 DEF ConnectionClosed
<1>8. HandleRemote => RmiTypes'
  <2> SUFFICES ASSUME HandleRemote PROVE RmiTypes' OBVIOUS
  <2> DEFINE news == [i \in 1 .. Len(service.listeners) |->
          At(service.listeners[i].conn, Signal(service.listeners[i].msg.no))]
  <2>1. \A i \in 1 .. Len(service.listeners) : At(service.listeners[i].conn, Signal(service.listeners[i].msg.no)) \in InPosts
    <3> SUFFICES ASSUME NEW i \in 1 .. Len(service.listeners)
                 PROVE  At(service.listeners[i].conn, Signal(service.listeners[i].msg.no)) \in InPosts
      OBVIOUS
    <3>1. service.listeners[i] \in Listener BY <1>0
    <3>2. service.listeners[i].conn \in Links /\ service.listeners[i].msg.no \in Regs
      BY <3>1, Subsets, MessageIs DEF Listener
    <3>3. Signal(service.listeners[i].msg.no) \in DownMessage /\ Signal(service.listeners[i].msg.no).op # "hello"
      BY <3>2, MessageIs DEF Signal
    <3> QED BY <3>2, <3>3, PostIs
  <2>2. Len(service.listeners) \in Nat BY <1>0
  <2>3. news \in [1 .. Len(service.listeners) -> InPosts] BY <2>1
  <2>4. news \in Seq(InPosts) BY <2>2, <2>3, SeqDef
  <2> HIDE DEF news
  <2>5. server.queue \in Seq(InPosts) BY <1>0
  <2>6. server.queue \o news \in Seq(InPosts) BY <2>4, <2>5
  <2>7. server' = [server EXCEPT !.queue = server.queue \o news] BY <1>0 DEF HandleRemote, news
  <2>8. server' \in Servers BY <1>0, <2>6, <2>7
  <2>9. made' \in [requests : 0 .. MaxRequests, regs : 0 .. MaxRegs, ended : SUBSET Regs, signals : Nat]
    <3>1. made \in [requests : 0 .. MaxRequests, regs : 0 .. MaxRegs, ended : SUBSET Regs, signals : Nat]
      BY DEF RmiTypes
    <3>2. made' = [made EXCEPT !.signals = made.signals + 1] BY <3>1 DEF HandleRemote
    <3>3. made.signals + 1 \in Nat BY <3>1
    <3> QED BY <3>1, <3>2, <3>3
  <2> QED BY <1>0, <1>b, <2>8, <2>9 DEF HandleRemote
<1> QED BY <1>1, <1>2, <1>3, <1>4, <1>6, <1>7, <1>8 DEF RmiService

LEMMA TypesNext ==
  ASSUME RmiTypes, RmiNext PROVE RmiTypes'
BY TypesApplication, TypesBrowser, TypesServer, TypesService, TypesNetwork DEF RmiNext

----------------------------------------
(* RMI: queues that grow and shrink, connections without a greeting *)

LEMMA PostSets ==
  ASSUME NEW e \in Posts, NEW d
  PROVE  /\ e \in Of(d, Posts) <=> e.conn = d
         /\ \A N : e \in AsksOf(d, N) <=> e.conn = d /\ e.msg.op = "request" /\ e.msg.no \in N
         /\ \A N : e \in RepliesOf(d, N) <=> e.conn = d /\ e.msg.op = "reply" /\ e.msg.no \in N
         /\ e \in Regd(d) <=> e.conn = d /\ e.msg.op = "reg"
         /\ e \in GoneOf(d) <=> e.conn = d /\ e.msg = Gone
         /\ e.msg.no \in Nat
         /\ e.msg = Gone <=> e.msg.op = "gone"
<1>1. e.msg \in UpMessage \cup DownMessage \cup {Gone} BY Subsets
<1> QED BY <1>1, MessageIs DEF Of, AsksOf, RepliesOf, Regd, GoneOf

LEMMA MessageSets ==
  /\ \A m \in UpMessage : \A N : m \in Asks(N) <=> m.op = "request" /\ m.no \in N
  /\ \A m \in DownMessage : \A N : m \in Replies(N) <=> m.op = "reply" /\ m.no \in N
  /\ \A m \in UpMessage \cup DownMessage : m.no \in Nat
BY MessageIs DEF Asks, Replies

(* A queue gets a post, or loses its first. *)
LEMMA QueueGets ==
  ASSUME NEW A, A \subseteq Posts, NEW q \in Seq(A), NEW e \in A, NEW d
  PROVE  /\ \A N : Some(Append(q, e), AsksOf(d, N)) <=>
                     Some(q, AsksOf(d, N)) \/ (e.conn = d /\ e.msg.op = "request" /\ e.msg.no \in N)
         /\ \A N : Some(Append(q, e), RepliesOf(d, N)) <=>
                     Some(q, RepliesOf(d, N)) \/ (e.conn = d /\ e.msg.op = "reply" /\ e.msg.no \in N)
         /\ Some(Append(q, e), Of(d, Posts)) <=> Some(q, Of(d, Posts)) \/ e.conn = d
         /\ Some(Append(q, e), GoneOf(d)) <=> Some(q, GoneOf(d)) \/ (e.conn = d /\ e.msg.op = "gone")
         /\ Some(Append(q, e), Regd(d)) <=> Some(q, Regd(d)) \/ (e.conn = d /\ e.msg.op = "reg")
         /\ Once(q, AsksOf(d, Nat)) /\ (e.conn = d /\ e.msg.op = "request" => ~Some(q, AsksOf(d, Nat))) =>
              Once(Append(q, e), AsksOf(d, Nat))
         /\ Once(q, RepliesOf(d, Nat)) /\ (e.conn = d /\ e.msg.op = "reply" => ~Some(q, RepliesOf(d, Nat))) =>
              Once(Append(q, e), RepliesOf(d, Nat))
         /\ After(q, Regd(d), GoneOf(d)) /\ ~(e.conn = d /\ e.msg.op = "reg") =>
              After(Append(q, e), Regd(d), GoneOf(d))
         /\ e.conn = d /\ e.msg.op = "gone" => After(Append(q, e), Regd(d), GoneOf(d))
<1>1. e \in Posts OBVIOUS
<1>2. /\ \A P : Some(Append(q, e), P) <=> Some(q, P) \/ e \in P
      /\ \A P : Once(q, P) /\ (e \in P => ~Some(q, P)) => Once(Append(q, e), P)
      /\ \A P, Q : After(q, P, Q) /\ e \notin P => After(Append(q, e), P, Q)
      /\ \A P, Q : e \in Q /\ e \notin P => After(Append(q, e), P, Q)
  BY AppendHas
<1> QED BY <1>1, <1>2, PostSets

LEMMA QueueLoses ==
  ASSUME NEW A, A \subseteq Posts, NEW q \in Seq(A), q # <<>>, NEW d
  PROVE  /\ Head(q) \in A /\ Tail(q) \in Seq(A)
         /\ \A N : Some(q, AsksOf(d, N)) <=>
              Some(Tail(q), AsksOf(d, N)) \/ (Head(q).conn = d /\ Head(q).msg.op = "request" /\ Head(q).msg.no \in N)
         /\ \A N : Some(q, RepliesOf(d, N)) <=>
              Some(Tail(q), RepliesOf(d, N)) \/ (Head(q).conn = d /\ Head(q).msg.op = "reply" /\ Head(q).msg.no \in N)
         /\ Some(q, Of(d, Posts)) <=> Some(Tail(q), Of(d, Posts)) \/ Head(q).conn = d
         /\ Some(q, GoneOf(d)) <=> Some(Tail(q), GoneOf(d)) \/ (Head(q).conn = d /\ Head(q).msg.op = "gone")
         /\ Once(q, AsksOf(d, Nat)) =>
              /\ Once(Tail(q), AsksOf(d, Nat))
              /\ Head(q).conn = d /\ Head(q).msg.op = "request" => ~Some(Tail(q), AsksOf(d, Nat))
         /\ Once(q, RepliesOf(d, Nat)) =>
              /\ Once(Tail(q), RepliesOf(d, Nat))
              /\ Head(q).conn = d /\ Head(q).msg.op = "reply" => ~Some(Tail(q), RepliesOf(d, Nat))
         /\ After(q, Regd(d), GoneOf(d)) =>
              /\ After(Tail(q), Regd(d), GoneOf(d))
              /\ Head(q).conn = d /\ Head(q).msg.op = "reg" => Some(Tail(q), GoneOf(d))
<1>1. Head(q) \in A /\ Tail(q) \in Seq(A) BY TailHas
<1>2. /\ \A P : Some(q, P) <=> Some(Tail(q), P) \/ Head(q) \in P
      /\ \A P : Once(q, P) => Once(Tail(q), P) /\ (Head(q) \in P => ~Some(Tail(q), P))
      /\ \A P, Q : After(q, P, Q) => After(Tail(q), P, Q) /\ (Head(q) \in P => Some(Tail(q), Q))
  BY TailHas
<1> DEFINE e == Head(q)
<1>3. e \in Posts BY <1>1
<1> HIDE DEF e
<1>4. /\ \A P : Some(q, P) <=> Some(Tail(q), P) \/ e \in P
      /\ \A P : Once(q, P) => Once(Tail(q), P) /\ (e \in P => ~Some(Tail(q), P))
      /\ \A P, Q : After(q, P, Q) => After(Tail(q), P, Q) /\ (e \in P => Some(Tail(q), Q))
  BY <1>2 DEF e
<1>5. /\ \A N : Some(q, AsksOf(d, N)) <=>
              Some(Tail(q), AsksOf(d, N)) \/ (e.conn = d /\ e.msg.op = "request" /\ e.msg.no \in N)
      /\ \A N : Some(q, RepliesOf(d, N)) <=>
              Some(Tail(q), RepliesOf(d, N)) \/ (e.conn = d /\ e.msg.op = "reply" /\ e.msg.no \in N)
      /\ Some(q, Of(d, Posts)) <=> Some(Tail(q), Of(d, Posts)) \/ e.conn = d
      /\ Some(q, GoneOf(d)) <=> Some(Tail(q), GoneOf(d)) \/ (e.conn = d /\ e.msg.op = "gone")
  BY <1>3, <1>4, PostSets
<1>6. /\ Once(q, AsksOf(d, Nat)) =>
              /\ Once(Tail(q), AsksOf(d, Nat))
              /\ e.conn = d /\ e.msg.op = "request" => ~Some(Tail(q), AsksOf(d, Nat))
      /\ Once(q, RepliesOf(d, Nat)) =>
              /\ Once(Tail(q), RepliesOf(d, Nat))
              /\ e.conn = d /\ e.msg.op = "reply" => ~Some(Tail(q), RepliesOf(d, Nat))
      /\ After(q, Regd(d), GoneOf(d)) =>
              /\ After(Tail(q), Regd(d), GoneOf(d))
              /\ e.conn = d /\ e.msg.op = "reg" => Some(Tail(q), GoneOf(d))
  BY <1>3, <1>4, PostSets
<1> QED BY <1>1, <1>5, <1>6 DEF e

LEMMA LineGets ==
  ASSUME NEW l \in Seq(DownMessage), NEW m \in DownMessage
  PROVE  /\ \A N : Some(Append(l, m), Replies(N)) <=> Some(l, Replies(N)) \/ (m.op = "reply" /\ m.no \in N)
         /\ Once(l, Replies(Nat)) /\ (m.op = "reply" => ~Some(l, Replies(Nat))) => Once(Append(l, m), Replies(Nat))
<1>1. /\ \A P : Some(Append(l, m), P) <=> Some(l, P) \/ m \in P
      /\ \A P : Once(l, P) /\ (m \in P => ~Some(l, P)) => Once(Append(l, m), P)
  BY AppendHas
<1> QED BY <1>1, MessageSets

LEMMA LineLoses ==
  /\ \A l \in Seq(DownMessage) : l # <<>> =>
       /\ Head(l) \in DownMessage /\ Tail(l) \in Seq(DownMessage)
       /\ \A N : Some(l, Replies(N)) <=> Some(Tail(l), Replies(N)) \/ (Head(l).op = "reply" /\ Head(l).no \in N)
       /\ Once(l, Replies(Nat)) => /\ Once(Tail(l), Replies(Nat))
                                   /\ Head(l).op = "reply" => ~Some(Tail(l), Replies(Nat))
  /\ \A l \in Seq(UpMessage) : l # <<>> =>
       /\ Head(l) \in UpMessage /\ Tail(l) \in Seq(UpMessage)
       /\ \A N : Some(l, Asks(N)) <=> Some(Tail(l), Asks(N)) \/ (Head(l).op = "request" /\ Head(l).no \in N)
       /\ Once(l, Asks(Nat)) => /\ Once(Tail(l), Asks(Nat))
                                /\ Head(l).op = "request" => ~Some(Tail(l), Asks(Nat))
<1>1. ASSUME NEW l \in Seq(DownMessage), l # <<>>
      PROVE  /\ Head(l) \in DownMessage /\ Tail(l) \in Seq(DownMessage)
             /\ \A N : Some(l, Replies(N)) <=> Some(Tail(l), Replies(N)) \/ (Head(l).op = "reply" /\ Head(l).no \in N)
             /\ Once(l, Replies(Nat)) => /\ Once(Tail(l), Replies(Nat))
                                         /\ Head(l).op = "reply" => ~Some(Tail(l), Replies(Nat))
  <2> DEFINE m == Head(l)
  <2>1. m \in DownMessage /\ Tail(l) \in Seq(DownMessage) BY <1>1, TailHas
  <2>2. /\ \A P : Some(l, P) <=> Some(Tail(l), P) \/ m \in P
        /\ \A P : Once(l, P) => Once(Tail(l), P) /\ (m \in P => ~Some(Tail(l), P))
    BY <1>1, TailHas
  <2> HIDE DEF m
  <2>3. \A N : m \in Replies(N) <=> m.op = "reply" /\ m.no \in N BY <2>1, MessageSets
  <2>4. m.no \in Nat BY <2>1, MessageSets
  <2>5. /\ \A N : Some(l, Replies(N)) <=> Some(Tail(l), Replies(N)) \/ (m.op = "reply" /\ m.no \in N)
        /\ Once(l, Replies(Nat)) => /\ Once(Tail(l), Replies(Nat))
                                    /\ m.op = "reply" => ~Some(Tail(l), Replies(Nat))
    BY <2>2, <2>3, <2>4
  <2> QED BY <2>1, <2>5 DEF m
<1>2. ASSUME NEW l \in Seq(UpMessage), l # <<>>
      PROVE  /\ Head(l) \in UpMessage /\ Tail(l) \in Seq(UpMessage)
             /\ \A N : Some(l, Asks(N)) <=> Some(Tail(l), Asks(N)) \/ (Head(l).op = "request" /\ Head(l).no \in N)
             /\ Once(l, Asks(Nat)) => /\ Once(Tail(l), Asks(Nat))
                                      /\ Head(l).op = "request" => ~Some(Tail(l), Asks(Nat))
  <2> DEFINE m == Head(l)
  <2>1. m \in UpMessage /\ Tail(l) \in Seq(UpMessage) BY <1>2, TailHas
  <2>2. /\ \A P : Some(l, P) <=> Some(Tail(l), P) \/ m \in P
        /\ \A P : Once(l, P) => Once(Tail(l), P) /\ (m \in P => ~Some(Tail(l), P))
    BY <1>2, TailHas
  <2> HIDE DEF m
  <2>3. \A N : m \in Asks(N) <=> m.op = "request" /\ m.no \in N BY <2>1, MessageSets
  <2>4. m.no \in Nat BY <2>1, MessageSets
  <2>5. /\ \A N : Some(l, Asks(N)) <=> Some(Tail(l), Asks(N)) \/ (m.op = "request" /\ m.no \in N)
        /\ Once(l, Asks(Nat)) => /\ Once(Tail(l), Asks(Nat))
                                 /\ m.op = "request" => ~Some(Tail(l), Asks(Nat))
    BY <2>2, <2>3, <2>4
  <2> QED BY <2>1, <2>5 DEF m
<1> QED BY <1>1, <1>2

(* Of a connection without a greeting no request is on its way. *)
LEMMA QuietHas ==
  ASSUME RmiTypes, NEW c \in Links, Quiet(c)
  PROVE  /\ \A N : \A p \in Places \ {"up"} : ~Lies(p, c, N)
         /\ ~Some(server.queue, Regd(c)) /\ ~Some(service.queue, Regd(c)) /\ ~Some(service.listeners, Regd(c))
<1>1. /\ \A N : AsksOf(c, N) \subseteq Of(c, Posts) /\ RepliesOf(c, N) \subseteq Of(c, Posts)
      /\ Regd(c) \subseteq Of(c, Posts)
  BY DEF AsksOf, RepliesOf, Regd, Of
<1>2. \A q, P : P \subseteq Of(c, Posts) /\ ~Some(q, Of(c, Posts)) => ~Some(q, P) BY DEF Some
<1>3. \A N : ~(service.delayed \cap AsksOf(c, N) # {}) BY DEF AsksOf, Quiet
<1>4. \A N : ~Some(down[c], Replies(N)) BY EmptyHas DEF Quiet
<1> QED BY <1>1, <1>2, <1>3, <1>4 DEF Quiet, Lies, Places

----------------------------------------
(* What a step leaves alone. *)

LEMMA LinkStays ==
  ASSUME LinkInv, client'.ws = client.ws, client'.open = client.open, UNCHANGED sock,
         \A c \in Links : sock[c] \in {"none", "told"} => up'[c] = up[c]
  PROVE  LinkInv'
BY DEF LinkInv

LEMMA BrowserStays ==
  ASSUME BrowserInv, UNCHANGED <<client, fate, answers>>, made'.requests = made.requests
  PROVE  BrowserInv'
BY DEF BrowserInv

LEMMA HelloStays ==
  ASSUME HelloInv, client'.ws = client.ws, client'.open = client.open, UNCHANGED <<sock, up, greeted>>,
         \A c \in Links \ greeted : Quiet(c) => Quiet(c)'
  PROVE  HelloInv'
BY DEF HelloInv

----------------------------------------
(* RMI: what each step does to its variables *)

LEMMA WsIs == ASSUME RmiTypes
  PROVE  /\ client.ws # 0 <=> client.ws \in Links
         /\ client.ws \in 0 .. MaxLinks /\ client.open \in BOOLEAN /\ client.active \in BOOLEAN
         /\ client.callback \in Nat /\ (client.callback # 0 <=> client.callback \in Requests)
         /\ client.waiting \in Seq(Requests) /\ client.async \in Seq(AsyncType) /\ client.rsigs \in Seq(Regs)
         /\ Links \subseteq Nat /\ 0 \notin Links /\ MaxLinks \in Links /\ Requests \subseteq Nat /\ 0 \notin Requests
<1>1. client \in ClientType /\ MaxLinks \in Nat \ {0} /\ MaxRequests \in Nat BY RMIAssumption DEF RmiTypes
<1>2. /\ client.ws \in 0 .. MaxLinks /\ client.open \in BOOLEAN /\ client.active \in BOOLEAN
      /\ client.callback \in 0 .. MaxRequests
      /\ client.waiting \in Seq(Requests) /\ client.async \in Seq(AsyncType) /\ client.rsigs \in Seq(Regs)
  BY <1>1 DEF ClientType
<1>3. Links = 1 .. MaxLinks /\ Requests = 1 .. MaxRequests BY DEF Links, Requests
<1>4. Links \subseteq Nat /\ 0 \notin Links /\ MaxLinks \in Links /\ Requests \subseteq Nat /\ 0 \notin Requests
  BY <1>1, <1>3
<1>5. (client.ws # 0 <=> client.ws \in Links) /\ client.callback \in Nat /\ (client.callback # 0 <=> client.callback \in Requests)
  BY <1>1, <1>2, <1>3
<1> QED BY <1>2, <1>4, <1>5

(* What a step of the browser does to its variables. *)
LEMMA CheckDoes ==
  ASSUME NEW c \in ClientType
  PROVE  /\ CheckWaiting(c).ws = c.ws /\ CheckWaiting(c).open = c.open /\ CheckWaiting(c).async = c.async
         /\ c.waiting # <<>> => /\ CheckWaiting(c).callback = Head(c.waiting) /\ CheckWaiting(c).waiting = Tail(c.waiting)
                                /\ CheckWaiting(c).active = c.active /\ CheckWaiting(c).rsigs = c.rsigs
         /\ c.waiting = <<>> => CheckWaiting(c).callback = 0 /\ CheckWaiting(c).waiting = c.waiting /\ CheckWaiting(c).active = FALSE /\ CheckWaiting(c).rsigs = <<>>
BY DEF CheckWaiting, ClientType

LEMMA SendAsyncDoes ==
  ASSUME RmiTypes, NEW m \in AsyncType, SendAsync(m)
  PROVE  /\ client.ws \in Links
         /\ client'.ws = client.ws /\ client'.open = client.open /\ client'.active = client.active
         /\ client'.callback = client.callback /\ client'.waiting = client.waiting /\ client'.rsigs = client.rsigs
         /\ \/ up' = up
            \/ client.open /\ sock[client.ws] = "up" /\ up' = [up EXCEPT ![client.ws] = up[client.ws] \o <<m>>]
         /\ UNCHANGED <<sock, down, greeted, server, service, fate, answers>>
<1>1. client \in ClientType BY DEF RmiTypes
<1>2. client' = client \/ client' = [client EXCEPT !.async = Append(client.async, m)]
  BY <1>1 DEF SendAsync, ClientType
<1>3. /\ client'.ws = client.ws /\ client'.open = client.open /\ client'.active = client.active
      /\ client'.callback = client.callback /\ client'.waiting = client.waiting /\ client'.rsigs = client.rsigs
  BY <1>1, <1>2 DEF ClientType
<1>4. client.ws \in Links BY WsIs DEF SendAsync
<1>5. \/ up' = up
      \/ client.open /\ sock[client.ws] = "up" /\ up' = [up EXCEPT ![client.ws] = up[client.ws] \o <<m>>]
  BY <1>4 DEF SendAsync, Sent, RmiTypes
<1> QED BY <1>3, <1>4, <1>5 DEF SendAsync

LEMMA AsyncDoes ==
  ASSUME RmiTypes, Register \/ Unregister
  PROVE  /\ made'.requests = made.requests
         /\ \E m \in AsyncType : SendAsync(m)
<1>1. CASE Register
  <2>1. made.regs + 1 \in Regs BY <1>1, RMIAssumption DEF Register, RmiTypes, Regs
  <2>2. Reg(made.regs + 1) \in AsyncType BY <2>1 DEF Reg, AsyncType
  <2> QED BY <1>1, <2>2 DEF Register, RmiTypes
<1>2. CASE Unregister
  <2>1. PICK i \in 1 .. made.regs : made' = [made EXCEPT !.ended = @ \cup {i}] /\ SendAsync(Unreg(i))
    BY <1>2 DEF Unregister
  <2>2. i \in Regs BY RMIAssumption DEF RmiTypes, Regs
  <2>3. Unreg(i) \in AsyncType BY <2>2 DEF Unreg, AsyncType
  <2> QED BY <2>1, <2>3 DEF RmiTypes
<1> QED BY <1>1, <1>2

LEMMA SendRequestDoes ==
  ASSUME RmiTypes, NEW r \in Requests, SendRequest(r)
  PROVE  /\ client'.ws = client.ws /\ client'.open = client.open /\ client'.rsigs = client.rsigs
         /\ client.active => /\ client'.active = TRUE /\ client'.callback = client.callback
                             /\ client'.waiting = Append(client.waiting, r)
                             /\ fate' = [fate EXCEPT ![r] = "waits"] /\ up' = up
         /\ ~client.active => /\ client'.active = TRUE /\ client'.callback = r /\ client'.waiting = client.waiting
                              /\ fate' = [fate EXCEPT ![r] = IF client.ws # 0 THEN "sent" ELSE "thrown"]
                              /\ up' = IF client.ws # 0 /\ sock[client.ws] = "up"
                                         THEN [up EXCEPT ![client.ws] = up[client.ws] \o <<Request(r)>>] ELSE up
         /\ made'.requests = r
         /\ UNCHANGED <<sock, down, greeted, server, service, answers>>
<1>1. client \in ClientType /\ made'.requests = r BY DEF RmiTypes, SendRequest
<1>2. CASE client.active
  <2>1. client' = [client EXCEPT !.waiting = Append(client.waiting, r)]
    BY <1>2, <1>1 DEF SendRequest, ClientType
  <2>2. fate' = [fate EXCEPT ![r] = "waits"] /\ up' = up BY <1>2 DEF SendRequest
  <2> QED BY <1>1, <1>2, <2>1, <2>2 DEF ClientType, SendRequest
<1>3. CASE ~client.active
  <2>1. client' = [client EXCEPT !.active = TRUE, !.callback = r] BY <1>3 DEF SendRequest
  <2>2. fate' = [fate EXCEPT ![r] = IF client.ws # 0 THEN "sent" ELSE "thrown"] BY <1>3 DEF SendRequest
  <2>3. up' = IF client.ws # 0 /\ sock[client.ws] = "up"
                THEN [up EXCEPT ![client.ws] = up[client.ws] \o <<Request(r)>>] ELSE up
    BY <1>3, WsIs DEF SendRequest, Sent, RmiTypes
  <2>4. UNCHANGED <<sock, down, greeted, server, service, answers>> BY DEF SendRequest
  <2> QED BY <1>1, <1>3, <2>1, <2>2, <2>3, <2>4 DEF ClientType
<1> QED BY <1>2, <1>3, WsIs

LEMMA StartDoes ==
  ASSUME RmiTypes, Start
  PROVE  /\ client.ws = 0 /\ client'.ws \in Links /\ sock[client'.ws] = "none"
         /\ sock' = [sock EXCEPT ![client'.ws] = "up"]
         /\ client'.open = FALSE /\ client'.active = TRUE
         /\ client'.callback = client.callback /\ client'.waiting = client.waiting /\ client'.rsigs = client.rsigs
         /\ UNCHANGED <<up, down, greeted, server, service, hist>>
<1>1. PICK c \in Links : /\ client.ws = 0 /\ sock[c] = "none"
                         /\ client' = [client EXCEPT !.ws = c, !.open = FALSE, !.active = TRUE]
                         /\ sock' = [sock EXCEPT ![c] = "up"]
                         /\ UNCHANGED <<up, down, greeted, server, service, hist>>
  BY DEF Start
<1>2. client \in ClientType BY DEF RmiTypes
<1>3. client'.ws = c /\ client'.open = FALSE /\ client'.active = TRUE
         /\ client'.callback = client.callback /\ client'.waiting = client.waiting /\ client'.rsigs = client.rsigs
  BY <1>1, <1>2 DEF ClientType
<1> QED BY <1>1, <1>3

LEMMA WsOpenDoes ==
  ASSUME RmiTypes, WsOpen
  PROVE  /\ client.ws \in Links /\ client.open = FALSE /\ sock[client.ws] = "up"
         /\ client'.ws = client.ws /\ client'.open = TRUE
         /\ client.waiting # <<>> => /\ client'.callback = Head(client.waiting) /\ client'.waiting = Tail(client.waiting)
                                     /\ client'.active = client.active /\ client'.rsigs = client.rsigs
         /\ client.waiting = <<>> => /\ client'.callback = 0 /\ client'.waiting = <<>>
                                     /\ client'.active = FALSE /\ client'.rsigs = <<>>
         /\ fate' = SentNext(fate)
         /\ up' = [up EXCEPT ![client.ws] = up[client.ws] \o (<<Greeting>> \o client.async \o NextRequest)]
         /\ UNCHANGED <<sock, down, greeted, server, service, made, answers>>
<1>1. client \in ClientType BY DEF RmiTypes
<1> DEFINE k == [client EXCEPT !.open = TRUE, !.async = <<>>]
<1>2. k \in ClientType
  <2>1. <<>> \in Seq(AsyncType) OBVIOUS
  <2> QED BY <1>1, <2>1, ClientIs
<1>3. k.ws = client.ws /\ k.open = TRUE /\ k.waiting = client.waiting /\ k.active = client.active /\ k.rsigs = client.rsigs
  BY <1>1 DEF ClientType
<1>4. client' = CheckWaiting(k) BY DEF WsOpen
<1> HIDE DEF k
<1>5.    /\ client'.ws = client.ws /\ client'.open = TRUE
         /\ client.waiting # <<>> => /\ client'.callback = Head(client.waiting) /\ client'.waiting = Tail(client.waiting)
                                     /\ client'.active = client.active /\ client'.rsigs = client.rsigs
         /\ client.waiting = <<>> => /\ client'.callback = 0 /\ client'.waiting = <<>>
                                     /\ client'.active = FALSE /\ client'.rsigs = <<>>
  <2>1. /\ CheckWaiting(k).ws = k.ws /\ CheckWaiting(k).open = k.open
        /\ k.waiting # <<>> => /\ CheckWaiting(k).callback = Head(k.waiting) /\ CheckWaiting(k).waiting = Tail(k.waiting)
                               /\ CheckWaiting(k).active = k.active /\ CheckWaiting(k).rsigs = k.rsigs
        /\ k.waiting = <<>> => /\ CheckWaiting(k).callback = 0 /\ CheckWaiting(k).waiting = k.waiting
                               /\ CheckWaiting(k).active = FALSE /\ CheckWaiting(k).rsigs = <<>>
    BY <1>2, CheckDoes
  <2> QED BY <1>3, <1>4, <2>1
<1>6. client.ws \in Links /\ client.open = FALSE /\ sock[client.ws] = "up" BY WsIs DEF WsOpen, Opening
<1>7. up' = [up EXCEPT ![client.ws] = up[client.ws] \o (<<Greeting>> \o client.async \o NextRequest)]
  BY <1>6 DEF WsOpen, Sent, RmiTypes
<1>8. fate' = SentNext(fate) /\ UNCHANGED <<sock, down, greeted, server, service, made, answers>>
  BY DEF WsOpen
<1> QED BY <1>5, <1>6, <1>7, <1>8

LEMMA NewReplyDoes ==
  ASSUME RmiTypes, NewReply
  PROVE  LET w == client.ws
             r == Head(down[w]).no IN
         /\ w \in Links /\ down[w] \in Seq(DownMessage) /\ down[w] # <<>>
         /\ Head(down[w]).op = "reply" /\ r \in Requests
         /\ down' = [down EXCEPT ![w] = Tail(down[w])]
         /\ client'.ws = w /\ client'.open = client.open
         /\ client.waiting # <<>> => /\ client'.callback = Head(client.waiting) /\ client'.waiting = Tail(client.waiting)
                                     /\ client'.active = client.active /\ client'.rsigs = client.rsigs
         /\ client.waiting = <<>> => /\ client'.callback = 0 /\ client'.waiting = <<>>
                                     /\ client'.active = FALSE /\ client'.rsigs = <<>>
         /\ client.callback # 0 => /\ answers' = Append(answers, [request |-> client.callback, reply |-> r])
                                   /\ fate' = SentNext([fate EXCEPT ![client.callback] = "answered"])
         /\ up' = IF sock[w] = "up" THEN [up EXCEPT ![w] = up[w] \o NextRequest] ELSE up
         /\ UNCHANGED <<sock, greeted, server, service, made>>
<1>1. client \in ClientType BY DEF RmiTypes
<1>2.    /\ client'.ws = client.ws /\ client'.open = client.open
         /\ client.waiting # <<>> => /\ client'.callback = Head(client.waiting) /\ client'.waiting = Tail(client.waiting)
                                     /\ client'.active = client.active /\ client'.rsigs = client.rsigs
         /\ client.waiting = <<>> => /\ client'.callback = 0 /\ client'.waiting = <<>>
                                     /\ client'.active = FALSE /\ client'.rsigs = <<>>
  BY <1>1, CheckDoes DEF NewReply
<1>3. client.ws \in Links BY WsIs DEF NewReply, Arrives
<1>4. down[client.ws] \in Seq(DownMessage) BY <1>3 DEF RmiTypes
<1>5. down[client.ws] # <<>> /\ Head(down[client.ws]).op = "reply" BY DEF NewReply, Arrives
<1>6. Head(down[client.ws]) \in DownMessage BY <1>4, <1>5, LineLoses
<1>7. Head(down[client.ws]).no \in Requests BY <1>5, <1>6, MessageIs
<1>8. down' = [down EXCEPT ![client.ws] = Tail(down[client.ws])] BY <1>3 DEF NewReply, Arrives, RmiTypes
<1>9. up' = IF sock[client.ws] = "up" THEN [up EXCEPT ![client.ws] = up[client.ws] \o NextRequest] ELSE up
  BY <1>3 DEF NewReply, Sent, RmiTypes
<1>10. client.callback # 0 =>
         /\ answers' = Append(answers, [request |-> client.callback, reply |-> Head(down[client.ws]).no])
         /\ fate' = SentNext([fate EXCEPT ![client.callback] = "answered"])
  BY DEF NewReply
<1>11. UNCHANGED <<sock, greeted, server, service, made>> BY DEF NewReply
<1> QED BY <1>2, <1>3, <1>4, <1>5, <1>7, <1>8, <1>9, <1>10, <1>11

LEMMA NewSignalDoes ==
  ASSUME RmiTypes, NewSignal
  PROVE  LET w == client.ws IN
         /\ w \in Links /\ down[w] \in Seq(DownMessage) /\ down[w] # <<>>
         /\ Head(down[w]).op = "signal"
         /\ down' = [down EXCEPT ![w] = Tail(down[w])]
         /\ client'.ws = w /\ client'.open = client.open /\ client'.active = client.active
         /\ client'.callback = client.callback /\ client'.waiting = client.waiting
         /\ client'.rsigs = client.rsigs \/ client.waiting # <<>>
         /\ UNCHANGED <<sock, up, greeted, server, service, hist>>
<1>1. client \in ClientType BY DEF RmiTypes
<1>2. /\ client'.ws = client.ws /\ client'.open = client.open /\ client'.active = client.active
      /\ client'.callback = client.callback /\ client'.waiting = client.waiting
      /\ client'.rsigs = client.rsigs \/ client.waiting # <<>>
  BY <1>1 DEF NewSignal, ClientType
<1>3. client.ws \in Links BY WsIs DEF NewSignal, Arrives
<1>4. down[client.ws] \in Seq(DownMessage) BY <1>3 DEF RmiTypes
<1>5. down[client.ws] # <<>> /\ Head(down[client.ws]).op = "signal" BY DEF NewSignal, Arrives
<1>8. down' = [down EXCEPT ![client.ws] = Tail(down[client.ws])] BY <1>3 DEF NewSignal, Arrives, RmiTypes
<1> QED BY <1>2, <1>3, <1>4, <1>5, <1>8 DEF NewSignal

LEMMA WsCloseDoes ==
  ASSUME RmiTypes, WsClose
  PROVE  /\ client.ws \in Links /\ sock[client.ws] \in {"down", "told"}
         /\ client'.ws = 0 /\ client'.open = FALSE /\ client'.active = client.active
         /\ client'.callback = client.callback /\ client'.waiting = client.waiting /\ client'.rsigs = client.rsigs
         /\ fate' = [r \in Requests |-> IF fate[r] = "sent" THEN "lost" ELSE fate[r]]
         /\ UNCHANGED <<wires, server, service, made, answers>>
<1>1. client \in ClientType BY DEF RmiTypes
<1> QED BY <1>1, WsIs DEF WsClose, ClientType

LEMMA HandleCallDoes ==
  ASSUME RmiTypes, AloneInv, HandleCall
  PROVE  LET e == Head(server.queue) IN
         /\ server.queue \in Seq(InPosts) /\ server.queue # <<>>
         /\ e \in Calls /\ e.conn \in Links /\ e.msg.op \in {"request", "reg", "unreg", "gone"}
         /\ e.msg.op = "request" => e.conn \notin server.active
         /\ server'.queue = Tail(server.queue)
         /\ server'.active = IF e.msg.op = "request" THEN server.active \cup {e.conn} ELSE server.active
         /\ service'.queue = Append(service.queue, e)
         /\ service'.listeners = service.listeners /\ service'.delayed = service.delayed
         /\ UNCHANGED <<client, sock, up, down, greeted, hist>>
<1> DEFINE e == Head(server.queue)
<1>1. /\ e \in InPosts /\ e.conn \in Links /\ e.msg \in UpMessage \cup DownMessage \cup {Gone} /\ e = At(e.conn, e.msg)
      /\ server.queue \in Seq(InPosts) /\ server.queue # <<>> /\ e.msg.op \in {"request", "reg", "unreg", "gone"}
  BY HeadOfServer DEF HandleCall, ServerTakes, RmiTypes
<1>2. e \in Calls BY <1>1, Subsets DEF Calls
<1>3. ~(e.msg.op = "request" /\ e.conn \in server.active)
  <2> SUFFICES ASSUME e.msg.op = "request", e.conn \in server.active PROVE FALSE OBVIOUS
  <2>1. e.msg.no \in Nat BY <1>1, MessageIs
  <2>2. Some(server.queue, AsksOf(e.conn, Nat)) BY <1>1, <2>1, Subsets, QueueLoses
  <2>3. Lies("server", e.conn, Nat) BY <2>2 DEF Lies
  <2> QED BY <1>1, <2>3 DEF AloneInv, AloneOne, Places
<1>4. /\ server \in [queue : Seq(InPosts), active : SUBSET Links]
      /\ service \in [queue : Seq(Calls), listeners : Seq(Listener), delayed : SUBSET Delayed]
  BY DEF RmiTypes
<1>5. server' = [server EXCEPT !.queue = Tail(server.queue),
                  !.active = IF e.msg.op = "request" THEN server.active \cup {e.conn} ELSE server.active]
  BY <1>4 DEF HandleCall
<1>6. service' = Posted(service, e.conn, e.msg) BY <1>3 DEF HandleCall
<1>7. sock' = sock /\ fate' = fate BY <1>3 DEF HandleCall
<1>8. UNCHANGED <<client, up, down, greeted, made, answers>> BY DEF HandleCall
<1> HIDE DEF e
<1>9. service' = [service EXCEPT !.queue = Append(service.queue, e)] BY <1>1, <1>4, <1>6 DEF Posted
<1>10. /\ server'.queue = Tail(server.queue)
       /\ server'.active = IF e.msg.op = "request" THEN server.active \cup {e.conn} ELSE server.active
  BY <1>4, <1>5
<1>11. /\ service'.queue = Append(service.queue, e)
       /\ service'.listeners = service.listeners /\ service'.delayed = service.delayed
  BY <1>4, <1>9
<1>12. UNCHANGED <<client, sock, up, down, greeted, hist>> BY <1>7, <1>8 DEF hist
<1>13. e.msg.op = "request" => e.conn \notin server.active BY <1>3
<1> QED BY <1>1, <1>2, <1>10, <1>11, <1>12, <1>13 DEF e

LEMMA SendOutDoes ==
  ASSUME RmiTypes, SendOut
  PROVE  LET e == Head(server.queue) IN
         /\ server.queue \in Seq(InPosts) /\ server.queue # <<>>
         /\ e \in InPosts /\ e.conn \in Links /\ e.msg \in DownMessage /\ e.msg.op \in {"reply", "signal"}
         /\ server'.queue = Tail(server.queue) /\ server'.active = server.active \ {e.conn}
         /\ down' = IF sock[e.conn] = "up" THEN [down EXCEPT ![e.conn] = Append(down[e.conn], e.msg)] ELSE down
         /\ UNCHANGED <<client, sock, up, greeted, service, hist>>
<1> DEFINE e == Head(server.queue)
<1>1. /\ e \in InPosts /\ e.conn \in Links /\ e.msg \in UpMessage \cup DownMessage \cup {Gone}
      /\ server.queue \in Seq(InPosts) /\ server.queue # <<>> /\ e.msg.op \in {"reply", "signal"}
  BY HeadOfServer DEF SendOut, ServerTakes, RmiTypes
<1>2. e.msg \in DownMessage BY <1>1, MessageIs
<1>3. server \in [queue : Seq(InPosts), active : SUBSET Links] BY DEF RmiTypes
<1>4. /\ server' = [server EXCEPT !.queue = Tail(server.queue), !.active = server.active \ {e.conn}]
      /\ down' = IF sock[e.conn] = "up" THEN [down EXCEPT ![e.conn] = Append(down[e.conn], e.msg)] ELSE down
  BY <1>1, <1>3 DEF SendOut, RmiTypes
<1>5. UNCHANGED <<client, sock, up, greeted, service, hist>> BY DEF SendOut
<1> HIDE DEF e
<1>6. server'.queue = Tail(server.queue) /\ server'.active = server.active \ {e.conn} BY <1>3, <1>4
<1> QED BY <1>1, <1>2, <1>4, <1>5, <1>6 DEF e

----------------------------------------
(* RMI: one connection at a time, and nothing before its greeting *)

LEMMA BreakDoes ==
  ASSUME RmiTypes, NEW c \in Links, Break(c)
  PROVE  /\ sock[c] = "up" /\ c # MaxLinks /\ sock' = [sock EXCEPT ![c] = "down"]
         /\ \A d \in Links : d # c => up'[d] = up[d] /\ down'[d] = down[d]
         /\ \A P : (Some(up'[c], P) => Some(up[c], P)) /\ (Once(up[c], P) => Once(up'[c], P))
         /\ \A P : (Some(down'[c], P) => Some(down[c], P)) /\ (Once(down[c], P) => Once(down'[c], P))
         /\ up'[c] # <<>> => up[c] # <<>> /\ Head(up'[c]) = Head(up[c])
         /\ down[c] = <<>> => down'[c] = <<>>
         /\ UNCHANGED <<client, greeted, server, service, hist>>
<1>1. PICK i \in 0 .. Len(up[c]), j \in 0 .. Len(down[c]) :
         /\ up' = [up EXCEPT ![c] = SubSeq(up[c], 1, i)]
         /\ down' = [down EXCEPT ![c] = SubSeq(down[c], 1, j)]
  BY DEF Break, RmiTypes
<1>2. up[c] \in Seq(UpMessage) /\ down[c] \in Seq(DownMessage) /\ up \in [Links -> Seq(UpMessage)] /\ down \in [Links -> Seq(DownMessage)]
  BY DEF RmiTypes
<1>3. up'[c] = SubSeq(up[c], 1, i) /\ down'[c] = SubSeq(down[c], 1, j)
      /\ \A d \in Links : d # c => up'[d] = up[d] /\ down'[d] = down[d]
  BY <1>1, <1>2
<1>4. /\ \A P : (Some(up'[c], P) => Some(up[c], P)) /\ (Once(up[c], P) => Once(up'[c], P))
      /\ up'[c] # <<>> => up[c] # <<>> /\ Head(up'[c]) = Head(up[c])
  BY <1>2, <1>3, CutHas
<1>5. /\ \A P : (Some(down'[c], P) => Some(down[c], P)) /\ (Once(down[c], P) => Once(down'[c], P))
      /\ down[c] = <<>> => down'[c] = <<>>
  BY <1>2, <1>3, CutHas
<1>6. sock[c] = "up" /\ c # MaxLinks /\ sock' = [sock EXCEPT ![c] = "down"] /\ UNCHANGED <<client, greeted, server, service, hist>>
  BY RMIAssumption DEF Break, Links
<1> QED BY <1>3, <1>4, <1>5, <1>6

LEMMA NewMsgDoes ==
  ASSUME RmiTypes, NEW c \in Links, NewMsg(c)
  PROVE  LET m == Head(up[c]) IN
         /\ up[c] \in Seq(UpMessage) /\ up[c] # <<>> /\ m \in UpMessage
         /\ up' = [up EXCEPT ![c] = Tail(up[c])]
         /\ m.op = "hello" => m = Greeting /\ greeted' = greeted \cup {c} /\ UNCHANGED server
         /\ m.op # "hello" => /\ m # Greeting /\ m.op \in {"request", "reg", "unreg"}
                              /\ At(c, m) \in Calls /\ At(c, m).conn = c /\ At(c, m).msg = m
                              /\ server'.queue = Append(server.queue, At(c, m))
                              /\ server'.active = server.active /\ UNCHANGED greeted
         /\ UNCHANGED <<client, sock, down, service, hist>>
<1> DEFINE m == Head(up[c])
<1>1. up[c] \in Seq(UpMessage) /\ up[c] # <<>> /\ m \in UpMessage /\ up' = [up EXCEPT ![c] = Tail(up[c])]
  BY LineLoses DEF RmiTypes, NewMsg
<1>2. m = Greeting <=> m.op = "hello" BY <1>1, MessageIs
<1>3. m.op # "hello" => m.op \in {"request", "reg", "unreg"} BY <1>1, <1>2, MessageIs
<1>4. server \in [queue : Seq(InPosts), active : SUBSET Links] BY DEF RmiTypes
<1>5. m.op # "hello" => At(c, m) \in Calls /\ At(c, m).conn = c /\ At(c, m).msg = m
  BY <1>1, <1>3, PostIs
<1>6. m.op = "hello" => m = Greeting /\ greeted' = greeted \cup {c} /\ UNCHANGED server
  BY <1>2 DEF NewMsg
<1>7. m.op # "hello" => server' = Posted(server, c, m) /\ UNCHANGED greeted
  BY <1>2 DEF NewMsg
<1>8. UNCHANGED <<client, sock, down, service, hist>> BY DEF NewMsg
<1> HIDE DEF m
<1>9. m.op # "hello" => server'.queue = Append(server.queue, At(c, m)) /\ server'.active = server.active
  BY <1>4, <1>7 DEF Posted
<1> QED BY <1>1, <1>2, <1>3, <1>5, <1>6, <1>7, <1>8, <1>9 DEF m

LEMMA LinkClosedDoes ==
  ASSUME RmiTypes, NEW c \in Links, LinkClosed(c)
  PROVE  /\ sock[c] = "down" /\ up[c] = <<>> /\ sock' = [sock EXCEPT ![c] = "told"]
         /\ At(c, Gone) \in Calls /\ At(c, Gone).conn = c /\ At(c, Gone).msg.op = "gone"
         /\ server'.active = server.active
         /\ c \in greeted => server'.queue = Append(server.queue, At(c, Gone))
         /\ c \notin greeted => server'.queue = server.queue
         /\ UNCHANGED <<client, up, down, greeted, service, hist>>
<1>1. /\ sock[c] = "down" /\ up[c] = <<>> /\ sock' = [sock EXCEPT ![c] = "told"]
      /\ server' = IF c \in greeted THEN Posted(server, c, Gone) ELSE server
      /\ UNCHANGED <<client, up, down, greeted, service, hist>>
  BY DEF LinkClosed
<1>2. At(c, Gone) \in Calls /\ At(c, Gone).conn = c /\ At(c, Gone).msg.op = "gone" BY MessageIs, PostIs
<1>3. server \in [queue : Seq(InPosts), active : SUBSET Links] BY DEF RmiTypes
<1>4. /\ server'.active = server.active
      /\ c \in greeted => server'.queue = Append(server.queue, At(c, Gone))
      /\ c \notin greeted => server'.queue = server.queue
  BY <1>1, <1>3 DEF Posted
<1> QED BY <1>1, <1>2, <1>4

LEMMA ServingIs ==
  ASSUME RmiTypes, NEW op, ServiceTakes(op)
  PROVE  /\ service.queue \in Seq(Calls) /\ service.queue # <<>> /\ Serving = Head(service.queue)
         /\ Serving \in Calls /\ Serving.conn \in Links /\ Serving.msg.op = op
         /\ Serving.msg \in UpMessage \cup DownMessage \cup {Gone} /\ Serving = At(Serving.conn, Serving.msg)
         /\ server \in [queue : Seq(InPosts), active : SUBSET Links]
         /\ service \in [queue : Seq(Calls), listeners : Seq(Listener), delayed : SUBSET Delayed]
<1>1. service.queue # <<>> /\ Serving.msg.op = op BY DEF ServiceTakes, Serving
<1>2. /\ server \in [queue : Seq(InPosts), active : SUBSET Links]
      /\ service \in [queue : Seq(Calls), listeners : Seq(Listener), delayed : SUBSET Delayed]
  BY DEF RmiTypes
<1>3. Serving = Head(service.queue) BY DEF Serving
<1> QED BY <1>1, <1>2, <1>3, HeadOfService

LEMMA ReplyIs ==
  ASSUME NEW c \in Links, NEW r \in Requests
  PROVE  /\ At(c, Reply(r)) \in InPosts /\ At(c, Reply(r)).conn = c
         /\ At(c, Reply(r)).msg.op = "reply" /\ At(c, Reply(r)).msg.no = r
<1>1. Reply(r) \in DownMessage /\ Reply(r).op = "reply" /\ Reply(r).no = r BY MessageIs DEF Reply
<1> QED BY <1>1, PostIs

LEMMA ReplyNowDoes ==
  ASSUME RmiTypes, ReplyNow
  PROVE  LET c == Serving.conn
             r == Serving.msg.no
             p == At(c, Reply(r)) IN
         /\ service.queue \in Seq(Calls) /\ service.queue # <<>> /\ Serving = Head(service.queue)
         /\ c \in Links /\ r \in Requests /\ Serving.msg.op = "request" /\ Serving \in Calls
         /\ service'.queue = Tail(service.queue)
         /\ service'.listeners = service.listeners /\ service'.delayed = service.delayed
         /\ p \in InPosts /\ p.conn = c /\ p.msg.op = "reply" /\ p.msg.no = r
         /\ server'.queue = Append(server.queue, p) /\ server'.active = server.active
         /\ UNCHANGED <<client, wires, hist>>
<1> DEFINE c == Serving.conn
           r == Serving.msg.no
           p == At(c, Reply(r))
<1>0. ServiceTakes("request") BY DEF ReplyNow
<1>1. /\ service.queue \in Seq(Calls) /\ service.queue # <<>> /\ Serving = Head(service.queue)
      /\ c \in Links /\ r \in Requests /\ Serving.msg.op = "request" /\ Serving \in Calls
  BY <1>0, ServingIs, MessageIs
<1>2. p \in InPosts /\ p.conn = c /\ p.msg.op = "reply" /\ p.msg.no = r BY <1>1, ReplyIs
<1>3. /\ service'.queue = Tail(service.queue)
      /\ service'.listeners = service.listeners /\ service'.delayed = service.delayed
  BY <1>0, ServingIs DEF ReplyNow
<1>4. server'.queue = Append(server.queue, p) /\ server'.active = server.active
  BY <1>0, ServingIs DEF ReplyNow, Posted
<1>5. UNCHANGED <<client, wires, hist>> BY DEF ReplyNow
<1> QED BY <1>1, <1>2, <1>3, <1>4, <1>5

LEMMA DelayReplyDoes ==
  ASSUME RmiTypes, DelayReply
  PROVE  /\ service.queue \in Seq(Calls) /\ service.queue # <<>> /\ Serving = Head(service.queue)
         /\ Serving.conn \in Links /\ Serving.msg.no \in Requests /\ Serving.msg.op = "request" /\ Serving \in Calls
         /\ service'.queue = Tail(service.queue) /\ service'.listeners = service.listeners
         /\ service'.delayed = service.delayed \cup {Serving}
         /\ UNCHANGED <<client, wires, server, hist>>
<1>0. ServiceTakes("request") BY DEF DelayReply
<1>1. /\ service.queue \in Seq(Calls) /\ service.queue # <<>> /\ Serving = Head(service.queue)
      /\ Serving.conn \in Links /\ Serving.msg.no \in Requests /\ Serving.msg.op = "request" /\ Serving \in Calls
  BY <1>0, ServingIs, MessageIs
<1>2. /\ service'.queue = Tail(service.queue) /\ service'.listeners = service.listeners
      /\ service'.delayed = service.delayed \cup {Serving}
  BY <1>0, ServingIs DEF DelayReply
<1> QED BY <1>1, <1>2 DEF DelayReply

LEMMA SendDelayedDoes ==
  ASSUME RmiTypes, SendDelayed
  PROVE  \E e \in service.delayed :
         LET p == At(e.conn, Reply(e.msg.no)) IN
         /\ e \in Posts /\ e.conn \in Links /\ e.msg.no \in Requests /\ e.msg.op = "request"
         /\ service'.queue = service.queue /\ service'.listeners = service.listeners
         /\ service'.delayed = service.delayed \ {e}
         /\ p \in InPosts /\ p.conn = e.conn /\ p.msg.op = "reply" /\ p.msg.no = e.msg.no
         /\ server'.queue = Append(server.queue, p) /\ server'.active = server.active
         /\ UNCHANGED <<client, wires, hist>>
<1>1. PICK e \in service.delayed : /\ service' = [service EXCEPT !.delayed = @ \ {e}]
                                   /\ server' = Posted(server, e.conn, Reply(e.msg.no))
                                   /\ UNCHANGED <<client, wires, hist>>
  BY DEF SendDelayed
<1>2. /\ server \in [queue : Seq(InPosts), active : SUBSET Links]
      /\ service \in [queue : Seq(Calls), listeners : Seq(Listener), delayed : SUBSET Delayed]
  BY DEF RmiTypes
<1>3. e \in Delayed BY <1>2
<1>4. e \in Posts /\ e.conn \in Links /\ e.msg.no \in Requests /\ e.msg.op = "request"
  BY <1>3, Subsets, MessageIs DEF Delayed
<1>5. /\ service'.queue = service.queue /\ service'.listeners = service.listeners
      /\ service'.delayed = service.delayed \ {e}
  BY <1>1, <1>2
<1> DEFINE p == At(e.conn, Reply(e.msg.no))
<1>6. p \in InPosts /\ p.conn = e.conn /\ p.msg.op = "reply" /\ p.msg.no = e.msg.no BY <1>4, ReplyIs
<1>7. server'.queue = Append(server.queue, p) /\ server'.active = server.active
  BY <1>1, <1>2 DEF Posted
<1> QED BY <1>1, <1>4, <1>5, <1>6, <1>7

LEMMA RegClientDoes ==
  ASSUME RmiTypes, RegClient
  PROVE  /\ service.queue \in Seq(Calls) /\ service.queue # <<>> /\ Serving = Head(service.queue)
         /\ Serving.conn \in Links /\ Serving.msg.op = "reg" /\ Serving \in Calls /\ Serving \in Listener
         /\ service.listeners \in Seq(Listener)
         /\ service'.queue = Tail(service.queue) /\ service'.listeners = Append(service.listeners, Serving)
         /\ service'.delayed = service.delayed
         /\ UNCHANGED <<client, wires, server, hist>>
<1>0. ServiceTakes("reg") BY DEF RegClient
<1>1. /\ service.queue \in Seq(Calls) /\ service.queue # <<>> /\ Serving = Head(service.queue)
      /\ Serving.conn \in Links /\ Serving.msg.op = "reg" /\ Serving \in Calls
      /\ service \in [queue : Seq(Calls), listeners : Seq(Listener), delayed : SUBSET Delayed]
  BY <1>0, ServingIs
<1>2. /\ service'.queue = Tail(service.queue) /\ service'.listeners = Append(service.listeners, Serving)
      /\ service'.delayed = service.delayed
  BY <1>1 DEF RegClient
<1>3. Serving \in Listener BY <1>1, Subsets DEF Listener
<1> QED BY <1>1, <1>2, <1>3 DEF RegClient

LEMMA LeaveDoes ==
  ASSUME RmiTypes, UnregClient \/ ConnectionClosed
  PROVE  /\ service.queue \in Seq(Calls) /\ service.queue # <<>> /\ Serving = Head(service.queue)
         /\ Serving.conn \in Links /\ Serving.msg.op \in {"unreg", "gone"} /\ Serving \in Calls
         /\ service'.queue = Tail(service.queue) /\ service'.delayed = service.delayed
         /\ \A P : Some(service'.listeners, P) => Some(service.listeners, P)
         /\ Serving.msg.op = "gone" => ~Some(service'.listeners, Regd(Serving.conn))
         /\ UNCHANGED <<client, wires, server, hist>>
<1>0. PICK op \in {"unreg", "gone"} :
        /\ ServiceTakes(op)
        /\ UnregClient => op = "unreg"
        /\ ConnectionClosed => op = "gone"
  <2>1. CASE UnregClient
    <3>1. ServiceTakes("unreg") /\ ~ConnectionClosed BY <2>1 DEF UnregClient, ConnectionClosed, ServiceTakes
    <3> QED BY <3>1
  <2>2. CASE ConnectionClosed
    <3>1. ServiceTakes("gone") /\ ~UnregClient BY <2>2 DEF UnregClient, ConnectionClosed, ServiceTakes
    <3> QED BY <3>1
  <2> QED BY <2>1, <2>2
<1>1. /\ service.queue \in Seq(Calls) /\ service.queue # <<>> /\ Serving = Head(service.queue)
      /\ Serving.conn \in Links /\ Serving.msg.op = op /\ Serving \in Calls
      /\ service \in [queue : Seq(Calls), listeners : Seq(Listener), delayed : SUBSET Delayed]
  BY <1>0, ServingIs
<1>2. ASSUME NEW G, service' = [service EXCEPT !.queue = Tail(service.queue), !.listeners = Without(service.listeners, G)]
      PROVE  /\ service'.queue = Tail(service.queue) /\ service'.delayed = service.delayed
             /\ \A P : Some(service'.listeners, P) => Some(service.listeners, P)
             /\ ~Some(service'.listeners, G) /\ service'.listeners \in Seq(Listener)
  <2>1. service.listeners \in Seq(Listener) BY <1>1
  <2>2. service'.queue = Tail(service.queue) /\ service'.delayed = service.delayed
        /\ service'.listeners = Without(service.listeners, G)
    BY <1>1, <1>2
  <2> QED BY <2>1, <2>2, WithoutHas
<1>3. CASE UnregClient
  <2>1. service' = [service EXCEPT !.queue = Tail(service.queue),
                   !.listeners = Without(service.listeners, {At(Serving.conn, Reg(Serving.msg.no))})]
    BY <1>1, <1>3 DEF UnregClient
  <2>2. /\ service'.queue = Tail(service.queue) /\ service'.delayed = service.delayed
        /\ \A P : Some(service'.listeners, P) => Some(service.listeners, P)
    BY <1>2, <2>1
  <2>3. UNCHANGED <<client, wires, server, hist>> BY <1>3 DEF UnregClient
  <2> QED BY <1>0, <1>1, <1>3, <2>2, <2>3
<1>4. CASE ConnectionClosed
  <2> DEFINE G == {At(Serving.conn, Reg(i)) : i \in Regs}
  <2>1. service' = [service EXCEPT !.queue = Tail(service.queue), !.listeners = Without(service.listeners, G)]
    BY <1>1, <1>4 DEF ConnectionClosed
  <2> HIDE DEF G
  <2>2. /\ service'.queue = Tail(service.queue) /\ service'.delayed = service.delayed
        /\ \A P : Some(service'.listeners, P) => Some(service.listeners, P)
        /\ ~Some(service'.listeners, G) /\ service'.listeners \in Seq(Listener)
    BY <1>2, <2>1
  <2>3. \A e \in Posts : e \in Regd(Serving.conn) => e \in G
    <3> SUFFICES ASSUME NEW e \in Posts, e \in Regd(Serving.conn) PROVE e \in G OBVIOUS
    <3>1. e.conn = Serving.conn /\ e.msg.op = "reg" /\ e = At(e.conn, e.msg)
          /\ e.msg \in UpMessage \cup DownMessage \cup {Gone}
      BY Subsets DEF Regd
    <3>2. e.msg.no \in Regs /\ e.msg \in UpMessage BY <3>1, MessageIs
    <3>3. e.msg = Reg(e.msg.no) BY <3>1, <3>2 DEF UpMessage, Reg, Greeting
    <3> QED BY <3>1, <3>2, <3>3 DEF G
  <2>4. ~Some(service'.listeners, Regd(Serving.conn)) BY <2>2, <2>3 DEF Some, Regd
  <2>5. UNCHANGED <<client, wires, server, hist>> BY <1>4 DEF ConnectionClosed
  <2> QED BY <1>0, <1>1, <1>4, <2>2, <2>4, <2>5
<1> QED BY <1>3, <1>4

LEMMA HandleRemoteDoes ==
  ASSUME RmiTypes, HandleRemote
  PROVE  \E t \in Seq(InPosts) :
         /\ \A i \in 1 .. Len(t) : t[i].msg.op = "signal"
         /\ \A d \in Links : Some(t, Of(d, Posts)) => Some(service.listeners, Of(d, Posts))
         /\ server'.queue = server.queue \o t /\ server'.active = server.active
         /\ made'.requests = made.requests
         /\ UNCHANGED <<client, wires, service, fate, answers>>
<1> DEFINE l == service.listeners
           t == [i \in 1 .. Len(l) |-> At(l[i].conn, Signal(l[i].msg.no))]
<1>1. l \in Seq(Listener) /\ Len(l) \in Nat /\ server \in [queue : Seq(InPosts), active : SUBSET Links]
  BY DEF RmiTypes
<1>2. \A i \in 1 .. Len(l) : l[i] \in Posts /\ t[i] \in InPosts /\ t[i].msg.op = "signal" /\ t[i].conn = l[i].conn
  <2> SUFFICES ASSUME NEW i \in 1 .. Len(l)
               PROVE l[i] \in Posts /\ t[i] \in InPosts /\ t[i].msg.op = "signal" /\ t[i].conn = l[i].conn
    OBVIOUS
  <2>1. l[i] \in Listener BY <1>1
  <2>2. l[i] \in Posts /\ l[i].conn \in Links /\ l[i].msg.no \in Regs BY <2>1, Subsets, MessageIs DEF Listener
  <2>3. Signal(l[i].msg.no) \in DownMessage /\ Signal(l[i].msg.no).op = "signal" BY <2>2, MessageIs DEF Signal
  <2>4. t[i] = At(l[i].conn, Signal(l[i].msg.no)) OBVIOUS
  <2> HIDE DEF t
  <2> QED BY <2>2, <2>3, <2>4, PostIs
<1>3. t \in Seq(InPosts)
  <2>1. t \in [1 .. Len(l) -> InPosts] BY <1>2
  <2> HIDE DEF t, l
  <2> QED BY <1>1, <2>1, SeqDef
<1>4. Len(t) = Len(l) BY <1>1
<1>5. \A d \in Links : Some(t, Of(d, Posts)) => Some(l, Of(d, Posts))
  <2> HIDE DEF t, l
  <2> QED BY <1>2, <1>4 DEF Some, Of
<1>6. server'.queue = server.queue \o t /\ server'.active = server.active BY <1>1 DEF HandleRemote
<1>7. made'.requests = made.requests /\ UNCHANGED <<client, wires, service, fate, answers>>
  BY DEF HandleRemote, RmiTypes
<1>8. \A i \in 1 .. Len(t) : t[i].msg.op = "signal"
  <2> HIDE DEF t
  <2> QED BY <1>2, <1>4
<1> HIDE DEF t
<1> QED BY <1>3, <1>5, <1>6, <1>7, <1>8 DEF l

----------------------------------------
(* RMI: LinkInv *)

LEMMA LinkNext ==
  ASSUME RmiTypes, LinkInv, AloneInv, RmiNext
  PROVE  LinkInv'
<1>0. /\ sock \in [Links -> {"none", "up", "down", "told"}] /\ up \in [Links -> Seq(UpMessage)]
      /\ MaxLinks \in Links /\ 0 \notin Links
  BY WsIs DEF RmiTypes
<1>1. ASSUME NEW r \in Requests, SendRequest(r) PROVE LinkInv'
  <2>1. client.ws = 0 \/ client.ws \in Links BY WsIs
  <2> QED BY <1>0, <1>1, <2>1, SendRequestDoes, LinkStays
<1>2. CASE Register \/ Unregister
  <2>1. PICK m \in AsyncType : SendAsync(m) BY <1>2, AsyncDoes
  <2> QED BY <1>0, <2>1, SendAsyncDoes, LinkStays
<1>3. CASE Start BY <1>0, <1>3, StartDoes DEF LinkInv
<1>4. CASE WsOpen
  <2>1. sock' = sock /\ client'.ws = client.ws /\ client.ws \in Links /\ sock[client.ws] = "up"
        /\ \A c \in Links : c # client.ws => up'[c] = up[c]
    BY <1>0, <1>4, WsOpenDoes
  <2> QED BY <1>0, <2>1 DEF LinkInv
<1>5. CASE NewReply BY <1>0, <1>5, NewReplyDoes, LinkStays
<1>6. CASE NewSignal BY <1>0, <1>6, NewSignalDoes, LinkStays
<1>7. CASE WsClose
  <2>1. UNCHANGED <<sock, up>> /\ client'.ws = 0 /\ client'.open = FALSE /\ sock[client.ws] # "up"
    BY <1>7, WsCloseDoes DEF wires
  <2> QED BY <1>0, <2>1 DEF LinkInv
<1>8. CASE HandleCall BY <1>8, HandleCallDoes, LinkStays
<1>9. CASE SendOut BY <1>9, SendOutDoes, LinkStays
<1>10. ASSUME UNCHANGED <<client, wires>> PROVE LinkInv'
  BY <1>10, LinkStays DEF wires
<1>11. CASE RmiService \/ HandleRemote
  BY <1>10, <1>11, ReplyNowDoes, DelayReplyDoes, SendDelayedDoes, RegClientDoes, LeaveDoes, HandleRemoteDoes DEF RmiService
<1>12. ASSUME NEW c \in Links, Break(c) PROVE LinkInv'
  <2>1. /\ sock[c] = "up" /\ c # MaxLinks /\ sock' = [sock EXCEPT ![c] = "down"] /\ client' = client
        /\ \A d \in Links : d # c => up'[d] = up[d]
    BY <1>12, BreakDoes
  <2> QED BY <1>0, <2>1 DEF LinkInv
<1>13. ASSUME NEW c \in Links, NewMsg(c) PROVE LinkInv'
  <2>1. up[c] # <<>> /\ (\A d \in Links : d # c => up'[d] = up[d]) /\ UNCHANGED <<client, sock>>
    BY <1>0, <1>13, NewMsgDoes
  <2> QED BY <1>0, <2>1 DEF LinkInv
<1>14. ASSUME NEW c \in Links, LinkClosed(c) PROVE LinkInv'
  <2>1. /\ sock[c] = "down" /\ up[c] = <<>> /\ sock' = [sock EXCEPT ![c] = "told"] /\ UNCHANGED <<client, up>>
    BY <1>14, LinkClosedDoes
  <2> QED BY <1>0, <2>1 DEF LinkInv
<1> QED
  BY <1>1, <1>2, <1>3, <1>4, <1>5, <1>6, <1>7, <1>8, <1>9, <1>11, <1>12, <1>13, <1>14
  DEF RmiNext, Application, Browser, Server, Manager

----------------------------------------
(* RMI: GoneInv, the end of a connection behind its registrations *)

(* One connection of GoneInv. *)
GoneOne(d) ==
  sock[d] = "told" =>
      /\ After(server.queue, Regd(d), GoneOf(d))
      /\ Some(server.queue, GoneOf(d)) \/ After(service.queue, Regd(d), GoneOf(d))
      /\ Some(service.listeners, Regd(d)) => Some(server.queue, GoneOf(d)) \/ Some(service.queue, GoneOf(d))

LEMMA NoneThere ==
  ASSUME NEW s, NEW P, NEW Q, ~Some(s, P)  PROVE After(s, P, Q)
BY DEF Some, After

LEMMA GoneNext ==
  ASSUME RmiTypes, LinkInv, HelloInv, AloneInv, GoneInv, RmiNext
  PROVE  GoneInv'
<1>0. /\ sock \in [Links -> {"none", "up", "down", "told"}] /\ up \in [Links -> Seq(UpMessage)]
      /\ MaxLinks \in Links /\ 0 \notin Links
  BY WsIs DEF RmiTypes
<1>t. /\ server.queue \in Seq(InPosts) /\ service.queue \in Seq(Calls) /\ service.listeners \in Seq(Listener)
      /\ InPosts \subseteq Posts /\ Calls \subseteq Posts /\ Calls \subseteq InPosts /\ Listener \subseteq Posts
  BY Subsets DEF RmiTypes
<1>a. GoneInv <=> \A d \in Links : GoneOne(d) BY DEF GoneInv, GoneOne
<1>b. (\A d \in Links : GoneOne(d)') => GoneInv' BY DEF GoneInv, GoneOne
<1>c. ASSUME UNCHANGED <<server, service>>, \A d \in Links : sock'[d] = "told" => sock[d] = "told"  PROVE GoneInv'
  BY <1>a, <1>b, <1>c DEF GoneOne
<1>1. ASSUME NEW r \in Requests, SendRequest(r) PROVE GoneInv' BY <1>1, <1>c, SendRequestDoes
<1>2. CASE Register \/ Unregister
  <2>1. PICK m \in AsyncType : SendAsync(m) BY <1>2, AsyncDoes
  <2> QED BY <2>1, <1>c, SendAsyncDoes
<1>3. CASE Start BY <1>0, <1>3, <1>c, StartDoes
<1>4. CASE WsOpen BY <1>4, <1>c, WsOpenDoes
<1>5. CASE NewReply BY <1>5, <1>c, NewReplyDoes
<1>6. CASE NewSignal BY <1>6, <1>c, NewSignalDoes
<1>7. CASE WsClose BY <1>7, <1>c, WsCloseDoes DEF wires
<1>8. CASE HandleCall
  <2> DEFINE e == Head(server.queue)
  <2>1. /\ server.queue # <<>> /\ e \in Calls
        /\ e.msg.op \in {"request", "reg", "unreg", "gone"}
        /\ server'.queue = Tail(server.queue)
        /\ service'.queue = Append(service.queue, e)
        /\ service'.listeners = service.listeners /\ UNCHANGED sock
    BY <1>8, HandleCallDoes
  <2>2. ASSUME NEW d \in Links PROVE GoneOne(d)'
    <3>1. /\ Some(server.queue, GoneOf(d)) <=> Some(Tail(server.queue), GoneOf(d)) \/ (e.conn = d /\ e.msg.op = "gone")
          /\ After(server.queue, Regd(d), GoneOf(d)) =>
              /\ After(Tail(server.queue), Regd(d), GoneOf(d))
              /\ e.conn = d /\ e.msg.op = "reg" => Some(Tail(server.queue), GoneOf(d))
      BY <1>t, <2>1, QueueLoses
    <3>2. /\ Some(Append(service.queue, e), GoneOf(d)) <=> Some(service.queue, GoneOf(d)) \/ (e.conn = d /\ e.msg.op = "gone")
          /\ After(service.queue, Regd(d), GoneOf(d)) /\ ~(e.conn = d /\ e.msg.op = "reg") =>
              After(Append(service.queue, e), Regd(d), GoneOf(d))
          /\ e.conn = d /\ e.msg.op = "gone" => After(Append(service.queue, e), Regd(d), GoneOf(d))
      BY <1>t, <2>1, QueueGets
    <3> HIDE DEF e
    <3> QED BY <1>a, <2>1, <3>1, <3>2 DEF GoneOne
  <2> QED BY <2>2, <1>b
<1>9. CASE SendOut
  <2> DEFINE e == Head(server.queue)
  <2>1. /\ server.queue # <<>> /\ e.msg.op \in {"reply", "signal"}
        /\ server'.queue = Tail(server.queue) /\ UNCHANGED <<sock, service>>
    BY <1>9, SendOutDoes
  <2>2. ASSUME NEW d \in Links PROVE GoneOne(d)'
    <3>1. /\ Some(server.queue, GoneOf(d)) <=> Some(Tail(server.queue), GoneOf(d)) \/ (e.conn = d /\ e.msg.op = "gone")
          /\ After(server.queue, Regd(d), GoneOf(d)) => After(Tail(server.queue), Regd(d), GoneOf(d))
      BY <1>t, <2>1, QueueLoses
    <3> HIDE DEF e
    <3> QED BY <1>a, <2>1, <3>1 DEF GoneOne
  <2> QED BY <2>2, <1>b
\* a reply joins the queue of the server
<1>r. ASSUME NEW p \in InPosts, p.msg.op = "reply", server'.queue = Append(server.queue, p), NEW d \in Links
      PROVE  /\ Some(server'.queue, GoneOf(d)) <=> Some(server.queue, GoneOf(d))
             /\ After(server.queue, Regd(d), GoneOf(d)) => After(server'.queue, Regd(d), GoneOf(d))
  BY <1>t, <1>r, QueueGets
\* the service takes something that is no registration
<1>s. ASSUME service.queue # <<>>, service'.queue = Tail(service.queue), NEW d \in Links
      PROVE  /\ Some(service.queue, GoneOf(d)) <=> Some(service'.queue, GoneOf(d)) \/ (Head(service.queue).conn = d /\ Head(service.queue).msg.op = "gone")
             /\ After(service.queue, Regd(d), GoneOf(d)) =>
                  /\ After(service'.queue, Regd(d), GoneOf(d))
                  /\ Head(service.queue).conn = d /\ Head(service.queue).msg.op = "reg" =>
                       Some(service'.queue, GoneOf(d))
  BY <1>t, <1>s, QueueLoses
<1>10. CASE ReplyNow
  <2>1. /\ service.queue # <<>> /\ Head(service.queue).msg.op = "request" /\ service'.queue = Tail(service.queue)
        /\ service'.listeners = service.listeners /\ sock' = sock
        /\ \E p \in InPosts : p.msg.op = "reply" /\ server'.queue = Append(server.queue, p)
    BY <1>10, ReplyNowDoes DEF wires
  <2>2. ASSUME NEW d \in Links PROVE GoneOne(d)' BY <1>a, <1>r, <1>s, <2>1 DEF GoneOne
  <2> QED BY <2>2, <1>b
<1>11. CASE DelayReply
  <2>1. /\ service.queue # <<>> /\ Head(service.queue).msg.op = "request" /\ service'.queue = Tail(service.queue)
        /\ service'.listeners = service.listeners /\ UNCHANGED <<sock, server>>
    BY <1>11, DelayReplyDoes DEF wires
  <2>2. ASSUME NEW d \in Links PROVE GoneOne(d)' BY <1>a, <1>s, <2>1 DEF GoneOne
  <2> QED BY <2>2, <1>b
<1>12. CASE SendDelayed
  <2>1. /\ service'.queue = service.queue /\ service'.listeners = service.listeners /\ sock' = sock
        /\ \E p \in InPosts : p.msg.op = "reply" /\ server'.queue = Append(server.queue, p)
    BY <1>12, SendDelayedDoes DEF wires
  <2>2. ASSUME NEW d \in Links PROVE GoneOne(d)' BY <1>a, <1>r, <2>1 DEF GoneOne
  <2> QED BY <2>2, <1>b
<1>13. CASE RegClient
  <2>1. /\ service.queue # <<>> /\ Serving = Head(service.queue) /\ Serving.msg.op = "reg" /\ Serving \in Listener
        /\ service'.queue = Tail(service.queue) /\ service'.listeners = Append(service.listeners, Serving)
        /\ UNCHANGED <<sock, server>>
    BY <1>13, RegClientDoes DEF wires
  <2>2. ASSUME NEW d \in Links PROVE GoneOne(d)'
    <3>1. Some(service'.listeners, Regd(d)) <=> Some(service.listeners, Regd(d)) \/ (Serving.conn = d /\ Serving.msg.op = "reg")
      BY <1>t, <2>1, QueueGets
    <3> QED BY <1>a, <1>s, <2>1, <3>1 DEF GoneOne
  <2> QED BY <2>2, <1>b
<1>14. CASE UnregClient \/ ConnectionClosed
  <2>1. /\ service.queue # <<>> /\ Serving = Head(service.queue)
        /\ service'.queue = Tail(service.queue)
        /\ \A P : Some(service'.listeners, P) => Some(service.listeners, P)
        /\ Serving.msg.op = "gone" => ~Some(service'.listeners, Regd(Serving.conn))
        /\ UNCHANGED <<sock, server>>
    BY <1>14, LeaveDoes DEF wires
  <2>2. ASSUME NEW d \in Links PROVE GoneOne(d)' BY <1>a, <1>s, <2>1 DEF GoneOne
  <2> QED BY <2>2, <1>b
<1>15. CASE HandleRemote
  <2>1. PICK t \in Seq(InPosts) :
          /\ \A i \in 1 .. Len(t) : t[i].msg.op = "signal"
          /\ server'.queue = server.queue \o t /\ UNCHANGED <<wires, service>>
    BY <1>15, HandleRemoteDoes
  <2>2. ASSUME NEW d \in Links PROVE GoneOne(d)'
    <3>1. ~Some(t, Regd(d)) /\ ~Some(t, GoneOf(d)) BY <2>1 DEF Some, Regd, GoneOf, Gone
    <3>2. /\ Some(server'.queue, GoneOf(d)) <=> Some(server.queue, GoneOf(d))
          /\ After(server.queue, Regd(d), GoneOf(d)) => After(server'.queue, Regd(d), GoneOf(d))
      BY <1>t, <2>1, <3>1, JoinHas
    <3>3. sock' = sock BY <2>1 DEF wires
    <3> QED BY <1>a, <2>1, <3>2, <3>3 DEF GoneOne
  <2> QED BY <2>2, <1>b
<1>16. ASSUME NEW c \in Links, Break(c) PROVE GoneInv' BY <1>0, <1>16, <1>c, BreakDoes
<1>17. ASSUME NEW c \in Links, NewMsg(c) PROVE GoneInv'
  <2> DEFINE m == Head(up[c])
  <2>1. /\ up[c] # <<>> /\ UNCHANGED <<sock, service>>
        /\ \/ UNCHANGED server
           \/ At(c, m) \in InPosts /\ At(c, m).conn = c /\ server'.queue = Append(server.queue, At(c, m))
    BY <1>17, NewMsgDoes, <1>t
  <2>2. ASSUME NEW d \in Links PROVE GoneOne(d)'
    <3>1. CASE d = c BY <2>1, <3>1 DEF LinkInv, GoneOne
    <3>2. CASE d # c /\ ~UNCHANGED server
      <4>1. /\ Some(server'.queue, GoneOf(d)) <=> Some(server.queue, GoneOf(d))
            /\ After(server.queue, Regd(d), GoneOf(d)) => After(server'.queue, Regd(d), GoneOf(d))
        <5>1. At(c, m) \in InPosts /\ At(c, m).conn # d /\ server'.queue = Append(server.queue, At(c, m))
          BY <2>1, <3>2
        <5> HIDE DEF m
        <5> QED BY <1>t, <5>1, QueueGets
      <4> QED BY <1>a, <2>1, <4>1 DEF GoneOne
    <3>3. CASE UNCHANGED server BY <1>a, <2>1, <3>3 DEF GoneOne
    <3> QED BY <3>1, <3>2, <3>3
  <2> QED BY <2>2, <1>b
<1>18. ASSUME NEW c \in Links, LinkClosed(c) PROVE GoneInv'
  <2>1. /\ up[c] = <<>> /\ sock' = [sock EXCEPT ![c] = "told"]
        /\ At(c, Gone) \in Calls /\ At(c, Gone).conn = c /\ At(c, Gone).msg.op = "gone"
        /\ c \in greeted => server'.queue = Append(server.queue, At(c, Gone))
        /\ c \notin greeted => server'.queue = server.queue
        /\ UNCHANGED service
    BY <1>18, LinkClosedDoes
  <2>2. ASSUME NEW d \in Links PROVE GoneOne(d)'
    <3>1. CASE c \in greeted
      <4>1. /\ Some(server'.queue, GoneOf(d)) <=> Some(server.queue, GoneOf(d)) \/ d = c
            /\ After(server.queue, Regd(d), GoneOf(d)) \/ d = c => After(server'.queue, Regd(d), GoneOf(d))
        <5>1. server'.queue = Append(server.queue, At(c, Gone)) /\ At(c, Gone) \in InPosts BY <3>1, <2>1, <1>t
        <5> QED BY <1>t, <2>1, <5>1, QueueGets
      <4> QED BY <1>a, <1>0, <2>1, <4>1 DEF GoneOne
    <3>2. CASE c \notin greeted /\ d = c
      <4>1. ~Some(server.queue, Regd(c)) /\ ~Some(service.queue, Regd(c)) /\ ~Some(service.listeners, Regd(c))
        BY <3>2, QuietHas DEF HelloInv
      <4>2. server'.queue = server.queue /\ UNCHANGED service BY <2>1, <3>2
      <4> QED BY <3>2, <4>1, <4>2, NoneThere DEF GoneOne
    <3>3. CASE c \notin greeted /\ d # c BY <1>a, <1>0, <2>1, <3>3 DEF GoneOne
    <3> QED BY <3>1, <3>2, <3>3
  <2> QED BY <2>2, <1>b
<1> QED
  BY <1>1, <1>2, <1>3, <1>4, <1>5, <1>6, <1>7, <1>8, <1>9, <1>10, <1>11, <1>12, <1>13, <1>14, <1>15, <1>16, <1>17, <1>18
  DEF RmiNext, Application, Browser, Server, RmiService, Manager

----------------------------------------
(* RMI: BrowserInv, requests and answers in order *)

Fates == {"new", "waits", "sent", "thrown", "answered", "lost", "refused"}

LEMMA ElementIs == ASSUME NEW A, NEW s \in Seq(A), NEW i \in 1 .. Len(s) PROVE s[i] \in A
OBVIOUS

(* The answers so far come before the requests that wait. *)
AnswersBefore(a) ==
  /\ \A i \in 1 .. Len(a) : a[i].request = a[i].reply
  /\ \A i, j \in 1 .. Len(a) : i < j => a[i].request < a[j].request
  /\ \A i \in 1 .. Len(a) :
       /\ \A k \in 1 .. Len(client.waiting) : a[i].request < client.waiting[k]
       /\ a[i].request <= made.requests

(* The next request of those that wait is sent. *)
LEMMA NextSent ==
  ASSUME RmiTypes, BrowserInv, NEW f \in [Requests -> Fates], \A q \in Requests : f[q] # "sent" /\ f[q] # "refused",
         \A q \in Requests : f[q] = "waits" => fate[q] = "waits",
         AnswersBefore(answers'), answers' \in Seq([request : Requests, reply : Requests]),
         client'.open = TRUE, client'.ws # 0,
         client.waiting # <<>> => /\ client'.callback = Head(client.waiting) /\ client'.waiting = Tail(client.waiting)
                                  /\ client'.active = client.active,
         client.waiting = <<>> => /\ client'.callback = 0 /\ client'.waiting = <<>>
                                  /\ client'.active = FALSE /\ client'.rsigs = <<>>,
         fate' = SentNext(f), made'.requests = made.requests
  PROVE  BrowserInv'
<1> DEFINE w == client.waiting
<1>0. w \in Seq(Requests) /\ Requests \subseteq Nat /\ 0 \notin Requests /\ made.requests \in Nat
  BY WsIs DEF RmiTypes
<1>1. CASE w = <<>>
  <2>1. Len(client'.waiting) = 0 /\ 1 .. 0 = {} BY <1>1
  <2>2. fate' = f BY <1>1 DEF SentNext
  <2>3. ~ \E q \in Requests : f[q] = "waits"
    <3>1. Len(w) = 0 BY <1>1
    <3> QED BY <3>1, <2>1 DEF BrowserInv
  <2> QED BY <1>0, <1>1, <2>1, <2>2, <2>3 DEF BrowserInv, AnswersBefore
<1>2. CASE w # <<>>
  <2> DEFINE h == Head(w)
             t == Tail(w)
  <2>1. /\ h = w[1] /\ h \in Requests /\ t \in Seq(Requests) /\ Len(t) = Len(w) - 1 /\ Len(w) \in Nat /\ Len(w) # 0
        /\ \A k \in 1 .. Len(t) : t[k] = w[k + 1]
    BY <1>0, <1>2, HeadTailProperties, EmptySeq
  <2>2. fate' = [f EXCEPT ![h] = "sent"] BY <1>2 DEF SentNext
  <2>3. client.active = TRUE BY <1>2, WsIs DEF BrowserInv
  <2>4. client'.callback = h /\ client'.waiting = t /\ client'.active = TRUE BY <1>2, <2>3
  <2>5. /\ 1 \in 1 .. Len(w)
        /\ \A k \in 1 .. Len(t) : k + 1 \in 1 .. Len(w) /\ 1 < k + 1
        /\ \A k \in 1 .. Len(w) : k = 1 \/ (k - 1 \in 1 .. Len(t) /\ t[k - 1] = w[k])
    BY <2>1
  <2>6. \A k \in 1 .. Len(w) : w[k] \in Nat /\ w[k] <= made.requests /\ \A j \in 1 .. k - 1 : w[j] < w[k]
    <3>1. \A k \in 1 .. Len(w) : w[k] \in Requests BY <1>0
    <3>2. \A k \in 1 .. Len(w) : w[k] <= made.requests /\ \A j \in 1 .. k - 1 : w[j] < w[k] BY DEF BrowserInv
    <3> QED BY <1>0, <3>1, <3>2
  <2>7. \A k \in 1 .. Len(t) : h < t[k] /\ t[k] <= made.requests /\ \A j \in 1 .. k - 1 : t[j] < t[k]
    <3> SUFFICES ASSUME NEW k \in 1 .. Len(t)
                 PROVE  h < t[k] /\ t[k] <= made.requests /\ \A j \in 1 .. k - 1 : t[j] < t[k]
      OBVIOUS
    <3>1. k + 1 \in 1 .. Len(w) /\ 1 \in 1 .. (k + 1) - 1 /\ t[k] = w[k + 1] BY <2>1, <2>5
    <3>2. h < t[k] /\ t[k] <= made.requests BY <2>1, <2>6, <3>1
    <3>3. ASSUME NEW j \in 1 .. k - 1 PROVE t[j] < t[k]
      <4>1. j + 1 \in 1 .. (k + 1) - 1 /\ j \in 1 .. Len(t) BY <2>1
      <4> QED BY <2>1, <2>6, <3>1, <4>1
    <3> QED BY <3>2, <3>3
  <2>8. h <= made.requests BY <2>1, <2>5, <2>6
  <2> HIDE DEF h, t
  <2>9. \A q \in Requests : fate'[q] = "waits" => \E k \in 1 .. Len(t) : t[k] = q
    <3> SUFFICES ASSUME NEW q \in Requests, fate'[q] = "waits" PROVE \E k \in 1 .. Len(t) : t[k] = q OBVIOUS
    <3>1. q # h /\ fate[q] = "waits" BY <2>1, <2>2
    <3>2. PICK k \in 1 .. Len(w) : w[k] = q BY <3>1 DEF BrowserInv
    <3>3. k # 1 BY <2>1, <3>1, <3>2
    <3> QED BY <2>5, <3>2, <3>3
  <2>10. \A q \in Requests : (fate'[q] = "sent" => q = h) /\ fate'[q] # "refused" BY <2>1, <2>2
  <2>11. fate'[h] = "sent" /\ h # 0 BY <1>0, <2>1, <2>2
  <2>12. \A i \in 1 .. Len(answers') :
           /\ answers'[i].request < h
           /\ \A k \in 1 .. Len(t) : answers'[i].request < t[k]
           /\ answers'[i].request <= made.requests
    BY <2>1, <2>5 DEF AnswersBefore
  <2>13. \A i \in 1 .. Len(answers') : answers'[i].request = answers'[i].reply BY DEF AnswersBefore
  <2>14. \A i, j \in 1 .. Len(answers') : i < j => answers'[i].request < answers'[j].request
    BY DEF AnswersBefore
  <2> HIDE DEF w
  <2> QED BY <2>4, <2>7, <2>8, <2>9, <2>10, <2>11, <2>12, <2>13, <2>14 DEF BrowserInv
<1> QED BY <1>1, <1>2

LEMMA BrowserKeeps ==
  ASSUME BrowserInv, client'.ws = client.ws, client'.open = client.open, client'.active = client.active,
         client'.callback = client.callback, client'.waiting = client.waiting,
         client'.rsigs = client.rsigs \/ client.waiting # <<>>,
         UNCHANGED <<fate, answers>>, made'.requests = made.requests
  PROVE  BrowserInv'
BY DEF BrowserInv

LEMMA BrowserSends ==
  ASSUME RmiTypes, BrowserInv, LinkInv, NEW r \in Requests, r = made.requests + 1, SendRequest(r)
  PROVE  BrowserInv'
<1>0. /\ client.waiting \in Seq(Requests) /\ Requests \subseteq Nat /\ 0 \notin Requests /\ made.requests \in Nat
      /\ client.callback \in Nat /\ answers \in Seq([request : Requests, reply : Requests])
      /\ fate \in [Requests -> Fates] /\ client.open \in BOOLEAN
  BY WsIs DEF RmiTypes, Fates
<1>d. /\ client'.ws = client.ws /\ client'.open = client.open /\ client'.rsigs = client.rsigs
      /\ made'.requests = r /\ answers' = answers /\ client'.active = TRUE
  BY SendRequestDoes
<1>a. \A i \in 1 .. Len(answers) : answers[i].request \in Nat
  <2>1. \A i \in 1 .. Len(answers) : answers[i] \in [request : Requests, reply : Requests] BY <1>0, ElementIs
  <2> QED BY <1>0, <2>1
<1>1. CASE client.active
  <2>1. /\ client'.callback = client.callback /\ client'.waiting = Append(client.waiting, r)
        /\ fate' = [fate EXCEPT ![r] = "waits"]
    BY <1>1, SendRequestDoes
  <2> DEFINE w == client.waiting
             t == Append(w, r)
  <2>2. /\ Len(t) = Len(w) + 1 /\ t[Len(w) + 1] = r /\ Len(w) \in Nat
        /\ \A k \in 1 .. Len(w) : t[k] = w[k] /\ w[k] \in Nat
    <3>1. \A k \in 1 .. Len(w) : w[k] \in Requests BY <1>0
    <3>2. /\ Len(t) = Len(w) + 1 /\ t[Len(w) + 1] = r /\ Len(w) \in Nat
          /\ \A k \in 1 .. Len(w) : t[k] = w[k]
      BY <1>0
    <3> QED BY <1>0, <3>1, <3>2
  <2>3. \A k \in 1 .. Len(t) : k = Len(w) + 1 \/ k \in 1 .. Len(w) BY <2>2
  <2>4. /\ client.callback <= made.requests
        /\ \A k \in 1 .. Len(w) : /\ client.callback < w[k] /\ w[k] <= made.requests
                                  /\ \A j \in 1 .. k - 1 : w[j] < w[k]
    BY DEF BrowserInv
  <2> HIDE DEF w, t
  <2>5. client.callback <= r /\ client.callback < r BY <1>0, <2>4
  <2>6. \A k \in 1 .. Len(t) : /\ client.callback < t[k] /\ t[k] <= r
                               /\ \A j \in 1 .. k - 1 : t[j] < t[k]
    <3> SUFFICES ASSUME NEW k \in 1 .. Len(t)
                 PROVE  client.callback < t[k] /\ t[k] <= r /\ \A j \in 1 .. k - 1 : t[j] < t[k]
      OBVIOUS
    <3>1. CASE k \in 1 .. Len(w)
      <4>1. \A j \in 1 .. k - 1 : j \in 1 .. Len(w) BY <3>1, <2>2
      <4> QED BY <1>0, <2>2, <2>4, <3>1, <4>1
    <3>2. CASE k = Len(w) + 1
      <4>1. \A j \in 1 .. k - 1 : j \in 1 .. Len(w) BY <3>2, <2>2
      <4>2. \A j \in 1 .. Len(w) : t[j] < r BY <1>0, <2>2, <2>4
      <4> QED BY <1>0, <2>2, <2>5, <3>2, <4>1, <4>2
    <3> QED BY <2>3, <3>1, <3>2
  <2>7. \A q \in Requests : fate'[q] = "waits" => \E k \in 1 .. Len(t) : t[k] = q
    <3> SUFFICES ASSUME NEW q \in Requests, fate'[q] = "waits" PROVE \E k \in 1 .. Len(t) : t[k] = q OBVIOUS
    <3>1. CASE q = r BY <3>1, <2>2
    <3>2. CASE q # r
      <4>1. PICK k \in 1 .. Len(w) : w[k] = q BY <1>0, <2>1, <3>2 DEF BrowserInv, w
      <4> QED BY <2>2, <4>1
    <3> QED BY <3>1, <3>2
  <2>8. /\ \A q \in Requests : fate'[q] = "sent" => q = client.callback /\ client.open
        /\ \A q \in Requests : fate'[q] # "refused"
    BY <1>0, <2>1 DEF BrowserInv
  <2>9. client.open => client.callback # 0 /\ fate'[client.callback] = "sent"
    <3>1. client.open => client.callback # 0 /\ fate[client.callback] = "sent" BY <1>1 DEF BrowserInv
    <3>2. client.callback # 0 => client.callback \in Requests BY WsIs
    <3>3. client.callback # r BY <2>5, <1>0
    <3> QED BY <1>0, <2>1, <3>1, <3>2, <3>3
  <2>10. fate'[client.callback] = "sent" /\ client.callback # 0 => fate[client.callback] = "sent"
    <3>2. client.callback # 0 => client.callback \in Requests BY WsIs
    <3> QED BY <1>0, <2>1, <3>2
  <2>11. \A i \in 1 .. Len(answers) :
       /\ client.callback # 0 /\ fate'[client.callback] = "sent" => answers[i].request < client.callback
       /\ \A k \in 1 .. Len(t) : answers[i].request < t[k]
       /\ answers[i].request <= r
    <3> SUFFICES ASSUME NEW i \in 1 .. Len(answers)
                 PROVE  /\ client.callback # 0 /\ fate'[client.callback] = "sent" => answers[i].request < client.callback
                        /\ \A k \in 1 .. Len(t) : answers[i].request < t[k]
                        /\ answers[i].request <= r
      OBVIOUS
    <3>1. /\ client.callback # 0 /\ fate[client.callback] = "sent" => answers[i].request < client.callback
          /\ \A k \in 1 .. Len(w) : answers[i].request < w[k]
          /\ answers[i].request <= made.requests
      BY DEF BrowserInv, w
    <3>2. answers[i].request < r /\ answers[i].request <= r BY <1>0, <1>a, <3>1
    <3> QED BY <2>2, <2>3, <2>10, <3>1, <3>2
  <2>12. client'.callback = client.callback /\ client'.waiting = t BY <2>1 DEF w, t
  <2>13. /\ \A i \in 1 .. Len(answers) : answers[i].request = answers[i].reply
         /\ \A i, j \in 1 .. Len(answers) : i < j => answers[i].request < answers[j].request
    BY DEF BrowserInv
  <2> QED BY <1>d, <2>5, <2>6, <2>7, <2>8, <2>9, <2>11, <2>12, <2>13 DEF BrowserInv
<1>2. CASE ~client.active
  <2>1. /\ client'.callback = r /\ client'.waiting = client.waiting
        /\ fate' = [fate EXCEPT ![r] = IF client.ws # 0 THEN "sent" ELSE "thrown"]
    BY <1>2, SendRequestDoes
  <2>2. client.callback = 0 /\ client.waiting = <<>> /\ client.rsigs = <<>> /\ (client.ws # 0 => client.open)
    BY <1>2 DEF BrowserInv
  <2>3. Len(client.waiting) = 0 /\ 1 .. 0 = {} BY <2>2
  <2>4. \A q \in Requests : fate[q] # "sent" /\ fate[q] # "waits" /\ fate[q] # "refused"
    BY <1>0, <2>2, <2>3 DEF BrowserInv
  <2>5. \A i \in 1 .. Len(answers) : answers[i].request < r /\ answers[i].request <= r
    <3>1. \A i \in 1 .. Len(answers) : answers[i].request <= made.requests BY DEF BrowserInv
    <3> QED BY <1>0, <1>a, <3>1
  <2>6. client.ws = 0 => ~client.open BY DEF LinkInv
  <2>7. /\ \A q \in Requests : (fate'[q] = "sent" => q = r /\ client.open) /\ fate'[q] # "refused" /\ fate'[q] # "waits"
        /\ client.open => fate'[r] = "sent"
    BY <1>0, <2>1, <2>2, <2>4, <2>6
  <2>8. /\ \A i \in 1 .. Len(answers) : answers[i].request = answers[i].reply
        /\ \A i, j \in 1 .. Len(answers) : i < j => answers[i].request < answers[j].request
    BY DEF BrowserInv
  <2>9. r <= r /\ r # 0 BY <1>0
  <2> QED BY <1>d, <2>1, <2>2, <2>3, <2>5, <2>7, <2>8, <2>9 DEF BrowserInv
<1> QED BY <1>1, <1>2

(* Of a link whose greeting is not sent yet nothing has come. *)
LEMMA OpenIs ==
  ASSUME RmiTypes, HelloInv, client.ws \in Links, down[client.ws] # <<>>
  PROVE  client.open
BY DEF HelloInv, Quiet

(* The reply that arrives is the one the callback waits for. *)
LEMMA ReplyIsMine ==
  ASSUME RmiTypes, HelloInv, CarryInv, BrowserInv, NewReply
  PROVE  /\ client.callback # 0 /\ Head(down[client.ws]).no = client.callback
         /\ client.open /\ client.active /\ fate[client.callback] = "sent"
<1> DEFINE w == client.ws
           r == Head(down[w]).no
<1>1. w \in Links /\ down[w] \in Seq(DownMessage) /\ down[w] # <<>> /\ Head(down[w]).op = "reply" /\ r \in Requests
  BY NewReplyDoes
<1>2. Some(down[w], Replies({r})) BY <1>1, LineLoses
<1>3. OnWay(w, {r}) BY <1>2 DEF OnWay, Lies, Places
<1>4. r \in Nat /\ r # 0 BY <1>1, WsIs
<1>5. r = client.callback BY <1>1, <1>3, <1>4 DEF CarryInv
<1>6. client.open BY <1>1, OpenIs
<1> QED BY <1>4, <1>5, <1>6 DEF BrowserInv

LEMMA BrowserNext ==
  ASSUME RmiTypes, RmiTypes', LinkInv, HelloInv, AloneInv, CarryInv, BrowserInv, RmiNext
  PROVE  BrowserInv'
<1>0. /\ client.waiting \in Seq(Requests) /\ Requests \subseteq Nat /\ 0 \notin Requests /\ 0 \notin Links /\ made.requests \in Nat
      /\ client.callback \in Nat /\ answers \in Seq([request : Requests, reply : Requests])
      /\ fate \in [Requests -> Fates] /\ answers' \in Seq([request : Requests, reply : Requests])
  <2>1. answers' \in Seq([request : Requests, reply : Requests]) BY DEF RmiTypes
  <2>2. answers \in Seq([request : Requests, reply : Requests]) /\ fate \in [Requests -> Fates] /\ made.requests \in Nat
    BY RMIAssumption DEF RmiTypes, Fates
  <2> QED BY <2>1, <2>2, WsIs
<1>a. \A i \in 1 .. Len(answers) : answers[i].request \in Nat
  <2>1. \A i \in 1 .. Len(answers) : answers[i] \in [request : Requests, reply : Requests] BY <1>0, ElementIs
  <2> QED BY <1>0, <2>1
<1>2. CASE Register \/ Unregister
  <2>1. PICK m \in AsyncType : SendAsync(m) /\ made'.requests = made.requests BY <1>2, AsyncDoes
  <2> QED BY <2>1, SendAsyncDoes, BrowserKeeps
<1>3. CASE Start
  <2>1. /\ client.ws = 0 /\ client'.open = FALSE /\ client'.active = TRUE
        /\ client'.callback = client.callback /\ client'.waiting = client.waiting /\ client'.rsigs = client.rsigs
        /\ UNCHANGED hist
    BY <1>3, StartDoes
  <2>2. ~client.open BY <2>1 DEF LinkInv
  <2> QED BY <2>1, <2>2 DEF BrowserInv, hist
<1>4. CASE WsOpen
  <2>0. /\ client.ws \in Links /\ client.open = FALSE
        /\ client'.ws = client.ws /\ client'.open = TRUE
        /\ client.waiting # <<>> => /\ client'.callback = Head(client.waiting) /\ client'.waiting = Tail(client.waiting)
                                    /\ client'.active = client.active
        /\ client.waiting = <<>> => /\ client'.callback = 0 /\ client'.waiting = <<>>
                                    /\ client'.active = FALSE /\ client'.rsigs = <<>>
        /\ fate' = SentNext(fate) /\ UNCHANGED <<made, answers>>
    BY <1>4, WsOpenDoes
  <2>1. \A q \in Requests : fate[q] # "sent" /\ fate[q] # "refused" BY <2>0 DEF BrowserInv
  <2>2. AnswersBefore(answers') BY <2>0 DEF AnswersBefore, BrowserInv
  <2> QED BY <1>0, <2>0, <2>1, <2>2, NextSent
<1>5. CASE NewReply
  <2> DEFINE r == Head(down[client.ws]).no
             a == [request |-> client.callback, reply |-> r]
             f == [fate EXCEPT ![client.callback] = "answered"]
  <2>1. /\ client.callback # 0 /\ r = client.callback
        /\ client.open /\ client.active /\ fate[client.callback] = "sent"
    BY <1>5, ReplyIsMine
  <2>2. /\ client.ws \in Links /\ client'.ws = client.ws /\ client'.open = client.open
        /\ client.waiting # <<>> => /\ client'.callback = Head(client.waiting) /\ client'.waiting = Tail(client.waiting)
                                    /\ client'.active = client.active
        /\ client.waiting = <<>> => /\ client'.callback = 0 /\ client'.waiting = <<>>
                                    /\ client'.active = FALSE /\ client'.rsigs = <<>>
        /\ answers' = Append(answers, a) /\ fate' = SentNext(f) /\ made' = made
    BY <1>5, <2>1, NewReplyDoes
  <2>3. client.callback \in Requests /\ client.open = TRUE BY <2>1, WsIs
  <2>4. f \in [Requests -> Fates] BY <1>0 DEF Fates
  <2>5. \A q \in Requests : /\ f[q] # "sent" /\ f[q] # "refused"
                            /\ f[q] = "waits" => fate[q] = "waits"
    BY <1>0, <2>1, <2>3 DEF BrowserInv
  <2>6. a.request = client.callback /\ a.reply = client.callback BY <2>1
  <2>7. AnswersBefore(answers')
    <3>1. /\ Len(answers') = Len(answers) + 1 /\ answers'[Len(answers) + 1] = a /\ Len(answers) \in Nat
          /\ \A i \in 1 .. Len(answers) : answers'[i] = answers[i] /\ answers[i].request \in Nat
      <4>1. a \in [request : Requests, reply : Requests] BY <2>1, <2>3
      <4> HIDE DEF a
      <4> QED BY <1>0, <1>a, <2>2, <4>1
    <3>2. \A i \in 1 .. Len(answers') : i = Len(answers) + 1 \/ i \in 1 .. Len(answers) BY <3>1
    <3> HIDE DEF a
    <3>3. \A i \in 1 .. Len(answers) : /\ answers[i].request = answers[i].reply
                                       /\ answers[i].request < client.callback
                                       /\ \A k \in 1 .. Len(client.waiting) : answers[i].request < client.waiting[k]
                                       /\ answers[i].request <= made.requests
      BY <2>1 DEF BrowserInv
    <3>4. \A i, j \in 1 .. Len(answers) : i < j => answers[i].request < answers[j].request BY DEF BrowserInv
    <3>5. /\ client.callback <= made.requests
          /\ \A k \in 1 .. Len(client.waiting) : client.callback < client.waiting[k]
      BY DEF BrowserInv
    <3>6. \A i, j \in 1 .. Len(answers') : i < j => answers'[i].request < answers'[j].request
      <4> SUFFICES ASSUME NEW i \in 1 .. Len(answers'), NEW j \in 1 .. Len(answers'), i < j
                   PROVE  answers'[i].request < answers'[j].request
        OBVIOUS
      <4>1. i \in 1 .. Len(answers) BY <3>1
      <4>2. CASE j \in 1 .. Len(answers) BY <3>1, <3>4, <4>1, <4>2
      <4>3. CASE j = Len(answers) + 1 BY <2>6, <3>1, <3>3, <4>1, <4>3
      <4> QED BY <3>2, <4>2, <4>3
    <3>7. \A i \in 1 .. Len(answers') :
            /\ answers'[i].request = answers'[i].reply
            /\ \A k \in 1 .. Len(client.waiting) : answers'[i].request < client.waiting[k]
            /\ answers'[i].request <= made.requests
      BY <2>6, <3>1, <3>2, <3>3, <3>5
    <3> QED BY <3>6, <3>7 DEF AnswersBefore
  <2> HIDE DEF f, a
  <2>8. client'.ws # 0 /\ made'.requests = made.requests /\ client'.open = TRUE BY <1>0, <2>2, <2>3
  <2> QED BY <1>0, <2>2, <2>4, <2>5, <2>7, <2>8, NextSent
<1>6. CASE NewSignal
  <2>1. /\ client'.ws = client.ws /\ client'.open = client.open /\ client'.active = client.active
        /\ client'.callback = client.callback /\ client'.waiting = client.waiting
        /\ client'.rsigs = client.rsigs \/ client.waiting # <<>>
        /\ UNCHANGED hist
    BY <1>6, NewSignalDoes
  <2> QED BY <2>1, BrowserKeeps DEF hist
<1>7. CASE WsClose
  <2>1. /\ client'.ws = 0 /\ client'.open = FALSE /\ client'.active = client.active
        /\ client'.callback = client.callback /\ client'.waiting = client.waiting /\ client'.rsigs = client.rsigs
        /\ fate' = [r \in Requests |-> IF fate[r] = "sent" THEN "lost" ELSE fate[r]]
        /\ UNCHANGED <<made, answers>>
    BY <1>7, WsCloseDoes
  <2>2. \A q \in Requests : /\ fate'[q] # "sent" /\ (fate'[q] = "waits" => fate[q] = "waits")
                            /\ fate'[q] # "refused"
    BY <1>0, <2>1 DEF BrowserInv
  <2>3. client.callback # 0 => fate'[client.callback] # "sent" BY <2>2, WsIs
  <2> QED BY <2>1, <2>2, <2>3 DEF BrowserInv
<1>8. CASE HandleCall
  <2>1. UNCHANGED <<client, hist>> BY <1>8, HandleCallDoes
  <2> QED BY <2>1, BrowserStays DEF hist
<1>9. CASE SendOut
  <2>1. UNCHANGED <<client, hist>> BY <1>9, SendOutDoes
  <2> QED BY <2>1, BrowserStays DEF hist
<1>10. ASSUME UNCHANGED <<client, hist>> PROVE BrowserInv'
  BY <1>10, BrowserStays DEF hist
<1>11. CASE RmiService
  BY <1>10, <1>11, ReplyNowDoes, DelayReplyDoes, SendDelayedDoes, RegClientDoes, LeaveDoes DEF RmiService
<1>12. CASE HandleRemote
  <2>1. UNCHANGED <<client, fate, answers>> /\ made'.requests = made.requests BY <1>12, HandleRemoteDoes
  <2> QED BY <2>1, BrowserStays
<1>13. ASSUME NEW c \in Links, Break(c) \/ NewMsg(c) \/ LinkClosed(c) PROVE BrowserInv'
  <2>1. UNCHANGED <<client, hist>> BY <1>13, BreakDoes, NewMsgDoes, LinkClosedDoes
  <2> QED BY <2>1, <1>10
<1> QED
  BY BrowserSends, <1>2, <1>3, <1>4, <1>5, <1>6, <1>7, <1>8, <1>9, <1>11, <1>12, <1>13
  DEF RmiNext, Application, Browser, Server, Manager

----------------------------------------
(* RMI: the head of the queue of the service *)

(* The queue of the service is served. *)
LEMMA QuietServed ==
  ASSUME RmiTypes, NEW d \in Links, Quiet(d),
         service.queue # <<>>, Serving = Head(service.queue), service'.queue = Tail(service.queue)
  PROVE  ~Some(service'.queue, Of(d, Posts)) /\ Serving.conn # d
<1>1. service.queue \in Seq(Calls) /\ Calls \subseteq Posts BY Subsets DEF RmiTypes
<1> QED BY <1>1, QueueLoses DEF Quiet

LEMMA QuietPosted ==
  ASSUME RmiTypes, NEW d \in Links, Quiet(d),
         NEW p \in InPosts, p.conn # d, server'.queue = Append(server.queue, p)
  PROVE  ~Some(server'.queue, Of(d, Posts))
<1>1. server.queue \in Seq(InPosts) /\ InPosts \subseteq Posts BY Subsets DEF RmiTypes
<1> QED BY <1>1, QueueGets DEF Quiet

LEMMA HelloNext ==
  ASSUME RmiTypes, LinkInv, HelloInv, AloneInv, BrowserInv, RmiNext
  PROVE  HelloInv'
<1>0. /\ sock \in [Links -> {"none", "up", "down", "told"}] /\ up \in [Links -> Seq(UpMessage)]
      /\ down \in [Links -> Seq(DownMessage)] /\ 0 \notin Links
      /\ server.queue \in Seq(InPosts) /\ service.queue \in Seq(Calls) /\ service.listeners \in Seq(Listener)
      /\ InPosts \subseteq Posts /\ Calls \subseteq InPosts /\ Calls \subseteq Posts /\ Listener \subseteq Posts
  BY WsIs, Subsets DEF RmiTypes
<1>a. /\ \A c \in Links : sock[c] = "none" \/ (c = client.ws /\ ~client.open) => up[c] = <<>> /\ c \notin greeted
      /\ \A c \in Links \ greeted : Quiet(c)
      /\ client.open /\ sock[client.ws] = "up" /\ client.ws \notin greeted => up[client.ws] # <<>>
  BY DEF HelloInv
\* something is sent on the open link
<1>b. ASSUME client.open, sock[client.ws] = "up", client.ws \in Links, NEW ms \in Seq(UpMessage),
             up' = [up EXCEPT ![client.ws] = up[client.ws] \o ms],
             client'.ws = client.ws, client'.open = client.open, UNCHANGED <<sock, greeted, server, service>>,
             \A d \in Links \ greeted : down[d] = <<>> => down'[d] = <<>>
      PROVE  HelloInv'
  <2>1. up[client.ws] \in Seq(UpMessage) BY <1>0, <1>b
  <2>2. /\ up[client.ws] # <<>> => up'[client.ws] # <<>> /\ Head(up'[client.ws]) = Head(up[client.ws])
        /\ \A d \in Links : d # client.ws => up'[d] = up[d]
    BY <1>0, <1>b, <2>1, JoinHas
  <2>3. \A c \in Links : sock'[c] = "none" \/ (c = client'.ws /\ ~client'.open) => up'[c] = <<>> /\ c \notin greeted'
    BY <1>a, <1>b, <2>2
  <2>4. \A c \in Links \ greeted' : Quiet(c)'
    <3> SUFFICES ASSUME NEW c \in Links, c \notin greeted' PROVE Quiet(c)' OBVIOUS
    <3>1. Quiet(c) /\ c \notin greeted BY <1>a, <1>b
    <3>2. up'[c] # <<>> => Head(up'[c]) = Greeting
      <4>1. CASE c = client.ws BY <1>a, <1>b, <2>2, <3>1, <4>1 DEF Quiet
      <4>2. CASE c # client.ws BY <2>2, <3>1, <4>2 DEF Quiet
      <4> QED BY <4>1, <4>2
    <3> QED BY <1>b, <3>1, <3>2 DEF Quiet
  <2>5. client'.open /\ sock'[client'.ws] = "up" /\ client'.ws \notin greeted' => up'[client'.ws] # <<>>
    BY <1>a, <1>b, <2>2
  <2> QED BY <2>3, <2>4, <2>5 DEF HelloInv
<1>c. ASSUME client'.ws = client.ws, client'.open = client.open, UNCHANGED <<sock, up, greeted, server, service>>,
             \A d \in Links \ greeted : down[d] = <<>> => down'[d] = <<>>
      PROVE  HelloInv'
  <2>1. \A d \in Links \ greeted : Quiet(d) => Quiet(d)' BY <1>c DEF Quiet
  <2> QED BY <1>c, <2>1, HelloStays
<1>1. ASSUME NEW r \in Requests, SendRequest(r) PROVE HelloInv'
  <2>1. /\ client'.ws = client.ws /\ client'.open = client.open
        /\ UNCHANGED <<sock, down, greeted, server, service>>
        /\ \/ up' = up
           \/ /\ ~client.active /\ client.ws # 0 /\ sock[client.ws] = "up"
              /\ up' = [up EXCEPT ![client.ws] = up[client.ws] \o <<Request(r)>>]
    BY <1>1, SendRequestDoes
  <2>2. <<Request(r)>> \in Seq(UpMessage) BY MessageIs
  <2>3. ~client.active /\ client.ws # 0 => client.open /\ client.ws \in Links BY WsIs DEF BrowserInv
  <2>4. CASE up' = up BY <1>c, <2>1, <2>4
  <2>5. CASE up' # up BY <1>b, <2>1, <2>2, <2>3, <2>5
  <2> QED BY <2>4, <2>5
<1>2. CASE Register \/ Unregister
  <2>1. PICK m \in AsyncType : SendAsync(m) BY <1>2, AsyncDoes
  <2>2. /\ client'.ws = client.ws /\ client'.open = client.open /\ client.ws \in Links
        /\ UNCHANGED <<sock, down, greeted, server, service>>
        /\ \/ up' = up
           \/ client.open /\ sock[client.ws] = "up" /\ up' = [up EXCEPT ![client.ws] = up[client.ws] \o <<m>>]
    BY <2>1, SendAsyncDoes
  <2>3. <<m>> \in Seq(UpMessage)
    <3>1. m \in UpMessage BY DEF UpMessage, AsyncType
    <3> QED BY <3>1
  <2>4. CASE up' = up BY <1>c, <2>2, <2>4
  <2>5. CASE up' # up BY <1>b, <2>2, <2>3, <2>5
  <2> QED BY <2>4, <2>5
<1>3. CASE Start
  <2>1. /\ client'.ws \in Links /\ sock[client'.ws] = "none" /\ client'.open = FALSE
        /\ sock' = [sock EXCEPT ![client'.ws] = "up"]
        /\ UNCHANGED <<up, down, greeted, server, service>>
    BY <1>3, StartDoes
  <2>2. \A d \in Links \ greeted' : Quiet(d)' BY <1>a, <2>1 DEF Quiet
  <2>3. \A c \in Links : sock'[c] = "none" \/ (c = client'.ws /\ ~client'.open) => up'[c] = <<>> /\ c \notin greeted'
    BY <1>0, <1>a, <2>1
  <2> QED BY <2>1, <2>2, <2>3 DEF HelloInv
<1>4. CASE WsOpen
  <2>1. /\ client.ws \in Links /\ client.open = FALSE /\ sock[client.ws] = "up"
        /\ client'.ws = client.ws /\ client'.open = TRUE
        /\ up' = [up EXCEPT ![client.ws] = up[client.ws] \o (<<Greeting>> \o client.async \o NextRequest)]
        /\ UNCHANGED <<sock, down, greeted, server, service>>
    BY <1>4, WsOpenDoes
  <2>2. up[client.ws] = <<>> /\ client.ws \notin greeted BY <1>a, <2>1
  <2>3. client.async \in Seq(UpMessage)
    <3>1. AsyncType \subseteq UpMessage BY DEF AsyncType, UpMessage
    <3>2. client.async \in Seq(AsyncType) BY WsIs
    <3> QED BY <3>1, <3>2, SeqGrows
  <2>4. <<Greeting>> \in Seq(UpMessage) /\ <<Greeting>> # <<>> /\ Head(<<Greeting>>) = Greeting BY MessageIs
  <2> DEFINE t == <<Greeting>> \o client.async
             u == t \o NextRequest
  <2>5. t \in Seq(UpMessage) /\ t # <<>> /\ Head(t) = Greeting
    <3> HIDE DEF t
    <3>1. t = <<Greeting>> \o client.async BY DEF t
    <3> QED BY <2>3, <2>4, <3>1, JoinHas
  <2>6. u \in Seq(UpMessage) /\ u # <<>> /\ Head(u) = Greeting
    <3> HIDE DEF t
    <3>1. NextRequest \in Seq(UpMessage) BY NextTypes
    <3> QED BY <2>5, <3>1, JoinHas
  <2>7. <<Greeting>> \o client.async \o NextRequest = u OBVIOUS
  <2> HIDE DEF t, u
  <2>8. <<>> \o u = u BY <2>6, ConcatEmptySeq
  <2>9. up'[client.ws] = u /\ \A d \in Links : d # client.ws => up'[d] = up[d]
    BY <1>0, <2>1, <2>2, <2>7, <2>8
  <2>10. \A d \in Links \ greeted' : Quiet(d)'
    <3> SUFFICES ASSUME NEW d \in Links, d \notin greeted' PROVE Quiet(d)' OBVIOUS
    <3>1. Quiet(d) BY <1>a, <2>1
    <3>2. up'[d] # <<>> => Head(up'[d]) = Greeting BY <2>6, <2>9, <3>1 DEF Quiet
    <3> QED BY <2>1, <3>1, <3>2 DEF Quiet
  <2>11. \A c \in Links : sock'[c] = "none" \/ (c = client'.ws /\ ~client'.open) => up'[c] = <<>> /\ c \notin greeted'
    BY <1>a, <2>1, <2>9
  <2> QED BY <2>1, <2>6, <2>9, <2>10, <2>11 DEF HelloInv
\* a message from the server has come: the link has said hello
<1>d. ASSUME client.ws \in Links, down[client.ws] # <<>>  PROVE client.open /\ client.ws \in greeted
  BY <1>a, <1>d DEF Quiet
<1>5. CASE NewReply
  <2>1. /\ client.ws \in Links /\ down[client.ws] # <<>>
        /\ down' = [down EXCEPT ![client.ws] = Tail(down[client.ws])]
        /\ client'.ws = client.ws /\ client'.open = client.open
        /\ up' = IF sock[client.ws] = "up" THEN [up EXCEPT ![client.ws] = up[client.ws] \o NextRequest] ELSE up
        /\ UNCHANGED <<sock, greeted, server, service>>
    BY <1>5, NewReplyDoes
  <2>2. client.open /\ client.ws \in greeted BY <1>d, <2>1
  <2>3. \A d \in Links \ greeted : down'[d] = down[d] BY <1>0, <2>1, <2>2
  <2>4. NextRequest \in Seq(UpMessage) BY NextTypes
  <2>5. CASE sock[client.ws] = "up" BY <1>b, <2>1, <2>2, <2>3, <2>4, <2>5
  <2>6. CASE sock[client.ws] # "up" BY <1>c, <2>1, <2>3, <2>6
  <2> QED BY <2>5, <2>6
<1>6. CASE NewSignal
  <2>1. /\ client.ws \in Links /\ down[client.ws] # <<>>
        /\ down' = [down EXCEPT ![client.ws] = Tail(down[client.ws])]
        /\ client'.ws = client.ws /\ client'.open = client.open
        /\ UNCHANGED <<up, sock, greeted, server, service>>
    BY <1>6, NewSignalDoes
  <2>2. client.ws \in greeted BY <1>d, <2>1
  <2>3. \A d \in Links \ greeted : down'[d] = down[d] BY <1>0, <2>1, <2>2
  <2> QED BY <1>c, <2>1, <2>3
<1>7. CASE WsClose
  <2>1. client'.ws = 0 /\ client'.open = FALSE /\ UNCHANGED <<sock, up, down, greeted, server, service>>
    BY <1>7, WsCloseDoes DEF wires
  <2>2. \A d \in Links \ greeted' : Quiet(d)' BY <1>a, <2>1 DEF Quiet
  <2> QED BY <1>0, <1>a, <2>1, <2>2 DEF HelloInv
<1>8. CASE HandleCall
  <2> DEFINE e == Head(server.queue)
  <2>1. /\ server.queue # <<>> /\ e \in Calls
        /\ server'.queue = Tail(server.queue)
        /\ server'.active = server.active \/ server'.active = server.active \cup {e.conn}
        /\ service'.queue = Append(service.queue, e)
        /\ service'.listeners = service.listeners /\ service'.delayed = service.delayed
        /\ UNCHANGED <<client, sock, up, down, greeted>>
    BY <1>8, HandleCallDoes
  <2>2. ASSUME NEW d \in Links \ greeted, Quiet(d) PROVE Quiet(d)'
    <3>1. Some(server.queue, Of(d, Posts)) <=> Some(Tail(server.queue), Of(d, Posts)) \/ e.conn = d
      BY <1>0, <2>1, QueueLoses
    <3>2. Some(Append(service.queue, e), Of(d, Posts)) <=> Some(service.queue, Of(d, Posts)) \/ e.conn = d
      <4>1. service.queue \in Seq(Calls) /\ Calls \subseteq Posts /\ e \in Calls BY <1>0, <2>1
      <4> HIDE DEF e
      <4> QED BY <4>1, QueueGets
    <3> HIDE DEF e
    <3> QED BY <2>1, <2>2, <3>1, <3>2 DEF Quiet
  <2> QED BY <2>1, <2>2, HelloStays
<1>9. CASE SendOut
  <2> DEFINE e == Head(server.queue)
  <2>1. /\ server.queue # <<>> /\ e.conn \in Links
        /\ server'.queue = Tail(server.queue) /\ server'.active = server.active \ {e.conn}
        /\ down' = IF sock[e.conn] = "up" THEN [down EXCEPT ![e.conn] = Append(down[e.conn], e.msg)] ELSE down
        /\ UNCHANGED <<client, sock, up, greeted, service>>
    BY <1>9, SendOutDoes
  <2>2. ASSUME NEW d \in Links \ greeted, Quiet(d) PROVE Quiet(d)'
    <3>1. Some(server.queue, Of(d, Posts)) <=> Some(Tail(server.queue), Of(d, Posts)) \/ e.conn = d
      <4>1. server.queue \in Seq(InPosts) /\ InPosts \subseteq Posts /\ server.queue # <<>> BY <1>0, <2>1
      <4> QED BY <4>1, QueueLoses
    <3> HIDE DEF e
    <3>2. d # e.conn BY <2>2, <3>1 DEF Quiet
    <3>3. down'[d] = down[d] BY <1>0, <2>1, <3>2
    <3> QED BY <2>1, <2>2, <3>1, <3>3 DEF Quiet
  <2> QED BY <2>1, <2>2, HelloStays
<1>10. CASE ReplyNow
  <2>1. PICK p \in InPosts :
           /\ service.queue # <<>> /\ Serving = Head(service.queue) /\ p.conn = Serving.conn
           /\ service'.queue = Tail(service.queue)
           /\ service'.listeners = service.listeners /\ service'.delayed = service.delayed
           /\ server'.queue = Append(server.queue, p) /\ server'.active = server.active
           /\ UNCHANGED <<client, wires>>
    BY <1>10, ReplyNowDoes
  <2>2. ASSUME NEW d \in Links \ greeted, Quiet(d) PROVE Quiet(d)'
    BY <2>1, <2>2, QuietServed, QuietPosted DEF Quiet, wires
  <2> QED BY <2>1, <2>2, HelloStays DEF wires
<1>11. CASE DelayReply
  <2>1. /\ service.queue # <<>> /\ Serving = Head(service.queue) /\ Serving.conn \in Links
        /\ service'.queue = Tail(service.queue) /\ service'.listeners = service.listeners
        /\ service'.delayed = service.delayed \cup {Serving}
        /\ UNCHANGED <<client, wires, server>>
    BY <1>11, DelayReplyDoes
  <2>2. ASSUME NEW d \in Links \ greeted, Quiet(d) PROVE Quiet(d)'
    BY <2>1, <2>2, QuietServed DEF Quiet, wires
  <2> QED BY <2>1, <2>2, HelloStays DEF wires
<1>12. CASE SendDelayed
  <2>1. PICK e \in service.delayed : \E p \in InPosts :
           /\ service'.queue = service.queue /\ service'.listeners = service.listeners
           /\ service'.delayed = service.delayed \ {e} /\ p.conn = e.conn
           /\ server'.queue = Append(server.queue, p) /\ server'.active = server.active
           /\ UNCHANGED <<client, wires>>
    BY <1>12, SendDelayedDoes
  <2>2. ASSUME NEW d \in Links \ greeted, Quiet(d) PROVE Quiet(d)'
    <3>1. e.conn # d BY <2>2 DEF Quiet
    <3> QED BY <2>1, <2>2, <3>1, QuietPosted DEF Quiet, wires
  <2> QED BY <2>1, <2>2, HelloStays DEF wires
<1>13. CASE RegClient
  <2>1. /\ service.queue # <<>> /\ Serving = Head(service.queue) /\ Serving \in Listener
        /\ service'.queue = Tail(service.queue) /\ service'.listeners = Append(service.listeners, Serving)
        /\ service'.delayed = service.delayed
        /\ UNCHANGED <<client, wires, server>>
    BY <1>13, RegClientDoes
  <2>2. ASSUME NEW d \in Links \ greeted, Quiet(d) PROVE Quiet(d)'
    <3>1. ~Some(service'.queue, Of(d, Posts)) /\ Serving.conn # d BY <2>1, <2>2, QuietServed
    <3>2. Some(Append(service.listeners, Serving), Of(d, Posts)) <=> Some(service.listeners, Of(d, Posts)) \/ Serving.conn = d
      <4>1. service.listeners \in Seq(Listener) /\ Listener \subseteq Posts /\ Serving \in Listener
        BY <1>0, <2>1
      <4> QED BY <4>1, QueueGets
    <3> QED BY <2>1, <2>2, <3>1, <3>2 DEF Quiet, wires
  <2> QED BY <2>1, <2>2, HelloStays DEF wires
<1>14. CASE UnregClient \/ ConnectionClosed
  <2>1. /\ service.queue # <<>> /\ Serving = Head(service.queue)
        /\ service'.queue = Tail(service.queue) /\ service'.delayed = service.delayed
        /\ \A P : Some(service'.listeners, P) => Some(service.listeners, P)
        /\ UNCHANGED <<client, wires, server>>
    BY <1>14, LeaveDoes
  <2>2. ASSUME NEW d \in Links \ greeted, Quiet(d) PROVE Quiet(d)'
    BY <2>1, <2>2, QuietServed DEF Quiet, wires
  <2> QED BY <2>1, <2>2, HelloStays DEF wires
<1>15. CASE HandleRemote
  <2>1. PICK t \in Seq(InPosts) :
          /\ \A d \in Links : Some(t, Of(d, Posts)) => Some(service.listeners, Of(d, Posts))
          /\ server'.queue = server.queue \o t /\ server'.active = server.active
          /\ UNCHANGED <<client, wires, service>>
    BY <1>15, HandleRemoteDoes
  <2>2. ASSUME NEW d \in Links \ greeted, Quiet(d) PROVE Quiet(d)'
    <3>1. ~Some(t, Of(d, Posts)) /\ ~Some(server.queue, Of(d, Posts)) BY <2>1, <2>2 DEF Quiet
    <3>2. ~Some(server'.queue, Of(d, Posts)) BY <1>0, <2>1, <3>1, JoinHas
    <3> QED BY <2>1, <2>2, <3>2 DEF Quiet, wires
  <2> QED BY <2>1, <2>2, HelloStays DEF wires
<1>16. ASSUME NEW c \in Links, Break(c) PROVE HelloInv'
  <2>1. /\ sock[c] = "up" /\ sock' = [sock EXCEPT ![c] = "down"]
        /\ \A d \in Links : d # c => up'[d] = up[d] /\ down'[d] = down[d]
        /\ up'[c] # <<>> => up[c] # <<>> /\ Head(up'[c]) = Head(up[c])
        /\ down[c] = <<>> => down'[c] = <<>>
        /\ UNCHANGED <<client, greeted, server, service>>
    BY <1>16, BreakDoes
  <2>2. \A d \in Links \ greeted' : Quiet(d)'
    <3> SUFFICES ASSUME NEW d \in Links, d \notin greeted' PROVE Quiet(d)' OBVIOUS
    <3>1. Quiet(d) BY <1>a, <2>1
    <3> QED BY <2>1, <3>1 DEF Quiet
  <2>3. \A d \in Links : sock'[d] = "none" \/ (d = client'.ws /\ ~client'.open) => up'[d] = <<>> /\ d \notin greeted'
    BY <1>0, <1>a, <2>1
  <2>4. client'.open /\ sock'[client'.ws] = "up" /\ client'.ws \notin greeted' => up'[client'.ws] # <<>>
    <3>1. client.ws # 0 <=> client.ws \in Links BY WsIs
    <3>2. client.open => client.ws # 0 BY DEF LinkInv
    <3>3. client.open /\ sock'[client.ws] = "up" => client.ws # c /\ sock[client.ws] = "up"
      BY <1>0, <2>1, <3>1, <3>2
    <3> QED BY <1>a, <2>1, <3>1, <3>2, <3>3
  <2> QED BY <2>2, <2>3, <2>4 DEF HelloInv
<1>17. ASSUME NEW c \in Links, NewMsg(c) PROVE HelloInv'
  <2> DEFINE m == Head(up[c])
  <2>1. /\ up[c] # <<>> /\ (\A d \in Links : d # c => up'[d] = up[d])
        /\ m.op = "hello" => m = Greeting /\ greeted' = greeted \cup {c} /\ UNCHANGED server
        /\ m.op # "hello" => /\ m # Greeting
                             /\ At(c, m) \in Calls /\ At(c, m).conn = c
                             /\ server'.queue = Append(server.queue, At(c, m))
                             /\ server'.active = server.active /\ UNCHANGED greeted
        /\ UNCHANGED <<client, sock, down, service>>
    BY <1>0, <1>17, NewMsgDoes
  <2>2. m.op # "hello" => c \in greeted BY <1>a, <2>1 DEF Quiet
  <2> DEFINE p == At(c, m)
  <2>3. /\ c \in greeted' /\ greeted \subseteq greeted' /\ (\A d \in Links : d # c /\ d \in greeted' => d \in greeted)
        /\ UNCHANGED server \/ (p \in Calls /\ p.conn = c /\ server'.queue = Append(server.queue, p) /\ server'.active = server.active)
    BY <2>1, <2>2
  <2> HIDE DEF p, m
  <2>4. \A d \in Links \ greeted' : Quiet(d)'
    <3> SUFFICES ASSUME NEW d \in Links, d \notin greeted' PROVE Quiet(d)' OBVIOUS
    <3>1. Quiet(d) /\ d # c BY <1>a, <2>3
    <3>2. ~Some(server'.queue, Of(d, Posts)) /\ server'.active = server.active
      <4>1. CASE UNCHANGED server BY <3>1, <4>1 DEF Quiet
      <4>2. CASE ~UNCHANGED server BY <1>0, <2>3, <3>1, <4>2, QuietPosted
      <4> QED BY <4>1, <4>2
    <3> QED BY <2>1, <3>1, <3>2 DEF Quiet
  <2>5. \A d \in Links : sock'[d] = "none" \/ (d = client'.ws /\ ~client'.open) => up'[d] = <<>> /\ d \notin greeted'
    BY <1>a, <2>1, <2>3
  <2>6. client'.open /\ sock'[client'.ws] = "up" /\ client'.ws \notin greeted' => up'[client'.ws] # <<>>
    <3>1. client.ws # 0 <=> client.ws \in Links BY WsIs
    <3>2. client.open => client.ws # 0 BY DEF LinkInv
    <3> QED BY <1>a, <2>1, <2>3, <3>1, <3>2
  <2> QED BY <2>4, <2>5, <2>6 DEF HelloInv
<1>18. ASSUME NEW c \in Links, LinkClosed(c) PROVE HelloInv'
  <2> DEFINE p == At(c, Gone)
  <2>1. /\ sock[c] = "down" /\ up[c] = <<>> /\ sock' = [sock EXCEPT ![c] = "told"]
        /\ p \in Calls /\ p.conn = c
        /\ server'.active = server.active
        /\ c \in greeted => server'.queue = Append(server.queue, p)
        /\ c \notin greeted => server'.queue = server.queue
        /\ UNCHANGED <<client, up, down, greeted, service>>
    BY <1>18, LinkClosedDoes
  <2> HIDE DEF p
  <2>2. \A d \in Links \ greeted' : Quiet(d)'
    <3> SUFFICES ASSUME NEW d \in Links, d \notin greeted' PROVE Quiet(d)' OBVIOUS
    <3>1. Quiet(d) /\ d \notin greeted BY <1>a, <2>1
    <3>2. ~Some(server'.queue, Of(d, Posts))
      <4>1. CASE c \in greeted BY <1>0, <2>1, <3>1, <4>1, QuietPosted
      <4>2. CASE c \notin greeted BY <2>1, <3>1, <4>2 DEF Quiet
      <4> QED BY <4>1, <4>2
    <3> QED BY <2>1, <3>1, <3>2 DEF Quiet
  <2>3. \A d \in Links : sock'[d] = "none" \/ (d = client'.ws /\ ~client'.open) => up'[d] = <<>> /\ d \notin greeted'
    BY <1>0, <1>a, <2>1
  <2>4. client'.open /\ sock'[client'.ws] = "up" /\ client'.ws \notin greeted' => up'[client'.ws] # <<>>
    <3>1. client.ws # 0 <=> client.ws \in Links BY WsIs
    <3>2. client.open => client.ws # 0 BY DEF LinkInv
    <3> QED BY <1>0, <1>a, <2>1, <3>1, <3>2
  <2> QED BY <2>2, <2>3, <2>4 DEF HelloInv
<1> QED
  BY <1>1, <1>2, <1>3, <1>4, <1>5, <1>6, <1>7, <1>8, <1>9, <1>10, <1>11, <1>12, <1>13, <1>14, <1>15, <1>16, <1>17, <1>18
  DEF RmiNext, Application, Browser, Server, RmiService, Manager

----------------------------------------
(* RMI: what becomes of the requests and replies at a place *)

(* A step leaves the requests and replies of d at p, takes some, takes the *)
(* one that is there, puts one there; and nothing of d is gained or lost. *)
Kept(p, d)    == /\ \A N : Lies(p, d, N)' <=> Lies(p, d, N)
                 /\ Alone(p, d) => Alone(p, d)'
Shrunk(p, d)  == /\ \A N : Lies(p, d, N)' => Lies(p, d, N)
                 /\ Alone(p, d) => Alone(p, d)'
Lost(p, d, n) == /\ \A N : (Lies(p, d, N) <=> n \in N) /\ ~Lies(p, d, N)'
                 /\ Alone(p, d)'
Got(p, d, n)  == ~Lies(p, d, Nat) => /\ \A N : Lies(p, d, N)' <=> n \in N
                                     /\ Alone(p, d) => Alone(p, d)'
Carried(d) == /\ \A n \in Nat : OnWay(d, {n})' => OnWay(d, {n})
              /\ sock'[d] = "up" /\ OnWay(d, Nat) => OnWay(d, Nat)'

LEMMA Widens ==
  /\ \A s, N, d : /\ Some(s, Asks(N)) => Some(s, Asks(Nat))
                  /\ Some(s, Replies(N)) => Some(s, Replies(Nat))
                  /\ Some(s, AsksOf(d, N)) => Some(s, AsksOf(d, Nat))
                  /\ Some(s, RepliesOf(d, N)) => Some(s, RepliesOf(d, Nat))
  /\ \A N, d : AsksOf(d, N) \subseteq AsksOf(d, Nat)
<1>1. \A m \in UpMessage \cup DownMessage \cup {Gone} : m.no \in Nat BY MessageIs
<1>2. \A e \in Posts : e.msg.no \in Nat BY <1>1, Subsets
<1>3. \A N, d : /\ Asks(N) \subseteq Asks(Nat) /\ Replies(N) \subseteq Replies(Nat)
                /\ AsksOf(d, N) \subseteq AsksOf(d, Nat) /\ RepliesOf(d, N) \subseteq RepliesOf(d, Nat)
  BY <1>1, <1>2 DEF Asks, Replies, AsksOf, RepliesOf
<1>4. \A s, P, Q : P \subseteq Q /\ Some(s, P) => Some(s, Q) BY DEF Some
<1> QED BY <1>3, <1>4

LEMMA LiesWidens == ASSUME NEW p \in Places, NEW d, NEW N, Lies(p, d, N)  PROVE Lies(p, d, Nat)
BY Widens DEF Lies, Places

LEMMA SamePlace ==
  ASSUME NEW d \in Links
  PROVE  /\ up'[d] = up[d] => Kept("up", d)
         /\ server'.queue = server.queue => Kept("server", d) /\ Kept("reply", d)
         /\ service'.queue = service.queue => Kept("service", d)
         /\ service'.delayed = service.delayed => Kept("delayed", d)
         /\ down'[d] = down[d] => Kept("down", d)
<1>1. up'[d] = up[d] => Kept("up", d) BY DEF Kept, Lies, Alone
<1>2. server'.queue = server.queue => Kept("server", d) /\ Kept("reply", d) BY DEF Kept, Lies, Alone
<1>3. service'.queue = service.queue => Kept("service", d) BY DEF Kept, Lies, Alone
<1>4. service'.delayed = service.delayed => Kept("delayed", d) BY DEF Kept, Lies, Alone
<1>5. down'[d] = down[d] => Kept("down", d) BY DEF Kept, Lies, Alone
<1> QED BY <1>1, <1>2, <1>3, <1>4, <1>5

LEMMA ServerGets ==
  ASSUME RmiTypes, NEW d \in Links, NEW e \in InPosts, server'.queue = Append(server.queue, e)
  PROVE  /\ ~(e.conn = d /\ e.msg.op = "request") => Kept("server", d)
         /\ ~(e.conn = d /\ e.msg.op = "reply") => Kept("reply", d)
         /\ e.conn = d /\ e.msg.op = "request" => Got("server", d, e.msg.no)
         /\ e.conn = d /\ e.msg.op = "reply" => Got("reply", d, e.msg.no)
<1>1. server.queue \in Seq(InPosts) /\ InPosts \subseteq Posts BY Subsets DEF RmiTypes
<1>2. /\ \A N : Some(server'.queue, AsksOf(d, N)) <=>
                  Some(server.queue, AsksOf(d, N)) \/ (e.conn = d /\ e.msg.op = "request" /\ e.msg.no \in N)
      /\ \A N : Some(server'.queue, RepliesOf(d, N)) <=>
                  Some(server.queue, RepliesOf(d, N)) \/ (e.conn = d /\ e.msg.op = "reply" /\ e.msg.no \in N)
      /\ Once(server.queue, AsksOf(d, Nat)) /\ (e.conn = d /\ e.msg.op = "request" => ~Some(server.queue, AsksOf(d, Nat))) =>
           Once(server'.queue, AsksOf(d, Nat))
      /\ Once(server.queue, RepliesOf(d, Nat)) /\ (e.conn = d /\ e.msg.op = "reply" => ~Some(server.queue, RepliesOf(d, Nat))) =>
           Once(server'.queue, RepliesOf(d, Nat))
  <2>1. /\ \A N : Some(Append(server.queue, e), AsksOf(d, N)) <=>
                    Some(server.queue, AsksOf(d, N)) \/ (e.conn = d /\ e.msg.op = "request" /\ e.msg.no \in N)
        /\ \A N : Some(Append(server.queue, e), RepliesOf(d, N)) <=>
                    Some(server.queue, RepliesOf(d, N)) \/ (e.conn = d /\ e.msg.op = "reply" /\ e.msg.no \in N)
        /\ Once(server.queue, AsksOf(d, Nat)) /\ (e.conn = d /\ e.msg.op = "request" => ~Some(server.queue, AsksOf(d, Nat))) =>
             Once(Append(server.queue, e), AsksOf(d, Nat))
        /\ Once(server.queue, RepliesOf(d, Nat)) /\ (e.conn = d /\ e.msg.op = "reply" => ~Some(server.queue, RepliesOf(d, Nat))) =>
             Once(Append(server.queue, e), RepliesOf(d, Nat))
    BY <1>1, QueueGets
  <2> QED BY <2>1
<1>3. ~(e.conn = d /\ e.msg.op = "request") => Kept("server", d) BY <1>2 DEF Kept, Lies, Alone
<1>4. ~(e.conn = d /\ e.msg.op = "reply") => Kept("reply", d) BY <1>2 DEF Kept, Lies, Alone
<1>5. e.conn = d /\ e.msg.op = "request" => Got("server", d, e.msg.no) BY <1>2, Widens DEF Got, Lies, Alone
<1>6. e.conn = d /\ e.msg.op = "reply" => Got("reply", d, e.msg.no) BY <1>2, Widens DEF Got, Lies, Alone
<1> QED BY <1>3, <1>4, <1>5, <1>6

LEMMA ServerLoses ==
  ASSUME RmiTypes, NEW d \in Links, Alone("server", d), Alone("reply", d), server.queue # <<>>, NEW e, e = Head(server.queue),
         server'.queue = Tail(server.queue)
  PROVE  /\ ~(e.conn = d /\ e.msg.op = "request") => Kept("server", d)
         /\ ~(e.conn = d /\ e.msg.op = "reply") => Kept("reply", d)
         /\ e.conn = d /\ e.msg.op = "request" => Lost("server", d, e.msg.no)
         /\ e.conn = d /\ e.msg.op = "reply" => Lost("reply", d, e.msg.no)
<1>1. server.queue \in Seq(InPosts) /\ InPosts \subseteq Posts BY Subsets DEF RmiTypes
<1>2. /\ \A N : Some(server.queue, AsksOf(d, N)) <=>
                  Some(server'.queue, AsksOf(d, N)) \/ (e.conn = d /\ e.msg.op = "request" /\ e.msg.no \in N)
      /\ \A N : Some(server.queue, RepliesOf(d, N)) <=>
                  Some(server'.queue, RepliesOf(d, N)) \/ (e.conn = d /\ e.msg.op = "reply" /\ e.msg.no \in N)
      /\ Once(server.queue, AsksOf(d, Nat)) =>
            /\ Once(server'.queue, AsksOf(d, Nat))
            /\ e.conn = d /\ e.msg.op = "request" => ~Some(server'.queue, AsksOf(d, Nat))
      /\ Once(server.queue, RepliesOf(d, Nat)) =>
            /\ Once(server'.queue, RepliesOf(d, Nat))
            /\ e.conn = d /\ e.msg.op = "reply" => ~Some(server'.queue, RepliesOf(d, Nat))
  <2>1. server.queue # <<>> OBVIOUS
  <2>2. \A N : Some(server.queue, AsksOf(d, N)) <=>
               Some(Tail(server.queue), AsksOf(d, N)) \/ (Head(server.queue).conn = d /\ Head(server.queue).msg.op = "request" /\ Head(server.queue).msg.no \in N)
    BY ONLY <1>1, <2>1, QueueLoses
  <2>3. \A N : Some(server.queue, RepliesOf(d, N)) <=>
               Some(Tail(server.queue), RepliesOf(d, N)) \/ (Head(server.queue).conn = d /\ Head(server.queue).msg.op = "reply" /\ Head(server.queue).msg.no \in N)
    BY ONLY <1>1, <2>1, QueueLoses
  <2>4. Once(server.queue, AsksOf(d, Nat)) =>
          /\ Once(Tail(server.queue), AsksOf(d, Nat))
          /\ Head(server.queue).conn = d /\ Head(server.queue).msg.op = "request" =>
               ~Some(Tail(server.queue), AsksOf(d, Nat))
    BY ONLY <1>1, <2>1, QueueLoses
  <2>5. Once(server.queue, RepliesOf(d, Nat)) =>
          /\ Once(Tail(server.queue), RepliesOf(d, Nat))
          /\ Head(server.queue).conn = d /\ Head(server.queue).msg.op = "reply" =>
               ~Some(Tail(server.queue), RepliesOf(d, Nat))
    BY ONLY <1>1, <2>1, QueueLoses
  <2> QED BY <2>2, <2>3, <2>4, <2>5
<1>3. ~(e.conn = d /\ e.msg.op = "request") => Kept("server", d) BY <1>2 DEF Kept, Lies, Alone
<1>4. ~(e.conn = d /\ e.msg.op = "reply") => Kept("reply", d) BY <1>2 DEF Kept, Lies, Alone
<1>5. e.conn = d /\ e.msg.op = "request" => Lost("server", d, e.msg.no) BY <1>2, Widens DEF Lost, Lies, Alone
<1>6. e.conn = d /\ e.msg.op = "reply" => Lost("reply", d, e.msg.no) BY <1>2, Widens DEF Lost, Lies, Alone
<1> QED BY <1>3, <1>4, <1>5, <1>6

LEMMA ServiceGets ==
  ASSUME RmiTypes, NEW d \in Links, NEW e \in Calls, service'.queue = Append(service.queue, e)
  PROVE  /\ ~(e.conn = d /\ e.msg.op = "request") => Kept("service", d)
         /\ e.conn = d /\ e.msg.op = "request" => Got("service", d, e.msg.no)
<1>1. service.queue \in Seq(Calls) /\ Calls \subseteq Posts BY Subsets DEF RmiTypes
<1>2. /\ \A N : Some(service'.queue, AsksOf(d, N)) <=>
                  Some(service.queue, AsksOf(d, N)) \/ (e.conn = d /\ e.msg.op = "request" /\ e.msg.no \in N)
      /\ Once(service.queue, AsksOf(d, Nat)) /\ (e.conn = d /\ e.msg.op = "request" => ~Some(service.queue, AsksOf(d, Nat))) =>
           Once(service'.queue, AsksOf(d, Nat))
  <2>1. /\ \A N : Some(Append(service.queue, e), AsksOf(d, N)) <=>
                    Some(service.queue, AsksOf(d, N)) \/ (e.conn = d /\ e.msg.op = "request" /\ e.msg.no \in N)
        /\ Once(service.queue, AsksOf(d, Nat)) /\ (e.conn = d /\ e.msg.op = "request" => ~Some(service.queue, AsksOf(d, Nat))) =>
             Once(Append(service.queue, e), AsksOf(d, Nat))
    BY <1>1, QueueGets
  <2> QED BY <2>1
<1>3. ~(e.conn = d /\ e.msg.op = "request") => Kept("service", d) BY <1>2 DEF Kept, Lies, Alone
<1>5. e.conn = d /\ e.msg.op = "request" => Got("service", d, e.msg.no) BY <1>2, Widens DEF Got, Lies, Alone
<1> QED BY <1>3, <1>5

LEMMA ServiceLoses ==
  ASSUME RmiTypes, NEW d \in Links, Alone("service", d), service.queue # <<>>, NEW e, e = Head(service.queue),
         service'.queue = Tail(service.queue)
  PROVE  /\ ~(e.conn = d /\ e.msg.op = "request") => Kept("service", d)
         /\ e.conn = d /\ e.msg.op = "request" => Lost("service", d, e.msg.no)
<1>1. service.queue \in Seq(Calls) /\ Calls \subseteq Posts BY Subsets DEF RmiTypes
<1>2. /\ \A N : Some(service.queue, AsksOf(d, N)) <=>
                  Some(service'.queue, AsksOf(d, N)) \/ (e.conn = d /\ e.msg.op = "request" /\ e.msg.no \in N)
      /\ Once(service.queue, AsksOf(d, Nat)) =>
            /\ Once(service'.queue, AsksOf(d, Nat))
            /\ e.conn = d /\ e.msg.op = "request" => ~Some(service'.queue, AsksOf(d, Nat))
  <2>1. service.queue # <<>> OBVIOUS
  <2>2. \A N : Some(service.queue, AsksOf(d, N)) <=>
               Some(Tail(service.queue), AsksOf(d, N)) \/ (Head(service.queue).conn = d /\ Head(service.queue).msg.op = "request" /\ Head(service.queue).msg.no \in N)
    BY ONLY <1>1, <2>1, QueueLoses
  <2>4. Once(service.queue, AsksOf(d, Nat)) =>
          /\ Once(Tail(service.queue), AsksOf(d, Nat))
          /\ Head(service.queue).conn = d /\ Head(service.queue).msg.op = "request" =>
               ~Some(Tail(service.queue), AsksOf(d, Nat))
    BY ONLY <1>1, <2>1, QueueLoses
  <2> QED BY <2>2, <2>4
<1>3. ~(e.conn = d /\ e.msg.op = "request") => Kept("service", d) BY <1>2 DEF Kept, Lies, Alone
<1>5. e.conn = d /\ e.msg.op = "request" => Lost("service", d, e.msg.no) BY <1>2, Widens DEF Lost, Lies, Alone
<1> QED BY <1>3, <1>5

LEMMA DelayedGets ==
  ASSUME RmiTypes, NEW d \in Links, NEW e \in Calls, e.msg.op = "request", service'.delayed = service.delayed \cup {e}
  PROVE  /\ e.conn # d => Kept("delayed", d)
         /\ e.conn = d => Got("delayed", d, e.msg.no)
<1>1. e \in Posts /\ e.msg.no \in Nat /\ service.delayed \subseteq Posts /\ \A x \in service.delayed : x.msg.op = "request" /\ x.msg.no \in Nat
  BY Subsets, MessageIs DEF RmiTypes, Delayed
<1>2. \A N : \A x \in Posts : x \in AsksOf(d, N) <=> x.conn = d /\ x.msg.op = "request" /\ x.msg.no \in N
  BY DEF AsksOf
<1>3. \A N : service'.delayed \cap AsksOf(d, N) # {} <=>
               service.delayed \cap AsksOf(d, N) # {} \/ (e.conn = d /\ e.msg.no \in N)
  BY <1>1, <1>2
<1>4. ~(service.delayed \cap AsksOf(d, Nat) # {}) => \A x \in service.delayed : x.conn # d
  BY <1>1, <1>2
<1>5. e.conn # d => Kept("delayed", d) BY <1>3 DEF Kept, Lies, Alone
<1>6. e.conn = d => Got("delayed", d, e.msg.no) BY <1>3, <1>4, Widens DEF Got, Lies, Alone
<1> QED BY <1>5, <1>6

LEMMA DelayedLoses ==
  ASSUME RmiTypes, NEW d \in Links, Alone("delayed", d), NEW e \in service.delayed, service'.delayed = service.delayed \ {e}
  PROVE  /\ e.conn # d => Kept("delayed", d)
         /\ e.conn = d => Lost("delayed", d, e.msg.no)
<1>1. service.delayed \subseteq Posts /\ \A x \in service.delayed : x.msg.op = "request" /\ x.msg.no \in Nat
  BY Subsets, MessageIs DEF RmiTypes, Delayed
<1>2. \A N : \A x \in Posts : x \in AsksOf(d, N) <=> x.conn = d /\ x.msg.op = "request" /\ x.msg.no \in N
  BY DEF AsksOf
<1>3. e.conn # d => Kept("delayed", d)
  <2> SUFFICES ASSUME e.conn # d PROVE Kept("delayed", d) OBVIOUS
  <2>1. \A N : service'.delayed \cap AsksOf(d, N) # {} <=> service.delayed \cap AsksOf(d, N) # {}
    BY <1>1, <1>2
  <2> QED BY <2>1 DEF Kept, Lies, Alone
<1>4. e.conn = d => Lost("delayed", d, e.msg.no)
  <2> SUFFICES ASSUME e.conn = d PROVE Lost("delayed", d, e.msg.no) OBVIOUS
  <2>1. \A x \in service.delayed : x.conn = d => x = e BY DEF Alone
  <2>2. \A N : (service.delayed \cap AsksOf(d, N) # {} <=> e.msg.no \in N) /\ ~(service'.delayed \cap AsksOf(d, N) # {})
    BY <1>1, <1>2, <2>1
  <2>3. Alone("delayed", d)' BY <2>1 DEF Alone
  <2>4. \A N : (Lies("delayed", d, N) <=> e.msg.no \in N) /\ ~Lies("delayed", d, N)' BY <2>2 DEF Lies
  <2> QED BY <2>3, <2>4 DEF Lost
<1> QED BY <1>3, <1>4

LEMMA DownGets ==
  ASSUME RmiTypes, NEW d \in Links, NEW m \in DownMessage, down'[d] = Append(down[d], m)
  PROVE  /\ m.op # "reply" => Kept("down", d)
         /\ m.op = "reply" => Got("down", d, m.no)
<1>1. down[d] \in Seq(DownMessage) BY DEF RmiTypes
<1>2. /\ \A N : Some(down'[d], Replies(N)) <=> Some(down[d], Replies(N)) \/ (m.op = "reply" /\ m.no \in N)
      /\ Once(down[d], Replies(Nat)) /\ (m.op = "reply" => ~Some(down[d], Replies(Nat))) => Once(down'[d], Replies(Nat))
  BY <1>1, LineGets
<1>3. m.op # "reply" => Kept("down", d) BY <1>2 DEF Kept, Lies, Alone
<1>4. m.op = "reply" => Got("down", d, m.no) BY <1>2, Widens DEF Got, Lies, Alone
<1> QED BY <1>3, <1>4

LEMMA DownLoses ==
  ASSUME RmiTypes, NEW d \in Links, Alone("down", d), down[d] # <<>>, NEW m, m = Head(down[d]), down'[d] = Tail(down[d])
  PROVE  /\ m.op # "reply" => Kept("down", d)
         /\ m.op = "reply" => Lost("down", d, m.no)
<1>1. down[d] \in Seq(DownMessage) BY DEF RmiTypes
<1>2. /\ \A N : Some(down[d], Replies(N)) <=> Some(down'[d], Replies(N)) \/ (m.op = "reply" /\ m.no \in N)
      /\ Once(down[d], Replies(Nat)) => /\ Once(down'[d], Replies(Nat))
                                        /\ m.op = "reply" => ~Some(down'[d], Replies(Nat))
  BY <1>1, LineLoses
<1>3. m.op # "reply" => Kept("down", d) BY <1>2 DEF Kept, Lies, Alone
<1>4. m.op = "reply" => Lost("down", d, m.no) BY <1>2, Widens DEF Lost, Lies, Alone
<1> QED BY <1>3, <1>4

LEMMA UpLoses ==
  ASSUME RmiTypes, NEW d \in Links, Alone("up", d), up[d] # <<>>, NEW m, m = Head(up[d]), up'[d] = Tail(up[d])
  PROVE  /\ m.op # "request" => Kept("up", d)
         /\ m.op = "request" => Lost("up", d, m.no)
<1>1. up[d] \in Seq(UpMessage) BY DEF RmiTypes
<1>2. /\ \A N : Some(up[d], Asks(N)) <=> Some(up'[d], Asks(N)) \/ (m.op = "request" /\ m.no \in N)
      /\ Once(up[d], Asks(Nat)) => /\ Once(up'[d], Asks(Nat))
                                   /\ m.op = "request" => ~Some(up'[d], Asks(Nat))
  BY <1>1, LineLoses
<1>3. m.op # "request" => Kept("up", d) BY <1>2 DEF Kept, Lies, Alone
<1>4. m.op = "request" => Lost("up", d, m.no) BY <1>2, Widens DEF Lost, Lies, Alone
<1> QED BY <1>3, <1>4

(* Something is sent that has no request, or one. *)
LEMMA UpGets ==
  ASSUME RmiTypes, NEW d \in Links, NEW t \in Seq(UpMessage), up'[d] = up[d] \o t
  PROVE  /\ ~Some(t, Asks(Nat)) => Kept("up", d)
         /\ \A r \in Nat : (\A N : Some(t, Asks(N)) <=> r \in N) /\ Once(t, Asks(Nat)) => Got("up", d, r)
<1>1. up[d] \in Seq(UpMessage) BY DEF RmiTypes
<1>2. /\ \A N : Some(up'[d], Asks(N)) <=> Some(up[d], Asks(N)) \/ Some(t, Asks(N))
      /\ Once(up[d], Asks(Nat)) /\ ~Some(t, Asks(Nat)) => Once(up'[d], Asks(Nat))
      /\ ~Some(up[d], Asks(Nat)) /\ Once(t, Asks(Nat)) => Once(up'[d], Asks(Nat))
  BY <1>1, JoinHas
<1>3. ~Some(t, Asks(Nat)) => Kept("up", d) BY <1>2, Widens DEF Kept, Lies, Alone
<1>4. ASSUME NEW r \in Nat, \A N : Some(t, Asks(N)) <=> r \in N, Once(t, Asks(Nat)) PROVE Got("up", d, r)
  BY <1>2, <1>4, Widens DEF Got, Lies, Alone
<1> QED BY <1>3, <1>4

----------------------------------------
LEMMA AllKept ==
  ASSUME NEW d \in Links, AloneOne(d), \A p \in Places : Kept(p, d), d \in server'.active => d \in server.active
  PROVE  AloneOne(d)' /\ ((sock'[d] = "up" => sock[d] = "up") => Carried(d))
<1>1. AloneOne(d)' BY DEF AloneOne, Kept, Places
<1>2. \A N : OnWay(d, N)' <=> OnWay(d, N) BY DEF OnWay, Kept
<1> QED BY <1>1, <1>2 DEF Carried

(* A request that moves from a place to the next stays alone. *)
LEMMA Moved ==
  ASSUME NEW d \in Links, AloneOne(d), NEW p \in Places, NEW q \in Places, p # q, NEW n \in Nat,
         Lost(p, d, n), Got(q, d, n), \A o \in Places \ {p, q} : Kept(o, d),
         d \in server'.active => q \in {"service", "delayed", "reply"}
  PROVE  AloneOne(d)' /\ Carried(d)
<1>1. Lies(p, d, Nat) /\ \A o \in Places : Lies(o, d, Nat) => o = p BY DEF AloneOne, Lost
<1>2. \A o \in Places \ {p, q} : \A N : ~Lies(o, d, N)' BY <1>1, LiesWidens DEF Kept
<1>3. \A N : ~Lies(p, d, N)' /\ (Lies(q, d, N)' <=> n \in N) BY <1>1 DEF Lost, Got
<1>4. \A o \in Places : Alone(o, d)'
  <2>1. \A o \in Places : Alone(o, d) BY DEF AloneOne
  <2>2. Alone(p, d)' BY DEF Lost
  <2>3. Alone(q, d)' BY <1>1, <2>1 DEF Got
  <2>4. \A o \in Places \ {p, q} : Alone(o, d)' BY <2>1 DEF Kept
  <2> QED BY <2>2, <2>3, <2>4
<1>5. AloneOne(d)' BY <1>2, <1>3, <1>4 DEF AloneOne
<1>6. \A k \in Nat : OnWay(d, {k})' => OnWay(d, {k})
  <2>1. \A k \in Nat : OnWay(d, {k})' => n \in {k} BY <1>2, <1>3 DEF OnWay
  <2>2. \A k \in Nat : n \in {k} => OnWay(d, {k}) BY DEF OnWay, Lost
  <2> QED BY <2>1, <2>2
<1>7. OnWay(d, Nat)' BY <1>3 DEF OnWay
<1> QED BY <1>5, <1>6, <1>7 DEF Carried

LEMMA AllShrunk ==
  ASSUME NEW d \in Links, AloneOne(d), sock'[d] # "up", \A p \in Places : Shrunk(p, d),
         d \in server'.active => d \in server.active /\ \A p \in {"service", "delayed", "reply"} : Kept(p, d)
  PROVE  AloneOne(d)' /\ Carried(d)
<1>1. AloneOne(d)' BY DEF AloneOne, Shrunk, Kept
<1>2. \A N : OnWay(d, N)' => OnWay(d, N) BY DEF OnWay, Shrunk
<1> QED BY <1>1, <1>2 DEF Carried

LEMMA KeptShrinks == ASSUME NEW d, NEW p \in Places  PROVE /\ Kept(p, d) => Shrunk(p, d)
                                                         /\ \A n : Lost(p, d, n) => Shrunk(p, d)
BY DEF Kept, Shrunk, Lost

(* The next request starts where nothing is on its way. *)
LEMMA Born ==
  ASSUME NEW d \in Links, \A p \in Places : Alone(p, d)', d \notin server'.active,
         \A p \in Places \ {"up"} : \A N : ~Lies(p, d, N)',
         NEW n \in Nat, \A N : Lies("up", d, N)' <=> n \in N
  PROVE  AloneOne(d)' /\ (\A k \in Nat : OnWay(d, {k})' => k = n) /\ OnWay(d, Nat)'
<1>1. AloneOne(d)' BY DEF AloneOne
<1>2. \A k \in Nat : OnWay(d, {k})' => n \in {k} BY DEF OnWay
<1>3. OnWay(d, Nat)' BY DEF OnWay, Places
<1> QED BY <1>1, <1>2, <1>3

----------------------------------------
(* RMI: AloneInv, one request of a connection at one place *)

LEMMA NumbersAre ==
  ASSUME RmiTypes, NEW d \in Links, OnWay(d, Nat)
  PROVE  \E n \in Requests : OnWay(d, {n})
<1>1. \A s \in Seq(UpMessage) : Some(s, Asks(Nat)) => \E n \in Requests : Some(s, Asks({n}))
  <2> SUFFICES ASSUME NEW s \in Seq(UpMessage), NEW i \in 1 .. Len(s), s[i] \in Asks(Nat)
               PROVE  \E n \in Requests : Some(s, Asks({n}))
    BY DEF Some
  <2>1. s[i] \in UpMessage /\ s[i].op = "request" BY DEF Asks
  <2>2. s[i].no \in Requests BY <2>1, MessageIs
  <2>3. s[i] \in Asks({s[i].no}) BY <2>1 DEF Asks
  <2> QED BY <2>2, <2>3 DEF Some
<1>2. \A s \in Seq(DownMessage) : Some(s, Replies(Nat)) => \E n \in Requests : Some(s, Replies({n}))
  <2> SUFFICES ASSUME NEW s \in Seq(DownMessage), NEW i \in 1 .. Len(s), s[i] \in Replies(Nat)
               PROVE  \E n \in Requests : Some(s, Replies({n}))
    BY DEF Some
  <2>1. s[i] \in DownMessage /\ s[i].op = "reply" BY DEF Replies
  <2>2. s[i].no \in Requests BY <2>1, MessageIs
  <2>3. s[i] \in Replies({s[i].no}) BY <2>1 DEF Replies
  <2> QED BY <2>2, <2>3 DEF Some
<1>3. \A e \in Posts : /\ e \in AsksOf(d, Nat) => e.msg.no \in Requests /\ e \in AsksOf(d, {e.msg.no})
                       /\ e \in RepliesOf(d, Nat) => e.msg.no \in Requests /\ e \in RepliesOf(d, {e.msg.no})
  <2> SUFFICES ASSUME NEW e \in Posts
               PROVE  /\ e \in AsksOf(d, Nat) => e.msg.no \in Requests /\ e \in AsksOf(d, {e.msg.no})
                      /\ e \in RepliesOf(d, Nat) => e.msg.no \in Requests /\ e \in RepliesOf(d, {e.msg.no})
    OBVIOUS
  <2>1. e.msg \in UpMessage \cup DownMessage \cup {Gone} BY Subsets
  <2>2. e.msg.op \in {"request", "reply"} => e.msg.no \in Requests BY <2>1, MessageIs
  <2> QED BY <2>2 DEF AsksOf, RepliesOf
<1>4. \A s : /\ Some(s, AsksOf(d, Nat)) => \E n \in Requests : Some(s, AsksOf(d, {n}))
             /\ Some(s, RepliesOf(d, Nat)) => \E n \in Requests : Some(s, RepliesOf(d, {n}))
  <2>1. AsksOf(d, Nat) \subseteq Posts /\ RepliesOf(d, Nat) \subseteq Posts BY DEF AsksOf, RepliesOf
  <2> QED BY <1>3, <2>1 DEF Some
<1>5. service.delayed \cap AsksOf(d, Nat) # {} => \E n \in Requests : service.delayed \cap AsksOf(d, {n}) # {}
  <2> SUFFICES ASSUME NEW e \in service.delayed, e \in AsksOf(d, Nat)
               PROVE  \E n \in Requests : service.delayed \cap AsksOf(d, {n}) # {}
    OBVIOUS
  <2>1. e.msg.no \in Requests /\ e \in AsksOf(d, {e.msg.no}) BY <1>3 DEF AsksOf
  <2> QED BY <2>1
<1>6. up[d] \in Seq(UpMessage) /\ down[d] \in Seq(DownMessage) BY DEF RmiTypes
<1>7. PICK p \in Places : Lies(p, d, Nat) BY DEF OnWay
<1>8. \E n \in Requests : Lies(p, d, {n})
  <2>1. CASE p = "up" BY <1>1, <1>6, <1>7, <2>1 DEF Lies
  <2>2. CASE p = "server" BY <1>4, <1>7, <2>2 DEF Lies
  <2>3. CASE p = "service" BY <1>4, <1>7, <2>3 DEF Lies
  <2>4. CASE p = "delayed" BY <1>5, <1>7, <2>4 DEF Lies
  <2>5. CASE p = "reply" BY <1>4, <1>7, <2>5 DEF Lies
  <2>6. CASE p = "down" BY <1>2, <1>6, <1>7, <2>6 DEF Lies
  <2> QED BY <2>1, <2>2, <2>3, <2>4, <2>5, <2>6 DEF Places
<1> QED BY <1>8 DEF OnWay

(* A connection with nothing on its way is alone, too. *)
LEMMA NoneLeft ==
  ASSUME NEW d \in Links, \A p \in Places : Alone(p, d)' /\ \A N : ~Lies(p, d, N)', d \notin server'.active
  PROVE  AloneOne(d)' /\ \A N : ~OnWay(d, N)'
<1>1. AloneOne(d)' BY DEF AloneOne
<1>2. \A N : ~OnWay(d, N)' BY DEF OnWay
<1> QED BY <1>1, <1>2

(* The browser has nothing on its way. *)
LEMMA IdleHas ==
  ASSUME RmiTypes, CarryInv, client.ws \in Links, client.callback = 0
  PROVE  ~OnWay(client.ws, Nat)
<1>1. \A n \in Nat : OnWay(client.ws, {n}) => n = 0 BY DEF CarryInv
<1>2. Requests \subseteq Nat /\ 0 \notin Requests BY WsIs
<1> QED BY <1>1, <1>2, NumbersAre

LEMMA NoneLies == ASSUME NEW d, ~OnWay(d, Nat) PROVE \A p \in Places : ~Lies(p, d, Nat)
BY DEF OnWay

LEMMA NextHas ==
  ASSUME RmiTypes
  PROVE  /\ NextRequest \in Seq(UpMessage) /\ Once(NextRequest, Asks(Nat))
         /\ client.waiting = <<>> => \A N : ~Some(NextRequest, Asks(N))
         /\ client.waiting # <<>> => /\ Head(client.waiting) \in Requests /\ Head(client.waiting) \in Nat
                                     /\ \A N : Some(NextRequest, Asks(N)) <=> Head(client.waiting) \in N
<1>1. client.waiting \in Seq(Requests) /\ Requests \subseteq Nat BY WsIs
<1>2. NextRequest \in Seq(UpMessage) BY NextTypes
<1>3. CASE client.waiting = <<>>
  <2>1. NextRequest = <<>> BY <1>3 DEF NextRequest
  <2> QED BY <1>2, <1>3, <2>1, EmptyHas
<1>4. CASE client.waiting # <<>>
  <2> DEFINE h == Head(client.waiting)
  <2>1. h \in Requests BY <1>1, <1>4, HeadTailProperties
  <2>2. NextRequest = <<Request(h)>> BY <1>4 DEF NextRequest
  <2> HIDE DEF h
  <2>3. Request(h) \in UpMessage /\ Request(h).op = "request" /\ Request(h).no = h
    BY <2>1, MessageIs DEF Request
  <2>4. \A N : Request(h) \in Asks(N) <=> h \in N BY <2>3 DEF Asks
  <2>5. Once(NextRequest, Asks(Nat)) /\ \A N : Some(NextRequest, Asks(N)) <=> Request(h) \in Asks(N)
    BY <2>2, <2>3, OneHas
  <2> QED BY <1>1, <1>2, <1>4, <2>1, <2>4, <2>5 DEF h
<1> QED BY <1>3, <1>4

LEMMA OpenHas ==
  ASSUME RmiTypes
  PROVE  /\ <<Greeting>> \o client.async \o NextRequest \in Seq(UpMessage)
         /\ Once(<<Greeting>> \o client.async \o NextRequest, Asks(Nat))
         /\ \A N : Some(<<Greeting>> \o client.async \o NextRequest, Asks(N)) <=> Some(NextRequest, Asks(N))
<1>1. client.async \in Seq(UpMessage) /\ \A N : ~Some(client.async, Asks(N))
  <2>1. AsyncType \subseteq UpMessage BY DEF AsyncType, UpMessage
  <2>2. client.async \in Seq(AsyncType) BY WsIs
  <2>3. client.async \in Seq(UpMessage) BY <2>1, <2>2, SeqGrows
  <2>4. \A i \in 1 .. Len(client.async) : client.async[i] \in AsyncType BY <2>2, ElementIs
  <2>5. \A N : \A m \in AsyncType : m \notin Asks(N) BY DEF AsyncType, Asks
  <2> QED BY <2>3, <2>4, <2>5 DEF Some
<1>2. <<Greeting>> \in Seq(UpMessage) /\ \A N : ~Some(<<Greeting>>, Asks(N))
  <2>1. Greeting \in UpMessage /\ Greeting.op = "hello" BY MessageIs
  <2>2. \A N : Greeting \notin Asks(N) BY <2>1 DEF Asks
  <2> QED BY <2>1, <2>2, OneHas
<1> DEFINE t == <<Greeting>> \o client.async
<1>3. t \in Seq(UpMessage) /\ \A N : ~Some(t, Asks(N)) BY <1>1, <1>2, JoinHas
<1> HIDE DEF t
<1>4. /\ t \o NextRequest \in Seq(UpMessage) /\ Once(t \o NextRequest, Asks(Nat))
      /\ \A N : Some(t \o NextRequest, Asks(N)) <=> Some(NextRequest, Asks(N))
  BY <1>3, NextHas, JoinHas
<1> QED BY <1>4 DEF t

----------------------------------------
Elsewhere(d) == \A p \in Places \ {"up", "down"} : Kept(p, d)

LEMMA RestKept ==
  ASSUME NEW d \in Links, UNCHANGED <<server, service>>  PROVE Elsewhere(d)
BY SamePlace DEF Elsewhere, Places

(* The browser sends something that is no request, or nothing; it hears *)
(* something that is no reply, or nothing. *)
LEMMA AloneAsync ==
  ASSUME RmiTypes, AloneInv, Register \/ Unregister
  PROVE  \A d \in Links : AloneOne(d)' /\ Carried(d)
<1>1. PICK m \in AsyncType : SendAsync(m) BY AsyncDoes
<1>2. /\ client.ws \in Links
      /\ \/ up' = up
         \/ up' = [up EXCEPT ![client.ws] = up[client.ws] \o <<m>>]
      /\ UNCHANGED <<sock, down, greeted, server, service, fate, answers>>
  BY <1>1, SendAsyncDoes
<1>3. <<m>> \in Seq(UpMessage) /\ ~Some(<<m>>, Asks(Nat))
  <2>1. m \in UpMessage /\ m \notin Asks(Nat) BY DEF AsyncType, UpMessage, Asks
  <2> QED BY <2>1, OneHas
<1> SUFFICES ASSUME NEW d \in Links PROVE AloneOne(d)' /\ Carried(d) OBVIOUS
<1>4. Kept("up", d)
  <2>1. CASE up'[d] = up[d] BY <2>1, SamePlace
  <2>2. CASE up'[d] # up[d]
    <3>1. up'[d] = up[d] \o <<m>> BY <1>2, <2>2 DEF RmiTypes
    <3> QED BY <1>3, <3>1, UpGets
  <2> QED BY <2>1, <2>2
<1>5. Kept("down", d) BY <1>2, SamePlace
<1>6. \A p \in Places : Kept(p, d) BY <1>2, <1>4, <1>5, RestKept DEF Elsewhere
<1> QED BY <1>2, <1>6, AllKept DEF AloneInv

LEMMA AloneSignal ==
  ASSUME RmiTypes, AloneInv, NewSignal
  PROVE  \A d \in Links : AloneOne(d)' /\ Carried(d)
<1>1. /\ client.ws \in Links /\ down[client.ws] # <<>> /\ Head(down[client.ws]).op = "signal"
      /\ down' = [down EXCEPT ![client.ws] = Tail(down[client.ws])]
      /\ UNCHANGED <<sock, up, greeted, server, service, hist>>
  BY NewSignalDoes
<1> SUFFICES ASSUME NEW d \in Links PROVE AloneOne(d)' /\ Carried(d) OBVIOUS
<1>2. AloneOne(d) BY DEF AloneInv
<1>3. Kept("down", d)
  <2>1. CASE d = client.ws
    <3>1. down'[d] = Tail(down[d]) /\ down[d] # <<>> /\ Head(down[d]).op # "reply" BY <1>1, <2>1 DEF RmiTypes
    <3>2. Alone("down", d) BY <1>2 DEF AloneOne, Places
    <3> QED BY <3>1, <3>2, DownLoses
  <2>2. CASE d # client.ws
    <3>1. down'[d] = down[d] BY <1>1, <2>2 DEF RmiTypes
    <3> QED BY <3>1, SamePlace
  <2> QED BY <2>1, <2>2
<1>4. Kept("up", d) BY <1>1, SamePlace
<1>5. \A p \in Places : Kept(p, d) BY <1>1, <1>3, <1>4, RestKept DEF Elsewhere
<1> QED BY <1>1, <1>2, <1>5, AllKept

LEMMA AloneNetwork ==
  ASSUME RmiTypes, HelloInv, AloneInv, NEW c \in Links, Break(c) \/ Manager(c)
  PROVE  \A d \in Links : AloneOne(d)' /\ Carried(d)
<1> SUFFICES ASSUME NEW d \in Links PROVE AloneOne(d)' /\ Carried(d) OBVIOUS
<1>0. AloneOne(d) /\ \A p \in Places : Alone(p, d) BY DEF AloneInv, AloneOne
<1>1. CASE Break(c)
  <2>1. /\ sock[c] = "up" /\ sock' = [sock EXCEPT ![c] = "down"]
        /\ \A b \in Links : b # c => up'[b] = up[b] /\ down'[b] = down[b]
        /\ \A P : (Some(up'[c], P) => Some(up[c], P)) /\ (Once(up[c], P) => Once(up'[c], P))
        /\ \A P : (Some(down'[c], P) => Some(down[c], P)) /\ (Once(down[c], P) => Once(down'[c], P))
        /\ UNCHANGED <<server, service>>
    BY <1>1, BreakDoes
  <2>2. Elsewhere(d) BY <2>1, RestKept
  <2>3. CASE d = c
    <3>1. Shrunk("up", d) BY <2>1, <2>3 DEF Shrunk, Lies, Alone
    <3>2. Shrunk("down", d) BY <2>1, <2>3 DEF Shrunk, Lies, Alone
    <3>3. \A p \in Places : Shrunk(p, d) BY <2>2, <3>1, <3>2, KeptShrinks DEF Elsewhere
    <3>4. \A p \in {"service", "delayed", "reply"} : Kept(p, d) BY <2>2 DEF Elsewhere, Places
    <3>5. sock'[d] # "up" BY <2>1, <2>3 DEF RmiTypes
    <3> QED BY <1>0, <2>1, <3>3, <3>4, <3>5, AllShrunk
  <2>4. CASE d # c
    <3>1. Kept("up", d) /\ Kept("down", d) BY <2>1, <2>4, SamePlace
    <3>2. \A p \in Places : Kept(p, d) BY <2>2, <3>1 DEF Elsewhere
    <3>3. sock'[d] = sock[d] BY <2>1, <2>4 DEF RmiTypes
    <3> QED BY <1>0, <2>1, <3>2, <3>3, AllKept
  <2> QED BY <2>3, <2>4
<1>2. CASE NewMsg(c)
  <2> DEFINE m == Head(up[c])
             e == At(c, m)
  <2>1. /\ up[c] # <<>> /\ m \in UpMessage
        /\ up' = [up EXCEPT ![c] = Tail(up[c])]
        /\ m.op = "hello" => UNCHANGED server
        /\ m.op # "hello" => /\ e \in Calls /\ e.conn = c /\ e.msg = m
                             /\ server'.queue = Append(server.queue, e)
                             /\ server'.active = server.active
        /\ UNCHANGED <<sock, down, service>>
    BY <1>2, NewMsgDoes
  <2>2. e \in Calls => e \in InPosts BY Subsets
  <2>3. m.no \in Nat BY <2>1, MessageIs
  <2>4. d = c => up'[d] = Tail(up[d]) /\ up[d] # <<>> /\ m = Head(up[d]) BY <2>1 DEF RmiTypes
  <2>5. d # c => up'[d] = up[d] BY <2>1 DEF RmiTypes
  <2> HIDE DEF m, e
  <2>6. Kept("service", d) /\ Kept("delayed", d) /\ Kept("down", d) BY <2>1, SamePlace
  <2>7. CASE d = c /\ m.op = "request"
    <3>1. Lost("up", d, m.no) BY <1>0, <2>4, <2>7, UpLoses DEF Places
    <3>2. Got("server", d, m.no) /\ Kept("reply", d) BY <2>1, <2>2, <2>7, ServerGets
    <3>3. d \notin server'.active
      <4>1. Lies("up", d, Nat) BY <2>3, <3>1 DEF Lost
      <4>2. d \notin server.active BY <1>0, <4>1 DEF AloneOne, Places
      <4> QED BY <2>1, <2>7, <4>2
    <3>4. \A o \in Places \ {"up", "server"} : Kept(o, d) BY <2>6, <3>2 DEF Places
    <3> QED BY <1>0, <2>3, <3>1, <3>2, <3>3, <3>4, Moved DEF Places
  <2>8. CASE ~(d = c /\ m.op = "request")
    <3>1. Kept("up", d)
      <4>1. CASE d = c BY <1>0, <2>4, <2>8, <4>1, UpLoses DEF Places
      <4>2. CASE d # c BY <2>5, <4>2, SamePlace
      <4> QED BY <4>1, <4>2
    <3>2. Kept("server", d) /\ Kept("reply", d) /\ server'.active = server.active
      <4>1. CASE m.op = "hello" BY <2>1, <4>1, SamePlace
      <4>2. CASE m.op # "hello"
        <5>1. e.msg.op # "reply" BY <2>1, <4>2 DEF Calls
        <5> QED BY <2>1, <2>2, <2>8, <4>2, <5>1, ServerGets
      <4> QED BY <4>1, <4>2
    <3>3. \A p \in Places : Kept(p, d) BY <2>6, <3>1, <3>2 DEF Places
    <3> QED BY <1>0, <2>1, <3>2, <3>3, AllKept
  <2> QED BY <2>7, <2>8
<1>3. CASE LinkClosed(c)
  <2> DEFINE e == At(c, Gone)
  <2>1. /\ sock[c] = "down" /\ sock' = [sock EXCEPT ![c] = "told"]
        /\ e \in Calls /\ e.msg.op = "gone" /\ server'.active = server.active
        /\ server'.queue = Append(server.queue, e) \/ server'.queue = server.queue
        /\ UNCHANGED <<up, down, service>>
    BY <1>3, LinkClosedDoes
  <2>2. e \in InPosts BY <2>1, Subsets
  <2> HIDE DEF e
  <2>3. Kept("server", d) /\ Kept("reply", d)
    <3>1. CASE server'.queue = server.queue BY <3>1, SamePlace
    <3>2. CASE server'.queue = Append(server.queue, e) BY <2>1, <2>2, <3>2, ServerGets
    <3> QED BY <2>1, <3>1, <3>2
  <2>4. Kept("up", d) /\ Kept("service", d) /\ Kept("delayed", d) /\ Kept("down", d) BY <2>1, SamePlace
  <2>5. \A p \in Places : Kept(p, d) BY <2>3, <2>4 DEF Places
  <2>6. sock'[d] = "up" => sock[d] = "up" BY <2>1 DEF RmiTypes
  <2> QED BY <1>0, <2>1, <2>5, <2>6, AllKept
<1> QED BY <1>1, <1>2, <1>3 DEF Manager

LEMMA AloneServer ==
  ASSUME RmiTypes, AloneInv, Server
  PROVE  \A d \in Links : AloneOne(d)' /\ Carried(d)
<1> SUFFICES ASSUME NEW d \in Links PROVE AloneOne(d)' /\ Carried(d) OBVIOUS
<1>0. AloneOne(d) /\ \A p \in Places : Alone(p, d) BY DEF AloneInv, AloneOne
<1> DEFINE e == Head(server.queue)
<1>1. CASE HandleCall
  <2>1. /\ server.queue # <<>>
        /\ e \in Calls /\ e.msg.op \in {"request", "reg", "unreg", "gone"}
        /\ server'.queue = Tail(server.queue)
        /\ server'.active = IF e.msg.op = "request" THEN server.active \cup {e.conn} ELSE server.active
        /\ service'.queue = Append(service.queue, e)
        /\ service'.delayed = service.delayed
        /\ UNCHANGED <<sock, up, down>>
    BY <1>1, HandleCallDoes
  <2>2. e.msg.no \in Nat
    <3>1. e \in Posts BY <2>1, Subsets
    <3> QED BY <3>1, Subsets, MessageIs
  <2>3. /\ ~(e.conn = d /\ e.msg.op = "request") => Kept("server", d)
        /\ e.msg.op # "reply" => Kept("reply", d)
        /\ e.conn = d /\ e.msg.op = "request" => Lost("server", d, e.msg.no)
    BY <1>0, <2>1, ServerLoses DEF Places
  <2> HIDE DEF e
  <2>4. /\ ~(e.conn = d /\ e.msg.op = "request") => Kept("service", d)
        /\ e.conn = d /\ e.msg.op = "request" => Got("service", d, e.msg.no)
    BY <2>1, ServiceGets
  <2>5. Kept("up", d) /\ Kept("delayed", d) /\ Kept("down", d) /\ Kept("reply", d) BY <2>1, <2>3, SamePlace
  <2>6. CASE e.conn = d /\ e.msg.op = "request"
    <3>1. \A o \in Places \ {"server", "service"} : Kept(o, d) BY <2>5 DEF Places
    <3> QED BY <1>0, <2>2, <2>3, <2>4, <2>6, <3>1, Moved DEF Places
  <2>7. CASE ~(e.conn = d /\ e.msg.op = "request")
    <3>1. \A p \in Places : Kept(p, d) BY <2>3, <2>4, <2>5, <2>7 DEF Places
    <3>2. d \in server'.active => d \in server.active BY <2>1, <2>7
    <3> QED BY <1>0, <2>1, <3>1, <3>2, AllKept
  <2> QED BY <2>6, <2>7
<1>2. CASE SendOut
  <2>1. /\ server.queue # <<>> /\ e.conn \in Links /\ e.msg \in DownMessage /\ e.msg.op \in {"reply", "signal"}
        /\ server'.queue = Tail(server.queue) /\ server'.active = server.active \ {e.conn}
        /\ down' = IF sock[e.conn] = "up" THEN [down EXCEPT ![e.conn] = Append(down[e.conn], e.msg)] ELSE down
        /\ UNCHANGED <<sock, up, service>>
    BY <1>2, SendOutDoes
  <2>2. e.msg.no \in Nat BY <2>1, MessageIs
  <2>3. /\ e.msg.op # "request" => Kept("server", d)
        /\ ~(e.conn = d /\ e.msg.op = "reply") => Kept("reply", d)
        /\ e.conn = d /\ e.msg.op = "reply" => Lost("reply", d, e.msg.no)
    BY <1>0, <2>1, ServerLoses DEF Places
  <2> HIDE DEF e
  <2>4. Kept("up", d) /\ Kept("server", d) /\ Kept("service", d) /\ Kept("delayed", d)
    BY <2>1, <2>3, SamePlace
  <2>5. /\ e.conn = d /\ sock[d] = "up" => down'[d] = Append(down[d], e.msg)
        /\ ~(e.conn = d /\ sock[d] = "up") => down'[d] = down[d]
    BY <2>1 DEF RmiTypes
  <2>6. CASE e.conn = d /\ e.msg.op = "reply" /\ sock[d] = "up"
    <3>1. Got("down", d, e.msg.no) BY <2>1, <2>5, <2>6, DownGets
    <3>2. \A o \in Places \ {"reply", "down"} : Kept(o, d) BY <2>4 DEF Places
    <3>3. d \notin server'.active BY <2>1, <2>6
    <3> QED BY <1>0, <2>2, <2>3, <2>6, <3>1, <3>2, <3>3, Moved DEF Places
  <2>7. CASE e.conn = d /\ e.msg.op = "reply" /\ sock[d] # "up"
    <3>1. Kept("down", d) BY <2>5, <2>7, SamePlace
    <3>2. \A p \in Places : Shrunk(p, d) BY <2>3, <2>4, <2>7, <3>1, KeptShrinks DEF Places
    <3>3. d \notin server'.active /\ sock'[d] # "up" BY <2>1, <2>7
    <3> QED BY <1>0, <3>2, <3>3, AllShrunk
  <2>8. CASE ~(e.conn = d /\ e.msg.op = "reply")
    <3>1. Kept("down", d)
      <4>1. CASE down'[d] = down[d] BY <4>1, SamePlace
      <4>2. CASE down'[d] # down[d] BY <2>1, <2>5, <2>8, <4>2, DownGets
      <4> QED BY <4>1, <4>2
    <3>2. \A p \in Places : Kept(p, d) BY <2>3, <2>4, <2>8, <3>1 DEF Places
    <3>3. d \in server'.active => d \in server.active BY <2>1
    <3> QED BY <1>0, <2>1, <3>2, <3>3, AllKept
  <2> QED BY <2>6, <2>7, <2>8
<1> QED BY <1>1, <1>2 DEF Server

LEMMA AloneService ==
  ASSUME RmiTypes, AloneInv, RmiService \/ HandleRemote
  PROVE  \A d \in Links : AloneOne(d)' /\ Carried(d)
<1> SUFFICES ASSUME NEW d \in Links PROVE AloneOne(d)' /\ Carried(d) OBVIOUS
<1>0. AloneOne(d) /\ \A p \in Places : Alone(p, d) BY DEF AloneInv, AloneOne
\* the service takes a call
<1>a. ASSUME service.queue # <<>>, Serving = Head(service.queue), service'.queue = Tail(service.queue)
      PROVE  /\ ~(Serving.conn = d /\ Serving.msg.op = "request") => Kept("service", d)
             /\ Serving.conn = d /\ Serving.msg.op = "request" => Lost("service", d, Serving.msg.no)
  BY <1>0, <1>a, ServiceLoses DEF Places
<1>w. ASSUME UNCHANGED wires  PROVE Kept("up", d) /\ Kept("down", d) /\ sock' = sock
  BY <1>w, SamePlace DEF wires
<1>1. CASE ReplyNow
  <2> DEFINE p == At(Serving.conn, Reply(Serving.msg.no))
  <2>1. /\ service.queue # <<>> /\ Serving = Head(service.queue)
        /\ Serving.msg.no \in Requests /\ Serving.msg.op = "request"
        /\ service'.queue = Tail(service.queue) /\ service'.delayed = service.delayed
        /\ p \in InPosts /\ p.conn = Serving.conn /\ p.msg.op = "reply" /\ p.msg.no = Serving.msg.no
        /\ server'.queue = Append(server.queue, p) /\ server'.active = server.active
        /\ UNCHANGED wires
    BY <1>1, ReplyNowDoes
  <2> HIDE DEF p
  <2>2. Kept("up", d) /\ Kept("down", d) /\ sock' = sock /\ Kept("delayed", d) BY <1>w, <2>1, SamePlace
  <2>3. /\ Kept("server", d)
        /\ p.conn # d => Kept("reply", d)
        /\ p.conn = d => Got("reply", d, p.msg.no)
    BY <2>1, ServerGets
  <2>4. Serving.msg.no \in Nat BY <2>1, WsIs
  <2>5. CASE Serving.conn = d
    <3>1. Lost("service", d, Serving.msg.no) BY <1>a, <2>1, <2>5
    <3>2. \A o \in Places \ {"service", "reply"} : Kept(o, d) BY <2>2, <2>3 DEF Places
    <3> QED BY <1>0, <2>1, <2>3, <2>4, <2>5, <3>1, <3>2, Moved DEF Places
  <2>6. CASE Serving.conn # d
    <3>1. \A o \in Places : Kept(o, d) BY <1>a, <2>1, <2>2, <2>3, <2>6 DEF Places
    <3> QED BY <1>0, <2>1, <2>2, <3>1, AllKept
  <2> QED BY <2>5, <2>6
<1>2. CASE DelayReply
  <2>1. /\ service.queue # <<>> /\ Serving = Head(service.queue)
        /\ Serving.msg.no \in Requests /\ Serving.msg.op = "request" /\ Serving \in Calls
        /\ service'.queue = Tail(service.queue)
        /\ service'.delayed = service.delayed \cup {Serving}
        /\ UNCHANGED <<wires, server>>
    BY <1>2, DelayReplyDoes
  <2>2. Kept("up", d) /\ Kept("down", d) /\ sock' = sock /\ Kept("server", d) /\ Kept("reply", d)
    BY <1>w, <2>1, SamePlace
  <2>3. /\ Serving.conn # d => Kept("delayed", d)
        /\ Serving.conn = d => Got("delayed", d, Serving.msg.no)
    BY <2>1, DelayedGets
  <2>4. Serving.msg.no \in Nat BY <2>1, WsIs
  <2>5. CASE Serving.conn = d
    <3>1. Lost("service", d, Serving.msg.no) BY <1>a, <2>1, <2>5
    <3>2. \A o \in Places \ {"service", "delayed"} : Kept(o, d) BY <2>2, <2>3 DEF Places
    <3> QED BY <1>0, <2>1, <2>3, <2>4, <2>5, <3>1, <3>2, Moved DEF Places
  <2>6. CASE Serving.conn # d
    <3>1. \A o \in Places : Kept(o, d) BY <1>a, <2>1, <2>2, <2>3, <2>6 DEF Places
    <3> QED BY <1>0, <2>1, <2>2, <3>1, AllKept
  <2> QED BY <2>5, <2>6
<1>3. CASE SendDelayed
  <2>1. PICK e \in service.delayed : \E p \in InPosts :
           /\ e.msg.no \in Requests
           /\ service'.queue = service.queue /\ service'.delayed = service.delayed \ {e}
           /\ p.conn = e.conn /\ p.msg.op = "reply" /\ p.msg.no = e.msg.no
           /\ server'.queue = Append(server.queue, p) /\ server'.active = server.active
           /\ UNCHANGED wires
    BY <1>3, SendDelayedDoes
  <2>2. Kept("up", d) /\ Kept("down", d) /\ sock' = sock /\ Kept("service", d) BY <1>w, <2>1, SamePlace
  <2>3. /\ Kept("server", d)
        /\ e.conn # d => Kept("reply", d)
        /\ e.conn = d => Got("reply", d, e.msg.no)
    BY <2>1, ServerGets
  <2>4. /\ e.conn # d => Kept("delayed", d)
        /\ e.conn = d => Lost("delayed", d, e.msg.no)
    BY <1>0, <2>1, DelayedLoses DEF Places
  <2>5. e.msg.no \in Nat BY <2>1, WsIs
  <2>6. CASE e.conn = d
    <3>2. \A o \in Places \ {"delayed", "reply"} : Kept(o, d) BY <2>2, <2>3 DEF Places
    <3> QED BY <1>0, <2>1, <2>3, <2>4, <2>5, <2>6, <3>2, Moved DEF Places
  <2>7. CASE e.conn # d
    <3>1. \A o \in Places : Kept(o, d) BY <2>2, <2>3, <2>4, <2>7 DEF Places
    <3> QED BY <1>0, <2>1, <2>2, <3>1, AllKept
  <2> QED BY <2>6, <2>7
<1>4. CASE RegClient \/ UnregClient \/ ConnectionClosed
  <2>1. /\ service.queue # <<>> /\ Serving = Head(service.queue)
        /\ Serving.msg.op # "request"
        /\ service'.queue = Tail(service.queue) /\ service'.delayed = service.delayed
        /\ UNCHANGED <<wires, server>>
    BY <1>4, RegClientDoes, LeaveDoes
  <2>2. Kept("up", d) /\ Kept("down", d) /\ sock' = sock /\ Kept("delayed", d) /\ Kept("server", d) /\ Kept("reply", d)
    BY <1>w, <2>1, SamePlace
  <2>3. \A o \in Places : Kept(o, d) BY <1>a, <2>1, <2>2 DEF Places
  <2> QED BY <1>0, <2>1, <2>2, <2>3, AllKept
<1>5. CASE HandleRemote
  <2>1. PICK t \in Seq(InPosts) :
         /\ \A i \in 1 .. Len(t) : t[i].msg.op = "signal"
         /\ server'.queue = server.queue \o t /\ server'.active = server.active
         /\ UNCHANGED <<wires, service>>
    BY <1>5, HandleRemoteDoes
  <2>2. \A N : ~Some(t, AsksOf(d, N)) /\ ~Some(t, RepliesOf(d, N)) BY <2>1 DEF Some, AsksOf, RepliesOf
  <2>3. server.queue \in Seq(InPosts) BY DEF RmiTypes
  <2>4. /\ \A P : Some(server'.queue, P) <=> Some(server.queue, P) \/ Some(t, P)
        /\ \A P : Once(server.queue, P) /\ ~Some(t, P) => Once(server'.queue, P)
    BY <2>1, <2>3, JoinHas
  <2>5. Kept("server", d) BY <2>2, <2>4 DEF Kept, Lies, Alone
  <2>6. Kept("reply", d) BY <2>2, <2>4 DEF Kept, Lies, Alone
  <2>7. Kept("up", d) /\ Kept("down", d) /\ sock' = sock /\ Kept("delayed", d) /\ Kept("service", d)
    BY <1>w, <2>1, SamePlace
  <2>8. \A o \in Places : Kept(o, d) BY <2>5, <2>6, <2>7 DEF Places
  <2> QED BY <1>0, <2>1, <2>7, <2>8, AllKept
<1> QED BY <1>1, <1>2, <1>3, <1>4, <1>5 DEF RmiService

----------------------------------------
(* RMI: CarryInv, the request on its way is the callback's *)

(* What is carried stays the caller's. *)
LEMMA CarryKeeps ==
  ASSUME CarryInv, client'.ws = client.ws, client'.callback = client.callback,
         client.callback \in Requests /\ fate'[client.callback] = "sent" => fate[client.callback] = "sent",
         \A d \in Links : Carried(d) /\ (sock'[d] = "up" => sock[d] = "up")
  PROVE  CarryInv'
<1> SUFFICES ASSUME NEW d \in Links, d = client'.ws
             PROVE  /\ \A n \in Nat : OnWay(d, {n})' => n = client'.callback
                    /\ client'.callback \in Requests /\ fate'[client'.callback] = "sent" /\ sock'[d] = "up" => OnWay(d, Nat)'
  BY DEF CarryInv
<1>1. d = client.ws OBVIOUS
<1> QED BY <1>1 DEF CarryInv, Carried

LEMMA CarryBy ==
  ASSUME \A d \in Links : d = client'.ws =>
           /\ \A n \in Nat : OnWay(d, {n})' => n = client'.callback
           /\ client'.callback \in Requests /\ fate'[client'.callback] = "sent" /\ sock'[d] = "up" => OnWay(d, Nat)'
  PROVE  CarryInv'
BY DEF CarryInv

LEMMA AloneBy == ASSUME \A d \in Links : AloneOne(d)' PROVE AloneInv'
BY DEF AloneInv

(* Each step of the browser keeps AloneInv and CarryInv. *)
LEMMA OwnSendRequest ==
  ASSUME RmiTypes, AloneInv, CarryInv, BrowserInv, NEW r \in Requests, r = made.requests + 1, SendRequest(r)
  PROVE  AloneInv' /\ CarryInv'
<1>0. /\ client'.ws = client.ws
      /\ client.active => /\ client'.callback = client.callback
                          /\ fate' = [fate EXCEPT ![r] = "waits"] /\ up' = up
      /\ ~client.active => /\ client'.callback = r
                           /\ up' = IF client.ws # 0 /\ sock[client.ws] = "up"
                                      THEN [up EXCEPT ![client.ws] = up[client.ws] \o <<Request(r)>>] ELSE up
      /\ UNCHANGED <<sock, down, greeted, server, service>>
  BY SendRequestDoes
<1>1. /\ r \in Nat /\ 0 \notin Links /\ (client.ws # 0 <=> client.ws \in Links)
      /\ fate \in [Requests -> {"new", "waits", "sent", "thrown", "answered", "lost", "refused"}]
  BY WsIs DEF RmiTypes
<1>2. ASSUME NEW d \in Links, up'[d] = up[d] PROVE AloneOne(d)' /\ Carried(d)
  <2>1. Kept("up", d) /\ Kept("down", d) /\ Elsewhere(d) BY <1>0, <1>2, SamePlace, RestKept
  <2>2. \A p \in Places : Kept(p, d) BY <2>1 DEF Elsewhere
  <2> QED BY <1>0, <2>2, AllKept DEF AloneInv
<1>3. CASE client.active
  <2>1. \A d \in Links : AloneOne(d)' /\ Carried(d) BY <1>0, <1>2, <1>3
  <2>2. client.callback \in Requests /\ fate'[client.callback] = "sent" => fate[client.callback] = "sent"
    BY <1>0, <1>1, <1>3
  <2>3. CarryInv' BY <1>0, <1>3, <2>1, <2>2, CarryKeeps
  <2> QED BY <2>1, <2>3, AloneBy
<1>4. CASE ~client.active
  <2>1. client.callback = 0 BY <1>4 DEF BrowserInv
  <2>2. client.ws \in Links => ~OnWay(client.ws, Nat) BY <2>1, IdleHas
  <2>3. CASE client.ws # 0 /\ sock[client.ws] = "up"
    <3> PICK w \in Links : w = client.ws BY <1>1, <2>3
    <3>1. w = client'.ws /\ sock[w] = "up" /\ up' = [up EXCEPT ![w] = up[w] \o <<Request(r)>>]
      BY <1>0, <1>4, <2>3
    <3>2. up'[w] = up[w] \o <<Request(r)>> /\ \A d \in Links : d # w => up'[d] = up[d]
      BY <3>1 DEF RmiTypes
    <3>3. /\ <<Request(r)>> \in Seq(UpMessage) /\ Once(<<Request(r)>>, Asks(Nat))
          /\ \A N : Some(<<Request(r)>>, Asks(N)) <=> r \in N
      <4>1. Request(r) \in UpMessage /\ Request(r).op = "request" /\ Request(r).no = r
        BY MessageIs DEF Request
      <4>2. \A N : Request(r) \in Asks(N) <=> r \in N BY <4>1 DEF Asks
      <4> QED BY <4>1, <4>2, OneHas
    <3>4. \A p \in Places : ~Lies(p, w, Nat) /\ Alone(p, w)
      BY <2>2, <3>1, NoneLies DEF AloneInv, AloneOne
    <3>5. w \notin server'.active
      <4>1. w \notin server.active BY <3>1, <3>4 DEF AloneInv, AloneOne, Places
      <4> QED BY <1>0, <4>1
    <3>6. (\A N : Lies("up", w, N)' <=> r \in N) /\ Alone("up", w)'
      <4>1. Got("up", w, r) BY <1>1, <3>1, <3>2, <3>3, UpGets
      <4> QED BY <3>4, <4>1 DEF Got, Places
    <3>7. Elsewhere(w) /\ Kept("down", w) BY <1>0, <3>1, RestKept, SamePlace
    <3>8. \A p \in Places \ {"up"} : Alone(p, w)' /\ \A N : ~Lies(p, w, N)'
      <4>1. \A p \in Places \ {"up"} : Kept(p, w) BY <3>7 DEF Elsewhere
      <4> QED BY <3>4, <4>1, LiesWidens DEF Kept
    <3>9. AloneOne(w)' /\ (\A k \in Nat : OnWay(w, {k})' => k = r) /\ OnWay(w, Nat)'
      <4>1. \A p \in Places : Alone(p, w)' BY <3>6, <3>8
      <4> QED BY <1>1, <3>1, <3>5, <3>6, <3>8, <4>1, Born
    <3>10. \A d \in Links : AloneOne(d)' BY <1>2, <3>2, <3>9
    <3>11. CarryInv' BY <1>0, <1>4, <3>1, <3>9, CarryBy
    <3> QED BY <3>10, <3>11, AloneBy
  <2>4. CASE ~(client.ws # 0 /\ sock[client.ws] = "up")
    <3>1. up' = up BY <1>0, <1>4, <2>4
    <3>2. \A d \in Links : AloneOne(d)' /\ Carried(d) BY <1>2, <3>1
    <3>3. \A d \in Links : d = client'.ws => (\A n \in Nat : ~OnWay(d, {n})') /\ sock'[d] # "up"
      <4> SUFFICES ASSUME NEW d \in Links, d = client.ws PROVE (\A n \in Nat : ~OnWay(d, {n})') /\ sock[d] # "up"
        BY <1>0
      <4>1. \A p \in Places : ~Lies(p, d, Nat) BY <2>2, NoneLies
      <4>2. \A n \in Nat : ~OnWay(d, {n}) BY <4>1, LiesWidens DEF OnWay
      <4> QED BY <1>1, <2>4, <3>2, <4>2 DEF Carried
    <3>4. CarryInv' BY <3>3, CarryBy
    <3> QED BY <3>2, <3>4, AloneBy
  <2> QED BY <2>3, <2>4
<1> QED BY <1>3, <1>4

LEMMA OwnStart ==
  ASSUME RmiTypes, LinkInv, HelloInv, AloneInv, CarryInv, BrowserInv, Start
  PROVE  AloneInv' /\ CarryInv'
<1>0. /\ client.ws = 0 /\ client'.ws \in Links /\ sock[client'.ws] = "none"
      /\ client'.callback = client.callback
      /\ UNCHANGED <<up, down, greeted, server, service, fate>>
  BY StartDoes DEF hist
<1>1. ASSUME NEW d \in Links PROVE \A p \in Places : Kept(p, d)
  <2>1. Kept("up", d) /\ Kept("down", d) /\ Elsewhere(d) BY <1>0, SamePlace, RestKept
  <2> QED BY <2>1 DEF Elsewhere
<1>2. \A d \in Links : AloneOne(d)' BY <1>0, <1>1, AllKept DEF AloneInv
<1>3. ASSUME NEW d \in Links, d = client'.ws PROVE \A n \in Nat : ~OnWay(d, {n})'
  <2>1. Quiet(d) /\ up[d] = <<>> BY <1>0, <1>3 DEF HelloInv
  <2>2. \A N : \A p \in Places \ {"up"} : ~Lies(p, d, N) BY <2>1, QuietHas
  <2>3. \A N : ~Lies("up", d, N) BY <2>1, EmptyHas DEF Lies
  <2>4. \A N : \A p \in Places : ~Lies(p, d, N) BY <2>2, <2>3
  <2> QED BY <1>1, <2>4 DEF OnWay, Kept
<1>4. \A q \in Requests : fate[q] # "sent"
  <2>1. ~client.open BY <1>0 DEF LinkInv
  <2> QED BY <2>1 DEF BrowserInv
<1>5. CarryInv' BY <1>0, <1>3, <1>4, CarryBy
<1> QED BY <1>2, <1>5, AloneBy

LEMMA OwnWsOpen ==
  ASSUME RmiTypes, HelloInv, AloneInv, CarryInv, BrowserInv, WsOpen
  PROVE  AloneInv' /\ CarryInv'
<1> PICK w \in Links : w = client.ws BY WsOpenDoes
<1> DEFINE t == <<Greeting>> \o client.async \o NextRequest
<1>0. /\ client.open = FALSE /\ client'.ws = w
      /\ client.waiting # <<>> => client'.callback = Head(client.waiting)
      /\ client.waiting = <<>> => client'.callback = 0
      /\ up' = [up EXCEPT ![w] = up[w] \o t]
      /\ UNCHANGED <<sock, down, greeted, server, service>>
  BY WsOpenDoes
<1>1. /\ t \in Seq(UpMessage) /\ Once(t, Asks(Nat))
      /\ \A N : Some(t, Asks(N)) <=> Some(NextRequest, Asks(N))
  BY OpenHas
<1>2. Quiet(w) /\ up[w] = <<>> BY <1>0 DEF HelloInv
<1> HIDE DEF t
<1>3. \A p \in Places : \A N : ~Lies(p, w, N)
  <2>1. \A N : \A p \in Places \ {"up"} : ~Lies(p, w, N) BY <1>0, <1>2, QuietHas
  <2>2. \A N : ~Lies("up", w, N) BY <1>2, EmptyHas DEF Lies
  <2> QED BY <2>1, <2>2
<1>4. \A p \in Places : Alone(p, w) BY <1>0 DEF AloneInv, AloneOne
<1>5. w \notin server'.active BY <1>0, <1>2 DEF Quiet
<1>6. up'[w] = up[w] \o t /\ \A d \in Links : d # w => up'[d] = up[d] BY <1>0 DEF RmiTypes
<1>7. ASSUME NEW d \in Links, d # w PROVE AloneOne(d)'
  <2>1. Kept("up", d) /\ Kept("down", d) /\ Elsewhere(d) BY <1>0, <1>6, <1>7, SamePlace, RestKept
  <2>2. \A p \in Places : Kept(p, d) BY <2>1 DEF Elsewhere
  <2> QED BY <1>0, <2>2, AllKept DEF AloneInv
<1>8. \A p \in Places \ {"up"} : Alone(p, w)' /\ \A N : ~Lies(p, w, N)'
  <2>1. Kept("down", w) /\ Elsewhere(w) BY <1>0, SamePlace, RestKept
  <2>2. \A p \in Places \ {"up"} : Kept(p, w) BY <2>1 DEF Elsewhere
  <2> QED BY <1>3, <1>4, <2>2 DEF Kept
<1>9. CASE client.waiting # <<>>
  <2> DEFINE h == Head(client.waiting)
  <2>1. h \in Nat /\ client'.callback = h /\ \A N : Some(t, Asks(N)) <=> h \in N BY <1>0, <1>1, <1>9, NextHas
  <2> HIDE DEF h
  <2>2. Got("up", w, h) BY <1>0, <1>1, <1>6, <2>1, UpGets
  <2>3. (\A N : Lies("up", w, N)' <=> h \in N) /\ Alone("up", w)' BY <1>3, <1>4, <2>2 DEF Got, Places
  <2>4. AloneOne(w)' /\ (\A k \in Nat : OnWay(w, {k})' => k = h) /\ OnWay(w, Nat)'
    <3>1. \A p \in Places : Alone(p, w)' BY <1>8, <2>3
    <3> QED BY <1>0, <1>5, <1>8, <2>1, <2>3, <3>1, Born
  <2>5. CarryInv' BY <1>0, <2>1, <2>4, CarryBy
  <2> QED BY <1>7, <2>4, <2>5, AloneBy
<1>10. CASE client.waiting = <<>>
  <2>1. client'.callback = 0 /\ 0 \notin Requests BY <1>0, <1>10, WsIs
  <2>2. ~Some(t, Asks(Nat)) BY <1>1, <1>10, NextHas
  <2>3. Kept("up", w) BY <1>0, <1>1, <1>6, <2>2, UpGets
  <2>4. AloneOne(w)' /\ \A N : ~OnWay(w, N)'
    <3>1. \A p \in Places : Alone(p, w)' /\ \A N : ~Lies(p, w, N)' BY <1>3, <1>4, <1>8, <2>3 DEF Kept
    <3> QED BY <1>0, <1>5, <3>1, NoneLeft
  <2>5. CarryInv' BY <1>0, <2>1, <2>4, CarryBy
  <2> QED BY <1>7, <2>4, <2>5, AloneBy
<1> QED BY <1>9, <1>10

LEMMA OwnNewReply ==
  ASSUME RmiTypes, HelloInv, AloneInv, CarryInv, BrowserInv, NewReply
  PROVE  AloneInv' /\ CarryInv'
<1> PICK w \in Links : w = client.ws BY NewReplyDoes
<1> PICK m : m = Head(down[w]) OBVIOUS
<1>0. /\ down[w] # <<>> /\ m.op = "reply" /\ m.no \in Requests
      /\ down' = [down EXCEPT ![w] = Tail(down[w])] /\ client'.ws = w
      /\ client.waiting # <<>> => client'.callback = Head(client.waiting)
      /\ client.waiting = <<>> => client'.callback = 0
      /\ up' = IF sock[w] = "up" THEN [up EXCEPT ![w] = up[w] \o NextRequest] ELSE up
      /\ UNCHANGED <<sock, greeted, server, service>>
  BY NewReplyDoes
<1>1. m.no \in Nat BY <1>0, WsIs
<1>2. AloneOne(w) /\ \A p \in Places : Alone(p, w) BY <1>0 DEF AloneInv, AloneOne
<1>3. down'[w] = Tail(down[w]) /\ \A d \in Links : d # w => down'[d] = down[d] BY <1>0 DEF RmiTypes
<1>4. Lost("down", w, m.no) BY <1>0, <1>2, <1>3, DownLoses DEF Places
<1>5. \A d \in Links : d # w => up'[d] = up[d] BY <1>0 DEF RmiTypes
<1>6. ASSUME NEW d \in Links, d # w PROVE AloneOne(d)'
  <2>1. Kept("up", d) /\ Kept("down", d) /\ Elsewhere(d) BY <1>0, <1>3, <1>5, <1>6, SamePlace, RestKept
  <2>2. \A p \in Places : Kept(p, d) BY <2>1 DEF Elsewhere
  <2> QED BY <1>0, <2>2, AllKept DEF AloneInv
<1>7. \A p \in Places \ {"down"} : ~Lies(p, w, Nat)
  <2>1. Lies("down", w, Nat) BY <1>1, <1>4 DEF Lost
  <2> QED BY <1>2, <2>1 DEF AloneOne, Places
<1>8. w \notin server'.active
  <2>1. w \notin server.active BY <1>2, <1>7 DEF AloneOne, Places
  <2> QED BY <1>0, <2>1
<1>9. \A p \in Places \ {"up"} : Alone(p, w)' /\ \A N : ~Lies(p, w, N)'
  <2>1. Elsewhere(w) BY <1>0, RestKept
  <2>2. \A p \in Places \ {"up", "down"} : Kept(p, w) BY <2>1 DEF Elsewhere
  <2>3. \A p \in Places \ {"up", "down"} : Alone(p, w)' /\ \A N : ~Lies(p, w, N)'
    BY <1>2, <1>7, <2>2, LiesWidens DEF Kept
  <2>4. Alone("down", w)' /\ \A N : ~Lies("down", w, N)' BY <1>4 DEF Lost
  <2> QED BY <2>3, <2>4
<1>10. CASE sock[w] = "up" /\ client.waiting # <<>>
  <2> DEFINE h == Head(client.waiting)
  <2>1. h \in Nat /\ client'.callback = h /\ \A N : Some(NextRequest, Asks(N)) <=> h \in N
    BY <1>0, <1>10, NextHas
  <2> HIDE DEF h
  <2>2. up'[w] = up[w] \o NextRequest /\ NextRequest \in Seq(UpMessage) /\ Once(NextRequest, Asks(Nat))
    BY <1>0, <1>10, NextHas DEF RmiTypes
  <2>3. Got("up", w, h) BY <1>0, <2>1, <2>2, UpGets
  <2>4. (\A N : Lies("up", w, N)' <=> h \in N) /\ Alone("up", w)' BY <1>2, <1>7, <2>3 DEF Got, Places
  <2>5. AloneOne(w)' /\ (\A k \in Nat : OnWay(w, {k})' => k = h) /\ OnWay(w, Nat)'
    <3>1. \A p \in Places : Alone(p, w)' BY <1>9, <2>4
    <3> QED BY <1>0, <1>8, <1>9, <2>1, <2>4, <3>1, Born
  <2>6. CarryInv' BY <1>0, <2>1, <2>5, CarryBy
  <2> QED BY <1>6, <2>5, <2>6, AloneBy
<1>11. CASE ~(sock[w] = "up" /\ client.waiting # <<>>)
  <2>1. Kept("up", w)
    <3>1. CASE sock[w] = "up"
      <4>1. up'[w] = up[w] \o NextRequest /\ NextRequest \in Seq(UpMessage) /\ ~Some(NextRequest, Asks(Nat))
        BY <1>0, <1>11, <3>1, NextHas DEF RmiTypes
      <4> QED BY <1>0, <4>1, UpGets
    <3>2. CASE sock[w] # "up" BY <1>0, <3>2, SamePlace
    <3> QED BY <3>1, <3>2
  <2>2. AloneOne(w)' /\ \A N : ~OnWay(w, N)'
    <3>1. Alone("up", w)' /\ \A N : ~Lies("up", w, N)' BY <1>2, <1>7, <2>1, LiesWidens DEF Kept, Places
    <3>2. \A p \in Places : Alone(p, w)' /\ \A N : ~Lies(p, w, N)' BY <1>9, <3>1
    <3> QED BY <1>0, <1>8, <3>2, NoneLeft
  <2>3. sock'[w] = "up" => client'.callback \notin Requests BY <1>0, <1>11, WsIs
  <2>4. CarryInv' BY <1>0, <2>2, <2>3, CarryBy
  <2> QED BY <1>6, <2>2, <2>4, AloneBy
<1> QED BY <1>10, <1>11

LEMMA OwnWsClose ==
  ASSUME RmiTypes, AloneInv, WsClose
  PROVE  AloneInv' /\ CarryInv'
<1>0. client'.ws = 0 /\ UNCHANGED <<up, down, server, service>> BY WsCloseDoes DEF wires
<1>1. ASSUME NEW d \in Links PROVE AloneOne(d)'
  <2>1. Kept("up", d) /\ Kept("down", d) /\ Elsewhere(d) BY <1>0, SamePlace, RestKept
  <2>2. \A p \in Places : Kept(p, d) BY <2>1 DEF Elsewhere
  <2> QED BY <1>0, <2>2, AllKept DEF AloneInv
<1>2. CarryInv' BY <1>0, WsIs, CarryBy
<1> QED BY <1>1, <1>2, AloneBy

LEMMA OwnNext ==
  ASSUME RmiTypes, LinkInv, HelloInv, AloneInv, CarryInv, BrowserInv, RmiNext
  PROVE  AloneInv' /\ CarryInv'
<1>1. ASSUME client'.ws = client.ws, client'.callback = client.callback, fate' = fate,
             \A d \in Links : AloneOne(d)' /\ Carried(d) /\ (sock'[d] = "up" => sock[d] = "up")
      PROVE  AloneInv' /\ CarryInv'
  BY <1>1, AloneBy, CarryKeeps
<1>2. CASE Register \/ Unregister
  <2>1. client'.ws = client.ws /\ client'.callback = client.callback /\ fate' = fate /\ sock' = sock
    BY <1>2, AsyncDoes, SendAsyncDoes
  <2> QED BY <1>1, <1>2, <2>1, AloneAsync
<1>3. CASE NewSignal
  <2>1. client'.ws = client.ws /\ client'.callback = client.callback /\ fate' = fate /\ sock' = sock
    BY <1>3, NewSignalDoes DEF hist
  <2> QED BY <1>1, <1>3, <2>1, AloneSignal
<1>4. CASE Server
  <2>1. client' = client /\ fate' = fate /\ sock' = sock
    BY <1>4, HandleCallDoes, SendOutDoes DEF Server, hist
  <2> QED BY <1>1, <1>4, <2>1, AloneServer
<1>5. CASE RmiService \/ HandleRemote
  <2>1. UNCHANGED <<client, wires, fate>>
    BY <1>5, ReplyNowDoes, DelayReplyDoes, SendDelayedDoes, RegClientDoes, LeaveDoes, HandleRemoteDoes DEF RmiService, hist
  <2>2. client' = client /\ fate' = fate /\ sock' = sock BY <2>1 DEF wires
  <2> QED BY <1>1, <1>5, <2>2, AloneService
<1>6. ASSUME NEW c \in Links, Break(c) \/ Manager(c) PROVE AloneInv' /\ CarryInv'
  <2>0. sock \in [Links -> {"none", "up", "down", "told"}] BY DEF RmiTypes
  <2>1. /\ client' = client /\ fate' = fate
        /\ sock' = sock \/ sock' = [sock EXCEPT ![c] = "down"] \/ sock' = [sock EXCEPT ![c] = "told"]
    BY <1>6, BreakDoes, NewMsgDoes, LinkClosedDoes DEF Manager, hist
  <2>2. \A d \in Links : sock'[d] = "up" => sock[d] = "up" BY <2>0, <2>1
  <2> QED BY <1>1, <1>6, <2>1, <2>2, AloneNetwork
<1> QED
  BY <1>2, <1>3, <1>4, <1>5, <1>6, OwnSendRequest, OwnStart, OwnWsOpen, OwnNewReply, OwnWsClose
  DEF RmiNext, Application, Browser

----------------------------------------
(* RMI: the invariant, and what it says *)

LEMMA RmiBegins == RmiInit => RmiInv
<1> SUFFICES ASSUME RmiInit PROVE RmiInv OBVIOUS
<1>0. RmiTypes BY TypesBegin
<1>1. /\ client = [ws |-> 0, open |-> FALSE, active |-> FALSE, callback |-> 0,
                   waiting |-> <<>>, async |-> <<>>, rsigs |-> <<>>]
      /\ sock = [c \in Links |-> "none"] /\ greeted = {}
      /\ up = [c \in Links |-> <<>>] /\ down = [c \in Links |-> <<>>]
      /\ server  = [queue |-> <<>>, active |-> {}]
      /\ service = [queue |-> <<>>, listeners |-> <<>>, delayed |-> {}]
      /\ fate = [r \in Requests |-> "new"] /\ answers = <<>> /\ made.requests = 0
  BY DEF RmiInit
<1>2. MaxLinks \in Links /\ 0 \notin Links /\ 0 \notin Requests BY <1>0, WsIs
<1>3. LinkInv BY <1>1, <1>2 DEF LinkInv
<1>4. HelloInv BY <1>1, EmptyHas DEF HelloInv, Quiet
<1>5. ASSUME NEW d \in Links PROVE \A p \in Places : Alone(p, d) /\ \A N : ~Lies(p, d, N)
  BY <1>1, EmptyHas DEF Alone, Lies
<1>6. AloneInv BY <1>1, <1>5 DEF AloneInv, AloneOne
<1>7. CarryInv BY <1>1, <1>2 DEF CarryInv
<1>8. BrowserInv
  <2>1. Len(answers) = 0 /\ Len(client.waiting) = 0 /\ 1 .. 0 = {} BY <1>1
  <2> QED BY <1>1, <2>1 DEF BrowserInv
<1>9. GoneInv BY <1>1 DEF GoneInv
<1> QED BY <1>0, <1>3, <1>4, <1>6, <1>7, <1>8, <1>9 DEF RmiInv

(* The invariant is inductive. *)
LEMMA RmiKeeps == RmiInv /\ [RmiNext]_rmivars => RmiInv'
<1> SUFFICES ASSUME RmiInv, [RmiNext]_rmivars PROVE RmiInv' OBVIOUS
<1>0. RmiTypes /\ LinkInv /\ HelloInv /\ AloneInv /\ CarryInv /\ BrowserInv /\ GoneInv BY DEF RmiInv
<1>1. CASE RmiNext
  <2>1. RmiTypes' BY <1>0, <1>1, TypesNext
  <2>2. LinkInv' BY <1>0, <1>1, LinkNext
  <2>3. HelloInv' BY <1>0, <1>1, HelloNext
  <2>4. AloneInv' /\ CarryInv' BY <1>0, <1>1, OwnNext
  <2>5. BrowserInv' BY <1>0, <1>1, <2>1, BrowserNext
  <2>6. GoneInv' BY <1>0, <1>1, GoneNext
  <2> QED BY <2>1, <2>2, <2>3, <2>4, <2>5, <2>6 DEF RmiInv
<1>2. CASE UNCHANGED rmivars
  <2>1. UNCHANGED <<client, sock, up, down, greeted, server, service, made, fate, answers>>
    BY <1>2 DEF rmivars, wires, hist
  <2>2. RmiTypes' BY <1>0, <2>1 DEF RmiTypes
  <2>3. LinkInv' /\ GoneInv' BY <1>0, <2>1 DEF LinkInv, GoneInv
  <2>4. HelloInv' BY <1>0, <2>1 DEF HelloInv, Quiet
  <2>5. BrowserInv' BY <1>0, <2>1 DEF BrowserInv
  <2>6. \A d \in Links : \A p \in Places : Kept(p, d)
    <3> SUFFICES ASSUME NEW d \in Links PROVE \A p \in Places : Kept(p, d) OBVIOUS
    <3>1. Kept("up", d) /\ Kept("down", d) /\ Elsewhere(d) BY <2>1, SamePlace, RestKept
    <3> QED BY <3>1 DEF Elsewhere
  <2>7. \A d \in Links : AloneOne(d)' /\ Carried(d) BY <1>0, <2>1, <2>6, AllKept DEF AloneInv
  <2>8. AloneInv' /\ CarryInv' BY <1>0, <2>1, <2>7, AloneBy, CarryKeeps
  <2> QED BY <2>2, <2>3, <2>4, <2>5, <2>8 DEF RmiInv
<1> QED BY <1>1, <1>2

(* It says what RmiTypeOK and CallersAnswered say. *)
LEMMA RmiTyped == RmiInv => RmiTypeOK
<1> SUFFICES ASSUME RmiInv PROVE RmiTypeOK OBVIOUS
<1>0. RmiTypes /\ BrowserInv BY DEF RmiInv
<1>1. /\ UpMessage \subseteq CallMessage /\ DownMessage \subseteq CallMessage /\ Gone \in CallMessage /\ AsyncType \subseteq CallMessage
      /\ InPosts \subseteq [conn : Links, msg : CallMessage] /\ Calls \subseteq [conn : Links, msg : CallMessage]
  <2>1. Requests \subseteq Nat /\ Regs \subseteq Nat BY RMIAssumption DEF Requests, Regs
  <2> DEFINE T == {"hello", "request", "reg", "unreg", "reply", "signal", "gone"}
  <2>4. \A O, N : O \subseteq T /\ N \subseteq Nat => [op : O, no : N] \subseteq CallMessage
    BY DEF CallMessage
  <2>5. Greeting \in CallMessage /\ Gone \in CallMessage BY DEF Greeting, Gone, CallMessage
  <2>6. /\ [op : {"request"}, no : Requests] \subseteq CallMessage
        /\ [op : {"reg", "unreg"}, no : Regs] \subseteq CallMessage
        /\ [op : {"reply"}, no : Requests] \subseteq CallMessage
        /\ [op : {"signal"}, no : Regs] \subseteq CallMessage
    BY <2>1, <2>4
  <2>2. UpMessage \subseteq CallMessage /\ DownMessage \subseteq CallMessage /\ Gone \in CallMessage /\ AsyncType \subseteq CallMessage
    BY <2>5, <2>6 DEF UpMessage, DownMessage, AsyncType
  <2>3. Posts \subseteq [conn : Links, msg : CallMessage] BY <2>2 DEF Posts
  <2> QED BY <2>2, <2>3, Subsets
<1>2. /\ client.ws \in 0 .. MaxLinks /\ client.open \in BOOLEAN /\ client.active \in BOOLEAN
      /\ client.callback \in 0 .. MaxRequests /\ client.waiting \in Seq(Requests)
      /\ client.async \in Seq(AsyncType) /\ client.rsigs \in Seq(Regs)
  BY <1>0 DEF RmiTypes, ClientType
<1>3. client.async \in Seq(CallMessage) BY <1>1, <1>2, SeqGrows
<1>4. \A c \in Links : up[c] \in Seq(CallMessage) /\ down[c] \in Seq(CallMessage)
  <2>1. \A c \in Links : up[c] \in Seq(UpMessage) /\ down[c] \in Seq(DownMessage) BY <1>0 DEF RmiTypes
  <2> QED BY <1>1, <2>1, SeqGrows
<1>5. up \in [Links -> Seq(CallMessage)] /\ down \in [Links -> Seq(CallMessage)]
  <2>1. up \in [Links -> Seq(UpMessage)] /\ down \in [Links -> Seq(DownMessage)] BY <1>0 DEF RmiTypes
  <2> QED BY <1>4, <2>1
<1>6. /\ server.queue \in Seq([conn : Links, msg : CallMessage])
      /\ service.queue \in Seq([conn : Links, msg : CallMessage])
  <2>1. server.queue \in Seq(InPosts) /\ service.queue \in Seq(Calls) BY <1>0 DEF RmiTypes
  <2> DEFINE P == [conn : Links, msg : CallMessage]
  <2>2. InPosts \subseteq P /\ Calls \subseteq P BY <1>1
  <2> HIDE DEF P
  <2>3. server.queue \in Seq(P) /\ service.queue \in Seq(P) BY <2>1, <2>2, SeqGrows
  <2> QED BY <2>3 DEF P
<1>7. sock \in [Links -> {"none", "up", "down", "told"}] /\ greeted \subseteq Links /\ server.active \subseteq Links
  BY <1>0 DEF RmiTypes
<1>8. client.callback # 0 \/ client.waiting # <<>> \/ client.rsigs # <<>> => client.active
  BY <1>0 DEF BrowserInv
<1> QED BY <1>2, <1>3, <1>5, <1>6, <1>7, <1>8 DEF RmiTypeOK

LEMMA RmiAnswers == RmiInv => CallersAnswered
<1> SUFFICES ASSUME RmiInv PROVE CallersAnswered OBVIOUS
<1>0. RmiTypes /\ LinkInv /\ HelloInv /\ AloneInv /\ CarryInv /\ BrowserInv /\ GoneInv BY DEF RmiInv
<1>1. RepliesMatch
  <2>1. \A i \in 2 .. Len(answers) : i - 1 \in 1 .. Len(answers) /\ i \in 1 .. Len(answers) /\ i - 1 < i
    BY <1>0 DEF RmiTypes
  <2> QED BY <1>0, <2>1 DEF RepliesMatch, BrowserInv
<1>2. NothingKept
  <2>1. ASSUME NEW i \in 1 .. Len(service.listeners)
        PROVE  LET c == service.listeners[i].conn IN
               \/ sock[c] # "told"
               \/ Pending(server.queue, c, "gone") \/ Pending(service.queue, c, "gone")
    <3> DEFINE e == service.listeners[i]
               c == e.conn
    <3>1. service.listeners \in Seq(Listener) BY <1>0 DEF RmiTypes
    <3>2. e \in Listener BY <3>1, ElementIs
    <3>3. e \in Posts /\ c \in Links /\ e.msg.op = "reg" BY <3>2, Subsets DEF Listener
    <3>4. Some(service.listeners, Regd(c)) BY <3>3 DEF Some, Regd
    <3>5. sock[c] = "told" => Some(server.queue, GoneOf(c)) \/ Some(service.queue, GoneOf(c))
      BY <1>0, <3>3, <3>4 DEF GoneInv
    <3> HIDE DEF e, c
    <3>6. \A q : Some(q, GoneOf(c)) => Pending(q, c, "gone")
      BY DEF Some, GoneOf, Gone, Pending
    <3>7. sock[c] # "told" \/ Pending(server.queue, c, "gone") \/ Pending(service.queue, c, "gone")
      BY <3>5, <3>6
    <3> QED BY <3>7 DEF c, e
  <2>2. ASSUME NEW c \in server.active
        PROVE  \/ Pending(service.queue, c, "request") \/ Pending(server.queue, c, "reply")
               \/ \E e \in service.delayed : e.conn = c
    <3>1. c \in Links BY <1>0 DEF RmiTypes
    <3>2. PICK p \in {"service", "delayed", "reply"} : Lies(p, c, Nat) BY <1>0, <3>1 DEF AloneInv, AloneOne
    <3>3. \A q : Some(q, AsksOf(c, Nat)) => Pending(q, c, "request") BY DEF Some, AsksOf, Pending
    <3>4. \A q : Some(q, RepliesOf(c, Nat)) => Pending(q, c, "reply") BY DEF Some, RepliesOf, Pending
    <3>5. service.delayed \cap AsksOf(c, Nat) # {} => \E e \in service.delayed : e.conn = c BY DEF AsksOf
    <3> QED BY <3>2, <3>3, <3>4, <3>5 DEF Lies
  <2> QED BY <2>1, <2>2 DEF NothingKept
<1>3. Served
  <2> SUFFICES ASSUME AtRest
               PROVE  (\A r \in Requests : fate[r] \notin {"waits", "sent"}) /\ client.rsigs = <<>>
    BY DEF Served
  <2>1. MaxLinks \in Links /\ (client.ws # 0 <=> client.ws \in Links) /\ 0 \notin Links BY <1>0, WsIs
  <2>2. client.ws # 0
    <3> SUFFICES ASSUME client.ws = 0 PROVE FALSE OBVIOUS
    <3>1. sock[MaxLinks] # "none" BY <2>1 DEF AtRest
    <3> QED BY <1>0, <2>1, <3>1 DEF LinkInv
  <2>3. /\ client.open /\ sock[client.ws] = "up" /\ down[client.ws] = <<>>
        /\ up[client.ws] = <<>> /\ server.queue = <<>> /\ service.queue = <<>> /\ service.delayed = {}
    BY <2>1, <2>2 DEF AtRest
  <2>4. ~OnWay(client.ws, Nat) BY <2>3, EmptyHas DEF OnWay, Lies
  <2>5. \A r \in Requests : fate[r] # "sent"
    <3> SUFFICES ASSUME NEW r \in Requests, fate[r] = "sent" PROVE FALSE OBVIOUS
    <3>1. r = client.callback BY <1>0 DEF BrowserInv
    <3> QED BY <1>0, <2>1, <2>2, <2>3, <2>4, <3>1 DEF CarryInv
  <2>6. ~client.active
    <3> SUFFICES ASSUME client.active PROVE FALSE OBVIOUS
    <3>1. client.callback # 0 /\ fate[client.callback] = "sent" BY <1>0, <2>3 DEF BrowserInv
    <3> QED BY <1>0, <2>5, <3>1, WsIs
  <2>7. client.waiting = <<>> /\ client.rsigs = <<>> BY <1>0, <2>6 DEF BrowserInv
  <2>8. \A r \in Requests : fate[r] # "waits"
    <3>1. Len(client.waiting) = 0 /\ 1 .. 0 = {} BY <2>7
    <3> QED BY <1>0, <3>1 DEF BrowserInv
  <2> QED BY <2>5, <2>7, <2>8
<1> QED BY <1>1, <1>2, <1>3 DEF CallersAnswered, NothingLeft

(* A callback gets the reply to its own request, replies come in the order *)
(* of the requests over any number of connections, no request is refused; *)
(* the server keeps neither a listener of a connection whose end it has *)
(* heard of, nor an active request without a reply on its way; and when *)
(* browser and threads have nothing left to do, nothing waits *)
(* (js/net/rmi.mjs, rmiserverbase.cpp, rmiservice.cpp, rsig.h). *)
THEOREM CallersAnsweredHolds == RmiSpec => [](RmiTypeOK /\ CallersAnswered)
<1>1. RmiInv => RmiTypeOK /\ CallersAnswered BY RmiTyped, RmiAnswers
<1> QED BY RmiBegins, RmiKeeps, <1>1, PTL DEF RmiSpec
========================================
