-------------------------- MODULE KafkaAssignment --------------------------
(***************************************************************************)
(* How the leader of a Kafka group shares out the partitions:              *)
(* KafkaConnector::Impl::computeGroupAssignment(), one turn of its loops   *)
(* per step.  Members and topics are numbered in the order of their names. *)
(***************************************************************************)
EXTENDS Integers, FiniteSets, FiniteSetsExt

CONSTANTS
  Members,    \* 1 .. m
  Topics,     \* 1 .. n
  Partitions  \* ids of partitions, 0 .. p - 1

ASSUME AssignAssumption ==
  /\ Members \subseteq Nat /\ Topics \subseteq Nat /\ Partitions \subseteq Nat
  /\ IsFiniteSet(Members) /\ IsFiniteSet(Topics) /\ IsFiniteSet(Partitions)

VARIABLES
  at,       \* "idle", "share" or "done"
  protocol,
  subs,     \* memberTopics: the topics each member subscribes to
  known,    \* responsibilities_: the partitions known of each topic
  given,    \* rv: who gets what
  topics,   \* topics to come ("range")
  left,     \* allTopicPartitions ("roundrobin")
  waiting,  \* members to come in this topic ("range")
  count,    \* members of this topic
  pId,      \* next partition of this topic
  turn      \* members[memberId] ("roundrobin")

avars == <<at, protocol, subs, known, given, topics, left, waiting, count, pId, turn>>

Keys(s) == {m \in DOMAIN s : s[m] # {}}
Subscribers(t) == {m \in Members : t \in subs[m]}

AssignInit ==
  /\ at = "idle" /\ protocol = "range"
  /\ subs = [m \in Members |-> {}] /\ known = [t \in Topics |-> {}]
  /\ given = [m \in Members |-> {}]
  /\ topics = {} /\ left = {} /\ waiting = {} /\ count = 0 /\ pId = 0 /\ turn = 0

\* The members of the reply to JoinGroup and the metadata read before.
Subscribe(s, k) ==
  /\ subs' = s /\ known' = k
  /\ UNCHANGED <<given, waiting, count, pId>>

BeginShares ==
  /\ at = "idle"
  /\ \E s \in [Members -> SUBSET Topics], k \in [Topics -> SUBSET Partitions] :
      /\ Subscribe(s, k)
      /\ at' = IF Keys(s) = {} THEN "done" ELSE "share"
      /\ \/ Keys(s) = {} /\ UNCHANGED <<protocol, topics, left, turn>>
         \/ /\ Keys(s) # {} /\ protocol' = "range"
            /\ topics' = {t \in UNION {s[m] : m \in Members} : k[t] # {}}
            /\ UNCHANGED <<left, turn>>
         \/ /\ Keys(s) # {} /\ protocol' = "roundrobin"
            /\ left' = UNION {{<<t, i>> : i \in 0 .. Cardinality(k[t]) - 1} :
                              t \in UNION {s[m] : m \in Members}}
            /\ turn' = Min(Keys(s))
            /\ UNCHANGED topics

SharesDone ==
  /\ at = "share" /\ topics = {} /\ left = {}
  /\ at' = "done"
  /\ UNCHANGED <<protocol, subs, known, given, topics, left, waiting, count, pId, turn>>

----------------------------------------
(* "range": each topic is cut into one piece per member. *)

RangeTopic ==
  /\ at = "share" /\ protocol = "range" /\ waiting = {} /\ topics # {}
  /\ LET t == Min(topics) IN waiting' = Subscribers(t) /\ count' = Cardinality(Subscribers(t))
  /\ pId' = 0
  /\ UNCHANGED <<at, protocol, subs, known, given, topics, left, turn>>

\* partitionsPerMember, and one of the unassignedPartitions while there are any
Share(t, i) ==
  Cardinality(known[t]) \div count + (IF i < Cardinality(known[t]) % count THEN 1 ELSE 0)

RangeMember ==
  /\ at = "share" /\ protocol = "range" /\ waiting # {}
  /\ LET t == Min(topics)
         m == Min(waiting)
         n == Share(t, count - Cardinality(waiting))
     IN  /\ given' = [given EXCEPT ![m] = @ \cup {<<t, i>> : i \in pId .. pId + n - 1}]
         /\ pId' = pId + n
         /\ waiting' = waiting \ {m}
         /\ topics' = IF waiting = {m} THEN topics \ {t} ELSE topics
  /\ UNCHANGED <<at, protocol, subs, known, left, count, turn>>

----------------------------------------
(* "roundrobin": the members take turns, each takes the first partition of *)
(* a topic of its own, or none.                                            *)

Before(x, y) == x[1] < y[1] \/ (x[1] = y[1] /\ x[2] < y[2])
First(S) == CHOOSE x \in S : \A y \in S \ {x} : Before(x, y)

\* Mutant: the last member keeps the turn.
NextMemberStays(m) ==
  IF \E n \in Keys(subs) : n > m THEN Min({n \in Keys(subs) : n > m}) ELSE m

NextMember(m) ==
  IF \E n \in Keys(subs) : n > m THEN Min({n \in Keys(subs) : n > m}) ELSE Min(Keys(subs))

RoundRobin ==
  /\ at = "share" /\ protocol = "roundrobin" /\ left # {}
  /\ LET own == {x \in left : x[1] \in subs[turn]}
     IN  IF own = {} THEN UNCHANGED <<given, left>>
         ELSE /\ given' = [given EXCEPT ![turn] = @ \cup {First(own)}]
              /\ left' = left \ {First(own)}
  /\ turn' = NextMember(turn)
  /\ UNCHANGED <<at, protocol, subs, known, topics, waiting, count, pId>>

----------------------------------------
AssignNext == BeginShares \/ RangeTopic \/ RangeMember \/ RoundRobin \/ SharesDone
AssignSpec == AssignInit /\ [][AssignNext]_avars

----------------------------------------
(* Properties *)

Owners(t, i) == {m \in Members : <<t, i>> \in given[m]}
Numbered == \A t \in Topics : known[t] = 0 .. Cardinality(known[t]) - 1

(* The shares, when complete: every partition of a topic somebody          *)
(* subscribes to belongs to exactly one member, who subscribes to it (if   *)
(* partitions are numbered from 0, as Kafka does), nothing is made up.     *)
AssignedOnce ==
  Numbered =>
    \A t \in Topics :
      /\ \A i \in known[t] : Subscribers(t) # {} =>
           \E m \in Subscribers(t) : Owners(t, i) = {m}
      /\ \A m \in Members : \A x \in given[m] : x[2] \in known[x[1]] /\ x[1] \in subs[m]

(* They are even: "range" gives the subscribers of a topic as many of it,  *)
(* and "roundrobin" members that all want the same as many in all, but for *)
(* one partition.                                                          *)
PartOf(m, t) == {x \in given[m] : x[1] = t}
Even ==
  IF protocol = "range"
  THEN \A t \in Topics : \A m, n \in Subscribers(t) :
         Cardinality(PartOf(m, t)) <= Cardinality(PartOf(n, t)) + 1
  ELSE (\A m, n \in Keys(subs) : subs[m] = subs[n]) =>
         \A m, n \in Keys(subs) : Cardinality(given[m]) <= Cardinality(given[n]) + 1

(* computeGroupAssignment() returns such shares.                           *)
SharesFair == at = "done" => AssignedOnce /\ Even

(* Every round of turns gives something, so that it returns.               *)
TurnAfter[n \in Nat] == IF n = 0 THEN turn ELSE NextMember(TurnAfter[n - 1])
NoIdleRound ==
  (at = "share" /\ protocol = "roundrobin" /\ left # {}) =>
    \E n \in 0 .. Cardinality(Members), x \in left : x[1] \in subs[TurnAfter[n]]

(* It always returns, and with fair shares.                                *)
FairShares == SharesFair /\ NoIdleRound
========================================
