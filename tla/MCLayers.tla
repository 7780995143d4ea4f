------------------------------ MODULE MCLayers ------------------------------
(* The instances of the layers between a socket and what an application    *)
(* sends that TLC checks, one at a time: the descriptors of the manager,   *)
(* the TLS stream, the frames of a WebSocket and its timeouts,             *)
(* serialization.                                                          *)
EXTENDS TLSConnection, TCPManager, WSFrames, BER

(* The values that are serialized: boundaries of the numbers and lengths.  *)
Rep(n, b) == [i \in 1 .. n |-> b]
Whole(width, signed, v) == [type |-> [kind |-> "int", width |-> width, signed |-> signed], v |-> SubSeq(Nine(v, signed /\ v[Len(v)] >= 128), 1, 8)]
Bytes(v) == [type |-> [kind |-> "bytes"], v |-> v]
Text(v) == [type |-> [kind |-> "string"], v |-> v]
Real(w, b) == [type |-> [kind |-> "real", width |-> w], v |-> Rep(w, b)]
List(of, v) == [type |-> [kind |-> "list", of |-> of], v |-> v]
Object(of, v) == [type |-> [kind |-> "object", of |-> of], v |-> v]
Shared(of, v) == [type |-> [kind |-> "shared", of |-> of], v |-> v]
I64 == [kind |-> "int", width |-> 8, signed |-> TRUE]
B == [kind |-> "bytes"]
BerValues ==
  <<Whole(1, TRUE, <<255>>), Whole(1, FALSE, <<255>>), Whole(2, TRUE, <<128, 0>>), Whole(2, FALSE, <<0, 128>>),
   Whole(2, TRUE, <<127, 255>>), Whole(4, TRUE, <<0,0,0,128>>), Whole(4, FALSE, <<255,255,255,255>>),
   Whole(8, TRUE, <<0>>), Whole(8, TRUE, <<255,255,255,255,255,255,31,0>>), Whole(8, TRUE, <<0,0,0,0,0,0,0,128>>),
   Whole(8, FALSE, <<255,255,255,255,255,255,255,255>>),
   Real(4, 0), Real(8, 7),
   Bytes(Null), Bytes(<<<<>>>>), Bytes(<<Rep(127, 1)>>), Bytes(<<Rep(128, 1)>>),
   Text(Null), Text(<<<<>>>>), Text(<<<<65, 233>>>>), Text(<<<<8364, 65, 128512, 233>>>>),Text(<<<<128512, 128512, 128512>>>>),
   List(<<B>>, <<>>), List(<<B>>, <<Null, <<<<>>>>, <<<<7>>>>>>), List(<<B>>, <<<<Rep(130, 2)>>>>),
   List(<<I64, B>>, <<Rep(8, 0), <<<<1>>>>, Rep(8, 255), Null>>),
   Shared(<<I64>>, Null), Shared(<<I64>>, <<1, <<Rep(8, 0)>>, <<Rep(8, 0)>>>>), Shared(<<B>>, <<2, <<<<<<5>>>>>>, <<>>>>),
   List(<<[kind |-> "shared", of |-> <<I64>>]>>,
        <<<<1, <<Rep(8, 9)>>, <<Rep(8, 255)>>>>, Null, <<2, <<Rep(8, 1)>>, <<>>>>, <<1, <<Rep(8, 0)>>, <<Rep(8, 1)>>>>>>),
   Object(<<I64, B>>, <<Rep(8, 0), Null>>), Object(<<I64, B>>, <<Rep(8, 255), <<<<1>>>>>>), Object(<<I64, B>>, <<Rep(8, 0), <<<<1>>>>>>)>>
BerClasses ==
  <<[id |-> <<7, 0, 0, 200, 0, 0, 0, 0>>, of |-> <<I64>>, known |-> TRUE],
    [id |-> <<8, 0, 0, 0, 0, 0, 0, 0>>, of |-> <<>>, known |-> FALSE]>>

VARIABLE part

layervars == <<part, tlsvars, managervars, framevars, alivevars, bervars>>

LayersInit ==
  /\ part \in {"tls", "manager", "frames", "alive", "ber"}
  /\ TlsInit /\ ManagerInit /\ FramesInit /\ AliveInit /\ BerInit
  /\ part # "ber" => ser.lang = "js" /\ ser.gap = 0

Sockets == UNCHANGED <<tlsvars, managervars>>
Frames  == UNCHANGED <<framevars, alivevars>>

InPart ==
  \/ part = "tls"     /\ TlsNext     /\ UNCHANGED <<managervars, bervars>> /\ Frames
  \/ part = "manager" /\ ManagerNext /\ UNCHANGED <<tlsvars, bervars>> /\ Frames
  \/ part = "frames"  /\ FramesNext  /\ UNCHANGED <<alivevars, bervars>> /\ Sockets
  \/ part = "alive"   /\ AliveNext   /\ UNCHANGED <<framevars, bervars>> /\ Sockets
  \/ part = "ber"     /\ BerNext     /\ Sockets /\ Frames

LayersNext == InPart /\ UNCHANGED part

LayersSpec == LayersInit /\ [][LayersNext]_layervars

----------------------------------------
(* The frames of a WebSocket connection are exact, and it is kept as long  *)
(* as its client answers.                                                  *)
WebSocketKept == FramesExact /\ GivenUpInTime
========================================
