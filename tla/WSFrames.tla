------------------------------ MODULE WSFrames ------------------------------
(***************************************************************************)
(* The frames of one WebSocket connection: WSConnHandler of                *)
(* net/websocketservice.cpp.  What a client sends is a stream of frames    *)
(* that TCP cuts anywhere; the handler puts messages together, answers     *)
(* pings, and stops at the message the service stops it at.  InBuf are     *)
(* told by their place in the stream: a payload is the place of its first  *)
(* byte and its length, only the bytes of the length of a frame are spelt. *)
(***************************************************************************)
EXTENDS Integers, Sequences, FiniteSets, SequencesExt

CONSTANTS
  Lengths,    \* of the first frames of messages
  MoreLengths,\* of the others
  Sizes,      \* of the messages the service sends
  Deflate,    \* deflateEnabled_
  MaxFrames,  \* frames the client sends
  MaxBeside   \* frames the client sends when the service sends a message, too

VARIABLES
  stream,   \* the frames the client sends
  buf,      \* buf_: the stream from the byte after first up to last
  frag,     \* fragmentBuf_, isBinary_, isDeflated_
  reading,  \* "watch" for bytes, "loop" of continueRead, "stopped", "closed"
  told,     \* what newMsg was called with
  out,      \* frames written
  sent      \* history: the messages the service has sent

framevars == <<stream, buf, frag, reading, told, out, sent>>

----------------------------------------
(* Lengths on the wire *)

\* As RFC 6455 has it, after the bit of the mask is removed.
LengthBytes(n) ==
  IF n < 126 THEN <<n>>
  ELSE IF n < 65536 THEN <<126, n \div 256, n % 256>>
  ELSE <<127, 0, 0, 0, 0, n \div 16777216, (n \div 65536) % 256, (n \div 256) % 256, n % 256>>

LengthRead(b) ==
  IF b[1] < 126 THEN b[1] ELSE FoldLeft(LAMBDA n, x : 256 * n + x, 0, Tail(b))

FrameSize(f) == 1 + Len(LengthBytes(f.len)) + (IF f.mask THEN 4 ELSE 0) + f.len
EndOf(s)     == FoldLeft(LAMBDA n, f : n + FrameSize(f), 0, s)
Start(i)     == EndOf(SubSeq(stream, 1, i - 1))

----------------------------------------
(* The client: messages in one frame or in several, control frames between *)
(* them; it may also forget the mask or use an unknown opcode.  All is on  *)
(* its way before the first byte arrives.                                  *)

Frame(op, fin, deflate, len) ==
  [op |-> op, fin |-> fin, deflate |-> deflate, len |-> len, mask |-> TRUE]

Open(s) ==  \* a message has begun and not ended
  LET data == {i \in DOMAIN s : s[i].op \in {0, 1, 2}}
  IN  data # {} /\ ~s[CHOOSE i \in data : \A j \in data : j <= i].fin

Ends(s) == \E i \in DOMAIN s : s[i].op = 8 \/ ~s[i].mask

DataFrames ==
  IF Open(stream) THEN {Frame(0, fin, FALSE, n) : fin \in BOOLEAN, n \in MoreLengths}
  ELSE {Frame(IF d THEN 1 ELSE 2, fin, d /\ Deflate, n) : fin \in BOOLEAN, d \in BOOLEAN, n \in Lengths}
ControlFrames ==
  {Frame(9, TRUE, FALSE, 125), [Frame(1, TRUE, FALSE, 1) EXCEPT !.mask = FALSE]}
    \cup {Frame(op, TRUE, FALSE, 0) : op \in {8, 10}}

ClientSends ==
  /\ Len(stream) < (IF sent = <<>> THEN MaxFrames ELSE MaxBeside)
  /\ ~Ends(stream) /\ buf.last = 0
  /\ \E f \in DataFrames \cup ControlFrames : stream' = Append(stream, f)
  /\ UNCHANGED <<buf, frag, reading, told, out, sent>>

\* In a frame the stream is cut in its header, its mask, before its last
\* byte, or not.
Cuts ==
  UNION {LET f == stream[i]
             h == 1 + Len(LengthBytes(f.len))
         IN  {Start(i) + n : n \in {1, h - 1, h, h + 3, FrameSize(f) - 1, FrameSize(f)}} :
         i \in DOMAIN stream}

----------------------------------------
(* newBytesAvailable and continueRead *)

InBuf == buf.last - buf.first

NewBytesAvailable ==
  /\ reading = "watch"
  /\ \E c \in Cuts : buf.last < c /\ c <= EndOf(stream) /\ buf' = [buf EXCEPT !.last = c]
  /\ reading' = "loop"
  /\ UNCHANGED <<stream, frag, told, out, sent>>

ReadOn ==
  /\ reading' = "watch"
  /\ UNCHANGED <<stream, buf, frag, told, out, sent>>

TooFew == reading = "loop" /\ InBuf < 2 /\ ReadOn

\* The service that stopped the connection lets it go on.
ContinueRead ==
  /\ reading = "stopped"
  /\ reading' = "loop"
  /\ UNCHANGED <<stream, buf, frag, told, out, sent>>

----------------------------------------
(* handleData: what is at the front of the buffer, read as a frame *)

AtCurrent == CHOOSE i \in DOMAIN stream : Start(i) = buf.first
Aligned == \E i \in DOMAIN stream : Start(i) = buf.first
Current   == stream[AtCurrent]

\* The bytes before the mask: two, four or ten.
Header ==
  LET l == LengthBytes(Current.len)[1] IN IF l < 126 THEN 2 ELSE IF l = 126 THEN 4 ELSE 10

NeedsMore ==
  \/ InBuf < Header
  \/ InBuf - Header < LengthRead(LengthBytes(Current.len)) + 4

Payload == [at |-> buf.first + Header + 4, len |-> LengthRead(LengthBytes(Current.len))]

InHand == reading = "loop" /\ InBuf >= 2 /\ Aligned
WholeFrame == InHand /\ Current.mask /\ ~NeedsMore
Took == buf' = [buf EXCEPT !.first = @ + Header + 4 + Payload.len]

NotMasked ==
  /\ InHand /\ ~Current.mask
  /\ reading' = "closed"
  /\ UNCHANGED <<stream, buf, frag, told, out, sent>>

NeedMoreData == InHand /\ Current.mask /\ NeedsMore /\ ReadOn

Message(binary, inflate, parts) == [binary |-> binary, inflate |-> inflate, parts |-> parts]

\* The service may stop the connection at a message.
NewMsg(m) ==
  /\ told' = Append(told, m)
  /\ reading' \in {"loop", "stopped"}

\* Mutant: the parts of a message stay for the next one.
ContinuationKeeps ==
  /\ WholeFrame /\ Current.op = 0
  /\ LET all == Append(frag.parts, Payload) IN
     /\ frag' = [frag EXCEPT !.parts = all]
     /\ IF Current.fin THEN NewMsg(Message(frag.binary, frag.deflated, all))
        ELSE UNCHANGED <<told, reading>>
  /\ Took
  /\ UNCHANGED <<stream, out, sent>>

Continuation ==
  /\ WholeFrame /\ Current.op = 0
  /\ LET all == Append(frag.parts, Payload) IN
     IF Current.fin
     THEN frag' = [frag EXCEPT !.parts = <<>>] /\ NewMsg(Message(frag.binary, frag.deflated, all))
     ELSE frag' = [frag EXCEPT !.parts = all] /\ UNCHANGED <<told, reading>>
  /\ Took
  /\ UNCHANGED <<stream, out, sent>>

Fragment ==
  /\ WholeFrame /\ Current.op \in {1, 2} /\ ~Current.fin
  /\ frag' = [parts |-> Append(frag.parts, Payload), binary |-> Current.op = 2,
              deflated |-> Deflate /\ Current.deflate]
  /\ Took
  /\ UNCHANGED <<stream, reading, told, out, sent>>

Single ==
  /\ WholeFrame /\ Current.op \in {1, 2} /\ Current.fin
  /\ NewMsg(Message(Current.op = 2, Deflate /\ Current.deflate, <<Payload>>))
  /\ Took
  /\ UNCHANGED <<stream, frag, out, sent>>

CloseFrame ==
  /\ WholeFrame /\ Current.op = 8
  /\ reading' = "closed" /\ Took
  /\ UNCHANGED <<stream, frag, told, out, sent>>

\* The header is sent back without the mask, the payload without its bytes.
Ping ==
  /\ WholeFrame /\ Current.op = 9
  /\ out' = Append(out, [op |-> 10, deflate |-> FALSE, len |-> LengthBytes(Current.len), payload |-> Payload])
  /\ Took
  /\ UNCHANGED <<stream, frag, reading, told, sent>>

\* A pong, or a frame of an opcode that is not known.
Ignored ==
  /\ WholeFrame /\ Current.op \notin {0, 1, 2, 8, 9}
  /\ Took
  /\ UNCHANGED <<stream, frag, reading, told, out, sent>>

----------------------------------------
(* send *)

LengthWritten(n) ==
  IF n < 126 THEN <<n>>
  ELSE IF n < 65536 THEN <<126, (n \div 256) % 256, n % 256>>
  ELSE <<127, 0, 0, 0, 0, n \div 16777216, (n \div 65536) % 256, (n \div 256) % 256, n % 256>>

\* A long message is compressed, to anything up to a few bytes more.
Compressed(n) ==
  IF Deflate /\ n > 256 THEN [yes |-> TRUE, sizes |-> {1, n, n + 5}]
  ELSE [yes |-> FALSE, sizes |-> {n}]

Send ==
  /\ sent = <<>> /\ Len(stream) <= MaxBeside
  /\ \E n \in Sizes, binary \in BOOLEAN : \E m \in Compressed(n).sizes :
       /\ sent' = Append(sent, [binary |-> binary, deflate |-> Compressed(n).yes, len |-> m])
       /\ out' = Append(out, [op |-> IF binary THEN 2 ELSE 1, deflate |-> Compressed(n).yes,
                              len |-> LengthWritten(m), payload |-> [at |-> 0, len |-> m]])
  /\ UNCHANGED <<stream, buf, frag, reading, told>>

----------------------------------------
FramesInit ==
  /\ stream = <<>> /\ buf = [first |-> 0, last |-> 0]
  /\ frag = [parts |-> <<>>, binary |-> FALSE, deflated |-> FALSE]
  /\ reading = "watch" /\ told = <<>> /\ out = <<>> /\ sent = <<>>

HandleData == NotMasked \/ NeedMoreData \/ Continuation \/ Fragment \/ Single
                \/ CloseFrame \/ Ping \/ Ignored

FramesNext == ClientSends \/ NewBytesAvailable \/ TooFew \/ ContinueRead \/ HandleData \/ Send

FramesSpec == FramesInit /\ [][FramesNext]_framevars

----------------------------------------
(* Properties *)

(* The messages in the first n frames of the stream, as the client meant   *)
(* them: the frames with data from one that is no continuation to the next *)
(* that is final.                                                          *)
Meant(n) ==
  LET data   == SelectSeq([i \in 1 .. n |-> i], LAMBDA i : stream[i].op \in {0, 1, 2})
      part(i) == [at |-> Start(i) + FrameSize(stream[i]) - stream[i].len, len |-> stream[i].len]
      firsts == SelectSeq([k \in DOMAIN data |-> k], LAMBDA k : stream[data[k]].op # 0)
      last(k) == {j \in k .. Len(data) : stream[data[j]].fin /\ \A x \in k .. j - 1 : ~stream[data[x]].fin}
      msg(k)  == LET j == CHOOSE x \in last(k) : TRUE
                 IN  Message(stream[data[k]].op = 2, stream[data[k]].deflate,
                             [x \in 1 .. j - k + 1 |-> part(data[k + x - 1])])
  IN  LET whole == SelectSeq(firsts, LAMBDA k : last(k) # {})
      IN  [x \in DOMAIN whole |-> msg(whole[x])]

(* However TCP cuts the stream, and wherever the service stops it, frames  *)
(* are told apart, each message reaches the service once, whole and in     *)
(* order, and none waits in the buffer while the connection watches for    *)
(* more; every ping is answered with its own payload.  What the service    *)
(* sends, the client reads.                                                *)
Handled == {i \in DOMAIN stream : Start(i) + FrameSize(stream[i]) <= buf.first}
FramesExact ==
  LET n     == Cardinality(Handled)
      pongs == SelectSeq(out, LAMBDA f : f.op = 10)
      texts == SelectSeq(out, LAMBDA f : f.op # 10)
      pings == SelectSeq([i \in 1 .. n |-> i], LAMBDA i : stream[i].op = 9)
  IN
  /\ buf.first = EndOf(SubSeq(stream, 1, n))
  /\ told = Meant(n)
  /\ reading = "watch" => n = Len(stream) \/ buf.last < Start(n + 1) + FrameSize(stream[n + 1])
  /\ Len(pongs) = Len(pings)
  /\ \A k \in DOMAIN pongs : LET i == pings[k] IN
       /\ pongs[k].payload = [at |-> Start(i) + FrameSize(stream[i]) - stream[i].len, len |-> stream[i].len]
       /\ LengthRead(pongs[k].len) = stream[i].len
  /\ Len(texts) = Len(sent)
  /\ \A k \in DOMAIN texts :
       /\ LengthRead(texts[k].len) = sent[k].len /\ texts[k].deflate = sent[k].deflate
       /\ texts[k].op = IF sent[k].binary THEN 2 ELSE 1
----------------------------------------
(***************************************************************************)
(* How WebSocketService finds out that a client has gone: checkTimeout,    *)
(* called by its timer, pings a connection that was quiet and closes one   *)
(* that was quiet for too long.  Time is in quarters of                    *)
(* connectionTimeoutSec, the period of the timer; the clock is taken not   *)
(* to be set back.                                                         *)
(***************************************************************************)

CONSTANT Patience   \* the longest time from a ping until bytes go and come

connectionSendInterval == 2
connectionDataTimeout  == 6
ASSUME KeepAliveAssumption ==
  Patience \in Nat /\ connectionSendInterval + Patience <= connectionDataTimeout

VARIABLES
  age,     \* time since lastRead_ and since lastWrite_
  due,     \* the timer has expired
  alive,   \* the client takes what is written, and answers
  asked,   \* time since a ping after which nothing was read, or written; -1: none
  paused, \* the service has paused reading
  open     \* not closed by checkTimeout

alivevars == <<age, due, alive, asked, paused, open>>

Both(n) == [read |-> n, write |-> n]

AliveInit ==
  /\ age = Both(0) /\ asked = Both(-1)
  /\ due = FALSE /\ alive = TRUE /\ paused = FALSE /\ open = TRUE

(* Time passes.  The timer is served in time, and so is a ping by a client *)
(* that lives; the service does not stop reading for longer than that.     *)
Tick ==
  /\ open /\ ~due /\ due' = TRUE
  /\ alive => asked.read < Patience /\ asked.write < Patience
  /\ age' = [d \in {"read", "write"} |-> age[d] + 1]
  /\ asked' = [d \in {"read", "write"} |-> IF asked[d] < 0 THEN asked[d] ELSE asked[d] + 1]
  /\ UNCHANGED <<alive, paused, open>>

LastTime == Max({age.read, age.write})

CheckTimeout ==
  /\ due /\ due' = FALSE
  /\ \/ LastTime < connectionSendInterval /\ UNCHANGED <<open, asked>>
     \/ LastTime > connectionDataTimeout /\ open' = FALSE /\ UNCHANGED asked
     \/ /\ connectionSendInterval <= LastTime /\ LastTime <= connectionDataTimeout
        /\ asked' = [d \in {"read", "write"} |-> IF asked[d] < 0 THEN 0 ELSE asked[d]]
        /\ UNCHANGED open
  /\ UNCHANGED <<age, alive, paused>>

Used(d) == age' = [age EXCEPT ![d] = 0] /\ asked' = [asked EXCEPT ![d] = -1]

SomeBytesWritten == open /\ alive /\ Used("write") /\ UNCHANGED <<due, alive, paused, open>>

\* newBytesAvailable, of a message or of a pong
BytesRead ==
  /\ open /\ alive /\ ~paused /\ Used("read")
  /\ paused' \in BOOLEAN
  /\ UNCHANGED <<due, alive, open>>

GoOn == paused /\ paused' = FALSE /\ UNCHANGED <<age, due, alive, asked, open>>

ClientDies == alive /\ alive' = FALSE /\ UNCHANGED <<age, due, asked, paused, open>>

AliveNext == Tick \/ CheckTimeout \/ SomeBytesWritten \/ BytesRead \/ GoOn \/ ClientDies

(* A client that answers in time is never given up, and one that has gone  *)
(* is at the first check after the timeout.                                *)
GivenUpInTime ==
  /\ alive => open
  /\ open /\ ~due => LastTime <= connectionDataTimeout
========================================
