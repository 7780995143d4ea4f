------------------------------ MODULE LogFile ------------------------------
(***************************************************************************)
(* The log of a program (util/log.h, util/log.cpp).  Every thread writes   *)
(* to one file, under a mutex: a line shows the number of its thread and   *)
(* is indented by the functions that are being traced in it.  A trace is   *)
(* an object whose constructor writes the line of the function and whose   *)
(* destructor writes a brace, each if the level of the log asks for it at  *)
(* that moment.  A line at or above the trigger is handed to a callback    *)
(* after the mutex is released.                                            *)
(*                                                                         *)
(* A line is the record of its columns; time, file name and line number    *)
(* are left out.  What a thread writes is one step: what it does before it *)
(* has the mutex commutes with the steps of the others.  A kernel gives    *)
(* the id of an ended thread to a later one, which takes over its number   *)
(* and its indent: an element of LogThreads stands for both.               *)
(***************************************************************************)
EXTENDS Integers, Sequences, FiniteSets

CONSTANTS
  LogThreads,   \* kernel ids of threads
  Unsigned,     \* the range of a uint: 2^32
  MaxOpen,      \* bound: traces within one another
  MaxMixed,     \* bound: threads that have lost their indent when the level is set
  LogLevels,    \* values given to setLogLevel
  Formats       \* calls of a log macro: [str: characters, args: what stands for %1, %2 ...]

(* No program has a quarter of the numbers of a uint of traces open.       *)
ASSUME LogAssumption ==
  Unsigned \in Nat /\ Unsigned > 4 /\ MaxOpen \in Nat /\ 4 * MaxOpen < Unsigned

FuncTrace == 1
Debug     == 3
Warn      == 5
Critical  == 6
NoCallback == 99   \* no level reaches it
NoLine     == [kind |-> "none"]
Digits     == <<"1", "2", "3", "4", "5", "6", "7">>
NotASCII   == {"\n", "\t"}   \* what writeMsg escapes

ASSUME FormatsAssumption ==
  /\ Formats \subseteq [str : Seq(STRING), args : Seq(Seq(STRING))]
  /\ \A made \in Formats : Len(made.args) <= Len(Digits)

VARIABLES
  active,     \* "no", "yes", or "aborted": the program ended with a qFatal
  level,      \* logLevelCategory_
  trigger,    \* logLevelTrigger of the callback that is set
  infos,      \* threadInfos: the number and the indent of the threads seen
  traces,     \* the trace objects of a thread: was the line of the function written?
  telling,    \* threads that hand their line to the callback
  line,       \* history: the line written last, its thread and what it was made of
  mixed       \* history: threads whose trace began with a line and ended without, or ended only

logvars == <<active, level, trigger, infos, traces, telling, line, mixed>>

LogInit ==
  /\ active = "no" /\ level = 0 /\ trigger = NoCallback
  /\ infos = <<>>
  /\ traces = [t \in LogThreads |-> <<>>]
  /\ telling = {} /\ line = NoLine
  /\ mixed = {}

----------------------------------------
(* What a line says. *)

(* operator()(str, t1, t2 ...): %1 stands for the first argument; a digit  *)
(* beyond the arguments of the call is text.  An argument is not searched. *)
Filled(str, args) ==
  LET Named(p) == {k \in 1 .. Len(args) : /\ str[p] = "%" /\ p < Len(str)
                                          /\ str[p + 1] = Digits[k]}
      from[p \in 1 .. Len(str) + 2] ==
        IF p > Len(str) THEN <<>>
        ELSE IF Named(p) # {} THEN args[CHOOSE k \in Named(p) : TRUE] \o from[p + 2]
        ELSE <<str[p]>> \o from[p + 1]
  IN from[1]

(* writeMsg: every other character as its number between angle brackets. *)
Hex(c) == IF c = "\n" THEN <<"<", "0", "A", ">">> ELSE <<"<", "0", "9", ">">>
Shows(c) == IF c \in NotASCII THEN Hex(c) ELSE <<c>>
Escaped(text) ==
  LET upTo[n \in 0 .. Len(text)] == IF n = 0 THEN <<>> ELSE upTo[n - 1] \o Shows(text[n])
  IN upTo[Len(text)]

(* QByteArray(int, ' ') of a uint: nothing when it is too large for an int. *)
Spaces(indent) == IF 2 * indent < Unsigned THEN indent ELSE 0

----------------------------------------
(* writeLog. *)

\* Mutant: the size of the table is read before the entry is made.
KnownLate(t) ==
  IF t \in DOMAIN infos /\ infos[t].number # 0 THEN infos
  ELSE [x \in DOMAIN infos \cup {t} |->
          IF x = t THEN [indent |-> 0, number |-> Cardinality(DOMAIN infos)] ELSE infos[x]]

(* The info of a thread; a new one gets the next number. *)
Known(t) ==
  IF t \in DOMAIN infos THEN infos
  ELSE [x \in DOMAIN infos \cup {t} |->
          IF x = t THEN [indent |-> 0, number |-> Cardinality(DOMAIN infos) + 1] ELSE infos[x]]

(* By how much a line changes the indent, and whether before it is written. *)
Shift(kind) == CASE kind = "enter" -> 2 [] kind = "leave" -> -2 [] OTHER -> 0

WriteLog(t, kind, cat, made) ==
  IF active = "yes"
  THEN LET known  == Known(t)
           before == known[t].indent
           after  == (before + Shift(kind)) % Unsigned
           text   == Filled(made.str, made.args)
           new    == [kind   |-> kind,
                      pad    |-> Spaces(IF kind = "leave" THEN after ELSE before),
                      text   |-> IF kind = "message" THEN Escaped(text) ELSE text,
                      of     |-> t, made |-> made]
       IN /\ infos' = [known EXCEPT ![t].indent = after]
          /\ line' = new
          /\ telling' = IF cat >= trigger THEN telling \cup {t} ELSE telling
  ELSE UNCHANGED <<infos, line, telling>>

CheckLevel(cat) == cat >= level
Written(cat) == CheckLevel(cat) /\ active = "yes"

MayLog(t) == active # "aborted" /\ t \notin telling

(* A log macro. *)
Message(t, cat, made) ==
  /\ MayLog(t) /\ CheckLevel(cat)
  /\ WriteLog(t, "message", cat, made)
  /\ UNCHANGED <<active, level, trigger, traces, mixed>>

(* logFunctionTrace: the object is made whether its line is written or not. *)
Enter(t, made) ==
  /\ MayLog(t) /\ Len(traces[t]) < MaxOpen
  /\ IF CheckLevel(FuncTrace) THEN WriteLog(t, "enter", FuncTrace, made)
     ELSE UNCHANGED <<infos, line, telling>>
  /\ traces' = [traces EXCEPT ![t] = Append(@, Written(FuncTrace))]
  /\ UNCHANGED <<active, level, trigger, mixed>>

(* ~LogFunctionTrace. *)
Leave(t) ==
  /\ MayLog(t) /\ traces[t] # <<>>
  /\ IF CheckLevel(FuncTrace) THEN WriteLog(t, "leave", FuncTrace, [str |-> <<>>, args |-> <<>>])
     ELSE UNCHANGED <<infos, line, telling>>
  /\ traces' = [traces EXCEPT ![t] = SubSeq(@, 1, Len(@) - 1)]
  /\ mixed' = IF traces[t][Len(traces[t])] # Written(FuncTrace) THEN mixed \cup {t} ELSE mixed
  /\ UNCHANGED <<active, level, trigger>>

(* qtMessageHandler, installed by start(): what Qt reports, at any level of *)
(* the log; a fatal message ends the program.                              *)
QtMessage(t, cat, fatal, made) ==
  /\ MayLog(t) /\ active = "yes"
  /\ WriteLog(t, "message", cat, made)
  /\ active' = IF fatal THEN "aborted" ELSE active
  /\ UNCHANGED <<level, trigger, traces, mixed>>

(* The end of writeLog: the callback runs without the mutex. *)
LevelCallback(t) ==
  /\ active # "aborted" /\ t \in telling
  /\ telling' = telling \ {t}
  /\ UNCHANGED <<active, level, trigger, infos, traces, line, mixed>>

----------------------------------------
(* What the program sets. *)

(* A log that is started again keeps its first file; a file that cannot be *)
(* opened starts nothing.                                                  *)
StartLog ==
  /\ active = "no" /\ active' = "yes"
  /\ UNCHANGED <<level, trigger, infos, traces, telling, line, mixed>>

(* Bound: so many threads that have lost their indent see it change again. *)
SetLogLevel(l) ==
  /\ active # "aborted" /\ level # l /\ level' = l
  /\ Cardinality(mixed) <= MaxMixed
  /\ UNCHANGED <<active, trigger, infos, traces, telling, line, mixed>>

SetLevelCallback(l) ==
  /\ active # "aborted" /\ trigger # l /\ trigger' = l
  /\ UNCHANGED <<active, level, infos, traces, telling, line, mixed>>

LogNext ==
  \/ \E t \in LogThreads :
       \/ Leave(t) \/ LevelCallback(t)
       \/ \E made \in Formats :
            \/ Enter(t, made)
            \/ \E cat \in {Debug, Warn} : Message(t, cat, made)
            \/ QtMessage(t, Warn, FALSE, made) \/ QtMessage(t, Critical, TRUE, made)
  \/ StartLog
  \/ \E l \in LogLevels : SetLogLevel(l)
  \/ SetLevelCallback(Warn)

LogSpec == LogInit /\ [][LogNext]_logvars

----------------------------------------
(* Properties *)

LogTypeOK ==
  /\ active \in {"no", "yes", "aborted"} /\ level \in LogLevels \cup {0}
  /\ DOMAIN infos \subseteq LogThreads /\ mixed \subseteq LogThreads
  /\ \A t \in DOMAIN infos : infos[t].indent \in 0 .. Unsigned - 1 /\ infos[t].number \in Nat
  /\ traces \in [LogThreads -> Seq(BOOLEAN)] /\ \A t \in LogThreads : Len(traces[t]) <= MaxOpen

Shown(t) == Cardinality({k \in DOMAIN traces[t] : traces[t][k]})

(* The columns of a line: its thread has a number of its own (of which a   *)
(* line shows two digits), and it is indented by two for each function     *)
(* that is being traced around it, the line of a function and its brace    *)
(* standing below one another.  A thread loses its indent for good when    *)
(* the level is changed, or the log started, between the ends of a trace.  *)
ColumnsTell ==
  /\ \A t, o \in DOMAIN infos : t # o => infos[t].number # infos[o].number
  /\ \A t \in DOMAIN infos \ mixed : infos[t].indent = 2 * Shown(t)
  /\ line # NoLine /\ line.of \notin mixed =>
       line.pad = 2 * (Shown(line.of) - IF line.kind = "enter" THEN 1 ELSE 0)

(* The text of a message is one line, whatever was logged, and every       *)
(* argument it names is in it, whole; a text whose arguments are their own *)
(* names is written as it stands.  The text of a trace is not looked at:   *)
(* an argument with a line break breaks its line.                          *)
Within(part, text) ==
  \E k \in 0 .. Len(text) - Len(part) : SubSeq(text, k + 1, k + Len(part)) = part

TextTells ==
  line # NoLine =>
    LET str == line.made.str  args == line.made.args IN
    /\ line.kind = "message" => \A k \in DOMAIN line.text : line.text[k] \notin NotASCII
    /\ line.kind # "leave" => \A k \in DOMAIN args :
         Within(<<"%", Digits[k]>>, str) =>
           Within(IF line.kind = "message" THEN Escaped(args[k]) ELSE args[k], line.text)
    /\ Filled(str, [k \in DOMAIN args |-> <<"%", Digits[k]>>]) = str

LogTells == ColumnsTell /\ TextTells
========================================
