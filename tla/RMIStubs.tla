------------------------------- MODULE RMIStubs -------------------------------
(***************************************************************************)
(* The code that is generated for a service: what ser                      *)
(* (serialize/ser/codegen.cpp) makes of a header for C++, and the modules  *)
(* of JavaScript and TypeScript the RMIServer makes of the type infos      *)
(* (net/impl/rmiserverbase.cpp). A call goes from a stub in the browser    *)
(* through the switch of the service, and its return values come back. A   *)
(* message is what its numbered parts hold, since BER is the subject of a  *)
(* module of its own.  A signal is registered for with parameters, and     *)
(* brings its own (net/rsig.h).  What the code is generated of is read by  *)
(* the parser of headers (serialize/ser/headerparser.cpp).                 *)
(*                                                                         *)
(* A basic value is a number: -1 is null or undefined, 0 is the zero of    *)
(* its type (an empty string, the start of the epoch). A list, a map, a    *)
(* pair or an object is a sequence, <<>> when there is none; the first     *)
(* element of a derived object is the object of its base.                  *)
(***************************************************************************)
EXTENDS Integers, Sequences, SequencesExt

CONSTANTS
  Classes,      \* for a class, by its path of namespaces and names: base, members
  Services,     \* the services: their functions and their signals
  Samples(_),   \* the values of a type applications use
  OldModules,   \* classes whose modules an earlier export may have left
  Headers       \* texts that are parsed

VARIABLES
  interface,  \* of the service that is registered
  call,       \* the call to it that is under way
  header,     \* a header file
  parsed      \* what is read of it

stubvars == <<interface, call>>
headervars == <<header, parsed>>

NoClass == <<>>
Void    == [kind |-> "void"]
Null    == -1
Basic   == {"int", "bool", "string", "date"}
ClassType(c) == [kind |-> "class", path |-> c]

----------------------------------------
(* The types *)

Based(c) == Classes[c].base # NoClass

(* What an object consists of: its base first *)
Elements(c) ==
  (IF Based(c) THEN <<ClassType(Classes[c].base)>> ELSE <<>>) \o Classes[c].members

(* getClassInfos *)
RECURSIVE ClassInfos(_)
ClassInfos(t) ==
  CASE t.kind = "class" ->
         {t.path} \union UNION {ClassInfos(Elements(t.path)[i]) : i \in DOMAIN Elements(t.path)}
    [] t.kind \in {"list", "map", "pair"} -> UNION {ClassInfos(t.of[i]) : i \in DOMAIN t.of}
    [] OTHER -> {}

(* getCustomTypes: the classes a member mentions *)
RECURSIVE CustomTypes(_)
CustomTypes(t) ==
  CASE t.kind = "class" -> {t.path}
    [] t.kind \in {"list", "map", "pair"} -> UNION {CustomTypes(t.of[i]) : i \in DOMAIN t.of}
    [] OTHER -> {}

Functions == interface.functions
Signals   == interface.signals

FunctionTypes(f) == {f.returns} \union {f.params[i].type : i \in DOMAIN f.params}
ServiceTypes ==
  UNION {FunctionTypes(Functions[i]) : i \in DOMAIN Functions}
    \union UNION {Range(Signals[i].params) : i \in DOMAIN Signals}

RECURSIVE IsDerivedFrom(_, _)
IsDerivedFrom(c, b) ==
  Based(c) /\ (Classes[c].base = b \/ IsDerivedFrom(Classes[c].base, b))

ReturnTypes(f) ==
  (IF f.returns = Void THEN <<>> ELSE <<f.returns>>)
    \o [i \in DOMAIN SelectSeq(f.params, LAMBDA p : p.ref) |->
          SelectSeq(f.params, LAMBDA p : p.ref)[i].type]
HasReturnValues(f) == ReturnTypes(f) # <<>>

(* A signature has the names of types, without namespaces. *)
RECURSIVE TypeName(_)
TypeName(t) ==
  CASE t.kind = "class" -> <<Last(t.path)>>
    [] t.kind \in {"list", "map", "pair"} ->
         <<t.kind>> \o FlattenSeq([i \in DOMAIN t.of |-> TypeName(t.of[i])])
    [] OTHER -> <<t.kind>>
Signature(f) ==
  [returns |-> TypeName(f.returns), name |-> f.name,
   params |-> [i \in DOMAIN f.params |-> [type |-> TypeName(f.params[i].type), ref |-> f.params[i].ref]]]

----------------------------------------
(* The modules of JavaScript *)

Infos == UNION {ClassInfos(t) : t \in ServiceTypes}

(* registerService: classes derived from those of the service as well *)
Registered ==
  Infos \union UNION {ClassInfos(ClassType(d)) : d \in {d \in DOMAIN Classes :
                                                   \E c \in Infos : IsDerivedFrom(d, c)}}

(* exportClass writes a file at the leaves of the tree of names only. *)
NestedIn(c, classes) == \E d \in classes : Len(d) > Len(c) /\ SubSeq(d, 1, Len(c)) = c

Imports(c) == UNION {CustomTypes(Elements(c)[i]) : i \in DOMAIN Elements(c)}
ServiceImports == UNION {CustomTypes(t) : t \in ServiceTypes}

Exported == LET classes == Registered IN {c \in classes : ~NestedIn(c, classes)}

(* exportTo: of the modules that were there, those in a namespace dao go.  *)
ExportTo(old) == Exported \union {c \in old : "dao" \notin Range(Front(c))}

----------------------------------------
(* Messages: contents of numbered parts; of those that are null there is   *)
(* nothing in the message.                                                 *)

Nothing == [is |-> "null", n |-> 0, of |-> <<>>]
Number(n) == [is |-> "number", n |-> n, of |-> <<>>]
Text(n)   == [is |-> "text", n |-> n, of |-> <<>>]
ListOf(s) == IF s = <<>> THEN Nothing ELSE [is |-> "list", n |-> 0, of |-> s]
Present(s) == {i \in DOMAIN s : s[i].is # "null"}
Parts(s)  == IF Present(s) = {} THEN Nothing
             ELSE [is |-> "parts", n |-> 0, of |-> [i \in Present(s) |-> s[i]]]
Part(x, i) == IF x.is = "parts" /\ i \in DOMAIN x.of THEN x.of[i] ELSE Nothing

WriteBasic(t, v) ==
  IF v = Null \/ (v = 0 /\ t.kind # "string") THEN Nothing
  ELSE IF t.kind = "string" THEN Text(v) ELSE Number(v)

\* operator<< of C++ and the serialize() of codegen: the hash of the class, or a placeholder
RECURSIVE CppWrite(_, _)
CppWrite(t, v) ==
  LET of(i) == t.of[((i - 1) % Len(t.of)) + 1] IN
  CASE t.kind \in Basic -> WriteBasic(t, v)
    [] t.kind \in {"list", "map"} -> ListOf([i \in DOMAIN v |-> CppWrite(of(i), v[i])])
    [] t.kind = "pair" -> Parts([i \in DOMAIN v |-> CppWrite(of(i), v[i])])
    [] t.kind = "class" ->
         Parts(<<IF Based(t.path) THEN Number(1) ELSE Nothing>>
                 \o [i \in DOMAIN v |-> CppWrite(Elements(t.path)[i], v[i])])

(* In TypeScript a class knows its number, in JavaScript nothing sets it.  *)
ClassNumber(lang, c) == IF Based(c) /\ lang = "ts" THEN Number(1) ELSE Nothing

(* __serialize: the number, the object of the base, the members            *)
WriteObject(lang, c, members) == Parts(<<ClassNumber(lang, c)>> \o members)

\* getSerializeCode
RECURSIVE JsWrite(_, _, _)
JsWrite(lang, t, v) ==
  LET of(i) == t.of[((i - 1) % Len(t.of)) + 1] IN
  CASE t.kind \in Basic -> WriteBasic(t, v)
    [] t.kind \in {"list", "map"} -> ListOf([i \in DOMAIN v |-> JsWrite(lang, of(i), v[i])])
    [] t.kind = "pair" -> Parts([i \in DOMAIN v |-> JsWrite(lang, of(i), v[i])])
    [] t.kind = "class" ->
         WriteObject(lang, t.path, [i \in DOMAIN v |-> JsWrite(lang, Elements(t.path)[i], v[i])])

(* formatJSTypeConstruction: what new makes of what it is given *)
NoValue(t) == IF t.kind \in Basic THEN Null ELSE <<>>
RECURSIVE New(_, _)
New(t, raw) ==
  LET made(types) == [i \in DOMAIN types |->
                        New(types[i], IF raw = <<>> THEN NoValue(types[i]) ELSE raw[i])] IN
  CASE t.kind \in {"int", "bool"}    -> IF raw = Null THEN 0 ELSE raw
    [] t.kind \in {"string", "date"} -> raw
    [] t.kind \in {"list", "map"}    -> [i \in DOMAIN raw |-> New(t.of[((i - 1) % Len(t.of)) + 1], raw[i])]
    [] t.kind = "pair"               -> made(t.of)
    [] t.kind = "class"              -> made(Elements(t.path))
Default(t) == New(t, NoValue(t))

(* What was written as another kind than the reader expects *)
Garbled(t) == IF t.kind \in Basic THEN -2 ELSE <<-2>>
Fits(t, x) ==
  x.is = (CASE t.kind = "string" -> "text" [] t.kind \in {"list", "map"} -> "list"
            [] t.kind \in {"pair", "class"} -> "parts" [] OTHER -> "number")

\* operator>> and the deserialize() of codegen
RECURSIVE CppRead(_, _)
CppRead(t, x) ==
  IF x.is = "null" THEN Default(t) ELSE IF ~Fits(t, x) THEN Garbled(t)
  ELSE CASE t.kind \in Basic -> x.n
         [] t.kind \in {"list", "map"} -> [i \in DOMAIN x.of |-> CppRead(t.of[((i - 1) % Len(t.of)) + 1], x.of[i])]
         [] t.kind = "pair" -> [i \in 1 .. 2 |-> CppRead(t.of[i], Part(x, i))]
         [] t.kind = "class" -> [i \in DOMAIN Elements(t.path) |-> CppRead(Elements(t.path)[i], Part(x, i + 1))]

\* Mutant: no constructor passes over the number of the class.
FirstPartAtOnce(lang, c) == 1

(* In JavaScript the constructor of a derived class does not pass over the *)
(* number of the class.                                                    *)
FirstPart(lang, c) == IF Based(c) /\ lang = "js" THEN 1 ELSE 2

(* The constructors: the part that holds an element of an object           *)
ObjectPart(lang, c, x, i) == Part(x, i - 1 + FirstPart(lang, c))

RECURSIVE JsRead(_, _, _)
JsRead(lang, t, x) ==
  IF x.is = "null" THEN Default(t) ELSE IF ~Fits(t, x) THEN Garbled(t)
  ELSE CASE t.kind \in Basic -> x.n
         [] t.kind \in {"list", "map"} ->
              [i \in DOMAIN x.of |-> JsRead(lang, t.of[((i - 1) % Len(t.of)) + 1], x.of[i])]
         [] t.kind = "pair" -> [i \in 1 .. 2 |-> JsRead(lang, t.of[i], Part(x, i))]
         [] t.kind = "class" ->
              [i \in DOMAIN Elements(t.path) |->
                 JsRead(lang, Elements(t.path)[i], ObjectPart(lang, t.path, x, i))]

----------------------------------------
(* A call *)

NoCall == [phase |-> "idle", op |-> "call", lang |-> "js", stub |-> 0, no |-> 0, args |-> <<>>, got |-> <<>>, msg |-> Nothing,
         results |-> <<>>, heard |-> <<>>]

StubInit == interface \in Services /\ call = NoCall

LastWith(same(_)) ==
  CHOOSE i \in DOMAIN Functions : same(i) /\ \A j \in DOMAIN Functions : same(j) => j <= i

(* The stubs are properties of one object: the last of a name stays.  They *)
(* write the names of service and function and the parameters.             *)
Stub(name) == LastWith(LAMBDA i : Functions[i].name = name)

ParamTypes(f) == [i \in DOMAIN f.params |-> f.params[i].type]
Tuples(types) ==
  LET t[n \in 0 .. Len(types)] ==
        IF n = 0 THEN {<<>>} ELSE {Append(s, v) : s \in t[n - 1], v \in Samples(types[n])}
  IN  t[Len(types)]

Call ==
  /\ call.phase = "idle"
  /\ \E i \in DOMAIN Functions : LET no == Stub(Functions[i].name)  f == Functions[no] IN
       \E args \in Tuples(ParamTypes(f)), lang \in {"js", "ts"} :
         call' = [NoCall EXCEPT !.phase = "sent", !.lang = lang, !.stub = no, !.args = args,
                    !.msg = Parts(<<Text(1), Text(1)>> \o
                                  [j \in DOMAIN args |-> JsWrite(lang, f.params[j].type, args[j])])]
  /\ UNCHANGED interface

CallNo(sig) == LastWith(LAMBDA i : Signature(Functions[i]) = sig)

(* checkServiceCall finds the number of the signature, the switch reads    *)
(* the parameters from the third part on.                                  *)
ProcessCall ==
  /\ call.phase = "sent"
  /\ LET no == CallNo(Signature(Functions[call.stub]))  f == Functions[no] IN
     call' = [call EXCEPT !.phase = IF HasReturnValues(f) THEN "running" ELSE "over",
                !.no = no, !.msg = Nothing,
                !.got = [j \in DOMAIN f.params |-> CppRead(f.params[j].type, Part(call.msg, j + 2))]]
  /\ UNCHANGED interface

(* The function returns, having set the parameters it has references to.   *)
ReturnValues ==
  /\ call.phase = "running"
  /\ LET types == ReturnTypes(Functions[call.no]) IN
     \E results \in Tuples(types) :
       call' = [call EXCEPT !.phase = "answered", !.results = [i \in DOMAIN results |-> New(types[i], results[i])],
                  !.msg = Parts([i \in DOMAIN types |-> CppWrite(types[i], New(types[i], results[i]))])]
  /\ UNCHANGED interface

Callback ==
  /\ call.phase = "answered"
  /\ LET types == ReturnTypes(Functions[call.stub]) IN
     call' = [call EXCEPT !.phase = "over", !.msg = Nothing,
                !.heard = [i \in DOMAIN types |-> JsRead(call.lang, types[i], Part(call.msg, i))]]
  /\ UNCHANGED interface

----------------------------------------
(* A signal.  The parameters of a registration follow a mark and an id; in *)
(* JavaScript register() writes none.                                      *)

RegisterSignal ==
  /\ call.phase = "idle"
  /\ \E no \in DOMAIN Signals, lang \in {"js", "ts"} :
       LET types == IF lang = "ts" THEN Signals[no].registers ELSE <<>> IN
       \E args \in Tuples(types) :
         call' = [NoCall EXCEPT !.phase = "registers", !.op = "signal", !.lang = lang, !.stub = no, !.args = args,
                    !.msg = Parts(<<Text(1), Text(1), Number(1), Number(1)>> \o
                                  [j \in DOMAIN args |-> JsWrite(lang, types[j], args[j])])]
  /\ UNCHANGED interface

SignalNo(name) == CHOOSE no \in DOMAIN Signals : Signals[no].name = name

ReadRegistration ==
  /\ call.phase = "registers"
  /\ LET no == SignalNo(Signals[call.stub].name)  types == Signals[no].registers IN
     call' = [call EXCEPT !.phase = "registered", !.no = no, !.msg = Nothing,
                !.got = [j \in DOMAIN types |-> CppRead(types[j], Part(call.msg, j + 4))]]
  /\ UNCHANGED interface

FireSignal ==
  /\ call.phase = "registered"
  /\ LET types == Signals[call.no].params IN
     \E raw \in Tuples(types) : LET values == [i \in DOMAIN raw |-> New(types[i], raw[i])] IN
       call' = [call EXCEPT !.phase = "fired", !.results = values,
                  !.msg = Parts([i \in DOMAIN types |-> CppWrite(types[i], values[i])])]
  /\ UNCHANGED interface

SignalHeard ==
  /\ call.phase = "fired"
  /\ LET types == Signals[call.stub].params IN
     call' = [call EXCEPT !.phase = "over", !.msg = Nothing,
                !.heard = [i \in DOMAIN types |-> JsRead(call.lang, types[i], Part(call.msg, i))]]
  /\ UNCHANGED interface

StubNext ==
  \/ Call \/ ProcessCall \/ ReturnValues \/ Callback
  \/ RegisterSignal \/ ReadRegistration \/ FireSignal \/ SignalHeard

StubSpec == StubInit /\ [][StubNext]_stubvars

----------------------------------------
(* The parser of headers.  A text is a sequence of what it tells apart:    *)
(* the heads of classes and namespaces with their braces, other braces,    *)
(* the mark SERIALIZE_CLASS, labels, declarations (of whatever the section *)
(* asks for), quotes and the ends of comments and lines.                   *)

Sections == {"rmi", "serialized", "cfsignals"}
Labels   == Sections \union {"public"}
Brackets  == {"class", "namespace", "{"}

(* The first of these tokens in the text from a up to b; 0: none *)
FirstOf(in, a, b, tokens) ==
  LET at == {i \in a .. b - 1 : in[i] \in tokens} IN IF at = {} THEN 0 ELSE Min(at)
FindClosing(in, a) ==
  LET level(i) == Cardinality({j \in a .. i : in[j] \in Brackets}) - Cardinality({j \in a .. i : in[j] = "}"})
      at == {i \in a .. Len(in) : level(i) < 0}
  IN  IF at = {} THEN 0 ELSE Min(at)

(* removeCommentsAndStringContents *)
RECURSIVE RemoveComments(_, _)
RemoveComments(in, pos) ==
  LET p        == FirstOf(in, pos, Len(in) + 1, {"quote", "//", "/*"})
      end(t)   == FirstOf(in, p + 1, Len(in) + 1, {t})
      cut(a, b) == SubSeq(in, 1, a) \o SubSeq(in, b, Len(in))
  IN CASE p = 0 -> [ok |-> TRUE, text |-> in]
       [] in[p] = "//" -> RemoveComments(cut(p - 1, IF end("eol") = 0 THEN Len(in) + 1 ELSE end("eol")), p)
       [] end(IF in[p] = "/*" THEN "*/" ELSE "quote") = 0 -> [ok |-> FALSE, text |-> in]
       [] in[p] = "/*"    -> RemoveComments(cut(p - 1, end("*/") + 1), p)
       [] in[p] = "quote" -> RemoveComments(cut(p, end("quote")), p + 2)

(* A class by the places of its names, and what state has come to: no mark *)
(* yet, no section, or one that goes on after a block.                     *)
NewClass(ns, name) == [ns |-> ns, name |-> name, state |-> "none", members |-> <<>>, ok |-> TRUE]

(* getVariables, getFunctions, getCfSignals *)
ReadDecls(in, a, b, section, cl) ==
  LET at == SetToSortSeq({i \in a .. b - 1 : in[i] = "decl"}, <)
  IN  [cl EXCEPT !.members = @ \o [k \in DOMAIN at |-> [at |-> at[k], as |-> section]]]

SectionEnd(in, a, b) == LET e == FirstOf(in, a, b, Labels) IN IF e = 0 THEN b ELSE e

RECURSIVE SearchBlocks(_, _, _, _, _)
SearchBlocks(in, pos, b, cl, openEnd) ==
  LET p == FirstOf(in, pos, b, Sections)  e == SectionEnd(in, p + 1, b) IN
  IF p # 0 THEN SearchBlocks(in, p + 1, b, [ReadDecls(in, p + 1, e, in[p], cl) EXCEPT !.state = in[p]], e = b)
  ELSE IF openEnd THEN cl ELSE [cl EXCEPT !.state = "marked"]

GetMembers(in, a, b, cl) ==
  LET e   == SectionEnd(in, a, b)
      old == ReadDecls(in, a, e, cl.state, cl)
  IN CASE cl.state \notin Sections -> SearchBlocks(in, a, b, cl, FALSE)
       [] e = b -> old
       [] OTHER -> SearchBlocks(in, a, b, old, FALSE)

RECURSIVE SkipBlocks(_, _, _, _)
SkipBlocks(in, a, b, cl) ==
  LET p     == FirstOf(in, a, b, {"{"})
      read  == IF p > a THEN GetMembers(in, a, p, cl) ELSE cl
      close == FindClosing(in, p + 1)
  IN CASE p = 0 -> IF a < b THEN GetMembers(in, a, b, cl) ELSE cl
       [] close = 0 \/ close >= b -> [cl EXCEPT !.ok = FALSE]
       [] OTHER -> SkipBlocks(in, close + 1, b, read)

GetMemberBlocks(in, a, b, cl) ==
  CASE ~cl.ok -> cl
    [] cl.state # "none" -> SkipBlocks(in, a, b, cl)
    [] FirstOf(in, a, b, {"mark"}) # 0 -> SkipBlocks(in, a, b, [cl EXCEPT !.state = "marked"])
    [] OTHER -> cl

(* What is between the classes of a class belongs to it.                   *)
RECURSIVE GetClasses(_, _, _, _, _)
GetClasses(in, start, end, cl, found) ==
  LET p     == FirstOf(in, start, end, {"class", "namespace"})
      upTo  == IF p = 0 THEN end ELSE p
      own   == IF start < upTo /\ cl.name # <<>> THEN GetMemberBlocks(in, start, upTo, cl) ELSE cl
      close == FindClosing(in, p + 1)
      inner == IF in[p] = "class" THEN NewClass(cl.ns, Append(cl.name, p)) ELSE NewClass(Append(cl.ns, p), <<>>)
      within == GetClasses(in, p + 1, close, inner, found)
  IN CASE ~own.ok \/ ~found.ok -> [found EXCEPT !.ok = FALSE]
       [] p = 0 -> IF own.state = "none" THEN found ELSE [found EXCEPT !.classes = Append(@, own)]
       [] close = 0 \/ close >= end -> [found EXCEPT !.ok = FALSE]
       [] OTHER -> GetClasses(in, close + 1, end, own, within)

ParseHeader(in) ==
  LET text == RemoveComments(in, 1).text  none == [ok |-> TRUE, classes |-> <<>>] IN
  CASE FirstOf(in, 1, Len(in) + 1, {"mark"}) = 0 -> none
    [] ~RemoveComments(in, 1).ok -> [none EXCEPT !.ok = FALSE]
    [] OTHER -> GetClasses(text, 1, Len(text) + 1, NewClass(<<>>, <<>>), none)

NotParsed == [ok |-> FALSE]
HeaderInit == header \in Headers /\ parsed = NotParsed
HeaderNext ==
  /\ parsed = NotParsed /\ UNCHANGED header
  /\ parsed' = ParseHeader(header)

----------------------------------------
(* Properties *)

(* The same value, but for null where there is a default and for the start *)
(* of the epoch, which is sent as no date.                                 *)
RECURSIVE Same(_, _, _)
Same(t, sent, read) ==
  LET each(types) == Len(read) = Len(types) /\ \A i \in DOMAIN types : Same(types[i], sent[i], read[i]) IN
  CASE t.kind \in {"int", "bool"} -> read = (IF sent = Null THEN 0 ELSE sent)
    [] t.kind = "string" -> read = sent
    [] t.kind = "date" -> read = (IF sent = 0 THEN Null ELSE sent)
    [] t.kind \in {"list", "map"} -> each([i \in DOMAIN sent |-> t.of[((i - 1) % Len(t.of)) + 1]])
    [] sent = <<>> -> read = Default(t)
    [] t.kind = "pair" -> each(t.of)
    [] OTHER -> each(Elements(t.path))

HasBase(t) == \E c \in ClassInfos(t) : Based(c)

(* What is given to the service and what comes back from it                *)
GivenTypes  == IF call.op = "call" THEN ParamTypes(Functions[call.stub]) ELSE Signals[call.stub].registers
AnswerTypes == IF call.op = "call" THEN ReturnTypes(Functions[call.stub]) ELSE Signals[call.stub].params

(* A stub calls the function, or registers for the signal, it was made of, *)
(* whatever others have its name or its signature; the function gets the   *)
(* parameters as they were given, and the callback what the function       *)
(* returned or the signal was fired with, but for objects of derived       *)
(* classes, which a constructor in JavaScript reads one number too early.  *)
CallsArrive ==
  /\ call.no # 0 =>
       /\ call.no = call.stub
       /\ \A i \in DOMAIN call.args : Same(GivenTypes[i], call.args[i], call.got[i])
  /\ \A i \in DOMAIN call.heard :
       Same(AnswerTypes[i], call.results[i], call.heard[i]) \/ (call.lang = "js" /\ HasBase(AnswerTypes[i]))

(* What the modules of the service and of its classes import is exported   *)
(* too, unless it is a class that others are nested in; and no module of a *)
(* class in dao that the service does not use any more is left.            *)
ImportsExist ==
  call = NoCall =>
    LET exported == ExportTo(OldModules) IN
    /\ \A c \in ServiceImports \union UNION {Imports(c) : c \in Exported} :
         c \in exported \/ NestedIn(c, Registered)
    /\ \A c \in exported : Head(c) = "dao" => c \in Exported

(* What is code: a token that neither a comment nor a string holds, with   *)
(* the quotes and the end of a line.                                       *)
Code(in) ==
  LET next(at, t) ==
        CASE at.in = "code" /\ t \in {"quote", "//", "/*"} ->
               [in |-> t, text |-> IF t = "quote" THEN Append(at.text, t) ELSE at.text]
          [] at.in = "code" -> [at EXCEPT !.text = Append(@, t)]
          [] <<at.in, t>> \in {<<"quote", "quote">>, <<"//", "eol">>} -> [in |-> "code", text |-> Append(at.text, t)]
          [] <<at.in, t>> = <<"/*", "*/">> -> [at EXCEPT !.in = "code"]
          [] OTHER -> at
  IN FoldLeft(next, [in |-> "code", text |-> <<>>], in)

(* The innermost of the brackets of a kind around a place, and the section *)
(* there: of the last label beside it.                                     *)
Around(in, i, kinds) ==
  LET at == {j \in 1 .. i - 1 : in[j] \in kinds /\ FindClosing(in, j + 1) > i} IN
  IF at = {} THEN 0 ELSE CHOOSE j \in at : \A k \in at : k <= j
Beside(in, i, token) == {j \in DOMAIN in : in[j] = token /\ Around(in, j, Brackets) = Around(in, i, Brackets)}
SectionOf(in, i) ==
  LET at == {j \in UNION {Beside(in, i, t) : t \in Labels} : j < i} IN
  IF at = {} THEN "public" ELSE in[CHOOSE j \in at : \A k \in at : k <= j]
Owned(in, c, token) == {i \in DOMAIN in : in[i] = token /\ Around(in, i, {"class", "namespace"}) = c}

(* Comments hide whatever is in them.  A header is read unless brackets do *)
(* not match or a class is local to a function; what is read of it are the *)
(* classes with a mark, each with the declarations of its own sections in  *)
(* their order: not those of its functions, nor of classes in it; all of   *)
(* them if the mark comes before these classes.                            *)
ClassRead(in, cl) ==
  LET c     == Last(cl.name)
      first == \E i \in Owned(in, c, "mark") : \A j \in Owned(in, c, "class") : i < j
      own   == {i \in DOMAIN in : in[i] = "decl" /\ Around(in, i, Brackets) = c}
      read  == {cl.members[k].at : k \in DOMAIN cl.members}
  IN /\ \A k \in 1 .. Len(cl.members) - 1 : cl.members[k].at < cl.members[k + 1].at
     /\ read \subseteq own
     /\ \A k \in DOMAIN cl.members : SectionOf(in, cl.members[k].at) = cl.members[k].as
     /\ first => \A i \in own : SectionOf(in, i) \in Sections => i \in read
     /\ \A k \in DOMAIN cl.name : Around(in, cl.name[k], {"class"}) = IF k = 1 THEN 0 ELSE cl.name[k - 1]
     /\ \A k \in DOMAIN cl.ns : in[cl.ns[k]] = "namespace" /\ cl.ns[k] < c /\ FindClosing(in, cl.ns[k] + 1) > c

HeaderRead ==
  parsed # NotParsed =>
    LET in      == Code(header).text
        removed == RemoveComments(header, 1)
        marked  == {c \in DOMAIN in : in[c] = "class" /\ Owned(in, c, "mark") # {}}
        local   == {c \in DOMAIN in : in[c] = "class" /\ Around(in, c, Brackets) # Around(in, c, {"class", "namespace"})}
        matched == \A i \in DOMAIN in : in[i] \in Brackets => FindClosing(in, i + 1) # 0
    IN /\ removed.ok <=> Code(header).in \in {"code", "//"}
       /\ removed.ok => removed.text = in
       /\ removed.ok /\ matched /\ local = {} => parsed.ok
       /\ parsed.ok /\ "mark" \in Range(header) =>
            /\ {Last(cl.name) : cl \in Range(parsed.classes)} = marked
            /\ Len(parsed.classes) = Cardinality(marked)
       /\ \A k \in DOMAIN parsed.classes : parsed.ok => ClassRead(in, parsed.classes[k])

StubsAgree == CallsArrive /\ ImportsExist /\ HeaderRead
========================================
