---------------------------- MODULE MCWebSocket ----------------------------
(* The instances of the modules above the WebSocket that TLC checks, one   *)
(* part at a time: sessions, remote calls, the code generated for them and *)
(* the headers it is generated of.                                         *)
EXTENDS WSCommManager, RMI, RMIStubs, TLC

----------------------------------------
(* The classes and services code is generated for, and the values of types *)

Whole  == [kind |-> "int"]
Bool   == [kind |-> "bool"]
String == [kind |-> "string"]
Date   == [kind |-> "date"]
List(t)    == [kind |-> "list", of |-> <<t>>]
Map(k, t)  == [kind |-> "map", of |-> <<k, t>>]
Pair(a, b) == [kind |-> "pair", of |-> <<a, b>>]

Plain == <<"dao", "Plain">>   Empty == <<"Empty">>   Derived == <<"dao", "Derived">>
Lowest == <<"dao", "Lowest">>  Holder == <<"Holder">>   Outer == <<"Outer">>
Inner == <<"Outer", "Inner">>  Other == <<"other", "Plain">> Leaf == <<"other", "Leaf">>
Class(base, members) == [base |-> base, members |-> members]
StubClasses ==
  (Plain   :> Class(NoClass, <<Whole, String>>)) @@
  (Empty   :> Class(NoClass, <<>>)) @@
  (Derived :> Class(Plain, <<Date>>)) @@
  (Lowest  :> Class(Derived, <<List(ClassType(Leaf))>>)) @@
  (Leaf    :> Class(NoClass, <<Bool>>)) @@
  (Holder  :> Class(NoClass, <<List(ClassType(Leaf)), Pair(Bool, ClassType(Empty))>>)) @@
  (Inner   :> Class(NoClass, <<Whole>>)) @@
  (Outer   :> Class(NoClass, <<ClassType(Inner), Bool>>)) @@
  (Other   :> Class(NoClass, <<String>>))

Param(t)    == [type |-> t, ref |-> FALSE]
RefParam(t) == [type |-> t, ref |-> TRUE]
Function(returns, name, params) == [returns |-> returns, name |-> name, params |-> params]
StubFunctions ==
  {Function(Void, "f", <<Param(Whole), Param(String)>>),
   Function(Void, "f", <<RefParam(ClassType(Plain))>>),
   Function(Void, "f", <<RefParam(ClassType(Other))>>),
   Function(Pair(Bool, ClassType(Leaf)), "g", <<Param(List(ClassType(Leaf))), Param(Date)>>),
   Function(ClassType(Derived), "g", <<Param(ClassType(Derived))>>),
   Function(Map(Whole, String), "h", <<>>),
   Function(Whole, "h", <<RefParam(ClassType(Holder)), Param(ClassType(Empty)), RefParam(Bool)>>),
   Function(ClassType(Outer), "k", <<Param(ClassType(Inner))>>)}
StubSignals ==
  <<[name |-> "s", params |-> <<List(ClassType(Holder)), ClassType(Leaf)>>, registers |-> <<Whole>>],
    [name |-> "t", params |-> <<ClassType(Derived)>>, registers |-> <<ClassType(Derived), String>>]>>
StubServices ==
  [functions : {<<f>> : f \in StubFunctions}, signals : {<<>>, StubSignals}]
    \union [functions : {<<f, g>> : f, g \in {f \in StubFunctions : f.name = "f"}}, signals : {StubSignals}]
RECURSIVE StubSamples(_)
StubSamples(t) ==
  LET all(types, n) == [i \in DOMAIN types |-> CHOOSE v \in StubSamples(types[i]) : v # NoValue(types[i]) /\ types[i].kind \in Basic => v = (n + i) % 2]
      some(types) == IF types = <<>> THEN {} ELSE {all(types, 0), all(types, 1)} IN
  CASE t.kind \in {"int", "bool"} -> {0, 1}
    [] t.kind \in {"string", "date"} -> {Null, 0, 1}
    [] t.kind \in {"list", "map"} -> {<<>>} \union some(t.of) \union some(t.of \o t.of)
    [] t.kind = "pair" -> {<<>>} \union some(t.of)
    [] OTHER -> {<<>>} \union some(Elements(t.path))

StubClassPaths == DOMAIN StubClasses

(* What headers are made of: a class with functions and classes in it, and *)
(* comments and strings with anything in them.                             *)
Bodies ==
  {<<t>> : t \in {"mark", "rmi", "serialized", "public", "decl"}}
    \union {<<"rmi", "decl", "public">>, <<"{", "decl", "}">>, <<"{", "public", "}">>,
            <<"{", "class", "mark", "}", "}">>, <<"class", "rmi", "decl", "}">>, <<"class", "mark", "serialized", "decl", "}">>}
Texts ==
  {<<"namespace", "class">> \o first \o FlattenSeq(body) \o <<"}", "decl", "}">> :
      first \in {<<>>, <<"mark">>}, body \in SeqOf(Bodies, 3)}
    \union SeqOf({"quote", "//", "eol", "/*", "*/", "decl"}, 4)

----------------------------------------

VARIABLE part

wsvars == <<part, vars, rmivars, stubvars, headervars>>

WSInit ==
  /\ part \in {"sessions", "rmi", "stubs", "headers"}
  /\ Init /\ RmiInit
  /\ IF part = "stubs" THEN StubInit
     ELSE interface = [functions |-> <<>>, signals |-> <<>>] /\ call = NoCall
  /\ IF part = "headers" THEN HeaderInit ELSE header = <<>> /\ parsed = NotParsed

InPart ==
  \/ part = "sessions" /\ Next     /\ UNCHANGED <<rmivars, stubvars, headervars>>
  \/ part = "rmi"      /\ RmiNext  /\ UNCHANGED <<vars, stubvars, headervars>>
  \/ part = "stubs"    /\ StubNext /\ UNCHANGED <<vars, rmivars, headervars>>
  \/ part = "headers"  /\ HeaderNext /\ UNCHANGED <<vars, rmivars, stubvars>>

WSNext == InPart /\ UNCHANGED part

WSSpec ==
  /\ WSInit /\ [][WSNext]_wsvars
  /\ WF_wsvars(part = "sessions" /\ System /\ UNCHANGED <<part, rmivars, stubvars, headervars>>)
========================================
