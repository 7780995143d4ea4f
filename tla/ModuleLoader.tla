---------------------------- MODULE ModuleLoader ----------------------------
(***************************************************************************)
(* The loader of JavaScript modules (js/loader.js).  require and define    *)
(* name the modules a function needs; what is not loaded yet is asked for  *)
(* with a script element, and the call waits.  A script that arrives runs  *)
(* (its define is one call) and its load event follows at once, as it does *)
(* in a browser that knows document.currentScript.  An exception ends the  *)
(* call it is thrown in and is reported to the page.                       *)
(*                                                                         *)
(* The state of the loader is the record ld; a call of one of its          *)
(* functions maps it to the next one.                                      *)
(*                                                                         *)
(* And the program that writes scripts into one that needs no loader       *)
(* (util/jscombiner): comb is its state; a step is one dependency, or one  *)
(* file that is written.                                                   *)
(***************************************************************************)
EXTENDS Naturals, Sequences, SequencesExt, FiniteSets

CONSTANTS
  Names,     \* modules
  NoName,    \* the name of a require
  MaxAsked,  \* bound: calls of require
  Beneath    \* of each module those whose names are paths below its own

ASSUME LoaderAssumption == NoName \notin Names /\ Beneath \in [Names -> SUBSET Names]

VARIABLES
  deps,     \* what the define of each script names
  kinds,    \* a script defines a module, its function throws, or it is a plain script
  requires, \* calls of require that the page has made
  scripts,  \* script elements that have not arrived
  ld,       \* the loader
  comb      \* the combiner

loadervars == <<deps, kinds, requires, scripts, ld, comb>>

Fresh == [loaded  |-> {},      \* DOMAIN loadedModules
          loading |-> {},      \* DOMAIN loadingModules
          count   |-> 0,       \* loadingCount
          defines |-> {},
          waiting |-> <<>>,    \* waitingCalls
          new     |-> {},      \* script elements the call has appended
          again   |-> {},      \* history: modules whose script was asked for twice
          ran     |-> <<>>,    \* history: functions that were run
          thrown  |-> FALSE,   \* an exception ends this call
          broken  |-> FALSE,   \* history: a function threw
          error   |-> <<>>]    \* the loop that was reported

LoaderInit ==
  /\ deps \in [Names -> {SetToSeq(S) : S \in SUBSET Names}]
  /\ kinds \in [Names -> {"module", "throws", "plain"}]
  /\ requires = 0 /\ scripts = {} /\ ld = Fresh

----------------------------------------
(* checkDepends *)

(* Every module that is neither loaded nor asked for gets a script element. *)
AskModules(L, names) ==
  LET new == names \ (L.loaded \cup L.loading) IN
  [L EXCEPT !.loading = @ \cup new, !.count = @ + Cardinality(new), !.new = @ \cup new,
            !.again = @ \cup (new \cap (L.new \cup scripts))]

(* The function runs, and its value is the module. *)
Run(L, c) ==
  LET ran == [L EXCEPT !.ran = Append(@, c)] IN
  IF c.name # NoName /\ kinds[c.name] = "throws"
  THEN [ran EXCEPT !.thrown = TRUE, !.broken = TRUE]
  ELSE [ran EXCEPT !.loaded = @ \cup ({c.name} \ {NoName})]

Met(L, c) == Range(c.depends) \subseteq L.loaded
CheckDepends(L, c) == IF Met(L, c) THEN Run(L, c) ELSE AskModules(L, Range(c.depends))

----------------------------------------
(* checkWaitingCalls: over the calls from the last to the first, again as   *)
(* long as one of them could run.                                          *)
RECURSIVE Pass(_, _)
Pass(L, k) ==
  IF k = 0 \/ L.thrown THEN L
  ELSE LET c == L.waiting[k]  next == CheckDepends(L, c) IN
       Pass(IF Met(L, c) /\ ~next.thrown THEN [next EXCEPT !.waiting = RemoveAt(@, k)] ELSE next, k - 1)

RECURSIVE CheckWaiting(_)
CheckWaiting(L) ==
  LET once == Pass(L, Len(L.waiting)) IN
  IF once.thrown THEN once
  ELSE IF Len(once.waiting) < Len(L.waiting) THEN CheckWaiting(once)
  ELSE IF once.waiting = <<>> THEN [once EXCEPT !.loading = {}] ELSE once

----------------------------------------
(* doDefine, for a define and for a require. *)
DoDefine(L, c) ==
  LET marked == IF c.name = NoName THEN L ELSE [L EXCEPT !.defines = @ \cup {c.name}]
      done   == CheckDepends(marked, c)
  IN IF done.thrown THEN done
     ELSE IF ~Met(marked, c) THEN [done EXCEPT !.waiting = Append(@, c)]
     ELSE IF c.name = NoName THEN done ELSE CheckWaiting(done)

(* getLoop: the first loop on the way from the last module of a chain. *)
IndexIn(chain, d) == CHOOSE k \in DOMAIN chain : chain[k] = d
RECURSIVE GetLoop(_, _), LoopVia(_, _, _)
LoopVia(chain, to, needs) ==
  IF to = <<>> THEN <<>>
  ELSE LET d    == Head(to)
           loop == IF d \in Range(chain) THEN Append(SubSeq(chain, IndexIn(chain, d), Len(chain)), d)
                   ELSE IF d \in DOMAIN needs THEN GetLoop(Append(chain, d), needs) ELSE <<>>
       IN IF loop # <<>> THEN loop ELSE LoopVia(chain, Tail(to), needs)
GetLoop(chain, needs) == LoopVia(chain, needs[Last(chain)], needs)

NeedsOf(L) ==
  LET named == {k \in DOMAIN L.waiting : L.waiting[k].name # NoName} IN
  [n \in {L.waiting[k].name : k \in named} |-> deps[n]]

(* Without a loop the report itself is an error. *)
NoLoop == <<NoName>>
Report(L) ==
  LET needs == NeedsOf(L)
      named == {k \in DOMAIN L.waiting : L.waiting[k].name # NoName}
      loop  == IF named = {} THEN <<>>
               ELSE GetLoop(<<L.waiting[CHOOSE k \in named : \A j \in named : k <= j].name>>, needs)
  IN [L EXCEPT !.error = IF loop = <<>> THEN NoLoop ELSE loop]

(* loadEvent; what is thrown while waiting calls are looked at leaves the  *)
(* count as it was.                                                        *)
LoadEvent(L, n) ==
  LET told == IF n \notin L.defines THEN CheckWaiting([L EXCEPT !.loaded = @ \cup {n}])
              ELSE [L EXCEPT !.defines = @ \ {n}]
      less == [told EXCEPT !.count = @ - 1]
  IN IF told.thrown THEN told
     ELSE IF less.count = 0 /\ less.waiting # <<>> THEN Report(less) ELSE less

----------------------------------------

(* The end of a call into the loader. *)
Settle(L, left) ==
  /\ ld' = [L EXCEPT !.new = {}, !.thrown = FALSE]
  /\ scripts' = left \cup L.new

(* The page, first of all its main script. *)
Require(names) ==
  /\ requires < MaxAsked /\ requires' = requires + 1
  /\ Settle(DoDefine(ld, [name |-> NoName, depends |-> SetToSeq(names)]), scripts)
  /\ UNCHANGED <<deps, kinds, comb>>

ScriptArrives(n) ==
  /\ n \in scripts
  /\ LET run == IF kinds[n] = "plain" THEN ld ELSE DoDefine(ld, [name |-> n, depends |-> deps[n]])
     IN Settle(LoadEvent([run EXCEPT !.thrown = FALSE], n), scripts \ {n})
  /\ UNCHANGED <<deps, kinds, requires, comb>>

LoaderNext ==
  \/ \E names \in SUBSET Names \ {{}} : Require(names)
  \/ \E n \in Names : ScriptArrives(n)

LoaderSpec == LoaderInit /\ [][LoaderNext]_loadervars

----------------------------------------
(* The combiner.  Its main script is the file NoName.                      *)

(* A file is read and the calls in it are found; a plain script has none.  *)
ReadFile(n) == [name |-> n, left |-> deps[n]]
Defines(n)  == n # NoName /\ kinds[n] # "plain"

Combine(names, excludes) ==
  [main |-> names, excludes |-> excludes,
   files   |-> <<[name |-> NoName, left |-> SetToSeq(names)]>>,  \* the calls of getDependencies
   order   |-> <<>>,   \* available, too
   defined |-> {},
   mods    |-> {},     \* what mod holds when the output has run so far
   given   |-> <<>>]   \* what the functions of each file are called with

CombinerInit ==
  \E names \in SUBSET Names, excludes \in {{}} \cup {{n} : n \in Names} : comb = Combine(names, excludes)

(* getDependencies goes down to what it has not been through.              *)
Skipped(n) == n \in comb.excludes \/ n \in Range(comb.order)
NextDependency ==
  /\ comb.files # <<>> /\ Last(comb.files).left # <<>> /\ Len(comb.files) <= Cardinality(Names) + 1
  /\ LET d    == Head(Last(comb.files).left)
         rest == [comb.files EXCEPT ![Len(comb.files)].left = Tail(@)]
     IN comb' = IF Skipped(d) THEN [comb EXCEPT !.files = rest]
                ELSE [comb EXCEPT !.files = Append(rest, ReadFile(d)),
                                  !.defined = IF Defines(d) THEN @ \cup {d} ELSE @]
FileEnds ==
  /\ comb.files # <<>> /\ Last(comb.files).left = <<>>
  /\ comb' = [comb EXCEPT !.files = Front(@), !.order = Append(@, Last(comb.files).name)]

(* convertFile: a function is called with what mod holds, or null; what a  *)
(* module returns replaces what mod has at its place.                      *)
ConvertFile ==
  /\ comb.files = <<>> /\ Len(comb.given) < Len(comb.order)
  /\ LET n     == comb.order[Len(comb.given) + 1]
         needs == IF n = NoName THEN comb.main ELSE Range(deps[n])
         given == [d \in needs |-> IF d \notin comb.defined THEN "null"
                                  ELSE IF d \in comb.mods THEN "module" ELSE "undefined"]
     IN comb' = [comb EXCEPT !.given = Append(@, given),
                             !.mods = IF Defines(n) THEN (@ \ Beneath[n]) \cup {n} ELSE @]

CombinerNext ==
  (NextDependency \/ FileEnds \/ ConvertFile) /\ UNCHANGED <<deps, kinds, requires, scripts, ld>>

----------------------------------------
(* Properties *)

LoaderTypeOK ==
  /\ scripts \subseteq Names /\ ld.loaded \subseteq Names /\ ld.loading \subseteq Names
  /\ ld.defines = {} /\ ld.new = {} /\ ~ld.thrown
  /\ \A k \in DOMAIN ld.waiting : ld.waiting[k].name \in Names \cup {NoName}

Runs(n) == Cardinality({k \in DOMAIN ld.ran : ld.ran[k].name = n})
IsLoop(chain) ==
  /\ Len(chain) > 1 /\ chain[1] = Last(chain)
  /\ \A k \in 1 .. Len(chain) - 1 : chain[k + 1] \in Range(deps[chain[k]])

(* As long as no function throws: a script is asked for once and its       *)
(* function runs once, after those of the modules it names; when every     *)
(* script has arrived every call has run, or a loop was reported; and what *)
(* is reported is a loop of the modules.  A function that throws stays     *)
(* with the waiting calls and is run again, and its waiters are told of a  *)
(* loop that there is not.                                                 *)
ModulesInOrder ==
  /\ ld.again = {}
  /\ ~ld.broken =>
       /\ \A n \in Names : Runs(n) <= 1
       /\ \A k \in DOMAIN ld.ran : \A d \in Range(ld.ran[k].depends) :
            kinds[d] = "module" => \E j \in 1 .. k - 1 : ld.ran[j].name = d
       /\ ld.count = Cardinality(scripts)
       /\ scripts = {} /\ ld.waiting # <<>> => ld.error # <<>>
       /\ ld.error # <<>> => IsLoop(ld.error)

(* The combined script has each file that is needed, once and after those  *)
(* it needs, and no other; every function is called with the modules it    *)
(* names, but those that were excluded, that are no modules, or that a     *)
(* module with the name of their directory has replaced.  A loop of        *)
(* modules is followed for ever.                                           *)
Needed(names) ==
  /\ comb.main \ comb.excludes \subseteq names
  /\ \A n \in names : Range(deps[n]) \ comb.excludes \subseteq names
Combined ==
  /\ IsInjective(comb.order)
  /\ \A k \in 1 .. Len(comb.order) :
       LET n == comb.order[k] IN
       n # NoName =>
         \A d \in Range(deps[n]) \ comb.excludes : \E j \in 1 .. k - 1 : comb.order[j] = d
  /\ comb.files = <<>> =>
       LET names == Range(comb.order) \ {NoName} IN
       /\ Last(comb.order) = NoName /\ Needed(names)
       /\ \A other \in SUBSET names : Needed(other) => other = names
  /\ \A k \in 1 .. Len(comb.given) : \A d \in DOMAIN comb.given[k] :
       /\ comb.given[k][d] = "null" <=> d \in comb.excludes \/ ~Defines(d)
       /\ comb.given[k][d] = "undefined" => \E j \in 1 .. k - 1 : d \in Beneath[comb.order[j]]
  /\ Len(comb.files) > Cardinality(Names) + 1 =>
       \E j \in 2 .. Len(comb.files) : \E k \in 2 .. j - 1 :
         IsLoop([i \in 1 .. j - k + 1 |-> comb.files[k + i - 1].name])
========================================
