-------------------------- MODULE MCHttpConnection --------------------------
(* The instances of the HTTP modules that TLC checks, one at a time: a     *)
(* connection of a server, its threads, its forwarding of connections, and *)
(* a client, and the credentials of TLS; the files and pages a server      *)
(* sends, and what the scripts of a page load and listen to.               *)
EXTENDS HttpConnection, HttpThreads, RedirectForward, HttpRequest, TLSCredentials,
        FileServer, ModuleLoader, BrowserEvents

(* A certificate and what replaces it, of the same key and another issuer; *)
(* one of another key; and who issued them.                                *)
Cert(key, algo, name, id, by) == [key |-> key, algo |-> algo, name |-> name, id |-> id, by |-> by]
First == Cert("k1", "RSA", "a", 1, 3)
Again == Cert("k1", "RSA", "a", 1, 4)
Third == Cert("k2", "ECDSA", "b", 2, 3)
Inner == Cert("k3", "RSA", "ca", 3, 4)
Outer == Cert("k4", "RSA", "rootca", 4, 4)
Issued   == {First, Again, Third, Inner, Outer}
IssuedAs == {<<First, Third>>, <<Again, Inner, Outer>>}

(* One module has the name of the directory of another. *)
Directory == LET one == CHOOSE n \in Names : TRUE IN
             [n \in Names |-> IF n = one THEN {CHOOSE m \in Names : m # one} ELSE {}]

VARIABLE part

atServer == <<vars, threadsvars, redirectvars>>
ofSite   == <<filevars, pagevars>>
inPage   == <<loadervars, evvars, layer>>
beside   == <<httprequestvars, credvars>>
httpvars == <<part, atServer, beside, ofSite, inPage>>

(* What does not move in a part begins in one way. *)
NoConf == [prefix |-> FALSE, removeSlash |-> FALSE, noCache |-> FALSE, index |-> FALSE,
           parseHtml |-> FALSE, redirect |-> "none"]
SiteInit ==
  /\ part = "files" \/ conf = NoConf
  /\ FileInit
  /\ IF part = "templates" THEN PageInit ELSE page = [files |-> <<<<>>>>, pars |-> <<>>]

(* Scripts name other scripts, and at most one of them (any one, they are  *)
(* alike) is not a module that works.  A plain script names none.          *)
ScriptsInit ==
  IF part \notin {"loader", "combiner"}
  THEN deps = [n \in Names |-> <<>>] /\ kinds = [n \in Names |-> "module"]
  ELSE /\ deps \in [Names -> {SetToSeq(S) : S \in SUBSET Names}]
       /\ \A n \in Names : n \notin Range(deps[n])
       /\ kinds \in [Names -> {"module", "throws", "plain"}]
       /\ \A n \in Names : kinds[n] = "plain" => deps[n] = <<>>
       /\ LET one == CHOOSE n \in Names : TRUE IN \A n \in Names \ {one} : kinds[n] = "module"
       /\ part = "combiner" => \A n \in Names : kinds[n] # "throws"

InPageInit ==
  /\ ScriptsInit /\ LoaderInit
  /\ IF part = "combiner" THEN CombinerInit ELSE comb = Combine({}, {})
  /\ EVInit /\ LayerInit
  /\ part = "events" \/ ev.throttle = 0

HttpInit ==
  /\ part \in {"connection", "threads", "redirect", "request", "credentials",
               "files", "templates", "loader", "combiner", "events", "layer"}
  /\ Init /\ HttpThreadsInit /\ RedirectInit /\ HttpRequestInit /\ CredInit
  /\ part = "connection" \/ kind = [n \in Ids |-> "get"]
  /\ part = "redirect" \/ entries = <<>>
  /\ tls = {} \/ (part = "request" /\ tls = {1})
  /\ SiteInit /\ InPageInit

BesideServer == UNCHANGED <<part, beside, ofSite, inPage>>
BesideSite   == UNCHANGED <<part, atServer, beside, inPage>>
BesidePage   == UNCHANGED <<part, atServer, beside, ofSite>>

HttpNext ==
  \/ part = "connection" /\ Next            /\ UNCHANGED <<threadsvars, redirectvars>> /\ BesideServer
  \/ part = "threads"    /\ HttpThreadsNext /\ UNCHANGED <<vars, redirectvars>>        /\ BesideServer
  \/ part = "redirect"   /\ RedirectNext    /\ UNCHANGED <<vars, threadsvars>>         /\ BesideServer
  \/ part = "request"    /\ HttpRequestNext /\ UNCHANGED <<part, atServer, credvars, ofSite, inPage>>
  \/ part = "credentials" /\ CredNext       /\ UNCHANGED <<part, atServer, httprequestvars, ofSite, inPage>>
  \/ part = "files"      /\ FileNext        /\ UNCHANGED pagevars                      /\ BesideSite
  \/ part = "templates"  /\ PageNext        /\ UNCHANGED filevars                      /\ BesideSite
  \/ part = "loader"     /\ LoaderNext      /\ UNCHANGED <<evvars, layer>>             /\ BesidePage
  \/ part = "combiner"   /\ CombinerNext    /\ UNCHANGED <<evvars, layer>>             /\ BesidePage
  \/ part = "events"     /\ EVNext          /\ UNCHANGED <<loadervars, layer>>         /\ BesidePage
  \/ part = "layer"      /\ LayerNext       /\ UNCHANGED <<loadervars, evvars>>        /\ BesidePage

(* The fairness of a connection, see HttpConnection. *)
Scheduled(A) == part = "connection" /\ A /\ UNCHANGED <<threadsvars, redirectvars>> /\ BesideServer

HttpSpec ==
  /\ HttpInit /\ [][HttpNext]_httpvars
  /\ WF_httpvars(Scheduled(TellClosed))
  /\ WF_httpvars(Scheduled(Events \/ Parse \/ HandlerReturn))
  /\ \A n \in Ids : WF_httpvars(Scheduled(Keeper(n)))

----------------------------------------
(* The file server (net/fileserver.cpp): browsers see fresh pages, and the *)
(* pages say what their templates mean.  The browser library that comes    *)
(* with them (js/loader.js, js/util/ev.mjs, js/net/netutil.mjs): modules   *)
(* run in order, also those combined to one script (util/jscombiner),      *)
(* firings reach who listens.                                              *)
SiteServed ==
  /\ part = "files" => FilesServed
  /\ part = "templates" => PagesSay
  /\ part = "loader" => ModulesInOrder
  /\ part = "combiner" => Combined
  /\ part \in {"events", "layer"} => EventsKept
========================================
