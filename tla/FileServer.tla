----------------------------- MODULE FileServer -----------------------------
(***************************************************************************)
(* The file server (net/fileserver.cpp) with the replies of a request      *)
(* (Request::Shared::sendReply, net/request.cpp): how a request is         *)
(* decided, and what a browser shows that keeps pages and scripts.  The    *)
(* tag of a server is drawn when it starts; pages are kept with it and     *)
(* asked for again, scripts are named with it (<!etag!>, <!importmap!>)    *)
(* and kept for a year.                                                    *)
(*                                                                         *)
(* A path is the record of what the decisions look at.  Two servers do not *)
(* draw the same tag.                                                      *)
(*                                                                         *)
(* And the templates of pages (parseHtml): a text with elements that       *)
(* include other files with parameters, show a parameter, or show what     *)
(* follows only if a comparison holds.  A file is a sequence of elements,  *)
(* cut where the regular expression cuts it; every if has its end, and a   *)
(* file includes only the one after it.                                    *)
(***************************************************************************)
EXTENDS Integers, FiniteSets, Sequences, SequencesExt

CONSTANTS
  MaxVersion,  \* bound: how often the files are edited
  MaxRestarts, \* bound: how often the server is started
  MaxElements  \* bound: elements of the page

VARIABLES
  conf,      \* how the server is set up
  version,   \* of the files on disk
  site,      \* the server that runs: its tag, the version it was started with
  browser,   \* what the browser keeps: the page, and scripts by the tag in their name
  shown      \* history: the page shown and its script, and what they may not be older than

filevars == <<conf, version, site, browser, shown>>

----------------------------------------
(* Requests.                                                               *)
NoTag == 0
Kinds == {"html", "script", "image", "text"}
Paths == [inPrefix : BOOLEAN,    \* does it start with prefix_?
          slash    : BOOLEAN,    \* does it end with one?
          root     : BOOLEAN,    \* is there nothing else?
          valid    : BOOLEAN,    \* pathRE_
          part     : BOOLEAN,    \* index_part.html
          ending   : Kinds \cup {"none"},
          at       : Kinds \cup {"dir", "dirWithIndex", "none"}]
Page   == [inPrefix |-> TRUE, slash |-> FALSE, root |-> FALSE, valid |-> TRUE, part |-> FALSE,
           ending |-> "html", at |-> "html"]
Script == [Page EXCEPT !.ending = "script", !.at = "script"]

FileRequest(method, path, tag) == [method |-> method, path |-> path, tag |-> tag, gzip |-> TRUE, big |-> TRUE]

----------------------------------------
(* Replies.                                                                *)

(* sendReply: the header lines, the body compressed when that is asked for *)
(* and worth it.  HEAD gets no length.                                     *)
ReplyWith(q, status, lines, body, compression) ==
  LET gzip == compression /\ q.method # "HEAD" /\ q.big /\ q.gzip IN
  [status |-> status,
   lines  |-> lines \cup (IF gzip THEN {"gzip"} ELSE {})
                    \cup (IF q.method = "HEAD" THEN {} ELSE {"length"}),
   body   |-> IF q.method = "HEAD" THEN "none" ELSE body]

Passed == [status |-> 0, lines |-> {}, body |-> "none"]   \* the next handler gets the request

Revalidated == {"no-cache"} \cup IF conf.noCache THEN {} ELSE {"etag"}

(* Pages are parsed.  Other content is kept for a year by the ending of    *)
(* the path, which need not be that of the file.                           *)
SendPage(q, isPart) ==
  ReplyWith(q, 200, {"html"} \cup Revalidated,
            IF ~conf.parseHtml THEN "raw" ELSE IF isPart THEN "part" ELSE "page", TRUE)

KeptForAYear(ending) == ending # "text"
Packed(ending) == ending \in {"script", "text"}
SendContent(q, at) ==
  LET ending == q.path.ending IN
  ReplyWith(q, 200,
            {ending} \cup IF ~conf.noCache /\ KeptForAYear(ending) THEN {"max-age"} ELSE Revalidated,
            IF conf.parseHtml /\ at = "script" THEN "parsed" ELSE "raw", Packed(ending))

SendFile(q, at, isPart) == IF at = "html" THEN SendPage(q, isPart) ELSE SendContent(q, at)

(* handleRequest.  The part of a page is the index of a directory, and     *)
(* there are no files of that name.                                        *)
HandleFileRequest(q) ==
  LET p      == q.path
      isPart == conf.parseHtml /\ p.part
      dir    == p.at \in {"dir", "dirWithIndex"}
      at     == IF p.at = "dirWithIndex" THEN "html" ELSE p.at
  IN IF conf.prefix /\ ~p.inPrefix THEN Passed
     ELSE IF conf.removeSlash /\ p.slash /\ (conf.prefix \/ ~p.root)
          THEN ReplyWith(q, 307, {"location", "html"}, "moved", FALSE)
     ELSE IF ~conf.noCache /\ q.tag = site.tag
          THEN ReplyWith(q, 304, {"no-cache", "etag", "html"}, "not modified", FALSE)
     ELSE IF ~p.valid THEN Passed
     ELSE IF dir /\ conf.index THEN ReplyWith(q, 200, {"html", "no-cache"}, "index", TRUE)
     ELSE IF at \in Kinds /\ (p.part => isPart) THEN SendFile(q, at, isPart)
     ELSE IF conf.redirect \in Kinds THEN SendFile(q, conf.redirect, FALSE)
     ELSE Passed

----------------------------------------
(* The files are edited, the server is started again.                      *)

Edit ==
  /\ version < MaxVersion /\ version' = version + 1
  /\ UNCHANGED <<conf, site, browser, shown>>

\* Mutant: the tag stays the same.
RestartSameTag ==
  /\ site.tag < MaxRestarts
  /\ site' = [tag |-> site.tag, since |-> version]
  /\ UNCHANGED <<conf, version, browser, shown>>

Restart ==
  /\ site.tag < MaxRestarts
  /\ site' = [tag |-> site.tag + 1, since |-> version]
  /\ UNCHANGED <<conf, version, browser, shown>>

----------------------------------------
(* A browser.                                                              *)

NothingKept  == [tag |-> NoTag, version |-> 0, since |-> 0, forAYear |-> FALSE]
NothingShown == [page |-> NothingKept, since |-> 0, script |-> 0, ran |-> FALSE]

FileInit ==
  /\ conf \in [prefix : BOOLEAN, removeSlash : BOOLEAN, noCache : BOOLEAN, index : BOOLEAN,
                parseHtml : BOOLEAN, redirect : Kinds \cup {"none"}]
  /\ version = 0 /\ site = [tag |-> 1, since |-> 0]
  /\ browser = [page |-> NothingKept, scripts |-> <<>>]
  /\ shown = NothingShown

(* The page the browser keeps is asked for again, with its tag.            *)
LoadPage ==
  LET reply == HandleFileRequest(FileRequest("GET", Page, browser.page.tag))
      sent  == [tag |-> site.tag, version |-> version, since |-> site.since,
                forAYear |-> "max-age" \in reply.lines]
      page  == IF browser.page.forAYear \/ reply.status = 304 THEN browser.page ELSE sent
  IN /\ browser' = IF reply.lines \cap {"max-age", "etag"} # {} THEN [browser EXCEPT !.page = page]
                   ELSE browser
     /\ shown' = [NothingShown EXCEPT !.page = page, !.since = site.since]
     /\ UNCHANGED <<conf, version, site>>

(* Its script, by the name the page gives it: what is kept under the name, *)
(* or what the server that runs by then sends.  A page that is not parsed  *)
(* gives it the same name each time.                                       *)
ScriptName == IF conf.parseHtml THEN shown.page.tag ELSE NoTag
LoadScript ==
  /\ shown.page # NothingKept /\ ~shown.ran
  /\ LET kept  == ScriptName \in DOMAIN browser.scripts
         reply == HandleFileRequest(FileRequest("GET", Script, NoTag))
     IN /\ shown' = [shown EXCEPT !.script = IF kept THEN browser.scripts[ScriptName] ELSE version,
                                  !.ran = TRUE]
        /\ browser' = IF ~kept /\ "max-age" \in reply.lines
                      THEN [browser EXCEPT !.scripts =
                              [n \in DOMAIN @ \cup {ScriptName} |-> IF n = ScriptName THEN version ELSE @[n]]]
                      ELSE browser
  /\ UNCHANGED <<conf, version, site>>

FileNext == Edit \/ Restart \/ LoadPage \/ LoadScript

FileSpec == FileInit /\ [][FileNext]_filevars

----------------------------------------
(* Properties                                                              *)

FileTypeOK ==
  /\ version \in 0 .. MaxVersion /\ site \in [tag : 1 .. MaxRestarts, since : 0 .. version]
  /\ browser.page.tag \in 0 .. MaxRestarts /\ shown.script \in 0 .. version

(* The page that is shown is not older than the start of the server that   *)
(* was asked for it, and its script not older than the start of the server *)
(* that made the page: a server that is started again is seen at once, and *)
(* no page runs with a script from before it.  (Files that are edited      *)
(* while the server runs are not; and without parsing a script is kept     *)
(* under its name for a year, whatever happens to it.)                     *)
PagesFresh ==
  shown.page # NothingKept =>
    /\ shown.page.version >= shown.since
    /\ shown.ran /\ (conf.parseHtml \/ conf.noCache) => shown.script >= shown.page.since

(* HEAD is answered like GET, in all but the length and the compression of *)
(* the body; what is made for one request is not kept; what comes with the *)
(* tag of the server is not sent again to who has it; and a server without *)
(* caching hands out neither.                                              *)
RepliesTell ==
  version = 0 /\ site.tag = 1 /\ shown = NothingShown =>
    \A p \in Paths :
      LET got   == HandleFileRequest(FileRequest("GET", p, NoTag))
          asked == HandleFileRequest(FileRequest("HEAD", p, NoTag))
      IN /\ asked.status = got.status /\ asked.lines = got.lines \ {"length", "gzip"}
         /\ got.body \in {"page", "part", "index"} => "max-age" \notin got.lines
         /\ "etag" \in got.lines => HandleFileRequest(FileRequest("GET", p, site.tag)).status = 304
         /\ conf.noCache => got.lines \cap {"etag", "max-age"} = {}

FilesServed == PagesFresh /\ RepliesTell

----------------------------------------
(* Templates.                                                              *)

(* What an element or a parameter may name: a text, or the parameter of a  *)
(* number.                                                                 *)
Text(x)  == [par |-> 0, text |-> x]
Param(k) == [par |-> k, text |-> ""]

El(kind)       == [kind |-> kind, say |-> Text(""), is |-> Text(""), to |-> <<>>, whole |-> FALSE]
Show(v)        == [El("show") EXCEPT !.say = v]
If(v, w)       == [El("if") EXCEPT !.say = v, !.is = w]
BadIf          == El("badIf")   \* its condition has not three parts
Else           == El("else")
End            == El("end")
Inc(pars)      == [El("inc") EXCEPT !.to = pars]
IncWhole(pars) == [El("inc") EXCEPT !.to = pars, !.whole = TRUE]   \* nopart

----------------------------------------
(* handleVars: a number beyond the parameters stands for nothing. *)
Value(v, pars) == IF v.par = 0 THEN v.text ELSE IF v.par <= Len(pars) THEN pars[v.par] ELSE ""
Values(vs, pars) == [k \in DOMAIN vs |-> Value(vs[k], pars)]

(* parseHtml.  What is shown is decided by the innermost if alone: one     *)
(* inside a branch that is not shown counts for what it encloses.          *)
RECURSIVE ParseHtml(_, _, _)

Skips(ifStack) == ifStack # <<>> /\ ~Last(ifStack)

AtElse(ifStack) == Append(Front(ifStack), Skips(ifStack))

Parsed(acc, e, files, isPart, pars) ==
  LET skip == Skips(acc.ifs)
      Say(out) == IF skip THEN acc ELSE [acc EXCEPT !.out = @ \o out]
  IN CASE e.kind = "show"  -> Say(<<Value(e.say, pars)>>)
       [] e.kind = "inc"   -> IF isPart /\ e.whole THEN acc
                              ELSE Say(ParseHtml(Tail(files), isPart, Values(e.to, pars)))
       [] e.kind = "if"    -> [acc EXCEPT !.ifs = Append(@, Value(e.say, pars) = Value(e.is, pars))]
       [] e.kind = "badIf" -> [acc EXCEPT !.ifs = Append(@, FALSE)]
       [] e.kind = "else"  -> [acc EXCEPT !.ifs = AtElse(@)]
       [] e.kind = "end"   -> [acc EXCEPT !.ifs = Front(@)]

ParseHtml(files, isPart, pars) ==
  FoldLeft(LAMBDA acc, e : Parsed(acc, e, files, isPart, pars),
           [out |-> <<>>, ifs |-> <<>>], Head(files)).out

----------------------------------------
VARIABLE page   \* the files, and the parameters of the page

pagevars == <<page>>

Opens(e) == e.kind \in {"if", "badIf"}
Depth(file, k) ==
  Len(SelectSeq(SubSeq(file, 1, k), Opens)) - Len(SelectSeq(SubSeq(file, 1, k), LAMBDA e : e.kind = "end"))
WellFormed(file) ==
  /\ Depth(file, Len(file)) = 0
  /\ \A k \in DOMAIN file : Depth(file, k) >= 0 /\ (file[k].kind = "else" => Depth(file, k) > 0)

(* Files that are included: nothing, or a text that depends on its parameters. *)
Included == {<<Show(Text("c")), Show(Param(1))>>,
             <<If(Param(1), Text("x")), Show(Param(2)), Else, Show(Text("d")), End>>}

Elements == {Show(Text("a")), Show(Param(1)), If(Param(1), Text("x")), If(Text("x"), Text("x")), BadIf, Else, End,
             Inc(<<Param(1), Text("e")>>), IncWhole(<<Param(2)>>)}

PageInit ==
  \E n \in 0 .. MaxElements : \E file \in [1 .. n -> Elements], below \in Included :
    /\ WellFormed(file)
    /\ page = [files |-> <<file, below>>, pars |-> <<>>]

(* The page is asked for by another one, with parameters. *)
AskPage == \E x, y \in {"x", "y"} : page' = [page EXCEPT !.pars = <<x, y>>]
PageNext == page.pars = <<>> /\ AskPage

----------------------------------------
(* Properties *)

PageTypeOK == \A k \in DOMAIN page.files : WellFormed(page.files[k])

(* What the templates mean: a text is shown when every if around it holds, *)
(* its else turned round.                                                  *)
IfsAround(file, k) ==
  {j \in 1 .. k - 1 : Opens(file[j]) /\ \A i \in j .. k : Depth(file, i) >= Depth(file, j)}
Elses(file, j, k) ==
  Len(SelectSeq([i \in 1 .. k - j |-> [of |-> file[j + i].kind, at |-> Depth(file, j + i)]],
                LAMBDA e : e.of = "else" /\ e.at = Depth(file, j)))
Holds(file, j, k, pars) ==
  LET met == file[j].kind = "if" /\ Value(file[j].say, pars) = Value(file[j].is, pars)
  IN IF Elses(file, j, k) % 2 = 0 THEN met ELSE ~met

RECURSIVE Meant(_, _, _)
Meant(files, isPart, pars) ==
  LET file == Head(files) IN
  FlattenSeq([k \in DOMAIN file |->
    IF ~\A j \in IfsAround(file, k) : Holds(file, j, k, pars) THEN <<>>
    ELSE IF file[k].kind = "show" THEN <<Value(file[k].say, pars)>>
    ELSE IF file[k].kind = "inc" /\ ~(isPart /\ file[k].whole)
         THEN Meant(Tail(files), isPart, Values(file[k].to, pars))
    ELSE <<>>])

(* An if inside a branch that is not shown. *)
Hidden(file, pars) ==
  \E k \in DOMAIN file : Opens(file[k]) /\ ~\A j \in IfsAround(file, k) : Holds(file, j, k, pars)

(* A page says what its templates mean, as long as no if stands inside a   *)
(* branch that is not shown; and the part of a page is the page without    *)
(* what is not included in parts.                                          *)
PagesSay ==
  LET top == Head(page.files)
      reduced == SelectSeq(top, LAMBDA e : ~e.whole)
  IN /\ ~Hidden(top, page.pars) =>
          \A isPart \in BOOLEAN :
            ParseHtml(page.files, isPart, page.pars) = Meant(page.files, isPart, page.pars)
     /\ ParseHtml(page.files, TRUE, page.pars) = ParseHtml(<<reduced>> \o Tail(page.files), FALSE, page.pars)
========================================
