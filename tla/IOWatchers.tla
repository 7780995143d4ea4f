----------------------------- MODULE IOWatchers -----------------------------
(***************************************************************************)
(* File descriptors in the event loop: the io watchers of the vendored     *)
(* libev (util/libev/ev.c) and its epoll backend (ev_epoll.c), as TCP      *)
(* connections use them (net/impl/tcpmanagerimpl.cpp): a read and a write  *)
(* watcher each, stopped before the descriptor is closed.                  *)
(*                                                                         *)
(* The kernel is external.  It registers open files, not descriptors: the  *)
(* descriptor may name a new connection while a forked child (sendmail of  *)
(* util/mailer.cpp; sockets are not close-on-exec) keeps the old file, and *)
(* its registration, alive.  libev tells the two apart by a generation     *)
(* number that it only compares with the current one: here a registration  *)
(* is fresh or not.                                                        *)
(***************************************************************************)
EXTENDS Naturals, Sequences, FiniteSets

CONSTANTS
  Conns,  \* connections that can exist at a time, each with a file of its own
  Fds,    \* descriptors
  NoFd    \* of a connection that is not open

ASSUME WatchersAssumption == IsFiniteSet(Conns) /\ NoFd \notin Fds

\* Of a descriptor (anfds); that reify is set is to be in fdchanges.
VARIABLES
  conn,     \* the descriptor of each connection
  head,     \* its watchers that are started; their order is left open
  events,   \* what libev believes it has told the kernel
  emask,    \* the mask of its registration
  reify,    \* flags of what changed
  iofdset,  \* watchers with EV__IOFDSET: not started since the descriptor was set
  fedio,    \* pendings: the last is called first
  rearm,    \* postfork
  phase,    \* "callbacks", "wait" or "poll"
  todo,     \* what epoll_wait returned and is not yet handled
  reg       \* the kernel's epoll set

anfds  == <<head, events, emask, reify>>
iovars == <<conn, anfds, iofdset, fedio, rearm, phase, todo, reg>>

Events == {"read", "write"}
Watchers == Conns \X Events
NoWatcher == <<>>  \* pending_w

IOInit ==
  /\ conn = [x \in Conns |-> NoFd]
  /\ head = [f \in Fds |-> {}] /\ events = [f \in Fds |-> {}]
  /\ emask = [f \in Fds |-> {}] /\ reify = [f \in Fds |-> {}]
  /\ iofdset = {} /\ fedio = <<>> /\ rearm = FALSE
  /\ phase = "callbacks" /\ todo = {} /\ reg = {}

----------------------------------------
IsActive(w) == \E f \in Fds : w \in head[f]
Wants(f)    == {w[2] : w \in head[f]}
File(f)     == CHOOSE x \in Conns : conn[x] = f

FdChange(f, flags) == reify' = [reify EXCEPT ![f] = @ \cup flags]

\* w->pending; the history says which file the event is of.
Pending(w) == {i \in DOMAIN fedio : fedio[i].w = w}

\* The place is kept, for a watcher that does nothing.
ClearPending(ws) ==
  fedio' = [i \in DOMAIN fedio |-> IF fedio[i].w \in ws THEN [w |-> NoWatcher, of |-> NoFd] ELSE fedio[i]]

\* fd_event and ev_feed_event: one event for a watcher that is waiting for it.
FdEvent(f, got, file) ==
  LET ws == {w \in head[f] : w[2] \in got /\ Pending(w) = {}} IN
  \E list \in [1 .. Cardinality(ws) -> ws] :
    /\ \A i, j \in DOMAIN list : list[i] = list[j] => i = j
    /\ fedio' = fedio \o [i \in DOMAIN list |-> [w |-> list[i], of |-> file]]

----------------------------------------
(* The user *)

\* accept() or connect(), and TCPConnData
Open(x, f) ==
  /\ phase = "callbacks" /\ conn[x] = NoFd /\ \A y \in Conns : conn[y] # f
  /\ \A r \in reg : r.file # x
  /\ conn' = [conn EXCEPT ![x] = f]
  /\ iofdset' = iofdset \cup {<<x, e>> : e \in Events}
  /\ UNCHANGED <<anfds, fedio, rearm, phase, todo, reg>>

IoStart(w) ==
  /\ phase = "callbacks" /\ conn[w[1]] # NoFd /\ ~IsActive(w)
  /\ head' = [head EXCEPT ![conn[w[1]]] = @ \cup {w}]
  /\ FdChange(conn[w[1]], {"reify"} \cup IF w \in iofdset THEN {"iofdset"} ELSE {})
  /\ iofdset' = iofdset \ {w}
  /\ UNCHANGED <<conn, events, emask, fedio, rearm, phase, todo, reg>>

\* ev_io_stop, of watchers of one descriptor
Stopped(f, ws) ==
  /\ ClearPending(ws)
  /\ head' = [head EXCEPT ![f] = @ \ ws]
  /\ FdChange(f, IF ws \cap head[f] = {} THEN {} ELSE {"reify"})

IoStop(w) ==
  /\ phase = "callbacks" /\ IsActive(w)
  /\ Stopped(conn[w[1]], {w})
  /\ UNCHANGED <<conn, events, emask, iofdset, rearm, phase, todo, reg>>

\* shared: a child has the file too, and keeps its registration.
Close(x, shared) ==
  /\ phase = "callbacks" /\ conn[x] # NoFd
  /\ Stopped(conn[x], {x} \X Events)
  /\ conn' = [conn EXCEPT ![x] = NoFd]
  /\ reg' = IF shared THEN reg ELSE {r \in reg : r.file # x}
  /\ UNCHANGED <<events, emask, iofdset, rearm, phase, todo>>

ChildExits ==
  /\ reg' = {r \in reg : conn[r.file] # NoFd}
  /\ reg' # reg
  /\ UNCHANGED <<conn, anfds, iofdset, fedio, rearm, phase, todo>>

----------------------------------------
(* Before the loop blocks.  With postfork, epoll_fork and fd_rearm_all     *)
(* start with a set of the kernel's that is empty.                         *)

Rearmed(f)   == rearm /\ events[f] # {}
OldEvents(f) == IF Rearmed(f) THEN {} ELSE events[f]
OldMask(f)   == IF Rearmed(f) THEN {} ELSE emask[f]
OldReg       == IF rearm THEN {} ELSE reg
Flags(f)     == reify[f] \cup IF Rearmed(f) THEN {"iofdset", "reify"} ELSE {}

\* Mutant: another descriptor behind the number is not noticed.
FdReifyEvents(f) == Flags(f) # {} /\ OldEvents(f) # Wants(f)

\* fd_reify: does it call epoll_modify?
FdReify(f) == Flags(f) # {} /\ (OldEvents(f) # Wants(f) \/ "iofdset" \in Flags(f))

Registered(f) == \E r \in OldReg : r.fd = f /\ r.file = File(f)

\* MOD turns into ADD for a file that is not registered, ADD into MOD for one
\* that is, unless its mask is right.
EpollModify(f) == FdReify(f) /\ Wants(f) # {}
Register(f)    == EpollModify(f) /\ ~(Registered(f) /\ OldMask(f) = Wants(f))

\* A new generation: the other registrations of the descriptor are stale.
Registrations ==
  {[r EXCEPT !.fresh = @ /\ ~Register(r.fd)] : r \in {q \in OldReg : Register(q.fd) => q.file # File(q.fd)}}
    \cup {[fd |-> f, file |-> File(f), mask |-> Wants(f), fresh |-> TRUE] : f \in {g \in Fds : Register(g)}}

Poll ==
  /\ phase = "callbacks" /\ fedio = <<>>
  /\ events' = [f \in Fds |-> IF Flags(f) = {} THEN events[f] ELSE Wants(f)]
  /\ emask' = [f \in Fds |-> IF EpollModify(f) THEN Wants(f) ELSE OldMask(f)]
  /\ reify' = [f \in Fds |-> {}]
  /\ reg' = Registrations
  /\ rearm' = FALSE
  /\ phase' = "wait"
  /\ UNCHANGED <<conn, head, iofdset, fedio, todo>>

----------------------------------------
(* epoll_poll *)

EpollWait ==
  /\ phase = "wait"
  /\ phase' = "poll"
  /\ todo' \in SUBSET reg
  /\ UNCHANGED <<conn, anfds, iofdset, fedio, rearm, reg>>

\* An event nobody asked for: mend the kernel's mask.  An error tells that the
\* file of the event is not the one of the descriptor; the event is dropped.
Mend(f, got, file) ==
  LET want == events[f]
      mine == {q \in reg : q.fd = f /\ conn[q.file] = f}
  IN  /\ emask' = [emask EXCEPT ![f] = want]
      /\ \/ mine = {} /\ rearm' = TRUE /\ UNCHANGED <<fedio, reg>>
         \/ /\ mine # {} /\ FdEvent(f, got, file) /\ UNCHANGED rearm
            /\ reg' = (reg \ mine) \cup
                      IF want = {} THEN {} ELSE {[q EXCEPT !.mask = want] : q \in mine}

\* Errors and hang-ups count as both events.
Report(r, got) ==
  /\ phase = "poll" /\ r \in todo
  /\ got \subseteq r.mask \/ got = Events
  /\ todo' = todo \ {r}
  /\ \/ ~r.fresh /\ rearm' = TRUE /\ UNCHANGED <<emask, fedio, reg>>
     \/ /\ r.fresh /\ got \subseteq events[r.fd] /\ FdEvent(r.fd, got, r.file)
        /\ UNCHANGED <<emask, rearm, reg>>
     \/ r.fresh /\ ~(got \subseteq events[r.fd]) /\ Mend(r.fd, got, r.file)
  /\ UNCHANGED <<conn, head, events, reify, iofdset, phase>>

PollEnds ==
  /\ phase = "poll" /\ todo = {}
  /\ phase' = "callbacks"
  /\ UNCHANGED <<conn, anfds, iofdset, fedio, rearm, todo, reg>>

\* The last one first; its callback does any of what the user can do.
Invoke ==
  /\ phase = "callbacks" /\ fedio # <<>>
  /\ fedio' = SubSeq(fedio, 1, Len(fedio) - 1)
  /\ UNCHANGED <<conn, anfds, iofdset, rearm, phase, todo, reg>>

----------------------------------------
IONext ==
  \/ \E x \in Conns, f \in Fds : Open(x, f)
  \/ \E w \in Watchers : IoStart(w) \/ IoStop(w)
  \/ \E x \in Conns, shared \in BOOLEAN : Close(x, shared)
  \/ ChildExits
  \/ Poll \/ EpollWait \/ PollEnds \/ Invoke
  \/ \E r \in todo, got \in (SUBSET Events) \ {{}} : Report(r, got)

IOSpec == IOInit /\ [][IONext]_iovars

----------------------------------------
(* Properties *)

IOTypeOK ==
  /\ conn \in [Conns -> Fds \cup {NoFd}]
  /\ head \in [Fds -> SUBSET Watchers]
  /\ events \in [Fds -> SUBSET Events] /\ emask \in [Fds -> SUBSET Events]
  /\ reify \in [Fds -> SUBSET {"reify", "iofdset"}]
  /\ iofdset \subseteq Watchers /\ rearm \in BOOLEAN
  /\ fedio \in Seq([w : Watchers \cup {NoWatcher}, of : Conns \cup {NoFd}])
  /\ phase \in {"callbacks", "wait", "poll"}
  /\ reg \subseteq [fd : Fds, file : Conns, mask : (SUBSET Events) \ {{}}, fresh : BOOLEAN]
  /\ todo \subseteq [fd : Fds, file : Conns, mask : (SUBSET Events) \ {{}}, fresh : BOOLEAN]

(* Whoever waits is heard: when the loop blocks, the file of every active  *)
(* watcher is registered with the kernel for what the watcher wants, in    *)
(* the current generation.                                                 *)
KernelInSync ==
  phase = "wait" =>
    \A w \in Watchers : IsActive(w) =>
      \E r \in reg : r.file = w[1] /\ r.fd = conn[w[1]] /\ r.fresh /\ w[2] \in r.mask

(* A callback runs for a watcher that is active, at most once for one      *)
(* poll, and for an event of its own file: never for one of the connection *)
(* that had the descriptor before.                                         *)
EventsTrue ==
  \A i \in DOMAIN fedio :
    LET p == fedio[i]
    IN  p.w # NoWatcher => IsActive(p.w) /\ p.of = p.w[1] /\ Pending(p.w) = {i}

(* Whoever waits is heard, and of his own connection.                      *)
WatchersTrue == KernelInSync /\ EventsTrue

----------------------------------------
(* The inductive invariant *)

(* A started watcher is of the connection its descriptor names.            *)
HeadsOwned ==
  /\ \A f \in Fds : \A w \in head[f] : conn[w[1]] = f /\ w \notin iofdset
  /\ \A x, y \in Conns : conn[x] = conn[y] /\ conn[x] # NoFd => x = y

(* Where nothing has changed libev knows what is wanted; between the poll  *)
(* and the callbacks nothing has.                                          *)
ChangesNoted ==
  /\ \A f \in Fds : reify[f] = {} => events[f] = Wants(f)
  /\ phase # "callbacks" => \A f \in Fds : reify[f] = {}

(* The registration of the file a descriptor names has the mask libev      *)
(* remembers and is of the current generation, as at most one is.          *)
Generations ==
  /\ \A r \in reg : conn[r.file] = r.fd => r.fresh /\ r.mask = emask[r.fd]
  /\ \A r, q \in reg : r.fd = q.fd /\ r.fresh /\ q.fresh => r = q

(* What libev believes it has told the kernel, it has, unless the          *)
(* descriptor is closed, was set anew and not yet started, or is marked.   *)
Started(x) == \E e \in Events : <<x, e>> \notin iofdset
Told ==
  \A f \in Fds : \A x \in Conns :
    (conn[x] = f /\ Started(x) /\ events[f] # {} /\ "iofdset" \notin reify[f]) =>
      (emask[f] = events[f] /\ \E r \in reg : r.fd = f /\ r.file = x)

(* An event under way that is of the current generation is of the file     *)
(* that is registered.                                                     *)
UnderWay ==
  phase = "poll" =>
    \A r \in todo, q \in reg :
      r.fresh /\ q.fd = r.fd /\ conn[q.file] = q.fd => q.file = r.file

IOInv == IOTypeOK /\ HeadsOwned /\ ChangesNoted /\ Generations /\ Told /\ UnderWay /\ EventsTrue
========================================
