---------------------------- MODULE InotifyTree ----------------------------
(***************************************************************************)
(* inotify_dtree.c: a process that keeps a cache of the directories below  *)
(* the root paths of its command line, from inotify events, while other    *)
(* processes make, remove and rename directories.                          *)
(*                                                                         *)
(* A directory is a model value and a path a sequence of names; the slots  *)
(* of wlCache are a function from watch descriptors to paths, as a watch   *)
(* descriptor is in at most one slot and no decision depends on the order  *)
(* of the slots (the one loop that stops half-way, zapSubtree(), removes   *)
(* an arbitrary part).  Files are left out: their events are looked up and *)
(* dropped.  So are logging, dumping and the checks that only log.         *)
(***************************************************************************)
EXTENDS Integers, Sequences, SequencesExt, FiniteSets, FiniteSetsExt, Functions

CONSTANTS
  Dirs,      \* directories that can exist, besides the one that holds the roots
  Paths,     \* the pathnames that can be used
  RootSeq,   \* rootDirPaths, as given on the command line
  Gone,      \* the place of a directory that does not exist
  NoName,    \* the name in an event that carries none
  MaxOps,    \* bound: changes made to the trees, and commands typed
  MaxRenames,\* bound: how many of them are renames
  MaxQueue,  \* max_queued_events of the kernel
  ReadMax,   \* events that fit in the size given with -b
  BufMax     \* events that fit in INOTIFY_READ_BUF_LEN

ASSUME InotifyTreeAssumption ==
  /\ RootSeq \in Seq(Paths) /\ RootSeq # <<>>
  /\ <<>> \notin Paths /\ Gone \notin Paths /\ MaxQueue > 0
  /\ 0 < ReadMax /\ ReadMax <= BufMax /\ 1 < BufMax

VARIABLES
  at,        \* where each directory is
  watch,     \* kernel: the directory of each watch of the inotify instance
  self,      \* kernel: the watches with IN_MOVE_SELF in their mask
  nwd,       \* kernel: the next watch descriptor
  q,         \* kernel: the queue of events
  half,      \* renames whose IN_MOVED_TO is still to come
  ops,       \* changes made and commands typed, and the renames of them
  excuses,   \* history: what happened that the watcher cannot follow
  pc, cache, roots, buf,
  first,     \* firstTry
  ready,     \* FD_ISSET(inotifyFd, &rfds)
  todo       \* what nftw() has still to visit or to list

fsVars == <<at, half>>
progVars == <<pc, cache, roots, buf, first, ready, todo>>
vars == <<at, watch, self, nwd, q, half, ops, excuses, pc, cache, roots, buf,
          first, ready, todo>>

RootPaths == Range(RootSeq)

\* Is q the directory p, or below it?  (strncmp(), and '/' or the end.)
Under(p, path) == IsPrefix(p, path)
Rebase(path, old, new) == new \o SubSeq(path, Len(old) + 1, Len(path))
Without(f, S) == Restrict(f, DOMAIN f \ S)
Exists(p) == \E d \in Dirs : at[d] = p
DirAt(p) == CHOOSE d \in Dirs : at[d] = p

-----------------------------------------------------------------------------
(* The kernel.                                                             *)

Event(w, k, n, c) == [wd |-> w, kind |-> k, name |-> n, cookie |-> c]

\* The event k that the watch on directory d, if there is one, receives.
EventOn(d, k, n, c) ==
  LET W == {w \in DOMAIN watch : watch[w] = d}
  IN IF W = {} THEN <<>> ELSE <<Event(Max(W), k, n, c)>>

InParent(p, k, c) ==
  IF Exists(Front(p)) THEN EventOn(DirAt(Front(p)), k, Last(p), c) ELSE <<>>

\* An event equal to the last one is not queued again; an event too many
\* is replaced by one IN_Q_OVERFLOW.
Queue(s, ev) ==
  IF s # <<>> /\ Last(s) = ev THEN s
  ELSE IF Len(s) < MaxQueue THEN Append(s, ev)
  ELSE IF Last(s).kind = "overflow" THEN s
  ELSE Append(s, Event(-1, "overflow", NoName, 0))

Post(evs) == q' = FoldLeft(Queue, q, evs)

\* Watches that the kernel drops by itself: the directory is gone.
Dropped(d, k) ==
  /\ Post(EventOn(d, k, NoName, 0) \o EventOn(d, "ignored", NoName, 0))
  /\ watch' = Without(watch, {w \in DOMAIN watch : watch[w] = d})
  /\ self' = self \cap DOMAIN watch'

-----------------------------------------------------------------------------
(* The other processes.                                                    *)

CanChange(r) ==
  /\ ops.all < MaxOps /\ ops.renames + r <= MaxRenames
  /\ ops' = [all |-> ops.all + 1, renames |-> ops.renames + r]

\* The directory that holds p exists, and no rename has it locked.
Free(p) ==
  /\ Len(p) = 1 \/ Exists(Front(p))
  /\ \A h \in Range(half) : Front(p) \notin {Front(h.from), Front(h.to)}

\* Which of the directories that do not exist comes next does not matter.
Unused(d) == at[d] = Gone /\ d = CHOOSE e \in Dirs : at[e] = Gone

Quiet == pc = "select" /\ q = <<>> /\ buf = <<>> /\ half = <<>>

\* What the events do not tell, or the cache does not take up: a rename
\* that comes while older events are unprocessed, a root that comes back, a
\* root that moves into a tree that is monitored.
Excuse(what, if) == excuses' = IF if THEN excuses \cup {what} ELSE excuses

Mkdir(d, p) ==
  /\ CanChange(0) /\ Unused(d) /\ ~Exists(p) /\ Free(p)
  /\ at' = [at EXCEPT ![d] = p] /\ Post(InParent(p, "create", 0))
  /\ Excuse("root back", p \in roots)
  /\ UNCHANGED <<watch, self, nwd, half>>

Rmdir(d) ==
  /\ CanChange(0) /\ at[d] # Gone /\ Free(at[d])
  /\ \A e \in Dirs \ {d} : at[e] # Gone => ~Under(at[d], at[e])
  /\ at' = [at EXCEPT ![d] = Gone] /\ Dropped(d, "delete_self")
  /\ UNCHANGED <<nwd, half, excuses>>

\* A rename changes the tree and posts IN_MOVED_FROM; the other events
\* follow, and in between other processes may post theirs.
Rename(d, p) ==
  /\ CanChange(1) /\ at[d] # Gone /\ Free(at[d])
  /\ ~Exists(p) /\ Free(p) /\ ~Under(at[d], p)
  /\ \A e \in Dirs : at[e] # Gone /\ Under(at[d], at[e]) => Rebase(at[e], at[d], p) \in Paths
  /\ at' = [e \in Dirs |-> IF at[e] # Gone /\ Under(at[d], at[e])
                           THEN Rebase(at[e], at[d], p) ELSE at[e]]
  /\ Post(InParent(at[d], "moved_from", ops.all + 1))
  /\ half' = Append(half, [dir |-> d, from |-> at[d], to |-> p, cookie |-> ops.all + 1])
  /\ excuses' = excuses
       \cup {x \in {"behind"} : ~Quiet} \cup {x \in {"root back"} : p \in roots}
       \cup {x \in {"root moved in"} : at[d] \in roots /\ \E r \in roots : Under(r, p)}
  /\ UNCHANGED <<watch, self, nwd>>

MovedTo(i) ==
  /\ LET h == half[i] IN
       Post(InParent(h.to, "moved_to", h.cookie)
            \o SelectSeq(EventOn(h.dir, "move_self", NoName, 0), LAMBDA e : e.wd \in self))
  /\ half' = RemoveAt(half, i)
  /\ UNCHANGED <<at, ops, watch, self, nwd, excuses>>

\* The filesystem mounted on an empty root is unmounted: the directory of
\* the mount point is another one, and shows up in its place.
Unmount(d, e) ==
  /\ CanChange(0) /\ at[d] \in RootPaths /\ Unused(e)
  /\ \A c \in Dirs \ {d} : at[c] # Gone => ~Under(at[d], at[c])
  /\ at' = [at EXCEPT ![d] = Gone, ![e] = at[d]] /\ Dropped(d, "unmount")
  /\ Excuse("unmounted", TRUE)
  /\ UNCHANGED <<nwd, half>>

Outside ==
  \/ \E d \in Dirs, p \in Paths : Mkdir(d, p) \/ Rename(d, p)
  \/ \E d \in Dirs : Rmdir(d)
  \/ \E d, e \in Dirs : Unmount(d, e)

RenameEnds == \E i \in DOMAIN half : MovedTo(i)

-----------------------------------------------------------------------------
(* The cache and the roots.                                                *)

Goto(l) == pc' = l
InCache(p) == p \in Range(cache)                  \* pathnameInCache()
AddWatchToCache(w, p) == cache' = [x \in DOMAIN cache \cup {w} |->
                                    IF x = w THEN p ELSE cache[x]]
MarkCacheSlotEmpty(w) == cache' = Without(cache, {w})

\* A slip: only the directory itself, not what is below it.
RewriteCachedPathOnly(old, new) ==
  cache' = [w \in DOMAIN cache |-> IF cache[w] = old THEN new ELSE cache[w]]

RewriteCachedPaths(old, new) ==
  cache' = [w \in DOMAIN cache |-> IF Under(old, cache[w])
                                   THEN Rebase(cache[w], old, new) ELSE cache[w]]

Exit ==
  /\ Goto("exit") /\ watch' = <<>> /\ self' = {} /\ q' = <<>> /\ cache' = <<>>
  /\ buf' = <<>> /\ todo' = <<>>
  /\ UNCHANGED <<nwd, roots, first, ready>>

\* nftw() on each path of the sequence ps, one after the other.
WatchSubtrees(ps) ==
  /\ todo' = [i \in DOMAIN ps |-> [visit |-> TRUE, path |-> ps[i], walk |-> ps[i]]]
  /\ Goto("walk")

\* A new inotify instance, an empty cache, and all trees walked again; the
\* events left in the buffer are discarded.
Reinitialize(rs) ==
  /\ watch' = <<>> /\ self' = {} /\ nwd' = 1 /\ q' = <<>>
  /\ cache' = <<>> /\ buf' = <<>>
  /\ WatchSubtrees(SelectSeq(RootSeq, LAMBDA p : p \in rs))

InSubtree(p) == {w \in DOMAIN cache : Under(p, cache[w])}

\* inotify_rm_watch() and markCacheSlotEmpty() for the watches W.
RemoveWatches(W) ==
  /\ watch' = Without(watch, W) /\ self' = self \ W
  /\ Post([i \in 1..Cardinality(W) |->
             Event(SetToSeq(W)[i], "ignored", NoName, 0)])
  /\ cache' = Without(cache, W) /\ UNCHANGED nwd

\* zapSubtree() fails when one of the watches no longer exists.
ZapFails(p) == ~(InSubtree(p) \subseteq DOMAIN watch)

-----------------------------------------------------------------------------
(* nftw() and traverseTree().                                              *)

\* A path that is gone.  lstat() or inotify_add_watch() fails with ENOENT, and
\* it is passed over; or it was there for lstat() and not for opendir(), and
\* nftw() returns -1: watchDir() logs it, and what this call of nftw() had
\* still to visit stays unvisited.
Vanished ==
  \/ todo' = Tail(todo)
  \/ todo' = SelectSeq(todo, LAMBDA e : e.walk # Head(todo).walk)

\* lstat() and traverseTree(): inotify_add_watch() on a directory that is
\* watched already gives the same watch descriptor with the new mask.
Visit ==
  /\ pc = "walk" /\ todo # <<>> /\ Head(todo).visit
  /\ LET p == Head(todo).path
         old == {w \in DOMAIN watch : watch[w] = DirAt(p)}
         wd == IF old = {} THEN nwd ELSE Max(old)
     IN IF ~Exists(p)
        THEN Vanished /\ UNCHANGED <<watch, self, nwd, cache>>
        ELSE /\ nwd' = IF old = {} THEN nwd + 1 ELSE nwd
             /\ watch' = [x \in DOMAIN watch \cup {wd} |->
                            IF x = wd THEN DirAt(p) ELSE watch[x]]
             /\ self' = IF p \in roots THEN self \cup {wd} ELSE self \ {wd}
             /\ IF wd \in DOMAIN cache THEN UNCHANGED cache ELSE AddWatchToCache(wd, p)
             /\ todo' = <<[Head(todo) EXCEPT !.visit = FALSE]>> \o Tail(todo)
  /\ UNCHANGED <<pc, q, roots, buf, first, ready>>

\* The walk goes on below the directory, in the order of its entries.
List ==
  /\ pc = "walk" /\ todo # <<>> /\ ~Head(todo).visit
  /\ LET p == Head(todo).path
         below == {at[d] : d \in {e \in Dirs : at[e] # Gone /\ Len(at[e]) = Len(p) + 1
                                               /\ Under(p, at[e])}}
     IN \E s \in SetToSeqs(below) :
          todo' = [i \in DOMAIN s |-> [Head(todo) EXCEPT !.visit = TRUE, !.path = s[i]]]
                  \o Tail(todo)
  /\ UNCHANGED <<pc, watch, self, nwd, q, cache, roots, buf, first, ready>>

WalkEnds ==
  /\ pc = "walk" /\ todo = <<>> /\ Goto("loop")
  /\ UNCHANGED <<watch, self, nwd, q, cache, roots, buf, first, ready, todo>>

-----------------------------------------------------------------------------
(* processNextInotifyEvent().                                              *)

Ev == Head(buf)
Consume(n) == buf' = SubSeq(buf, n + 1, Len(buf)) /\ first' = TRUE
HasNext == Len(buf) > 1
Pairs == HasNext /\ buf[2].kind = "moved_to" /\ buf[2].cookie = Ev.cookie
FullPath(e) == Append(cache[e.wd], e.name)

\* findWatchChecked() fails for the event, for the second of a pair, or the
\* queue has overflowed.
CacheProblem ==
  \/ Ev.wd # -1 /\ Ev.kind # "ignored" /\ Ev.wd \notin DOMAIN cache
  \/ Ev.kind = "moved_from" /\ Pairs /\ buf[2].wd \notin DOMAIN cache
  \/ Ev.kind = "overflow"

OnProblem ==
  /\ CacheProblem /\ Reinitialize(roots)
  /\ first' = TRUE /\ UNCHANGED <<roots, ready>>

\* IN_CREATE or IN_MOVED_TO of a directory.
OnAppear ==
  /\ Ev.kind \in {"create", "moved_to"} /\ Consume(1)
  /\ IF InCache(FullPath(Ev)) THEN UNCHANGED <<pc, todo>>
     ELSE WatchSubtrees(<<FullPath(Ev)>>)
  /\ UNCHANGED <<watch, self, nwd, q, cache, roots, ready>>

\* zapRootDirPath() ends the program with the last of the roots.
LastRoot(p) == roots = {p}

OnDeleteSelf ==
  /\ Ev.kind = "delete_self"
  /\ IF LastRoot(cache[Ev.wd]) THEN Exit
     ELSE /\ roots' = roots \ {cache[Ev.wd]}
          /\ MarkCacheSlotEmpty(Ev.wd) /\ Consume(1)
          /\ UNCHANGED <<pc, watch, self, nwd, q, ready, todo>>

\* An IN_MOVED_FROM directly followed by its IN_MOVED_TO.
OnRename ==
  /\ Ev.kind = "moved_from" /\ Pairs
  /\ RewriteCachedPaths(FullPath(Ev), FullPath(buf[2])) /\ Consume(2)
  /\ UNCHANGED <<pc, watch, self, nwd, q, roots, ready, todo>>

\* zapSubtree() of the path p once event Ev is known to mean it is gone.
Zap(p, rs) ==
  /\ roots' = rs /\ UNCHANGED ready
  /\ \/ ZapFails(p) /\ Reinitialize(rs) /\ first' = TRUE
     \/ /\ ~ZapFails(p) /\ RemoveWatches(InSubtree(p))
        /\ Consume(1) /\ UNCHANGED <<pc, todo>>

\* It is followed by something else: moved out of the trees.  At the end of
\* the buffer, the first time, more is to be read.
OnMovedFrom ==
  /\ Ev.kind = "moved_from" /\ ~Pairs
  /\ \/ (HasNext \/ ~first) /\ Zap(FullPath(Ev), roots)
     \/ /\ ~HasNext /\ first /\ Goto("hanging")
        /\ UNCHANGED <<watch, self, nwd, q, cache, roots, buf, first, ready, todo>>

OnUnmount ==
  /\ Ev.kind = "unmount" /\ MarkCacheSlotEmpty(Ev.wd) /\ Consume(1)
  /\ UNCHANGED <<pc, watch, self, nwd, q, roots, ready, todo>>

OnMoveSelf ==
  /\ Ev.kind = "move_self"
  /\ LET p == cache[Ev.wd] IN
       IF p \notin roots
       THEN Consume(1) /\ UNCHANGED <<pc, watch, self, nwd, q, cache, roots, ready, todo>>
       ELSE IF LastRoot(p) THEN Exit ELSE Zap(p, roots \ {p})

OnIgnored ==
  /\ Ev.kind = "ignored" /\ Consume(1)
  /\ UNCHANGED <<pc, watch, self, nwd, q, cache, roots, ready, todo>>

ProcessNextEvent ==
  /\ pc = "loop" /\ buf # <<>>
  /\ \/ OnProblem
     \/ ~CacheProblem /\ (\/ OnAppear \/ OnDeleteSelf \/ OnRename \/ OnMovedFrom
                           \/ OnUnmount \/ OnMoveSelf \/ OnIgnored)

-----------------------------------------------------------------------------
(* processInotifyEvents() and main().                                      *)

ReadEvents(room) ==
  LET n == Min({Len(q), room}) IN
  /\ q # <<>> /\ q' = SubSeq(q, n + 1, Len(q)) /\ buf' = buf \o SubSeq(q, 1, n)
  /\ UNCHANGED <<watch, self, nwd, cache, roots, todo>>

\* The loop over the buffer is over: the inotify descriptor, if select()
\* said it was ready, or back to select().
LoopEnds ==
  /\ pc = "loop" /\ buf = <<>> /\ Goto(IF ready THEN "read" ELSE "select")
  /\ UNCHANGED <<watch, self, nwd, q, cache, roots, buf, first, ready, todo>>

Read ==
  /\ pc = "read" /\ ReadEvents(ReadMax) /\ first' = TRUE /\ ready' = FALSE
  /\ Goto("loop")

\* A slip: after the timeout the event is looked at as if for the first time.
ReadAgainAndAgain ==
  /\ pc = "hanging" /\ UNCHANGED ready
  /\ \/ ReadEvents(BufMax - Len(buf)) /\ first' = FALSE /\ Goto("loop")
     \/ /\ q = <<>> /\ Goto("loop")
        /\ UNCHANGED <<watch, self, nwd, q, cache, roots, buf, first, todo>>

\* ualarm(), then read(): it gets more events, or the alarm interrupts it,
\* or the alarm came before it was called and it has no timeout any more.
ReadAgain ==
  /\ pc = "hanging" /\ UNCHANGED ready
  /\ \/ ReadEvents(BufMax - Len(buf)) /\ first' = FALSE /\ Goto("loop")
     \/ /\ q = <<>> /\ first' = FALSE /\ Goto("loop")
        /\ UNCHANGED <<watch, self, nwd, q, cache, roots, buf, todo>>
     \/ /\ q = <<>> /\ Goto("blocked")
        /\ UNCHANGED <<watch, self, nwd, q, cache, roots, buf, first, todo>>

ReadBlocked ==
  /\ pc = "blocked" /\ ReadEvents(BufMax - Len(buf)) /\ first' = FALSE
  /\ Goto("loop") /\ UNCHANGED ready

\* main() up to the loop: a path that is not there, or inotify_init(),
\* ends the program.
Start ==
  /\ pc = "start"
  /\ \/ /\ \A p \in RootPaths : Exists(p)
        /\ Reinitialize(roots) /\ UNCHANGED <<roots, first, ready>>
     \/ Exit

Select ==
  /\ pc = "select" /\ q # <<>> /\ ready' = TRUE /\ Goto("loop")
  /\ UNCHANGED <<watch, self, nwd, q, cache, roots, buf, first, todo>>

\* zapSubtree() for a command: what it removed before a failure stays so,
\* and nothing else is done about the failure.
ZapSome(p) ==
  LET W == InSubtree(p) \cap DOMAIN watch IN
  IF ZapFails(p) THEN \E R \in SUBSET W : RemoveWatches(R) ELSE RemoveWatches(W)

\* History: an nftw() given up with directories still to visit, until a
\* rebuild, with its new watch descriptors, walks all trees again.
GaveUp == pc = "walk" /\ Len(todo') < Len(todo) - 1
Rebuilt == pc # "walk" /\ pc' = "walk" /\ nwd' = 1
Remember ==
  excuses' = IF GaveUp THEN excuses \cup {"walk given up"}
             ELSE IF Rebuilt THEN excuses \ {"walk given up"} ELSE excuses

\* Standard input is ready, the inotify descriptor may be as well: commands
\* a, z, 0, q and the ones that change nothing.  The descriptor that
\* replaces another has the same number, and is still in rfds.
ExecuteCommand ==
  /\ pc = "select" /\ CanChange(0) /\ UNCHANGED fsVars
  /\ \/ /\ \E p \in Paths :
             /\ ZapSome(p) /\ WatchSubtrees(<<p>>)
             /\ Excuse("command", ~Quiet \/ ~\E r \in roots : Under(r, p))
        /\ ready' = (q # <<>>) /\ UNCHANGED <<roots, buf, first>>
     \/ /\ \E p \in Paths : ZapSome(p) /\ Excuse("command", InSubtree(p) # {})
        /\ ready' = (q # <<>>) /\ Goto("loop")
        /\ UNCHANGED <<roots, buf, first, todo>>
     \/ /\ Reinitialize(roots) /\ ready' = (q # <<>>)
        /\ Remember /\ UNCHANGED <<roots, first>>
     \/ Exit /\ UNCHANGED excuses

Program ==
  /\ \/ Start \/ Select \/ Read \/ ReadAgain \/ ReadBlocked \/ LoopEnds
     \/ Visit \/ List \/ WalkEnds \/ ProcessNextEvent
  /\ Remember /\ UNCHANGED <<fsVars, ops>>

Init ==
  /\ at = CHOOSE f \in [Dirs -> RootPaths \cup {Gone}] :
            \A p \in RootPaths : Cardinality({d \in Dirs : f[d] = p}) = 1
  /\ watch = <<>> /\ self = {} /\ nwd = 1 /\ q = <<>> /\ half = <<>>
  /\ ops = [all |-> 0, renames |-> 0] /\ excuses = {}
  /\ pc = "start" /\ cache = <<>> /\ roots = RootPaths /\ buf = <<>>
  /\ first = TRUE /\ ready = FALSE /\ todo = <<>>

Next ==
  \/ (Outside \/ RenameEnds) /\ UNCHANGED progVars
  \/ Program
  \/ ExecuteCommand

\* The program's steps and the second half of a rename are not put off for
\* ever; nobody has to change the tree or to type a command.
Fairness ==
  /\ WF_vars(Program)
  /\ WF_vars(RenameEnds /\ UNCHANGED progVars)

Spec == Init /\ [][Next]_vars /\ Fairness

-----------------------------------------------------------------------------
(* Properties.                                                             *)

TypeOK ==
  /\ at \in [Dirs -> Paths \cup {Gone}]
  /\ DOMAIN watch \subseteq 1..(nwd - 1) /\ Range(watch) \subseteq Dirs
  /\ DOMAIN cache \subseteq 1..(nwd - 1) /\ self \subseteq DOMAIN watch
  /\ Len(q) <= MaxQueue + 1 /\ Len(buf) <= BufMax
  /\ roots \subseteq RootPaths /\ {first, ready} \subseteq BOOLEAN
  /\ pc \in {"start", "walk", "select", "loop", "read", "hanging", "blocked", "exit"}

\* The directories that are below the root paths still monitored.
Tree == {at[d] : d \in {e \in Dirs : at[e] # Gone /\ \E r \in roots : Under(r, at[e])}}

\* The cache says where every watched directory is, and watches all.
Exact ==
  /\ DOMAIN cache = DOMAIN watch /\ Range(cache) = Tree
  /\ \A w \in DOMAIN cache : at[watch[w]] = cache[w]

\* processInotifyEvents(), "to keep our cached view of the subtree in sync":
\* when all events are processed and nothing happened that they do not tell,
\* and no walk was given up since the last rebuild (the missing entries that
\* findWatchChecked() speaks of), the cache is exactly the trees, whatever
\* timeouts, overflows, rebuilds and refreshes there were.
InSync == Quiet /\ excuses = {} => Exact

\* The watches of the kernel and the cache never part for good: a watch is
\* in the cache, and a cached watch the kernel has dropped has its last
\* event, or an overflow, still to be processed.
WatchesKnown ==
  /\ DOMAIN watch \subseteq DOMAIN cache
  /\ \A w \in DOMAIN cache \ DOMAIN watch : \E e \in Range(buf \o q) :
       e.kind = "overflow" \/ (e.wd = w /\ e.kind \in {"delete_self", "unmount"})

\* An IN_MOVED_FROM at the end of the buffer is not read for for ever: the
\* buffer is worked off, unless the alarm was lost.
BufferWorkedOff == (buf # <<>>) ~> (buf = <<>> \/ pc = "blocked")

\* The header of the file: a representation "that remains consistent with
\* the filesystem", once all events are processed.
RemainsConsistent == Quiet /\ excuses \subseteq {"root moved in"} => Exact
=============================================================================
