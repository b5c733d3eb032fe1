# stage0 in TLA+

`stage0` is a repository of C programs written while studying: a text editor
(`kilo`), the Game of Life (`life`), exercises from *The Linux Programming
Interface* (`tlpi`), *Modern C*, *OSTEP* and *CS:APP*, and next to them the
book's own suite of example programs (`tlpi/tlpi-dist`) and a terminal library
(`life/termbox2.h`).  This project models the programs that keep state and talk
to something with a behaviour of its own (a terminal, a kernel, other
processes), checks them with TLC on small instances, and proves with TLAPS what
can be proved for every instance.

All source paths below are relative to `src/stage0/`.

## 1. Inventory

| Component | State | Operations | Talks to | Hard part |
|---|---|---|---|---|
| `kilo/kilo.c`, the editor | `editorConfig E` (cursor, window size), saved `termios`, exit handler | `enableRawMode`, `getWindowSize`, `getCursorPosition`, `editorReadKey`, `editorMoveCursor`, `editorRefreshScreen`, `die` | the terminal, both ways, over a queue with a 100 ms read timeout | a key or a report is several bytes and may be cut by a timeout anywhere; every system call may fail after the terminal was made raw |
| `life/main.c`, Game of Life | `board`, two character buffers, `generation`, `living_cells`, `ch`, saved modes | `populate_board`, `count_neighbors`, `update`, `draw_board`, the frame loop | terminal, keyboard (non-blocking), signals | only differences are drawn; flat index arithmetic at the edges; `ch` is read uninitialised |
| `tlpi/fileio/{atomic_append,append,bad_exclusive_open}.c` | per process: descriptor offset, loop counter; shared: one file | open, lseek, write per step | each other, through the file | races between lseek and write, and between two `open()` calls |
| `tlpi/fileio/{copy,cp,tee}.c` | two offsets, a buffer, `inHole` | read, lseek, write, close | file system | partial and failing calls, holes, OUT = IN, OUT longer than IN, disk full |
| `tlpi/fileio/{dup,verify_dup}.c` | descriptor table, open file descriptions | `my_dup`, `my_dup2`, both `main` | kernel | any inherited table, table full, equal arguments, closing twice |
| `tlpi/fileio/{seek_io,large_file,large_file2,t_readv}.c` | one offset | interpreter of `r`/`R`/`w`/`s` commands; straight-line demonstrations | file system | sparse files |
| `tlpi/proc` | `environ` | `setenv2`, `unsetenv2` (unfinished), `longjmp`, printers | C library | ownership of strings in `environ` |
| `tlpi/memalloc`, `tlpi/user_groups` | none of their own | observe `sbrk`; look up users and groups; check a password | C library | - |
| `modern_c/control` | loop variables | `binary_search`, Heron's reciprocal | - | bounds of the search |
| `ostep`, `csapp` | none | print-only exercises | - | - |
| `life/termbox2.h` | `global`: two cell buffers, byte buffers in and out, size, modes, capability trie, resize pipe | `tb_init*`, `tb_shutdown`, `tb_present`, cell and text calls, `tb_peek_event`, `tb_poll_event` | terminal, `SIGWINCH`, its application | escape sequences cut anywhere, a resize at any moment, a failing step of the start-up, wide characters in differences |
| `tlpi-dist/inotify/inotify_dtree.c` | `wlCache`, root paths, the read buffer, `firstTry` | `traverseTree`, `processNextInotifyEvent`, `rewriteCachedPaths`, `zapSubtree`, `reinitialize`, commands | kernel watches and queue; processes that change the trees | the tree is always ahead of the events; a rename is two events that need not come together; overflow |
| `tlpi-dist/sockets`, `pipes/fifo_seqnum_*`, `svmsg/svmsg_file_*` | servers: sequence number, children, connections; clients | one step per system call | each other, over FIFOs, sockets and queues | killed and slow clients, merged `SIGCHLD`, datagrams lost or doubled, descriptors that stay open |
| `tlpi-dist/svsem`, `svshm`, `psem`, `pmsg` | semaphores, shared block, queue and registration | reserve, release, initialize, notify, drain | each other | initialization races, notification between drain and registration |
| `tlpi-dist/seccomp` | installed filters; target and supervisor | filters as programs, dump and reload, notify, answer | kernel | architectures, argument halves, a target killed while its call is served |
| `tlpi-dist/threads` | shared counters, `mtx`, `cond`, thread states | lock, load, store, signal, wait, join, cancel | each other | lost updates, lost wake-ups, cancellation |
| `tlpi-dist/procexec`, `signals`, `namespaces`, `cap` | children, masks, pending signals, credentials, capability sets, namespace descriptors | fork, wait, handlers, exec, map, launch | kernel, children | signals merged or handled too early, who reaps whom, order of dropping privileges |
| `tlpi-dist/altio`, `pipes`, `pty`, `filelock`, `daemons` | ready sets, pipes, locks, PID files | select, epoll, relay, lock, reread | kernel, each other | readiness forgotten, circular waiting, locks on deleted files, signals during rereading |

What makes each modelled component correct:

* **kilo**: the cursor stays in the window; the terminal is given back as it
  was found on every exit path; keys are decoded as they were typed; a size
  taken from a report is the terminal's; a frame never scrolls; Ctrl-Q works.
* **life**: the array program plays the README's rules; the screen shows the
  board although only differences are drawn; the status line belongs to the
  picture it is shown with; escape and only escape ends it; modes restored.
* **appending**: with `O_APPEND` nothing is lost among any number of
  processes; what `lseek`-then-`write` loses is exactly accounted for;
  "created exclusively" is wrong only after a race.
* **copying**: the source is unharmed; the target is right after a success,
  and a prefix or unharmed at every failure; everything ends.
* **duplicating**: `my_dup2` is `dup2`; nothing is closed twice or left open.
* **termbox2**: what is presented is on the screen; keys are returned as typed
  however their bytes arrive; no resize is missed; the terminal is given back.
* **inotify_dtree**: with all events processed the cache is the trees; watches
  and cache never part; no event is worked on for ever.
* **the example suite**: whoever waits is told; nothing is lost, doubled or
  served to another; nothing is left behind; privileges are those asked for.

The hazards, each with its source line and the properties that would catch
it, are listed in `PROJECT.json`.

## 2. Modules

| Module | Models | Notes |
|---|---|---|
| `Kilo` | `kilo.c` and the terminal | a function between two reads is an action |
| `LifeRules` | the rules of `life/README.md` | abstract specification: a set of living cells |
| `Life` | `life/main.c`, keyboard, signals | implements `LifeRules` (`PlaysByTheRules`) |
| `SharedFile` | `atomic_append.c` (with and without `x`), `append.c`, `bad_exclusive_open.c` | any number of processes on one file, a system call per step |
| `FileCopies` | `copy.c`, `cp.c`, `tee.c` | one process, any of four programs; any call may fail |
| `Descriptors` | `dup.c`, `verify_dup.c`, kernel tables | plus a caller that uses `my_dup`/`my_dup2` arbitrarily |
| `InotifyTree` | `inotify_dtree.c`, kernel watches and queue, processes that change the trees | traversal, reading and each event are separate steps |
| `TermboxKeys`, `TermboxCells` | `termbox2.h`: input extraction; cells, differences and the terminal | operators, used by `Termbox` |
| `Termbox` | `termbox2.h`: calls, `wait_event`, signal handler, start and shutdown | composes the two |
| `SequenceNumbers` | `fifo_seqnum_*`, `is_seqnum_*`, `is_seqnum_v2_*` | killed clients, reused process IDs |
| `ForkingServers` | `is_echo_*`, `svmsg_file_*` | fork, `SIGCHLD`, end of file by the last descriptor |
| `IterativeServers` | `us_xfr*`, `ud_ucase_*`, `i6d_ucase_*`, `id_echo_*` | lost, reordered and duplicated datagrams |
| `Semaphores` | `svshm_xfr_*`, `binary_sems`, `svsem_good_init`, `svsem_bad_init`, `psem_*` | |
| `SeccompFilters` | the BPF filters, `dump_seccomp_filter`, `seccomp_launch` | filters as instruction sequences, run by the kernel |
| `UserNotification` | `seccomp_unotify_mkdir`, `seccomp_unotify_openat` | |
| `Threads` | `threads/*`, `thread_incr_psem` | load and store are separate steps |
| `Children` | `multi_SIGCHLD`, `multi_wait`, `child_status`, `fork_sig_sync`, `orphan`, `system`, `simple_system`, `execlp` | |
| `PassedDescriptors` | `scm_rights_*`, `scm_cred_*`, `scm_multi_*`, `scm_functions` | sizes of control messages as on 64 bits |
| `Capabilities` | `userns_child_exec`, `userns_functions`, `cred_launcher`, `cap_launcher`, `cap_functions`, `check_password_caps` | |
| `Namespaces` | `ns_capable`, `simple_init`, `ns_child_exec`, `ns_exec`, `ns_run`, `unshare`, `multi_pidns` | |
| `MessageNotification` | `mq_notify_*`, `pmsg_send`, `pmsg_receive` | |
| `Signals` | `sig_sender`, `sig_receiver`, `t_sigsuspend`, `catch_rtsigs`, `intquit`, `t_sigqueue`, `t_sigwaitinfo`, `signalfd_sigval`, `ignore_pending_sig`, `sigmask_longjmp`, `sig_speed_sigsuspend`, `t_kill` | |
| `EventLoops` | `self_pipe`, `demo_sigio`, `epoll_input`, `select_mq`, `epoll_flags_fork`, `multithread_epoll_wait` | |
| `Pipelines` | `pipe_sync`, `simple_pipe`, `pipe_ls_wc`, `change_case`, `popen_glob`, `script`, `unbuffer`, `pty_fork`, `pty_master_open` | |
| `LocksAndDaemons` | `i_fcntl_locking`, `region_locking`, `create_pid_file`, `t_flock`, `become_daemon`, `daemon_SIGHUP` | |
| `StreamFunctions` | `rdwrn`, `read_line_buf`, `sendfile`, `inet_sockets`, `unix_sockets` | |
| `SuiteVariables`, `IpcSystems`, `ProcessSystems`, `PassSystems` | | the shared variables; instances of the modules that are proved about |
| `MC*` | | constants for TLC; where a component has several invariants of one kind, their conjunction |
| `*Proofs` | | theorems and their proofs; `PassProofs` and `StreamProofs` have the lemmas about the systems of `PassSystems` |

Definitions named `...NoClose`, `...Swapped`, `...PastEdge` and the like, marked
"Variant" or "A slip" in their comments, are deliberate mistakes; no
specification uses them.  `PROJECT.json` says which property each one breaks,
which shows that the property depends on that line of the code.

### Kilo

`pc` is the function the editor is in; `cx, cy, screenrows, screencols` are
`E`; `buf` and `seq0` are the buffers of `getCursorPosition` and
`editorReadKey`.  The terminal is `tty` (mode), `term` (its cursor), `wire`
(bytes sent) and `input` (bytes that `read()` can return).  `Deliver` moves one
byte from `wire` to `input`; whenever `read()` is called it may time out,
also when bytes are under way, which is what a 100 ms timeout on a slow line
is.  `doubt` records what happened outside the program's control: `"gap"` (a
timeout inside a sequence), `"ahead"` (a key typed before the report came),
`"frame"` (`realloc` failed in `abAppend`), `"restore"` (`tcsetattr` failed in
the exit handler); properties that need the environment to behave say so with
it.  A frame is abstracted to the widths and line breaks of its rows and to
what it does to the terminal's cursor.  `exit()` and the registered handler
are one action, `Exit`.

### Life

The board and the buffers are functions on `0..SIZE-1`, indexed as in the
code.  A frame (draw, compare, print differences, flush, swap) is one action;
the status line of the previous round is in the same flush (`pending`).
`shared` says that standard output is on the description of standard input,
which `main()` makes non-blocking: a flush may then drop any part of its output
(`Dropped`, `ClearScreen`, `StatusLine`), unnoticed, while the buffers are
swapped; `unsent` and `late` record the cells and numbers that were dropped and
not sent since.  `Losses` are the sets of cells a frame may lose, `MaxCuts`
bounds the frames that lose any.  `ch` is any value at the
start (uninitialised).  `Interrupt` is a signal, which kills the program
without restoring anything.  The terminal is taken to have more rows than the
board.  `LifeRules` says the rules in terms of sets of cells; the mapping
reads the set of living cells out of the array.

### SharedFile

The file is a sequence of bytes `<<author, number>>`.  `Appenders` and
`Seekers` run `atomic_append` without and with the third argument, `Rewriters`
run `append` (which seeks to the beginning, and then appends all the same),
`Openers` run `bad_exclusive_open`.  `wrote` counts the bytes reported written
and `overwritten` collects the bytes that another was put over.  `before` is what
was in the file at the loop test of a process about to write, where a Seeker
calls `lseek()`: `SeekersOverwriteOthers` says that what it overwrites was not
yet there.

### FileCopies

`disk` holds the two files; `out = "in"` when OUT names the same file as IN.
`PWrite` is `write()` with holes.  `seekable` is false when IN is a pipe (then
`cp` fails at its first `lseek`).  OUT cannot grow beyond `Capacity`; the
write that reaches it is partial.  Its definitions are called `CopyInit`,
`CopySpec`, ..., and the program counter `place`, because `FileioProofs` is about
this module and the other two of `fileio`.

### Descriptors

`table` maps descriptors to descriptions; `ofd` holds offset and `O_APPEND` of
the two descriptions of `tfile` a run can have.  Everything inherited is one
description, `INHERITED`.  `F_DUPFD`, `open`, `close` are modelled from how
`dup.c` uses them (marked external in the map).  The module is checked without
an MC module; its definitions are called `DupInit`, `DupSpec`, ... where
`SharedFile` has one of that name.

### InotifyTree

`at` says where each directory is, `watch` and `q` are the kernel's watches and
event queue, `cache` is `wlCache`, `buf` what `read()` returned and was not yet
processed.  A rename posts `IN_MOVED_FROM` and, as a later step, `IN_MOVED_TO`
and `IN_MOVE_SELF`, so that events of other processes come in between.
`nftw()` visits one directory per step while the trees change; a directory that
has gone is passed over, or ends the walk, which leaves what was still to be
visited (`Vanished`).  The read with
the 2 ms alarm may get more events, be interrupted, or block because the alarm
came first (`pc = "blocked"`).  `excuses` records what the events do not tell:
a rename while older events are unprocessed ("behind": the new name may be gone
before the program looks), a root that comes back, a root moved into a
monitored tree, an unmount, a command that monitors less than the trees.

### Termbox

The application calls in any order; `TermboxCells` holds the two buffers, the
commands sent and a terminal that obeys them, so that "the screen shows the
buffer" is about what the commands did.  `TermboxKeys` is `extract_event` with
the trie and the mouse parsers over a small alphabet.  `wire` and `tty` are bytes
on the way; `hist` remembers what was typed, returned and excused (`lost`: an
escape arrived alone, bytes taken for a size report, shut down with bytes
unread; `torn`: a write failed).  A scenario fixes how many keys, calls,
resizes and faults a behaviour may have.

### The example suite

Each of the seventeen modules has a variable `kind`, the program or pair of
programs it is, chosen in `Init`; the state of each process is a record with
its `pc`, and a step is a system call or what happens between two.  Kernel
objects (queues, pipes, locks, semaphores, pending signals, credentials) are
modelled from how the programs use them and marked external in the map.
Faults (a killed client, a failing `fork`, a lost datagram, an interrupted
call) are actions, bounded by constants named `Max...`.  The programs meet only
inside a module, so `MCSuite` runs the modules side by side: `system` chooses
one, and all share the variables `v1`, `v2`, ... of `SuiteVariables`.  The
systems about which something is proved are instantiated in `IpcSystems`
(numbers, notification, semaphores, locks, threads, event loops),
`ProcessSystems` (the supervisor, the servers, capabilities, children) and
`PassSystems` (passed descriptors, pipelines), which declare their constants and
state what is assumed of them; `MCSuite.cfg` gives those constants their values.
The other systems are instantiated in `MCSuite` itself.

## 3. Runs

| Run | Question | Bounds, and why they are enough |
|---|---|---|
| `kilo` | cursor, decoding, size, frame, exit paths, Ctrl-Q | 2x12 terminal, so that a report has a two-digit column that can be cut; two key presses out of one-, three- and six-byte keys; `ioctl` answers right, zero columns, zero rows, and 1x1; a report buffer of 9, which a report after a typed-ahead key overflows |
| `life` | rules, screen, status, exit | 4x10 board, 4 patterns (in the middle, in two corners, `test()`'s), 10 generations so that the counter gets a second digit, two keys, one frame that loses all its output, its first rows or its last (`MCLosses`) |
| `shared_file` | all programs against each other | one process of each kind and a second creator, two bytes each, so that each can be overtaken between two system calls; file present or not; symmetry, as no property names a process |
| `file_copies` | the four programs | every pattern of null and other bytes up to length 4, old targets of length 0, 2, 5, a buffer of 2 and a capacity of 3, so that partial reads, partial writes and full disks all occur |
| `descriptors` | `my_dup`, `my_dup2`, both `main` | tables of 4 descriptors, every inherited subset, limits 3 and 4 with target 3, so that the target is above the limit in half the runs |
| `dtree` | cache against trees, events worked off | two roots, four directories, paths of depth 3, a directory with two subdirectories so that a walk given up leaves one unvisited, three changes of which two renames, a queue of 3 events (so it overflows), reads of 2 events into a buffer of 3 (so a rename is cut) |
| `termbox` | screen, restored terminal, keys, resizes | terminals of 3x1 and 2x2, a wide and an invalid character, keys of one to nine bytes in both escape modes, two keys, three calls, two resizes, two faults, two starts, in five combinations |
| `suite` | the seventeen systems, one property each | two or three clients, children, threads or processes; buffers and pipes of two units, messages longer and shorter than them; one or two faults; option lists of `userns_child_exec` that contain each repeatable option (`AskedOptions`), each with every choice of its maps (`UsernsOptions`); sequence numbers that start below the wrap-around of their integer (`NumStarts`, `NumModulus` = 5); two events per `epoll_wait()` out of two FIFOs, so that the order in which they are reported can differ |
| `life_commits`, `tee_overwrite`, `dup_lowest`, `dtree_root_moved` | a comment and its code disagree | as above |

The programs may stop (they exit).  In the first five modules a process that has
ended has a stuttering action, so that deadlock checking stays on and a deadlock
would be a program that hangs.  In `dtree`, `termbox` and `suite` the bounds on
the environment end the behaviours, and deadlock is not checked; that nobody is
left waiting is stated as an invariant instead (`BlockedIsServed`,
`WakeupToCome`, `NobodyWaitsInVain`, `AnswerToCome`, `NoCircle`, `KeysReturned`).

The conjunctions checked by the runs are made of the invariants of the modules,
each with its own comment there:

| Run | Property | Parts |
|---|---|---|
| `kilo` | `WindowKept` | `TypeOK`, `CursorOnScreen`, `SizeFromReport`, `FrameFits` |
| `life` | `EndsInOrder` | `TypeOK`, `StatusMatchesScreen`, `LeavesOnEscape`, `RestoredOnExit` |
| `shared_file` | `Accounted` | `TypeOK`, `WriteOrder`, `SizeLoss`, `ClaimsOfCreation` |
| `file_copies` | `CopiedInStep` | `CopyTypeOK`, `CopyIsPrefix`, `CpKeepsPlaces`, `TeeInStep`, `SelfAppendNeverSucceeds` |
| `descriptors` | `DuplicatesUsed` | `DupTypeOK`, `LeavesNothingOpen`, `AppendsThroughDuplicate`, `VerifiesDuplicates` |
| `dtree` | `CacheInSync` | `TypeOK`, `InSync`, `WatchesKnown` |
| `termbox` | `KeysDelivered` | `KeysDecoded`, `KeysReturned` |
| `suite` | one per module | one or two invariants of the module |

**Fairness.**  `Kilo`: the editor is scheduled (`WF` of its own steps, in which
a timeout of `editorReadKey` is a stutter) and a byte on the wire arrives (`WF(Deliver)`);
nobody has to type.  `Life`: `WF` of the main loop.  `SharedFile`: `WF` of each
process.  `FileCopies`: `WF` of the process's regular steps; failures are
possible and never forced.  None of the programs blocks on a lock, so
weak fairness is what a scheduler gives.  `InotifyTree`: `WF` of the program's steps
and of the second half of a rename, which the kernel finishes by itself; a
`read()` that blocks because its alarm came too early is left alone.
`Descriptors`, `Termbox` and the suite have no liveness property and no
fairness.

## 4. Findings

Four comments disagree with their code; each has a run whose counterexample
shows it.

1. `main.c:185` flushes to "instantly commit changes to the screen", but
   `main.c:144` made the description non-blocking that standard output shares
   with standard input on a terminal: output that does not fit is dropped with
   `EAGAIN`, the results of `printf()` and `fflush()` are ignored, and the buffers
   are swapped, so that the cell is not sent again (`life_commits`).
2. `tee.c:6` says that tee overwrites an existing file; it is opened without
   `O_TRUNC`, so the tail of a longer file stays (`tee_overwrite`).
3. `dup.c:4-5` says that the new descriptor is the lowest unused one; `my_dup`
   passes `oldfd` as the minimum (`dup_lowest`).
4. `inotify_dtree.c:23-25` promises a representation that remains consistent
   with the filesystem; a root renamed into another monitored tree is found
   "already in the cache" under its old name and then removed for
   `IN_MOVE_SELF` (`dtree_root_moved`).

Behaviour that the models have and that properties are worded around.  First,
where a comment says more than the code does; each is stated here and excepted
by name in the property, and has no run of its own:

* `cp.c:1-3` promises corresponding holes; a hole at the *end* of the source is
  dropped, because only a later byte extends the target and there is no
  `ftruncate`.  `CpKeepsPlaces` speaks of the bytes that are not null.
* `simple_init.c:239`, "will be interrupted by signal handler": a command that
  ends before `pause()` is called leaves the shell waiting for another signal.
* `userns_child_exec.c:581-583`: the pipe is "to ensure that the parent sets the
  UID and GID maps before the child calls execve()"; a parent that fails also
  closes it, and the child executes without maps (`MapsThenCommand`).
* `create_pid_file.c:15-16` says that one instance runs, and `:30-31` that the
  caller deletes the file when it ends.  An instance that opened the file before
  it was deleted and locks it afterwards runs beside the next: `LocksAsTold` has
  one instance, with the file locked and naming it, until that has happened
  (`raced`), and instances on distinct files afterwards.
* `sendfile.c:60-61` promises that the file offset is reset when an offset is
  given; the exits by -1 from within the loop (`:44`, `:50`) and by a failing
  `lseek()` (`:63-67`) leave it where reading has taken it (`DeliveredInFull`).

And without a comment that says otherwise:

* kilo accepts a size report that stops before its `R`: a timeout within the
  column number gives a narrower window (`SizeFromReport` excludes it with
  `"gap"`).  A window reported with no rows leaves `cy` unbounded below
  (`CursorOnScreen`).  The welcome message is shortened only in the padding
  computation and wraps on a narrower terminal (`FrameFits`).
* life leaves its loop on an uninitialised `ch` if it happens to be 27, and an
  arrow key, which starts with an escape byte, ends it (`LeavesOnEscape`).
  Digits of a longer count stay on the status line (`StatusMatchesScreen`).  A
  signal leaves terminal and descriptor flags changed, and the sequence that
  shows the cursor again may be dropped on a description that was found
  non-blocking (`RestoredOnExit`).
* `atomic_append` creates the file before it looks at the number of bytes;
  `append` and `dup` do not notice short writes.
* `copy f f` empties `f`; `tee -a f <f` runs until the disk is full.
* a failing `my_dup2` has already closed `newfd`, which `dup2` does not do
  (`Dup2Contract` states it).  `verify_dup` reads the flags of `fd` twice and
  never those of `newfd`.
* `inotify_dtree`: a directory that is made and renamed before its `IN_CREATE`
  is processed is not found under its old name and not watched under its new
  one; the source says as much ("there are still rare cases",
  `inotify_dtree.c:253`).  `InSync` excuses it as "behind", and with it the
  siblings left unvisited when `nftw()` gives up a walk because a directory
  vanished between its `lstat()` and `opendir()`.  If the alarm fires before
  `read()` is entered, half a rename stays in the buffer until the next change.
* `termbox2`: an escape that arrives alone is the escape key, whatever follows;
  the size by escape sequence swallows what was typed before the answer; after
  a partial write the whole buffer is sent again; an error in the middle of a
  resize leaves buffers of the old size (a TODO in the source).
* the sequence numbers of `fifo_seqnum_server` (an `int`) and `is_seqnum_sv` (a
  `uint32_t`) wrap around, and the clients choose how many they take: ranges are
  given twice afterwards.  `NumbersServed` has them disjoint until the numbers
  of the integer have been used up.  `fifo_seqnum_server` waits for ever in
  `open()` for a client killed after its request, until a process with the same
  ID comes.  `svmsg_file_server` leaves the client of a failed `fork()` waiting.
  `ud_ucase_sv` ends when a client is gone before its answer.
* `scm_cred_recv`, on a stream whose sender ended without having sent anything
  (refused with `EPERM`, or with no data to send), prints the credentials of
  nobody (`ReceivesWhatWasSent`).
* `script` and `unbuffer` make the terminal raw before they register the
  handler that resets it: if `atexit()` fails it stays raw.  With the
  pseudoterminal full both ways, the relay waits in `write()` for its program
  and the program for the relay (`FullBothWays`).
* `t_sigsuspend` with `USE_PAUSE` and `catch_rtsigs` lose a wake-up that comes
  before `pause()`, and `sigmask_longjmp` without `sigsetjmp()` leaves the signal
  blocked (`SignalsAccounted`).
* `sendfile()` of `sendfile.c` loses the rest of a partial `write()`;
  `readLineBuf` loses the beginning of a line when `read()` is interrupted;
  `inetPassiveSocket` leaves its socket open when `listen()` fails
  (`DeliveredInFull`).  `i_fcntl_locking` cuts the last character of a line
  that does not end in a newline.  `dump_seccomp_filter` takes a partial
  `write()` for a success.  The properties' comments name these exceptions.

## 5. Proofs

Every theorem holds for all values of the constants that satisfy the module's
named assumptions: boards of any size, any set of processes or clients, files of
any length, any table.  Each proof goes through an inductive invariant `IInv`,
which TLC has checked on a small instance: `Init => IInv`, one lemma or CASE per
action for `IInv /\ [Next]_vars => IInv'`, and `IInv => Inv`.

| Module | Theorems | The invariant, and why it is needed |
|---|---|---|
| `KiloProofs` | `TypeCorrect`, `CursorStaysOnScreen`, `TerminalIsRestored`, `WindowIsKept` | raw mode implies that the handler is registered (`HandlerBeforeRaw`), and the cursor is shown after every frame that lost no piece (`CursorShownAgain`): the state at the exit depends on both.  The bound on `buf` in `TypeOK` is what keeps `getCursorPosition` inside its array.  For `WindowIsKept`: `buf`, `input` and `wire` together are the terminal's report for as long as nothing was typed ahead and no timeout came within it, so that what is parsed are its two numbers; and a frame whose widths fit takes the terminal's cursor from line to line without reaching the last column of the last. |
| `LifeProofs` | `TypeCorrect`, `ScreenIsTheBoard`, `ImplementsRules`, `AlwaysEndsInOrder` | before a frame the screen shows the front buffer, after it the back buffer, which is a picture of the board, but for the cells whose last output was dropped (`OutputInv`).  For the refinement: `Idx` is injective, rows do not overlap (nonlinear, by hand), and the neighbours counted in the array are in bijection with the neighbours of the rules.  For `AlwaysEndsInOrder`: after the first `update()` a status line with the board's count of living cells waits before every frame, and the one on the screen is that of an earlier frame (`StatusInv`); `ch` is the last byte read and no earlier one was an escape (`KeyInv`); what `main()` saved is what it found (`SavedInv`). |
| `FileioProofs` (`SharedFile`) | `TypeCorrect`, `NothingAppendedIsLost`, `BytesInOrder`, `OverwritesAreRaces`, `AlwaysAccounted` | no byte in the file is newer than its author's count (`NoNewerByte`), and a Seeker about to write has its own bytes behind its offset (`OwnBytesBehind`), so that it overwrites none of them; what was in the file at its loop test is behind its offset too (`SoughtBehind`); no write leaves a hole since no offset is beyond the end.  `AlwaysAccounted` needs a bijection: the bytes that were written are those in the file and those written over, and no byte is both. |
| `FileioProofs` (`FileCopies`) | `CopyTypeCorrect`, `SourceIsKept`, `CopyCopiesAPrefix`, `CpPutsBytesInPlace`, `EveryCopyInStep` | per program: where the offsets are relative to each other at each system call, and the exact contents of OUT in terms of the old OUT and the part of IN that was read.  With `tee -a f <f` the input offset stays behind the end of the file, so that no `read()` returns 0. |
| `FileioProofs` (`Descriptors`) | `DupTypeCorrect`, `Dup2IsDup2`, `NothingClosedTwice`, `MainsUseDuplicates` | nothing is open at or above the limit (`BelowLimit`); how table and entry table differ at each step of `my_dup2` (`InCall`); which descriptors refer to `tfile` at each step of each `main` (`InMain`), and that all others are as inherited. |
| `SuiteProofs` | one per proved system, see below | its lemmas are in `IpcProofs`, `ProcessProofs`, `PassProofs` and `StreamProofs`; a step of `MCSuite` is a step of one system, which the theorem composes. |

The theorems of `SuiteProofs`, each by the `IInv` at the end of the system's
module.  They hold for any number of clients, processes, messages, blocks and
faults.

| Theorem | Property | What the proof turns on |
|---|---|---|
| `NumbersAlwaysServed` | `NumbersServed` | a process ID, and the FIFO named after it, is that of one live client (`OnePerId`); with process IDs reused, that a request is its owner's holds only for IDs under which nobody was killed (`Clean`), which is why every part has that hypothesis; the ranges given are apart when counted without the width of the integer, and the counter is that count modulo `NumModulus` (`GivenOnce`). |
| `NotifiedOfEveryMessage` | `NoneLeftUnread` | a program told by a signal is registered or has a signal that will make it register again (`SignalInv`); of one told by threads exactly one is registered or about to be (`ThreadInv`). |
| `SemaphoresAlwaysHold` | `SemaphoresHold` | writer, reader and the two semaphores are always in one of six configurations, in which one of them has the segment (`XfrInv`); one process at most is between `semget()` and the first `semop()`, and `sem_otime` is set after it (`GoodInv`). |
| `LocksAndHupsKept` | `LocksAndHups` | what a process has locked does not change while it waits, so that two waits cannot close a circle (`FcntlInv`); the file an instance has locked is the named one until one was deleted that another had open (`PidInv`, `raced`); a request for rereading is pending, noted, or older than what was read (`DaemonInv`). |
| `CallsAlwaysServed` | `CallsServed` | a call waits exactly as long as there is a notification of it (`Pending`), a notification once invalid stays so (`Overtaken`), and the supervisor's variables say what is true of the pathname it read (`PathRead`, `MadeBefore`, `TrueOf`): the time between the check of the cookie and the answer. |
| `AlwaysServedOneByOne` | `ServedOneByOne` | until a datagram is delivered twice, a client has at most one on its way, the last it sent: waiting, with the server, or answered (`OneOnItsWay`); the rest of a connection is the last messages of its client (`Connections`), and the output ends with the client now served or one that is finished (`EndOfOutput`). |
| `ChildrenAlwaysServe` | `ChildrenServe` | who holds a connection follows from where parent and child are (`HeldBy`), so a client that sees end of file has a child that ended; what was printed, what is on its way back, what the child holds and what is on its way to it are one initial part of the data (`EchoTransfer`); in a client's message queue only the last message can be the end, and only after the whole file or a failure (`FileTransfer`); a zombie means a pending `SIGCHLD`, since the handler reaps all. |
| `WorkAlwaysAccounted` | `WorkAccounted` | under the mutex the counter is the number of pairs of a thread and one of its turns that are done (`CountInv`), and so is what was consumed and what is there to be consumed (`ProduceInv`).  Without the mutex the counter is at most that number; that it ends at 2 or more needs the last store of all: it is made by a thread in its last round, which, having stored before, has read at least 1.  A thread's mark says where it is, and `main()` leaves its loop when it has counted them all (`JoinInv`). |
| `EventsNeverForgotten` | `EventsNotForgotten` | the byte in the pipe stands for the signal (`SelfInv`); an event in the list of `epoll_wait()` is of a FIFO that has input or whose end was seen (`InputInv`); what the parent of `select_mq` holds comes before what is in the pipe, that before what a child has just received, each message taken from a queue is in exactly one of those places, and a body follows its header (`MessageInv`, `FramesInv`, `OrderInv`); input means that an instance is ready or somebody is on the way to read it (`FlagsInv`). |
| `PrivilegesAlwaysAsAsked` | `PrivilegesAsAsked` | the ambient set is the part of the list that was raised, and stays within the permitted and inheritable sets, so that dropping another capability cannot take it away (`LauncherInv`); the child goes on only when no process has the pipe's write end, which is after the parent's last map or its failure (`MapsSoFar`); each of the three maps is asked for by itself, or by `-r` for two of them. |
| `ChildrenAlwaysAccounted` | `ChildrenAccounted` | the counter is the number of children that are not reaped, and outside the handler a zombie means a pending `SIGCHLD` (`MultiInv`); while `system()` waits only it can reap its command, since `SIGCHLD` is blocked (`SystemInv`); a prefix of `PATH` that was refused is remembered whatever comes after it (`ExeclpInv`). |
| `ReceivedAlwaysAsSent` | `ReceivesWhatWasSent` | the headers not yet taken are at most one of credentials and then one of all descriptors still open, whose length says how many they are (`HeadersInv`); the list to be read is those sent after the ones read, as far as the kernel passed them on, and a shorter list comes with `MSG_CTRUNC` (`ToRead`); what was printed is each part of the files read and of the next up to where it is (`PrintedInv`). |
| `PipesAlwaysPassOn` | `PipesPassOn` | which pipe ends a process holds follows from where it is (`PlaceInv`), so that whoever reads an empty pipe, or writes to a full one, has another process at its other end, which goes on: two that wait for each other would need a pipe that is empty and full, or two blocks under way in `change_case`, where there is at most one (`OneBlock`); `script` and `unbuffer` do wait for their program and it for them when the pseudoterminal is full both ways, which the property names (`FullBothWays`).  What was shown, what the reader holds, what is in the pipe and what the writer holds follow each other in the input (`InLine`, `Total`).  `script` at every exit has the terminal as it was, unless `atexit()` failed, and has read all the shell wrote or has another reason to end (`RelayInv`). |
| `AlwaysDeliveredInFull` | `DeliveredInFull` | what was delivered is what the stream has after the first offset (`Delivered`), and the counts of `readn()`, `writen()` and `sendfile()` are its length (`ReadInv`, `WriteInv`, `SendInv`); while it sends, `sendfile()` has read exactly what it has written, so that a failure leaves the file offset at most a block behind; the line that `readLineBuf()` is putting together starts after the end of the last one returned, goes up to the bytes taken from its buffer so far (`Taken`), and has no line end inside (`LineFrom`), so that the lines returned are all there are up to there; the only open socket is the one of the address under way (`SocketInv`, `UnixInv`). |

The assumptions, all evaluated by TLC: `KiloAssumption` (a terminal of up to
999x999, keys of at least one byte) and `ReportFits` (the report fits into
`buf`, 10 bytes into 32 in the source; the code cuts a longer one), used by
`WindowIsKept`; `LifeAssumption`, `SharedFileAssumption`,
`FileCopiesAssumption`, `DescriptorsAssumption` (the sets the parameters come
from; of `Life`, any sets of cells that a frame may lose); `NumBounds`, `MqBounds`, `NotBounds`, `ItBounds`, `FkBounds` (lengths and
bounds are natural numbers; the sequence numbers start below `NumModulus`),
`SemBounds` (and finitely many processes),
`LockPids` (no process has the ID 0, which means "nobody"); `ThrBounds`
(finitely many threads, at least one, none of them numbered 0, and at least
two rounds: with a single round each, `thread_incr` can end with 1, so the lower
bound of 2 is false); `LoopBounds` (finitely many children, at least one, and a
pipe that holds at least a byte: otherwise the one `handler()` writes in
`self_pipe.c` would be lost); `CapBounds` (the lists are sequences of
capabilities and of options, and `CAP_DAC_READ_SEARCH` is one of them, which
`check_password_caps` names); `KinBounds` (finitely many children, among them
the two of `system()`'s caller, and a `PATH` with a prefix); `PasBounds` (the
files sent are those whose content is given, and `"EBADF"`, which stands for a
number that is no open descriptor, is none of them); `PipBounds` (the first two
children exist, what one `read()` takes is no more than `PIPE_BUF`, and a pipe
holds at least that: `change_case.c:25` asks for it); `StrBounds` (streams are
sequences of characters, and the counts asked for are positive).

Only model-checked, and why:

* Liveness (`QuitHonoured`, `EscapeHonoured`, `Terminates`, `BufferWorkedOff`)
  needs fairness and `ENABLED`.
* `DecodedAsTyped`, `KeysDelivered` and `ScreenShown`: what a key decodes to,
  and what a sequence of terminal commands does, are inductions over flattened
  sequences (folds), as is `FiltersAsMeant` (a run of a filter program).
* `SignalsAccounted`: which signals a queue still holds is stated with
  `SelectSeq`, and `NamespacesAccounted`: who may act in a namespace is stated
  with a walk to the root of a tree.  Both are recursive, and what they compute
  is an induction.
* `Restored` and `ResizeNoticed` (`Termbox`): what is left of the terminal's
  modes is what carrying out the buffered commands makes of them, a fold over
  the sequence of commands; that it leaves the terminal's size alone, with which
  `ResizeNoticed` compares, is the same induction.
* `CacheInSync` (`InotifyTree`): the invariant relates every event in the
  kernel's queue and in the buffer to the difference between trees and cache;
  TLC checks it, the inductive form has not been worked out.

## 6. Not modelled

* In `termbox2.h`: extended grapheme clusters (off by default), `tb_send*`,
  `tb_set_func`, the colour formats of the output modes, descriptors that are
  no terminal, exhausted memory, the built-in capability and width tables.
* In `tlpi-dist`: programs that make one system call or a straight line of them
  and print the result (timers, limits, terminal settings, mappings, file
  attributes, process accounting, ...): what they show is the kernel's
  behaviour, and they keep no state between calls.  `acl_update.c` edits one
  list between two library calls; `pdeath_signal.c` and `demo_clone.c` show
  kernel features by sleeping and printing; `libseccomp_demo.c` leaves its
  filter to a library; `-p` of `epoll_flags_fork.c` only changes timing.
* `memalloc`, `ostep`, `csapp`, the printers in `proc`: no state or protocol of
  their own; what they show is the C library's or the compiler's behaviour.
* `unsetenv2`: unfinished in the source.
* Heron's reciprocal: floating point.
* Wording and layout of output, error messages, `errno` values beyond failed
  or not; permissions; concurrent changes by other programs to the files of
  `FileCopies` and `Descriptors`.

## 7. Plan

Done, in order of importance: `Kilo`, `Life` over `LifeRules`, `SharedFile`,
`FileCopies`, `Descriptors`, and their first theorems; then `InotifyTree`,
`Termbox` over `TermboxKeys` and `TermboxCells`, and the seventeen modules of
the example suite.

Proved: all safety invariants of the first five modules but
`DecodedAsTyped`, and fourteen of the seventeen systems of the suite (section 5).

What would come next, in this order:

1. `Restored` and `ResizeNoticed`: that carrying out a sequence of commands
   leaves the size alone and sets the modes, if the command language is restated
   without folds; then the modes at every way out of `tb_init()` and
   `tb_shutdown()`, and the byte in the resize pipe that stands for a `SIGWINCH`.
2. `SignalsAccounted`, with the messages numbered instead of filtered, and
   `NamespacesAccounted`, with the ancestors as the least closed set.
3. `InSync`: each difference between a tree and the cache has an event that is
   still to be processed, or an excuse.

Still to be modelled, where it is worth it: `binary_search` (`modern_c`),
`setenv2` (`proc`), `seek_io`, `getpwnam2`.
