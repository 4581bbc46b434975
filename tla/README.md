# posix-commons: a TLA+ model

posix-commons is a C99 library: a one-shot reactor over kqueue, a buffered file
writer, an asynchronous logger built on both, a synchronous logger, strings with
inline storage, intrusive lists, string search and wrappers around system calls.
This directory holds TLA+ models of its components, the TLC runs that check them,
and TLAPS proofs about them.
`PROJECT.json` maps every definition to the source lines it models.

## Inventory

| component | state | operations | module |
|---|---|---|---|
| reactor (`reactor.c`, `mac/reactor_kq.c`) | `closing`, `mtx`, `gc_events`, the loop's counter and batch | create, destroy, gc, the loop | `Reactor` |
| event (`event.c`, `mac/event_kq.c`) | `closing`, `evmask`, `data_1`, a knote per filter in the kqueue | create, submit, consume, destroy, set_interval | `Reactor` |
| buffered writer (`fileio.c`) | `buf`, `pos`, the file | write, flush | `BufferedWriter`, `ByteStream` |
| log client (`asynclogcli.c`), datagrams (`ipc.c`) | `send_fd`, lowest level | init, log | `AsyncLog` |
| log server (`asynclogsvr.c`) | the writer, three events, `bytes_written`, `filename` | init, on_dgram, on_clock, on_sigint, roll, flush, destroy | `AsyncLog` |
| list (`common/list.h`) | `next`, `prev` of every node | add, del, move, splice, the safe loop | `List` |
| slice (`common/slice.c`) | `buf`, `size`, `inlinebuf`, heap blocks | init, aggregate, copy, append, destroy, parse | `Slice` |
| number helpers (`common/utils.c`) | none | conversions, binary search | `Numbers`, `StringSearch` |
| string search (`common/kmp.c`, `common/boyermoore.c`) | `P`, two skip tables, `i`, `j`, `pos` | tables, searches | `StringSearch` |
| file helpers (`fileio.c`), server sockets (`ipc.c`) | the names in the file system | make, open, rename, delete; bind and listen | `FileTree` |
| simple logger (`log.c`) | `lowest`, `file`, an uninitialised `mtx` | init, log, close | `Logger` |
| epoll back end | as reactor | as reactor | not modelled |
| tcp, runtime, signal, timestr, eventfd, signalfd | none of their own | one system call each | not modelled |

How they interact.  A reactor owns a background thread.  User threads create
events, submit them, and destroy them; the background thread sleeps in
`kevent()`, takes a batch of kevents whose `udata` points to events, and runs
their callbacks, which may submit or destroy events in turn.  An event destroyed
by a user thread is put on `gc_events` under `reactor->mtx` and freed later by
the background thread; one destroyed by the background thread is freed at once.
The log server is three events on one reactor (a datagram socket, a periodic
timer, SIGINT) whose callbacks share a buffered writer without a lock, which is
sound because they run on one thread.  `gc_events` is a list of `list.h`.  The
simple logger has no thread of its own: whoever calls it writes, under its mutex,
to a stream that the file helpers opened after making its directories.

What is hard.  `closing` is read and written without a lock; pointers to events
sit in a batch while callbacks free events; one-shot filters must not be lost or
delivered twice when a submit races with a delivery; garbage must be collected
although the loop may sleep; shutting down joins a thread that may be asleep;
writes may be short or fail; datagrams are dropped silently; the server may be
killed and restarted; two servers may start on one path; directories are made
while others remove them; the logger's mutex is never initialised; slices change
between inline and heap storage at a boundary that three functions draw
differently.  `PROJECT.json` lists these as hazards, each at its line.

What makes the components correct.
 - Reactor: no freed event is touched; none is forgotten; a submit of a
   socket or user event is answered by exactly one callback; destruction ends.
 - Writer: bytes reach the file in order and once; a flush that succeeds is
   complete.
 - Logger: a line that was accepted reaches the file, in order, unless the server
   is killed or a write fails.
 - List: the pointers represent the sequence the calls describe.
 - Slice: bytes stay inside their storage and are those the calls describe; what
   was allocated is freed.
 - Search: the first occurrence is found.
 - File helpers and sockets: a file's directory is there when it is opened; a path
   that servers bound leads to one of them.
 - Simple logger: lines are not mixed, and every call returns.

## The modules

**Reactor.**  A step of a thread touches shared state once: a read of `closing`,
one critical section, one `kevent()` call.  `pc[t]` says where thread t is:
`s_lock` inside `posixc_event_submit`, `d_mark`, `d_plat`, `d_gc`, `d_release`
through `posixc_event_destroy`, `gc_lock`, `gc_next` in the collector, `rd_close`,
`rd_join` in `posixc_reactor_destroy`, `loop`, `kevent`, `dispatch`, `cb` in the
loop.  The kernel's side is external: `knote`, `ready`, and the actions
`kevent_deliver` and `kernel_ready`.  Constants say how a client uses the
library: `Holders` (who gets a reference), `CbOwned` (events left to their
callback), `Kept` (never destroyed), `Masks`, `Destroyers`.  The client keeps
its part: it does not use an event after giving up its reference, and destroys
the reactor when it has given up all of them but those of `Kept`, which it does
not touch from then on.  Addresses are not reused, so that
a use after free is visible as such.  A create that fails may have registered one
of two filters; `close()` of the socket takes it out of the kqueue (`close_drops`).
`asked` is a history variable.

**BufferedWriter** splits a call at each `write()`, which may take any part of
its data, or fail.  **ByteStream** is the abstract specification: bytes given are
pending, then durable; a failure drops what is pending.  The mapping is
`pending <- chunk \o rest \o buf`, `durable <- file`.

**AsyncLog** composes clients, the socket, the server's callbacks and the writer.
It relies on what the other two show: one callback at a time (Reactor), and the
writer as a queue of pending lines (BufferedWriter), with the arithmetic of `pos`
kept.  The server may be started again after it was killed, stopped or
interrupted; a start replaces the socket, and clients of the old one send into
the void.  `posixc_asynclogsvr_destroy`, called by the program, either returns
(`stopped`) or waits for ever for a loop that sleeps without events (`hung`).  A
file is named by the second in which it was opened.

**List** has the pointers as a memory `mem` and the functions of `list.h` as
operators on it.  `lists` is a history variable with the sequence each call
should leave.  Clients obey the contract of `list.h`: an entry is added when it
is on no list, and a head that was spliced away is initialised before it is used.

**Slice** has memory made explicit: the `inlinebuf` of every slice and heap
blocks, each a sequence as long as its storage; `malloc` and `realloc` may fail.
`str` is a history variable with the string each slice should hold.  Where C
leaves the behaviour undefined (an unset `size`, NULL from `malloc`, a `buf` into
a frame that is gone, a byte behind the storage) the program ends and `undef` says
why.  **Numbers** has the conversions of `utils.c` as operators on the characters
they write, the terminating NUL included, and, beside them, digit by digit, what
they should give.  Floats are counted in sixteenths, which they represent exactly.
`(int)` is limited to `INT_MIN .. INT_MAX`; beyond that it is undefined, and the
model chooses between what x86 and ARM give (`to_int`).  The numeral is expected
only where whole part and digits fit an int: with 48 bytes no number whose digits
had to be cut is among these.  `posixc_ftoa` and `posixc_dtoa` are the same code
without the cut, and used by nothing.

**FileTree** has the names of a file system and threads, of any processes, that
call the file helpers and start servers on sockets, one system call per step.
Contents of files are not in it.  `struck` and `taken` are history variables: a
name on a thread's way was removed; a socket's path lost its server other than to
one that bound it (deleted, renamed, `listen()` or `bind()` failed behind the
`unlink`, or its server ended).  `socket`, `bind` and `listen` may fail at will.
**Logger** extends it with loggers, whose files come from its `posixc_fopen`.
Locking `mtx`, which nobody initialises, either works or does nothing, for
each logger as the memory it lies in happens to be.  Clients initialise a logger
once, do not use it after closing it, and do not close one whose file could not
be opened (`fclose(NULL)`).

**StringSearch** is one call of one search, a step per turn of a loop.  The
tables of Boyer and Moore's search are operators; for each index they give the
value that the last loop turn to write it leaves there.  `kmp_failure` is stepped
through, and so is `posixc_binary_search` over a sorted haystack.  An access
outside `P` ends the call in the phase `undefined`.

**MCCommon** puts lists, slices and searches into one instance, **MCFiles** the
file tree with its loggers and the writer.  Their parts share no state, so what is
started there goes on alone, and a run covers each part in full.

Operators marked `mutant` are versions of the definition after them with a
plausible mistake.  They are used by nothing; substituting one for the
definition must break the property `PROJECT.json` names with it.

## The runs

| run | checks | bounds |
|---|---|---|
| `reactor_users` | types; no freed event is seen by the loop or by callers; `gc_events` is sound; closing events are accounted for; submits arm | a socket and a timer, an owner thread for each, all masks |
| `reactor_shutdown` | no freed event is seen, no dangling `udata` (failed creation included), one delivery per submit of sockets and user events, with callbacks that destroy their events and with `posixc_reactor_destroy` | a signal, a user event and a socket, one filter per event, batches of two |
| `reactor_live` | `Collected`, `Served`, `DestroyReturns` under fairness | a socket that may be destroyed, a timer that is kept, one user that may destroy the reactor |
| `async_log` | order, no loss while up, graceful exit, files only grow but for a restart within the second, the buffer is flushed | page and buffer 4, two clients, two starts, three log calls |
| `common` | lists: pointers represent the lists; the safe loop meets every entry and ends. Slices: they stay in their storage, hold what they should, and leak in two ways only. Searches: Boyer and Moore's jumps over no occurrence, ends and answers right; the failure table is that of longest borders; the binary search finds what is there | two heads, three entries; two slices, two blocks, `inline_cap` 6, strings up to 8, one suffix, `INT_MAX` 63; queries up to 4, texts up to 5, mixed case up to 4, two letters; haystacks up to 5 of three words |
| `files` | names: directories are made whatever others do; a path that was bound is served. Loggers: lines are whole, and every call returns. Writer: refinement of `ByteStream`, nothing lost, flush complete, calls return | two threads, two calls each, two nested directories, one socket path, two loggers; buffer 3, calls of up to 7, 9 bytes in all |

Why the bounds are enough.  Two events and two users give every pair of a
delivery, a submit, a destroy and a collection; two filters of one socket are the
most that can be in a batch for one event; with `loops_per_gc` 2 the loop both
collects and skips collecting.  A call of 7 bytes on a buffer of 3 fills the
buffer, flushes, and leaves a rest smaller than, equal to and larger than the
buffer.  Two server starts show a restart in the same second and in a later one.
Three entries have a first, a middle and a last.  A needle of 4 has borders of
all lengths up to 3.  Strings of 0 to 8 bytes lie below, at and beyond
`inline_cap`; of the numbers one fills its `inlinebuf` but for the NUL, one has a
whole part and one has digits that exceed `INT_MAX`; two
slices can be copied, aggregated and appended to in any order.  Two nested directories give a loop with a first and a last `mkdir`, and a
second thread that makes, removes or replaces either of them between any two
steps; two servers that start at once and again give every order of two
`unlink`s and `bind`s; the two calls of a thread are enough for it to initialise
a logger and log while the other logs.

Deadlock is checked except where a program may stop: after the reactor is gone,
after a search has returned, and when the calls of the bounded instances are used
up.

### Disagreements between code and docs

These runs expect a violation; the quotations are in `PROJECT.json`.

 - `callback_frees_batch`: a callback that destroys its socket while its other
   filter is in the same batch leaves a freed event to be handled.
 - `resubmit_rearms`: a submit for one filter, made after the other was
   delivered and before it is consumed, enables the other again.
 - `signal_triggers_again`: `submit_sig` alone of the one-shot submits sets no
   `EV_DISPATCH`; a signal event is delivered again and again for one submit.
 - `log_stops_receiving`: `on_dgram` does not submit its event again.  One
   consequence for `AsyncLog`: a server takes one datagram per start, so its
   buffer is never full there.
 - `kmp_search`: the search falls back to `P[j+1]` where the table was built for
   `P[j-1]`; it hangs, or reports what is not there.
 - `number_overruns_inlinebuf`: a number whose digits are cut to the 48 bytes of
   `inlinebuf` fills all of them, and its NUL goes behind.

The models show more of the kind, for which no run is kept:

 - with `Holders <- Shared` two threads that destroy one event at once both pass
   the test of `closing`, and `GcListSound` fails;
 - with one user that destroys its event and then the reactor, `ClosingAccounted`
   fails: the collection in `posixc_reactor_destroy` runs on the caller's thread,
   takes events off `gc_events` and releases none (`Collected` ends there);
 - without a timer that keeps firing `DestroyReturns` fails: `posixc_reactor_destroy`
   sets `closing` and joins a loop that sleeps in `kevent()`, which nothing wakes;
 - `posixc_asynclogsvr_destroy` destroys all events of its reactor and then the
   reactor, so it is a case of this; it returns only if the loop happens to be awake;
 - one-shot timers stay enabled where the kernel ignores `EV_ONESHOT`, as the Fixme
   in `submit_timer` says of macOS;
 - the digits behind the point become an int: from about ten of them on, what is
   written for a fraction is undefined;
 - a server that starts within the second of the one before wipes its log file;
 - a `bind()` that fails for a cause of its own has already removed the name of the
   server before it;
 - two servers that start at once: one may find the path bound again after its own
   `unlink`, so that `posixc_ipc_dgram_socket` fails where `asynclogsvr.c:72`
   says it can't, and a failed `listen()` may remove the other's name;
 - a slice longer than `inline_cap` has no `size` after `posixc_slice_init`, and a
   copy of exactly `inline_cap` bytes is never freed;
 - `posixc_ipc_usockpath_already_used` calls a path "Definitely not used" whose
   server is between `bind` and `listen`, and "in use" one that does not exist;
   `posixc_file_exists` and `posixc_is_stale` return the opposite of their names;
 - after a roll `filename` and `opened` differ in `AsyncLog`: the name changes,
   the file does not;
 - an upper case letter in a query matches nothing when case is ignored.

### Fairness

Reactor: both kinds of threads keep running, callbacks return, a waiter gets
`reactor->mtx` in the end, a registered timer expires.  Nothing is assumed of
sockets, signals or EINTR, nor that a client makes a call.  In `reactor_live` a
batch holds all armed knotes, which stands for the kernel's returning active
knotes in turn.  Writer: `write()` is not called for ever without writing
anything.  Logger: the main thread finishes init, the reactor thread runs the
callbacks of delivered events, the timer expires again and again; these are what
`reactor_live` establishes.  List and search: a loop that was entered goes on.
Simple logger: a thread inside the library goes on.  That suffices for the mutex
since the other threads make boundedly many calls; nothing is assumed of its
fairness.

## The proofs

Every safety property that a passing run checks is also a theorem, for all values
of the constants.  The theorems about a component are in a module of their own;
the assumptions are the named `ASSUME`s of the component's module, and where a
property needs more of a client than that, the theorem has it as a hypothesis,
which is named below with the reason for it.

`ReactorProofs` asks nothing of clients: threads may share events and callbacks
destroy theirs.  `TypeCorrect` needs `TypeInv`: a thread inside a call has an
event as its argument and a callback runs only while `firing` is set.
`SubmitsStayArmed` needs that nothing refers to an event before it was created
(`KnownInv`), or creating it could wipe what a submit armed.  `OncePerSubmit` has
the hypothesis `OneFilter` (each event is submitted for one filter only), without
which the run `resubmit_rearms` refutes it; then `evmask` merges nothing into a
submit, and an armed knote of a socket or user event was asked for (`OnceInv`).  It
does not speak of signals: `OnceWithoutSignals` extends it to all filters but the
timer's under `NoSignals`, where no signal knote exists (`SilentInv`), and the run
`signal_triggers_again` refutes it otherwise.
`NoClosingForgotten` is `ClosingAccounted` up to the moment the reactor is
destroyed, since only the reactor thread collects until then (`CollectorInv`);
what happens from then on is among the observations above.

`ReactorSafetyProofs`: under `UserOwned` (no event is left to its callback, and
each has at most one holder; the run `callback_frees_batch`
and the first of the observations above show that neither half can be dropped)
`ReactorSafe`, `CallersSafe`, `CollectorSafe` and `KqueueSafe` say that no freed
event is ever in a batch, in a callback, in a call, on `gc_events` or in the
`udata` of a knote.  The inductive invariant `SafetyInv` follows the single
reference to an event: it is held by its user, or in the hands of the one thread
inside destroy, or on `gc_events`, or in those of the collector (`OwnInv`,
`DestroyInv`); the collector runs under `reactor->mtx` (`MutexInv`) and never
while a batch is in hand (`LoopInv`); what the kqueue points to is live
(`LiveInv`).

`BufferedWriterProofs`: `WriterTypeCorrect` (the buffer never overflows),
`WriterRefines` (the writer implements `ByteStream`), `NothingIsLost` and
`FlushCompletes`, for every buffer size and every size of call.  The refinement
rests on laws of concatenation and subsequences, stated as lemmas.

`AsyncLogProofs`, for any number of clients, starts and lines: `LogTypeCorrect`,
`LinesInOrder`, `NoLineLost`, `GracefulExit` and `FilesKept`.  The last has the
exception of its property: a start within the second in which the file was opened
before truncates it.  The order in the
file is not inductive; that in file, buffer and socket is, together with no line
of one being behind a line of the one before it (`OrderInv`).

`StringSearchProofs`, for every text and query over any alphabet: `TableRight`
(while `kmp_failure` looks for the border ending at i, j is the length of one that
ends at i - 1, and no longer one can be extended: `TableInv`), `SkipsNone` and
`BoyerMooreRight` (what was compared agrees, and nothing occurs further left:
`CompareInv`), `BinaryRight` (`HalveInv`).  The last two are the safety half of
`SearchAnswers`.  Both tables are least or greatest members of sets of numbers,
which exist because `<` is well-founded on Nat; no induction is needed.

`LoggerProofs`, for any number of threads, loggers and paths of any depth:

 - `LoggerTypeCorrect`, from the types of calls at each place in the code
   (`FileInv`, `JobInv`) and the mutex (`HoldInv`).
 - `DirsPrepared`: the directories up to the one being made are there, unless one
   was removed or a name on the way is no directory (`WayInv`).
 - `ServersReached`, under `SocketsApart`: no socket has the name of a file or
   directory the program creates, and it does not delete a socket's directory.
   Otherwise a directory that goes between a server's `unlink` and its `bind`
   leaves an earlier server without a name, and so does a `mkdir` of the socket's
   path.  The instance of `files` satisfies it.  The invariant `ServeInv`
   says that a path somebody counts on, and that is not in `taken`, is bound or about
   to be bound again.
 - `LinesNotMixed`: where the mutex works and a stream has one logger, who is inside
   `log()` is its holder (`HoldInv`), and an incomplete last line of the stream is
   that of a thread which is about to continue it (`LineInv`).

`ListProofs`, for any number of heads and entries: `ListTypeCorrect`,
`PointersRight` and `WalkIsSound`.  The invariant `ListInv` adds to `Represents`
that no entry is on two lists or twice on one (`Once`), or a deletion would mend
another ring; that an entry which was only initialised has `prev` to itself when
`next` does, since `list_del` of it follows both; and that what the safe loop has
not met is still the end of its list (`WalkOK`).  Lemmas say what insertion,
deletion and splicing do to one ring (`RepInsert`, `RepDelete`, `RepSplice`) and
that other rings do not notice (`OtherRings`).

`SliceProofs`, for any number of slices and blocks, any `inline_cap` and any
strings: `SliceTypeCorrect`, `StorageKept`, `ContentsKept` and `LeaksAtCap`.  The
invariant `SliceInv` says that a block belongs to one slice and is exactly as long
as its size says, and longer than `inline_cap` when its size was not set.  There
are two hypotheses, both constant.  `RoomForNUL` is about the program: it asks for
no more digits than an `inlinebuf` holds with the NUL behind them; the run
`number_overruns_inlinebuf` refutes `StorageSound` without it.  `NumbersRight` is
about the conversions of `utils.c`: their strings are as long as they say and, where
the digits fit an int, the right ones.  TLC finds both true of the numbers of
`common` (`MCNumbers`); `NumbersRight` cannot be proved at present for the reason
below.

Only model-checked:

 - liveness (`Collected`, `Served`, `DestroyReturns`, `CallReturns`, `Flushed`,
   `WalkEnds`, `CallsReturn`, and that the searches end): the prover has no fairness;
 - safety of events owned by their callbacks, of which `reactor_shutdown` checks
   the case of one filter per event;
 - the conversions of numbers, whose definition recurs over the digits: what a
   recursive definition computes needs induction over data, and powers of ten,
   of which the provers know nothing.

## Plan

Modelled: reactor and events, writer, both loggers, file tree and sockets, list,
slice, searches; proved: every safety property of the passing runs, with the
hypotheses named above.  What is left:

1. Proofs: memory safety for events owned by callbacks with one filter per event,
   beside `UserOwned`; `NumbersRight` from the definition of `digits`, as far as
   well-founded minima carry.
2. Descriptors: `posixc_event_release` closes ids that are no descriptors.

### Not modelled

 - The epoll back end (`linux/`): the port is unfinished and does not compile (it
   includes `sys/event.h`), so there is no behaviour to be faithful to.
 - `tcp.c`, `runtime.c`, `signal.c`, `eventfd.c`, `signalfd.c` and the reading half
   of `fileio.c` wrap one system call each and keep no state; `timerfd.c` and
   `localasynclog.c` are empty.
 - `posixc_ipc_usockpath_already_used`, `posixc_ipc_getuid` and the predicates on
   `struct stat` only read, and nothing in the repository calls them.
 - Rounding of floats, and the contents of files in `FileTree`.
 - `posixc_asynclogsvr_flush` called by a thread of the program while the server
   runs: it takes no lock and would race with the callbacks on `pos`.  `AsyncLog`
   lets the program flush only after `posixc_asynclogsvr_destroy`.
