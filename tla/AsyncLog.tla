------------------------------ MODULE AsyncLog ------------------------------
(***************************************************************************)
(* The asynchronous logger: posixc_asynclogcli (asynclogcli.c) sends log   *)
(* lines as datagrams over a unix domain socket (ipc.c) to                 *)
(* posixc_asynclogsvr (asynclogsvr.c), which puts them into a buffered     *)
(* writer (fileio.c) and flushes it on a timer.                            *)
(*                                                                         *)
(* The callbacks of the server all run on the reactor thread, one at a     *)
(* time, so each is one step; the reactor's own steps are in Reactor and   *)
(* the single write() calls in BufferedWriter.  Sizes are in bytes.  A     *)
(* line counts as written when its last byte is.                           *)
(***************************************************************************)
EXTENDS Integers, Sequences

CONSTANTS
  Client,
  LOG_LEVEL_NONE,           \* levels from here on are not known to the client
  lowest_log_level,
  one_page, buffered_writable_size,
  max_file_size,
  header,                   \* length of the time and the level in front of a line
  Len1,                     \* lengths of log messages in use
  sock_room,                \* datagrams that the receiving socket holds
  MaxLogs, MaxStarts, MaxTime      \* bounds

ASSUME LogAssumption ==
  /\ {LOG_LEVEL_NONE, lowest_log_level, max_file_size, header} \subseteq Nat
  /\ one_page \in Nat /\ header + 1 < one_page /\ one_page <= buffered_writable_size
  /\ Len1 \subseteq Nat
  /\ {buffered_writable_size, sock_room, MaxLogs, MaxStarts, MaxTime} \subseteq Nat

VARIABLES
  \* the server process and its posixc_asynclogsvr
  srv,            \* "down", "up", "stopped" (destroyed by the program), "hung" (the
                  \* program waits in destroy for ever), "exited"
  todo,           \* events that posixc_asynclogsvr_init has still to submit
  armed,          \* events whose knote is enabled
  due,            \* external: timer expired or signal sent, not yet delivered
  pending, pos,   \* lines in the buffer, and bytes in it
  bytes_written,
  opened,         \* the name under which the file behind the writer was opened
  filename,       \* svr->filename
  \* outside
  file,           \* contents of the file of each name
  now,            \* the clock, in the unit of posixc_timestr_logfile
  queue,          \* lines in the server's socket
  starts,         \* number of server starts: names the socket behind usockpath
  conn,           \* the socket each client is connected to, 0 when send_fd = -1
  logs,           \* number of calls of posixc_asynclogcli_log
  failed          \* history: some write() to a log file failed

svrVars == <<srv, todo, armed, due, pending, pos, bytes_written, opened, filename>>
outVars == <<file, now, queue, starts, conn, logs, failed>>
vars    == <<svrVars, outVars>>

SvrEvents == {"dgram", "timer", "sigint"}
Time      == 0 .. MaxTime
Line      == [n : 1 .. MaxLogs, size : 1 .. one_page]

Init ==
  /\ srv = "down" /\ todo = <<>> /\ armed = {} /\ due = {}
  /\ pending = <<>> /\ pos = 0 /\ bytes_written = 0 /\ opened = 0 /\ filename = 0
  /\ file = [t \in Time |-> <<>>] /\ now = 0
  /\ queue = <<>> /\ starts = 0 /\ conn = [c \in Client |-> 0]
  /\ logs = 0 /\ failed = FALSE

-----------------------------------------------------------------------------
(* The client.                                                             *)

\* posixc_asynclogcli_init: connect() succeeds when a server is bound.
posixc_asynclogcli_init(c) ==
  /\ conn' = [conn EXCEPT ![c] = IF srv = "up" THEN starts ELSE 0]
  /\ UNCHANGED <<svrVars, file, now, queue, starts, logs, failed>>

\* The datagram for a message of len bytes: header, what fits of the message,
\* a newline.
dgram_size_untruncated(len) == header + len + 1          \* mutant
dgram_size(len) ==
  (IF header + len > one_page - 1 THEN one_page - 1 ELSE header + len) + 1

\* The levels that are logged.
logged(level) == level >= lowest_log_level /\ level < LOG_LEVEL_NONE

\* write() on the socket.  It fails, unnoticed, when the client was never
\* connected, when its server is gone, and when the socket is full.
posixc_ipc_send_dgram(c, line) ==
  queue' = IF conn[c] = starts /\ srv = "up" /\ Len(queue) < sock_room
           THEN Append(queue, line) ELSE queue

posixc_asynclogcli_log(c, len, level) ==
  /\ logs < MaxLogs /\ logs' = logs + 1
  /\ IF logged(level)
     THEN posixc_ipc_send_dgram(c, [n |-> logs + 1, size |-> dgram_size(len)])
     ELSE UNCHANGED queue
  /\ UNCHANGED <<svrVars, file, now, starts, conn, failed>>

-----------------------------------------------------------------------------
(* The buffered writer, as BufferedWriter and ByteStream describe it.      *)

\* All bytes of the lines ls reach the file, or write() fails after some.
put(ls, ok) ==
  /\ \E k \in 0 .. Len(ls) :
       /\ ok => k = Len(ls)
       /\ file' = [file EXCEPT ![opened] = @ \o SubSeq(ls, 1, k)]
  /\ failed' = (failed \/ ~ok)

\* posixc_flush; with an empty buffer there is no write() that could fail.
flush_forgets ==                                 \* mutant: nothing is written
  pos' = 0 /\ pending' = <<>> /\ UNCHANGED <<file, failed>>
flush_keeps ==                                   \* mutant: pos is not reset
  UNCHANGED <<pos, pending>> /\ put(pending, TRUE)
posixc_flush ==
  /\ pos' = 0 /\ pending' = <<>>
  /\ \E ok \in BOOLEAN : (pos = 0 => ok) /\ put(pending, ok)

\* posixc_buffered_write: the buffer takes the line, or is filled up and
\* flushed first.  After a failed flush the line is dropped; a rest as large as
\* the buffer is written through.
posixc_buffered_write(line) ==
  LET over    == pos + line.size - buffered_writable_size
      through == over >= buffered_writable_size
  IN  IF over <= 0
      THEN /\ pending' = Append(pending, line) /\ pos' = pos + line.size
           /\ UNCHANGED <<file, failed>>
      ELSE \E ok \in BOOLEAN :
             /\ put(IF through THEN Append(pending, line) ELSE pending, ok)
             /\ pending' = IF ok /\ ~through THEN <<line>> ELSE <<>>
             /\ pos' = IF ok /\ ~through THEN over ELSE 0

-----------------------------------------------------------------------------
(* The server.                                                             *)

\* posixc_timestr_logfile: a name of its own for every second.
timestr_minute(t) == t \div 2            \* mutant: a pattern without seconds
timestr_logfile(t) == t

\* posixc_asynclogsvr_init up to the creation of the events: the file of this
\* second is opened with O_TRUNC, the socket replaces the one behind usockpath.
posixc_asynclogsvr_init ==
  /\ srv # "up" /\ starts < MaxStarts
  /\ srv' = "up" /\ starts' = starts + 1
  /\ todo' = <<"dgram", "timer", "sigint">> /\ armed' = {} /\ due' = {}
  /\ pending' = <<>> /\ pos' = 0 /\ bytes_written' = 0
  /\ opened' = timestr_logfile(now) /\ filename' = timestr_logfile(now)
  /\ file' = [file EXCEPT ![timestr_logfile(now)] = <<>>]
  /\ queue' = <<>>
  /\ UNCHANGED <<now, conn, logs, failed>>

\* ... and its three calls of posixc_event_submit, while callbacks already run.
init_submit ==
  /\ srv = "up" /\ todo # <<>>
  /\ armed' = armed \union {Head(todo)}
  /\ todo' = Tail(todo)
  /\ UNCHANGED <<srv, due, pending, pos, bytes_written, opened, filename, outVars>>

\* What the callbacks of an idle reactor thread need: the server runs, and
\* on_dgram is not between its write and its roll.
rolling == bytes_written > max_file_size
may_run(ev) == srv = "up" /\ ev \in armed /\ ~rolling

\* on_dgram, up to the test of max_file_size: one read(), one buffered write.
\* EV_DISPATCH has disabled the knote, and nothing submits the event again.
on_dgram ==
  /\ may_run("dgram") /\ queue # <<>>
  /\ armed' = armed \ {"dgram"}
  /\ queue' = Tail(queue)
  /\ posixc_buffered_write(Head(queue))
  /\ bytes_written' = bytes_written + Head(queue).size
  /\ UNCHANGED <<srv, todo, due, opened, filename, now, starts, conn, logs>>

\* posixc_asynclogsvr_roll: no file is opened.
posixc_asynclogsvr_roll ==
  /\ posixc_flush /\ UNCHANGED opened
  /\ filename' = timestr_logfile(now) /\ bytes_written' = 0

\* on_dgram, the rest.
on_dgram_roll ==
  /\ srv = "up" /\ rolling
  /\ posixc_asynclogsvr_roll
  /\ UNCHANGED <<srv, todo, armed, due, now, queue, starts, conn, logs>>

\* on_clock: the timer is periodic and stays enabled.
clock_no_flush == UNCHANGED <<pending, pos, file, failed>>       \* mutant
clock_flush == posixc_flush
on_clock ==
  /\ may_run("timer") /\ "timer" \in due
  /\ due' = due \ {"timer"}
  /\ clock_flush
  /\ UNCHANGED <<srv, todo, armed, bytes_written, opened, filename,
                 now, queue, starts, conn, logs>>

\* on_sigint: flush, destroy everything from within the reactor thread, exit.
sigint_no_flush == UNCHANGED <<pending, pos, file, failed>>      \* mutant
sigint_flush == posixc_flush
on_sigint ==
  /\ may_run("sigint") /\ "sigint" \in due
  /\ sigint_flush
  /\ srv' = "exited" /\ armed' = {} /\ due' = {} /\ queue' = <<>>
  /\ UNCHANGED <<todo, bytes_written, opened, filename, now, starts, conn, logs>>

\* The program destroys the server itself: nothing is flushed.  The call returns
\* only if the loop sees the closing flag on its way to kevent(): asleep there it
\* has no event left to wake it, and posixc_reactor_destroy joins it for ever.
posixc_asynclogsvr_destroy ==
  /\ srv = "up" /\ todo = <<>> /\ ~rolling
  /\ srv' \in {"stopped", "hung"} /\ armed' = {} /\ due' = {} /\ queue' = <<>>
  /\ UNCHANGED <<todo, pending, pos, bytes_written, opened, filename,
                 file, now, starts, conn, logs, failed>>

\* The program's own flush, once no callback can run beside it.
posixc_asynclogsvr_flush ==
  /\ srv = "stopped"
  /\ posixc_flush
  /\ UNCHANGED <<srv, todo, armed, due, bytes_written, opened, filename,
                 now, queue, starts, conn, logs>>

-----------------------------------------------------------------------------
(* External: timer and signal, the clock, the end of the process.          *)

raise(ev) ==
  /\ srv = "up" /\ ev \notin due
  /\ due' = due \union {ev}
  /\ UNCHANGED <<srv, todo, armed, pending, pos, bytes_written, opened, filename, outVars>>

tick ==
  /\ now < MaxTime /\ now' = now + 1
  /\ UNCHANGED <<svrVars, file, queue, starts, conn, logs, failed>>

kill ==
  /\ srv \in {"up", "stopped", "hung"}
  /\ srv' = "down" /\ todo' = <<>> /\ armed' = {} /\ due' = {}
  /\ pending' = <<>> /\ pos' = 0 /\ bytes_written' = 0 /\ queue' = <<>>
  /\ UNCHANGED <<opened, filename, file, now, starts, conn, logs, failed>>

-----------------------------------------------------------------------------

Next ==
  \/ \E c \in Client :
       \/ posixc_asynclogcli_init(c)
       \/ \E len \in Len1, level \in 0 .. LOG_LEVEL_NONE :
            posixc_asynclogcli_log(c, len, level)
  \/ posixc_asynclogsvr_init \/ init_submit
  \/ on_dgram \/ on_dgram_roll \/ on_clock \/ on_sigint
  \/ posixc_asynclogsvr_destroy \/ posixc_asynclogsvr_flush
  \/ raise("timer") \/ raise("sigint")
  \/ tick \/ kill

Spec == Init /\ [][Next]_vars

\* The main thread finishes posixc_asynclogsvr_init, the reactor thread runs
\* the callbacks of delivered events, the timer expires again and again.
FairSpec ==
  /\ Spec
  /\ WF_vars(init_submit)
  /\ WF_vars(on_dgram) /\ WF_vars(on_dgram_roll) /\ WF_vars(on_clock)
  /\ WF_vars(raise("timer"))

-----------------------------------------------------------------------------
(* Properties.                                                             *)

Elems(s) == {s[i] : i \in 1 .. Len(s)}

\* The type invariant, with the sizes: no datagram exceeds the page on_dgram
\* reads into, and the buffer holds what its lines say it does.
LogTypeOK ==
  /\ srv \in {"down", "up", "stopped", "hung", "exited"}
  /\ todo \in Seq(SvrEvents) /\ armed \subseteq SvrEvents /\ due \subseteq SvrEvents
  /\ queue \in Seq(Line) /\ Len(queue) <= sock_room
  /\ pending \in Seq(Line) /\ pos \in 0 .. buffered_writable_size
  /\ bytes_written \in 0 .. max_file_size + one_page
  /\ opened \in Time /\ filename \in Time /\ now \in Time
  /\ file \in [Time -> Seq(Line)]
  /\ starts \in 0 .. MaxStarts /\ conn \in [Client -> 0 .. MaxStarts]
  /\ logs \in 0 .. MaxLogs /\ failed \in BOOLEAN

\* Through socket, buffer and file the lines of one server stay in the order
\* in which they were logged, and none is doubled.
LoggedInOrder ==
  srv = "up" =>
    LET all == file[opened] \o pending \o queue IN
    \A i, j \in 1 .. Len(all) : i < j => all[i].n < all[j].n

\* A line the socket has taken is not lost as long as the server runs and no
\* write() fails: it is in the socket, in the buffer or in a file.
Held == Elems(queue) \union Elems(pending) \union UNION {Elems(file[t]) : t \in Time}
NothingLostWhileUp ==
  [][srv = "up" /\ srv' = "up" /\ ~failed' => Held \subseteq Held']_vars

\* "Tries to exit gracefully": when on_sigint ends the process, every line that
\* was taken out of the socket is in the file, unless write() failed.
ExitsGracefully ==
  [][srv = "up" /\ srv' = "exited" /\ ~failed'
       => Elems(pending) \subseteq Elems(file'[opened])]_vars

\* What is in a log file stays there, but for the one case that the code has: a
\* server that starts within the second in which the file was opened before
\* truncates it (O_TRUNC).  Callbacks, rolls and later starts never do.
FilesOnlyGrow ==
  [][\A t \in Time :
       \/ Len(file[t]) <= Len(file'[t]) /\ SubSeq(file'[t], 1, Len(file[t])) = file[t]
       \/ starts' # starts /\ t = now]_vars

\* "flushes buffer every flush_interval": a line in the buffer does not stay
\* there for ever while the server runs.
Flushed ==
  \A n \in 1 .. MaxLogs :
    (srv = "up" /\ \E l \in Elems(pending) : l.n = n)
      ~> (srv # "up" \/ ~ \E l \in Elems(pending) : l.n = n)

\* "binds a dgram-mode unix domain socket to recv log msgs" (asynclogsvr.h): a
\* line in the socket is received in the end, while the server runs.
Received ==
  \A n \in 1 .. MaxLogs :
    (srv = "up" /\ \E l \in Elems(queue) : l.n = n)
      ~> (srv # "up" \/ ~ \E l \in Elems(queue) : l.n = n)
=============================================================================
