------------------------------- MODULE Logger -------------------------------
(***************************************************************************)
(* The synchronous logger (log.c): threads log through loggers that write  *)
(* to stderr or stdout ("std") or to a file they open with posixc_fopen.   *)
(*                                                                         *)
(* posixc_log_init does not initialise logger->mtx.  What locking it does  *)
(* depends on the memory the logger lies in: on macOS it excludes others,  *)
(* or, without the signature of a mutex there, fails with EINVAL, which    *)
(* log() ignores; works says which.  A FILE is identified with the logger  *)
(* that opened it; out is what was printed to it.                          *)
(*                                                                         *)
(* Clients initialise a logger once and before they use it, and close it,  *)
(* when it has a FILE, after all calls through it have returned.           *)
(***************************************************************************)
EXTENDS FileTree

CONSTANTS
  Loggers,
  Levels,        \* levels that are logged, of enum log_level
  Lowest         \* values of logger->lowest

ASSUME LoggerAssumption ==
  /\ Levels \union Lowest \subseteq 0 .. 5
  /\ Loggers \intersect {"unset", "NULL", "std", "none"} = {}

VARIABLES
  logger,    \* fields of each logger, and whether it is "new", "up" or "closed"
  holder,    \* thread that holds logger->mtx, or "nobody"
  job,       \* the logger and the level of a thread's call
  out        \* pieces printed to each FILE: the thread, its call and the part

logVars == <<logger, holder, job, out>>
vars    == <<fileVars, logVars>>

NoJob == [log |-> "none", level |-> 0]
FILE  == {"std"} \union Loggers

Init ==
  /\ FileInit
  /\ logger = [l \in Loggers |->
                 [file |-> "unset", lowest |-> 0, works |-> FALSE, is |-> "new"]]
  /\ holder = [l \in Loggers |-> "nobody"]
  /\ job = [t \in Thread |-> NoJob] /\ out = [f \in FILE |-> <<>>]

-----------------------------------------------------------------------------

\* posixc_log_init: lowest and file are set, mtx is not.
posixc_log_init(l, lowest, file) ==
  \E works \in BOOLEAN :
    logger' = [logger EXCEPT ![l] =
                 [file |-> file, lowest |-> lowest, works |-> works, is |-> "up"]]

\* The logger is not initialised, and nobody is about to.
Fresh(l) == logger[l].is = "new" /\ \A t \in Thread : job[t].log # l

\* posixc_log_init_with_stderr and posixc_log_init_with_stdout.
log_init_with_std(t, l, lowest) ==
  /\ Fresh(l) /\ Calls(t)
  /\ posixc_log_init(l, lowest, "std")
  /\ UNCHANGED <<treeVars, at, call, struck, holder, job, out>>

\* posixc_log_init_with_filename calls posixc_fopen.
posixc_log_init_with_filename(t, l, lowest, fname) ==
  /\ Fresh(l)
  /\ posixc_prepare_dirs_for(t, "fopen", fname)
  /\ job' = [job EXCEPT ![t] = [log |-> l, level |-> lowest]]
  /\ UNCHANGED <<logger, holder, out>>

\* fopen(fname, "a") and posixc_log_init.
log_fopen(t) ==
  /\ at[t] = "prepared" /\ call[t].fn = "fopen"
  /\ open(call[t].path)
  /\ posixc_log_init(job[t].log, job[t].level,
                     IF CanOpen(call[t].path) THEN job[t].log ELSE "NULL")
  /\ Return(t)
  /\ job' = [job EXCEPT ![t] = NoJob]
  /\ UNCHANGED <<sock, taken, calls, struck, holder, out>>

posixc_log_close(t, l) ==
  /\ Calls(t) /\ logger[l].is = "up" /\ logger[l].file # "NULL"
  /\ \A v \in Thread : job[v].log # l
  /\ logger' = [logger EXCEPT ![l].is = "closed"]
  /\ UNCHANGED <<treeVars, at, call, struck, holder, job, out>>

-----------------------------------------------------------------------------
(* posixc_log and log().                                                   *)

\* No FILE, or a level that is too low: nothing happens.
posixc_log(t, l, level) ==
  /\ Calls(t) /\ logger[l].is = "up"
  /\ IF logger[l].file = "NULL" \/ level < logger[l].lowest
     THEN UNCHANGED <<at, job>>
     ELSE Goto(t, "lock") /\ job' = [job EXCEPT ![t] = [log |-> l, level |-> level]]
  /\ UNCHANGED <<treeVars, call, struck, logger, holder, out>>

InLog(t, l, next) ==
  at[t] = l /\ Goto(t, next) /\ UNCHANGED <<treeVars, call, calls, struck, logger>>

lock_not(t) ==                \* mutant: no pthread_mutex_lock
  InLog(t, "lock", "level") /\ UNCHANGED <<holder, job, out>>
log_lock(t) ==
  /\ InLog(t, "lock", "level")
  /\ LET l == job[t].log IN
     IF logger[l].works
     THEN holder[l] = "nobody" /\ holder' = [holder EXCEPT ![l] = t]
     ELSE UNCHANGED holder
  /\ UNCHANGED <<job, out>>

\* fprintf of one part; stdio keeps it whole.
fprintf(t, part) ==
  /\ out' = [out EXCEPT ![logger[job[t].log].file] = Append(@, <<t, calls[t], part>>)]
  /\ UNCHANGED <<holder, job>>

\* The switch has no case for LOG_LEVEL_NONE.
log_level(t) ==
  /\ InLog(t, "level", "text")
  /\ IF job[t].level <= 4 THEN fprintf(t, "level") ELSE UNCHANGED <<holder, job, out>>
log_text(t)    == InLog(t, "text", "newline") /\ fprintf(t, "text")
log_newline(t) == InLog(t, "newline", "unlock") /\ fprintf(t, "newline")

unlock_not(t) ==              \* mutant: no pthread_mutex_unlock
  InLog(t, "unlock", "idle") /\ job' = [job EXCEPT ![t] = NoJob] /\ UNCHANGED <<holder, out>>
log_unlock(t) ==
  /\ InLog(t, "unlock", "idle")
  /\ holder' = [holder EXCEPT ![job[t].log] = "nobody"]
  /\ job' = [job EXCEPT ![t] = NoJob]
  /\ UNCHANGED out

-----------------------------------------------------------------------------

LogCall(t) ==
  \E l \in Loggers :
    \/ \E lowest \in Lowest :
         \/ log_init_with_std(t, l, lowest)
         \/ \E p \in OpenPaths : posixc_log_init_with_filename(t, l, lowest, p)
    \/ \E level \in Levels : posixc_log(t, l, level)
    \/ posixc_log_close(t, l)

LogStep(t) ==
  \/ log_fopen(t) \/ log_lock(t) \/ log_level(t) \/ log_text(t)
  \/ log_newline(t) \/ log_unlock(t)

Step(t) == (FileStep(t) /\ UNCHANGED logVars) \/ LogStep(t)

Next ==
  \E t \in Thread :
    \/ (FileCall(t) \/ server_ends(t)) /\ UNCHANGED logVars
    \/ LogCall(t)
    \/ Step(t)

Spec == Init /\ [][Next]_vars

\* A thread that is inside the library goes on.
Progress == \A t \in Thread : WF_vars(Step(t))
FairSpec == Spec /\ Progress

-----------------------------------------------------------------------------
(* Properties.                                                             *)

\* The type invariant, with that of the file tree.
LoggerTypeOK ==
  /\ FileTypeOK
  /\ at \in [Thread -> FilePC \union {"lock", "level", "text", "newline", "unlock"}]
  /\ \A l \in Loggers :
       /\ logger[l].file \in {"unset", "NULL", "std", l}
       /\ logger[l].is \in {"new", "up", "closed"}
       /\ holder[l] # "nobody" => holder[l] \in Thread /\ job[holder[l]].log = l

\* A line is written by three calls of fprintf.  If the mutex works and the
\* FILE is written through no other logger, the lines of threads that log at
\* the same time are not mixed: what follows a part of a line belongs to it.
LinesWhole ==
  \A l \in Loggers :
    LET f == logger[l].file IN
    /\ f \in FILE /\ logger[l].works
    /\ \A m \in Loggers \ {l} : logger[m].file # f
    => \A i \in 2 .. Len(out[f]) :
         out[f][i-1][3] # "newline" =>
           out[f][i][1] = out[f][i-1][1] /\ out[f][i][2] = out[f][i-1][2]

\* Every call returns: the loops over the directories end, and whoever waits
\* for logger->mtx gets it.
CallsReturn == \A t \in Thread : at[t] # "idle" ~> at[t] = "idle"
=============================================================================
