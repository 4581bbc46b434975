------------------------------ MODULE FileTree ------------------------------
(***************************************************************************)
(* The functions of fileio.c that create, open, rename and remove files    *)
(* and directories, and those of ipc.c that bind unix domain sockets, as   *)
(* called by threads of one or several processes on one file system.       *)
(*                                                                         *)
(* A path is the sequence of its names from the root; it is absolute, as   *)
(* posixc_prepare_dirs_for looks for a '/', and fits into tmp[tmp_cap].    *)
(* Each system call is one step.  A socket in the tree is the thread that  *)
(* bound it, or "stale" when no process has it open any more; contents     *)
(* of files and permissions are left out.                                  *)
(***************************************************************************)
EXTENDS Integers, Sequences

CONSTANTS
  Thread,
  Path,          \* the paths in use, with the directories above them
  OpenPaths,     \* files that are opened
  DirPaths,      \* directories that are created and deleted
  SockPaths,     \* where servers bind
  MaxCalls       \* bound: calls per thread

Above(p) == SubSeq(p, 1, Len(p) - 1)

ASSUME FileTreeAssumption ==
  /\ Path \subseteq Seq(STRING) \ {<<>>}
  /\ \A p \in Path : \A k \in 1 .. Len(p) : SubSeq(p, 1, k) \in Path
  /\ OpenPaths \union DirPaths \union SockPaths \subseteq Path
  /\ SockPaths \intersect (OpenPaths \union DirPaths) = {}
  /\ MaxCalls \in Nat
  /\ Thread \intersect {"none", "dir", "file", "stale", "nobody"} = {}

VARIABLES
  node,     \* what each path names: "none", "dir", "file", "stale" or a thread
  at,       \* where each thread is; "idle" outside of the library
  call,     \* the thread's call: its function, path, and of the n directories
            \* on the way the one (the k-th) that is made next
  calls,    \* calls so far
  sock,     \* the path of the server socket a thread was given, or <<>>
  struck,   \* history: threads that had a name on their way removed
  taken     \* history: paths that lost their server other than to a server that
            \* bound them: the name was deleted, renamed or removed after a failed
            \* listen(), no bind() followed its unlink, or its server ended

treeVars == <<node, sock, taken>>
callVars == <<at, call, calls, struck>>
fileVars == <<treeVars, callVars>>

NoCall == [fn |-> "none", path |-> <<>>, n |-> 0, k |-> 0]

FileInit ==
  /\ node = [p \in Path |-> "none"] /\ sock = [t \in Thread |-> <<>>] /\ taken = {}
  /\ at = [t \in Thread |-> "idle"] /\ call = [t \in Thread |-> NoCall]
  /\ calls = [t \in Thread |-> 0] /\ struck = {}

-----------------------------------------------------------------------------
(* System calls.                                                           *)

IsDir(p) == p # <<>> => node[p] = "dir"
way(t, k) == SubSeq(call[t].path, 1, k)

Put(p, what) == node' = [node EXCEPT ![p] = what]

CanMake(p) == node[p] = "none" /\ IsDir(Above(p))
mkdir(p) == IF CanMake(p) THEN Put(p, "dir") ELSE UNCHANGED node

\* open() that creates, or fopen(); a socket cannot be opened.
CanOpen(p) == CanMake(p) \/ (IsDir(Above(p)) /\ node[p] = "file")
open(p) == IF CanMake(p) THEN Put(p, "file") ELSE UNCHANGED node

\* The threads that count on p as a directory on their way.
OnTheWay(p) ==
  {t \in Thread : at[t] # "idle" /\ Len(p) <= call[t].n /\ way(t, Len(p)) = p}

CanUnlink(p) == node[p] \notin {"none", "dir"}
unlink(p) ==
  IF CanUnlink(p) THEN Put(p, "none") /\ struck' = struck \union OnTheWay(p)
                  ELSE UNCHANGED <<node, struck>>

-----------------------------------------------------------------------------
(* Calls.                                                                  *)

Goto(t, l) == at' = [at EXCEPT ![t] = l]
Return(t)  == Goto(t, "idle") /\ call' = [call EXCEPT ![t] = NoCall]

\* Thread t makes one more call; it may be one of a single step.
Calls(t) ==
  /\ at[t] = "idle" /\ calls[t] < MaxCalls
  /\ calls' = [calls EXCEPT ![t] = @ + 1]

Enters(t, fn, p, n, l) ==
  /\ call' = [call EXCEPT ![t] = [fn |-> fn, path |-> p, n |-> n, k |-> 1]]
  /\ Goto(t, l)
  /\ struck' = struck \ {t}

\* posixc_prepare_dirs_for, up to and with posixc_dir_exists.
posixc_prepare_dirs_for(t, fn, p) ==
  /\ Calls(t)
  /\ Enters(t, fn, p, Len(p) - 1, IF IsDir(Above(p)) THEN "prepared" ELSE "mkdir")
  /\ UNCHANGED treeVars

\* posixc_writable_open and posixc_appendable_open begin.
open_prepared(t, p) == posixc_prepare_dirs_for(t, "open", p)

\* posixc_recursive_mkdir begins.
posixc_recursive_mkdir(t, p) ==
  Calls(t) /\ Enters(t, "recursive_mkdir", p, Len(p), "mkdir") /\ UNCHANGED treeVars

\* Is there one more mkdir?  The result of the last one is not looked at.
goes_on_if_made(t) ==         \* mutant: an mkdir that fails ends the loop
  call[t].k < call[t].n /\ CanMake(way(t, call[t].k))
goes_on(t) == call[t].k < call[t].n

\* One mkdir of the loop, or the one behind it.
mkdir_next(t) ==
  /\ at[t] = "mkdir"
  /\ mkdir(way(t, call[t].k))
  /\ IF goes_on(t) THEN call' = [call EXCEPT ![t].k = @ + 1] /\ UNCHANGED at
                    ELSE Goto(t, "prepared") /\ UNCHANGED call
  /\ UNCHANGED <<sock, taken, calls, struck>>

\* The directories are there: open(), or the end of posixc_recursive_mkdir.
finish(t) ==
  /\ at[t] = "prepared" /\ call[t].fn \in {"open", "recursive_mkdir"}
  /\ IF call[t].fn = "open" THEN open(call[t].path) ELSE UNCHANGED node
  /\ Return(t)
  /\ UNCHANGED <<sock, taken, calls, struck>>

posixc_create_dir(t, p) ==
  Calls(t) /\ mkdir(p) /\ UNCHANGED <<sock, taken, at, call, struck>>

posixc_delete_dir(t, p) ==
  /\ Calls(t)
  /\ IF node[p] = "dir" /\ \A q \in Path : Len(q) > 1 /\ Above(q) = p => node[q] = "none"
     THEN Put(p, "none") /\ struck' = struck \union OnTheWay(p)
     ELSE UNCHANGED <<node, struck>>
  /\ UNCHANGED <<sock, taken, at, call>>

posixc_delete_file(t, p) ==
  /\ Calls(t)
  /\ unlink(p)
  /\ taken' = taken \union {p}
  /\ UNCHANGED <<sock, at, call>>

\* rename() of what is not a directory.
posixc_rename_file(t, p, q) ==
  /\ Calls(t) /\ p # q
  /\ IF CanUnlink(p) /\ node[q] # "dir" /\ IsDir(Above(q))
     THEN /\ node' = [node EXCEPT ![p] = "none", ![q] = node[p]]
          /\ struck' = struck \union OnTheWay(p) \union OnTheWay(q)
          /\ taken' = taken \union {p, q}
     ELSE UNCHANGED <<node, struck, taken>>
  /\ UNCHANGED <<sock, at, call>>

-----------------------------------------------------------------------------
(* posixc_ipc_dgram_socket and posixc_ipc_nonblock_stream_socket.          *)

\* socket() comes first and may fail.
posixc_ipc_socket(t, fn, p) ==
  /\ sock[t] = <<>> /\ Calls(t)
  /\ \/ Enters(t, fn, p, 0, "unlink")
     \/ UNCHANGED <<at, call, struck>>
  /\ UNCHANGED treeVars

set_sockaddr_un(t) ==
  /\ at[t] = "unlink"
  /\ unlink(call[t].path)
  /\ Goto(t, "bind")
  /\ UNCHANGED <<sock, taken, call, calls>>

Served(t) == sock' = [sock EXCEPT ![t] = call[t].path] /\ Return(t)

\* bind() failed: -1 is returned, and the descriptor stays open.
bind_failed_tidies(t) ==      \* mutant: the name is removed
  unlink(call[t].path) /\ Return(t) /\ UNCHANGED sock
bind_failed(t) == Return(t) /\ UNCHANGED <<node, sock, struck>>

\* bind() fails where something has the name, and may fail where nothing has; the
\* name that set_sockaddr_un removed is then not there again.
bind(t) ==
  /\ at[t] = "bind"
  /\ \/ /\ CanMake(call[t].path) /\ Put(call[t].path, t)
        /\ taken' = taken \ {call[t].path}
        /\ IF call[t].fn = "dgram" THEN Served(t)
           ELSE Goto(t, "listen") /\ UNCHANGED <<sock, call>>
        /\ UNCHANGED struck
     \/ /\ bind_failed(t)
        /\ taken' = IF CanMake(call[t].path) THEN taken \union {call[t].path} ELSE taken
  /\ UNCHANGED calls

\* When listen() fails the name is removed, whoever has it by then.
listen(t) ==
  /\ at[t] = "listen"
  /\ \/ Served(t) /\ UNCHANGED <<node, taken, struck>>
     \/ /\ unlink(call[t].path)
        /\ taken' = taken \union {call[t].path}
        /\ Return(t) /\ UNCHANGED sock
  /\ UNCHANGED calls

\* A server closes its socket, or its process ends: the name stays.
server_ends(t) ==
  /\ at[t] = "idle" /\ sock[t] # <<>>
  /\ IF node[sock[t]] = t THEN Put(sock[t], "stale") /\ taken' = taken \union {sock[t]}
                          ELSE UNCHANGED <<node, taken>>
  /\ sock' = [sock EXCEPT ![t] = <<>>]
  /\ UNCHANGED callVars

-----------------------------------------------------------------------------

FileCall(t) ==
  \/ \E p \in OpenPaths : open_prepared(t, p)
  \/ \E p \in DirPaths :
       posixc_recursive_mkdir(t, p) \/ posixc_create_dir(t, p) \/ posixc_delete_dir(t, p)
  \/ \E p \in OpenPaths \union SockPaths : posixc_delete_file(t, p)
  \/ \E p, q \in OpenPaths : posixc_rename_file(t, p, q)
  \/ \E p \in SockPaths, fn \in {"dgram", "stream"} : posixc_ipc_socket(t, fn, p)

FileStep(t) ==
  mkdir_next(t) \/ finish(t) \/ set_sockaddr_un(t) \/ bind(t) \/ listen(t)

-----------------------------------------------------------------------------
(* Properties.                                                             *)

FilePC == {"idle", "mkdir", "prepared", "unlink", "bind", "listen"}

FileTypeOK ==
  /\ node \in [Path -> {"none", "dir", "file", "stale"} \union Thread]
  /\ \A t \in Thread :
       /\ call[t].path \in Path \union {<<>>} /\ call[t].n \in 0 .. Len(call[t].path)
       /\ call[t].k \in 0 .. call[t].n + 1
  /\ calls \in [Thread -> 0 .. MaxCalls] /\ sock \in [Thread -> SockPaths \union {<<>>}]
  /\ struck \subseteq Thread /\ taken \subseteq Path

\* "Premake parent directories" (fileio.h): whatever other threads create at the
\* same time, when a file is opened, or posixc_recursive_mkdir returns, the
\* directory is there; unless one on its way was removed meanwhile, or
\* something that is not a directory stands in the way.
Prepared ==
  \A t \in Thread :
    at[t] = "prepared" =>
      \/ IsDir(way(t, call[t].n)) \/ t \in struck
      \/ \E k \in 1 .. call[t].n : node[way(t, k)] \notin {"none", "dir"}

\* Servers that start at the same time on one path may take it from each other,
\* but one of them is reached there in the end: when all calls for the path are
\* over and one succeeded, it names the socket of a server that runs.
SomeoneServes ==
  \A p \in SockPaths \ taken :
    /\ \E t \in Thread : sock[t] = p
    /\ \A t \in Thread : at[t] # "idle" => call[t].path # p
    => \E t \in Thread : node[p] = t /\ sock[t] = p
=============================================================================
