---------------------------- MODULE LoggerProofs ----------------------------
(***************************************************************************)
(* Proofs about the file tree and the logger for any number of threads,    *)
(* loggers and paths: the types, that directories are prepared, that a     *)
(* socket's path leads to a server, and that the lines of a log are whole. *)
(***************************************************************************)
EXTENDS Logger, SequenceTheorems, TLAPS

-----------------------------------------------------------------------------
(* Paths.                                                                  *)

LEMMA PathFacts ==
  /\ \A p \in Path : p \in Seq(STRING) /\ Len(p) \in Nat /\ Len(p) > 0 /\ p # <<>>
  /\ \A p \in Path : \A k \in 1 .. Len(p) : SubSeq(p, 1, k) \in Path
  /\ OpenPaths \subseteq Path /\ DirPaths \subseteq Path /\ SockPaths \subseteq Path
  <1>1. \A p \in Path : p \in Seq(STRING) /\ p # <<>>
    BY FileTreeAssumption
  <1>2. \A p \in Path : Len(p) \in Nat /\ Len(p) > 0
    BY <1>1, EmptySeq, LenProperties
  <1> QED
    BY <1>1, <1>2, FileTreeAssumption

\* The directories on the way to a path, and the one above each of them.
LEMMA PrefixFacts ==
  ASSUME NEW p \in Path, NEW k \in 0 .. Len(p)
  PROVE  /\ k = 0 => SubSeq(p, 1, k) = <<>>
         /\ k > 0 => /\ SubSeq(p, 1, k) \in Path /\ Len(SubSeq(p, 1, k)) = k
                     /\ Above(SubSeq(p, 1, k)) = SubSeq(p, 1, k - 1)
  <1>1. p \in Seq(STRING) /\ Len(p) \in Nat
    BY PathFacts
  <1>2. k = 0 => SubSeq(p, 1, k) = <<>>
    BY <1>1, SubSeqEmpty
  <1>3. ASSUME k > 0
        PROVE  /\ SubSeq(p, 1, k) \in Path /\ Len(SubSeq(p, 1, k)) = k
               /\ Above(SubSeq(p, 1, k)) = SubSeq(p, 1, k - 1)
    <2>1. SubSeq(p, 1, k) \in Path
      BY <1>3, PathFacts
    <2>2. /\ SubSeq(p, 1, k) \in Seq(STRING) /\ Len(SubSeq(p, 1, k)) = k
          /\ \A x \in 1 .. k : SubSeq(p, 1, k)[x] = p[x]
      BY <1>1, SubSeqProperties
    <2>3. /\ SubSeq(SubSeq(p, 1, k), 1, k - 1) \in Seq(STRING)
          /\ Len(SubSeq(SubSeq(p, 1, k), 1, k - 1)) = k - 1
          /\ \A x \in 1 .. k - 1 : SubSeq(SubSeq(p, 1, k), 1, k - 1)[x] = SubSeq(p, 1, k)[x]
      BY <1>3, <2>2, SubSeqProperties
    <2>4. /\ SubSeq(p, 1, k - 1) \in Seq(STRING) /\ Len(SubSeq(p, 1, k - 1)) = k - 1
          /\ \A x \in 1 .. k - 1 : SubSeq(p, 1, k - 1)[x] = p[x]
      BY <1>1, <1>3, SubSeqProperties
    <2>5. SubSeq(SubSeq(p, 1, k), 1, k - 1) = SubSeq(p, 1, k - 1)
      BY <2>2, <2>3, <2>4, SeqEqual
    <2> QED
      BY <2>1, <2>2, <2>5 DEF Above
  <1> QED
    BY <1>2, <1>3

-----------------------------------------------------------------------------
(* The file tree and the calls: types, and which call is where.            *)

LogPC  == {"lock", "level", "text", "newline", "unlock"}
MakePC == {"mkdir", "prepared"}
BindPC == {"unlink", "bind", "listen"}
CallRec == [fn : {"none", "open", "fopen", "recursive_mkdir", "dgram", "stream"},
            path : Path \union {<<>>}, n : Nat, k : Nat]

TreeOK ==
  /\ node \in [Path -> {"none", "dir", "file", "stale"} \union Thread]
  /\ sock \in [Thread -> SockPaths \union {<<>>}] /\ taken \subseteq Path
  /\ at \in [Thread -> {"idle"} \union MakePC \union BindPC \union LogPC]
  /\ call \in [Thread -> CallRec] /\ calls \in [Thread -> 0 .. MaxCalls]
  /\ struck \subseteq Thread

CallOK(t) ==
  /\ at[t] \in {"idle"} \union LogPC => call[t] = NoCall
  /\ at[t] \in MakePC =>
       /\ call[t].fn \in {"open", "fopen", "recursive_mkdir"}
       /\ call[t].path \in OpenPaths \union DirPaths
       /\ call[t].n \in 0 .. Len(call[t].path) /\ call[t].k \in 1 .. call[t].n + 1
  /\ at[t] = "mkdir" => call[t].k <= call[t].n
  /\ at[t] \in BindPC =>
       /\ call[t].fn \in {"dgram", "stream"} /\ call[t].path \in SockPaths
       /\ call[t].n = 0 /\ call[t].k = 1 /\ sock[t] = <<>>

FileInv == TreeOK /\ \A t \in Thread : CallOK(t)

\* A step of one thread leaves the calls of the others alone.
LEMMA CallFrame ==
  ASSUME FileInv, NEW t \in Thread, TreeOK', CallOK(t)',
         \A v \in Thread \ {t} : at'[v] = at[v] /\ call'[v] = call[v] /\ sock'[v] = sock[v]
  PROVE  FileInv'
  <1>1. ASSUME NEW v \in Thread, v # t PROVE CallOK(v)'
    BY <1>1 DEF FileInv, CallOK
  <1> QED
    BY <1>1 DEF FileInv

LEMMA NodeType ==
  ASSUME TreeOK, NEW p \in Path,
         NEW what \in {"none", "dir", "file", "stale"} \union Thread
  PROVE  /\ [node EXCEPT ![p] = what] \in
              [Path -> {"none", "dir", "file", "stale"} \union Thread]
         /\ mkdir(p) \/ open(p) \/ unlink(p) \/ Put(p, what) =>
              node' \in [Path -> {"none", "dir", "file", "stale"} \union Thread]
  BY DEF TreeOK, mkdir, open, unlink, Put

LEMMA NoCallType == NoCall \in CallRec
  BY DEF NoCall, CallRec

\* A call begins.
LEMMA FileCallKeeps ==
  ASSUME FileInv, NEW t \in Thread,
         \/ FileCall(t)
         \/ \E p \in OpenPaths : posixc_prepare_dirs_for(t, "fopen", p)
  PROVE  FileInv'
  <1> USE PathFacts, FileTreeAssumption
  <1>1. ASSUME NEW p \in OpenPaths, NEW fn \in {"open", "fopen"},
               posixc_prepare_dirs_for(t, fn, p)
        PROVE  FileInv'
    <2>1. /\ at[t] = "idle" /\ calls' \in [Thread -> 0 .. MaxCalls]
          /\ at' = [at EXCEPT ![t] = IF IsDir(Above(p)) THEN "prepared" ELSE "mkdir"]
          /\ call' = [call EXCEPT ![t] =
                        [fn |-> fn, path |-> p, n |-> Len(p) - 1, k |-> 1]]
          /\ struck' \subseteq Thread /\ UNCHANGED treeVars
      BY <1>1 DEF posixc_prepare_dirs_for, Calls, Enters, Goto, FileInv, TreeOK
    <2>2. p \in Path /\ Len(p) \in Nat /\ Len(p) > 0
      OBVIOUS
    <2>3. ~IsDir(Above(p)) => Len(p) - 1 >= 1
      BY <2>2, PrefixFacts DEF IsDir, Above
    <2>4. [fn |-> fn, path |-> p, n |-> Len(p) - 1, k |-> 1] \in CallRec
      BY <2>2 DEF CallRec
    <2>5. TreeOK'
      BY <2>1, <2>4 DEF FileInv, TreeOK, treeVars, MakePC
    <2>6. /\ at'[t] = (IF IsDir(Above(p)) THEN "prepared" ELSE "mkdir")
          /\ call'[t] = [fn |-> fn, path |-> p, n |-> Len(p) - 1, k |-> 1]
      BY <2>1 DEF FileInv, TreeOK
    <2>7. CallOK(t)'
      BY <2>2, <2>3, <2>6 DEF CallOK, MakePC, BindPC, LogPC
    <2> QED
      BY <2>1, <2>5, <2>7, CallFrame DEF FileInv, TreeOK, treeVars
  <1>2. ASSUME NEW p \in DirPaths, posixc_recursive_mkdir(t, p)
        PROVE  FileInv'
    <2>1. /\ calls' \in [Thread -> 0 .. MaxCalls]
          /\ at' = [at EXCEPT ![t] = "mkdir"]
          /\ call' = [call EXCEPT ![t] =
                        [fn |-> "recursive_mkdir", path |-> p, n |-> Len(p), k |-> 1]]
          /\ struck' \subseteq Thread /\ UNCHANGED treeVars
      BY <1>2 DEF posixc_recursive_mkdir, Calls, Enters, Goto, FileInv, TreeOK
    <2>2. p \in Path /\ Len(p) \in Nat /\ Len(p) > 0
      OBVIOUS
    <2>3. [fn |-> "recursive_mkdir", path |-> p, n |-> Len(p), k |-> 1] \in CallRec
      BY <2>2 DEF CallRec
    <2>4. TreeOK'
      BY <2>1, <2>3 DEF FileInv, TreeOK, treeVars, MakePC
    <2>5. /\ at'[t] = "mkdir"
          /\ call'[t] = [fn |-> "recursive_mkdir", path |-> p, n |-> Len(p), k |-> 1]
      BY <2>1 DEF FileInv, TreeOK
    <2>6. CallOK(t)'
      BY <2>2, <2>5 DEF CallOK, MakePC, BindPC, LogPC
    <2> QED
      BY <2>1, <2>4, <2>6, CallFrame DEF FileInv, TreeOK, treeVars
  <1>3. ASSUME NEW p \in Path, NEW q \in Path,
               \/ posixc_create_dir(t, p) \/ posixc_delete_dir(t, p)
               \/ posixc_delete_file(t, p) \/ posixc_rename_file(t, p, q)
        PROVE  FileInv'
    <2>1. UNCHANGED <<at, call, sock>> /\ calls' \in [Thread -> 0 .. MaxCalls]
      <3>1. UNCHANGED <<at, call, sock>> /\ Calls(t)
        BY <1>3 DEF posixc_create_dir, posixc_delete_dir, posixc_delete_file,
           posixc_rename_file
      <3> QED
        BY <3>1 DEF Calls, FileInv, TreeOK
    <2>2. struck' \subseteq Thread /\ taken' \subseteq Path
      BY <1>3 DEF posixc_create_dir, posixc_delete_dir, posixc_delete_file,
         posixc_rename_file, FileInv, TreeOK, unlink, OnTheWay
    <2>3. node' \in [Path -> {"none", "dir", "file", "stale"} \union Thread]
      <3>1. CASE posixc_create_dir(t, p)
        BY <3>1, NodeType DEF posixc_create_dir, FileInv
      <3>2. CASE posixc_delete_dir(t, p)
        BY <3>2 DEF posixc_delete_dir, FileInv, TreeOK, Put
      <3>3. CASE posixc_delete_file(t, p)
        BY <3>3, NodeType DEF posixc_delete_file, FileInv
      <3>4. CASE posixc_rename_file(t, p, q)
        BY <3>4 DEF posixc_rename_file, FileInv, TreeOK
      <3> QED
        BY <1>3, <3>1, <3>2, <3>3, <3>4
    <2>4. TreeOK'
      BY <2>1, <2>2, <2>3 DEF FileInv, TreeOK
    <2>5. CallOK(t)'
      BY <2>1 DEF FileInv, CallOK
    <2> QED
      BY <2>1, <2>4, <2>5, CallFrame
  <1>4. ASSUME NEW p \in SockPaths, NEW fn \in {"dgram", "stream"},
               posixc_ipc_socket(t, fn, p)
        PROVE  FileInv'
    <2>1. sock[t] = <<>> /\ calls' \in [Thread -> 0 .. MaxCalls] /\ UNCHANGED treeVars
      BY <1>4 DEF posixc_ipc_socket, Calls, FileInv, TreeOK
    <2>2. CASE UNCHANGED <<at, call, struck>>
      <3>1. TreeOK'
        BY <2>1, <2>2 DEF FileInv, TreeOK, treeVars
      <3>2. CallOK(t)'
        BY <2>1, <2>2 DEF FileInv, CallOK, treeVars
      <3> QED
        BY <2>1, <2>2, <3>1, <3>2, CallFrame DEF treeVars
    <2>3. CASE Enters(t, fn, p, 0, "unlink")
      <3>1. [fn |-> fn, path |-> p, n |-> 0, k |-> 1] \in CallRec
        BY DEF CallRec
      <3>2. TreeOK'
        BY <2>1, <2>3, <3>1 DEF FileInv, TreeOK, treeVars, Enters, Goto, BindPC
      <3>3. at'[t] = "unlink" /\ call'[t] = [fn |-> fn, path |-> p, n |-> 0, k |-> 1]
        BY <2>3 DEF FileInv, TreeOK, Enters, Goto
      <3>4. CallOK(t)'
        BY <2>1, <3>3 DEF CallOK, MakePC, BindPC, LogPC, treeVars
      <3> QED
        BY <2>1, <2>3, <3>2, <3>4, CallFrame DEF FileInv, TreeOK, treeVars, Enters, Goto
    <2> QED
      BY <1>4, <2>2, <2>3 DEF posixc_ipc_socket
  <1> QED
    BY <1>1, <1>2, <1>3, <1>4 DEF FileCall, open_prepared

\* A call goes on.
LEMMA FileStepKeeps ==
  ASSUME FileInv, NEW t \in Thread, FileStep(t)
  PROVE  FileInv'
  <1> USE PathFacts, FileTreeAssumption
  <1>0. CallOK(t) /\ TreeOK
    BY DEF FileInv
  <1>1. CASE mkdir_next(t)
    <2>1. /\ at[t] = "mkdir" /\ call[t].path \in Path
          /\ call[t].n \in 0 .. Len(call[t].path) /\ call[t].k \in 1 .. call[t].n
      BY <1>0, <1>1 DEF mkdir_next, CallOK, MakePC
    <2>2. way(t, call[t].k) \in Path
      BY <2>1, PrefixFacts DEF way
    <2>3. node' \in [Path -> {"none", "dir", "file", "stale"} \union Thread]
      BY <1>0, <1>1, <2>2, NodeType DEF mkdir_next
    <2>4. UNCHANGED <<sock, taken, calls, struck>>
      BY <1>1 DEF mkdir_next
    <2>5. CASE goes_on(t)
      <3>1. call' = [call EXCEPT ![t].k = @ + 1] /\ at' = at
        BY <1>1, <2>5 DEF mkdir_next
      <3>2. call[t] \in CallRec
        BY <1>0 DEF TreeOK
      <3>3. [call[t] EXCEPT !.k = @ + 1] \in CallRec
        BY <3>2 DEF CallRec
      <3>4. call' \in [Thread -> CallRec]
        BY <1>0, <3>1, <3>3 DEF TreeOK
      <3>5. TreeOK'
        BY <1>0, <2>3, <2>4, <3>1, <3>4 DEF TreeOK
      <3>6. call'[t] = [call[t] EXCEPT !.k = @ + 1]
        BY <1>0, <3>1 DEF TreeOK
      <3>7. /\ call'[t].k = call[t].k + 1 /\ call'[t].n = call[t].n
            /\ call'[t].path = call[t].path /\ call'[t].fn = call[t].fn
        BY <3>2, <3>6 DEF CallRec
      <3>8. CallOK(t)'
        BY <1>0, <2>1, <2>5, <3>1, <3>7 DEF CallOK, goes_on, MakePC, BindPC, LogPC
      <3> QED
        BY <1>0, <2>4, <3>1, <3>5, <3>8, CallFrame DEF TreeOK
    <2>6. CASE ~goes_on(t)
      <3>1. call' = call /\ at' = [at EXCEPT ![t] = "prepared"]
        BY <1>1, <2>6 DEF mkdir_next, Goto
      <3>2. TreeOK'
        BY <1>0, <2>3, <2>4, <3>1 DEF TreeOK, MakePC
      <3>3. CallOK(t)'
        BY <1>0, <2>1, <3>1 DEF TreeOK, CallOK, MakePC, BindPC, LogPC
      <3> QED
        BY <1>0, <2>4, <3>1, <3>2, <3>3, CallFrame DEF TreeOK
    <2> QED
      BY <2>5, <2>6
  <1>2. CASE finish(t)
    <2>1. call[t].path \in Path
      BY <1>0, <1>2 DEF finish, CallOK, MakePC
    <2>2. node' \in [Path -> {"none", "dir", "file", "stale"} \union Thread]
      BY <1>0, <1>2, <2>1, NodeType DEF finish, TreeOK
    <2>3. TreeOK' /\ at'[t] = "idle" /\ call'[t] = NoCall
      BY <1>0, <1>2, <2>2, NoCallType DEF finish, Return, Goto, TreeOK
    <2>4. CallOK(t)'
      BY <2>3 DEF CallOK, MakePC, BindPC
    <2> QED
      BY <1>0, <1>2, <2>3, <2>4, CallFrame DEF finish, Return, Goto, TreeOK
  <1>3. CASE set_sockaddr_un(t)
    <2>1. call[t].path \in Path
      BY <1>0, <1>3 DEF set_sockaddr_un, CallOK, BindPC
    <2>2. node' \in [Path -> {"none", "dir", "file", "stale"} \union Thread]
      BY <1>0, <1>3, <2>1, NodeType DEF set_sockaddr_un
    <2>3. struck' \subseteq Thread
      BY <1>0, <1>3 DEF set_sockaddr_un, unlink, OnTheWay, TreeOK
    <2>4. TreeOK' /\ at'[t] = "bind"
      BY <1>0, <1>3, <2>2, <2>3 DEF set_sockaddr_un, Goto, TreeOK, BindPC
    <2>5. CallOK(t)'
      BY <1>0, <1>3, <2>4 DEF set_sockaddr_un, CallOK, MakePC, BindPC, LogPC
    <2> QED
      BY <1>0, <1>3, <2>4, <2>5, CallFrame DEF set_sockaddr_un, Goto, TreeOK
  <1>4. CASE bind(t)
    <2>1. call[t].path \in SockPaths
      BY <1>0, <1>4 DEF bind, CallOK, BindPC
    <2>2. node' \in [Path -> {"none", "dir", "file", "stale"} \union Thread]
      BY <1>0, <1>4, <2>1, NodeType DEF bind, bind_failed, TreeOK, treeVars
    <2>3. /\ sock' \in [Thread -> SockPaths \union {<<>>}] /\ taken' \subseteq Path
          /\ calls' = calls /\ struck' = struck
      BY <1>0, <1>4, <2>1 DEF bind, bind_failed, Served, TreeOK, treeVars
    <2>4. CASE at' = [at EXCEPT ![t] = "idle"] /\ call' = [call EXCEPT ![t] = NoCall]
               /\ \A v \in Thread \ {t} : sock'[v] = sock[v]
      <3>1. TreeOK' /\ at'[t] = "idle" /\ call'[t] = NoCall
        BY <1>0, <2>2, <2>3, <2>4, NoCallType DEF TreeOK
      <3>2. CallOK(t)'
        BY <3>1 DEF CallOK, MakePC, BindPC
      <3> QED
        BY <1>0, <2>4, <3>1, <3>2, CallFrame DEF TreeOK
    <2>5. CASE at' = [at EXCEPT ![t] = "listen"] /\ UNCHANGED <<call, sock>>
      <3>1. TreeOK' /\ at'[t] = "listen"
        BY <1>0, <2>2, <2>3, <2>5 DEF TreeOK, BindPC
      <3>2. CallOK(t)'
        BY <1>0, <1>4, <2>5, <3>1 DEF bind, CallOK, MakePC, BindPC, LogPC
      <3> QED
        BY <1>0, <2>5, <3>1, <3>2, CallFrame DEF TreeOK
    <2> QED
      BY <1>0, <1>4, <2>4, <2>5 DEF bind, bind_failed, Served, Return, Goto, TreeOK, treeVars
  <1>5. CASE listen(t)
    <2>1. call[t].path \in SockPaths
      BY <1>0, <1>5 DEF listen, CallOK, BindPC
    <2>2. node' \in [Path -> {"none", "dir", "file", "stale"} \union Thread]
      BY <1>0, <1>5, <2>1, NodeType DEF listen, TreeOK
    <2>3. /\ sock' \in [Thread -> SockPaths \union {<<>>}] /\ taken' \subseteq Path
          /\ calls' = calls /\ struck' \subseteq Thread
      BY <1>0, <1>5, <2>1 DEF listen, Served, unlink, OnTheWay, TreeOK
    <2>4. /\ at' = [at EXCEPT ![t] = "idle"] /\ call' = [call EXCEPT ![t] = NoCall]
          /\ \A v \in Thread \ {t} : sock'[v] = sock[v]
      BY <1>0, <1>5 DEF listen, Served, Return, Goto, TreeOK
    <2>5. TreeOK' /\ at'[t] = "idle" /\ call'[t] = NoCall
      BY <1>0, <2>2, <2>3, <2>4, NoCallType DEF TreeOK
    <2>6. CallOK(t)'
      BY <2>5 DEF CallOK, MakePC, BindPC
    <2> QED
      BY <1>0, <2>4, <2>5, <2>6, CallFrame DEF TreeOK
  <1> QED
    BY <1>1, <1>2, <1>3, <1>4, <1>5 DEF FileStep

\* The steps of the logger that are none of the file tree.
LEMMA LogKeepsFiles ==
  ASSUME FileInv, NEW t \in Thread,
         \/ \E l \in Loggers :
              \/ \E lowest \in Lowest : log_init_with_std(t, l, lowest)
              \/ \E level \in Levels : posixc_log(t, l, level)
              \/ posixc_log_close(t, l)
         \/ log_lock(t) \/ log_level(t) \/ log_text(t) \/ log_newline(t) \/ log_unlock(t)
  PROVE  FileInv'
  <1>0. CallOK(t) /\ TreeOK
    BY DEF FileInv
  <1>1. /\ UNCHANGED <<treeVars, call, struck>>
        /\ at[t] \in {"idle"} \union LogPC
        /\ \/ Calls(t) /\ at' = at
           \/ Calls(t) /\ at' = [at EXCEPT ![t] = "lock"]
           \/ /\ calls' = calls
              /\ \E to \in {"idle"} \union LogPC : at' = [at EXCEPT ![t] = to]
    <2>1. CASE \E l \in Loggers : \E lowest \in Lowest : log_init_with_std(t, l, lowest)
      BY <2>1 DEF log_init_with_std, Calls
    <2>2. CASE \E l \in Loggers : \E level \in Levels : posixc_log(t, l, level)
      BY <2>2 DEF posixc_log, Calls, Goto
    <2>3. CASE \E l \in Loggers : posixc_log_close(t, l)
      BY <2>3 DEF posixc_log_close, Calls
    <2>4. CASE log_lock(t) \/ log_level(t) \/ log_text(t) \/ log_newline(t) \/ log_unlock(t)
      BY <2>4 DEF log_lock, log_level, log_text, log_newline, log_unlock, InLog, Goto, LogPC
    <2> QED
      BY <2>1, <2>2, <2>3, <2>4
  <1>2. calls' \in [Thread -> 0 .. MaxCalls]
    BY <1>0, <1>1, FileTreeAssumption DEF Calls, TreeOK
  <1>3. /\ at' \in [Thread -> {"idle"} \union MakePC \union BindPC \union LogPC]
        /\ at'[t] \in {"idle"} \union LogPC
        /\ \A v \in Thread \ {t} : at'[v] = at[v]
    BY <1>0, <1>1 DEF TreeOK, LogPC
  <1>4. TreeOK'
    BY <1>0, <1>1, <1>2, <1>3 DEF TreeOK, treeVars
  <1>5. CallOK(t)'
    BY <1>0, <1>1, <1>3 DEF CallOK, MakePC, BindPC, LogPC
  <1> QED
    BY <1>1, <1>3, <1>4, <1>5, CallFrame DEF treeVars

LEMMA FileNext ==
  ASSUME FileInv, [Next]_vars
  PROVE  FileInv'
  <1>1. ASSUME NEW t \in Thread, log_fopen(t) PROVE FileInv'
    <2>0. CallOK(t) /\ TreeOK
      BY DEF FileInv
    <2>1. call[t].path \in Path
      BY <1>1, <2>0, PathFacts DEF log_fopen, CallOK, MakePC
    <2>2. node' \in [Path -> {"none", "dir", "file", "stale"} \union Thread]
      BY <1>1, <2>0, <2>1, NodeType DEF log_fopen
    <2>3. TreeOK' /\ at'[t] = "idle" /\ call'[t] = NoCall
      BY <1>1, <2>0, <2>2, NoCallType DEF log_fopen, Return, Goto, TreeOK
    <2>4. CallOK(t)'
      BY <2>3 DEF CallOK, MakePC, BindPC
    <2> QED
      BY <1>1, <2>0, <2>3, <2>4, CallFrame DEF log_fopen, Return, Goto, TreeOK
  <1>2. ASSUME NEW t \in Thread, server_ends(t) PROVE FileInv'
    <2>0. CallOK(t) /\ TreeOK
      BY DEF FileInv
    <2>1. sock[t] \in Path /\ at[t] = "idle"
      BY <1>2, <2>0, PathFacts DEF server_ends, TreeOK
    <2>2. node' \in [Path -> {"none", "dir", "file", "stale"} \union Thread]
      BY <1>2, <2>0, <2>1, NodeType DEF server_ends, TreeOK
    <2>3. TreeOK'
      BY <1>2, <2>0, <2>1, <2>2 DEF server_ends, callVars, TreeOK
    <2>4. CallOK(t)'
      BY <1>2, <2>0, <2>1 DEF server_ends, callVars, CallOK, MakePC, BindPC
    <2> QED
      BY <1>2, <2>0, <2>3, <2>4, CallFrame DEF server_ends, callVars, TreeOK
  <1>3. ASSUME NEW t \in Thread, NEW l \in Loggers, NEW lowest \in Lowest, NEW p \in OpenPaths,
               posixc_log_init_with_filename(t, l, lowest, p)
        PROVE  FileInv'
    BY <1>3, FileCallKeeps DEF posixc_log_init_with_filename
  <1>4. CASE UNCHANGED vars
    BY <1>4 DEF vars, fileVars, treeVars, callVars, FileInv, TreeOK, CallOK
  <1>5. ASSUME NEW t \in Thread, LogCall(t) PROVE FileInv'
    BY <1>3, <1>5, LogKeepsFiles DEF LogCall
  <1>6. ASSUME NEW t \in Thread, LogStep(t) PROVE FileInv'
    BY <1>1, <1>6, LogKeepsFiles DEF LogStep
  <1>7. ASSUME NEW t \in Thread, FileCall(t) \/ FileStep(t) PROVE FileInv'
    BY <1>7, FileCallKeeps, FileStepKeeps
  <1> QED
    BY <1>2, <1>4, <1>5, <1>6, <1>7 DEF Next, Step

LEMMA FileInitInv == Init => FileInv
  <1> SUFFICES ASSUME Init PROVE FileInv
    OBVIOUS
  <1>1. TreeOK
    BY NoCallType, FileTreeAssumption DEF Init, FileInit, TreeOK
  <1>2. \A t \in Thread : at[t] = "idle" /\ call[t] = NoCall
    BY DEF Init, FileInit
  <1> QED
    BY <1>1, <1>2 DEF FileInv, CallOK, MakePC, BindPC

-----------------------------------------------------------------------------
(* Directories.  Behind the first k - 1 directories on its way a thread     *)
(* makes the next: they are there, unless one was removed, or something    *)
(* that is no directory has a name on the way.                             *)

Blocked(t) == \E k \in 1 .. call[t].n : node[way(t, k)] \notin {"none", "dir"}

WayOK(t) ==
  \/ t \in struck \/ Blocked(t)
  \/ /\ at[t] = "mkdir" => \A m \in 1 .. call[t].k - 1 : node[way(t, m)] = "dir"
     /\ at[t] = "prepared" => IsDir(way(t, call[t].n))

WayInv == \A t \in Thread : WayOK(t)

\* What a step may do to the tree: make names, replace what is no directory, and
\* remove a name when it strikes those who count on it.
TreeStep ==
  \A p \in Path :
    \/ node'[p] = node[p] \/ node[p] = "none"
    \/ node[p] \notin {"none", "dir"} /\ node'[p] \notin {"none", "dir"}
    \/ OnTheWay(p) \subseteq struck'

LEMMA WayNames ==
  ASSUME FileInv, NEW t \in Thread, at[t] \in MakePC
  PROVE  /\ call[t].n \in Nat /\ call[t].k \in Nat
         /\ \A m \in 1 .. call[t].n :
              /\ way(t, m) \in Path /\ t \in OnTheWay(way(t, m))
              /\ Above(way(t, m)) = way(t, m - 1)
         /\ way(t, 0) = <<>>
  <1>1. /\ call[t].path \in Path /\ call[t].n \in 0 .. Len(call[t].path)
        /\ Len(call[t].path) \in Nat /\ call[t].k \in 1 .. call[t].n + 1
    BY PathFacts DEF FileInv, CallOK
  <1>2. at[t] # "idle"
    BY DEF MakePC
  <1>3. ASSUME NEW m \in 1 .. call[t].n
        PROVE  /\ way(t, m) \in Path /\ t \in OnTheWay(way(t, m))
               /\ Above(way(t, m)) = way(t, m - 1)
    <2>1. m \in 0 .. Len(call[t].path) /\ m > 0
      BY <1>1
    <2>2. way(t, m) \in Path /\ Len(way(t, m)) = m /\ Above(way(t, m)) = way(t, m - 1)
      BY <1>1, <2>1, PrefixFacts DEF way
    <2>3. t \in OnTheWay(way(t, m))
      BY <1>1, <1>2, <2>2 DEF OnTheWay
    <2> QED
      BY <2>2, <2>3
  <1> QED
    BY <1>1, <1>3, PrefixFacts DEF way

LEMMA WayFrame ==
  ASSUME FileInv, NEW t \in Thread, WayOK(t), TreeStep,
         at'[t] = at[t], call'[t] = call[t], t \in struck => t \in struck'
  PROVE  WayOK(t)'
  <1>1. CASE at[t] \notin MakePC
    BY <1>1 DEF WayOK, MakePC
  <1>2. CASE at[t] \in MakePC
    <2> SUFFICES ASSUME t \notin struck' PROVE WayOK(t)'
      BY DEF WayOK
    <2>1. /\ call[t].n \in Nat /\ call[t].k \in Nat
          /\ \A m \in 1 .. call[t].n :
               way(t, m) \in Path /\ t \in OnTheWay(way(t, m))
      BY <1>2, WayNames
    <2>2. \A m \in 1 .. call[t].n :
            /\ node[way(t, m)] = "dir" => node'[way(t, m)] = "dir"
            /\ node[way(t, m)] \notin {"none", "dir"} => node'[way(t, m)] \notin {"none", "dir"}
      BY <2>1 DEF TreeStep
    <2>3. \A m : way(t, m)' = way(t, m)
      BY DEF way
    <2>4. CASE Blocked(t)
      BY <2>2, <2>3, <2>4 DEF Blocked, WayOK
    <2>5. CASE ~Blocked(t)
      <3>1. /\ at[t] = "mkdir" => \A m \in 1 .. call[t].k - 1 : node[way(t, m)] = "dir"
            /\ at[t] = "prepared" => IsDir(way(t, call[t].n))
        BY <2>5 DEF WayOK
      <3>2. at[t] = "mkdir" => call[t].k <= call[t].n
        BY DEF FileInv, CallOK
      <3>3. at[t] = "mkdir" => \A m \in 1 .. call[t].k - 1 : node'[way(t, m)] = "dir"
        BY <2>1, <2>2, <3>1, <3>2
      <3>4. at[t] = "prepared" => way(t, call[t].n) = <<>> \/ node'[way(t, call[t].n)] = "dir"
        BY <1>2, <2>1, <2>2, <3>1, WayNames DEF IsDir
      <3> QED
        BY <2>3, <3>3, <3>4 DEF WayOK, IsDir
    <2> QED
      BY <2>4, <2>5
  <1> QED
    BY <1>1, <1>2

\* Every system call is such a step.
LEMMA TreeCalls ==
  ASSUME FileInv, NEW p \in Path
  PROVE  /\ (mkdir(p) \/ open(p) \/ UNCHANGED node => TreeStep)
         /\ unlink(p) => TreeStep
  <1>1. node \in [Path -> {"none", "dir", "file", "stale"} \union Thread]
    BY DEF FileInv, TreeOK
  <1> QED
    BY <1>1 DEF TreeStep, mkdir, open, unlink, CanMake, Put

LEMMA WayNext ==
  ASSUME FileInv, WayInv, [Next]_vars
  PROVE  WayInv'
  <1> DEFINE Others(t) == /\ \A v \in Thread \ {t} : at'[v] = at[v] /\ call'[v] = call[v]
                          /\ struck \ {t} \subseteq struck'
  <1>0. ASSUME NEW t \in Thread, Others(t), TreeStep, WayOK(t)' PROVE WayInv'
    BY <1>0, WayFrame DEF WayInv
  <1>a. ASSUME NEW t \in Thread, Others(t), TreeStep, at'[t] \notin MakePC PROVE WayInv'
    <2>1. WayOK(t)'
      BY <1>a DEF WayOK, MakePC
    <2> QED
      BY <1>0, <1>a, <2>1
  <1> USE DEF Calls, Enters, Return, Goto
  <1>t. TreeOK
    BY DEF FileInv
  <1>1. ASSUME NEW t \in Thread, NEW p \in OpenPaths, NEW fn, posixc_prepare_dirs_for(t, fn, p)
        PROVE  WayInv'
    <2>1. /\ Others(t) /\ UNCHANGED node
          /\ at'[t] = IF IsDir(Above(p)) THEN "prepared" ELSE "mkdir"
          /\ call'[t].path = p /\ call'[t].n = Len(p) - 1 /\ call'[t].k = 1
      BY <1>1, <1>t DEF posixc_prepare_dirs_for, treeVars, TreeOK
    <2>2. IsDir(Above(p)) => IsDir(way(t, call[t].n))'
      BY <2>1 DEF IsDir, way, Above
    <2>3. WayOK(t)'
      BY <2>1, <2>2 DEF WayOK
    <2>4. TreeStep
      BY <2>1 DEF TreeStep
    <2> QED
      BY <1>0, <2>1, <2>3, <2>4
  <1>2. ASSUME NEW t \in Thread, NEW p \in DirPaths, posixc_recursive_mkdir(t, p) PROVE WayInv'
    <2>1. /\ Others(t) /\ UNCHANGED node
          /\ at'[t] = "mkdir" /\ call'[t].k = 1
      BY <1>2, <1>t DEF posixc_recursive_mkdir, treeVars, TreeOK
    <2>2. WayOK(t)'
      BY <2>1 DEF WayOK
    <2>3. TreeStep
      BY <2>1 DEF TreeStep
    <2> QED
      BY <1>0, <2>1, <2>2, <2>3
  <1>3. ASSUME NEW t \in Thread, NEW p \in Path, NEW q \in Path,
               \/ posixc_create_dir(t, p) \/ posixc_delete_dir(t, p)
               \/ posixc_delete_file(t, p) \/ posixc_rename_file(t, p, q)
        PROVE  WayInv'
    <2>1. UNCHANGED <<at, call>> /\ struck \subseteq struck' /\ at[t] = "idle"
      BY <1>3 DEF posixc_create_dir, posixc_delete_dir, posixc_delete_file,
         posixc_rename_file, unlink
    <2>2. TreeStep
      <3>1. CASE posixc_create_dir(t, p)
        BY <3>1, TreeCalls DEF posixc_create_dir
      <3>2. CASE posixc_delete_dir(t, p)
        BY <1>t, <3>2 DEF posixc_delete_dir, TreeStep, TreeOK, Put
      <3>3. CASE posixc_delete_file(t, p)
        BY <3>3, TreeCalls DEF posixc_delete_file
      <3>4. CASE posixc_rename_file(t, p, q)
        BY <1>t, <3>4 DEF posixc_rename_file, TreeStep, TreeOK
      <3> QED
        BY <1>3, <3>1, <3>2, <3>3, <3>4
    <2> QED
      BY <1>a, <2>1, <2>2 DEF MakePC
  <1>4. ASSUME NEW t \in Thread, NEW p \in SockPaths, NEW fn, posixc_ipc_socket(t, fn, p)
        PROVE  WayInv'
    <2>1. Others(t) /\ UNCHANGED node /\ at'[t] \notin MakePC
      BY <1>4, <1>t DEF posixc_ipc_socket, treeVars, TreeOK, MakePC
    <2>2. TreeStep
      BY <2>1 DEF TreeStep
    <2> QED
      BY <1>a, <2>1, <2>2
  <1>5. ASSUME NEW t \in Thread, mkdir_next(t) PROVE WayInv'
    <2>1. /\ at[t] = "mkdir" /\ struck' = struck /\ mkdir(way(t, call[t].k))
          /\ \A v \in Thread \ {t} : at'[v] = at[v] /\ call'[v] = call[v]
          /\ call'[t].path = call[t].path /\ call'[t].n = call[t].n
          /\ \/ at'[t] = "mkdir" /\ call'[t].k = call[t].k + 1
             \/ at'[t] = "prepared" /\ ~(call[t].k < call[t].n)
      BY <1>5, <1>t DEF mkdir_next, goes_on, TreeOK, CallRec
    <2>2. /\ call[t].n \in Nat /\ call[t].k \in 1 .. call[t].n
          /\ \A m \in 1 .. call[t].n :
               way(t, m) \in Path /\ Above(way(t, m)) = way(t, m - 1)
          /\ way(t, 0) = <<>>
      BY <2>1, WayNames DEF FileInv, CallOK, MakePC
    <2>3. TreeStep
      BY <2>1, <2>2, TreeCalls
    <2>4. \A m : way(t, m)' = way(t, m)
      BY <2>1 DEF way
    <2> SUFFICES WayOK(t)'
      BY <1>0, <2>1, <2>3
    <2>5. CASE t \in struck
      BY <2>1, <2>5 DEF WayOK
    <2>6. CASE Blocked(t)
      <3>1. \A p \in Path : node[p] # "none" => node'[p] = node[p]
        BY <1>t, <2>1, <2>2 DEF mkdir, CanMake, Put, TreeOK
      <3> QED
        BY <2>1, <2>2, <2>4, <2>6, <3>1 DEF Blocked, WayOK
    <2>7. CASE t \notin struck /\ ~Blocked(t)
      <3>1. \A m \in 1 .. call[t].k - 1 : node[way(t, m)] = "dir"
        BY <2>1, <2>7 DEF WayInv, WayOK
      <3>2. PICK d \in Path : d = way(t, call[t].k)
        BY <2>2
      <3>3. IsDir(Above(d))
        <4>1. CASE call[t].k = 1
          BY <2>2, <3>2, <4>1 DEF IsDir
        <4>2. CASE call[t].k > 1
          BY <2>2, <3>1, <3>2, <4>2 DEF IsDir
        <4> QED
          BY <2>2, <4>1, <4>2
      <3>4. node[d] \in {"none", "dir"}
        BY <2>2, <2>7, <3>2 DEF Blocked
      <3>5. node'[d] = "dir" /\ \A p \in Path \ {d} : node'[p] = node[p]
        BY <1>t, <2>1, <3>2, <3>3, <3>4 DEF mkdir, CanMake, Put, TreeOK
      <3>6. \A m \in 1 .. call[t].k : node'[way(t, m)] = "dir"
        <4> SUFFICES ASSUME NEW m \in 1 .. call[t].k PROVE node'[way(t, m)] = "dir"
          OBVIOUS
        <4>1. CASE m = call[t].k
          BY <3>2, <3>5, <4>1
        <4>2. CASE m < call[t].k
          BY <2>2, <3>1, <3>5, <4>2
        <4> QED
          BY <2>2, <4>1, <4>2
      <3>7. at'[t] = "mkdir" => \A m \in 1 .. call'[t].k - 1 : node'[way(t, m)] = "dir"
        BY <2>1, <2>2, <3>6
      <3>8. at'[t] = "prepared" => node'[way(t, call'[t].n)] = "dir"
        BY <2>1, <2>2, <3>6
      <3> QED
        BY <2>4, <3>7, <3>8 DEF WayOK, IsDir
    <2> QED
      BY <2>5, <2>6, <2>7
  <1>6. ASSUME NEW t \in Thread, finish(t) \/ log_fopen(t) PROVE WayInv'
    <2>1. Others(t) /\ at'[t] \notin MakePC
      BY <1>6, <1>t DEF finish, log_fopen, TreeOK, MakePC
    <2>2. call[t].path \in Path /\ (open(call[t].path) \/ UNCHANGED node)
      BY <1>6, PathFacts DEF finish, log_fopen, FileInv, CallOK, MakePC
    <2> QED
      BY <1>a, <2>1, <2>2, TreeCalls
  <1>7. ASSUME NEW t \in Thread, set_sockaddr_un(t) \/ listen(t) PROVE WayInv'
    <2>1. Others(t) /\ at'[t] \notin MakePC
      BY <1>7, <1>t DEF set_sockaddr_un, listen, Served, unlink, TreeOK, MakePC
    <2>2. call[t].path \in Path /\ (unlink(call[t].path) \/ UNCHANGED node)
      BY <1>7, PathFacts DEF set_sockaddr_un, listen, FileInv, CallOK, BindPC
    <2> QED
      BY <1>a, <2>1, <2>2, TreeCalls
  <1>8. ASSUME NEW t \in Thread, bind(t) PROVE WayInv'
    <2>1. Others(t) /\ at'[t] \notin MakePC
      BY <1>8, <1>t DEF bind, bind_failed, Served, TreeOK, MakePC
    <2>2. TreeStep
      BY <1>8, <1>t DEF bind, bind_failed, treeVars, CanMake, Put, TreeStep, TreeOK
    <2> QED
      BY <1>a, <2>1, <2>2
  <1>9. ASSUME NEW t \in Thread, server_ends(t) PROVE WayInv'
    <2>1. UNCHANGED <<at, call, struck>> /\ at[t] = "idle"
      BY <1>9 DEF server_ends, callVars
    <2>2. TreeStep
      BY <1>9, <1>t, FileTreeAssumption DEF server_ends, Put, TreeStep, TreeOK
    <2> QED
      BY <1>a, <2>1, <2>2 DEF MakePC
  <1>10. ASSUME NEW t \in Thread,
                \/ \E l \in Loggers :
                     \/ \E lowest \in Lowest : log_init_with_std(t, l, lowest)
                     \/ \E level \in Levels : posixc_log(t, l, level)
                     \/ posixc_log_close(t, l)
                \/ log_lock(t) \/ log_level(t) \/ log_text(t) \/ log_newline(t) \/ log_unlock(t)
         PROVE  WayInv'
    <2>1. Others(t) /\ at'[t] \notin MakePC /\ UNCHANGED node
      <3>1. CASE \E l \in Loggers :
                   \/ \E lowest \in Lowest : log_init_with_std(t, l, lowest)
                   \/ \E level \in Levels : posixc_log(t, l, level)
                   \/ posixc_log_close(t, l)
        BY <1>t, <3>1 DEF log_init_with_std, posixc_log, posixc_log_close, treeVars,
           TreeOK, MakePC
      <3>2. CASE log_lock(t) \/ log_level(t) \/ log_text(t) \/ log_newline(t) \/ log_unlock(t)
        BY <1>t, <3>2 DEF log_lock, log_level, log_text, log_newline, log_unlock, InLog,
           treeVars, TreeOK, MakePC
      <3> QED
        BY <1>10, <3>1, <3>2
    <2>2. TreeStep
      BY <2>1 DEF TreeStep
    <2> QED
      BY <1>a, <2>1, <2>2
  <1>11. CASE UNCHANGED vars
    BY <1>11 DEF vars, fileVars, treeVars, callVars, WayInv, WayOK, Blocked, way, IsDir
  <1>12. ASSUME NEW t \in Thread, FileCall(t) PROVE WayInv'
    BY <1>1, <1>2, <1>3, <1>4, <1>12, PathFacts DEF FileCall, open_prepared
  <1>13. ASSUME NEW t \in Thread, LogCall(t) PROVE WayInv'
    BY <1>1, <1>10, <1>13 DEF LogCall, posixc_log_init_with_filename
  <1>14. ASSUME NEW t \in Thread, Step(t) PROVE WayInv'
    BY <1>5, <1>6, <1>7, <1>8, <1>10, <1>14 DEF Step, FileStep, LogStep
  <1> QED
    BY <1>9, <1>11, <1>12, <1>13, <1>14 DEF Next

\* Whatever other threads create meanwhile: when posixc_prepare_dirs_for or
\* posixc_recursive_mkdir is through, the directory is there, unless one on the way
\* was removed or something that is no directory has its name.
THEOREM DirsPrepared == Spec => []Prepared
  <1>1. Init => WayInv
    BY DEF Init, FileInit, WayInv, WayOK
  <1>2. WayInv => Prepared
    BY DEF WayInv, WayOK, Blocked, Prepared
  <1> QED
    BY <1>1, <1>2, FileInitInv, FileNext, WayNext, PTL DEF Spec

-----------------------------------------------------------------------------
(* Servers.  The program keeps its sockets apart from its files: no socket *)
(* has the name of a file or of a directory it creates, or of one on the   *)
(* way there, and the directory of a socket is none it deletes.            *)

SocketsApart ==
  \A p \in SockPaths :
    /\ \A q \in OpenPaths \union DirPaths : \A k \in 1 .. Len(q) : SubSeq(q, 1, k) # p
    /\ Above(p) \notin DirPaths

Bound(t, p) == sock[t] = p \/ (at[t] = "listen" /\ call[t].path = p)
Binding(t, p) == at[t] = "bind" /\ call[t].path = p

\* A path that was not taken away is bound, or about to be bound again, for as long
\* as a server counts on it.
ServeInv ==
  /\ \A p \in Path, t \in Thread : node[p] = t => p \in SockPaths /\ Bound(t, p)
  /\ \A p \in SockPaths \ taken : node[p] \in {"none"} \union Thread
  /\ \A p \in SockPaths, t \in Thread : Bound(t, p) => IsDir(Above(p))
  /\ \A p \in SockPaths \ taken, t \in Thread :
       Bound(t, p) => node[p] \in Thread \/ \E v \in Thread : Binding(v, p)

LEMMA AboveSock ==
  ASSUME NEW p \in SockPaths
  PROVE  p \in Path /\ (Above(p) = <<>> \/ Above(p) \in Path)
  <1>1. p \in Path /\ Len(p) \in Nat /\ Len(p) > 0
    BY PathFacts
  <1>2. PICK k \in Nat : k = Len(p) - 1
    BY <1>1
  <1>3. k \in 0 .. Len(p) /\ (k = 0 \/ k > 0)
    BY <1>1, <1>2
  <1>4. SubSeq(p, 1, k) = <<>> \/ SubSeq(p, 1, k) \in Path
    BY <1>1, <1>3, PrefixFacts
  <1> QED
    BY <1>1, <1>2, <1>4 DEF Above

\* Directories above a socket stay.
DirsStay ==
  \A p \in Path : node[p] = "dir" /\ p \notin DirPaths => node'[p] = "dir"

\* A step that is not about binding: it takes names away, or leaves them alone.
LEMMA ServeFrame ==
  ASSUME FileInv, ServeInv, UNCHANGED sock, taken \subseteq taken', DirsStay, SocketsApart,
         \A t \in Thread, p \in SockPaths :
           /\ Bound(t, p)' <=> Bound(t, p)
           /\ Binding(t, p) => Binding(t, p)',
         \A p \in SockPaths : node'[p] = node[p] \/ (p \in taken' /\ node'[p] \notin Thread),
         \A p \in Path \ SockPaths : node'[p] \notin Thread
  PROVE  ServeInv'
  <1>1. \A p \in Path, t \in Thread : node'[p] = t => p \in SockPaths /\ Bound(t, p)'
    BY PathFacts DEF ServeInv
  <1>2. \A p \in SockPaths \ taken' : node'[p] \in {"none"} \union Thread
    BY DEF ServeInv
  <1>3. ASSUME NEW p \in SockPaths, NEW t \in Thread, Bound(t, p)' PROVE IsDir(Above(p))'
    <2>1. IsDir(Above(p))
      BY <1>3 DEF ServeInv
    <2> QED
      BY <2>1, AboveSock DEF IsDir, DirsStay, SocketsApart
  <1>4. ASSUME NEW p \in SockPaths \ taken', NEW t \in Thread, Bound(t, p)'
        PROVE  node'[p] \in Thread \/ \E v \in Thread : Binding(v, p)'
    BY <1>4 DEF ServeInv
  <1> QED
    BY <1>1, <1>2, <1>3, <1>4 DEF ServeInv

\* The names that calls of the file tree make or remove are no sockets.
LEMMA MadeApart ==
  ASSUME SocketsApart
  PROVE  /\ (OpenPaths \union DirPaths) \intersect SockPaths = {}
         /\ \A t \in Thread : FileInv /\ at[t] \in MakePC =>
              /\ call[t].path \in Path \ SockPaths
              /\ \A k \in 1 .. call[t].n : way(t, k) \in Path \ SockPaths
  <1>1. (OpenPaths \union DirPaths) \intersect SockPaths = {}
    BY FileTreeAssumption
  <1>2. ASSUME NEW t \in Thread, FileInv, at[t] \in MakePC
        PROVE  /\ call[t].path \in Path \ SockPaths
               /\ \A k \in 1 .. call[t].n : way(t, k) \in Path \ SockPaths
    <2>1. /\ call[t].path \in OpenPaths \union DirPaths
          /\ call[t].n \in 0 .. Len(call[t].path) /\ Len(call[t].path) \in Nat
      BY <1>2, PathFacts DEF FileInv, CallOK
    <2>2. \A k \in 1 .. call[t].n : way(t, k) \in Path
      BY <1>2, WayNames
    <2>3. ASSUME NEW k \in 1 .. call[t].n, way(t, k) \in SockPaths PROVE FALSE
      <3>1. k \in 1 .. Len(call[t].path)
        BY <2>1
      <3> QED
        BY <2>1, <2>3, <3>1 DEF SocketsApart, way
    <2> QED
      BY <1>1, <2>1, <2>2, <2>3, PathFacts
  <1> QED
    BY <1>1, <1>2

\* Nobody is a directory, and where no socket is, none is moved to.
LEMMA ServeTree ==
  ASSUME FileInv, ServeInv
  PROVE  /\ \A p \in Path \ SockPaths : node[p] \notin Thread
         /\ \A p \in Path : mkdir(p) \/ open(p) \/ unlink(p) \/ UNCHANGED node =>
              /\ DirsStay
              /\ \A q \in Path \ {p} : node'[q] = node[q]
              /\ node'[p] = node[p] \/ node'[p] \notin Thread
         /\ \A p \in Path : unlink(p) => node'[p] \in {"none", "dir"}
  <1>1. node \in [Path -> {"none", "dir", "file", "stale"} \union Thread]
    BY DEF FileInv, TreeOK
  <1>2. \A p \in Path \ SockPaths : node[p] \notin Thread
    BY DEF ServeInv
  <1>3. ASSUME NEW p \in Path, mkdir(p) \/ open(p) \/ unlink(p) \/ UNCHANGED node
        PROVE  /\ DirsStay
               /\ \A q \in Path \ {p} : node'[q] = node[q]
               /\ node'[p] = node[p] \/ node'[p] \notin Thread
    BY <1>1, <1>3, FileTreeAssumption DEF DirsStay, mkdir, open, unlink, CanMake, CanUnlink, Put
  <1>4. ASSUME NEW p \in Path, unlink(p) PROVE node'[p] \in {"none", "dir"}
    BY <1>1, <1>4 DEF unlink, CanUnlink, Put
  <1> QED
    BY <1>2, <1>3, <1>4

LEMMA ServeFiles ==
  ASSUME FileInv, ServeInv, SocketsApart, [Next]_vars,
         ~ \E t \in Thread : set_sockaddr_un(t) \/ bind(t) \/ listen(t) \/ server_ends(t)
  PROVE  ServeInv'
  <1> DEFINE Quiet == /\ UNCHANGED sock /\ taken \subseteq taken'
                      /\ \A t \in Thread, p \in SockPaths :
                           /\ Bound(t, p)' <=> Bound(t, p)
                           /\ Binding(t, p) => Binding(t, p)'
  <1>0. /\ TreeOK /\ OpenPaths \subseteq Path /\ DirPaths \subseteq Path
        /\ SockPaths \subseteq Path
    BY PathFacts DEF FileInv
  <1>a. ASSUME NEW t \in Thread, UNCHANGED sock, taken \subseteq taken',
               \A v \in Thread \ {t} : at'[v] = at[v] /\ call'[v] = call[v],
               \/ at'[t] = at[t] /\ call'[t] = call[t]
               \/ at[t] \notin {"bind", "listen"} /\ at'[t] \notin {"bind", "listen"}
        PROVE  Quiet
    BY <1>a DEF Bound, Binding
  <1>b. ASSUME Quiet, NEW p \in Path \ SockPaths, mkdir(p) \/ open(p) \/ UNCHANGED node
        PROVE  ServeInv'
    BY <1>0, <1>b, ServeTree, ServeFrame
  <1> USE DEF Calls, Enters, Return, Goto
  <1>1. ASSUME NEW t \in Thread, NEW p \in OpenPaths \union DirPaths, NEW fn,
               \/ posixc_prepare_dirs_for(t, fn, p) \/ posixc_recursive_mkdir(t, p)
               \/ posixc_create_dir(t, p)
        PROVE  ServeInv'
    <2>1. Quiet
      BY <1>0, <1>1, <1>a DEF posixc_prepare_dirs_for, posixc_recursive_mkdir,
         posixc_create_dir, treeVars, TreeOK
    <2>2. p \in Path \ SockPaths
      BY <1>0, MadeApart
    <2>3. mkdir(p) \/ UNCHANGED node
      BY <1>1 DEF posixc_prepare_dirs_for, posixc_recursive_mkdir, posixc_create_dir, treeVars
    <2> QED
      BY <1>b, <2>1, <2>2, <2>3
  <1>2. ASSUME NEW t \in Thread, NEW p \in DirPaths, posixc_delete_dir(t, p) PROVE ServeInv'
    <2>1. Quiet
      BY <1>2, <1>a DEF posixc_delete_dir
    <2>2. p \in Path \ SockPaths
      BY <1>0, MadeApart
    <2>3. DirsStay /\ node'[p] \notin Thread /\ \A q \in Path \ {p} : node'[q] = node[q]
      BY <1>0, <1>2, <2>2, ServeTree, FileTreeAssumption
         DEF posixc_delete_dir, DirsStay, Put, TreeOK
    <2> QED
      BY <1>0, <2>1, <2>2, <2>3, ServeTree, ServeFrame
  <1>3. ASSUME NEW t \in Thread, NEW p \in OpenPaths \union SockPaths, posixc_delete_file(t, p)
        PROVE  ServeInv'
    <2>1. Quiet
      BY <1>3, <1>a DEF posixc_delete_file
    <2>2. p \in Path /\ unlink(p) /\ p \in taken'
      BY <1>0, <1>3 DEF posixc_delete_file
    <2>3. /\ DirsStay /\ node'[p] \notin Thread
          /\ \A q \in Path \ {p} : node'[q] = node[q]
      BY <2>2, ServeTree, FileTreeAssumption
    <2> QED
      BY <1>0, <2>1, <2>2, <2>3, ServeTree, ServeFrame
  <1>4. ASSUME NEW t \in Thread, NEW p \in OpenPaths, NEW q \in OpenPaths,
               posixc_rename_file(t, p, q)
        PROVE  ServeInv'
    <2>1. Quiet
      BY <1>4, <1>a DEF posixc_rename_file
    <2>2. p \in Path \ SockPaths /\ q \in Path \ SockPaths
      BY <1>0, MadeApart
    <2>3. node[p] \notin Thread /\ node[q] \notin Thread
      BY <2>2, ServeTree
    <2>4. /\ DirsStay /\ node'[p] \notin Thread /\ node'[q] \notin Thread
          /\ \A x \in Path \ {p, q} : node'[x] = node[x]
      BY <1>0, <1>4, <2>2, <2>3, FileTreeAssumption
         DEF posixc_rename_file, CanUnlink, DirsStay, TreeOK
    <2> QED
      BY <1>0, <2>1, <2>2, <2>4, ServeTree, ServeFrame
  <1>5. ASSUME NEW t \in Thread, NEW p \in SockPaths, NEW fn, posixc_ipc_socket(t, fn, p)
        PROVE  ServeInv'
    <2>1. Quiet
      BY <1>0, <1>5, <1>a DEF posixc_ipc_socket, treeVars, TreeOK
    <2>2. DirsStay /\ UNCHANGED node
      BY <1>5 DEF posixc_ipc_socket, treeVars, DirsStay
    <2> QED
      BY <2>1, <2>2, ServeTree, ServeFrame
  <1>6. ASSUME NEW t \in Thread, mkdir_next(t) \/ finish(t) \/ log_fopen(t) PROVE ServeInv'
    <2>1. Quiet
      BY <1>0, <1>6, <1>a DEF mkdir_next, finish, log_fopen, TreeOK
    <2>2. at[t] \in MakePC
      BY <1>6 DEF mkdir_next, finish, log_fopen, MakePC
    <2>3. at[t] = "mkdir" => call[t].k \in 1 .. call[t].n
      BY DEF FileInv, CallOK, MakePC
    <2>4. PICK p \in Path \ SockPaths : mkdir(p) \/ open(p) \/ UNCHANGED node
      BY <1>6, <2>2, <2>3, MadeApart DEF mkdir_next, finish, log_fopen
    <2> QED
      BY <1>b, <2>1, <2>4
  <1>7. ASSUME NEW t \in Thread,
                \/ \E l \in Loggers :
                     \/ \E lowest \in Lowest : log_init_with_std(t, l, lowest)
                     \/ \E level \in Levels : posixc_log(t, l, level)
                     \/ posixc_log_close(t, l)
                \/ log_lock(t) \/ log_level(t) \/ log_text(t) \/ log_newline(t) \/ log_unlock(t)
         PROVE  ServeInv'
    <2>1. Quiet /\ UNCHANGED node
      <3>1. CASE \E l \in Loggers :
                   \/ \E lowest \in Lowest : log_init_with_std(t, l, lowest)
                   \/ \E level \in Levels : posixc_log(t, l, level)
                   \/ posixc_log_close(t, l)
        BY <1>0, <1>a, <3>1, SMTT(30) DEF log_init_with_std, posixc_log, posixc_log_close, treeVars, TreeOK
      <3>2. CASE log_lock(t) \/ log_level(t) \/ log_text(t) \/ log_newline(t) \/ log_unlock(t)
        <4>1. PICK x \in LogPC, y \in {"idle"} \union LogPC : InLog(t, x, y)
          BY <3>2 DEF log_lock, log_level, log_text, log_newline, log_unlock, LogPC
        <4>2. /\ \A v \in Thread \ {t} : at'[v] = at[v]
              /\ at[t] \notin {"bind", "listen"} /\ at'[t] \notin {"bind", "listen"}
          BY <1>0, <4>1 DEF InLog, TreeOK, LogPC
        <4>3. UNCHANGED <<node, sock, taken, call>>
          BY <4>1 DEF InLog, treeVars
        <4> QED
          BY <1>a, <4>2, <4>3
      <3> QED
        BY <1>7, <3>1, <3>2
    <2>2. DirsStay
      BY <2>1 DEF DirsStay
    <2> QED
      BY <2>1, <2>2, ServeTree, ServeFrame
  <1>8. CASE UNCHANGED vars
    BY <1>8 DEF vars, fileVars, treeVars, callVars, ServeInv, Bound, Binding, IsDir
  <1>9. ASSUME NEW t \in Thread, FileCall(t) PROVE ServeInv'
    BY <1>1, <1>2, <1>3, <1>4, <1>5, <1>9 DEF FileCall, open_prepared
  <1>10. ASSUME NEW t \in Thread, LogCall(t) PROVE ServeInv'
    BY <1>1, <1>7, <1>10 DEF LogCall, posixc_log_init_with_filename
  <1>11. ASSUME NEW t \in Thread, Step(t) PROVE ServeInv'
    BY <1>6, <1>7, <1>11 DEF Step, FileStep, LogStep
  <1> QED
    BY <1>8, <1>9, <1>10, <1>11 DEF Next

\* The steps that bind: a name is removed just before its path is bound again;
\* where nobody else has it, a failed bind() leaves it taken.
LEMMA ServeBinds ==
  ASSUME FileInv, ServeInv, SocketsApart, NEW t \in Thread,
         set_sockaddr_un(t) \/ bind(t) \/ listen(t) \/ server_ends(t)
  PROVE  ServeInv'
  <1>p. PICK p : p = call[t].path
    OBVIOUS
  <1>0. /\ TreeOK /\ CallOK(t) /\ SockPaths \subseteq Path
        /\ node \in [Path -> {"none", "dir", "file", "stale"} \union Thread]
        /\ <<>> \notin Path
    BY PathFacts DEF FileInv, TreeOK
  <1>d. ASSUME NEW q \in SockPaths, IsDir(Above(q)), DirsStay PROVE IsDir(Above(q))'
    BY <1>d, AboveSock DEF IsDir, DirsStay, SocketsApart
  <1>n. p \in Path /\ CanMake(p) /\ Put(p, t) => ~ UNCHANGED node
    BY <1>0, FileTreeAssumption DEF CanMake, Put
  <1>1. CASE set_sockaddr_un(t)
    <2>1. /\ p \in SockPaths /\ at[t] = "unlink" /\ unlink(p) /\ UNCHANGED <<sock, taken, call>>
          /\ at' = [at EXCEPT ![t] = "bind"]
      BY <1>0, <1>p, <1>1 DEF set_sockaddr_un, Goto, CallOK, BindPC
    <2>2. /\ DirsStay /\ node'[p] \in {"none", "dir"}
          /\ \A q \in Path \ {p} : node'[q] = node[q]
      BY <1>0, <2>1, ServeTree
    <2>3. /\ Binding(t, p)'
          /\ \A v \in Thread, q \in SockPaths :
               /\ Bound(v, q)' <=> Bound(v, q)
               /\ Binding(v, q) => Binding(v, q)'
      BY <1>0, <1>p, <2>1 DEF TreeOK, Bound, Binding
    <2>4. p \notin taken => node'[p] = "none"
      BY <1>0, <2>1, FileTreeAssumption DEF ServeInv, unlink, CanUnlink, Put
    <2>5. \A q \in Path, v \in Thread : node'[q] = v => q \in SockPaths /\ Bound(v, q)'
      BY <1>0, <2>2, <2>3, FileTreeAssumption DEF ServeInv
    <2>6. \A q \in SockPaths \ taken' : node'[q] \in {"none"} \union Thread
      BY <1>0, <2>1, <2>2, <2>4 DEF ServeInv
    <2>7. \A q \in SockPaths, v \in Thread : Bound(v, q)' => IsDir(Above(q))'
      BY <1>d, <2>2, <2>3 DEF ServeInv
    <2>8. \A q \in SockPaths \ taken', v \in Thread :
            Bound(v, q)' => node'[q] \in Thread \/ \E u \in Thread : Binding(u, q)'
      BY <1>0, <2>1, <2>2, <2>3 DEF ServeInv
    <2> QED
      BY <2>5, <2>6, <2>7, <2>8 DEF ServeInv
  <1>2. CASE bind(t) /\ CanMake(p) /\ Put(p, t)
    <2>1. /\ p \in SockPaths /\ at[t] = "bind" /\ sock[t] = <<>>
          /\ node' = [node EXCEPT ![p] = t] /\ taken' = taken \ {p}
          /\ node[p] = "none" /\ IsDir(Above(p))
      BY <1>0, <1>p, <1>2, <1>n DEF bind, bind_failed, CallOK, BindPC, CanMake, Put
    <2>2. /\ Bound(t, p)' /\ ~\E q \in SockPaths : Bound(t, q)
          /\ \A q \in SockPaths \ {p} : ~Bound(t, q)'
          /\ \A v \in Thread \ {t}, q \in SockPaths :
               /\ Bound(v, q)' <=> Bound(v, q)
               /\ Binding(v, q)' <=> Binding(v, q)
      <3>1. /\ \A v \in Thread \ {t} : sock'[v] = sock[v] /\ at'[v] = at[v] /\ call'[v] = call[v]
            /\ \/ sock'[t] = p /\ at'[t] = "idle"
               \/ sock'[t] = <<>> /\ at'[t] = "listen" /\ call'[t] = call[t]
        BY <1>0, <1>p, <1>2, <1>n, <2>1 DEF bind, bind_failed, Served, Return, Goto, TreeOK
      <3> QED
        BY <1>0, <1>p, <2>1, <3>1 DEF Bound, Binding
    <2>3. DirsStay /\ \A q \in Path \ {p} : node'[q] = node[q]
      BY <1>0, <2>1 DEF DirsStay
    <2>4. \A q \in Path, v \in Thread : node'[q] = v => q \in SockPaths /\ Bound(v, q)'
      BY <1>0, <2>1, <2>2, <2>3 DEF ServeInv
    <2>5. \A q \in SockPaths \ taken' : node'[q] \in {"none"} \union Thread
      BY <1>0, <2>1, <2>3 DEF ServeInv
    <2>6. \A q \in SockPaths, v \in Thread : Bound(v, q)' => IsDir(Above(q))'
      BY <1>d, <2>1, <2>2, <2>3 DEF ServeInv
    <2>7. ASSUME NEW q \in SockPaths \ taken', NEW v \in Thread, Bound(v, q)'
          PROVE  node'[q] \in Thread \/ \E u \in Thread : Binding(u, q)'
      <3>1. CASE q = p
        BY <1>0, <2>1, <3>1
      <3>2. CASE q # p
        <4>1. v # t /\ Bound(v, q) /\ q \notin taken
          BY <2>1, <2>2, <2>7, <3>2
        <4>2. \A u \in Thread : Binding(u, q) => u # t
          BY <1>p, <3>2 DEF Binding
        <4> QED
          BY <1>0, <2>2, <2>3, <3>2, <4>1, <4>2 DEF ServeInv
      <3> QED
        BY <3>1, <3>2
    <2> QED
      BY <2>4, <2>5, <2>6, <2>7 DEF ServeInv
  <1>3. CASE bind(t) /\ bind_failed(t) /\
             taken' = IF CanMake(p) THEN taken \union {p} ELSE taken
    <2>1. /\ p \in SockPaths /\ at[t] = "bind" /\ sock[t] = <<>> /\ UNCHANGED <<node, sock>>
          /\ at' = [at EXCEPT ![t] = "idle"] /\ call' = [call EXCEPT ![t] = NoCall]
      BY <1>0, <1>p, <1>3 DEF bind, bind_failed, Return, Goto, CallOK, BindPC
    <2>2. \A v \in Thread, q \in SockPaths :
            /\ Bound(v, q)' <=> Bound(v, q)
            /\ Binding(v, q) /\ q # p => Binding(v, q)'
      BY <1>0, <1>p, <2>1 DEF TreeOK, Bound, Binding
    <2>3. /\ taken \subseteq taken'
          /\ \A v \in Thread : p \notin taken' /\ Bound(v, p) => node[p] \in Thread
      BY <1>3, <2>1 DEF ServeInv, CanMake
    <2>4. DirsStay
      BY <2>1 DEF DirsStay
    <2>5. \A q \in SockPaths, v \in Thread : Bound(v, q)' => IsDir(Above(q))'
      BY <1>d, <2>2, <2>4 DEF ServeInv
    <2>6. ASSUME NEW q \in SockPaths \ taken', NEW v \in Thread, Bound(v, q)'
          PROVE  node'[q] \in Thread \/ \E u \in Thread : Binding(u, q)'
      BY <2>1, <2>2, <2>3, <2>6 DEF ServeInv
    <2>7. \A q \in Path, v \in Thread : node'[q] = v => q \in SockPaths /\ Bound(v, q)'
      BY <2>1, <2>2 DEF ServeInv
    <2>8. \A q \in SockPaths \ taken' : node'[q] \in {"none"} \union Thread
      BY <2>1, <2>3 DEF ServeInv
    <2> QED
      BY <2>5, <2>6, <2>7, <2>8 DEF ServeInv
  <1>4. CASE listen(t) /\ Served(t) /\ UNCHANGED <<node, taken, struck>>
    <2>1. /\ p \in SockPaths /\ at[t] = "listen" /\ sock[t] = <<>>
          /\ sock' = [sock EXCEPT ![t] = p]
          /\ at' = [at EXCEPT ![t] = "idle"] /\ call' = [call EXCEPT ![t] = NoCall]
      BY <1>0, <1>p, <1>4 DEF listen, Served, Return, Goto, CallOK, BindPC
    <2>2. \A v \in Thread, q \in SockPaths :
            (Bound(v, q)' <=> Bound(v, q)) /\ (Binding(v, q) => Binding(v, q)')
      BY <1>0, <1>p, <2>1 DEF TreeOK, Bound, Binding
    <2>3. DirsStay
      BY <1>4 DEF DirsStay
    <2>4. \A q \in SockPaths, v \in Thread : Bound(v, q)' => IsDir(Above(q))'
      BY <1>d, <2>2, <2>3 DEF ServeInv
    <2> QED
      BY <1>4, <2>2, <2>4 DEF ServeInv
  <1>5. ASSUME NEW q \in SockPaths,
               taken' = taken \union {q} \/ (taken' = taken /\ node'[q] = node[q]),
               \A x \in SockPaths : Bound(t, x) => x = q,
               \A v \in Thread \ {t} : sock'[v] = sock[v] /\ at'[v] = at[v] /\ call'[v] = call[v],
               sock'[t] = <<>>, at[t] # "bind", at'[t] = "idle",
               \A x \in Path \ {q} : node'[x] = node[x],
               node'[q] = node[q] \/ node'[q] \notin Thread \union {"dir"}, node'[q] # t,
               node[q] # "dir" \/ node'[q] = node[q]
        PROVE  ServeInv'
    <2>1. /\ \A v \in Thread \ {t}, x \in SockPaths : Bound(v, x)' <=> Bound(v, x)
          /\ \A x \in SockPaths : ~Bound(t, x)'
          /\ \A v \in Thread, x \in SockPaths : Binding(v, x) => Binding(v, x)'
      BY <1>0, <1>5 DEF Bound, Binding
    <2>2. DirsStay
      BY <1>5 DEF DirsStay
    <2>3. \A x \in Path, v \in Thread : node'[x] = v => x \in SockPaths /\ Bound(v, x)'
      BY <1>5, <2>1 DEF ServeInv
    <2>4. \A x \in SockPaths \ taken' : node'[x] \in {"none"} \union Thread
      BY <1>0, <1>5 DEF ServeInv
    <2>5. \A x \in SockPaths, v \in Thread : Bound(v, x)' => IsDir(Above(x))'
      BY <1>d, <2>1, <2>2 DEF ServeInv
    <2>6. ASSUME NEW x \in SockPaths \ taken', NEW v \in Thread, Bound(v, x)'
          PROVE  node'[x] \in Thread \/ \E u \in Thread : Binding(u, x)'
      <3>1. v # t /\ Bound(v, x) /\ x \notin taken /\ node'[x] = node[x]
        BY <1>0, <1>5, <2>1, <2>6
      <3> QED
        BY <2>1, <3>1 DEF ServeInv
    <2> QED
      BY <2>3, <2>4, <2>5, <2>6 DEF ServeInv
  <1>6. CASE listen(t) /\ unlink(p) /\ taken' = taken \union {p} /\ Return(t) /\ UNCHANGED sock
    <2>1. /\ p \in SockPaths /\ at[t] = "listen" /\ sock[t] = <<>>
          /\ at' = [at EXCEPT ![t] = "idle"] /\ call' = [call EXCEPT ![t] = NoCall]
      BY <1>0, <1>p, <1>6 DEF listen, Return, Goto, CallOK, BindPC
    <2>2. \A x \in SockPaths : Bound(t, x) => x = p
      BY <1>0, <1>p, <2>1 DEF Bound
    <2>3. /\ \A v \in Thread \ {t} : sock'[v] = sock[v] /\ at'[v] = at[v] /\ call'[v] = call[v]
          /\ sock'[t] = <<>> /\ at'[t] = "idle"
      BY <1>0, <1>6, <2>1 DEF TreeOK
    <2>4. /\ \A x \in Path \ {p} : node'[x] = node[x]
          /\ node'[p] = node[p] \/ node'[p] \notin Thread \union {"dir"}
          /\ node'[p] # t /\ (node[p] # "dir" \/ node'[p] = node[p])
      BY <1>0, <1>6, <2>1, FileTreeAssumption DEF unlink, CanUnlink, Put
    <2> QED
      BY <1>5, <1>6, <2>1, <2>2, <2>3, <2>4
  <1>7. CASE server_ends(t)
    <2>1. PICK q \in SockPaths : q = sock[t]
      BY <1>0, <1>7 DEF server_ends, TreeOK
    <2>2. /\ at[t] = "idle" /\ UNCHANGED <<at, call>>
          /\ taken' = taken \union {q} \/ (taken' = taken /\ node'[q] = node[q])
          /\ sock' = [sock EXCEPT ![t] = <<>>]
      BY <1>7, <2>1 DEF server_ends, callVars
    <2>3. \A x \in SockPaths : Bound(t, x) => x = q
      BY <2>1, <2>2 DEF Bound
    <2>4. /\ \A v \in Thread \ {t} : sock'[v] = sock[v] /\ at'[v] = at[v] /\ call'[v] = call[v]
          /\ sock'[t] = <<>> /\ at'[t] = "idle"
      BY <1>0, <2>2 DEF TreeOK
    <2>5. /\ \A x \in Path \ {q} : node'[x] = node[x]
          /\ node'[q] = node[q] \/ node'[q] \notin Thread \union {"dir"}
          /\ node'[q] # t /\ (node[q] # "dir" \/ node'[q] = node[q])
      BY <1>0, <1>7, <2>1, FileTreeAssumption DEF server_ends, Put
    <2> QED
      BY <1>5, <2>2, <2>3, <2>4, <2>5
  <1> QED
    BY <1>p, <1>1, <1>2, <1>3, <1>4, <1>6, <1>7 DEF listen, bind

\* Servers that start at once take a path from each other, and still: once all calls
\* for it are over, a path that a server was given, and that nobody deleted, names
\* the socket of a server that runs.
THEOREM ServersReached == SocketsApart => (Spec => []SomeoneServes)
  <1> SUFFICES ASSUME SocketsApart PROVE Spec => []SomeoneServes
    OBVIOUS
  <1>1. Init => ServeInv
    BY PathFacts, FileTreeAssumption DEF Init, FileInit, ServeInv, Bound
  <1>2. FileInv /\ ServeInv => SomeoneServes
    <2>1. SUFFICES ASSUME FileInv, ServeInv, NEW p \in SockPaths \ taken,
                          \E t \in Thread : sock[t] = p,
                          \A t \in Thread : at[t] # "idle" => call[t].path # p
                   PROVE  \E t \in Thread : node[p] = t /\ sock[t] = p
      BY DEF SomeoneServes
    <2>2. ~\E v \in Thread : Binding(v, p) \/ (at[v] = "listen" /\ call[v].path = p)
      BY <2>1 DEF Binding
    <2> QED
      BY <2>1, <2>2, PathFacts DEF ServeInv, Bound
  <1>3. FileInv /\ ServeInv /\ [Next]_vars => ServeInv'
    BY ServeFiles, ServeBinds
  <1> QED
    BY <1>1, <1>2, <1>3, FileInitInv, FileNext, PTL DEF Spec

-----------------------------------------------------------------------------
(* Loggers: types, and which logger a call is about.                       *)

LogRec == [file : {"unset", "NULL"} \union FILE, lowest : 0 .. 5, works : BOOLEAN,
           is : {"new", "up", "closed"}]
Part == {"level", "text", "newline"}

LogTyped ==
  /\ logger \in [Loggers -> LogRec] /\ holder \in [Loggers -> Thread \union {"nobody"}]
  /\ job \in [Thread -> [log : Loggers \union {"none"}, level : 0 .. 5]]
  /\ out \in [FILE -> Seq(Thread \X (0 .. MaxCalls) \X Part)]

LogOK(l) ==
  /\ logger[l].is = "new" => logger[l].file = "unset"
  /\ logger[l].is # "new" => logger[l].file \in {"NULL", "std", l}

\* A call that logs is about a logger with a FILE; one that opens a file, about a
\* logger that no other call is about; and no other call is about one.
JobOK(t) ==
  /\ at[t] \in LogPC =>
       /\ job[t].log \in Loggers /\ logger[job[t].log].is # "new"
       /\ logger[job[t].log].file \in {"std", job[t].log}
  /\ call[t].fn = "fopen" =>
       /\ job[t].log \in Loggers /\ logger[job[t].log].is = "new"
       /\ \A v \in Thread \ {t} : job[v].log # job[t].log
  /\ at[t] \notin LogPC /\ call[t].fn # "fopen" => job[t] = NoJob

JobInv == LogTyped /\ (\A l \in Loggers : LogOK(l)) /\ \A t \in Thread : JobOK(t)

-----------------------------------------------------------------------------
(* What a step does to the loggers.                                        *)

Apart(t) ==
  \A v \in Thread \ {t} :
    at'[v] = at[v] /\ call'[v] = call[v] /\ calls'[v] = calls[v] /\ job'[v] = job[v]

Unrelated(t) ==
  /\ Apart(t) /\ UNCHANGED logVars /\ at[t] \notin LogPC /\ at'[t] \notin LogPC
  /\ call'[t].fn = "fopen" <=> call[t].fn = "fopen"

SetsUp(t, l) ==
  /\ Apart(t) /\ logger[l].is = "new" /\ UNCHANGED <<holder, out>>
  /\ \A v \in Thread \ {t} : job[v].log # l
  /\ at[t] \notin LogPC /\ at'[t] = "idle" /\ call'[t] = NoCall
  /\ job' = [job EXCEPT ![t] = NoJob]
  /\ \E r \in LogRec : r.is = "up" /\ r.file \in {"NULL", "std", l}
                       /\ logger' = [logger EXCEPT ![l] = r]

Chooses(t, l) ==
  /\ Apart(t) /\ logger[l].is = "new" /\ UNCHANGED <<logger, holder, out>>
  /\ \A v \in Thread : job[v].log # l
  /\ at[t] = "idle" /\ at'[t] \in MakePC /\ call'[t].fn = "fopen"
  /\ \E lowest \in 0 .. 5 : job' = [job EXCEPT ![t] = [log |-> l, level |-> lowest]]

Closes(t, l) ==
  /\ Apart(t) /\ at[t] = "idle" /\ at' = at /\ call' = call /\ job' = job
  /\ logger[l].is = "up" /\ UNCHANGED <<holder, out>>
  /\ \A v \in Thread : job[v].log # l
  /\ logger' = [logger EXCEPT ![l].is = "closed"]

Logs(t, l) ==
  /\ Apart(t) /\ at[t] = "idle" /\ at'[t] = "lock" /\ call' = call
  /\ logger[l].is = "up" /\ logger[l].file # "NULL" /\ UNCHANGED <<logger, holder, out>>
  /\ \E level \in 0 .. 5 : job' = [job EXCEPT ![t] = [log |-> l, level |-> level]]

\* A step inside of log().
Inside == {"level", "text", "newline", "unlock"}
Goes(t, from, to) ==
  /\ Apart(t) /\ at[t] = from /\ at'[t] = to /\ UNCHANGED <<call, calls, logger>>

Locks(t) ==
  /\ Goes(t, "lock", "level") /\ job' = job /\ out' = out
  /\ LET l == job[t].log IN
     IF logger[l].works THEN holder[l] = "nobody" /\ holder' = [holder EXCEPT ![l] = t]
                        ELSE holder' = holder

Prints(t, from, to) ==
  /\ Goes(t, from, to) /\ UNCHANGED <<holder, job>>
  /\ out' = [out EXCEPT ![logger[job[t].log].file] = Append(@, <<t, calls[t], from>>)]

Unlocks(t) ==
  /\ Goes(t, "unlock", "idle") /\ out' = out
  /\ holder' = [holder EXCEPT ![job[t].log] = "nobody"]
  /\ job' = [job EXCEPT ![t] = NoJob]

LogWork(t) ==
  \/ Locks(t) \/ Unlocks(t)
  \/ Prints(t, "level", "text") \/ Prints(t, "text", "newline")
  \/ Prints(t, "newline", "unlock")
  \/ Goes(t, "level", "text") /\ UNCHANGED <<holder, job, out>>

LEMMA FileUnrelated ==
  ASSUME FileInv, NEW t \in Thread, UNCHANGED logVars,
         FileCall(t) \/ server_ends(t) \/ FileStep(t)
  PROVE  Unrelated(t)
  <1>0. TreeOK /\ CallOK(t)
    BY DEF FileInv
  <1>1. job' = job
    BY DEF logVars
  <1>2. call[t] \in CallRec
    BY <1>0 DEF TreeOK
  <1> SUFFICES /\ \A v \in Thread \ {t} :
                    at'[v] = at[v] /\ call'[v] = call[v] /\ calls'[v] = calls[v]
               /\ at[t] \notin LogPC /\ at'[t] \notin LogPC
               /\ call'[t].fn = "fopen" <=> call[t].fn = "fopen"
    BY <1>1 DEF Unrelated, Apart
  <1>i. at[t] = "idle" => at[t] \notin LogPC /\ call[t].fn = "none"
    BY <1>0 DEF CallOK, LogPC, NoCall
  <1>3. ASSUME NEW p, NEW fn, NEW n, NEW l, Calls(t), Enters(t, fn, p, n, l),
               fn # "fopen", l \notin LogPC
        PROVE  /\ \A v \in Thread \ {t} :
                    at'[v] = at[v] /\ call'[v] = call[v] /\ calls'[v] = calls[v]
               /\ at[t] \notin LogPC /\ at'[t] \notin LogPC
               /\ call'[t].fn = "fopen" <=> call[t].fn = "fopen"
    BY <1>0, <1>i, <1>3 DEF Calls, Enters, Goto, TreeOK
  <1>4. ASSUME Calls(t), UNCHANGED <<at, call>>
        PROVE  /\ \A v \in Thread \ {t} :
                    at'[v] = at[v] /\ call'[v] = call[v] /\ calls'[v] = calls[v]
               /\ at[t] \notin LogPC /\ at'[t] \notin LogPC
               /\ call'[t].fn = "fopen" <=> call[t].fn = "fopen"
    BY <1>0, <1>i, <1>4 DEF Calls, TreeOK
  <1>5. CASE FileCall(t)
    <2>1. ASSUME NEW p, open_prepared(t, p)
          PROVE  \E n, l : Calls(t) /\ Enters(t, "open", p, n, l) /\ l \notin LogPC
      <3>1. PICK l : l = IF IsDir(Above(p)) THEN "prepared" ELSE "mkdir"
        OBVIOUS
      <3> QED
        BY <2>1, <3>1 DEF open_prepared, posixc_prepare_dirs_for, LogPC
    <2>2. ASSUME NEW p, posixc_recursive_mkdir(t, p)
          PROVE  \E n, l : Calls(t) /\ Enters(t, "recursive_mkdir", p, n, l) /\ l \notin LogPC
      BY <2>2 DEF posixc_recursive_mkdir, LogPC
    <2>3. ASSUME NEW p, NEW q, \/ posixc_create_dir(t, p) \/ posixc_delete_dir(t, p)
                               \/ posixc_delete_file(t, p) \/ posixc_rename_file(t, p, q)
          PROVE  Calls(t) /\ UNCHANGED <<at, call>>
      BY <2>3 DEF posixc_create_dir, posixc_delete_dir, posixc_delete_file, posixc_rename_file
    <2>4. ASSUME NEW p, NEW fn \in {"dgram", "stream"}, posixc_ipc_socket(t, fn, p)
          PROVE  \/ Calls(t) /\ UNCHANGED <<at, call>>
                 \/ \E n, l : Calls(t) /\ Enters(t, fn, p, n, l) /\ l \notin LogPC
      BY <2>4 DEF posixc_ipc_socket, LogPC
    <2> QED
      BY <1>3, <1>4, <1>5, <2>1, <2>2, <2>3, <2>4 DEF FileCall
  <1>6. CASE server_ends(t)
    BY <1>i, <1>6 DEF server_ends, callVars
  <1>7. CASE mkdir_next(t)
    BY <1>0, <1>2, <1>7 DEF mkdir_next, Goto, TreeOK, CallRec, LogPC
  <1>8. CASE finish(t) \/ set_sockaddr_un(t) \/ bind(t) \/ listen(t)
    BY <1>0, <1>8 DEF finish, set_sockaddr_un, bind, bind_failed, listen, Served, Return, Goto,
       TreeOK, CallOK, LogPC, BindPC, NoCall
  <1> QED
    BY <1>5, <1>6, <1>7, <1>8 DEF FileStep

\* Every step is one of these.
LEMMA LogSteps ==
  ASSUME FileInv, JobInv, Next
  PROVE  \E t \in Thread :
           \/ Unrelated(t) \/ LogWork(t)
           \/ \E l \in Loggers : SetsUp(t, l) \/ Chooses(t, l) \/ Closes(t, l) \/ Logs(t, l)
  <1>1. PICK t \in Thread : \/ (FileCall(t) \/ server_ends(t)) /\ UNCHANGED logVars
                            \/ LogCall(t) \/ Step(t)
    BY DEF Next
  <1>0. TreeOK /\ CallOK(t) /\ JobOK(t) /\ LogTyped
    BY DEF FileInv, JobInv
  <1>i. at[t] = "idle" => at[t] \notin LogPC /\ call[t] = NoCall /\ job[t] = NoJob
    BY <1>0 DEF CallOK, JobOK, LogPC, NoCall
  <1>2. CASE (FileCall(t) \/ server_ends(t) \/ FileStep(t)) /\ UNCHANGED logVars
    BY <1>2, FileUnrelated
  <1>3. ASSUME NEW l \in Loggers, NEW lowest \in Lowest, log_init_with_std(t, l, lowest)
        PROVE  SetsUp(t, l)
    <2>1. /\ at[t] = "idle" /\ Fresh(l) /\ UNCHANGED <<at, call, holder, job, out>>
          /\ calls' = [calls EXCEPT ![t] = @ + 1] /\ posixc_log_init(l, lowest, "std")
      BY <1>3 DEF log_init_with_std, Calls
    <2>2. PICK works \in BOOLEAN :
            logger' = [logger EXCEPT ![l] =
                         [file |-> "std", lowest |-> lowest, works |-> works, is |-> "up"]]
      BY <2>1 DEF posixc_log_init
    <2>3. [file |-> "std", lowest |-> lowest, works |-> works, is |-> "up"] \in LogRec
      BY LoggerAssumption DEF LogRec, FILE
    <2>4. job' = [job EXCEPT ![t] = NoJob]
      BY <1>0, <1>i, <2>1 DEF LogTyped
    <2>5. Apart(t)
      BY <1>0, <2>1 DEF Apart, TreeOK
    <2> QED
      BY <1>i, <2>1, <2>2, <2>3, <2>4, <2>5 DEF SetsUp, Fresh
  <1>4. ASSUME NEW l \in Loggers, NEW lowest \in Lowest, NEW p \in OpenPaths,
               posixc_log_init_with_filename(t, l, lowest, p)
        PROVE  Chooses(t, l)
    <2>1. /\ at[t] = "idle" /\ Fresh(l) /\ UNCHANGED <<logger, holder, out>>
          /\ calls' = [calls EXCEPT ![t] = @ + 1]
          /\ at' = [at EXCEPT ![t] = IF IsDir(Above(p)) THEN "prepared" ELSE "mkdir"]
          /\ call' = [call EXCEPT ![t] =
                        [fn |-> "fopen", path |-> p, n |-> Len(p) - 1, k |-> 1]]
          /\ job' = [job EXCEPT ![t] = [log |-> l, level |-> lowest]]
      BY <1>4 DEF posixc_log_init_with_filename, posixc_prepare_dirs_for, Calls, Enters, Goto
    <2>2. /\ Apart(t) /\ at'[t] \in MakePC /\ call'[t].fn = "fopen"
      BY <1>0, <2>1 DEF Apart, TreeOK, LogTyped, MakePC
    <2>3. lowest \in 0 .. 5
      BY LoggerAssumption
    <2> QED
      BY <2>1, <2>2, <2>3 DEF Chooses, Fresh
  <1>5. ASSUME NEW l \in Loggers, NEW level \in Levels, posixc_log(t, l, level)
        PROVE  Unrelated(t) \/ Logs(t, l)
    <2>1. /\ at[t] = "idle" /\ logger[l].is = "up" /\ calls' = [calls EXCEPT ![t] = @ + 1]
          /\ UNCHANGED <<call, logger, holder, out>>
      BY <1>5 DEF posixc_log, Calls
    <2>2. CASE at' = at /\ job' = job
      BY <1>0, <1>i, <2>1, <2>2 DEF Unrelated, Apart, logVars, TreeOK
    <2>3. CASE /\ logger[l].file # "NULL" /\ at' = [at EXCEPT ![t] = "lock"]
               /\ job' = [job EXCEPT ![t] = [log |-> l, level |-> level]]
      <3>1. level \in 0 .. 5
        BY LoggerAssumption
      <3>2. Apart(t) /\ at'[t] = "lock"
        BY <1>0, <2>1, <2>3 DEF Apart, TreeOK, LogTyped
      <3> QED
        BY <2>1, <2>3, <3>1, <3>2 DEF Logs
    <2> QED
      BY <1>5, <2>2, <2>3 DEF posixc_log, Goto
  <1>6. ASSUME NEW l \in Loggers, posixc_log_close(t, l) PROVE Closes(t, l)
    BY <1>0, <1>6 DEF posixc_log_close, Calls, Closes, Apart, TreeOK
  <1>7. ASSUME log_fopen(t) PROVE \E l \in Loggers : SetsUp(t, l)
    <2>1. /\ at[t] = "prepared" /\ call[t].fn = "fopen"
          /\ UNCHANGED <<calls, holder, out>>
          /\ at' = [at EXCEPT ![t] = "idle"] /\ call' = [call EXCEPT ![t] = NoCall]
          /\ job' = [job EXCEPT ![t] = NoJob]
      BY <1>7 DEF log_fopen, Return, Goto
    <2>2. PICK l \in Loggers : l = job[t].log
      BY <1>0, <2>1 DEF JobOK
    <2>3. logger[l].is = "new" /\ \A v \in Thread \ {t} : job[v].log # l
      BY <1>0, <2>1, <2>2 DEF JobOK
    <2>4. PICK works \in BOOLEAN, file \in {"NULL", l} :
            logger' = [logger EXCEPT ![l] =
                         [file |-> file, lowest |-> job[t].level, works |-> works, is |-> "up"]]
      BY <1>7, <2>2 DEF log_fopen, posixc_log_init
    <2>5. [file |-> file, lowest |-> job[t].level, works |-> works, is |-> "up"] \in LogRec
      BY <1>0 DEF LogRec, FILE, LogTyped
    <2>6. Apart(t) /\ at'[t] = "idle" /\ call'[t] = NoCall
      BY <1>0, <2>1 DEF Apart, TreeOK, LogTyped
    <2>7. at[t] \notin LogPC
      BY <2>1 DEF LogPC
    <2> QED
      BY <2>1, <2>3, <2>4, <2>5, <2>6, <2>7 DEF SetsUp
  <1>8. ASSUME log_lock(t) \/ log_level(t) \/ log_text(t) \/ log_newline(t) \/ log_unlock(t)
        PROVE  LogWork(t)
    <2>1. ASSUME NEW from, NEW to, InLog(t, from, to),
                 job' = job \/ job' = [job EXCEPT ![t] = NoJob]
          PROVE  Goes(t, from, to)
      BY <1>0, <2>1 DEF InLog, Goto, Goes, Apart, TreeOK, LogTyped
    <2>2. CASE log_lock(t)
      BY <2>1, <2>2 DEF log_lock, LogWork, Locks
    <2>3. CASE log_level(t)
      BY <2>1, <2>3 DEF log_level, LogWork, Prints, fprintf
    <2>4. CASE log_text(t)
      BY <2>1, <2>4 DEF log_text, LogWork, Prints, fprintf
    <2>5. CASE log_newline(t)
      BY <2>1, <2>5 DEF log_newline, LogWork, Prints, fprintf
    <2>6. CASE log_unlock(t)
      BY <2>1, <2>6 DEF log_unlock, LogWork, Unlocks
    <2> QED
      BY <1>8, <2>2, <2>3, <2>4, <2>5, <2>6
  <1> QED
    BY <1>1, <1>2, <1>3, <1>4, <1>5, <1>6, <1>7, <1>8 DEF LogCall, Step, LogStep

LEMMA NoJobFacts ==
  /\ NoJob.log = "none" /\ "none" \notin Loggers
  /\ NoJob \in [log : Loggers \union {"none"}, level : 0 .. 5]
  BY LoggerAssumption DEF NoJob

LEMMA JobNext ==
  ASSUME FileInv, JobInv, Next
  PROVE  JobInv'
  <1>0. LogTyped /\ TreeOK
    BY DEF JobInv, FileInv
  <1>1. PICK t \in Thread :
          \/ Unrelated(t) \/ LogWork(t)
          \/ \E l \in Loggers : SetsUp(t, l) \/ Chooses(t, l) \/ Closes(t, l) \/ Logs(t, l)
    BY LogSteps
  <1>2. CASE Unrelated(t)
    <2>1. LogTyped' /\ \A l \in Loggers : LogOK(l)'
      BY <1>0, <1>2 DEF JobInv, Unrelated, logVars, LogTyped, LogOK
    <2>2. \A v \in Thread : JobOK(v)'
      BY <1>2 DEF JobInv, Unrelated, Apart, logVars, JobOK
    <2> QED
      BY <2>1, <2>2 DEF JobInv
  <1>3. ASSUME NEW l \in Loggers, SetsUp(t, l) PROVE JobInv'
    <2>1. PICK r \in LogRec : /\ r.is = "up" /\ r.file \in {"NULL", "std", l}
                              /\ logger' = [logger EXCEPT ![l] = r]
      BY <1>3 DEF SetsUp
    <2>2. LogTyped'
      BY <1>0, <1>3, <2>1, NoJobFacts DEF SetsUp, LogTyped
    <2>3. \A m \in Loggers : LogOK(m)'
      BY <1>0, <2>1 DEF JobInv, LogOK, LogTyped
    <2>4. job'[t] = NoJob /\ call'[t].fn # "fopen" /\ at'[t] \notin LogPC
      BY <1>0, <1>3 DEF SetsUp, LogTyped, NoCall, LogPC
    <2>5. JobOK(t)'
      BY <2>4 DEF JobOK
    <2>6. ASSUME NEW v \in Thread, v # t PROVE JobOK(v)'
      <3>1. /\ at'[v] = at[v] /\ call'[v] = call[v] /\ job'[v] = job[v] /\ job[v].log # l
        BY <1>3, <2>6 DEF SetsUp, Apart
      <3>2. job[v].log \in Loggers => logger'[job[v].log] = logger[job[v].log]
        BY <1>0, <2>1, <3>1 DEF LogTyped
      <3>3. \A u \in Thread : job'[u].log = job[u].log \/ job'[u].log = "none"
        BY <1>3, <2>4, NoJobFacts DEF SetsUp, Apart
      <3> QED
        BY <3>1, <3>2, <3>3, NoJobFacts DEF JobInv, JobOK
    <2> QED
      BY <2>2, <2>3, <2>5, <2>6 DEF JobInv
  <1>4. ASSUME NEW l \in Loggers, Chooses(t, l) PROVE JobInv'
    <2>1. PICK lowest \in 0 .. 5 : job' = [job EXCEPT ![t] = [log |-> l, level |-> lowest]]
      BY <1>4 DEF Chooses
    <2>2. [log |-> l, level |-> lowest] \in [log : Loggers \union {"none"}, level : 0 .. 5]
      OBVIOUS
    <2>3. LogTyped' /\ \A m \in Loggers : LogOK(m)'
      BY <1>0, <1>4, <2>1, <2>2 DEF JobInv, Chooses, LogTyped, LogOK
    <2>4. job'[t].log = l /\ call'[t].fn = "fopen" /\ at'[t] \notin LogPC
      BY <1>0, <1>4, <2>1 DEF Chooses, LogTyped, MakePC, LogPC
    <2>5. JobOK(t)'
      BY <1>4, <2>4 DEF JobOK, Chooses, Apart
    <2>6. ASSUME NEW v \in Thread, v # t PROVE JobOK(v)'
      <3>1. /\ at'[v] = at[v] /\ call'[v] = call[v] /\ job'[v] = job[v] /\ job[v].log # l
        BY <1>4, <2>6 DEF Chooses, Apart
      <3>2. \A u \in Thread : job'[u].log = job[u].log \/ job'[u].log = l
        BY <1>4, <2>4 DEF Chooses, Apart
      <3> QED
        BY <1>4, <3>1, <3>2 DEF JobInv, JobOK, Chooses
    <2> QED
      BY <2>3, <2>5, <2>6 DEF JobInv
  <1>5. ASSUME NEW l \in Loggers, Closes(t, l) PROVE JobInv'
    <2>1. /\ logger[l] \in LogRec /\ logger' = [logger EXCEPT ![l].is = "closed"]
          /\ logger[l].is = "up" /\ UNCHANGED <<at, call, job, holder, out>>
          /\ \A v \in Thread : job[v].log # l
      BY <1>0, <1>5 DEF Closes, LogTyped
    <2>2. [logger[l] EXCEPT !.is = "closed"] \in LogRec
      BY <2>1 DEF LogRec
    <2>3. LogTyped'
      BY <1>0, <2>1, <2>2 DEF LogTyped
    <2>4. /\ \A m \in Loggers \ {l} : logger'[m] = logger[m]
          /\ logger'[l].file = logger[l].file /\ logger'[l].is = "closed"
      BY <1>0, <2>1 DEF LogTyped, LogRec
    <2>5. \A m \in Loggers : LogOK(m)'
      BY <2>1, <2>4 DEF JobInv, LogOK
    <2>6. \A v \in Thread : JobOK(v)'
      BY <2>1, <2>4 DEF JobInv, JobOK
    <2> QED
      BY <2>3, <2>5, <2>6 DEF JobInv
  <1>6. ASSUME NEW l \in Loggers, Logs(t, l) PROVE JobInv'
    <2>1. PICK level \in 0 .. 5 : job' = [job EXCEPT ![t] = [log |-> l, level |-> level]]
      BY <1>6 DEF Logs
    <2>2. [log |-> l, level |-> level] \in [log : Loggers \union {"none"}, level : 0 .. 5]
      OBVIOUS
    <2>3. LogTyped' /\ \A m \in Loggers : LogOK(m)'
      BY <1>0, <1>6, <2>1, <2>2 DEF JobInv, Logs, LogTyped, LogOK
    <2>4. /\ job'[t].log = l /\ at'[t] = "lock" /\ call'[t] = NoCall
          /\ logger'[l].is = "up" /\ logger'[l].file \in {"std", l}
      <3>1. call[t] = NoCall
        BY <1>6 DEF Logs, FileInv, CallOK
      <3> QED
        BY <1>0, <1>6, <2>1, <3>1 DEF JobInv, Logs, LogTyped, LogOK
    <2>5. JobOK(t)'
      BY <2>4 DEF JobOK, LogPC, NoCall
    <2>6. ASSUME NEW v \in Thread, v # t PROVE JobOK(v)'
      <3>1. /\ at'[v] = at[v] /\ call'[v] = call[v] /\ job'[v] = job[v] /\ logger' = logger
            /\ logger[l].is = "up"
        BY <1>6, <2>6 DEF Logs, Apart
      <3>2. \A u \in Thread : job'[u].log = job[u].log \/ job'[u].log = l
        BY <1>6, <2>4 DEF Logs, Apart
      <3> QED
        BY <3>1, <3>2 DEF JobInv, JobOK
    <2> QED
      BY <2>3, <2>5, <2>6 DEF JobInv
  <1>7. CASE LogWork(t)
    <2>1. /\ Apart(t) /\ at[t] \in LogPC /\ UNCHANGED <<call, logger>>
          /\ \/ at'[t] \in LogPC /\ job' = job
             \/ at'[t] = "idle" /\ job' = [job EXCEPT ![t] = NoJob]
      BY <1>7 DEF LogWork, Locks, Unlocks, Prints, Goes, LogPC
    <2>2. call[t] = NoCall /\ job[t].log \in Loggers /\ logger[job[t].log].file \in FILE
      BY <2>1 DEF FileInv, CallOK, JobInv, JobOK, FILE
    <2>3. holder' \in [Loggers -> Thread \union {"nobody"}]
      BY <1>0, <1>7, <2>2 DEF LogWork, Locks, Unlocks, Prints, LogTyped
    <2>4. out' \in [FILE -> Seq(Thread \X (0 .. MaxCalls) \X Part)]
      <3>1. CASE out' = out
        BY <1>0, <3>1 DEF LogTyped
      <3>2. ASSUME NEW from \in Part, NEW to, Prints(t, from, to)
            PROVE  out' \in [FILE -> Seq(Thread \X (0 .. MaxCalls) \X Part)]
        <4>1. <<t, calls[t], from>> \in Thread \X (0 .. MaxCalls) \X Part
          BY <1>0 DEF TreeOK
        <4>2. PICK f \in FILE : f = logger[job[t].log].file
          BY <2>2
        <4>3. out[f] \in Seq(Thread \X (0 .. MaxCalls) \X Part)
          BY <1>0 DEF LogTyped
        <4>4. Append(out[f], <<t, calls[t], from>>) \in Seq(Thread \X (0 .. MaxCalls) \X Part)
          BY <4>1, <4>3, AppendProperties
        <4>5. out' = [out EXCEPT ![f] = Append(out[f], <<t, calls[t], from>>)]
          BY <3>2, <4>2 DEF Prints
        <4> QED
          BY <1>0, <4>4, <4>5 DEF LogTyped
      <3> QED
        BY <1>7, <3>1, <3>2 DEF LogWork, Locks, Unlocks, Part
    <2>5. LogTyped'
      BY <1>0, <2>1, <2>3, <2>4, NoJobFacts, ZenonT(30) DEF LogTyped
    <2>6. \A m \in Loggers : LogOK(m)'
      BY <2>1 DEF JobInv, LogOK
    <2>7. JobOK(t)'
      BY <1>0, <2>1, <2>2 DEF JobInv, JobOK, LogTyped, NoCall, LogPC
    <2>8. ASSUME NEW v \in Thread, v # t PROVE JobOK(v)'
      <3>1. /\ at'[v] = at[v] /\ call'[v] = call[v] /\ job'[v] = job[v]
        BY <2>1, <2>8 DEF Apart
      <3>2. \A u \in Thread : job'[u].log = job[u].log \/ job'[u].log = "none"
        BY <1>0, <2>1, NoJobFacts DEF LogTyped
      <3> QED
        BY <2>1, <3>1, <3>2, NoJobFacts DEF JobInv, JobOK
    <2> QED
      BY <2>5, <2>6, <2>7, <2>8 DEF JobInv
  <1> QED
    BY <1>1, <1>2, <1>3, <1>4, <1>5, <1>6, <1>7

LEMMA JobStutter ==
  ASSUME JobInv, UNCHANGED vars
  PROVE  JobInv'
  <1>1. UNCHANGED <<at, call, logger, holder, job, out>>
    BY DEF vars, fileVars, callVars, logVars
  <1>2. LogTyped' /\ \A l \in Loggers : LogOK(l)'
    BY <1>1 DEF JobInv, LogTyped, LogOK
  <1>3. \A t \in Thread : JobOK(t)'
    BY <1>1 DEF JobInv, JobOK
  <1> QED
    BY <1>2, <1>3 DEF JobInv

LEMMA JobInit == Init => JobInv
  <1> SUFFICES ASSUME Init PROVE JobInv
    OBVIOUS
  <1>1. [file |-> "unset", lowest |-> 0, works |-> FALSE, is |-> "new"] \in LogRec
    BY DEF LogRec
  <1>2. \A S : <<>> \in Seq(S)
    BY EmptySeq
  <1>3. LogTyped
    BY <1>1, <1>2, NoJobFacts DEF Init, LogTyped
  <1>4. \A l \in Loggers : LogOK(l)
    BY DEF Init, LogOK
  <1>5. \A t \in Thread : JobOK(t)
    BY DEF Init, FileInit, JobOK, LogPC, NoCall
  <1> QED
    BY <1>3, <1>4, <1>5 DEF JobInv

-----------------------------------------------------------------------------
(* The mutex, where it works: who is inside of log() holds it.             *)

HoldInv ==
  /\ \A l \in Loggers :
       holder[l] # "nobody" =>
         /\ holder[l] \in Thread /\ logger[l].works
         /\ at[holder[l]] \in Inside /\ job[holder[l]].log = l
  /\ \A t \in Thread :
       at[t] \in Inside /\ logger[job[t].log].works => holder[job[t].log] = t

LEMMA HoldNext ==
  ASSUME FileInv, JobInv, HoldInv, Next
  PROVE  HoldInv'
  <1>0. LogTyped /\ TreeOK /\ \A v \in Thread : JobOK(v)
    BY DEF JobInv, FileInv
  <1>n. Inside \subseteq LogPC /\ "nobody" \notin Thread
    BY FileTreeAssumption DEF Inside, LogPC
  <1>1. PICK t \in Thread :
          \/ Unrelated(t) \/ LogWork(t)
          \/ \E l \in Loggers : SetsUp(t, l) \/ Chooses(t, l) \/ Closes(t, l) \/ Logs(t, l)
    BY LogSteps
  <1>a. ASSUME Apart(t), at[t] \notin Inside, at'[t] \notin Inside, UNCHANGED holder,
               \A l \in Loggers : \/ logger'[l].works = logger[l].works
                                  \/ \A v \in Thread \ {t} : at[v] \in LogPC => job[v].log # l
        PROVE  HoldInv'
    <2>1. ASSUME NEW v \in Thread, at'[v] \in Inside
          PROVE  /\ v # t /\ at[v] = at'[v] /\ job'[v] = job[v] /\ job[v].log \in Loggers
                 /\ logger'[job[v].log].works = logger[job[v].log].works
      BY <1>0, <1>n, <1>a, <2>1 DEF Apart, JobOK
    <2>2. ASSUME NEW v \in Thread, at[v] \in Inside
          PROVE  /\ v # t /\ at[v] = at'[v] /\ job'[v] = job[v] /\ job[v].log \in Loggers
                 /\ logger'[job[v].log].works = logger[job[v].log].works
      BY <1>0, <1>n, <1>a, <2>2 DEF Apart, JobOK
    <2>3. ASSUME NEW l \in Loggers, holder'[l] # "nobody"
          PROVE  /\ holder'[l] \in Thread /\ logger'[l].works
                 /\ at'[holder'[l]] \in Inside /\ job'[holder'[l]].log = l
      <3>1. PICK v \in Thread : v = holder[l] /\ at[v] \in Inside /\ job[v].log = l
        BY <1>a, <2>3 DEF HoldInv
      <3> QED
        BY <1>a, <2>2, <2>3, <3>1 DEF HoldInv
    <2>4. ASSUME NEW v \in Thread, at'[v] \in Inside, logger'[job'[v].log].works
          PROVE  holder'[job'[v].log] = v
      BY <1>a, <2>1, <2>4 DEF HoldInv
    <2> QED
      BY <2>3, <2>4 DEF HoldInv
  <1>2. CASE Unrelated(t)
    BY <1>2, <1>n, <1>a DEF Unrelated, logVars
  <1>3. ASSUME NEW l \in Loggers, SetsUp(t, l) PROVE HoldInv'
    <2>1. \A m \in Loggers \ {l} : logger'[m] = logger[m]
      BY <1>0, <1>3 DEF SetsUp, LogTyped
    <2>2. at[t] \notin Inside /\ at'[t] \notin Inside
      BY <1>3, <1>n DEF SetsUp, Inside
    <2> QED
      BY <1>3, <1>a, <2>1, <2>2 DEF SetsUp
  <1>4. ASSUME NEW l \in Loggers, Chooses(t, l) PROVE HoldInv'
    BY <1>4, <1>a DEF Chooses, Inside, MakePC
  <1>5. ASSUME NEW l \in Loggers, Closes(t, l) PROVE HoldInv'
    <2>1. \A m \in Loggers : logger'[m].works = logger[m].works
      BY <1>0, <1>5 DEF Closes, LogTyped, LogRec
    <2> QED
      BY <1>5, <1>a, <2>1 DEF Closes, Inside
  <1>6. ASSUME NEW l \in Loggers, Logs(t, l) PROVE HoldInv'
    BY <1>6, <1>a DEF Logs, Inside
  <1>7. ASSUME Goes(t, at[t], at'[t]), at[t] \in Inside, at'[t] \in Inside,
               UNCHANGED <<holder, job>>
        PROVE  HoldInv'
    BY <1>7 DEF Goes, Apart, HoldInv
  <1>8. CASE Locks(t)
    <2>1. PICK l \in Loggers : l = job[t].log
      BY <1>0, <1>8 DEF Locks, Goes, JobOK, LogPC
    <2>2. /\ Apart(t) /\ at[t] = "lock" /\ at'[t] = "level" /\ UNCHANGED <<logger, job>>
          /\ IF logger[l].works THEN holder[l] = "nobody" /\ holder' = [holder EXCEPT ![l] = t]
                                ELSE holder' = holder
      BY <1>8, <2>1 DEF Locks, Goes
    <2>3. ASSUME NEW m \in Loggers, holder'[m] # "nobody"
          PROVE  /\ holder'[m] \in Thread /\ logger'[m].works
                 /\ at'[holder'[m]] \in Inside /\ job'[holder'[m]].log = m
      <3>1. CASE holder'[m] = holder[m]
        <4>1. PICK v \in Thread : v = holder[m] /\ at[v] \in Inside /\ job[v].log = m
          BY <2>3, <3>1 DEF HoldInv
        <4>2. v # t /\ at'[v] = at[v]
          BY <2>2, <4>1 DEF Apart, Inside
        <4> QED
          BY <2>2, <2>3, <3>1, <4>1, <4>2 DEF HoldInv
      <3>2. CASE holder'[m] # holder[m]
        <4>1. m = l /\ logger[l].works /\ holder'[m] = t
          BY <1>0, <2>2, <3>2 DEF LogTyped
        <4> QED
          BY <2>1, <2>2, <4>1 DEF Inside
      <3> QED
        BY <3>1, <3>2
    <2>4. ASSUME NEW v \in Thread, at'[v] \in Inside, logger'[job'[v].log].works
          PROVE  holder'[job'[v].log] = v
      <3>1. CASE v = t
        BY <1>0, <2>1, <2>2, <2>4, <3>1 DEF LogTyped
      <3>2. CASE v # t
        <4>1. at[v] \in Inside /\ holder[job[v].log] = v
          BY <2>2, <2>4, <3>2 DEF Apart, HoldInv
        <4>2. job[v].log \in Loggers
          BY <1>0, <1>n, <4>1 DEF JobOK
        <4> QED
          BY <1>0, <1>n, <2>2, <4>1, <4>2 DEF LogTyped
      <3> QED
        BY <3>1, <3>2
    <2> QED
      BY <2>3, <2>4 DEF HoldInv
  <1>9. CASE Unlocks(t)
    <2>1. PICK l \in Loggers : l = job[t].log
      BY <1>0, <1>9 DEF Unlocks, Goes, JobOK, LogPC
    <2>2. /\ Apart(t) /\ at[t] = "unlock" /\ at'[t] = "idle" /\ UNCHANGED logger
          /\ holder' = [holder EXCEPT ![l] = "nobody"]
      BY <1>9, <2>1 DEF Unlocks, Goes
    <2>3. ASSUME NEW m \in Loggers, holder'[m] # "nobody"
          PROVE  /\ holder'[m] \in Thread /\ logger'[m].works
                 /\ at'[holder'[m]] \in Inside /\ job'[holder'[m]].log = m
      <3>1. m # l /\ holder'[m] = holder[m]
        BY <1>0, <2>2, <2>3 DEF LogTyped
      <3>2. PICK v \in Thread : v = holder[m] /\ at[v] \in Inside /\ job[v].log = m
        BY <2>3, <3>1 DEF HoldInv
      <3>3. v # t
        BY <2>1, <3>1, <3>2
      <3> QED
        BY <2>2, <2>3, <3>1, <3>2, <3>3 DEF HoldInv, Apart
    <2>4. ASSUME NEW v \in Thread, at'[v] \in Inside, logger'[job'[v].log].works
          PROVE  holder'[job'[v].log] = v
      <3>1. v # t /\ at[v] \in Inside /\ job'[v] = job[v] /\ holder[job[v].log] = v
        BY <2>2, <2>4 DEF Apart, HoldInv, Inside
      <3>2. job[v].log \in Loggers
        BY <1>0, <1>n, <3>1 DEF JobOK
      <3>3. job[v].log # l
        BY <1>n, <2>1, <2>2, <3>1 DEF HoldInv, Inside
      <3> QED
        BY <1>0, <2>2, <3>1, <3>2, <3>3 DEF LogTyped
    <2> QED
      BY <2>3, <2>4 DEF HoldInv
  <1>10. CASE LogWork(t)
    BY <1>7, <1>8, <1>9, <1>10 DEF LogWork, Prints, Goes, Inside
  <1> QED
    BY <1>1, <1>2, <1>3, <1>4, <1>5, <1>6, <1>10

LEMMA HoldStutter ==
  ASSUME HoldInv, UNCHANGED vars
  PROVE  HoldInv'
  BY DEF HoldInv, vars, fileVars, callVars, logVars

-----------------------------------------------------------------------------
(* Lines.  Where the mutex works and nobody else has the FILE, a line that *)
(* is not complete is that of a thread that is about to continue it.       *)

Sole(l) ==
  /\ logger[l].file \in FILE /\ logger[l].works
  /\ \A m \in Loggers \ {l} : logger[m].file # logger[l].file

Whole(o) ==
  \A i \in 2 .. Len(o) :
    o[i-1][3] # "newline" => o[i][1] = o[i-1][1] /\ o[i][2] = o[i-1][2]

Continues(l, e) ==
  e[3] # "newline" =>
    e[1] \in Thread /\ at[e[1]] \in {"text", "newline"} /\ job[e[1]].log = l /\ calls[e[1]] = e[2]

LineInv ==
  /\ \A f \in FILE : out[f] # <<>> => \E l \in Loggers : logger[l].file = f
  /\ \A l \in Loggers, f \in FILE :
       Sole(l) /\ logger[l].file = f =>
         Whole(out[f]) /\ (out[f] # <<>> => Continues(l, out[f][Len(out[f])]))

LEMMA WholeAppend ==
  ASSUME NEW S, NEW o \in Seq(S), NEW e \in S, Whole(o),
         o # <<>> /\ o[Len(o)][3] # "newline" => e[1] = o[Len(o)][1] /\ e[2] = o[Len(o)][2]
  PROVE  /\ Whole(Append(o, e)) /\ Append(o, e) # <<>>
         /\ Append(o, e)[Len(Append(o, e))] = e
  <1>1. /\ Append(o, e) \in Seq(S) /\ Append(o, e) # <<>> /\ Len(Append(o, e)) = Len(o) + 1
        /\ \A i \in 1 .. Len(o) : Append(o, e)[i] = o[i]
        /\ Append(o, e)[Len(o) + 1] = e /\ Len(o) \in Nat
    BY AppendProperties, LenProperties
  <1>2. ASSUME NEW i \in 2 .. Len(Append(o, e)), Append(o, e)[i-1][3] # "newline"
        PROVE  /\ Append(o, e)[i][1] = Append(o, e)[i-1][1]
               /\ Append(o, e)[i][2] = Append(o, e)[i-1][2]
    <2>1. CASE i <= Len(o)
      BY <1>1, <1>2, <2>1 DEF Whole
    <2>2. CASE i > Len(o)
      <3>1. i = Len(o) + 1 /\ i - 1 = Len(o) /\ Len(o) >= 1
        BY <1>1, <2>2
      <3>2. o # <<>>
        BY <3>1, EmptySeq
      <3>3. Append(o, e)[i] = e /\ Append(o, e)[i-1] = o[Len(o)]
        BY <1>1, <3>1
      <3> QED
        BY <1>2, <3>2, <3>3
    <2> QED
      BY <1>1, <2>1, <2>2
  <1> QED
    BY <1>1, <1>2 DEF Whole

LEMMA LineNext ==
  ASSUME FileInv, JobInv, HoldInv, LineInv, Next
  PROVE  LineInv'
  <1>0. LogTyped /\ TreeOK /\ \A v \in Thread : JobOK(v)
    BY DEF JobInv, FileInv
  <1>1. PICK t \in Thread :
          \/ Unrelated(t) \/ LogWork(t)
          \/ \E l \in Loggers : SetsUp(t, l) \/ Chooses(t, l) \/ Closes(t, l) \/ Logs(t, l)
    BY LogSteps
  <1>a. ASSUME Apart(t), at[t] \notin {"text", "newline"}, UNCHANGED out,
               \A l \in Loggers : logger[l].file \in FILE => logger'[l].file = logger[l].file,
               \A l \in Loggers : Sole(l)' =>
                 \/ logger'[l].file = logger[l].file /\ Sole(l)
                 \/ out[logger'[l].file] = <<>>
        PROVE  LineInv'
    <2>1. ASSUME NEW f \in FILE, out'[f] # <<>> PROVE \E l \in Loggers : logger'[l].file = f
      BY <1>a, <2>1 DEF LineInv
    <2>2. ASSUME NEW l \in Loggers, NEW e, Continues(l, e) PROVE Continues(l, e)'
      BY <1>a, <2>2 DEF Continues, Apart
    <2>3. ASSUME NEW l \in Loggers, NEW f \in FILE, Sole(l)', logger'[l].file = f
          PROVE  Whole(out'[f]) /\ (out'[f] # <<>> => Continues(l, out[f][Len(out[f])])')
      <3>1. CASE out[f] = <<>>
        <4>1. Whole(<<>>)
          BY EmptySeq DEF Whole
        <4> QED
          BY <1>a, <3>1, <4>1
      <3>2. CASE out[f] # <<>>
        <4>1. Sole(l) /\ logger[l].file = f
          BY <1>a, <2>3, <3>2
        <4>2. PICK o : o = out[f]
          OBVIOUS
        <4>3. PICK e : e = o[Len(o)]
          OBVIOUS
        <4>4. Whole(o) /\ Continues(l, e)
          BY <3>2, <4>1, <4>2, <4>3 DEF LineInv
        <4>5. Continues(l, e)'
          BY <2>2, <4>4
        <4>6. out'[f] = o /\ out'[f][Len(out'[f])] = e
          BY <1>a, <4>2, <4>3
        <4> QED
          BY <4>4, <4>5, <4>6 DEF Continues
      <3> QED
        BY <3>1, <3>2
    <2> QED
      BY <2>1, <2>3 DEF LineInv
  <1>b. ASSUME logger' = logger PROVE \A l \in Loggers : Sole(l)' <=> Sole(l)
    BY <1>b DEF Sole
  <1>2. CASE Unrelated(t)
    BY <1>2, <1>a, <1>b DEF Unrelated, logVars, LogPC
  <1>3. ASSUME NEW l \in Loggers, SetsUp(t, l) PROVE LineInv'
    <2>1. /\ \A m \in Loggers \ {l} : logger'[m] = logger[m]
          /\ logger'[l].file \in {"NULL", "std", l} /\ logger[l].file = "unset"
      BY <1>0, <1>3 DEF SetsUp, LogTyped, JobInv, LogOK
    <2>2. "unset" \notin FILE
      BY LoggerAssumption DEF FILE
    <2>3. ASSUME NEW m \in Loggers, Sole(m)'
          PROVE  \/ logger'[m].file = logger[m].file /\ Sole(m)
                 \/ out[logger'[m].file] = <<>>
      <3>1. CASE m = l
        <4>1. logger'[l].file \in FILE /\ \A x \in Loggers : logger[x].file # logger'[l].file
          BY <2>1, <2>2, <2>3, <3>1 DEF Sole
        <4> QED
          BY <3>1, <4>1 DEF LineInv
      <3>2. CASE m # l
        BY <2>1, <2>2, <2>3, <3>2 DEF Sole
      <3> QED
        BY <3>1, <3>2
    <2> QED
      BY <1>3, <1>a, <2>1, <2>2, <2>3 DEF SetsUp, LogPC
  <1>4. ASSUME NEW l \in Loggers, Chooses(t, l) PROVE LineInv'
    BY <1>4, <1>a, <1>b DEF Chooses
  <1>5. ASSUME NEW l \in Loggers, Closes(t, l) PROVE LineInv'
    <2>1. \A m \in Loggers : /\ logger'[m].works = logger[m].works
                             /\ logger'[m].file = logger[m].file
      BY <1>0, <1>5 DEF Closes, LogTyped, LogRec
    <2>2. \A m \in Loggers : Sole(m)' => Sole(m)
      BY <2>1 DEF Sole
    <2> QED
      BY <1>5, <1>a, <2>1, <2>2 DEF Closes
  <1>6. ASSUME NEW l \in Loggers, Logs(t, l) PROVE LineInv'
    BY <1>6, <1>a, <1>b DEF Logs
  <1>7. CASE \/ Locks(t) \/ Unlocks(t)
             \/ Goes(t, "level", "text") /\ UNCHANGED <<holder, job, out>>
    BY <1>7, <1>a, <1>b DEF Locks, Unlocks, Goes
  <1>8. ASSUME NEW from, NEW to, Prints(t, from, to),
               <<from, to>> \in {<<"level", "text">>, <<"text", "newline">>,
                                 <<"newline", "unlock">>}
        PROVE  LineInv'
    <2>1. PICK l \in Loggers : l = job[t].log
      BY <1>0, <1>8 DEF Prints, Goes, JobOK, LogPC
    <2>2. PICK f \in FILE : f = logger[l].file
      BY <1>0, <1>8, <2>1 DEF Prints, Goes, JobOK, LogPC, FILE
    <2>3. PICK e : e = <<t, calls[t], from>>
      OBVIOUS
    <2>4. /\ e[1] = t /\ e[2] = calls[t] /\ e[3] = from
          /\ e \in Thread \X (0 .. MaxCalls) \X Part
      BY <1>0, <1>8, <2>3 DEF TreeOK, Part
    <2>5. /\ Apart(t) /\ at[t] = from /\ at'[t] = to /\ UNCHANGED <<calls, logger, holder, job>>
          /\ out' = [out EXCEPT ![f] = Append(out[f], e)]
      BY <1>8, <2>1, <2>2, <2>3 DEF Prints, Goes
    <2>6. /\ out[f] \in Seq(Thread \X (0 .. MaxCalls) \X Part)
          /\ out'[f] = Append(out[f], e) /\ \A g \in FILE \ {f} : out'[g] = out[g]
      BY <1>0, <2>5 DEF LogTyped
    <2>7. ASSUME NEW g \in FILE, out'[g] # <<>> PROVE \E m \in Loggers : logger'[m].file = g
      BY <2>2, <2>5, <2>6, <2>7 DEF LineInv
    <2>8. ASSUME NEW m \in Loggers, NEW g \in FILE, Sole(m)', logger'[m].file = g
          PROVE  Whole(out'[g]) /\ (out'[g] # <<>> => Continues(m, out[g][Len(out[g])])')
      <3>1. Sole(m) /\ logger[m].file = g
        BY <1>b, <2>5, <2>8
      <3>2. CASE g = f
        <4>1. m = l
          BY <2>2, <3>1, <3>2 DEF Sole
        <4>2. holder[l] = t
          BY <1>8, <2>1, <2>5, <3>1, <4>1 DEF Sole, HoldInv, Inside
        <4>3. PICK o : o = out[f]
          OBVIOUS
        <4>4. o # <<>> /\ o[Len(o)][3] # "newline" => e[1] = o[Len(o)][1] /\ e[2] = o[Len(o)][2]
          <5>1. SUFFICES ASSUME o # <<>>, o[Len(o)][3] # "newline"
                         PROVE  e[1] = o[Len(o)][1] /\ e[2] = o[Len(o)][2]
            OBVIOUS
          <5>2. PICK x : x = o[Len(o)]
            OBVIOUS
          <5>3. Continues(l, x)
            BY <3>1, <3>2, <4>1, <4>3, <5>1, <5>2 DEF LineInv
          <5>4. /\ x[1] \in Thread /\ at[x[1]] \in Inside /\ job[x[1]].log = l
                /\ calls[x[1]] = x[2]
            BY <5>1, <5>2, <5>3 DEF Continues, Inside
          <5>5. x[1] = t
            BY <3>1, <4>1, <4>2, <5>4 DEF Sole, HoldInv
          <5> QED
            BY <2>4, <5>2, <5>4, <5>5
        <4>5. Whole(o)
          BY <3>1, <3>2, <4>3 DEF LineInv
        <4>6. Whole(Append(o, e)) /\ Append(o, e)[Len(Append(o, e))] = e
          BY <2>4, <2>6, <4>3, <4>4, <4>5, WholeAppend, SMTT(30)
        <4>7. out'[g] = Append(o, e) /\ out'[g][Len(out'[g])] = e
          BY <2>6, <3>2, <4>3, <4>6
        <4>8. Continues(m, e)'
          BY <1>8, <2>1, <2>4, <2>5, <4>1 DEF Continues
        <4> QED
          BY <4>6, <4>7, <4>8 DEF Continues
      <3>3. CASE g # f
        <4>1. PICK o : o = out[g]
          OBVIOUS
        <4>2. PICK x : x = o[Len(o)]
          OBVIOUS
        <4>3. Whole(o) /\ (o # <<>> => Continues(m, x))
          BY <3>1, <4>1, <4>2 DEF LineInv
        <4>4. l # m
          BY <2>2, <3>1, <3>3
        <4>5. Continues(m, x) => Continues(m, x)'
          BY <2>1, <2>5, <4>4 DEF Continues, Apart
        <4>6. out'[g] = o /\ out'[g][Len(out'[g])] = x
          BY <2>6, <3>3, <4>1, <4>2
        <4> QED
          BY <4>3, <4>5, <4>6 DEF Continues
      <3> QED
        BY <3>2, <3>3
    <2> QED
      BY <2>7, <2>8 DEF LineInv
  <1>9. CASE LogWork(t)
    BY <1>7, <1>8, <1>9 DEF LogWork
  <1> QED
    BY <1>1, <1>2, <1>3, <1>4, <1>5, <1>6, <1>9

\* If a logger's mutex works and no other logger has its FILE, then the lines of
\* threads that log at the same time are not mixed.
THEOREM LinesNotMixed == Spec => []LinesWhole
  <1>1. Init => HoldInv
    BY DEF Init, FileInit, HoldInv, Inside
  <1>2. Init => LineInv
    <2> SUFFICES ASSUME Init PROVE LineInv
      OBVIOUS
    <2>1. \A f \in FILE : out[f] = <<>>
      BY DEF Init
    <2>2. Whole(<<>>)
      BY EmptySeq DEF Whole
    <2> QED
      BY <2>1, <2>2 DEF LineInv
  <1>3. LineInv /\ UNCHANGED vars => LineInv'
    BY DEF LineInv, Sole, Whole, Continues, vars, fileVars, callVars, logVars
  <1>4. LineInv => LinesWhole
    BY DEF LineInv, LinesWhole, Sole, Whole
  <1> QED
    BY <1>1, <1>2, <1>3, <1>4, FileInitInv, FileNext, JobInit, JobNext, JobStutter,
       HoldNext, HoldStutter, LineNext, PTL DEF Spec

\* The type invariant; whoever holds a logger's mutex has a call about that logger.
THEOREM LoggerTypeCorrect == Spec => []LoggerTypeOK
  <1>1. Init => HoldInv
    BY DEF Init, FileInit, HoldInv, Inside
  <1>2. FileInv => FileTypeOK
    <2> SUFFICES ASSUME FileInv PROVE FileTypeOK
      OBVIOUS
    <2>1. TreeOK
      BY DEF FileInv
    <2>2. ASSUME NEW t \in Thread
          PROVE  /\ call[t].path \in Path \union {<<>>} /\ call[t].n \in 0 .. Len(call[t].path)
                 /\ call[t].k \in 0 .. call[t].n + 1
      <3>0. CallOK(t) /\ at[t] \in {"idle"} \union MakePC \union BindPC \union LogPC
        BY <2>1 DEF FileInv, TreeOK
      <3>1. CASE call[t] = NoCall
        BY <3>1, EmptySeq DEF NoCall
      <3>2. CASE at[t] \in MakePC
        BY <3>0, <3>2, PathFacts DEF CallOK
      <3>3. CASE at[t] \in BindPC
        BY <3>0, <3>3, PathFacts DEF CallOK
      <3> QED
        BY <3>0, <3>1, <3>2, <3>3 DEF CallOK
    <2> QED
      BY <2>1, <2>2 DEF FileTypeOK, TreeOK
  <1>3. FileInv /\ JobInv /\ HoldInv => LoggerTypeOK
    <2> SUFFICES ASSUME FileInv, JobInv, HoldInv PROVE LoggerTypeOK
      OBVIOUS
    <2>1. at \in [Thread -> FilePC \union {"lock", "level", "text", "newline", "unlock"}]
      BY DEF FileInv, TreeOK, FilePC, MakePC, BindPC, LogPC
    <2>2. ASSUME NEW l \in Loggers
          PROVE  /\ logger[l].file \in {"unset", "NULL", "std", l}
                 /\ logger[l].is \in {"new", "up", "closed"}
                 /\ holder[l] # "nobody" => holder[l] \in Thread /\ job[holder[l]].log = l
      <3>1. logger[l] \in LogRec /\ LogOK(l)
        BY DEF JobInv, LogTyped
      <3> QED
        BY <3>1 DEF LogRec, LogOK, HoldInv
    <2> QED
      BY <1>2, <2>1, <2>2 DEF LoggerTypeOK
  <1> QED
    BY <1>1, <1>3, FileInitInv, FileNext, JobInit, JobNext, JobStutter,
       HoldNext, HoldStutter, PTL DEF Spec
=============================================================================
