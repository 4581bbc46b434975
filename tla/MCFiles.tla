------------------------------ MODULE MCFiles -------------------------------
(***************************************************************************)
(* Files for TLC: the file tree with its sockets and loggers, and the      *)
(* buffered writer.  Files lie below two directories, beside a socket.     *)
(* Servers and loggers have nothing in common but the file tree, and the   *)
(* writer nothing with either but the program: a program is checked with   *)
(* one of the three.                                                       *)
(***************************************************************************)
EXTENDS Logger, BufferedWriter

d == <<"d">>
e == <<"d", "e">>
f == <<"d", "e", "f">>
s == <<"s">>

MCPath  == {d, e, f, s}
MCOpen  == {e, f}
MCDirs  == {d, e}
MCSocks == {s}

Logs   == \E l \in Loggers : logger[l].is # "new" \/ \E t \in Thread : job[t].log = l
Serves == node[s] # "none" \/ s \in taken \/ \E t \in Thread : call[t].path = s

WriterUnused == given = 0
TreeUnused ==
  /\ \A p \in Path : node[p] = "none"
  /\ \A t \in Thread : calls[t] = 0
  /\ \A l \in Loggers : logger[l].is = "new"

MCInit == Init /\ WriterInit

UseTree   == WriterUnused /\ Next /\ ~(Logs' /\ Serves') /\ UNCHANGED writerVars
UseWriter == TreeUnused /\ WriterNext /\ UNCHANGED vars

MCSpec ==
  /\ MCInit /\ [][UseTree \/ UseWriter]_<<vars, writerVars>>
  /\ Progress /\ WriterProgress
=============================================================================
