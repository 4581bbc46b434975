------------------------------ MODULE MCCommon ------------------------------
(***************************************************************************)
(* src/common for TLC: lists, slices and the searches.  They share nothing *)
(* but the program that uses them: what has been started goes on alone.    *)
(***************************************************************************)
EXTENDS List, Slice, StringSearch

ListUnused  == inited = {} /\ \A p \in Node : mem.next[p] = NULL
SliceUnused == undef = "no" /\ live = {} /\ \A s \in SliceVar : buf[s] = "none"

\* No search is called.
NoSearch ==
  /\ text = [len |-> 0, at |-> <<>>] /\ query = text /\ case_sensitive = TRUE
  /\ phase = "idle" /\ P = <<>> /\ i = 0 /\ j = 0 /\ pos = 0 /\ result = -1

MCInit == Init /\ SliceInit /\ (SearchInit \/ NoSearch)

UseList   == phase = "idle" /\ SliceUnused /\ Next /\ UNCHANGED <<sliceVars, searchVars>>
UseSlices == phase = "idle" /\ ListUnused /\ SliceNext /\ UNCHANGED <<vars, searchVars>>
UseSearch == SearchNext /\ UNCHANGED <<vars, sliceVars>>

MCSpec ==
  /\ MCInit /\ [][UseList \/ UseSlices \/ UseSearch]_<<vars, sliceVars, searchVars>>
  /\ LoopGoesOn /\ SearchGoesOn

\* Letters are 65 and 66.
MCStrings  == {<<65, 66>>, <<66, 65, 65, 66, 65, 66, 66>>}
MCSuffixes == {<<66, 65>>}

\* -1.5, 1.5, 1.75, and 64.0; 64 and 75 are not ints here.
MCSixteenths == {-24, 24, 28, 1024}

\* What the properties of the slices rest on, for these numbers.
ASSUME MCNumbers == RoomForNUL /\ NumbersRight
=============================================================================
