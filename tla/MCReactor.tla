----------------------------- MODULE MCReactor -----------------------------
(* Instances of the reactor for TLC. *)
EXTENDS Reactor

CONSTANTS e1, e2, e3, u1, u2

\* e1 is a socket and e2 a timer, or a signal, a user event and a socket.
SockTimer == [e \in Event |-> IF e = e1 THEN "SOCK_EV" ELSE "TIMER_EV"]
SigUserSock ==
  [e \in Event |-> IF e = e1 THEN "SIG_EV" ELSE IF e = e2 THEN "USER_EV" ELSE "SOCK_EV"]

\* Each event has one holder, or all users share it.
OneHolder == [e \in Event |-> IF e = e1 THEN {u1} ELSE {u2}]
Shared    == [e \in Event |-> User]

\* Every single bit of every type, or the bits that arm one knote per event.
EachBit    == [e \in Event |-> {{f} : f \in FiltersOf(e)}]
OnlyFirst  == [e \in Event |-> {{f} : f \in FiltersOf(e) \ {"WRITE"}}]
BothAtOnce == [e \in Event |-> {FiltersOf(e)}]
=============================================================================
