------------------------------ MODULE Offload ------------------------------
(***************************************************************************)
(* What the localization service promises to its clients, whatever the     *)
(* processes and sockets it is made of.  The two servers begin one request *)
(* at a time, as one; a request they have begun is carried through and its *)
(* client gets the answer, unless the client dies; a client that gives up  *)
(* does so outside a request, and one that has all its answers asks no     *)
(* more.                                                                   *)
(***************************************************************************)
EXTENDS Naturals

CONSTANTS Client,   \* the clients
          Requests, \* requests of a client
          Crashing  \* the clients that may die

VARIABLES phase,    \* phase[c]: what the service does for c
          answers   \* answers[c]: requests of c that were answered

ovars == <<phase, answers>>

Init ==
  /\ phase = [c \in Client |-> "out"]
  /\ answers = [c \in Client |-> 0]

Asks(c) == phase[c] \in {"out", "begun", "ready"} /\ answers[c] < Requests
Goes(c, s) == phase' = [phase EXCEPT ![c] = s]

\* Both servers commit to a request of c.
Begin(c) ==
  /\ phase[c] = "out" /\ Asks(c)
  /\ \A d \in Client : phase[d] # "begun"
  /\ Goes(c, "begun") /\ UNCHANGED answers

\* They have computed the answer and given it out.
Finish(c) ==
  /\ phase[c] = "begun"
  /\ Goes(c, "ready") /\ UNCHANGED answers

\* c has put its answer together.
Answer(c) ==
  /\ phase[c] = "ready" /\ Asks(c)
  /\ Goes(c, "out")
  /\ answers' = [answers EXCEPT ![c] = @ + 1]

GiveUp(c) ==
  /\ phase[c] = "out" /\ Asks(c)
  /\ Goes(c, "gaveUp") /\ UNCHANGED answers

Die(c) ==
  /\ c \in Crashing /\ Asks(c)
  /\ Goes(c, "crashed") /\ UNCHANGED answers

Next == \E c \in Client : Begin(c) \/ Finish(c) \/ Answer(c) \/ GiveUp(c) \/ Die(c)
Spec == Init /\ [][Next]_ovars
=============================================================================
