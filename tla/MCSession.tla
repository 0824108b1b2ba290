----------------------------- MODULE MCSession -----------------------------
(* Small instances of Session: two clients with requests of different size. *)
EXTENDS Session, TLC

CONSTANTS c1, c2

MCPoints == [c \in Client |-> IF c = c1 THEN 1 ELSE 2]
=============================================================================
