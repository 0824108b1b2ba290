---------------------------- MODULE SvdOblivious ----------------------------
(***************************************************************************)
(* The data-oblivious build of BuildSvdCircuit: the same loop as in Svd,   *)
(* with nothing it decides visible.  Every loop runs to its bound, and     *)
(* what Svd decides by a branch or a break is here a secret bit that masks *)
(* the writes.                                                             *)
(***************************************************************************)
EXTENDS Integers

CONSTANTS NCols, MaxIts, EndsEarly

ASSUME ObliviousAssumption ==
  /\ NCols \in Nat \ {0}
  /\ MaxIts \in Nat \ {0}
  /\ EndsEarly \in BOOLEAN

VARIABLES
  k, its, pc,
  l,          \* public: the loop counter of the search
  flag, lFound, privL,  \* secret: what the search knows so far
  rsmall, wsmall,       \* the outcomes of this iteration's tests on rv1 and w
  converged,  \* secret: this singular value is final
  i,          \* public: the column of the inner loops
  zero, op    \* as in Svd: exact zeros of rv1, and the last operation

vars == <<k, its, pc, l, flag, lFound, privL, rsmall, wsmall, converged, i, zero, op>>

Column == 0 .. NCols - 1
Op(kind, a, b) == [kind |-> kind, a |-> a, b |-> b]

Init ==
  /\ k = NCols - 1
  /\ its = 0
  /\ pc = "begin"
  /\ l = 0
  /\ flag = TRUE
  /\ lFound = FALSE
  /\ privL = 0
  /\ rsmall = {}
  /\ wsmall = {}
  /\ converged = FALSE
  /\ i = 0
  /\ zero = {0}
  /\ op = Op("reduced", 0, 0)

\* A write under the mask.
Masked(modify, z, o) == IF modify THEN zero' = z /\ op' = o ELSE UNCHANGED <<zero, op>>

\* The top of an iteration; the tests of the search are about to be made.
Begin ==
  /\ pc = "begin"
  /\ pc' = "search"
  /\ l' = k
  /\ flag' = TRUE
  /\ lFound' = FALSE
  /\ privL' = 0
  /\ rsmall' \in {r \in SUBSET (0 .. k) : zero \cap (0 .. k) \subseteq r}
  /\ wsmall' \in SUBSET (0 .. k)
  /\ i' = 0
  /\ UNCHANGED <<k, its, converged, zero, op>>

\* Mutant: the test on w overrules a split already found.
SearchLastWins ==
  /\ pc = "search"
  /\ LET here == l \in rsmall
         above == l > 0 /\ l - 1 \in wsmall
     IN  /\ flag' = (flag /\ ~(here /\ ~lFound))
         /\ privL' = (IF (here /\ ~lFound) \/ above THEN l ELSE privL)
         /\ lFound' = (lFound \/ here \/ above)
  /\ l' = (IF l = 0 THEN 0 ELSE l - 1)
  /\ pc' = (IF l > 0 THEN "search" ELSE IF k = 0 THEN "sign" ELSE "cancel")
  /\ i' = (IF l = 0 /\ k > 0 THEN 1 ELSE 0)
  /\ UNCHANGED <<k, its, rsmall, wsmall, converged, zero, op>>
\* One turn of the search: rv1[l] first, then w[l-1].
Search ==
  /\ pc = "search"
  /\ LET here == l \in rsmall
         above == l > 0 /\ l - 1 \in wsmall
     IN  /\ flag' = (flag /\ ~(here /\ ~lFound))
         /\ privL' = (IF (here \/ above) /\ ~lFound THEN l ELSE privL)
         /\ lFound' = (lFound \/ here \/ above)
  /\ l' = (IF l = 0 THEN 0 ELSE l - 1)
  /\ pc' = (IF l > 0 THEN "search" ELSE IF k = 0 THEN "sign" ELSE "cancel")
  /\ i' = (IF l = 0 /\ k > 0 THEN 1 ELSE 0)
  /\ UNCHANGED <<k, its, rsmall, wsmall, converged, zero, op>>

\* One turn of the cancellation.  A negligible f masks this turn only.
Cancel ==
  /\ pc = "cancel"
  /\ LET modify == flag /\ i >= privL /\ ~converged
     IN  \E small \in BOOLEAN :
           /\ modify /\ small /\ ~EndsEarly => i = k
           /\ Masked(modify, IF i = privL THEN zero \cup {i} ELSE zero,
                     IF small THEN Op("scale", i, i) ELSE Op("rotate", privL - 1, i))
  /\ pc' = (IF i = k THEN "sign" ELSE "cancel")
  /\ i' = (IF i = k THEN 0 ELSE i + 1)
  /\ UNCHANGED <<k, its, l, flag, lFound, privL, rsmall, wsmall, converged>>

NextColumn ==
  /\ k' = k - 1
  /\ its' = 0
  /\ converged' = FALSE
  /\ pc' = (IF k = 0 THEN "done" ELSE "begin")

\* Convergence when privL = k, the shift when not.
Sign ==
  /\ pc = "sign"
  /\ LET newConverged == privL = k
     IN  /\ IF k = 0
            THEN NextColumn
            ELSE converged' = (converged \/ newConverged) /\ pc' = "qr" /\ UNCHANGED <<k, its>>
         /\ IF ~converged
            THEN op' = (IF newConverged THEN Op("sign", k, k) ELSE Op("shift", privL, k))
            ELSE op' = op
  /\ i' = 0
  /\ UNCHANGED <<l, flag, lFound, privL, rsmall, wsmall, zero>>

\* Mutant: the sweep goes on to column k.
SweepTooFar ==
  /\ pc = "qr"
  /\ Masked(i >= privL /\ ~converged, zero \ {i}, Op("qr", i, i))
  /\ pc' = (IF i = k THEN "finish" ELSE "qr")
  /\ i' = i + 1
  /\ UNCHANGED <<k, its, l, flag, lFound, privL, rsmall, wsmall, converged>>
\* One rotation of the QR sweep, from column 0 on.
Sweep ==
  /\ pc = "qr"
  /\ Masked(i >= privL /\ ~converged, zero \ {i}, Op("qr", i, i + 1))
  /\ pc' = (IF i + 1 = k THEN "finish" ELSE "qr")
  /\ i' = i + 1
  /\ UNCHANGED <<k, its, l, flag, lFound, privL, rsmall, wsmall, converged>>

Finish ==
  /\ pc = "finish"
  /\ Masked(~converged, (zero \cup {privL}) \ {k}, Op("finish", privL, k))
  /\ IF its + 1 = MaxIts
     THEN NextColumn
     ELSE k' = k /\ its' = its + 1 /\ pc' = "begin" /\ UNCHANGED converged
  /\ i' = 0
  /\ UNCHANGED <<l, flag, lFound, privL, rsmall, wsmall>>

Next == Begin \/ Search \/ Cancel \/ Sign \/ Sweep \/ Finish
Spec == Init /\ [][Next]_vars

----------------------------------------------------------------------------
(* The refinement.  Masked turns are stuttering steps of Svd; a value that *)
(* has converged is behind Svd, which is at the next one already.          *)

\* Between iterations, as Svd sees it.
Between == converged \/ pc \in {"begin", "search", "done"}

SvdPc ==
  IF pc = "done" THEN "done"
  ELSE IF Between THEN "split"
  ELSE IF pc = "sign" \/ (pc = "cancel" /\ ~flag) THEN "converge"
  ELSE pc

SvdI ==
  IF Between \/ SvdPc = "converge" THEN 0
  ELSE IF i < privL THEN privL ELSE i

SvdK == IF converged THEN k - 1 ELSE k
SvdIts == IF converged THEN 0 ELSE its
SvdL == IF Between THEN 0 ELSE privL
SvdFlag == ~Between /\ flag

S == INSTANCE Svd WITH
       Flows <- {"LOOP_LEAK"},
       flow <- "LOOP_LEAK",
       k <- SvdK,
       its <- SvdIts,
       pc <- SvdPc,
       l <- SvdL,
       flag <- SvdFlag,
       i <- SvdI

----------------------------------------------------------------------------
(* Properties.                                                             *)

\* Every variable has its type; the public loops stay in their bounds.
TypeOK ==
  /\ k \in -1 .. NCols - 1
  /\ its \in 0 .. MaxIts - 1
  /\ pc \in {"begin", "search", "cancel", "sign", "qr", "finish", "done"}
  /\ l \in Column
  /\ flag \in BOOLEAN
  /\ lFound \in BOOLEAN
  /\ privL \in Column
  /\ rsmall \subseteq Column
  /\ wsmall \subseteq Column
  /\ converged \in BOOLEAN
  /\ i \in Column
  /\ zero \subseteq Column
  /\ op \in [kind : S!OpKind, a : Column, b : Column]

\* "data oblivious running a maximal, fixed upper bound of iterations": the
\* build writes what the build that stops early writes, in the same order,
\* and nothing else; in particular nothing after convergence.
IsSvd == S!Spec

\* "if (checkeq(f, anorm)) break": a negligible fill-in ends the cancellation,
\* and what is left of it writes nothing.
CancellationEnds == [][pc = "cancel" /\ op.kind = "scale" => op' = op]_vars
=============================================================================
