-------------------------------- MODULE Svd --------------------------------
(***************************************************************************)
(* The loop over singular values of BuildSvdCircuit (EMP) and              *)
(* RunSvdLoopLeak (ABY): the diagonalization of a bidiagonal matrix with   *)
(* diagonal w and off-diagonal rv1.  The cleartext svdcmp differs in that  *)
(* it fails where these go on to the next value.                           *)
(*                                                                         *)
(* Numbers are not modelled.  A test whether one is negligible against     *)
(* anorm has any outcome, except that an element set to 0.0 is negligible; *)
(* what is written is recorded as the operation op.                        *)
(***************************************************************************)
EXTENDS Integers

CONSTANTS NCols,      \* nCols
          MaxIts,     \* iterations per singular value: 30, or 2 under SiSL
          Flows,      \* the builds a behaviour may run
          EndsEarly   \* may a cancellation stop before its last column?

LOOP_LEAK == "LOOP_LEAK"
SiSL == "SiSL"

ASSUME SvdAssumption ==
  /\ NCols \in Nat \ {0}
  /\ MaxIts \in Nat \ {0}
  /\ Flows \subseteq {LOOP_LEAK, SiSL}
  /\ EndsEarly \in BOOLEAN

VARIABLES
  flow,    \* PPL_FLOW
  k,       \* the singular value at hand, -1 after the last
  its,     \* iterations spent on it
  pc,      \* where the iteration is
  l,       \* the split: rows l..k are decoupled from those above
  flag,    \* w[l-1] is negligible, rv1[l] has to be cancelled
  i,       \* the column of the inner loop (j of the QR sweep)
  zero,    \* the elements of rv1 that are exactly 0.0
  op       \* the last operation on a, v, w and rv1

vars == <<flow, k, its, pc, l, flag, i, zero, op>>

Column == 0 .. NCols - 1

\* Operation kind between columns a and b.
Op(kind, a, b) == [kind |-> kind, a |-> a, b |-> b]

\* Householder reduction leaves rv1[0] = 0.
Init ==
  /\ flow \in Flows
  /\ k = NCols - 1
  /\ its = 0
  /\ pc = "split"
  /\ l = 0
  /\ flag = FALSE
  /\ i = 0
  /\ zero = {0}
  /\ op = Op("reduced", 0, 0)

Rest == l' = 0 /\ flag' = FALSE /\ i' = 0

NextColumn == k' = k - 1 /\ its' = 0 /\ pc' = (IF k = 0 THEN "done" ELSE "split") /\ Rest

\* Mutant: the iterations are not counted afresh for the next value.
NextIterationLate ==
  IF its = MaxIts THEN NextColumn
  ELSE k' = k /\ its' = its + 1 /\ pc' = "split" /\ Rest
NextIteration ==
  IF its + 1 = MaxIts THEN NextColumn
  ELSE k' = k /\ its' = its + 1 /\ pc' = "split" /\ Rest

\* The test for splitting, from k down, where rsmall and wsmall are the
\* negligible elements of rv1 and w: it stops at the first x that has one.
Splits(x, rsmall, wsmall) == x \in rsmall \/ (x > 0 /\ x - 1 \in wsmall)
SplitsAt(x, rsmall, wsmall) ==
  /\ Splits(x, rsmall, wsmall)
  /\ \A y \in x + 1 .. k : ~Splits(y, rsmall, wsmall)

Search ==
  \E rsmall, wsmall \in SUBSET (0 .. k) :
    /\ zero \cap (0 .. k) \subseteq rsmall
    /\ \/ \E x \in 0 .. k :
            /\ SplitsAt(x, rsmall, wsmall)
            /\ l' = x
            /\ flag' = (x \notin rsmall)
            /\ i' = (IF x \notin rsmall THEN x ELSE 0)
            /\ pc' = (IF x \notin rsmall THEN "cancel" ELSE "converge")
       \/ /\ \A x \in 0 .. k : ~Splits(x, rsmall, wsmall)
          /\ pc' = "failed"
          /\ UNCHANGED <<l, flag, i>>

\* The single shot takes the whole matrix and looks for no split.
NoSearch == l' = 0 /\ flag' = FALSE /\ i' = 0 /\ pc' = "converge"

Split ==
  /\ pc = "split"
  /\ IF flow = SiSL THEN NoSearch ELSE Search
  /\ UNCHANGED <<flow, k, its, zero, op>>

\* Mutant: a negligible f ends the cancellation before rv1[i] is scaled.
CancelBreaksFirst ==
  /\ pc = "cancel"
  /\ \E small \in BOOLEAN :
       IF small
       THEN zero' = zero /\ op' = op /\ pc' = "converge" /\ i' = 0
       ELSE /\ zero' = (IF i = l THEN zero \cup {i} ELSE zero)
            /\ op' = Op("rotate", l - 1, i)
            /\ pc' = (IF i < k THEN "cancel" ELSE "converge")
            /\ i' = (IF i < k THEN i + 1 ELSE 0)
  /\ UNCHANGED <<flow, k, its, l, flag>>
\* Cancellation of rv1[l], column by column, until the fill-in f = s * rv1[i]
\* is negligible.  c = 0 in the first column, so rv1[l] becomes 0.0.
Cancel ==
  /\ pc = "cancel"
  /\ zero' = (IF i = l THEN zero \cup {i} ELSE zero)
  /\ \E small \in BOOLEAN :
       /\ small /\ ~EndsEarly => i = k
       /\ op' = (IF small THEN Op("scale", i, i) ELSE Op("rotate", l - 1, i))
       /\ pc' = (IF small \/ i = k THEN "converge" ELSE "cancel")
       /\ i' = (IF small \/ i = k THEN 0 ELSE i + 1)
  /\ UNCHANGED <<flow, k, its, l, flag>>

\* The singular value has converged: it is made nonnegative, and the next one is
\* taken up.
Converge ==
  /\ pc = "converge"
  /\ l = k
  /\ op' = Op("sign", k, k)
  /\ NextColumn
  /\ UNCHANGED <<flow, zero>>

\* Shift from the bottom 2-by-2 minor, and w[l].
Shift ==
  /\ pc = "converge"
  /\ l # k
  /\ op' = Op("shift", l, k)
  /\ pc' = "qr"
  /\ i' = l
  /\ UNCHANGED <<flow, k, its, l, flag, zero>>

\* One rotation of the QR sweep: it overwrites rv1[i].
Sweep ==
  /\ pc = "qr"
  /\ zero' = zero \ {i}
  /\ op' = Op("qr", i, i + 1)
  /\ pc' = (IF i + 1 = k THEN "finish" ELSE "qr")
  /\ i' = i + 1
  /\ UNCHANGED <<flow, k, its, l, flag>>

\* Mutant: rv1[l] keeps what the sweep wrote.
FinishKeepsRv1 ==
  /\ pc = "finish"
  /\ zero' = zero \ {k}
  /\ op' = Op("finish", l, k)
  /\ NextIteration
  /\ UNCHANGED flow
\* rv1[l] = 0.0, rv1[k] = f, w[k] = x.  After the last iteration the next value
\* is taken up although this one has not converged.
Finish ==
  /\ pc = "finish"
  /\ zero' = (zero \cup {l}) \ {k}
  /\ op' = Op("finish", l, k)
  /\ NextIteration
  /\ UNCHANGED flow

Next == Split \/ Cancel \/ Converge \/ Shift \/ Sweep \/ Finish
Spec == Init /\ [][Next]_vars

----------------------------------------------------------------------------
(* Properties.                                                             *)

OpKind == {"reduced", "scale", "rotate", "sign", "shift", "qr", "finish"}

\* Every variable has its type; no loop leaves its bounds.
TypeOK ==
  /\ flow \in Flows
  /\ k \in -1 .. NCols - 1
  /\ its \in 0 .. MaxIts - 1
  /\ pc \in {"split", "cancel", "converge", "qr", "finish", "done", "failed"}
  /\ l \in Column
  /\ flag \in BOOLEAN
  /\ i \in Column
  /\ zero \subseteq Column
  /\ op \in [kind : OpKind, a : Column, b : Column]

\* "sanity check, should never happen since rv1[0] = 0": the search always
\* finds a split, so EMP's assertion holds and neither EMP nor ABY reads
\* w[-1], although the sweep overwrites rv1[0].
AlwaysSplits == pc # "failed"

\* A singular value is only taken as converged once it is decoupled: where
\* w[k-1] was negligible and rv1[k] was not, the cancellation has zeroed it.
\* (A value that is left after its last iteration has not converged, and need
\* not be decoupled.)
Decoupled == pc = "converge" /\ l = k /\ flag => k \in zero
=============================================================================
