---------------------------- MODULE SvdLoopProofs ----------------------------
(***************************************************************************)
(* Proofs about Svd, for any number of columns and iterations and any set  *)
(* of builds: the loops stay within the matrix, the search for a split     *)
(* never fails, and a value that is taken as converged is decoupled.       *)
(***************************************************************************)
EXTENDS Svd, TLAPS

\* Where the loops are, given the place in the iteration.
Placed ==
  /\ pc \notin {"done"} => k \in 0 .. NCols - 1
  /\ pc \in {"cancel", "converge", "qr", "finish"} => l \in 0 .. k
  /\ pc = "cancel" => l # 0 /\ i \in l .. k
  /\ pc = "qr" => i \in l .. k - 1
  /\ pc = "finish" => l < k

\* rv1[0] is zero except while a sweep that began at column 0 is under way,
\* and then what follows the sweep restores it.
FirstIsZero == (pc \in {"qr", "finish"} /\ l = 0) \/ 0 \in zero

\* The first step of a cancellation zeroes rv1[l].
Cancelled ==
  /\ pc = "cancel" => i = l \/ l \in zero
  /\ pc = "converge" /\ flag => l \in zero

Inv == TypeOK /\ Placed /\ FirstIsZero /\ Cancelled /\ pc # "failed"

\* Whatever is done is done between columns of the matrix.
LEMMA OpType ==
  ASSUME NEW kind \in OpKind, NEW a \in Column, NEW b \in Column
  PROVE  Op(kind, a, b) \in [kind : OpKind, a : Column, b : Column]
BY DEF Op

LEMMA InitInv == Init => Inv
<1> SUFFICES ASSUME Init PROVE Inv
  OBVIOUS
<1>1. 0 \in Column /\ k \in Column
  BY SvdAssumption DEF Init, Column
<1>2. op \in [kind : OpKind, a : Column, b : Column]
  BY <1>1, OpType DEF Init, OpKind
<1>3. k \in -1 .. NCols - 1 /\ its \in 0 .. MaxIts - 1
  BY SvdAssumption DEF Init
<1>4. TypeOK
  BY <1>1, <1>2, <1>3 DEF Init, TypeOK
<1>5. Placed /\ FirstIsZero /\ Cancelled /\ pc # "failed"
  BY <1>1 DEF Init, Placed, FirstIsZero, Cancelled, Column
<1> QED
  BY <1>4, <1>5 DEF Inv

----------------------------------------------------------------------------
(* The steps.                                                              *)

\* The search ends at column 0 at the latest, because rv1[0] is zero.
LEMMA SearchSplits ==
  ASSUME Inv, pc = "split", Search
  PROVE  /\ l' \in 0 .. k /\ flag' \in BOOLEAN
         /\ \/ flag' = TRUE /\ l' # 0 /\ i' = l' /\ pc' = "cancel"
            \/ flag' = FALSE /\ i' = 0 /\ pc' = "converge"
<1>1. k \in 0 .. NCols - 1 /\ 0 \in zero
  BY DEF Inv, Placed, FirstIsZero
<1>2. PICK rsmall \in SUBSET (0 .. k), wsmall \in SUBSET (0 .. k) :
        /\ zero \cap (0 .. k) \subseteq rsmall
        /\ \/ \E x \in 0 .. k :
                /\ SplitsAt(x, rsmall, wsmall)
                /\ l' = x
                /\ flag' = (x \notin rsmall)
                /\ i' = (IF x \notin rsmall THEN x ELSE 0)
                /\ pc' = (IF x \notin rsmall THEN "cancel" ELSE "converge")
           \/ \A x \in 0 .. k : ~Splits(x, rsmall, wsmall)
  BY DEF Search
<1>3. 0 \in 0 .. k /\ 0 \in rsmall
  BY <1>1, <1>2
<1>4. PICK x \in 0 .. k :
        /\ SplitsAt(x, rsmall, wsmall)
        /\ l' = x
        /\ flag' = (x \notin rsmall)
        /\ i' = (IF x \notin rsmall THEN x ELSE 0)
        /\ pc' = (IF x \notin rsmall THEN "cancel" ELSE "converge")
  BY <1>2, <1>3 DEF Splits
<1>5. x \notin rsmall => x # 0
  BY <1>3, <1>4
<1> QED
  BY <1>4, <1>5

LEMMA SplitInv == ASSUME Inv, Split PROVE Inv'
<1>1. k \in 0 .. NCols - 1 /\ 0 \in zero /\ UNCHANGED <<flow, k, its, zero, op>>
  BY DEF Inv, Placed, FirstIsZero, Split
<1>2. /\ l' \in 0 .. k /\ flag' \in BOOLEAN
      /\ \/ flag' = TRUE /\ l' # 0 /\ i' = l' /\ pc' = "cancel"
         \/ flag' = FALSE /\ i' = 0 /\ pc' = "converge"
  <2>1. CASE NoSearch
    <3>1. 0 \in 0 .. k
      BY <1>1
    <3> QED
      BY <2>1, <3>1, Zenon DEF NoSearch
  <2>2. CASE Search
    BY <2>2, SearchSplits DEF Split
  <2> QED
    BY <2>1, <2>2 DEF Split
<1>3. TypeOK'
  BY <1>1, <1>2, SvdAssumption DEF Inv, TypeOK, Column
<1>4. Placed' /\ FirstIsZero' /\ Cancelled' /\ pc' # "failed"
  BY <1>1, <1>2 DEF Placed, FirstIsZero, Cancelled
<1> QED
  BY <1>3, <1>4 DEF Inv

LEMMA CancelInv == ASSUME Inv, Cancel PROVE Inv'
<1>1. k \in 0 .. NCols - 1 /\ l \in 0 .. k /\ i \in l .. k /\ 0 \in zero
  BY DEF Inv, Placed, FirstIsZero, Cancel
<1>2. UNCHANGED <<flow, k, its, l, flag>> /\ zero' = (IF i = l THEN zero \cup {i} ELSE zero)
  BY DEF Cancel
<1>3. /\ op' = Op("scale", i, i) \/ op' = Op("rotate", l - 1, i)
      /\ \/ pc' = "converge" /\ i' = 0
         \/ pc' = "cancel" /\ i # k /\ i' = i + 1
  BY DEF Cancel
<1>4. l \in zero'
  BY <1>1, <1>2 DEF Inv, Cancelled, Cancel
<1>5. l # 0
  BY DEF Inv, Placed, Cancel
<1>6. TypeOK'
  <2>1. {i, l - 1, i'} \subseteq Column
    BY <1>1, <1>3, <1>5, SvdAssumption DEF Column
  <2>2. op' \in [kind : OpKind, a : Column, b : Column]
    BY <1>3, <2>1, OpType DEF OpKind
  <2> QED
    BY <1>2, <1>3, <2>1, <2>2 DEF Inv, TypeOK
<1>7. Placed' /\ FirstIsZero' /\ Cancelled' /\ pc' # "failed"
  BY <1>1, <1>2, <1>3, <1>4, <1>5, SvdAssumption DEF Placed, FirstIsZero, Cancelled
<1> QED
  BY <1>6, <1>7 DEF Inv

\* Converge and Finish move on, or take one more iteration.
LEMMA NextIterationInv ==
  ASSUME Inv, pc \in {"converge", "finish"}, NextColumn \/ NextIteration,
         0 \in zero', zero' \subseteq Column, flow' = flow,
         op' \in [kind : OpKind, a : Column, b : Column]
  PROVE  Inv'
<1>1. k \in 0 .. NCols - 1 /\ its \in 0 .. MaxIts - 1
  BY DEF Inv, TypeOK, Placed
<1>2. l' = 0 /\ flag' = FALSE /\ i' = 0
  BY DEF NextColumn, NextIteration, Rest
<1>3. /\ k' \in -1 .. NCols - 1 /\ its' \in 0 .. MaxIts - 1
      /\ \/ pc' = "done"
         \/ pc' = "split" /\ k' \in 0 .. NCols - 1
  <2>1. CASE NextColumn
    BY <1>1, <2>1, SvdAssumption DEF NextColumn
  <2>2. CASE its + 1 # MaxIts /\ k' = k /\ its' = its + 1 /\ pc' = "split"
    BY <1>1, <2>2, SvdAssumption
  <2> QED
    BY <2>1, <2>2 DEF NextIteration
<1>4. TypeOK'
  BY <1>2, <1>3, SvdAssumption DEF Inv, TypeOK, Column
<1>5. Placed' /\ FirstIsZero' /\ Cancelled' /\ pc' # "failed"
  BY <1>2, <1>3 DEF Placed, FirstIsZero, Cancelled
<1> QED
  BY <1>4, <1>5 DEF Inv

LEMMA ConvergeInv == ASSUME Inv, Converge PROVE Inv'
<1>1. k \in Column /\ 0 \in zero /\ zero \subseteq Column
  BY DEF Inv, TypeOK, Placed, FirstIsZero, Column, Converge
<1>2. op' \in [kind : OpKind, a : Column, b : Column]
  BY <1>1, OpType DEF Converge, OpKind
<1> QED
  BY <1>1, <1>2, NextIterationInv DEF Converge

LEMMA ShiftInv == ASSUME Inv, Shift PROVE Inv'
<1>1. k \in 0 .. NCols - 1 /\ l \in 0 .. k /\ l # k /\ 0 \in zero
  BY DEF Inv, Placed, FirstIsZero, Shift
<1>2. op' \in [kind : OpKind, a : Column, b : Column]
  BY <1>1, OpType, SvdAssumption DEF Shift, OpKind, Column
<1>3. TypeOK'
  BY <1>1, <1>2, SvdAssumption DEF Inv, TypeOK, Column, Shift
<1>4. Placed' /\ FirstIsZero' /\ Cancelled' /\ pc' # "failed"
  BY <1>1, SvdAssumption DEF Placed, FirstIsZero, Cancelled, Shift
<1> QED
  BY <1>3, <1>4 DEF Inv

LEMMA SweepInv == ASSUME Inv, Sweep PROVE Inv'
<1>1. k \in 0 .. NCols - 1 /\ l \in 0 .. k /\ i \in l .. k - 1
  BY DEF Inv, Placed, Sweep
<1>2. {i, i + 1} \subseteq Column
  BY <1>1, SvdAssumption DEF Column
<1>3. op' \in [kind : OpKind, a : Column, b : Column]
  BY <1>2, OpType DEF Sweep, OpKind
<1>4. TypeOK'
  BY <1>2, <1>3 DEF Inv, TypeOK, Sweep
<1>5. l = 0 \/ 0 \in zero'
  BY <1>1 DEF Inv, FirstIsZero, Sweep
<1>6. Placed' /\ FirstIsZero' /\ Cancelled' /\ pc' # "failed"
  BY <1>1, <1>5, SvdAssumption DEF Placed, FirstIsZero, Cancelled, Sweep
<1> QED
  BY <1>4, <1>6 DEF Inv

LEMMA FinishInv == ASSUME Inv, Finish PROVE Inv'
<1>1. k \in 0 .. NCols - 1 /\ l \in 0 .. k /\ l < k
  BY DEF Inv, Placed, Finish
<1>2. {l, k} \subseteq Column
  BY <1>1, SvdAssumption DEF Column
<1>3. op' \in [kind : OpKind, a : Column, b : Column]
  BY <1>2, OpType DEF Finish, OpKind
<1>4. 0 \in zero' /\ zero' \subseteq Column
  BY <1>1, <1>2, SvdAssumption DEF Inv, TypeOK, FirstIsZero, Finish
<1> QED
  BY <1>3, <1>4, NextIterationInv DEF Finish

LEMMA NextInv == Inv /\ [Next]_vars => Inv'
<1> SUFFICES ASSUME Inv, [Next]_vars PROVE Inv'
  OBVIOUS
<1>1. CASE UNCHANGED vars
  BY <1>1 DEF Inv, TypeOK, Placed, FirstIsZero, Cancelled, vars
<1> QED
  BY <1>1, SplitInv, CancelInv, ConvergeInv, ShiftInv, SweepInv, FinishInv DEF Next

----------------------------------------------------------------------------
LEMMA SvdInductive == Spec => []Inv
BY InitInv, NextInv, PTL DEF Spec

\* No loop of the SVD leaves the matrix, in any build: what it writes, it
\* writes between two of its columns.
THEOREM SvdTypeOK == Spec => []TypeOK
<1>1. Inv => TypeOK
  BY DEF Inv
<1> QED
  BY <1>1, SvdInductive, PTL

\* The search never runs off the matrix: EMP's assertion holds, and ABY does
\* not read w[-1].
THEOREM SvdAlwaysSplits == Spec => []AlwaysSplits
<1>1. Inv => AlwaysSplits
  BY DEF Inv, AlwaysSplits
<1> QED
  BY <1>1, SvdInductive, PTL

\* A singular value that is taken as converged has its element of rv1 zeroed, when
\* it is not negligible as it stands.
THEOREM SvdDecoupled == Spec => []Decoupled
<1>1. Inv => Decoupled
  BY DEF Inv, Cancelled, Decoupled
<1> QED
  BY <1>1, SvdInductive, PTL
=============================================================================
