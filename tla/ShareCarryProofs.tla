-------------------------- MODULE ShareCarryProofs --------------------------
(***************************************************************************)
(* Proofs about ShareCarry, for any number of columns, any bounds on the   *)
(* loops and any set of builds: circuit by circuit, the leaking build of   *)
(* ABY runs the loop of Svd; and every call the optimizers and the SVD     *)
(* make of an ABYParty finds the shares it needs, in the sharing and with  *)
(* the values it needs.                                                    *)
(*                                                                         *)
(* The second part states what is known of the shares at each place of the *)
(* program (Known), what a call asks for (Checks) and what it leaves       *)
(* (Then), shows each piece of circuit-building code to lead from the      *)
(* knowledge before it to the knowledge after it (Leads), and has as its   *)
(* invariant that the calls still to be made lead to what is known at the  *)
(* place the program goes to (CallsInv).                                   *)
(***************************************************************************)
EXTENDS ShareCarry, SequenceTheorems, TLAPS

LEMMA Bounds == NCols \in Nat \ {0} /\ MaxIts \in Nat \ {0} /\ MaxItr \in Nat \ {0}
BY ShareCarryAssumption, Zenon

InSvd == {"split", "testRv1", "testW", "cancel", "testF", "converge", "qr", "finish"}
Iterating == InSvd \cup {"start", "iterate", "svd", "inverted", "decide"}

\* Where the loops are, given the place in the program.
Placed ==
  /\ at \in InSvd => k \in 0 .. NCols - 1
  /\ at \in {"testRv1", "testW", "cancel", "testF", "converge", "qr", "finish"} => l \in 0 .. k
  /\ at \in {"cancel", "testF"} => i \in l .. k
  /\ at = "qr" => i \in l .. k - 1
  /\ at = "finish" => l < k
  /\ at \in Iterating => itr < MaxItr

\* While the search goes down from k, the rows it has passed have elements
\* that are not zero: this is why the row it stops at is the first with one.
SearchInv ==
  /\ Searching => i = 0
  /\ at \in {"testRv1", "testW"} => \A y \in l + 1 .. k : y \notin zero
  /\ at = "testW" => l # 0 /\ l \notin zero

\* rv1[0] is zero except while a sweep that began at column 0 is under way,
\* and then what follows the sweep restores it.
FirstIsZero == (at \in {"qr", "finish"} /\ l = 0) \/ 0 \in zero

LoopInv == LoopsTypeOK /\ Placed /\ SearchInv /\ FirstIsZero

----------------------------------------------------------------------------
(* The invariant.                                                          *)

LEMMA InitLoop == Init => LoopInv
<1> SUFFICES ASSUME Init PROVE LoopInv
  OBVIOUS
<1>1. flag \in BOOLEAN
  BY Zenon DEF Init, SvdInit
<1>2. 0 \in Column /\ k \in 0 .. NCols - 1
  BY Bounds DEF Init, SvdInit, Column
<1>3. LoopsTypeOK
  BY <1>1, <1>2, Bounds DEF Init, SvdInit, LoopsTypeOK, Place
<1>4. Placed /\ SearchInv /\ FirstIsZero
  BY <1>2, Bounds
     DEF Init, SvdInit, Placed, SearchInv, FirstIsZero, Searching, InSvd, Iterating
<1> QED
  BY <1>3, <1>4 DEF LoopInv

\* Only the SVD moves its variables; the optimizer never jumps into it.
LEMMA OptimizerMoves ==
  ASSUME Step \/ BuildAndRun \/ Iteration \/ Inverted \/ Decide \/ Finish
  PROVE  /\ UNCHANGED svdVars
         /\ \/ at' = at
            \/ /\ at \in {"start", "iterate", "inverted", "decide", "return"}
               /\ at' \in {"iterate", "svd", "decide", "return", "end"}
<1>1. CASE Step
  BY <1>1 DEF Step
<1>2. CASE BuildAndRun
  BY <1>2 DEF BuildAndRun, Run
<1>3. CASE Iteration
  BY <1>3 DEF Iteration, Run
<1>4. CASE Inverted
  BY <1>4 DEF Inverted, Run
<1>5. CASE Decide
  BY <1>5 DEF Decide, Run
<1>6. CASE Finish
  BY <1>6 DEF Finish, Run
<1> QED
  BY <1>1, <1>2, <1>3, <1>4, <1>5, <1>6

\* An iteration is only begun below the bound.
LEMMA IterationsBounded ==
  ASSUME LoopInv, Step \/ BuildAndRun \/ Iteration \/ Inverted \/ Decide \/ Finish
  PROVE  itr' \in 0 .. MaxItr /\ (at' \in Iterating => itr' < MaxItr)
<1>1. itr \in 0 .. MaxItr /\ (at \in Iterating => itr < MaxItr)
  BY DEF LoopInv, LoopsTypeOK, Placed
<1>2. CASE Step
  BY <1>1, <1>2 DEF Step
<1>3. CASE BuildAndRun \/ Iteration \/ Inverted
  BY <1>1, <1>3 DEF BuildAndRun, Iteration, Inverted, Run, Iterating
<1>4. CASE Decide
  BY <1>1, <1>4, Bounds DEF Decide, Run, Iterating, InSvd
<1>5. CASE Finish
  BY <1>1, <1>5 DEF Finish, Run, Iterating, InSvd
<1> QED
  BY <1>2, <1>3, <1>4, <1>5

LEMMA OptimizerLoop ==
  ASSUME LoopInv, Step \/ BuildAndRun \/ Iteration \/ Inverted \/ Decide \/ Finish
  PROVE  LoopInv'
<1>1. UNCHANGED <<k, its, l, flag, i, zero, op>>
  BY OptimizerMoves DEF svdVars
<1>2. LoopsTypeOK'
  BY <1>1, OptimizerMoves, IterationsBounded DEF LoopInv, LoopsTypeOK, Place, Column
<1>3. Placed'
  BY <1>1, OptimizerMoves, IterationsBounded DEF LoopInv, Placed, InSvd, Iterating
<1>4. SearchInv' /\ FirstIsZero'
  BY <1>1, OptimizerMoves DEF LoopInv, SearchInv, FirstIsZero, Searching
<1> QED
  BY <1>2, <1>3, <1>4 DEF LoopInv

LEMMA BeginLoop ==
  ASSUME LoopInv, RunSvdLoopLeak \/ Search
  PROVE  LoopInv'
<1>1. CASE RunSvdLoopLeak
  <2>1. /\ at = "svd" /\ at' = "split" /\ itr' = itr
        /\ k' = NCols - 1 /\ its' = 0 /\ l' = 0 /\ i' = 0 /\ zero' = {0}
    BY <1>1 DEF RunSvdLoopLeak, Run
  <2>2. flag' \in BOOLEAN
    BY <1>1, Zenon DEF RunSvdLoopLeak
  <2>3. 0 \in Column /\ k' \in 0 .. NCols - 1
    BY <2>1, Bounds DEF Column
  <2>4. LoopsTypeOK'
    BY <2>1, <2>2, <2>3, Bounds DEF LoopInv, LoopsTypeOK, Place, Column
  <2>5. Placed' /\ SearchInv' /\ FirstIsZero'
    BY <2>1, <2>3
       DEF LoopInv, Placed, InSvd, Iterating, SearchInv, FirstIsZero, Searching
  <2> QED
    BY <2>4, <2>5 DEF LoopInv
<1>2. CASE Search
  BY <1>2, Bounds
     DEF LoopInv, LoopsTypeOK, Place, Column, Placed, InSvd, Iterating, SearchInv, FirstIsZero,
         Searching, Run, Search
<1> QED
  BY <1>1, <1>2

LEMMA TestLoop ==
  ASSUME LoopInv, TestRv1 \/ TestW
  PROVE  LoopInv'
<1>1. /\ k \in 0 .. NCols - 1 /\ l \in 0 .. k /\ i = 0 /\ 0 \in zero /\ itr < MaxItr
      /\ \A y \in l + 1 .. k : y \notin zero
  BY DEF LoopInv, Placed, InSvd, Iterating, SearchInv, FirstIsZero, Searching, TestRv1, TestW
<1>2. CASE TestRv1
  <2>1. /\ \/ at' = "converge" /\ flag' = FALSE
           \/ at' = "testW" /\ l # 0 /\ l \notin zero /\ flag' = flag
        /\ UNCHANGED <<itr, k, its, l, i, zero>>
    BY <1>1, <1>2 DEF TestRv1, Run
  <2>2. LoopsTypeOK'
    BY <2>1 DEF LoopInv, LoopsTypeOK, Place
  <2>3. Placed' /\ SearchInv' /\ FirstIsZero'
    BY <1>1, <2>1 DEF Placed, InSvd, Iterating, SearchInv, FirstIsZero, Searching
  <2> QED
    BY <2>2, <2>3 DEF LoopInv
<1>3. CASE TestW
  <2>1. l # 0 /\ l \notin zero
    BY <1>3 DEF LoopInv, SearchInv, TestW
  <2>2. CASE at' = "testRv1" /\ l' = l - 1 /\ UNCHANGED <<itr, k, its, flag, i, zero>>
    <3>1. l' \in 0 .. k' /\ \A y \in l' + 1 .. k' : y \notin zero'
      BY <1>1, <2>1, <2>2, Bounds
    <3>2. LoopsTypeOK'
      BY <1>1, <2>2, <3>1, Bounds DEF LoopInv, LoopsTypeOK, Place, Column
    <3>3. Placed' /\ SearchInv' /\ FirstIsZero'
      BY <1>1, <2>2, <3>1 DEF Placed, InSvd, Iterating, SearchInv, FirstIsZero, Searching
    <3> QED
      BY <3>2, <3>3 DEF LoopInv
  <2>3. CASE at' = "cancel" /\ flag' = TRUE /\ i' = l /\ UNCHANGED <<itr, k, its, l, zero>>
    <3>1. LoopsTypeOK'
      BY <2>3 DEF LoopInv, LoopsTypeOK, Place
    <3>2. Placed' /\ SearchInv' /\ FirstIsZero'
      BY <1>1, <2>3, Bounds
         DEF Placed, InSvd, Iterating, SearchInv, FirstIsZero, Searching
    <3> QED
      BY <3>1, <3>2 DEF LoopInv
  <2> QED
    BY <1>3, <2>2, <2>3 DEF TestW, Run
<1> QED
  BY <1>2, <1>3

LEMMA CancelLoop ==
  ASSUME LoopInv, Cancel \/ TestF
  PROVE  LoopInv'
<1>1. k \in 0 .. NCols - 1 /\ l \in 0 .. k /\ i \in l .. k /\ 0 \in zero /\ itr < MaxItr
  BY DEF LoopInv, Placed, InSvd, Iterating, FirstIsZero, Cancel, TestF
<1>2. CASE Cancel
  BY <1>1, <1>2
     DEF LoopInv, LoopsTypeOK, Place, Placed, InSvd, Iterating, SearchInv, FirstIsZero,
         Searching, svdVars, Run, Cancel
<1>3. CASE TestF
  <2>1. /\ \/ at' = "converge" /\ i' = 0
           \/ at' = "cancel" /\ i # k /\ i' = i + 1
        /\ zero' = (IF i = l THEN zero \cup {i} ELSE zero)
        /\ UNCHANGED <<itr, k, its, l, flag>>
    BY <1>3 DEF TestF, Run
  <2>2. LoopsTypeOK'
    BY <1>1, <2>1, Bounds DEF LoopInv, LoopsTypeOK, Place, Column
  <2>3. Placed' /\ SearchInv' /\ FirstIsZero'
    BY <1>1, <2>1, Bounds DEF Placed, InSvd, Iterating, SearchInv, FirstIsZero, Searching
  <2> QED
    BY <2>2, <2>3 DEF LoopInv
<1> QED
  BY <1>2, <1>3

LEMMA SweepLoop ==
  ASSUME LoopInv, Shift \/ Sweep
  PROVE  LoopInv'
<1>1. k \in 0 .. NCols - 1 /\ l \in 0 .. k /\ itr < MaxItr
  BY DEF LoopInv, Placed, InSvd, Iterating, Shift, Sweep
<1>2. CASE Shift
  <2>1. 0 \in zero
    BY <1>2 DEF LoopInv, FirstIsZero, Shift
  <2>2. l # k /\ at' = "qr" /\ i' = l /\ UNCHANGED <<itr, k, its, l, flag, zero>>
    BY <1>2 DEF Shift, Run
  <2>3. LoopsTypeOK'
    BY <2>2 DEF LoopInv, LoopsTypeOK, Place
  <2>4. Placed' /\ SearchInv' /\ FirstIsZero'
    BY <1>1, <2>1, <2>2, Bounds DEF Placed, InSvd, Iterating, SearchInv, FirstIsZero, Searching
  <2> QED
    BY <2>3, <2>4 DEF LoopInv
<1>3. CASE Sweep
  <2>1. i \in l .. k - 1 /\ (l = 0 \/ 0 \in zero)
    BY <1>3 DEF LoopInv, Placed, FirstIsZero, Sweep
  <2>2. /\ at' = (IF i + 1 = k THEN "finish" ELSE "qr") /\ i' = i + 1 /\ zero' = zero \ {i}
        /\ UNCHANGED <<itr, k, its, l, flag>>
    BY <1>3 DEF Sweep, Run
  <2>3. LoopsTypeOK'
    BY <1>1, <2>1, <2>2, Bounds DEF LoopInv, LoopsTypeOK, Place, Column
  <2>4. Placed' /\ SearchInv' /\ FirstIsZero'
    BY <1>1, <2>1, <2>2, Bounds DEF Placed, InSvd, Iterating, SearchInv, FirstIsZero, Searching
  <2> QED
    BY <2>3, <2>4 DEF LoopInv
<1> QED
  BY <1>2, <1>3

\* Where the next singular value is taken up, or the same one once more.
LEMMA ConvergeLoop ==
  ASSUME LoopInv, Converge \/ FinishSweep
  PROVE  LoopInv'
<1>1. k \in 0 .. NCols - 1 /\ l \in 0 .. k /\ itr < MaxItr /\ its \in 0 .. MaxIts - 1
  BY DEF LoopInv, LoopsTypeOK, Placed, InSvd, Iterating, Converge, FinishSweep
<1>2. 0 \in zero' /\ zero' \subseteq Column
  <2>1. CASE Converge
    BY <2>1 DEF LoopInv, LoopsTypeOK, FirstIsZero, Converge
  <2>2. CASE FinishSweep
    <3>1. zero' = (zero \cup {l}) \ {k} /\ l < k /\ (l = 0 \/ 0 \in zero)
      BY <2>2 DEF LoopInv, Placed, FirstIsZero, FinishSweep
    <3> QED
      BY <1>1, <3>1 DEF LoopInv, LoopsTypeOK
  <2> QED
    BY <2>1, <2>2
<1>3. /\ \/ at' = "inverted" /\ k' = -1
         \/ at' = "split" /\ k' \in 0 .. NCols - 1
      /\ its' \in 0 .. MaxIts - 1
  BY <1>1, Bounds DEF Converge, FinishSweep, Run
<1>4. l' = 0 /\ i' = 0 /\ itr' = itr
  BY DEF Converge, FinishSweep, Rest
<1>5. LoopsTypeOK'
  <2>1. flag' \in BOOLEAN
    BY Zenon DEF Converge, FinishSweep, Rest
  <2>2. 0 \in Column
    BY Bounds DEF Column
  <2> QED
    BY <1>1, <1>2, <1>3, <1>4, <2>1, <2>2, Bounds DEF LoopInv, LoopsTypeOK, Place
<1>6. Placed' /\ SearchInv' /\ FirstIsZero'
  BY <1>1, <1>2, <1>3, <1>4, Bounds
     DEF Placed, InSvd, Iterating, SearchInv, FirstIsZero, Searching
<1> QED
  BY <1>5, <1>6 DEF LoopInv

LEMMA NextLoop == LoopInv /\ [Next]_vars => LoopInv'
<1> SUFFICES ASSUME LoopInv, [Next]_vars PROVE LoopInv'
  OBVIOUS
<1>1. CASE UNCHANGED vars
  BY <1>1 DEF LoopInv, LoopsTypeOK, Placed, SearchInv, FirstIsZero, Searching, vars, svdVars
<1>2. CASE Next
  BY <1>2, OptimizerLoop, BeginLoop, TestLoop, CancelLoop, SweepLoop, ConvergeLoop DEF Next, Svd
<1> QED
  BY <1>1, <1>2

----------------------------------------------------------------------------
(* The refinement.                                                         *)

LEMMA InitIsSvd == Init => S!Init
BY Bounds DEF Init, SvdInit, Op, S!Init, S!Op, SvdPlace, Searching

\* What the optimizer does outside the SVD, and between two circuits of the
\* search, changes nothing there.
LEMMA OutsideStutters ==
  ASSUME LoopInv,
         \/ Step \/ BuildAndRun \/ Iteration \/ Inverted \/ Decide \/ Finish
         \/ UNCHANGED vars
  PROVE  UNCHANGED S!vars
BY OptimizerMoves DEF S!vars, SvdPlace, Searching, vars, svdVars

LEMMA RestartIsInit ==
  ASSUME RunSvdLoopLeak
  PROVE  (S!Init)'
BY Bounds DEF RunSvdLoopLeak, Run, Op, S!Init, S!Op, SvdPlace, Searching

LEMMA SearchStutters ==
  ASSUME LoopInv, Search \/ Cancel
  PROVE  UNCHANGED S!vars
BY DEF LoopInv, Placed, InSvd, S!vars, SvdPlace, Searching, svdVars, Run, Search, Cancel

\* The circuits of a search are one step of Svd: the one in which it stops.
LEMMA TestRv1IsSplit ==
  ASSUME LoopInv, TestRv1
  PROVE  S!Split \/ UNCHANGED S!vars
<1>1. k \in 0 .. NCols - 1 /\ l \in 0 .. k /\ i = 0 /\ \A y \in l + 1 .. k : y \notin zero
  BY DEF LoopInv, Placed, SearchInv, Searching, InSvd, TestRv1
<1>2. SvdPlace = "split" /\ Searching
  BY <1>1, Bounds DEF SvdPlace, Searching, TestRv1, Run
<1>3. UNCHANGED <<k, its, i, zero, op, l>>
  BY DEF TestRv1
<1>4. CASE at' = "converge" /\ flag' = FALSE
  <2> DEFINE rsmall == (zero \cap (0 .. k)) \cup {l}
  <2>1. S!SplitsAt(l, rsmall, {})
    BY <1>1 DEF S!SplitsAt, S!Splits
  <2>2. SvdPlace' = "converge" /\ ~Searching'
    BY <1>1, <1>3, <1>4 DEF SvdPlace, Searching
  <2>3. rsmall \in SUBSET (0 .. k) /\ {} \in SUBSET (0 .. k) /\ l \in rsmall
    BY <1>1
  <2>4. S!Search
    BY <1>1, <1>3, <1>4, <2>1, <2>2, <2>3 DEF S!Search
  <2> QED
    BY <1>2, <1>3, <2>4 DEF S!Split, S!LOOP_LEAK, LOOP_LEAK, S!SiSL
<1>5. CASE l \notin zero /\ l = 0 /\ at' = "outside" /\ UNCHANGED flag
  <2> DEFINE rsmall == zero \cap (0 .. k)
  <2>1. \A x \in 0 .. k : ~S!Splits(x, rsmall, {})
    BY <1>1, <1>5 DEF S!Splits
  <2>2. SvdPlace' = "failed" /\ ~Searching'
    BY <1>1, <1>3, <1>5 DEF SvdPlace, Searching
  <2>3. rsmall \in SUBSET (0 .. k) /\ {} \in SUBSET (0 .. k)
    OBVIOUS
  <2>4. S!Search
    BY <1>2, <1>3, <1>5, <2>1, <2>2, <2>3 DEF S!Search
  <2> QED
    BY <1>2, <1>3, <2>4 DEF S!Split, S!LOOP_LEAK, LOOP_LEAK, S!SiSL
<1>6. CASE at' = "testW" /\ UNCHANGED flag
  BY <1>1, <1>2, <1>3, <1>6 DEF S!vars, SvdPlace, Searching
<1> QED
  BY <1>4, <1>5, <1>6 DEF TestRv1, Run

LEMMA TestWIsSplit ==
  ASSUME LoopInv, TestW
  PROVE  S!Split \/ UNCHANGED S!vars
<1>1. /\ k \in 0 .. NCols - 1 /\ l \in 0 .. k /\ \A y \in l + 1 .. k : y \notin zero
      /\ l # 0 /\ l \notin zero
  BY DEF LoopInv, Placed, SearchInv, InSvd, TestW
<1>2. SvdPlace = "split" /\ Searching
  BY <1>1, Bounds DEF SvdPlace, Searching, TestW, Run
<1>3. UNCHANGED <<k, its, zero, op>>
  BY DEF TestW
<1>4. CASE at' = "cancel" /\ flag' = TRUE /\ i' = l /\ l' = l
  <2> DEFINE rsmall == zero \cap (0 .. k)
  <2>1. S!SplitsAt(l, rsmall, {l - 1})
    BY <1>1, Bounds DEF S!SplitsAt, S!Splits
  <2>2. SvdPlace' = "cancel" /\ ~Searching'
    BY <1>1, <1>3, <1>4 DEF SvdPlace, Searching
  <2>3. rsmall \in SUBSET (0 .. k) /\ {l - 1} \in SUBSET (0 .. k) /\ l \notin rsmall
    BY <1>1, Bounds
  <2>4. S!Search
    BY <1>1, <1>3, <1>4, <2>1, <2>2, <2>3 DEF S!Search
  <2> QED
    BY <1>2, <1>3, <2>4 DEF S!Split, S!LOOP_LEAK, LOOP_LEAK, S!SiSL
<1>5. CASE at' = "testRv1" /\ UNCHANGED <<flag, i>>
  BY <1>1, <1>2, <1>3, <1>5 DEF S!vars, SvdPlace, Searching
<1> QED
  BY <1>4, <1>5 DEF TestW, Run

LEMMA LoopIsSvd ==
  ASSUME LoopInv
  PROVE  /\ TestF => S!Cancel
         /\ Converge => S!Converge
         /\ Shift => S!Shift
         /\ Sweep => S!Sweep
         /\ FinishSweep => S!Finish
<1>1. TestF => S!Cancel
  <2> SUFFICES ASSUME TestF PROVE S!Cancel
    OBVIOUS
  <2>1. k \in 0 .. NCols - 1 /\ k' = k
    BY DEF LoopInv, Placed, InSvd, TestF
  <2>2. SvdPlace = "cancel" /\ ~Searching
    BY <2>1 DEF SvdPlace, Searching, TestF, Run
  <2>3. SvdPlace' = at' /\ ~Searching'
    BY <2>1 DEF SvdPlace, Searching, TestF, Run
  <2> QED
    BY <2>1, <2>2, <2>3 DEF S!Cancel, TestF, Run, Op, S!Op
<1>2. Converge => S!Converge
  <2> SUFFICES ASSUME Converge PROVE S!Converge
    OBVIOUS
  <2>1. k \in 0 .. NCols - 1 /\ k' = k - 1
    BY DEF LoopInv, Placed, InSvd, Converge
  <2>2. SvdPlace = "converge" /\ ~Searching
    BY <2>1 DEF SvdPlace, Searching, Converge
  <2>3. SvdPlace' = (IF k = 0 THEN "done" ELSE "split")
    BY <2>1, Bounds DEF SvdPlace, Converge, Run
  <2>4. (IF Searching THEN 0 ELSE l)' = 0
    BY DEF Searching, Converge, Rest
  <2> QED
    BY <2>1, <2>2, <2>3, <2>4 DEF S!Converge, S!NextColumn, S!Rest, Converge, Rest, Op, S!Op
<1>3. Shift => S!Shift
  <2> SUFFICES ASSUME Shift PROVE S!Shift
    OBVIOUS
  <2>1. k \in 0 .. NCols - 1 /\ k' = k
    BY DEF LoopInv, Placed, InSvd, Shift
  <2>2. SvdPlace = "converge" /\ ~Searching /\ SvdPlace' = "qr" /\ ~Searching'
    BY <2>1 DEF SvdPlace, Searching, Shift, Run
  <2> QED
    BY <2>2 DEF S!Shift, Shift, Op, S!Op
<1>4. Sweep => S!Sweep
  <2> SUFFICES ASSUME Sweep PROVE S!Sweep
    OBVIOUS
  <2>1. k \in 0 .. NCols - 1 /\ k' = k
    BY DEF LoopInv, Placed, InSvd, Sweep
  <2>2. SvdPlace = "qr" /\ ~Searching /\ SvdPlace' = at' /\ ~Searching'
    BY <2>1 DEF SvdPlace, Searching, Sweep, Run
  <2> QED
    BY <2>2 DEF S!Sweep, Sweep, Run, Op, S!Op
<1>5. FinishSweep => S!Finish
  <2> SUFFICES ASSUME FinishSweep PROVE S!Finish
    OBVIOUS
  <2>1. k \in 0 .. NCols - 1
    BY DEF LoopInv, Placed, InSvd, FinishSweep
  <2>2. SvdPlace = "finish" /\ ~Searching
    BY <2>1 DEF SvdPlace, Searching, FinishSweep
  <2>3. SvdPlace' = (IF its + 1 = MaxIts /\ k = 0 THEN "done" ELSE "split")
    BY <2>1, Bounds DEF SvdPlace, FinishSweep, Run
  <2>4. (IF Searching THEN 0 ELSE l)' = 0
    BY DEF Searching, FinishSweep, Rest
  <2> QED
    BY <2>1, <2>2, <2>3, <2>4
       DEF S!Finish, S!NextIteration, S!NextColumn, S!Rest, FinishSweep, Rest, Op, S!Op
<1> QED
  BY <1>1, <1>2, <1>3, <1>4, <1>5

LEMMA NextIsSvd == LoopInv /\ [Next]_vars => [S!Next \/ (S!Init)']_(S!vars)
<1> SUFFICES ASSUME LoopInv, [Next]_vars PROVE S!Next \/ (S!Init)' \/ UNCHANGED S!vars
  OBVIOUS
<1>1. CASE \/ Step \/ BuildAndRun \/ Iteration \/ Inverted \/ Decide \/ Finish
           \/ UNCHANGED vars
  BY <1>1, OutsideStutters
<1>2. CASE RunSvdLoopLeak
  BY <1>2, RestartIsInit
<1>3. CASE Search \/ Cancel
  BY <1>3, SearchStutters
<1>4. CASE TestRv1 \/ TestW
  BY <1>4, TestRv1IsSplit, TestWIsSplit DEF S!Next
<1>5. CASE TestF \/ Converge \/ Shift \/ Sweep \/ FinishSweep
  BY <1>5, LoopIsSvd DEF S!Next
<1> QED
  BY <1>1, <1>2, <1>3, <1>4, <1>5 DEF Next, Svd

----------------------------------------------------------------------------
(* What is known of the party while it makes its calls.  A call asks for    *)
(* something to be known (Checks) and changes it (Then), so that a sequence *)
(* of calls leads from one state of knowledge to another, whatever the     *)
(* values are: the calls that are still to be made are judged as a whole,  *)
(* before the first is.                                                    *)

CallRecord == [kind : Kind, of : SUBSET Var, sharing : Sharing, reads : SUBSET Var]

\* Shares on the circuit, by their sharing; those put out; shares, raw shares
\* and buffers that have the value last computed; and how far the circuit is.
Knowledge ==
  [bool : SUBSET Var, yao : SUBSET Var, outs : SUBSET Var, fresh : SUBSET Var,
   raws : SUBSET Var, saved : SUBSET Var, phase : {"open", "executed", "counted"}]
Know(b, y, o, f, r, s, p) ==
  [bool |-> b, yao |-> y, outs |-> o, fresh |-> f, raws |-> r, saved |-> s, phase |-> p]

Gates(K, s) == IF s = BOOL THEN K.bool ELSE K.yao

\* The knowledge is true.
Holds(K) ==
  /\ \A v \in K.bool : share[v].live /\ ~share[v].out /\ share[v].sharing = BOOL
  /\ \A v \in K.yao : share[v].live /\ ~share[v].out /\ share[v].sharing = YAO
  /\ \A v \in K.outs : share[v].live /\ share[v].out
  /\ \A v \in K.fresh : share[v].value = "new"
  /\ \A v \in K.raws : raw[v] = "new"
  /\ \A v \in K.saved : carried[v] = "new"
  /\ executed <=> K.phase # "open"
  /\ K.phase = "counted" => counted

\* What has to be known before a call: its gates are put on a circuit that has
\* not been executed and on shares of its own sharing, built from the latest
\* values; it reads output gates of an executed circuit; what was executed is
\* counted before it is reset.
Checks(c, K) ==
  /\ PutsGates(c) => K.phase = "open"
  /\ c.kind \in {"convert", "sharedout", "out"} => c.of \subseteq Gates(K, c.sharing)
  /\ c.kind = "build" => /\ c.sharing = context
                         /\ c.reads \subseteq Gates(K, context) \cap K.fresh
  /\ c.kind \in {"get", "save"} => c.of \subseteq K.outs /\ K.phase # "open"
  /\ c.kind = "count" => K.phase = "executed"
  /\ c.kind = "reset" => K.phase = "counted"
  /\ c.kind = "set" => c.reads = {}
  /\ c.kind \in {"move", "lend"} => \E to, from \in Var :
       to # from /\ c.of = {to} /\ c.reads = {from} /\ from \in K.raws

\* New gates of sharing s in the shares of; those of new have the latest value.
Put(K, of, s, new) ==
  Know(IF s = BOOL THEN K.bool \cup of ELSE K.bool \ of,
       IF s = YAO THEN K.yao \cup of ELSE K.yao \ of,
       K.outs \ of, (K.fresh \ of) \cup new, K.raws, K.saved, K.phase)

\* What is known after a call.
Then(c, K) ==
  CASE c.kind = "input" -> Put(K, c.of, c.sharing, c.of)
    [] c.kind = "in" -> Put(K, c.of, BOOL, c.of \cap K.raws)
    [] c.kind = "restore" -> [Put(K, c.of, BOOL, c.of \cap K.saved) EXCEPT !.saved = {}]
    [] c.kind = "convert" -> Put(K, c.of, Other(c.sharing), c.of \cap K.fresh)
    [] c.kind = "build" ->
         [Put(K, c.of, context, c.of) EXCEPT !.raws = K.raws \ c.of, !.saved = K.saved \ c.of]
    [] c.kind \in {"sharedout", "out"} ->
         Know(K.bool \ c.of, K.yao \ c.of, K.outs \cup c.of, K.fresh, K.raws, K.saved, K.phase)
    [] c.kind = "exec" -> [K EXCEPT !.phase = "executed"]
    [] c.kind = "count" -> [K EXCEPT !.phase = "counted"]
    [] c.kind = "get" -> [K EXCEPT !.raws = (K.raws \ c.of) \cup (c.of \cap K.fresh)]
    [] c.kind = "save" -> [K EXCEPT !.saved = (K.saved \ c.of) \cup (c.of \cap K.fresh)]
    [] c.kind = "reset" -> Know({}, {}, {}, {}, K.raws, K.saved, "open")
    [] c.kind \in {"set", "move"} -> [K EXCEPT !.raws = K.raws \cup c.of]
    [] c.kind = "lend" -> [K EXCEPT !.raws = (K.raws \cup c.of) \ c.reads]

\* L claims no more than K.
Below(L, K) ==
  /\ L.bool \subseteq K.bool /\ L.yao \subseteq K.yao /\ L.outs \subseteq K.outs
  /\ L.fresh \subseteq K.fresh /\ L.raws \subseteq K.raws /\ L.saved \subseteq K.saved
  /\ L.phase = K.phase

\* Each of the calls s can be made, and L is known after the last of them.
Leads(K, s, L) ==
  /\ s \in Seq(CallRecord)
  /\ \E known \in [0 .. Len(s) -> Knowledge] :
       /\ Below(known[0], K)
       /\ known[Len(s)] = L
       /\ \A n \in 1 .. Len(s) : /\ Checks(s[n], known[n - 1])
                                 /\ Below(known[n], Then(s[n], known[n - 1]))

----------------------------------------------------------------------------
(* What is known at each place of the program, when all calls are made.    *)

\* Between two circuits there are only raw shares, some of them saved.
Between(r, s) == Know({}, {}, {}, {}, r, s, "open")
\* A circuit under construction: gates g in the solver's sharing, f up to date.
Circuit(g, f, r, s) ==
  Know(IF context = BOOL THEN g ELSE {}, IF context = YAO THEN g ELSE {}, {}, f, r, s, "open")
\* The same when those of b are boolean whatever the solver prefers.
Mixed(g, f, r, s, b) ==
  Know(IF context = BOOL THEN g ELSE b, IF context = YAO THEN g \ b ELSE {}, {}, f, r, s, "open")

\* What is not computed anew by an iteration.
Given == {The("threeDPts"), The("y0"), The("camera")}
\* What the loop over singular values works on.
Matrix == Given \cup SvdPart1

Known(p) ==
  CASE p = "start" -> Between({}, {})
    [] p \in {"iterate", "return"} ->
         IF flow = DO THEN Circuit(Inputs \cup State, Inputs \cup State, {}, {})
                      ELSE Between(Inputs \cup State, {})
    [] p = "decide" ->
         IF flow = DO THEN Circuit(Inputs \cup State, Inputs \cup State, {}, {})
                      ELSE Between(Inputs \cup State \cup {The("bit")}, {})
    [] p = "end" -> Know({}, {}, {}, {}, {The("x")}, {}, "executed")
    [] p = "svd" -> Between(Given \cup All("a"), Carry)
    [] p \in {"split", "converge", "inverted"} -> Between(Matrix, Carry)
    [] p \in {"testRv1", "testW"} -> Between(Matrix \cup {The("bit")}, Carry)
    [] p = "cancel" -> Between(Matrix \cup {The("cc"), The("s")}, Carry)
    [] p = "testF" -> Between(Matrix \cup {The("cc"), The("s"), The("f"), The("bit")}, Carry)
    [] p \in {"qr", "finish"} ->
         Circuit(SvdPart2 \cup {The("fx")}, SvdPart2 \cup {The("fx")},
                 Given \cup {The("anorm")}, Carry)

\* The build at hand, and what is only run by the leaking one.
ConfigInv ==
  /\ context \in Sharing
  /\ method \in {LM, GN}
  /\ flow \in {DO, LOOP_LEAK, SiSL}
  /\ CallerSharing = (IF flow = DO THEN context ELSE BOOL)
  /\ at \in InSvd \cup {"svd", "inverted"} => flow = LOOP_LEAK
  /\ at \in {"cancel", "testF"} => l # 0

\* The calls that are left can be made, and lead to what is known at the place
\* the program goes to.
CallsInv == PartyTypeOK /\ \E K \in Knowledge : Holds(K) /\ Leads(K, todo, Known(at))
----------------------------------------------------------------------------
(* One call.                                                               *)

\* The type of the party, apart from the sharing of the solver.
LEMMA PerformType ==
  ASSUME PartyTypeOK, NEW c \in CallRecord, NEW K \in Knowledge, Checks(c, K), Perform(c),
         context' = context
  PROVE  PartyTypeOK'
<1>1. c.of \subseteq Var /\ c.reads \subseteq Var /\ c.sharing \in Sharing
  BY DEF CallRecord
<1>2. \A s \in Sharing, x \in Value : Gate(s, x) \in Share
  BY DEF Gate, Share
<1>3. \A v \in Var : share[v] \in Share /\ raw[v] \in Value /\ carried[v] \in Value
  BY DEF PartyTypeOK
<1>4. /\ "new" \in Value /\ "none" \in Value /\ "old" \in Value /\ BOOL \in Sharing
      /\ context \in Sharing
      /\ \A s \in Sharing : Other(s) \in Sharing
      /\ \A v \in Var, s \in Sharing : Passed(v, s) \in Value /\ Opened(v) \in Value
  BY <1>3 DEF Value, Sharing, Other, Passed, Opened, Share, PartyTypeOK
<1>5. \A of \in SUBSET Var : \A sh \in [of -> Share] :
        NewShares(of, sh) => share' \in [Var -> Share]
  BY <1>3 DEF NewShares
<1>6. \A of \in SUBSET Var : \A val \in [of -> Value] :
        NewRaw(of, val) => raw' \in [Var -> Value]
  BY <1>3 DEF NewRaw
<1>7. \A of \in SUBSET Var : \A mem \in [Var -> Value] : Outdated(mem, of) \in [Var -> Value]
  BY <1>4 DEF Outdated
<1>8. CASE c.kind = "input"
  <2>1. [v \in c.of |-> Gate(c.sharing, "new")] \in [c.of -> Share]
    BY <1>1, <1>2, <1>4
  <2> QED
    BY <1>1, <1>5, <1>8, <2>1 DEF Perform, PutInput, PartyTypeOK
<1>9. CASE c.kind = "in"
  <2>1. [v \in c.of |-> Gate(BOOL, raw[v])] \in [c.of -> Share]
    BY <1>1, <1>2, <1>3, <1>4
  <2> QED
    BY <1>1, <1>5, <1>9, <2>1 DEF Perform, PutSharedIn, PartyTypeOK
<1>10. CASE c.kind = "convert"
  <2>1. [v \in c.of |-> Gate(Other(c.sharing), Passed(v, c.sharing))] \in [c.of -> Share]
    BY <1>1, <1>2, <1>4
  <2> QED
    BY <1>1, <1>5, <1>10, <2>1 DEF Perform, Convert, PartyTypeOK
<1>11. CASE c.kind = "build"
  <2> DEFINE known == \A v \in c.reads : Passed(v, context) = "new"
             sh == [v \in c.of |-> Gate(context, IF known THEN "new" ELSE "none")]
  <2>1. sh \in [c.of -> Share]
    BY <1>2, <1>4
  <2>2. NewShares(c.of, sh) /\ raw' = Outdated(raw, c.of) /\ carried' = Outdated(carried, c.of)
        /\ UNCHANGED <<executed, counted>>
    BY <1>11 DEF Perform, PutGates
  <2> QED
    BY <1>1, <1>5, <1>7, <2>1, <2>2 DEF PartyTypeOK
<1>12. CASE c.kind \in {"sharedout", "out"}
  <2> DEFINE sh == [v \in c.of |-> [Gate(c.sharing, Passed(v, c.sharing)) EXCEPT !.out = TRUE]]
  <2>1. sh \in [c.of -> Share]
    BY <1>1, <1>4 DEF Gate, Share
  <2> QED
    BY <1>1, <1>5, <1>12, <2>1 DEF Perform, PutOut, PartyTypeOK
<1>13. CASE c.kind \in {"exec", "count"}
  BY <1>13 DEF Perform, ExecCircuit, Collect, PartyTypeOK
<1>14. CASE c.kind \in {"get", "save"}
  <2>1. [v \in c.of |-> Opened(v)] \in [c.of -> Value]
    BY <1>1, <1>4
  <2>2. carried' = carried \/ carried' = [v \in Var |-> IF v \in c.of THEN Opened(v) ELSE carried[v]]
    BY <1>14 DEF Perform, GetClearValue
  <2>3. carried' \in [Var -> Value]
    BY <1>1, <1>3, <1>4, <2>2 DEF PartyTypeOK
  <2> QED
    BY <1>1, <1>6, <1>14, <2>1, <2>3 DEF Perform, GetClearValue, PartyTypeOK
<1>15. CASE c.kind = "restore"
  <2>1. [v \in c.of |-> Gate(BOOL, carried[v])] \in [c.of -> Share]
    BY <1>1, <1>2, <1>3, <1>4
  <2> QED
    BY <1>1, <1>4, <1>5, <1>15, <2>1 DEF Perform, PutCarried, PartyTypeOK
<1>16. CASE c.kind = "reset"
  <2>1. share' \in [Var -> Share]
    BY <1>3, <1>16 DEF Perform, ResetCircuit, Share
  <2> QED
    BY <1>16, <2>1 DEF Perform, ResetCircuit, PartyTypeOK
<1>17. CASE c.kind \in {"set", "move", "lend"}
  <2>1. [v \in c.of |-> "new"] \in [c.of -> Value]
    BY <1>4
  <2>2. raw' \in [Var -> Value]
    BY <1>1, <1>3, <1>4, <1>6, <1>17, <2>1 DEF Perform, Assign, PartyTypeOK
  <2> QED
    BY <1>17, <2>2 DEF Perform, Assign, PartyTypeOK
<1> QED
  BY <1>8, <1>9, <1>10, <1>11, <1>12, <1>13, <1>14, <1>15, <1>16, <1>17 DEF CallRecord, Kind

LEMMA GateFields ==
  \A s, x : /\ Gate(s, x).live = TRUE /\ Gate(s, x).out = FALSE
            /\ Gate(s, x).sharing = s /\ Gate(s, x).value = x
BY DEF Gate

\* New gates: the shares of are replaced, those of new have the latest value.
LEMMA PutHolds ==
  ASSUME PartyTypeOK, NEW K \in Knowledge, Holds(K), K.phase = "open",
         NEW of \in SUBSET Var, NEW new \in SUBSET of, NEW s \in Sharing,
         \A v \in of : /\ share'[v].live /\ ~share'[v].out /\ share'[v].sharing = s
                       /\ v \in new => share'[v].value = "new",
         \A v \in Var \ of : share'[v] = share[v],
         executed' = executed, counted' = counted,
         NEW M \in Knowledge,
         /\ M.bool \subseteq Put(K, of, s, new).bool
         /\ M.yao \subseteq Put(K, of, s, new).yao
         /\ M.outs \subseteq Put(K, of, s, new).outs
         /\ M.fresh \subseteq Put(K, of, s, new).fresh,
         M.phase = K.phase,
         \A v \in M.raws : raw'[v] = "new",
         \A v \in M.saved : carried'[v] = "new"
  PROVE  Holds(M)'
<1>1. /\ K.bool \subseteq Var /\ K.yao \subseteq Var /\ K.outs \subseteq Var /\ K.fresh \subseteq Var
      /\ M.bool \subseteq Var /\ M.yao \subseteq Var /\ M.outs \subseteq Var /\ M.fresh \subseteq Var
  BY DEF Knowledge
<1>2. /\ M.bool \subseteq (IF s = BOOL THEN K.bool \cup of ELSE K.bool \ of)
      /\ M.yao \subseteq (IF s = YAO THEN K.yao \cup of ELSE K.yao \ of)
      /\ M.outs \subseteq K.outs \ of
      /\ M.fresh \subseteq (K.fresh \ of) \cup new
  BY DEF Put, Know
<1>3. \A v \in M.bool : share'[v].live /\ ~share'[v].out /\ share'[v].sharing = BOOL
  <2> SUFFICES ASSUME NEW v \in M.bool
               PROVE  share'[v].live /\ ~share'[v].out /\ share'[v].sharing = BOOL
    OBVIOUS
  <2>1. CASE v \in of
    BY <1>2, <2>1
  <2>2. CASE v \notin of
    BY <1>1, <1>2, <2>2 DEF Holds
  <2> QED
    BY <2>1, <2>2
<1>4. \A v \in M.yao : share'[v].live /\ ~share'[v].out /\ share'[v].sharing = YAO
  <2> SUFFICES ASSUME NEW v \in M.yao
               PROVE  share'[v].live /\ ~share'[v].out /\ share'[v].sharing = YAO
    OBVIOUS
  <2>1. CASE v \in of
    BY <1>2, <2>1
  <2>2. CASE v \notin of
    BY <1>1, <1>2, <2>2 DEF Holds
  <2> QED
    BY <2>1, <2>2
<1>5. \A v \in M.outs : share'[v].live /\ share'[v].out
  BY <1>1, <1>2 DEF Holds
<1>6. \A v \in M.fresh : share'[v].value = "new"
  BY <1>1, <1>2 DEF Holds
<1>7. (executed' <=> M.phase # "open") /\ M.phase # "counted"
  BY DEF Holds
<1> QED
  BY <1>3, <1>4, <1>5, <1>6, <1>7 DEF Holds

\* What is known after a call is true after it.
LEMMA PerformHolds ==
  ASSUME PartyTypeOK, NEW c \in CallRecord, NEW K \in Knowledge, NEW M \in Knowledge,
         Holds(K), Checks(c, K), Perform(c), Below(M, Then(c, K))
  PROVE  Holds(M)'
<1>1. /\ c.of \in SUBSET Var /\ c.reads \in SUBSET Var /\ c.sharing \in Sharing
      /\ BOOL \in Sharing /\ context \in Sharing /\ \A s \in Sharing : Other(s) \in Sharing
  BY DEF CallRecord, PartyTypeOK, Sharing, Other
<1>2. /\ K.bool \subseteq Var /\ K.yao \subseteq Var /\ K.outs \subseteq Var
      /\ K.fresh \subseteq Var /\ K.raws \subseteq Var /\ K.saved \subseteq Var
      /\ M.bool \subseteq Var /\ M.yao \subseteq Var /\ M.outs \subseteq Var
      /\ M.fresh \subseteq Var /\ M.raws \subseteq Var /\ M.saved \subseteq Var
  BY DEF Knowledge
<1>3. \A v \in K.raws : raw[v] = "new"
  BY DEF Holds
<1>4. \A v \in K.saved : carried[v] = "new"
  BY DEF Holds
<1>5. \A v \in K.fresh : share[v].value = "new"
  BY DEF Holds
<1>6. \A s \in Sharing : \A v \in Gates(K, s) : Fits(v, s)
  BY DEF Holds, Gates, Fits, Sharing
<1>7. CASE c.kind = "input"
  <2>1. Below(M, Put(K, c.of, c.sharing, c.of)) /\ K.phase = "open"
    BY <1>7 DEF Then, Checks, PutsGates
  <2>2. /\ \A v \in c.of : share'[v] = Gate(c.sharing, "new")
        /\ \A v \in Var \ c.of : share'[v] = share[v]
        /\ UNCHANGED <<raw, carried, executed, counted>>
    BY <1>1, <1>7 DEF Perform, PutInput, NewShares
  <2>3. \A v \in c.of : /\ share'[v].live /\ ~share'[v].out /\ share'[v].sharing = c.sharing
                        /\ share'[v].value = "new"
    BY <2>2 DEF Gate
  <2>4. M.raws \subseteq K.raws /\ M.saved \subseteq K.saved /\ M.phase = K.phase
    BY <2>1 DEF Below, Put, Know
  <2> QED
    BY <1>1, <1>3, <1>4, <2>1, <2>2, <2>3, <2>4, PutHolds DEF Below
<1>8. CASE c.kind = "in"
  <2>1. Below(M, Put(K, c.of, BOOL, c.of \cap K.raws)) /\ K.phase = "open"
    BY <1>8 DEF Then, Checks, PutsGates
  <2>2. /\ \A v \in c.of : share'[v] = Gate(BOOL, raw[v])
        /\ \A v \in Var \ c.of : share'[v] = share[v]
        /\ UNCHANGED <<raw, carried, executed, counted>>
    BY <1>1, <1>8 DEF Perform, PutSharedIn, NewShares
  <2>3. \A v \in c.of : /\ share'[v].live /\ ~share'[v].out /\ share'[v].sharing = BOOL
                        /\ v \in c.of \cap K.raws => share'[v].value = "new"
    <3>1. \A v \in c.of \cap K.raws : raw[v] = "new"
      BY <1>3
    <3>2. \A v \in c.of : share'[v].live /\ ~share'[v].out
      BY <2>2, GateFields
    <3>3. \A v \in c.of : share'[v].sharing = BOOL
      BY <2>2, GateFields
    <3>4. \A v \in c.of \cap K.raws : share'[v].value = "new"
      BY <2>2, <3>1, GateFields
    <3> QED
      BY <3>2, <3>3, <3>4
  <2>4. M.raws \subseteq K.raws /\ M.saved \subseteq K.saved /\ M.phase = K.phase
    BY <2>1 DEF Below, Put, Know
  <2> QED
    BY <1>1, <1>3, <1>4, <2>1, <2>2, <2>3, <2>4, PutHolds DEF Below
<1>9. CASE c.kind = "restore"
  <2>1. Below(M, [Put(K, c.of, BOOL, c.of \cap K.saved) EXCEPT !.saved = {}]) /\ K.phase = "open"
    BY <1>9 DEF Then, Checks, PutsGates
  <2>2. /\ \A v \in c.of : share'[v] = Gate(BOOL, carried[v])
        /\ \A v \in Var \ c.of : share'[v] = share[v]
        /\ UNCHANGED <<raw, executed, counted>>
    BY <1>1, <1>9 DEF Perform, PutCarried, NewShares
  <2>3. \A v \in c.of : /\ share'[v].live /\ ~share'[v].out /\ share'[v].sharing = BOOL
                        /\ v \in c.of \cap K.saved => share'[v].value = "new"
    <3>1. \A v \in c.of \cap K.saved : carried[v] = "new"
      BY <1>4
    <3>2. \A v \in c.of : share'[v].live /\ ~share'[v].out
      BY <2>2, GateFields
    <3>3. \A v \in c.of : share'[v].sharing = BOOL
      BY <2>2, GateFields
    <3>4. \A v \in c.of \cap K.saved : share'[v].value = "new"
      BY <2>2, <3>1, GateFields
    <3> QED
      BY <3>2, <3>3, <3>4
  <2>4. M.raws \subseteq K.raws /\ M.saved = {} /\ M.phase = K.phase
    BY <2>1 DEF Below, Put, Know
  <2>5. /\ M.bool \subseteq Put(K, c.of, BOOL, c.of \cap K.saved).bool
        /\ M.yao \subseteq Put(K, c.of, BOOL, c.of \cap K.saved).yao
        /\ M.outs \subseteq Put(K, c.of, BOOL, c.of \cap K.saved).outs
        /\ M.fresh \subseteq Put(K, c.of, BOOL, c.of \cap K.saved).fresh
    BY <2>1 DEF Below, Put, Know
  <2> QED
    BY <1>1, <1>3, <2>1, <2>2, <2>3, <2>4, <2>5, PutHolds
<1>10. CASE c.kind = "convert"
  <2>1. /\ Below(M, Put(K, c.of, Other(c.sharing), c.of \cap K.fresh))
        /\ K.phase = "open" /\ c.of \subseteq Gates(K, c.sharing)
    BY <1>10 DEF Then, Checks, PutsGates
  <2>2. /\ \A v \in c.of : share'[v] = Gate(Other(c.sharing), Passed(v, c.sharing))
        /\ \A v \in Var \ c.of : share'[v] = share[v]
        /\ UNCHANGED <<raw, carried, executed, counted>>
    BY <1>1, <1>10 DEF Perform, Convert, NewShares
  <2>3. \A v \in c.of : /\ share'[v].live /\ ~share'[v].out /\ share'[v].sharing = Other(c.sharing)
                        /\ v \in c.of \cap K.fresh => share'[v].value = "new"
    <3>1. \A v \in c.of \cap K.fresh : Passed(v, c.sharing) = "new"
      BY <1>1, <1>5, <1>6, <2>1 DEF Passed
    <3>2. \A v \in c.of : share'[v].live /\ ~share'[v].out
      BY <2>2, GateFields
    <3>3. \A v \in c.of : share'[v].sharing = Other(c.sharing)
      BY <2>2, GateFields
    <3>4. \A v \in c.of \cap K.fresh : share'[v].value = "new"
      BY <2>2, <3>1, GateFields
    <3> QED
      BY <3>2, <3>3, <3>4
  <2>4. M.raws \subseteq K.raws /\ M.saved \subseteq K.saved /\ M.phase = K.phase
    BY <2>1 DEF Below, Put, Know
  <2> QED
    BY <1>1, <1>3, <1>4, <2>1, <2>2, <2>3, <2>4, PutHolds DEF Below
<1>11. CASE c.kind = "build"
  <2>1. /\ Below(M, [Put(K, c.of, context, c.of) EXCEPT !.raws = K.raws \ c.of,
                                                         !.saved = K.saved \ c.of])
        /\ K.phase = "open" /\ c.reads \subseteq Gates(K, context) \cap K.fresh
    BY <1>11 DEF Then, Checks, PutsGates
  <2>2. \A v \in c.reads : Passed(v, context) = "new"
    BY <1>1, <1>5, <1>6, <2>1 DEF Passed
  <2>3. /\ \A v \in c.of : share'[v] = Gate(context, "new")
        /\ \A v \in Var \ c.of : share'[v] = share[v]
    BY <1>1, <1>11, <2>2 DEF Perform, PutGates, NewShares
  <2>4. /\ raw' = Outdated(raw, c.of) /\ carried' = Outdated(carried, c.of)
        /\ UNCHANGED <<executed, counted>>
    BY <1>11 DEF Perform, PutGates
  <2>5. M.raws \subseteq K.raws \ c.of /\ M.saved \subseteq K.saved \ c.of /\ M.phase = K.phase
    BY <2>1 DEF Below, Put, Know
  <2>6. /\ \A v \in M.raws : raw'[v] = "new"
        /\ \A v \in M.saved : carried'[v] = "new"
    BY <1>2, <1>3, <1>4, <2>4, <2>5 DEF Outdated
  <2>7. \A v \in c.of : /\ share'[v].live /\ ~share'[v].out /\ share'[v].sharing = context
                        /\ share'[v].value = "new"
    BY <2>3 DEF Gate
  <2>8. /\ M.bool \subseteq Put(K, c.of, context, c.of).bool
        /\ M.yao \subseteq Put(K, c.of, context, c.of).yao
        /\ M.outs \subseteq Put(K, c.of, context, c.of).outs
        /\ M.fresh \subseteq Put(K, c.of, context, c.of).fresh
    BY <2>1 DEF Below, Put, Know
  <2> QED
    BY <1>1, <2>1, <2>3, <2>4, <2>5, <2>6, <2>7, <2>8, PutHolds
<1>12. CASE c.kind \in {"sharedout", "out"}
  <2>1. /\ Below(M, Know(K.bool \ c.of, K.yao \ c.of, K.outs \cup c.of, K.fresh, K.raws, K.saved,
                         K.phase))
        /\ K.phase = "open" /\ c.of \subseteq Gates(K, c.sharing)
    BY <1>12 DEF Then, Checks, PutsGates
  <2>2. /\ \A v \in c.of :
             share'[v] = [Gate(c.sharing, Passed(v, c.sharing)) EXCEPT !.out = TRUE]
        /\ \A v \in Var \ c.of : share'[v] = share[v]
        /\ UNCHANGED <<raw, carried, executed, counted>>
    BY <1>1, <1>12 DEF Perform, PutOut, NewShares
  <2>3. \A v \in c.of : /\ share'[v].live /\ share'[v].out
                        /\ v \in K.fresh => share'[v].value = "new"
    BY <1>1, <1>5, <1>6, <2>1, <2>2 DEF Gate, Passed
  <2>4. /\ M.bool \subseteq K.bool \ c.of /\ M.yao \subseteq K.yao \ c.of
        /\ M.outs \subseteq K.outs \cup c.of /\ M.fresh \subseteq K.fresh
        /\ M.raws \subseteq K.raws /\ M.saved \subseteq K.saved /\ M.phase = K.phase
    BY <2>1 DEF Below, Know
  <2>5. \A v \in M.bool \cup M.yao : share'[v] = share[v]
    BY <1>2, <2>2, <2>4
  <2>6. \A v \in M.outs : share'[v].live /\ share'[v].out
    BY <1>2, <2>2, <2>3, <2>4 DEF Holds
  <2>7. \A v \in M.fresh : share'[v].value = "new"
    BY <1>2, <1>5, <2>2, <2>3, <2>4
  <2> QED
    BY <2>1, <2>2, <2>4, <2>5, <2>6, <2>7 DEF Holds
<1>13. CASE c.kind = "exec"
  <2>1. Below(M, [K EXCEPT !.phase = "executed"])
    BY <1>13 DEF Then
  <2>2. Below([M EXCEPT !.phase = K.phase], K) /\ M.phase = "executed"
    BY <2>1 DEF Below, Knowledge
  <2>3. executed' = TRUE /\ UNCHANGED <<share, raw, carried>>
    BY <1>13 DEF Perform, ExecCircuit
  <2> QED
    BY <2>2, <2>3 DEF Holds, Below, Knowledge
<1>14. CASE c.kind = "count"
  <2>1. Below(M, [K EXCEPT !.phase = "counted"]) /\ K.phase = "executed"
    BY <1>14 DEF Then, Checks
  <2>2. Below([M EXCEPT !.phase = K.phase], K) /\ M.phase = "counted"
    BY <2>1 DEF Below, Knowledge
  <2>3. counted' = TRUE /\ UNCHANGED <<share, raw, carried, executed>>
    BY <1>14 DEF Perform, Collect
  <2> QED
    BY <2>1, <2>2, <2>3 DEF Holds, Below, Knowledge
<1>15. CASE c.kind \in {"get", "save"}
  <2>1. c.of \subseteq K.outs /\ executed
    BY <1>15 DEF Checks, Holds
  <2>2. \A v \in c.of \cap K.fresh : Opened(v) = "new"
    BY <1>5, <2>1 DEF Opened, Holds
  <2>3. CASE c.kind = "get"
    <3>1. Below(M, [K EXCEPT !.raws = (K.raws \ c.of) \cup (c.of \cap K.fresh)])
      BY <2>3 DEF Then
    <3>2. Below([M EXCEPT !.raws = {}], K) /\ M.raws \subseteq (K.raws \ c.of) \cup (c.of \cap K.fresh)
      BY <3>1 DEF Below, Knowledge
    <3>3. /\ \A v \in c.of : raw'[v] = Opened(v)
          /\ \A v \in Var \ c.of : raw'[v] = raw[v]
          /\ UNCHANGED <<share, carried, executed, counted>>
      BY <1>1, <2>3 DEF Perform, GetClearValue, NewRaw
    <3>4. \A v \in M.raws : raw'[v] = "new"
      BY <1>2, <1>3, <2>2, <3>2, <3>3
    <3> QED
      BY <3>2, <3>3, <3>4 DEF Holds, Below, Knowledge
  <2>4. CASE c.kind = "save"
    <3>1. Below(M, [K EXCEPT !.saved = (K.saved \ c.of) \cup (c.of \cap K.fresh)])
      BY <2>4 DEF Then
    <3>2. Below([M EXCEPT !.saved = {}], K) /\ M.saved \subseteq (K.saved \ c.of) \cup (c.of \cap K.fresh)
      BY <3>1 DEF Below, Knowledge
    <3>3. /\ \A v \in Var : carried'[v] = IF v \in c.of THEN Opened(v) ELSE carried[v]
          /\ UNCHANGED <<share, raw, executed, counted>>
      BY <2>4 DEF Perform, GetClearValue
    <3>4. \A v \in M.saved : carried'[v] = "new"
      BY <1>2, <1>4, <2>2, <3>2, <3>3
    <3> QED
      BY <3>2, <3>3, <3>4 DEF Holds, Below, Knowledge
  <2> QED
    BY <1>15, <2>3, <2>4
<1>16. CASE c.kind = "reset"
  <2>1. Below(M, Know({}, {}, {}, {}, K.raws, K.saved, "open"))
    BY <1>16 DEF Then
  <2>2. executed' = FALSE /\ UNCHANGED <<raw, carried, counted>>
    BY <1>16 DEF Perform, ResetCircuit
  <2> QED
    BY <2>1, <2>2 DEF Holds, Below, Know
<1>17. CASE c.kind = "set"
  <2>1. Below(M, [K EXCEPT !.raws = K.raws \cup c.of])
    BY <1>17 DEF Then
  <2>2. /\ \A v \in c.of : raw'[v] = "new" 
        /\ \A v \in Var \ c.of : raw'[v] = raw[v]
        /\ UNCHANGED <<share, carried, executed, counted>>
    BY <1>1, <1>17 DEF Checks, Perform, Assign, NewRaw
  <2>3. Below([M EXCEPT !.raws = {}], K) /\ M.raws \subseteq K.raws \cup c.of
    BY <2>1 DEF Below, Knowledge
  <2>4. \A v \in M.raws : raw'[v] = "new"
    BY <1>2, <1>3, <2>2, <2>3
  <2> QED
    BY <2>2, <2>3, <2>4 DEF Holds, Below, Knowledge
<1>18. CASE c.kind \in {"move", "lend"}
  <2>1. PICK to, from \in Var : to # from /\ c.of = {to} /\ c.reads = {from} /\ from \in K.raws
    BY <1>18 DEF Checks
  <2>2. /\ raw' = [raw EXCEPT ![to] = raw[from],
                              ![from] = IF c.kind = "lend" THEN "old" ELSE raw[from]]
        /\ UNCHANGED <<share, carried, executed, counted>>
    BY <1>18, <2>1 DEF Perform, Assign
  <2>3. raw'[to] = "new" /\ \A v \in Var \ {to, from} : raw'[v] = raw[v]
    BY <1>3, <2>1, <2>2 DEF PartyTypeOK
  <2>4. c.kind = "move" => raw'[from] = "new"
    BY <1>3, <2>1, <2>2 DEF PartyTypeOK
  <2>5. /\ c.kind = "move" => Below(M, [K EXCEPT !.raws = K.raws \cup c.of])
        /\ c.kind = "lend" => Below(M, [K EXCEPT !.raws = (K.raws \cup c.of) \ c.reads])
    BY <1>18 DEF Then
  <2>6. /\ Below([M EXCEPT !.raws = {}], K)
        /\ M.raws \subseteq K.raws \cup {to}
        /\ c.kind = "lend" => from \notin M.raws
    BY <1>18, <2>1, <2>5 DEF Below, Knowledge
  <2>7. \A v \in M.raws : raw'[v] = "new"
    BY <1>2, <1>3, <1>18, <2>3, <2>4, <2>6
  <2> QED
    BY <2>2, <2>6, <2>7 DEF Holds, Below, Knowledge
<1> QED
  BY <1>7, <1>8, <1>9, <1>10, <1>11, <1>12, <1>13, <1>14, <1>15, <1>16, <1>17, <1>18
     DEF CallRecord, Kind

----------------------------------------------------------------------------
(* Sequences of calls.                                                     *)

LEMMA BelowIsOrder ==
  /\ \A K : Below(K, K)
  /\ \A K, L, M : Below(K, L) /\ Below(L, M) => Below(K, M)
BY DEF Below

LEMMA HoldsBelow ==
  ASSUME NEW K \in Knowledge, NEW L \in Knowledge, Holds(K), Below(L, K)
  PROVE  Holds(L)
BY DEF Holds, Below

\* No call: what is claimed may only become less.
LEMMA LeadsNowhere ==
  ASSUME NEW K \in Knowledge, NEW L \in Knowledge
  PROVE  Leads(K, << >>, L) <=> Below(L, K)
<1>1. << >> \in Seq(CallRecord) /\ Len(<< >>) = 0
  BY EmptySeq
<1>2. ASSUME Below(L, K)
      PROVE  Leads(K, << >>, L)
  <2> DEFINE known == [n \in 0 .. 0 |-> L]
  <2>1. known \in [0 .. 0 -> Knowledge] /\ known[0] = L /\ 1 .. 0 = {}
    OBVIOUS
  <2> HIDE DEF known
  <2> QED
    BY <1>1, <1>2, <2>1 DEF Leads
<1>3. ASSUME Leads(K, << >>, L)
      PROVE  Below(L, K)
  BY <1>1, <1>3 DEF Leads
<1> QED
  BY <1>2, <1>3

\* One call.
LEMMA LeadsCall ==
  ASSUME NEW K \in Knowledge, NEW L \in Knowledge, NEW c \in CallRecord,
         Checks(c, K), Below(L, Then(c, K))
  PROVE  Leads(K, <<c>>, L)
<1> DEFINE known == [n \in 0 .. 1 |-> IF n = 0 THEN K ELSE L]
<1>1. <<c>> \in Seq(CallRecord) /\ Len(<<c>>) = 1 /\ <<c>>[1] = c
  OBVIOUS
<1>2. known \in [0 .. 1 -> Knowledge] /\ known[0] = K /\ known[1] = L
  OBVIOUS
<1>3. \A n \in 1 .. 1 : Checks(<<c>>[n], known[n - 1]) /\ Below(known[n], Then(<<c>>[n], known[n - 1]))
  <2> SUFFICES ASSUME NEW n \in 1 .. 1
               PROVE  Checks(<<c>>[n], known[n - 1]) /\ Below(known[n], Then(<<c>>[n], known[n - 1]))
    OBVIOUS
  <2>1. n = 1 /\ n - 1 = 0
    OBVIOUS
  <2> HIDE DEF known
  <2> QED
    BY <1>1, <1>2, <2>1
<1>4. Below(known[0], K)
  BY <1>2, BelowIsOrder
<1> QED
  BY <1>1, <1>2, <1>3, <1>4 DEF Leads

\* One sequence of calls after the other.
LEMMA LeadsOn ==
  ASSUME NEW K \in Knowledge, NEW L \in Knowledge, NEW M \in Knowledge, NEW s, NEW t,
         Leads(K, s, L), Leads(L, t, M)
  PROVE  Leads(K, s \o t, M)
<1>1. s \in Seq(CallRecord) /\ t \in Seq(CallRecord)
  BY DEF Leads
<1>2. PICK f \in [0 .. Len(s) -> Knowledge] :
        /\ Below(f[0], K)
        /\ f[Len(s)] = L
        /\ \A n \in 1 .. Len(s) : Checks(s[n], f[n - 1]) /\ Below(f[n], Then(s[n], f[n - 1]))
  BY DEF Leads
<1>3. PICK g \in [0 .. Len(t) -> Knowledge] :
        /\ Below(g[0], L)
        /\ g[Len(t)] = M
        /\ \A n \in 1 .. Len(t) : Checks(t[n], g[n - 1]) /\ Below(g[n], Then(t[n], g[n - 1]))
  BY DEF Leads
<1> DEFINE len == Len(s) + Len(t)
           known == [n \in 0 .. len |-> IF n < Len(s) THEN f[n] ELSE g[n - Len(s)]]
<1>4. /\ Len(s) \in Nat /\ Len(t) \in Nat /\ len \in Nat
      /\ s \o t \in Seq(CallRecord) /\ Len(s \o t) = len
      /\ \A n \in 1 .. Len(s) : (s \o t)[n] = s[n]
      /\ \A n \in Len(s) + 1 .. len : (s \o t)[n] = t[n - Len(s)]
  BY <1>1, LenProperties, ConcatProperties
<1>5. known \in [0 .. len -> Knowledge]
  BY <1>4
<1>6. /\ \A n \in 0 .. Len(s) - 1 : known[n] = f[n]
      /\ \A n \in Len(s) .. len : known[n] = g[n - Len(s)]
  BY <1>4
<1> HIDE DEF known
<1>7. known[len] = M
  BY <1>3, <1>4, <1>6
<1>8. Below(known[0], K)
  <2>1. CASE Len(s) = 0
    BY <1>2, <1>3, <1>4, <1>6, <2>1, BelowIsOrder
  <2>2. CASE Len(s) # 0
    BY <1>2, <1>4, <1>6, <2>2
  <2> QED
    BY <2>1, <2>2
<1>9. ASSUME NEW n \in 1 .. len
      PROVE  /\ Checks((s \o t)[n], known[n - 1])
             /\ Below(known[n], Then((s \o t)[n], known[n - 1]))
  <2>1. CASE n < Len(s)
    <3>1. n \in 1 .. Len(s) /\ n \in 0 .. Len(s) - 1 /\ n - 1 \in 0 .. Len(s) - 1
      BY <1>4, <2>1
    <3>2. (s \o t)[n] = s[n] /\ known[n] = f[n] /\ known[n - 1] = f[n - 1]
      BY <1>4, <1>6, <3>1
    <3> QED
      BY <1>2, <3>1, <3>2
  <2>2. CASE n = Len(s)
    <3>1. n \in 1 .. Len(s) /\ n - 1 \in 0 .. Len(s) - 1 /\ n \in Len(s) .. len /\ n - Len(s) = 0
      BY <1>4, <2>2
    <3>2. (s \o t)[n] = s[n] /\ known[n - 1] = f[n - 1]
      BY <1>4, <1>6, <3>1
    <3>3. known[n] = g[0]
      BY <1>6, <3>1
    <3>4. Below(g[0], f[n])
      BY <1>2, <1>3, <2>2
    <3> QED
      BY <1>2, <3>1, <3>2, <3>3, <3>4, BelowIsOrder
  <2>3. CASE n > Len(s)
    <3> DEFINE m == n - Len(s)
    <3>1. m \in 1 .. Len(t) /\ n - 1 - Len(s) = m - 1
      BY <1>4, <2>3
    <3>2. /\ n \in Len(s) + 1 .. len /\ n \in Len(s) .. len /\ n - 1 \in Len(s) .. len
      BY <1>4, <2>3
    <3>3. (s \o t)[n] = t[m] /\ known[n] = g[m] /\ known[n - 1] = g[m - 1]
      BY <1>4, <1>6, <3>1, <3>2
    <3> QED
      BY <1>3, <3>1, <3>3
  <2> QED
    BY <1>4, <2>1, <2>2, <2>3
<1> QED
  BY <1>4, <1>5, <1>7, <1>8, <1>9 DEF Leads

\* Less may be claimed after the calls, and more be known before.
LEMMA LeadsLess ==
  ASSUME NEW K \in Knowledge, NEW L \in Knowledge, NEW M \in Knowledge, NEW s,
         Leads(K, s, L), Below(M, L)
  PROVE  Leads(K, s, M)
<1>1. s \in Seq(CallRecord)
  BY DEF Leads
<1>2. Leads(K, s \o << >>, M)
  BY LeadsNowhere, LeadsOn
<1> QED
  BY <1>1, <1>2, ConcatEmptySeq

\* The first of the calls can be made, and then the others.
LEMMA LeadsFirst ==
  ASSUME NEW K \in Knowledge, NEW M \in Knowledge, NEW s, Leads(K, s, M), s # << >>
  PROVE  /\ Head(s) \in CallRecord /\ Tail(s) \in Seq(CallRecord)
         /\ \E H, L \in Knowledge :
              /\ Below(H, K)
              /\ Checks(Head(s), H)
              /\ Below(L, Then(Head(s), H))
              /\ Leads(L, Tail(s), M)
<1>1. s \in Seq(CallRecord)
  BY DEF Leads
<1>2. PICK f \in [0 .. Len(s) -> Knowledge] :
        /\ Below(f[0], K)
        /\ f[Len(s)] = M
        /\ \A n \in 1 .. Len(s) : Checks(s[n], f[n - 1]) /\ Below(f[n], Then(s[n], f[n - 1]))
  BY DEF Leads
<1>3. /\ Head(s) \in CallRecord /\ Tail(s) \in Seq(CallRecord) /\ Head(s) = s[1]
      /\ Len(s) \in Nat \ {0} /\ Len(Tail(s)) = Len(s) - 1
      /\ \A n \in 1 .. Len(Tail(s)) : Tail(s)[n] = s[n + 1]
  BY <1>1, HeadTailProperties, EmptySeq, LenProperties
<1> DEFINE known == [n \in 0 .. Len(s) - 1 |-> f[n + 1]]
<1>4. known \in [0 .. Len(Tail(s)) -> Knowledge]
  BY <1>3
<1>5. \A n \in 0 .. Len(s) - 1 : known[n] = f[n + 1]
  OBVIOUS
<1> HIDE DEF known
<1>6. f[0] \in Knowledge /\ f[1] \in Knowledge /\ Checks(Head(s), f[0]) /\ Below(f[1], Then(Head(s), f[0]))
  BY <1>2, <1>3
<1>7. Below(known[0], f[1]) /\ known[Len(Tail(s))] = M
  BY <1>2, <1>3, <1>5, BelowIsOrder
<1>8. ASSUME NEW n \in 1 .. Len(Tail(s))
      PROVE  Checks(Tail(s)[n], known[n - 1]) /\ Below(known[n], Then(Tail(s)[n], known[n - 1]))
  <2>1. n + 1 \in 1 .. Len(s) /\ n - 1 + 1 = n /\ n + 1 - 1 = n
    BY <1>3
  <2>2. Tail(s)[n] = s[n + 1] /\ known[n - 1] = f[n] /\ known[n] = f[n + 1]
    BY <1>3, <1>5, <2>1
  <2> QED
    BY <1>2, <2>1, <2>2
<1>9. Leads(f[1], Tail(s), M)
  BY <1>3, <1>4, <1>7, <1>8 DEF Leads
<1> QED
  BY <1>2, <1>3, <1>6, <1>9

\* A sequence of calls is its first call and the others.
LEMMA HeadAndTail ==
  ASSUME NEW Element, NEW a \in Element, NEW s \in Seq(Element), NEW t \in Seq(Element), Len(s) = Len(t) + 1, s[1] = a,
         \A n \in 1 .. Len(t) : s[n + 1] = t[n]
  PROVE  s = <<a>> \o t
<1>1. <<a>> \in Seq(Element) /\ Len(<<a>>) = 1 /\ <<a>>[1] = a /\ Len(t) \in Nat
  OBVIOUS
<1>2. /\ <<a>> \o t \in Seq(Element) /\ Len(<<a>> \o t) = 1 + Len(t)
      /\ \A n \in 1 .. 1 + Len(t) : (<<a>> \o t)[n] = IF n <= 1 THEN <<a>>[n] ELSE t[n - 1]
  BY <1>1, ConcatProperties
<1>3. ASSUME NEW n \in 1 .. Len(s) PROVE s[n] = (<<a>> \o t)[n]
  <2>1. CASE n = 1
    BY <1>1, <1>2, <2>1
  <2>2. CASE n # 1
    <3>1. n - 1 \in 1 .. Len(t) /\ n - 1 + 1 = n /\ ~(n <= 1) /\ n \in 1 .. 1 + Len(t)
      BY <1>1, <2>2
    <3> QED
      BY <1>2, <3>1
  <2> QED
    BY <2>1, <2>2
<1> QED
  BY <1>1, <1>2, <1>3, SeqEqual

LEMMA FirstCall ==
  /\ \A a, b : <<a, b>> = <<a>> \o <<b>>
  /\ \A a, b, c : <<a, b, c>> = <<a>> \o <<b, c>>
  /\ \A a, b, c, d : <<a, b, c, d>> = <<a>> \o <<b, c, d>>
  /\ \A a, b, c, d, e : <<a, b, c, d, e>> = <<a>> \o <<b, c, d, e>>
  /\ \A a, b, c, d, e, f : <<a, b, c, d, e, f>> = <<a>> \o <<b, c, d, e, f>>
<1>1. ASSUME NEW a, NEW b
      PROVE  <<a, b>> = <<a>> \o <<b>>
  <2> DEFINE Element == {a, b}
             s == <<a, b>>
             t == <<b>>
  <2>1. /\ a \in Element /\ s \in Seq(Element) /\ t \in Seq(Element) /\ Len(s) = Len(t) + 1 /\ s[1] = a
        /\ \A n \in 1 .. Len(t) : s[n + 1] = t[n]
    OBVIOUS
  <2> HIDE DEF Element, s, t
  <2>2. s = <<a>> \o t
    BY <2>1, HeadAndTail
  <2> QED
    BY <2>2 DEF s, t
<1>2. ASSUME NEW a, NEW b, NEW c
      PROVE  <<a, b, c>> = <<a>> \o <<b, c>>
  <2> DEFINE Element == {a, b, c}
             s == <<a, b, c>>
             t == <<b, c>>
  <2>1. /\ a \in Element /\ s \in Seq(Element) /\ t \in Seq(Element) /\ Len(s) = Len(t) + 1 /\ s[1] = a
        /\ \A n \in 1 .. Len(t) : s[n + 1] = t[n]
    OBVIOUS
  <2> HIDE DEF Element, s, t
  <2>2. s = <<a>> \o t
    BY <2>1, HeadAndTail
  <2> QED
    BY <2>2 DEF s, t
<1>3. ASSUME NEW a, NEW b, NEW c, NEW d
      PROVE  <<a, b, c, d>> = <<a>> \o <<b, c, d>>
  <2> DEFINE Element == {a, b, c, d}
             s == <<a, b, c, d>>
             t == <<b, c, d>>
  <2>1. /\ a \in Element /\ s \in Seq(Element) /\ t \in Seq(Element) /\ Len(s) = Len(t) + 1 /\ s[1] = a
        /\ \A n \in 1 .. Len(t) : s[n + 1] = t[n]
    OBVIOUS
  <2> HIDE DEF Element, s, t
  <2>2. s = <<a>> \o t
    BY <2>1, HeadAndTail
  <2> QED
    BY <2>2 DEF s, t
<1>4. ASSUME NEW a, NEW b, NEW c, NEW d, NEW e
      PROVE  <<a, b, c, d, e>> = <<a>> \o <<b, c, d, e>>
  <2> DEFINE Element == {a, b, c, d, e}
             s == <<a, b, c, d, e>>
             t == <<b, c, d, e>>
  <2>1. /\ a \in Element /\ s \in Seq(Element) /\ t \in Seq(Element) /\ Len(s) = Len(t) + 1 /\ s[1] = a
        /\ \A n \in 1 .. Len(t) : s[n + 1] = t[n]
    OBVIOUS
  <2> HIDE DEF Element, s, t
  <2>2. s = <<a>> \o t
    BY <2>1, HeadAndTail
  <2> QED
    BY <2>2 DEF s, t
<1>5. ASSUME NEW a, NEW b, NEW c, NEW d, NEW e, NEW f
      PROVE  <<a, b, c, d, e, f>> = <<a>> \o <<b, c, d, e, f>>
  <2> DEFINE Element == {a, b, c, d, e, f}
             s == <<a, b, c, d, e, f>>
             t == <<b, c, d, e, f>>
  <2>1. /\ a \in Element /\ s \in Seq(Element) /\ t \in Seq(Element) /\ Len(s) = Len(t) + 1 /\ s[1] = a
        /\ \A n \in 1 .. Len(t) : s[n + 1] = t[n]
    OBVIOUS
  <2> HIDE DEF Element, s, t
  <2>2. s = <<a>> \o t
    BY <2>1, HeadAndTail
  <2> QED
    BY <2>2 DEF s, t
<1> QED
  BY <1>1, <1>2, <1>3, <1>4, <1>5

----------------------------------------------------------------------------
(* The frame of a circuit.                                                 *)

LEMMA CallsAreCalls ==
  ASSUME context \in Sharing, NEW of \in SUBSET Var, NEW s \in Sharing
  PROVE  /\ Input(of, s) \in CallRecord
         /\ SharedIn(of) \in CallRecord
         /\ ToYao(of) \in CallRecord /\ ToBool(of) \in CallRecord
         /\ \A reads \in SUBSET Var : Build(reads, of) \in CallRecord
         /\ SharedOut(of) \in CallRecord /\ Out(of, s) \in CallRecord
         /\ Exec \in CallRecord /\ Count \in CallRecord /\ Reset \in CallRecord
         /\ Get(of) \in CallRecord /\ Save(of) \in CallRecord /\ Restore(of) \in CallRecord
         /\ Set(of) \in CallRecord
BY DEF CallRecord, Call, Kind, Sharing, Input, SharedIn, ToYao, ToBool, Build, SharedOut, Out,
       Exec, Count, Reset, Get, Save, Restore, Set

LEMMA Copies ==
  ASSUME NEW to \in Var, NEW from \in Var
  PROVE  Move(to, from) \in CallRecord /\ Lend(to, from) \in CallRecord
BY DEF CallRecord, Call, Kind, Sharing, Move, Lend

LEMMA KnowIsKnowledge ==
  ASSUME NEW b \in SUBSET Var, NEW y \in SUBSET Var, NEW o \in SUBSET Var, NEW f \in SUBSET Var,
         NEW r \in SUBSET Var, NEW s \in SUBSET Var, NEW p \in {"open", "executed", "counted"}
  PROVE  Know(b, y, o, f, r, s, p) \in Knowledge
BY DEF Know, Knowledge

LEMMA BetweenIsKnowledge ==
  ASSUME NEW r \in SUBSET Var, NEW s \in SUBSET Var
  PROVE  Between(r, s) \in Knowledge
BY DEF Between, Know, Knowledge

LEMMA CircuitIsKnowledge ==
  ASSUME NEW g \in SUBSET Var, NEW f \in SUBSET Var, NEW r \in SUBSET Var, NEW s \in SUBSET Var
  PROVE  Circuit(g, f, r, s) \in Knowledge
BY DEF Circuit, Know, Knowledge

LEMMA MixedIsKnowledge ==
  ASSUME NEW g \in SUBSET Var, NEW f \in SUBSET Var, NEW r \in SUBSET Var, NEW s \in SUBSET Var,
         NEW b \in SUBSET g
  PROVE  Mixed(g, f, r, s, b) \in Knowledge
BY DEF Mixed, Know, Knowledge

LEMMA CircuitIsMixed == \A g, f, r, s : Circuit(g, f, r, s) = Mixed(g, f, r, s, {})
<1> SUFFICES ASSUME NEW g, NEW f, NEW r, NEW s
             PROVE  Circuit(g, f, r, s) = Mixed(g, f, r, s, {})
  OBVIOUS
<1>1. g \ {} = g
  OBVIOUS
<1> QED
  BY <1>1 DEF Circuit, Mixed

\* New inputs and constants on the circuit.
LEMMA MixedInputLeads ==
  ASSUME context \in Sharing, NEW g \in SUBSET Var, NEW f \in SUBSET Var,
         NEW r \in SUBSET Var, NEW s \in SUBSET Var, NEW b \in SUBSET g,
         NEW of \in SUBSET Var, of \cap b = {}
  PROVE  Leads(Mixed(g, f, r, s, b), <<Input(of, context)>>, Mixed(g \cup of, f \cup of, r, s, b))
<1> DEFINE K == Mixed(g, f, r, s, b)
           L == Mixed(g \cup of, f \cup of, r, s, b)
           c == Input(of, context)
<1>1. K \in Knowledge /\ L \in Knowledge /\ c \in CallRecord
  BY MixedIsKnowledge, CallsAreCalls
<1>2. Checks(c, K)
  BY DEF Checks, PutsGates, Input, Call, Mixed, Know
<1>3. Then(c, K) = Put(K, of, context, of)
  BY DEF Then, Input, Call
<1>4. Below(L, Then(c, K))
  BY <1>3 DEF Below, Put, Mixed, Know, Sharing, BOOL, YAO
<1> QED
  BY <1>1, <1>2, <1>4, LeadsCall

\* Gates that compute writes from reads.
LEMMA MixedBuildLeads ==
  ASSUME context \in Sharing, NEW g \in SUBSET Var, NEW f \in SUBSET Var,
         NEW r \in SUBSET Var, NEW s \in SUBSET Var, NEW b \in SUBSET g,
         NEW reads \in SUBSET ((g \ b) \cap f), NEW writes \in SUBSET Var, writes \cap b = {}
  PROVE  Leads(Mixed(g, f, r, s, b), <<Build(reads, writes)>>,
               Mixed(g \cup writes, f \cup writes, r \ writes, s \ writes, b))
<1> DEFINE K == Mixed(g, f, r, s, b)
           L == Mixed(g \cup writes, f \cup writes, r \ writes, s \ writes, b)
           c == Build(reads, writes)
<1>1. K \in Knowledge /\ L \in Knowledge /\ c \in CallRecord
  BY MixedIsKnowledge, CallsAreCalls
<1>2. c.kind = "build" /\ c.of = writes /\ c.sharing = context /\ c.reads = reads
  BY DEF Build, Call
<1>3. /\ K.phase = "open" /\ K.fresh = f /\ K.raws = r /\ K.saved = s
      /\ g \ b \subseteq Gates(K, context)
  BY DEF Mixed, Know, Gates, Sharing, BOOL, YAO
<1>4. Checks(c, K)
  BY <1>2, <1>3 DEF Checks, PutsGates
<1>5. Then(c, K) = [Put(K, writes, context, writes) EXCEPT !.raws = r \ writes, !.saved = s \ writes]
  BY <1>2, <1>3 DEF Then
<1>6. /\ Then(c, K).bool = (IF context = BOOL THEN K.bool \cup writes ELSE K.bool \ writes)
      /\ Then(c, K).yao = (IF context = YAO THEN K.yao \cup writes ELSE K.yao \ writes)
      /\ Then(c, K).fresh = (f \ writes) \cup writes
      /\ Then(c, K).raws = r \ writes /\ Then(c, K).saved = s \ writes
      /\ Then(c, K).phase = "open"
  BY <1>3, <1>5 DEF Put, Know
<1>7. /\ L.bool \subseteq Then(c, K).bool /\ L.yao \subseteq Then(c, K).yao
      /\ L.outs = {} /\ L.fresh \subseteq Then(c, K).fresh
      /\ L.raws = r \ writes /\ L.saved = s \ writes /\ L.phase = "open"
  BY <1>6 DEF Mixed, Know, Sharing, BOOL, YAO
<1>8. Below(L, Then(c, K))
  BY <1>6, <1>7 DEF Below
<1> QED
  BY <1>1, <1>4, <1>8, LeadsCall

LEMMA InputLeads ==
  ASSUME context \in Sharing, NEW g \in SUBSET Var, NEW f \in SUBSET Var,
         NEW r \in SUBSET Var, NEW s \in SUBSET Var, NEW of \in SUBSET Var
  PROVE  Leads(Circuit(g, f, r, s), <<Input(of, context)>>, Circuit(g \cup of, f \cup of, r, s))
BY MixedInputLeads, CircuitIsMixed

LEMMA BuildLeads ==
  ASSUME context \in Sharing, NEW g \in SUBSET Var, NEW f \in SUBSET Var,
         NEW r \in SUBSET Var, NEW s \in SUBSET Var,
         NEW reads \in SUBSET (g \cap f), NEW writes \in SUBSET Var
  PROVE  Leads(Circuit(g, f, r, s), <<Build(reads, writes)>>,
               Circuit(g \cup writes, f \cup writes, r \ writes, s \ writes))
<1>1. reads \subseteq (g \ {}) \cap f /\ writes \cap {} = {}
  OBVIOUS
<1> QED
  BY <1>1, MixedBuildLeads, CircuitIsMixed

\* A circuit starts from raw shares; they are converted for Yao's circuits.
LEMMA PrologueLeads ==
  ASSUME context \in Sharing, NEW r \in SUBSET Var, NEW s \in SUBSET Var, NEW ins \in SUBSET Var
  PROVE  Leads(Between(r, s), Prologue(ins), Circuit(ins, ins \cap r, r, s))
<1> DEFINE K == Between(r, s)
           L == Know(ins, {}, {}, ins \cap r, r, s, "open")
           M == Circuit(ins, ins \cap r, r, s)
<1>1. K \in Knowledge /\ L \in Knowledge /\ M \in Knowledge
  BY BetweenIsKnowledge, KnowIsKnowledge, CircuitIsKnowledge
<1>2. Leads(K, <<SharedIn(ins)>>, L)
  <2>1. Checks(SharedIn(ins), K)
    BY DEF Checks, PutsGates, SharedIn, Call, Between, Know
  <2>2. Then(SharedIn(ins), K) = Put(K, ins, BOOL, ins \cap r)
    BY DEF Then, SharedIn, Call, Between, Know
  <2>3. Below(L, Then(SharedIn(ins), K))
    BY <2>2 DEF Below, Put, Between, Know, BOOL, YAO
  <2> QED
    BY <1>1, <2>1, <2>3, LeadsCall, CallsAreCalls
<1>3. Leads(L, IfYao(ToYao(ins)), M)
  <2>1. CASE context = YAO
    <3>1. Checks(ToYao(ins), L)
      BY DEF Checks, PutsGates, ToYao, Call, Know, Gates
    <3>2. Then(ToYao(ins), L) = Put(L, ins, YAO, ins \cap r)
      <4>1. ins \cap L.fresh = ins \cap r
        BY DEF Know
      <4> QED
        BY <4>1 DEF Then, ToYao, Call, Other
    <3>3. Below(M, Then(ToYao(ins), L))
      BY <2>1, <3>2 DEF Below, Put, Circuit, Know, BOOL, YAO
    <3> QED
      BY <1>1, <2>1, <3>1, <3>3, LeadsCall, CallsAreCalls DEF IfYao
  <2>2. CASE context = BOOL
    <3>1. Below(M, L)
      BY <2>2 DEF Below, Circuit, Know, BOOL, YAO
    <3> QED
      BY <1>1, <2>2, <3>1, LeadsNowhere DEF IfYao, BOOL, YAO
  <2> QED
    BY <2>1, <2>2 DEF Sharing
<1> QED
  BY <1>1, <1>2, <1>3, LeadsOn DEF Prologue

\* What is to be put out is converted back from Yao's circuits.
LEMMA BackLeads ==
  ASSUME context \in Sharing, NEW g \in SUBSET Var, NEW f \in SUBSET Var,
         NEW r \in SUBSET Var, NEW s \in SUBSET Var, NEW backs \in SUBSET g
  PROVE  Leads(Circuit(g, f, r, s), IfYao(ToBool(backs)),
               Know(IF context = BOOL THEN g ELSE backs, IF context = YAO THEN g \ backs ELSE {},
                    {}, f, r, s, "open"))
<1> DEFINE K == Circuit(g, f, r, s)
           L == Know(IF context = BOOL THEN g ELSE backs,
                     IF context = YAO THEN g \ backs ELSE {}, {}, f, r, s, "open")
<1>1. K \in Knowledge /\ L \in Knowledge /\ ToBool(backs) \in CallRecord
  BY CircuitIsKnowledge, KnowIsKnowledge, CallsAreCalls
<1>2. CASE context = YAO
  <2>1. Checks(ToBool(backs), K)
    BY <1>2 DEF Checks, PutsGates, ToBool, Call, Circuit, Know, Gates, BOOL, YAO
  <2>2. Then(ToBool(backs), K) = Put(K, backs, BOOL, backs \cap f)
    <3>1. backs \cap K.fresh = backs \cap f
      BY DEF Circuit, Know
    <3> QED
      BY <3>1 DEF Then, ToBool, Call, Other, BOOL, YAO
  <2>3. Below(L, Then(ToBool(backs), K))
    BY <1>2, <2>2 DEF Below, Put, Circuit, Know, BOOL, YAO
  <2> QED
    BY <1>1, <1>2, <2>1, <2>3, LeadsCall DEF IfYao
<1>3. CASE context = BOOL
  <2>1. Below(L, K)
    BY <1>3 DEF Below, Circuit, Know, BOOL, YAO
  <2> QED
    BY <1>1, <1>3, <2>1, LeadsNowhere DEF IfYao, BOOL, YAO
<1> QED
  BY <1>2, <1>3 DEF Sharing

\* Shares of one sharing are put out, unless there are none.
LEMMA OutLeads ==
  ASSUME context \in Sharing, NEW K \in Knowledge, K.phase = "open", NEW sh \in Sharing,
         NEW of \in SUBSET Gates(K, sh), NEW c \in CallRecord,
         c.kind \in {"sharedout", "out"}, c.of = of, c.sharing = sh
  PROVE  LET L == Know(K.bool \ of, K.yao \ of, K.outs \cup of, K.fresh, K.raws, K.saved, "open")
         IN  L \in Knowledge /\ Leads(K, <<c>>, L) /\ Leads(K, Loop(c), L)
<1> DEFINE L == Know(K.bool \ of, K.yao \ of, K.outs \cup of, K.fresh, K.raws, K.saved, "open")
<1>1. L \in Knowledge
  BY DEF Know, Knowledge, CallRecord
<1>2. Checks(c, K)
  BY DEF Checks
<1>3. Below(L, Then(c, K))
  <2>1. Then(c, K) = Know(K.bool \ of, K.yao \ of, K.outs \cup of, K.fresh, K.raws, K.saved, K.phase)
    BY DEF Then
  <2> QED
    BY <2>1 DEF Below, Know
<1>4. Leads(K, <<c>>, L)
  BY <1>1, <1>2, <1>3, LeadsCall
<1>5. CASE of = {}
  <2>1. Below(L, K)
    BY <1>5 DEF Below, Know
  <2> QED
    BY <1>1, <1>4, <1>5, <2>1, LeadsNowhere DEF Loop
<1>6. CASE of # {}
  BY <1>1, <1>4, <1>6 DEF Loop
<1> QED
  BY <1>5, <1>6

\* The circuit is executed, what is opened read, and all of it counted before
\* it is reset.
LEMMA ExecLeads ==
  ASSUME context \in Sharing, NEW K \in Knowledge, K.phase = "open",
         NEW of \in SUBSET (K.outs \cap K.fresh)
  PROVE  Leads(K, <<Exec, Get(of), Count, Reset>>, Between(K.raws \cup of, K.saved))
<1> DEFINE X == [K EXCEPT !.phase = "executed"]
           G == [K EXCEPT !.phase = "executed", !.raws = K.raws \cup of]
           C == [K EXCEPT !.phase = "counted", !.raws = K.raws \cup of]
           R == Between(K.raws \cup of, K.saved)
<1>1. of \in SUBSET Var
  BY DEF Knowledge
<1>2. X \in Knowledge /\ G \in Knowledge /\ C \in Knowledge /\ R \in Knowledge
  BY <1>1, BetweenIsKnowledge DEF Knowledge
<1>3. /\ Exec \in CallRecord /\ Get(of) \in CallRecord
      /\ Count \in CallRecord /\ Reset \in CallRecord
  BY <1>1, CallsAreCalls
<1>4. Leads(K, <<Exec>>, X)
  <2>1. Checks(Exec, K) /\ Then(Exec, K) = X
    BY DEF Checks, PutsGates, Then, Exec, Call
  <2> QED
    BY <1>2, <1>3, <2>1, LeadsCall, BelowIsOrder
<1>5. Leads(X, <<Get(of)>>, G)
  <2>1. X.outs = K.outs /\ X.fresh = K.fresh /\ X.raws = K.raws /\ X.phase = "executed"
    BY DEF Knowledge
  <2>2. Checks(Get(of), X)
    BY <2>1 DEF Checks, PutsGates, Get, Call
  <2>3. Then(Get(of), X) = [X EXCEPT !.raws = (K.raws \ of) \cup (of \cap K.fresh)]
    BY <2>1 DEF Then, Get, Call
  <2>4. Below(G, Then(Get(of), X))
    BY <2>3 DEF Below, Knowledge
  <2> QED
    BY <1>2, <1>3, <2>2, <2>4, LeadsCall
<1>6. Leads(G, <<Count>>, C)
  <2>1. G.phase = "executed"
    BY DEF Knowledge
  <2>2. Checks(Count, G) /\ Then(Count, G) = [G EXCEPT !.phase = "counted"]
    BY <2>1 DEF Checks, PutsGates, Then, Count, Call
  <2>3. Below(C, Then(Count, G))
    BY <2>2 DEF Below, Knowledge
  <2> QED
    BY <1>2, <1>3, <2>2, <2>3, LeadsCall
<1>7. Leads(C, <<Reset>>, R)
  <2>1. C.phase = "counted" /\ C.raws = K.raws \cup of /\ C.saved = K.saved
    BY DEF Knowledge
  <2>2. Checks(Reset, C) /\ Then(Reset, C) = R
    BY <2>1 DEF Checks, PutsGates, Then, Reset, Call, Between
  <2> QED
    BY <1>2, <1>3, <2>2, LeadsCall, BelowIsOrder
<1>8. Leads(X, <<Get(of)>> \o (<<Count>> \o <<Reset>>), R)
  BY <1>2, <1>5, <1>6, <1>7, LeadsOn
<1>9. Leads(K, <<Exec>> \o (<<Get(of)>> \o (<<Count>> \o <<Reset>>)), R)
  BY <1>2, <1>4, <1>8, LeadsOn
<1> QED
  <2> DEFINE a == Exec
             b == Get(of)
             c == Count
             d == Reset
  <2> HIDE DEF a, b, c, d
  <2>1. <<a, b, c, d>> = <<a>> \o <<b, c, d>>
    BY FirstCall
  <2>2. <<b, c, d>> = <<b>> \o <<c, d>>
    BY FirstCall
  <2>3. <<c, d>> = <<c>> \o <<d>>
    BY FirstCall
  <2> QED
    BY <1>9, <2>1, <2>2, <2>3 DEF a, b, c, d

\* The end of a circuit: outs are put out as raw shares, bits are revealed.
LEMMA EpilogueLeads ==
  ASSUME context \in Sharing, NEW K \in Knowledge, K.phase = "open",
         NEW outs \in SUBSET (K.bool \cap K.fresh),
         NEW bits \in SUBSET (Gates(K, context) \cap K.fresh), outs \cap bits = {}
  PROVE  Leads(K, Epilogue(outs, bits), Between(K.raws \cup (outs \cup bits), K.saved))
<1> DEFINE L == Know(K.bool \ outs, K.yao \ outs, K.outs \cup outs, K.fresh, K.raws, K.saved, "open")
           M == Know(L.bool \ bits, L.yao \ bits, L.outs \cup bits, L.fresh, L.raws, L.saved, "open")
           R == Between(K.raws \cup (outs \cup bits), K.saved)
<1>1. /\ outs \in SUBSET Var /\ bits \in SUBSET Var /\ K.raws \in SUBSET Var /\ K.saved \in SUBSET Var
      /\ BOOL \in Sharing /\ Gates(K, BOOL) = K.bool
  BY DEF Knowledge, Gates, Sharing
<1>2. /\ L.bool = K.bool \ outs /\ L.yao = K.yao \ outs /\ L.outs = K.outs \cup outs
      /\ L.fresh = K.fresh /\ L.raws = K.raws /\ L.saved = K.saved /\ L.phase = "open"
  BY DEF Know
<1>3. /\ M.outs = K.outs \cup outs \cup bits /\ M.fresh = K.fresh
      /\ M.raws = K.raws /\ M.saved = K.saved /\ M.phase = "open"
  BY <1>2 DEF Know
<1>4. L \in Knowledge /\ Leads(K, Loop(SharedOut(outs)), L)
  <2>1. SharedOut(outs) \in CallRecord
    BY <1>1, CallsAreCalls
  <2>2. /\ SharedOut(outs).kind \in {"sharedout", "out"} /\ SharedOut(outs).of = outs
        /\ SharedOut(outs).sharing = BOOL
    BY DEF SharedOut, Call
  <2> HIDE DEF L
  <2> QED
    BY <1>1, <2>1, <2>2, OutLeads DEF L
<1>5. M \in Knowledge /\ Leads(L, Loop(Out(bits, context)), M)
  <2>1. Out(bits, context) \in CallRecord
    BY <1>1, CallsAreCalls
  <2>2. /\ Out(bits, context).kind \in {"sharedout", "out"} /\ Out(bits, context).of = bits
        /\ Out(bits, context).sharing = context
    BY DEF Out, Call
  <2>3. bits \subseteq Gates(L, context)
    BY <1>2 DEF Gates
  <2> HIDE DEF L
  <2> QED
    BY <1>2, <1>4, <2>1, <2>2, <2>3, OutLeads
<1> HIDE DEF L, M
<1>6. Leads(M, <<Exec, Get(outs \cup bits), Count, Reset>>, R)
  <2>1. outs \cup bits \in SUBSET (M.outs \cap M.fresh)
    BY <1>3
  <2> QED
    BY <1>3, <1>5, <2>1, ExecLeads
<1>7. R \in Knowledge
  BY <1>1, BetweenIsKnowledge
<1>8. Leads(K, Loop(SharedOut(outs)) \o Loop(Out(bits, context)), M)
  BY <1>4, <1>5, LeadsOn
<1> QED
  BY <1>5, <1>6, <1>7, <1>8, LeadsOn DEF Epilogue

\* What a circuit shares is converted back, put out and revealed.
LEMMA CloseLeads ==
  ASSUME context \in Sharing, NEW g \in SUBSET Var, NEW f \in SUBSET Var,
         NEW r \in SUBSET Var, NEW s \in SUBSET Var, NEW backs \in SUBSET g,
         NEW outs \in SUBSET (backs \cap f), NEW bits \in SUBSET (g \cap f), backs \cap bits = {}
  PROVE  /\ Mixed(g, f, r, s, backs) \in Knowledge
         /\ Leads(Circuit(g, f, r, s), IfYao(ToBool(backs)), Mixed(g, f, r, s, backs))
         /\ Leads(Mixed(g, f, r, s, backs), Epilogue(outs, bits), Between(r \cup (outs \cup bits), s))
         /\ Leads(Circuit(g, f, r, s), IfYao(ToBool(backs)) \o Epilogue(outs, bits),
                  Between(r \cup (outs \cup bits), s))
<1> DEFINE K == Circuit(g, f, r, s)
           L == Mixed(g, f, r, s, backs)
           R == Between(r \cup (outs \cup bits), s)
<1>1. K \in Knowledge /\ L \in Knowledge /\ R \in Knowledge
  BY CircuitIsKnowledge, KnowIsKnowledge, BetweenIsKnowledge DEF Mixed
<1>2. Leads(K, IfYao(ToBool(backs)), L)
  BY BackLeads DEF Mixed
<1>3. L.phase = "open" /\ L.raws = r /\ L.saved = s /\ L.fresh = f
  BY DEF Know, Mixed
<1>4. outs \subseteq L.bool \cap L.fresh /\ bits \subseteq Gates(L, context) \cap L.fresh
  BY DEF Know, Mixed, Gates, Sharing, BOOL, YAO
<1> HIDE DEF L
<1>5. Leads(L, Epilogue(outs, bits), R)
  <2>1. outs \cap bits = {}
    OBVIOUS
  <2> QED
    BY <1>1, <1>3, <1>4, <2>1, EpilogueLeads
<1>6. Leads(K, IfYao(ToBool(backs)) \o Epilogue(outs, bits), R)
  BY <1>1, <1>2, <1>5, LeadsOn
<1> QED
  BY <1>1, <1>2, <1>5, <1>6 DEF L

\* A circuit of its own, from raw shares to raw shares.
LEMMA SubCircuitLeads ==
  ASSUME context \in Sharing, NEW r \in SUBSET Var, NEW s \in SUBSET Var,
         NEW ins \in SUBSET Var, NEW reads \in SUBSET (ins \cap r),
         NEW backs \in SUBSET Var, NEW outs \in SUBSET backs, NEW bits \in SUBSET Var,
         backs \subseteq ins \cup outs, backs \cap bits = {}, s \cap (outs \cup bits) = {}
  PROVE  Leads(Between(r, s), SubCircuit(ins, <<Build(reads, outs \cup bits)>>, backs, outs, bits),
               Between(r \cup (outs \cup bits), s))
<1> DEFINE W == outs \cup bits
           g == ins \cup W
           f == (ins \cap r) \cup W
           K == Between(r, s)
           L == Circuit(ins, ins \cap r, r, s)
           M == Circuit(g, f, r \ W, s \ W)
           N == Mixed(g, f, r \ W, s \ W, backs)
           R == Between((r \ W) \cup W, s \ W)
           back == IF backs = {} THEN <<>> ELSE IfYao(ToBool(backs))
<1>1. /\ W \in SUBSET Var /\ g \in SUBSET Var /\ f \in SUBSET Var /\ r \ W \in SUBSET Var
      /\ s \ W \in SUBSET Var /\ backs \subseteq g /\ outs \subseteq backs \cap f
      /\ bits \subseteq g \cap f /\ backs \cap bits = {} /\ ins \cap r \in SUBSET Var
      /\ reads \subseteq ins \cap (ins \cap r)
  OBVIOUS
<1>2. K \in Knowledge /\ L \in Knowledge /\ M \in Knowledge /\ R \in Knowledge
  BY <1>1, BetweenIsKnowledge, CircuitIsKnowledge
<1>3. Leads(K, Prologue(ins), L)
  BY PrologueLeads
<1>4. Leads(L, <<Build(reads, W)>>, M)
  BY <1>1, BuildLeads
<1>5. Leads(K, Prologue(ins) \o <<Build(reads, W)>>, M)
  BY <1>2, <1>3, <1>4, LeadsOn
<1> HIDE DEF g, f
<1>6. /\ N \in Knowledge /\ Leads(M, IfYao(ToBool(backs)), N)
      /\ Leads(N, Epilogue(outs, bits), R)
  BY <1>1, CloseLeads
<1>7. Leads(M, back, N)
  <2>1. CASE backs = {}
    <3>1. Below(N, M)
      BY <2>1 DEF Below, Mixed, Circuit, Know, BOOL, YAO, Sharing
    <3> QED
      BY <1>2, <1>6, <2>1, <3>1, LeadsNowhere
  <2> QED
    BY <1>6, <2>1
<1> HIDE DEF K, L, M, N, R, back
<1>8. Leads(K, Prologue(ins) \o <<Build(reads, W)>> \o back, N)
  BY <1>2, <1>5, <1>6, <1>7, LeadsOn
<1>9. Leads(K, Prologue(ins) \o <<Build(reads, W)>> \o back \o Epilogue(outs, bits), R)
  BY <1>2, <1>6, <1>8, LeadsOn
<1>10. (r \ W) \cup W = r \cup W /\ s \ W = s
  OBVIOUS
<1> QED
  BY <1>9, <1>10 DEF SubCircuit, K, R, back

----------------------------------------------------------------------------
(* The variables.                                                          *)

OptimizerNames == {"threeDPts", "y0", "camera", "x", "prevErrNorm", "lambda", "dy", "jacob",
                   "inverse", "one", "zero"}
SvdNames == {"anorm", "cc", "f", "s", "z", "aSTARi", "aSTARnm", "vSTARk", "fx", "bit"}

LEMMA VarNames ==
  /\ \A n \in OptimizerNames \cup SvdNames : The(n) \in Var
  /\ \A n \in {"a", "w", "v", "rv1"}, c \in Column : <<n, c>> \in Var
  /\ \A n \in {"a", "w", "v", "rv1"} : All(n) \subseteq Var
<1>1. \A n \in OptimizerNames : The(n) \in Var
  BY ShareCarryAssumption, Zenon DEF OptimizerNames
<1>2. SvdVar \subseteq Var
  BY ShareCarryAssumption, Zenon
<1>3. \A n \in SvdNames : The(n) \in SvdVar
  BY Zenon DEF SvdNames, SvdVar
<1>4. \A n \in {"a", "w", "v", "rv1"}, c \in Column : <<n, c>> \in SvdVar
  BY DEF SvdVar
<1>5. \A n \in {"a", "w", "v", "rv1"} : All(n) \subseteq Var
  <2>1. \A n \in {"a", "w", "v", "rv1"} : All(n) \subseteq SvdVar
    BY <1>4 DEF All
  <2> QED
    BY <1>2, <2>1
<1> QED
  BY <1>1, <1>2, <1>3, <1>4, <1>5

LEMMA Apart ==
  /\ \A m, n : The(m) = The(n) <=> m = n
  /\ \A m, n, c : <<m, c>> = The(n) => m = n
  /\ \A m, n : The(m) \in All(n) => m = n
  /\ \A m, n, c : <<m, c>> \in All(n) <=> m = n /\ c \in Column
BY DEF The, All

LEMMA SetsOfVars ==
  /\ Inputs \in SUBSET Var /\ State \in SUBSET Var /\ Carry \in SUBSET Var /\ Kept \in SUBSET Var
  /\ Given \in SUBSET Var /\ Matrix \in SUBSET Var /\ SvdResult \in SUBSET Var
  /\ SvdPart1 \in SUBSET Var /\ SvdPart2 \in SUBSET Var
<1>1. /\ All("a") \subseteq Var /\ All("w") \subseteq Var /\ All("v") \subseteq Var
      /\ All("rv1") \subseteq Var
  BY VarNames
<1>2. \A n \in {"threeDPts", "y0", "camera", "x", "prevErrNorm", "lambda", "dy", "jacob",
                "anorm", "z"} : The(n) \in Var
  BY VarNames DEF OptimizerNames, SvdNames
<1>3. Inputs \subseteq Var /\ State \subseteq Var /\ Given \subseteq Var
  BY <1>2 DEF Inputs, State, Given
<1>4. Carry \subseteq Var /\ Kept \subseteq Var
  BY <1>2, <1>3 DEF Carry, LMCarry, GaussNewtonCarry, Kept
<1>5. SvdResult \subseteq Var /\ SvdPart1 \subseteq Var /\ SvdPart2 \subseteq Var
  BY <1>1, <1>2 DEF SvdResult, SvdPart1, SvdPart2
<1> QED
  BY <1>3, <1>4, <1>5 DEF Matrix

\* The elements of the matrix, and of what the QR step works on.
LEMMA MatrixHas ==
  ASSUME NEW c \in Column
  PROVE  /\ {<<"a", c>>, <<"w", c>>, <<"v", c>>, <<"rv1", c>>} \subseteq Matrix \cap SvdPart2 \cap Var
         /\ The("anorm") \in Matrix
         /\ The("z") \in SvdPart2
<1>1. /\ <<"a", c>> \in All("a") /\ <<"w", c>> \in All("w") /\ <<"v", c>> \in All("v")
      /\ <<"rv1", c>> \in All("rv1")
  BY Apart
<1>2. /\ {<<"a", c>>, <<"w", c>>, <<"v", c>>, <<"rv1", c>>} \subseteq SvdPart1 \cap SvdPart2
      /\ The("anorm") \in SvdPart1
  BY <1>1 DEF SvdPart1, SvdPart2
<1>3. The("z") \in SvdPart2
  BY DEF SvdPart2
<1> QED
  BY <1>2, <1>3, SetsOfVars DEF Matrix

\* What outlives the SVD is none of its variables.
LEMMA CarryIsApart ==
  /\ Carry \cap SvdVar = {}
  /\ SvdPart1 \subseteq SvdVar /\ SvdPart2 \subseteq SvdVar /\ SvdResult \subseteq SvdPart1
  /\ SvdResult \subseteq SvdPart2
  /\ All("a") \subseteq SvdResult
  /\ Given \cap SvdVar = {} /\ Given \cap Carry = {}
<1> DEFINE Names == {"threeDPts", "y0", "camera", "x", "prevErrNorm", "lambda", "dy", "jacob"}
<1>1. \A n \in Names : The(n) \notin SvdVar
  BY Apart DEF SvdVar
<1>2. Carry \cap SvdVar = {} /\ Given \cap SvdVar = {}
  BY <1>1 DEF Carry, LMCarry, GaussNewtonCarry, State, Given
<1>3. Given \cap Carry = {}
  BY Apart DEF Carry, LMCarry, GaussNewtonCarry, State, Given
<1>4. /\ All("a") \subseteq SvdVar /\ All("w") \subseteq SvdVar /\ All("v") \subseteq SvdVar
      /\ All("rv1") \subseteq SvdVar /\ The("anorm") \in SvdVar /\ The("z") \in SvdVar
  BY DEF SvdVar, All
<1>5. SvdPart1 \subseteq SvdVar /\ SvdPart2 \subseteq SvdVar
  BY <1>4 DEF SvdPart1, SvdPart2
<1>6. /\ SvdResult \subseteq SvdPart1 /\ SvdResult \subseteq SvdPart2
      /\ All("a") \subseteq SvdResult
  BY DEF SvdResult, SvdPart1, SvdPart2
<1> QED
  BY <1>2, <1>3, <1>5, <1>6

----------------------------------------------------------------------------
(* The pieces of the optimizers.                                           *)

\* Constants, and gates on them.
LEMMA ConstantsLead ==
  ASSUME context \in Sharing, NEW g \in SUBSET Var, NEW r \in SUBSET Var, NEW s \in SUBSET Var,
         NEW b \in SUBSET g, NEW one \in Var, one \notin b,
         NEW reads \in SUBSET ((g \ b) \cup {one}), NEW writes \in SUBSET Var, writes \cap b = {}
  PROVE  Leads(Mixed(g, g, r, s, b), <<Input({one}, context), Build(reads, writes)>>,
               Mixed(g \cup {one} \cup writes, g \cup {one} \cup writes, r \ writes, s \ writes, b))
<1> DEFINE h == g \cup {one}
           K == Mixed(g, g, r, s, b)
           L == Mixed(h, h, r, s, b)
           M == Mixed(h \cup writes, h \cup writes, r \ writes, s \ writes, b)
<1>1. /\ {one} \in SUBSET Var /\ {one} \cap b = {} /\ h \in SUBSET Var /\ b \in SUBSET h
      /\ reads \in SUBSET ((h \ b) \cap h) /\ h \cup writes \in SUBSET Var
      /\ b \in SUBSET (h \cup writes) /\ r \ writes \in SUBSET Var /\ s \ writes \in SUBSET Var
      /\ reads \in SUBSET Var
  OBVIOUS
<1>2. Leads(K, <<Input({one}, context)>>, L)
  BY <1>1, MixedInputLeads
<1> HIDE DEF h
<1>3. Leads(L, <<Build(reads, writes)>>, M)
  BY <1>1, MixedBuildLeads
<1>4. K \in Knowledge /\ L \in Knowledge /\ M \in Knowledge
  BY <1>1, MixedIsKnowledge
<1> HIDE DEF K, L, M
<1>5. Leads(K, <<Input({one}, context)>> \o <<Build(reads, writes)>>, M)
  BY <1>2, <1>3, <1>4, LeadsOn
<1> QED
  BY <1>5, FirstCall DEF K, M, h

\* What the two halves of an iteration compute.
FirstWrites == IF method = LM THEN {The("dy"), The("jacob")} \cup All("a") ELSE {The("dy")} \cup All("a")
SecondWrites == {The("x"), The("bit")} \cup State

LEMMA FirstHalfLeads ==
  ASSUME context \in Sharing, method \in {LM, GN},
         NEW g \in SUBSET Var, NEW r \in SUBSET Var, NEW s \in SUBSET Var,
         Inputs \cup State \subseteq g
  PROVE  LET h == g \cup {The("one")} \cup FirstWrites
         IN  /\ h \in SUBSET Var /\ FirstWrites \in SUBSET Var
             /\ Leads(Circuit(g, g, r, s), FirstHalf, Circuit(h, h, r \ FirstWrites, s \ FirstWrites))
<1>1. The("one") \in Var /\ The("dy") \in Var /\ The("jacob") \in Var /\ All("a") \subseteq Var
  BY VarNames DEF OptimizerNames
<1>2. FirstWrites \in SUBSET Var /\ FirstWrites \cap {} = {} /\ The("one") \notin {} /\ {} \in SUBSET g
  BY <1>1 DEF FirstWrites
<1>3. CASE method = LM
  <2> DEFINE reads == Inputs \cup {The("one"), The("lambda")}
  <2>1. reads \in SUBSET ((g \ {}) \cup {The("one")})
    BY <1>3 DEF State
  <2>2. FirstHalf = <<Input({The("one")}, context), Build(reads, FirstWrites)>>
    BY <1>3 DEF FirstHalf, BuildLMNormal, Constants, FirstWrites
  <2> HIDE DEF reads
  <2> QED
    BY <1>1, <1>2, <2>1, <2>2, ConstantsLead, CircuitIsMixed
<1>4. CASE method = GN
  <2> DEFINE reads == Inputs \cup {The("one")}
  <2>1. reads \in SUBSET ((g \ {}) \cup {The("one")})
    OBVIOUS
  <2>2. FirstHalf = <<Input({The("one")}, context), Build(reads, FirstWrites)>>
    BY <1>4 DEF FirstHalf, BuildGaussNewtonJacobian, Constants, FirstWrites, LM, GN
  <2> HIDE DEF reads
  <2> QED
    BY <1>1, <1>2, <2>1, <2>2, ConstantsLead, CircuitIsMixed
<1> QED
  BY <1>3, <1>4

\* The inverse, and what the step takes besides it.
LEMMA InvertLeads ==
  ASSUME context \in Sharing, NEW g \in SUBSET Var, NEW r \in SUBSET Var, NEW s \in SUBSET Var,
         NEW b \in SUBSET g, SvdResult \subseteq g, b \cap (SvdVar \cup {The("zero"), The("inverse")}) = {}
  PROVE  LET h == g \cup {The("zero")} \cup {The("inverse")}
         IN  /\ h \in SUBSET Var
             /\ Leads(Mixed(g, g, r, s, b), BuildInvert,
                      Mixed(h, h, r \ {The("inverse")}, s \ {The("inverse")}, b))
<1>1. The("zero") \in Var /\ The("inverse") \in Var
  BY VarNames DEF OptimizerNames
<1>2. /\ The("zero") \notin b /\ {The("inverse")} \cap b = {} /\ {The("inverse")} \in SUBSET Var
      /\ SvdResult \cup {The("zero")} \in SUBSET ((g \ b) \cup {The("zero")})
  BY <1>1, CarryIsApart
<1> QED
  BY <1>1, <1>2, ConstantsLead DEF BuildInvert

LEMMA SecondHalfLeads ==
  ASSUME context \in Sharing, method \in {LM, GN},
         NEW g \in SUBSET Var, NEW r \in SUBSET Var, NEW s \in SUBSET Var,
         Carry \cup {The("inverse")} \subseteq g
  PROVE  LET h == g \cup {The("one")} \cup SecondWrites
         IN  /\ h \in SUBSET Var /\ SecondWrites \in SUBSET Var
             /\ Leads(Circuit(g, g, r, s), SecondHalf,
                      Circuit(h, h, r \ SecondWrites, s \ SecondWrites))
<1>1. The("one") \in Var /\ The("x") \in Var /\ The("bit") \in Var /\ State \subseteq Var
  BY VarNames, SetsOfVars DEF OptimizerNames, SvdNames
<1>2. SecondWrites \in SUBSET Var /\ SecondWrites \cap {} = {} /\ The("one") \notin {} /\ {} \in SUBSET g
  BY <1>1 DEF SecondWrites
<1>3. CASE method = LM
  <2> DEFINE reads == {The("one"), The("inverse"), The("jacob"), The("dy"), The("x")} \cup State
  <2>1. reads \in SUBSET ((g \ {}) \cup {The("one")})
    BY <1>3 DEF Carry, LMCarry
  <2>2. SecondHalf = <<Input({The("one")}, context), Build(reads, SecondWrites)>>
    BY <1>3 DEF SecondHalf, BuildLMStep, Constants, SecondWrites
  <2> HIDE DEF reads
  <2> QED
    BY <1>1, <1>2, <2>1, <2>2, ConstantsLead, CircuitIsMixed
<1>4. CASE method = GN
  <2> DEFINE reads == {The("one"), The("inverse"), The("dy"), The("x")}
  <2>1. reads \in SUBSET ((g \ {}) \cup {The("one")})
    BY <1>4 DEF Carry, GaussNewtonCarry, LM, GN
  <2>2. SecondWrites = {The("x"), The("bit")}
    BY <1>4 DEF SecondWrites, State, LM, GN
  <2>3. SecondHalf = <<Input({The("one")}, context), Build(reads, SecondWrites)>>
    BY <1>4, <2>2 DEF SecondHalf, BuildGaussNewtonStep, Constants, LM, GN
  <2> HIDE DEF reads
  <2> QED
    BY <1>1, <1>2, <2>1, <2>3, ConstantsLead, CircuitIsMixed
<1> QED
  BY <1>3, <1>4

\* The pose and the state of an iteration are put out, and the bit revealed.
LEMMA IterationOutputsLead ==
  ASSUME context \in Sharing, method \in {LM, GN},
         NEW g \in SUBSET Var, NEW r \in SUBSET Var, NEW s \in SUBSET Var,
         Kept \cup {The("bit")} \subseteq g
  PROVE  /\ r \cup (Kept \cup {The("bit")}) \in SUBSET Var
         /\ Leads(Circuit(g, g, r, s), IterationOutputs, Between(r \cup (Kept \cup {The("bit")}), s))
<1>1. The("bit") \in Var /\ Kept \in SUBSET Var
  BY VarNames, SetsOfVars DEF SvdNames
<1>2. Kept \cap {The("bit")} = {}
  BY Apart DEF Kept, State
<1>3. IterationOutputs = IfYao(ToBool(Kept)) \o Epilogue(Kept, {The("bit")})
  <2>1. method = GN => Kept = {The("x")}
    BY DEF Kept, State, LM, GN
  <2> QED
    BY <2>1 DEF IterationOutputs, RunLMIteration, RunGaussNewtonIteration
<1>4. /\ Kept \in SUBSET g /\ Kept \in SUBSET (Kept \cap g) /\ {The("bit")} \in SUBSET (g \cap g)
  OBVIOUS
<1> QED
  BY <1>1, <1>2, <1>3, <1>4, CloseLeads

\* Inputs in the sharing of the caller, where that is boolean.
BoolGates(g) == Know(g, {}, {}, g, {}, {}, "open")

LEMMA BoolInputLeads ==
  ASSUME context \in Sharing, NEW g \in SUBSET Var, NEW of \in SUBSET Var
  PROVE  /\ BoolGates(g) \in Knowledge /\ BoolGates(g \cup of) \in Knowledge
         /\ Leads(BoolGates(g), <<Input(of, BOOL)>>, BoolGates(g \cup of))
<1> DEFINE K == BoolGates(g)
           L == BoolGates(g \cup of)
<1>1. K \in Knowledge /\ L \in Knowledge
  BY KnowIsKnowledge DEF BoolGates
<1>2. Input(of, BOOL) \in CallRecord
  BY CallsAreCalls DEF Sharing
<1>3. Checks(Input(of, BOOL), K)
  BY DEF Checks, PutsGates, Input, Call, BoolGates, Know
<1>4. Then(Input(of, BOOL), K) = Put(K, of, BOOL, of)
  BY DEF Then, Input, Call
<1>5. Below(L, Then(Input(of, BOOL), K))
  BY <1>4 DEF Below, Put, BoolGates, Know, BOOL, YAO
<1> QED
  BY <1>1, <1>2, <1>3, <1>5, LeadsCall

\* The dummy circuit of the inputs.
LEMMA RawInputsLead ==
  ASSUME context \in Sharing, CallerSharing = BOOL, NEW of \in SUBSET Var
  PROVE  Leads(BoolGates(of), RawInputs(of), Between(of, {}))
<1> DEFINE K == BoolGates(of)
           L == Know({}, {}, of, of, {}, {}, "open")
           R == Between(of, {})
<1>1. K \in Knowledge /\ L \in Knowledge /\ R \in Knowledge
  BY KnowIsKnowledge, BetweenIsKnowledge DEF BoolGates
<1>2. /\ SharedOut(of) \in CallRecord /\ Exec \in CallRecord /\ Get(of) \in CallRecord
      /\ Count \in CallRecord /\ Reset \in CallRecord
  BY CallsAreCalls DEF Sharing
<1>3. Leads(K, <<SharedOut(of)>>, L)
  <2>1. Checks(SharedOut(of), K)
    BY DEF Checks, PutsGates, SharedOut, Call, BoolGates, Know, Gates
  <2>2. Then(SharedOut(of), K) = Know({}, {}, of, of, {}, {}, "open")
    BY DEF Then, SharedOut, Call, BoolGates, Know
  <2> QED
    BY <1>1, <1>2, <2>1, <2>2, LeadsCall, BelowIsOrder
<1>4. Leads(L, <<Exec, Get(of), Count, Reset>>, R)
  <2>1. L.phase = "open" /\ L.outs = of /\ L.fresh = of /\ L.raws = {} /\ L.saved = {}
    BY DEF Know
  <2> HIDE DEF L
  <2>2. of \in SUBSET (L.outs \cap L.fresh) /\ L.raws \cup of = of
    BY <2>1
  <2> QED
    BY <1>1, <2>1, <2>2, ExecLeads
<1> HIDE DEF K, L, R
<1>5. Leads(K, <<SharedOut(of)>> \o <<Exec, Get(of), Count, Reset>>, R)
  BY <1>1, <1>3, <1>4, LeadsOn
<1>6. <<SharedOut(of), Exec, Get(of), Count, Reset>> = <<SharedOut(of)>> \o <<Exec, Get(of), Count, Reset>>
  <2> DEFINE a == SharedOut(of)
             b == Exec
             c == Get(of)
             d == Count
             e == Reset
  <2> HIDE DEF a, b, c, d, e
  <2>1. <<a, b, c, d, e>> = <<a>> \o <<b, c, d, e>>
    BY FirstCall
  <2> QED
    BY <2>1 DEF a, b, c, d, e
<1>7. <<SharedOut(of)>> \o <<Exec, Get(of), Count, Reset>> \in Seq(CallRecord)
  BY <1>5 DEF Leads
<1>8. RawInputs(of) = << >> \o (<<SharedOut(of)>> \o <<Exec, Get(of), Count, Reset>>)
  BY <1>6 DEF RawInputs, BOOL, YAO
<1> QED
  BY <1>5, <1>7, <1>8, ConcatEmptySeq DEF K, R

LEMMA StartLeads ==
  ASSUME ConfigInv
  PROVE  Leads(Known("start"), <<Input(Inputs, CallerSharing)>> \o Preparation, Known("iterate"))
<1>1. context \in Sharing /\ method \in {LM, GN} /\ Inputs \in SUBSET Var /\ State \in SUBSET Var
  BY SetsOfVars DEF ConfigInv
<1>2. method = GN => State = {}
  BY DEF State, LM, GN
<1>3. Known("start") = Between({}, {})
  BY DEF Known
<1>4. CASE flow = DO
  <2> DEFINE I == Inputs \cup State
             K == Circuit({}, {}, {}, {})
             L == Circuit({} \cup Inputs, {} \cup Inputs, {}, {})
             M == Circuit({} \cup Inputs \cup State, {} \cup Inputs \cup State, {}, {})
  <2>1. Known("start") = K
    BY <1>3 DEF Between, Circuit
  <2>2. Known("iterate") = M
    BY <1>4 DEF Known
  <2>3. Leads(K, <<Input(Inputs, CallerSharing)>>, L)
    BY <1>1, <1>4, InputLeads DEF ConfigInv
  <2>4. K \in Knowledge /\ L \in Knowledge /\ M \in Knowledge
    BY <1>1, CircuitIsKnowledge
  <2>5. CASE method = LM
    <3>1. Preparation = <<Input(State, context)>>
      BY <1>4, <2>5 DEF Preparation, BuildAndRunLMDO
    <3>2. Leads(L, <<Input(State, context)>>, M)
      BY <1>1, InputLeads
    <3> HIDE DEF K, L, M
    <3> QED
      BY <2>1, <2>2, <2>3, <2>4, <3>1, <3>2, LeadsOn
  <2>6. CASE method = GN
    <3>1. Preparation = << >>
      BY <1>4, <2>6 DEF Preparation, LM, GN
    <3>2. L = M
      BY <1>2, <2>6
    <3>3. Leads(L, << >>, M)
      BY <2>4, <3>2, LeadsNowhere, BelowIsOrder
    <3> HIDE DEF K, L, M
    <3> QED
      BY <2>1, <2>2, <2>3, <2>4, <3>1, <3>3, LeadsOn
  <2> QED
    BY <1>1, <2>5, <2>6
<1>5. CASE flow # DO
  <2> DEFINE K == BoolGates({})
             L == BoolGates({} \cup Inputs)
             M == BoolGates({} \cup Inputs \cup State)
             R == Between({} \cup Inputs \cup State, {})
  <2>1. Known("start") = K
    BY <1>3 DEF Between, BoolGates
  <2>2. Known("iterate") = R
    BY <1>5 DEF Known
  <2>3. CallerSharing = BOOL
    BY <1>5 DEF ConfigInv
  <2>4. /\ K \in Knowledge /\ L \in Knowledge /\ M \in Knowledge /\ R \in Knowledge
        /\ Leads(K, <<Input(Inputs, CallerSharing)>>, L)
        /\ Leads(L, <<Input(State, BOOL)>>, M)
    BY <1>1, <2>3, BoolInputLeads, BetweenIsKnowledge
  <2>5. Leads(M, RawInputs({} \cup Inputs \cup State), R)
    BY <1>1, <2>3, RawInputsLead
  <2>6. {} \cup Inputs \cup State = Inputs \cup State
    OBVIOUS
  <2>7. Leads(L, Preparation, R)
    <3>1. CASE method = LM
      <4>1. Preparation = <<Input(State, BOOL)>> \o RawInputs(Inputs \cup State)
        BY <1>5, <3>1 DEF Preparation, BuildAndRunLMLoopLeak
      <4> HIDE DEF K, L, M, R
      <4> QED
        BY <2>4, <2>5, <2>6, <4>1, LeadsOn
    <3>2. CASE method = GN
      <4>1. Preparation = RawInputs(Inputs \cup State) /\ L = M
        <5>1. Inputs \cup State = Inputs /\ {} \cup Inputs = {} \cup Inputs \cup State
          BY <1>2, <3>2
        <5> QED
          BY <1>5, <3>2, <5>1 DEF Preparation, BuildAndRunGaussNewtonLoopLeak, LM, GN
      <4> HIDE DEF K, L, M, R
      <4> QED
        BY <2>5, <2>6, <4>1
    <3> QED
      BY <1>1, <3>1, <3>2
  <2> HIDE DEF K, L, M, R
  <2> QED
    BY <2>1, <2>2, <2>4, <2>7, LeadsOn
<1> QED
  BY <1>4, <1>5

\* The circuit of the whole SVD in the builds that do not leak.
LEMMA BuildSvdLeads ==
  ASSUME context \in Sharing, NEW g \in SUBSET Var, NEW r \in SUBSET Var, NEW s \in SUBSET Var,
         All("a") \subseteq g
  PROVE  /\ g \cup SvdResult \in SUBSET Var
         /\ BuildSvdOSL = BuildSvdDO
         /\ Leads(Circuit(g, g, r, s), <<BuildSvdDO>>,
                  Circuit(g \cup SvdResult, g \cup SvdResult, r \ SvdResult, s \ SvdResult))
<1>1. All("a") \in SUBSET (g \cap g) /\ SvdResult \in SUBSET Var
  BY SetsOfVars
<1> QED
  BY <1>1, BuildLeads DEF BuildSvdDO, BuildSvdOSL

\* An iteration on one circuit, from its inputs to its step.
LEMMA OneCircuitLeads ==
  ASSUME context \in Sharing, method \in {LM, GN}, NEW r \in SUBSET Var,
         NEW pre, NEW K \in Knowledge,
         Leads(K, pre, Circuit(Inputs \cup State, Inputs \cup State, r, {}))
  PROVE  \E g \in SUBSET Var :
           /\ Inputs \cup State \cup {The("bit")} \subseteq g
           /\ Leads(K, pre \o FirstHalf \o <<BuildSvdDO>> \o BuildInvert \o SecondHalf,
                    Circuit(g, g, r \ (FirstWrites \cup SvdResult \cup {The("inverse")} \cup SecondWrites), {}))
<1> DEFINE g0 == Inputs \cup State
           g1 == g0 \cup {The("one")} \cup FirstWrites
           g2 == g1 \cup SvdResult
           g3 == g2 \cup {The("zero")} \cup {The("inverse")}
           g4 == g3 \cup {The("one")} \cup SecondWrites
           r1 == r \ FirstWrites
           r2 == r1 \ SvdResult
           r3 == r2 \ {The("inverse")}
           r4 == r3 \ SecondWrites
<1>1. g0 \in SUBSET Var
  BY SetsOfVars
<1>2. g1 \in SUBSET Var /\ Leads(Circuit(g0, g0, r, {}), FirstHalf, Circuit(g1, g1, r1, {}))
  <2>1. {} \ FirstWrites = {}
    OBVIOUS
  <2> QED
    BY <1>1, <2>1, FirstHalfLeads
<1>3. All("a") \subseteq g1 /\ {The("dy")} \subseteq g1 /\ (method = LM => The("jacob") \in g1)
  BY DEF FirstWrites
<1>4. Carry \subseteq g1
  BY <1>3 DEF Carry, LMCarry, GaussNewtonCarry, Inputs
<1>5. g2 \in SUBSET Var /\ Leads(Circuit(g1, g1, r1, {}), <<BuildSvdDO>>, Circuit(g2, g2, r2, {}))
  <2>1. {} \ SvdResult = {}
    OBVIOUS
  <2> HIDE DEF g1
  <2> QED
    BY <1>2, <1>3, <2>1, BuildSvdLeads
<1>6. g3 \in SUBSET Var /\ Leads(Circuit(g2, g2, r2, {}), BuildInvert, Circuit(g3, g3, r3, {}))
  <2>1. /\ {} \ {The("inverse")} = {} /\ {} \in SUBSET g2 /\ SvdResult \subseteq g2
        /\ {} \cap (SvdVar \cup {The("zero"), The("inverse")}) = {}
    OBVIOUS
  <2> HIDE DEF g2
  <2> QED
    BY <1>2, <1>5, <2>1, InvertLeads, CircuitIsMixed
<1>7. g4 \in SUBSET Var /\ Leads(Circuit(g3, g3, r3, {}), SecondHalf, Circuit(g4, g4, r4, {}))
  <2>1. {} \ SecondWrites = {} /\ Carry \cup {The("inverse")} \subseteq g3
    BY <1>4
  <2> HIDE DEF g3
  <2> QED
    BY <1>2, <1>6, <2>1, SecondHalfLeads
<1>8. /\ Circuit(g0, g0, r, {}) \in Knowledge /\ Circuit(g1, g1, r1, {}) \in Knowledge
      /\ Circuit(g2, g2, r2, {}) \in Knowledge /\ Circuit(g3, g3, r3, {}) \in Knowledge
      /\ Circuit(g4, g4, r4, {}) \in Knowledge
  <2> HIDE DEF g0, g1, g2, g3, g4
  <2> QED
    BY <1>1, <1>2, <1>5, <1>6, <1>7, CircuitIsKnowledge
<1>9. Inputs \cup State \cup {The("bit")} \subseteq g4
  BY DEF SecondWrites
<1>10. r4 = r \ (FirstWrites \cup SvdResult \cup {The("inverse")} \cup SecondWrites)
  OBVIOUS
<1> HIDE DEF g0, g1, g2, g3, g4, r1, r2, r3, r4
<1>11. Leads(K, pre, Circuit(g0, g0, r, {}))
  BY DEF g0
<1>12. Leads(K, pre \o FirstHalf, Circuit(g1, g1, r1, {}))
  BY <1>2, <1>8, <1>11, LeadsOn
<1>13. Leads(K, pre \o FirstHalf \o <<BuildSvdDO>>, Circuit(g2, g2, r2, {}))
  BY <1>5, <1>8, <1>12, LeadsOn
<1>14. Leads(K, pre \o FirstHalf \o <<BuildSvdDO>> \o BuildInvert, Circuit(g3, g3, r3, {}))
  BY <1>6, <1>8, <1>13, LeadsOn
<1>15. Leads(K, pre \o FirstHalf \o <<BuildSvdDO>> \o BuildInvert \o SecondHalf,
             Circuit(g4, g4, r4, {}))
  BY <1>7, <1>8, <1>14, LeadsOn
<1> QED
  BY <1>7, <1>9, <1>10, <1>15

\* The oblivious build goes on with the circuit.
LEMMA ObliviousIterationLeads ==
  ASSUME ConfigInv, flow = DO
  PROVE  Leads(Known("iterate"), FirstHalf \o <<BuildSvdDO>> \o BuildInvert \o SecondHalf,
               Known("decide"))
<1> DEFINE g0 == Inputs \cup State
           K == Circuit(g0, g0, {}, {})
<1>1. context \in Sharing /\ method \in {LM, GN} /\ g0 \in SUBSET Var
  BY SetsOfVars DEF ConfigInv
<1>2. K \in Knowledge /\ Known("iterate") = K /\ Known("decide") = K
  BY <1>1, CircuitIsKnowledge DEF Known
<1>3. Leads(K, << >>, K)
  BY <1>2, LeadsNowhere, BelowIsOrder
<1> HIDE DEF K
<1>4. PICK g \in SUBSET Var :
        /\ Inputs \cup State \cup {The("bit")} \subseteq g
        /\ Leads(K, << >> \o FirstHalf \o <<BuildSvdDO>> \o BuildInvert \o SecondHalf,
                 Circuit(g, g, {} \ (FirstWrites \cup SvdResult \cup {The("inverse")} \cup SecondWrites), {}))
  BY <1>1, <1>2, <1>3, OneCircuitLeads DEF K
<1>5. {} \ (FirstWrites \cup SvdResult \cup {The("inverse")} \cup SecondWrites) = {}
  OBVIOUS
<1>6. Below(K, Circuit(g, g, {}, {})) /\ Circuit(g, g, {}, {}) \in Knowledge
  BY <1>1, <1>4, CircuitIsKnowledge DEF Below, K, Circuit, Know
<1>7. << >> \o FirstHalf = FirstHalf
  <2>1. Leads(Circuit(g0, g0, {}, {}), FirstHalf,
              Circuit(g0 \cup {The("one")} \cup FirstWrites, g0 \cup {The("one")} \cup FirstWrites,
                      {} \ FirstWrites, {} \ FirstWrites))
    BY <1>1, FirstHalfLeads
  <2>2. FirstHalf \in Seq(CallRecord)
    BY <2>1 DEF Leads
  <2> QED
    BY <2>2, ConcatEmptySeq
<1>8. Leads(K, << >> \o FirstHalf \o <<BuildSvdDO>> \o BuildInvert \o SecondHalf, K)
  BY <1>2, <1>4, <1>5, <1>6, LeadsLess
<1> QED
  BY <1>2, <1>7, <1>8

\* The SiSL build makes raw shares of what it keeps.
LEMMA SiSLIterationLeads ==
  ASSUME ConfigInv, flow = SiSL
  PROVE  Leads(Known("iterate"),
               IterationInputs \o FirstHalf \o <<BuildSvdOSL>> \o BuildInvert \o SecondHalf
                 \o IterationOutputs,
               Known("decide"))
<1> DEFINE g0 == Inputs \cup State
           K == Between(g0, {})
           W == FirstWrites \cup SvdResult \cup {The("inverse")} \cup SecondWrites
           r == g0 \ W
           R == r \cup (Kept \cup {The("bit")})
           pieces == IterationInputs \o FirstHalf \o <<BuildSvdDO>> \o BuildInvert \o SecondHalf
<1>1. /\ context \in Sharing /\ method \in {LM, GN} /\ g0 \in SUBSET Var /\ {} \in SUBSET Var
      /\ r \in SUBSET Var
  BY SetsOfVars DEF ConfigInv
<1>2. K \in Knowledge /\ Known("iterate") = K /\ Known("decide") = Between(g0 \cup {The("bit")}, {})
  BY <1>1, BetweenIsKnowledge DEF Known, DO, SiSL
<1>3. Leads(K, IterationInputs, Circuit(g0, g0, g0, {}))
  <2>1. g0 \cap g0 = g0
    OBVIOUS
  <2> HIDE DEF g0
  <2>2. Leads(K, Prologue(g0), Circuit(g0, g0 \cap g0, g0, {}))
    BY <1>1, PrologueLeads
  <2> QED
    BY <2>1, <2>2 DEF IterationInputs, g0
<1>4. PICK g \in SUBSET Var :
        /\ Inputs \cup State \cup {The("bit")} \subseteq g
        /\ Leads(K, pieces, Circuit(g, g, r, {}))
  <2> HIDE DEF K
  <2> QED
    BY <1>1, <1>2, <1>3, OneCircuitLeads
<1>5. Kept \cup {The("bit")} \subseteq g
  BY <1>4 DEF Kept, Inputs
<1>6. R \in SUBSET Var /\ Leads(Circuit(g, g, r, {}), IterationOutputs, Between(R, {}))
  <2> HIDE DEF r
  <2> QED
    BY <1>1, <1>4, <1>5, IterationOutputsLead
<1>7. BuildSvdOSL = BuildSvdDO
  BY DEF BuildSvdDO, BuildSvdOSL
<1>8. /\ Circuit(g, g, r, {}) \in Knowledge /\ Between(R, {}) \in Knowledge
      /\ Between(g0 \cup {The("bit")}, {}) \in Knowledge
  <2>1. The("bit") \in Var
    BY VarNames DEF SvdNames
  <2> HIDE DEF r, R
  <2> QED
    BY <1>1, <1>4, <1>6, <2>1, CircuitIsKnowledge, BetweenIsKnowledge
<1>9. Below(Between(g0 \cup {The("bit")}, {}), Between(R, {}))
  <2>1. Given \cap W = {}
    <3>1. Given \cap FirstWrites = {} /\ Given \cap SecondWrites = {} /\ The("inverse") \notin Given
      BY Apart DEF Given, FirstWrites, SecondWrites, State
    <3> QED
      BY <3>1, CarryIsApart
  <2>2. g0 \subseteq Given \cup Kept
    BY DEF Given, Kept, Inputs
  <2>3. g0 \cup {The("bit")} \subseteq R
    BY <2>1, <2>2
  <2> HIDE DEF R
  <2> QED
    BY <2>3 DEF Below, Between, Know
<1> HIDE DEF g0, r, R, K, pieces
<1>10. Leads(K, pieces \o IterationOutputs, Between(R, {}))
  BY <1>2, <1>4, <1>6, <1>8, LeadsOn
<1>11. Leads(K, pieces \o IterationOutputs, Between(g0 \cup {The("bit")}, {}))
  BY <1>2, <1>8, <1>9, <1>10, LeadsLess
<1> QED
  BY <1>2, <1>7, <1>11 DEF pieces

\* The matrix is put out on what its caller has begun, and the caller's shares
\* are read before the circuit is reset.
LEMMA ExecSaveLeads ==
  ASSUME context \in Sharing, NEW K \in Knowledge, K.phase = "open",
         NEW of \in SUBSET (K.outs \cap K.fresh), NEW carry \in SUBSET (K.outs \cap K.fresh)
  PROVE  Leads(K, <<Exec, Get(of), Save(carry), Count, Reset>>,
               Between(K.raws \cup of, K.saved \cup carry))
<1> DEFINE X == [K EXCEPT !.phase = "executed"]
           G == [K EXCEPT !.phase = "executed", !.raws = K.raws \cup of]
           V == [K EXCEPT !.phase = "executed", !.raws = K.raws \cup of, !.saved = K.saved \cup carry]
           C == [K EXCEPT !.phase = "counted", !.raws = K.raws \cup of, !.saved = K.saved \cup carry]
           R == Between(K.raws \cup of, K.saved \cup carry)
<1>1. of \in SUBSET Var /\ carry \in SUBSET Var
  BY DEF Knowledge
<1>2. /\ X \in Knowledge /\ G \in Knowledge /\ V \in Knowledge /\ C \in Knowledge
      /\ R \in Knowledge
  BY <1>1, BetweenIsKnowledge DEF Knowledge
<1>3. /\ Exec \in CallRecord /\ Get(of) \in CallRecord /\ Save(carry) \in CallRecord
      /\ Count \in CallRecord /\ Reset \in CallRecord
  BY <1>1, CallsAreCalls
<1>4. Leads(K, <<Exec>>, X)
  <2>1. Checks(Exec, K) /\ Then(Exec, K) = X
    BY DEF Checks, PutsGates, Then, Exec, Call
  <2> QED
    BY <1>2, <1>3, <2>1, LeadsCall, BelowIsOrder
<1>5. Leads(X, <<Get(of)>>, G)
  <2>1. X.outs = K.outs /\ X.fresh = K.fresh /\ X.raws = K.raws /\ X.phase = "executed"
    BY DEF Knowledge
  <2>2. Checks(Get(of), X)
    BY <2>1 DEF Checks, PutsGates, Get, Call
  <2>3. Then(Get(of), X) = [X EXCEPT !.raws = (K.raws \ of) \cup (of \cap K.fresh)]
    BY <2>1 DEF Then, Get, Call
  <2>4. Below(G, Then(Get(of), X))
    BY <2>3 DEF Below, Knowledge
  <2> QED
    BY <1>2, <1>3, <2>2, <2>4, LeadsCall
<1>6. Leads(G, <<Save(carry)>>, V)
  <2>1. /\ G.outs = K.outs /\ G.fresh = K.fresh /\ G.saved = K.saved /\ G.phase = "executed"
    BY DEF Knowledge
  <2>2. Checks(Save(carry), G)
    BY <2>1 DEF Checks, PutsGates, Save, Call
  <2>3. Then(Save(carry), G) = [G EXCEPT !.saved = (K.saved \ carry) \cup (carry \cap K.fresh)]
    BY <2>1 DEF Then, Save, Call
  <2>4. Below(V, Then(Save(carry), G))
    BY <2>3 DEF Below, Knowledge
  <2> QED
    BY <1>2, <1>3, <2>2, <2>4, LeadsCall
<1>7. Leads(V, <<Count>>, C)
  <2>1. V.phase = "executed"
    BY DEF Knowledge
  <2>2. Checks(Count, V) /\ Then(Count, V) = [V EXCEPT !.phase = "counted"]
    BY <2>1 DEF Checks, PutsGates, Then, Count, Call
  <2>3. Below(C, Then(Count, V))
    BY <2>2 DEF Below, Knowledge
  <2> QED
    BY <1>2, <1>3, <2>2, <2>3, LeadsCall
<1>8. Leads(C, <<Reset>>, R)
  <2>1. C.phase = "counted" /\ C.raws = K.raws \cup of /\ C.saved = K.saved \cup carry
    BY DEF Knowledge
  <2>2. Checks(Reset, C) /\ Then(Reset, C) = R
    BY <2>1 DEF Checks, PutsGates, Then, Reset, Call, Between
  <2> QED
    BY <1>2, <1>3, <2>2, LeadsCall, BelowIsOrder
<1>9. Leads(G, <<Save(carry)>> \o (<<Count>> \o <<Reset>>), R)
  <2>1. Leads(V, <<Count>> \o <<Reset>>, R)
    BY <1>2, <1>7, <1>8, LeadsOn
  <2> QED
    BY <1>2, <1>6, <2>1, LeadsOn
<1>10. <<Exec, Get(of), Save(carry), Count, Reset>>
         = <<Exec>> \o (<<Get(of)>> \o (<<Save(carry)>> \o (<<Count>> \o <<Reset>>)))
  <2> DEFINE a == Exec
             b == Get(of)
             c == Save(carry)
             d == Count
             e == Reset
  <2> HIDE DEF a, b, c, d, e
  <2>1. <<a, b, c, d, e>> = <<a>> \o <<b, c, d, e>>
    BY FirstCall
  <2>2. <<b, c, d, e>> = <<b>> \o <<c, d, e>>
    BY FirstCall
  <2>3. <<c, d, e>> = <<c>> \o <<d, e>>
    BY FirstCall
  <2>4. <<d, e>> = <<d>> \o <<e>>
    BY FirstCall
  <2> QED
    BY <2>1, <2>2, <2>3, <2>4 DEF a, b, c, d, e
<1> HIDE DEF X, G, V, C, R
<1>11. Leads(X, <<Get(of)>> \o (<<Save(carry)>> \o (<<Count>> \o <<Reset>>)), R)
  BY <1>2, <1>5, <1>9, LeadsOn
<1>12. Leads(K, <<Exec>> \o (<<Get(of)>> \o (<<Save(carry)>> \o (<<Count>> \o <<Reset>>))), R)
  BY <1>2, <1>4, <1>11, LeadsOn
<1> QED
  BY <1>10, <1>12 DEF R

LEMMA SvdInputsLead ==
  ASSUME context \in Sharing, NEW K \in Knowledge, K.phase = "open",
         All("a") \subseteq Gates(K, context) \cap K.fresh,
         NEW carry \in SUBSET (K.outs \cap K.fresh), carry \cap All("a") = {}
  PROVE  Leads(K, SvdInputs(carry, context = YAO), Between(K.raws \cup All("a"), K.saved \cup carry))
<1> DEFINE A == All("a")
           L == Know(IF context = BOOL THEN K.bool ELSE A, {}, K.outs \ A, K.fresh, K.raws, K.saved, "open")
           L1 == Know(IF context = BOOL THEN K.bool ELSE A, {}, carry, K.fresh, K.raws, K.saved, "open")
           M == Know(L1.bool \ A, L1.yao \ A, L1.outs \cup A, L1.fresh, L1.raws, L1.saved, "open")
           R == Between(K.raws \cup A, K.saved \cup carry)
           back == IF context = YAO THEN <<ToBool(A)>> ELSE << >>
           rest == <<Exec, Get(A), Save(carry), Count, Reset>>
<1>1. A \in SUBSET Var /\ carry \in SUBSET Var /\ BOOL \in Sharing
  BY VarNames DEF Knowledge, Sharing
<1>2. L1 \in Knowledge /\ R \in Knowledge /\ ToBool(A) \in CallRecord /\ SharedOut(A) \in CallRecord
  <2>1. /\ K.bool \in SUBSET Var /\ K.fresh \in SUBSET Var /\ K.raws \in SUBSET Var
        /\ K.saved \in SUBSET Var
    BY DEF Knowledge
  <2> HIDE DEF A
  <2> QED
    BY <1>1, <2>1, KnowIsKnowledge, BetweenIsKnowledge, CallsAreCalls
<1>3. /\ L1.bool = (IF context = BOOL THEN K.bool ELSE A) /\ L1.yao = {} /\ L1.outs = carry
      /\ L1.fresh = K.fresh /\ L1.raws = K.raws /\ L1.saved = K.saved /\ L1.phase = "open"
  BY DEF Know
<1> HIDE DEF A, L1
<1>4. Leads(K, back, L1)
  <2>1. CASE context = YAO
    <3>1. Checks(ToBool(A), K)
      BY <2>1 DEF Checks, PutsGates, ToBool, Call, A
    <3>2. Then(ToBool(A), K) = Put(K, A, BOOL, A \cap K.fresh)
      BY DEF Then, ToBool, Call, Other, BOOL, YAO
    <3>3. /\ Then(ToBool(A), K).bool = K.bool \cup A
          /\ Then(ToBool(A), K).outs = K.outs \ A
          /\ Then(ToBool(A), K).fresh = (K.fresh \ A) \cup (A \cap K.fresh)
          /\ Then(ToBool(A), K).raws = K.raws /\ Then(ToBool(A), K).saved = K.saved
          /\ Then(ToBool(A), K).phase = "open"
      BY <3>2 DEF Put, Know
    <3>4. Below(L1, Then(ToBool(A), K))
      BY <1>3, <2>1, <3>3 DEF Below, BOOL, YAO, A
    <3> QED
      BY <1>2, <2>1, <3>1, <3>4, LeadsCall
  <2>2. CASE context = BOOL
    <3>1. Below(L1, K)
      BY <1>3, <2>2 DEF Below
    <3> QED
      BY <1>2, <2>2, <3>1, LeadsNowhere DEF BOOL, YAO
  <2> QED
    BY <2>1, <2>2 DEF Sharing
<1>5. M \in Knowledge /\ Leads(L1, <<SharedOut(A)>>, M)
  <2>1. A \subseteq Gates(L1, BOOL)
    BY <1>3 DEF Gates, A
  <2>2. /\ SharedOut(A).kind \in {"sharedout", "out"} /\ SharedOut(A).of = A
        /\ SharedOut(A).sharing = BOOL
    BY DEF SharedOut, Call
  <2> QED
    BY <1>1, <1>2, <1>3, <2>1, <2>2, OutLeads
<1>6. /\ M.outs = carry \cup A /\ M.fresh = K.fresh /\ M.raws = K.raws /\ M.saved = K.saved
      /\ M.phase = "open"
  BY <1>3 DEF Know
<1> HIDE DEF M
<1>7. Leads(M, rest, R)
  <2>1. A \in SUBSET (M.outs \cap M.fresh) /\ carry \in SUBSET (M.outs \cap M.fresh)
    BY <1>6 DEF A
  <2> QED
    BY <1>5, <1>6, <2>1, ExecSaveLeads
<1>8. SvdInputs(carry, context = YAO) = back \o (<<SharedOut(A)>> \o rest)
  <2> DEFINE a == SharedOut(A)
             b == Exec
             c == Get(A)
             d == Save(carry)
             e == Count
             f == Reset
  <2> HIDE DEF a, b, c, d, e, f
  <2>1. <<a, b, c, d, e, f>> = <<a>> \o <<b, c, d, e, f>>
    BY FirstCall
  <2> QED
    BY <2>1 DEF a, b, c, d, e, f, SvdInputs, A
<1> HIDE DEF back, rest, R
<1>9. Leads(L1, <<SharedOut(A)>> \o rest, R)
  BY <1>2, <1>5, <1>7, LeadsOn
<1>10. Leads(K, back \o (<<SharedOut(A)>> \o rest), R)
  BY <1>2, <1>4, <1>9, LeadsOn
<1> QED
  BY <1>8, <1>10 DEF R, A

\* The shares that have to outlive the SVD are put out.
LEMMA CarryOutLeads ==
  ASSUME context \in Sharing, NEW g \in SUBSET Var, NEW r \in SUBSET Var,
         Carry \cup All("a") \subseteq g
  PROVE  \E L \in Knowledge :
           /\ Leads(Circuit(g, g, r, {}), CarryOut, L)
           /\ L.phase = "open" /\ L.raws = r /\ L.saved = {} /\ L.fresh = g /\ L.outs = Carry
           /\ All("a") \subseteq Gates(L, context) \cap L.fresh
<1> DEFINE K == Mixed(g, g, r, {}, Carry)
           L == Know(K.bool \ Carry, K.yao \ Carry, K.outs \cup Carry, K.fresh, K.raws, K.saved, "open")
<1>1. Carry \in SUBSET Var /\ Carry \in SUBSET g /\ BOOL \in Sharing /\ {} \in SUBSET Var
  BY SetsOfVars DEF Sharing
<1>2. K \in Knowledge /\ Circuit(g, g, r, {}) \in Knowledge
  BY <1>1, MixedIsKnowledge, CircuitIsKnowledge
<1>3. Leads(Circuit(g, g, r, {}), IfYao(ToBool(Carry)), K)
  BY <1>1, BackLeads DEF Mixed
<1>4. /\ K.bool = (IF context = BOOL THEN g ELSE Carry)
      /\ K.yao = (IF context = YAO THEN g \ Carry ELSE {})
      /\ K.outs = {} /\ K.fresh = g /\ K.raws = r /\ K.saved = {} /\ K.phase = "open"
  BY DEF Mixed, Know
<1> HIDE DEF K
<1>5. L \in Knowledge /\ Leads(K, <<SharedOut(Carry)>>, L)
  <2>1. SharedOut(Carry) \in CallRecord
    BY <1>1, CallsAreCalls
  <2>2. /\ SharedOut(Carry).kind \in {"sharedout", "out"} /\ SharedOut(Carry).of = Carry
        /\ SharedOut(Carry).sharing = BOOL
    BY DEF SharedOut, Call
  <2>3. Carry \subseteq Gates(K, BOOL)
    BY <1>1, <1>4 DEF Gates
  <2> QED
    BY <1>1, <1>2, <1>4, <2>1, <2>2, <2>3, OutLeads
<1>6. /\ L.bool = K.bool \ Carry /\ L.yao = K.yao \ Carry /\ L.outs = Carry /\ L.fresh = g
      /\ L.raws = r /\ L.saved = {} /\ L.phase = "open"
  BY <1>4 DEF Know
<1> HIDE DEF L
<1>7. All("a") \cap Carry = {}
  BY CarryIsApart
<1>8. All("a") \subseteq Gates(L, context) \cap L.fresh
  BY <1>4, <1>6, <1>7 DEF Gates, Sharing, BOOL, YAO
<1>9. Leads(Circuit(g, g, r, {}), CarryOut, L)
  BY <1>2, <1>3, <1>5, LeadsOn DEF CarryOut
<1> QED
  BY <1>5, <1>6, <1>8, <1>9

\* The leaking build ends the circuit in the middle of an iteration.
LEMMA LeakingIterationLeads ==
  ASSUME ConfigInv, flow = LOOP_LEAK
  PROVE  Leads(Known("iterate"),
               IterationInputs \o FirstHalf \o CarryOut \o SvdInputs(Carry, context = YAO),
               Known("svd"))
<1> DEFINE g0 == Inputs \cup State
           g1 == g0 \cup {The("one")} \cup FirstWrites
           r1 == g0 \ FirstWrites
           K == Between(g0, {})
           C0 == Circuit(g0, g0, g0, {})
           C1 == Circuit(g1, g1, r1, {})
           R == Between(r1 \cup All("a"), {} \cup Carry)
           S0 == Between(Given \cup All("a"), Carry)
<1>1. /\ context \in Sharing /\ method \in {LM, GN} /\ g0 \in SUBSET Var /\ {} \in SUBSET Var
      /\ r1 \in SUBSET Var /\ Carry \in SUBSET Var /\ Given \in SUBSET Var
      /\ All("a") \in SUBSET Var
  BY SetsOfVars, VarNames DEF ConfigInv
<1>2. Known("iterate") = K /\ Known("svd") = S0
  BY DEF Known, DO, LOOP_LEAK
<1>3. Leads(K, IterationInputs, C0)
  <2>1. g0 \cap g0 = g0
    OBVIOUS
  <2> HIDE DEF g0
  <2>2. Leads(K, Prologue(g0), Circuit(g0, g0 \cap g0, g0, {}))
    BY <1>1, PrologueLeads
  <2> QED
    BY <2>1, <2>2 DEF IterationInputs, g0
<1>4. g1 \in SUBSET Var /\ Leads(C0, FirstHalf, C1)
  <2>1. {} \ FirstWrites = {}
    OBVIOUS
  <2>2. Inputs \cup State \subseteq g0
    OBVIOUS
  <2> HIDE DEF g0
  <2> QED
    BY <1>1, <2>1, <2>2, FirstHalfLeads
<1>5. Carry \cup All("a") \subseteq g1
  BY DEF FirstWrites, Carry, LMCarry, GaussNewtonCarry, Inputs
<1>6. Given \subseteq r1
  <2>1. Given \cap FirstWrites = {}
    BY Apart DEF Given, FirstWrites
  <2> QED
    BY <2>1 DEF Given, Inputs
<1>7. /\ K \in Knowledge /\ C0 \in Knowledge /\ C1 \in Knowledge /\ R \in Knowledge
      /\ S0 \in Knowledge
  <2> HIDE DEF g0, g1, r1
  <2> QED
    BY <1>1, <1>4, BetweenIsKnowledge, CircuitIsKnowledge
<1> HIDE DEF g0, g1, r1, K, C0
<1>8. PICK L \in Knowledge :
        /\ Leads(C1, CarryOut, L)
        /\ L.phase = "open" /\ L.raws = r1 /\ L.saved = {} /\ L.fresh = g1 /\ L.outs = Carry
        /\ All("a") \subseteq Gates(L, context) \cap L.fresh
  BY <1>1, <1>4, <1>5, CarryOutLeads
<1>9. Leads(L, SvdInputs(Carry, context = YAO), R)
  <2>1. Carry \in SUBSET (L.outs \cap L.fresh) /\ Carry \cap All("a") = {}
    BY <1>5, <1>8, CarryIsApart
  <2> QED
    BY <1>1, <1>8, <2>1, SvdInputsLead
<1>10. Below(S0, R)
  BY <1>6 DEF Below, Between, Know
<1> HIDE DEF C1, R, S0
<1>11. Leads(K, IterationInputs \o FirstHalf, C1)
  BY <1>3, <1>4, <1>7, LeadsOn
<1>12. Leads(K, IterationInputs \o FirstHalf \o CarryOut, L)
  BY <1>7, <1>8, <1>11, LeadsOn
<1>13. Leads(K, IterationInputs \o FirstHalf \o CarryOut \o SvdInputs(Carry, context = YAO), R)
  BY <1>7, <1>8, <1>9, <1>12, LeadsOn
<1> QED
  BY <1>2, <1>7, <1>10, <1>13, LeadsLess

\* The rest of the iteration begins with the results of the SVD and the shares
\* that are built again.
LEMMA SvdOutputsLead ==
  ASSUME context \in Sharing, NEW r \in SUBSET Var, SvdResult \subseteq r
  PROVE  LET g == SvdResult \cup Carry
         IN  /\ Mixed(g, g, r, {}, Carry) \in Knowledge
             /\ Leads(Between(r, Carry), SvdOutputs(Carry), Mixed(g, g, r, {}, Carry))
<1> DEFINE g == SvdResult \cup Carry
           K == Between(r, Carry)
           C == Circuit(SvdResult, SvdResult \cap r, r, Carry)
           M == Mixed(g, g, r, {}, Carry)
<1>1. SvdResult \in SUBSET Var /\ Carry \in SUBSET Var /\ SvdResult \cap Carry = {}
  BY SetsOfVars, CarryIsApart
<1>2. K \in Knowledge /\ C \in Knowledge /\ M \in Knowledge /\ Restore(Carry) \in CallRecord
  BY <1>1, BetweenIsKnowledge, CircuitIsKnowledge, MixedIsKnowledge, CallsAreCalls
<1>3. Leads(K, Prologue(SvdResult), C)
  BY <1>1, PrologueLeads
<1>4. Leads(C, <<Restore(Carry)>>, M)
  <2>1. /\ C.bool = (IF context = BOOL THEN SvdResult ELSE {})
        /\ C.yao = (IF context = YAO THEN SvdResult ELSE {})
        /\ C.outs = {} /\ C.fresh = SvdResult \cap r /\ C.raws = r /\ C.saved = Carry
        /\ C.phase = "open"
    BY DEF Circuit, Know
  <2> HIDE DEF C
  <2>2. Checks(Restore(Carry), C)
    BY <2>1 DEF Checks, PutsGates, Restore, Call
  <2>3. Then(Restore(Carry), C) = [Put(C, Carry, BOOL, Carry \cap C.saved) EXCEPT !.saved = {}]
    BY DEF Then, Restore, Call
  <2> DEFINE T == Then(Restore(Carry), C)
  <2>4. /\ T.bool = C.bool \cup Carry /\ T.yao = C.yao \ Carry /\ T.outs = C.outs \ Carry
        /\ T.fresh = (C.fresh \ Carry) \cup (Carry \cap C.saved) /\ T.raws = C.raws
        /\ T.saved = {} /\ T.phase = "open"
    BY <2>1, <2>3 DEF Put, Know, BOOL, YAO
  <2> HIDE DEF T
  <2>5. /\ M.bool = (IF context = BOOL THEN g ELSE Carry)
        /\ M.yao = (IF context = YAO THEN g \ Carry ELSE {})
        /\ M.outs = {} /\ M.fresh = g /\ M.raws = r /\ M.saved = {} /\ M.phase = "open"
    BY DEF Mixed, Know
  <2>6. Below(M, T)
    BY <1>1, <2>1, <2>4, <2>5 DEF Below
  <2> QED
    BY <1>2, <2>2, <2>6, LeadsCall DEF T
<1> HIDE DEF K, C, M
<1>5. Leads(K, Prologue(SvdResult) \o <<Restore(Carry)>>, M)
  BY <1>2, <1>3, <1>4, LeadsOn
<1> QED
  BY <1>2, <1>5 DEF SvdOutputs, K, M

LEMMA CarryInLeads ==
  ASSUME context \in Sharing, NEW g \in SUBSET Var, NEW r \in SUBSET Var, Carry \subseteq g
  PROVE  Leads(Mixed(g, g, r, {}, Carry), CarryIn, Circuit(g, g, r, {}))
<1> DEFINE K == Mixed(g, g, r, {}, Carry)
           L == Circuit(g, g, r, {})
<1>1. K \in Knowledge /\ L \in Knowledge /\ ToYao(Carry) \in CallRecord
  BY MixedIsKnowledge, CircuitIsKnowledge, CallsAreCalls, SetsOfVars
<1>2. /\ K.bool = (IF context = BOOL THEN g ELSE Carry)
      /\ K.yao = (IF context = YAO THEN g \ Carry ELSE {})
      /\ K.outs = {} /\ K.fresh = g /\ K.raws = r /\ K.saved = {} /\ K.phase = "open"
  BY DEF Mixed, Know
<1>3. /\ L.bool = (IF context = BOOL THEN g ELSE {})
      /\ L.yao = (IF context = YAO THEN g ELSE {})
      /\ L.outs = {} /\ L.fresh = g /\ L.raws = r /\ L.saved = {} /\ L.phase = "open"
  BY DEF Circuit, Know
<1> HIDE DEF K, L
<1>4. CASE context = YAO
  <2>1. Checks(ToYao(Carry), K)
    BY <1>2, <1>4 DEF Checks, PutsGates, ToYao, Call, Gates, BOOL, YAO
  <2>2. Then(ToYao(Carry), K) = Put(K, Carry, YAO, Carry \cap g)
    BY <1>2 DEF Then, ToYao, Call, Other
  <2> DEFINE T == Then(ToYao(Carry), K)
  <2>3. /\ T.bool = K.bool \ Carry /\ T.yao = K.yao \cup Carry /\ T.outs = K.outs \ Carry
        /\ T.fresh = (g \ Carry) \cup (Carry \cap g) /\ T.raws = r /\ T.saved = {}
        /\ T.phase = "open"
    BY <1>2, <2>2 DEF Put, Know, BOOL, YAO
  <2> HIDE DEF T
  <2>4. Below(L, T)
    BY <1>2, <1>3, <1>4, <2>3 DEF Below, BOOL, YAO
  <2> QED
    BY <1>1, <1>4, <2>1, <2>4, LeadsCall DEF CarryIn, IfYao, T, K, L
<1>5. CASE context = BOOL
  <2>1. Below(L, K)
    BY <1>2, <1>3, <1>5 DEF Below, BOOL, YAO
  <2> QED
    BY <1>1, <1>5, <2>1, LeadsNowhere DEF CarryIn, IfYao, BOOL, YAO, K, L
<1> QED
  BY <1>4, <1>5 DEF Sharing

LEMMA InvertedLeads ==
  ASSUME ConfigInv, flow = LOOP_LEAK
  PROVE  Leads(Known("inverted"),
               SvdOutputs(Carry) \o BuildInvert \o CarryIn \o SecondHalf \o IterationOutputs,
               Known("decide"))
<1> DEFINE r0 == Matrix
           g0 == SvdResult \cup Carry
           g1 == g0 \cup {The("zero")} \cup {The("inverse")}
           g2 == g1 \cup {The("one")} \cup SecondWrites
           r1 == r0 \ {The("inverse")}
           r2 == r1 \ SecondWrites
           r3 == r2 \cup (Kept \cup {The("bit")})
           K == Between(r0, Carry)
           M0 == Mixed(g0, g0, r0, {}, Carry)
           M1 == Mixed(g1, g1, r1, {}, Carry)
           C1 == Circuit(g1, g1, r1, {})
           C2 == Circuit(g2, g2, r2, {})
           R == Between(r3, {})
           D == Between(Inputs \cup State \cup {The("bit")}, {})
<1>1. /\ context \in Sharing /\ method \in {LM, GN} /\ {} \in SUBSET Var
      /\ r0 \in SUBSET Var /\ r1 \in SUBSET Var /\ r2 \in SUBSET Var
      /\ Carry \in SUBSET Var /\ Kept \in SUBSET Var
      /\ g0 \in SUBSET Var /\ Inputs \cup State \cup {The("bit")} \in SUBSET Var
  BY SetsOfVars, VarNames DEF ConfigInv, SvdNames
<1>2. Known("inverted") = K /\ Known("decide") = D
  BY DEF Known, DO, LOOP_LEAK
<1>3. M0 \in Knowledge /\ Leads(K, SvdOutputs(Carry), M0)
  <2>1. SvdResult \subseteq r0
    BY CarryIsApart DEF Matrix
  <2> QED
    BY <1>1, <2>1, SvdOutputsLead
<1>4. g1 \in SUBSET Var /\ Leads(M0, BuildInvert, M1)
  <2>1. Carry \cap (SvdVar \cup {The("zero"), The("inverse")}) = {}
    <3>1. The("zero") \notin Carry /\ The("inverse") \notin Carry
      BY Apart DEF Carry, LMCarry, GaussNewtonCarry, State
    <3> QED
      BY <3>1, CarryIsApart
  <2>2. {} \ {The("inverse")} = {} /\ Carry \in SUBSET g0 /\ SvdResult \subseteq g0
    OBVIOUS
  <2> HIDE DEF g0, r0
  <2> QED
    BY <1>1, <2>1, <2>2, InvertLeads
<1>5. Carry \cup {The("inverse")} \subseteq g1
  OBVIOUS
<1>6. Leads(M1, CarryIn, C1)
  <2> HIDE DEF g1, r1
  <2> QED
    BY <1>1, <1>4, <1>5, CarryInLeads
<1>7. g2 \in SUBSET Var /\ Leads(C1, SecondHalf, C2)
  <2>1. {} \ SecondWrites = {}
    OBVIOUS
  <2> HIDE DEF g1, r1
  <2> QED
    BY <1>1, <1>4, <1>5, <2>1, SecondHalfLeads
<1>8. r3 \in SUBSET Var /\ Leads(C2, IterationOutputs, R)
  <2>1. Kept \cup {The("bit")} \subseteq g2
    BY DEF Kept, SecondWrites
  <2> HIDE DEF g2, r2
  <2> QED
    BY <1>1, <1>7, <2>1, IterationOutputsLead
<1>9. Inputs \cup State \cup {The("bit")} \subseteq r3
  <2>1. Given \cap SecondWrites = {} /\ The("inverse") \notin Given
    BY Apart DEF Given, SecondWrites, State
  <2>2. Inputs \cup State \subseteq Given \cup Kept
    BY DEF Given, Kept, Inputs
  <2>3. Given \subseteq r2
    BY <2>1 DEF Matrix
  <2> QED
    BY <2>2, <2>3
<1>10. /\ K \in Knowledge /\ M1 \in Knowledge /\ C1 \in Knowledge /\ C2 \in Knowledge
       /\ R \in Knowledge /\ D \in Knowledge
  <2>1. Carry \in SUBSET g1
    OBVIOUS
  <2> HIDE DEF r0, g1, r1, g2, r2, r3
  <2> QED
    BY <1>1, <1>4, <1>7, <1>8, <2>1, BetweenIsKnowledge, CircuitIsKnowledge, MixedIsKnowledge
<1>11. Below(D, R)
  <2> HIDE DEF r3
  <2> QED
    BY <1>9 DEF Below, Between, Know
<1> HIDE DEF r0, g0, g1, g2, r1, r2, r3, K, M0, M1, C1, C2, R, D
<1>12. Leads(K, SvdOutputs(Carry) \o BuildInvert, M1)
  BY <1>3, <1>4, <1>10, LeadsOn
<1>13. Leads(K, SvdOutputs(Carry) \o BuildInvert \o CarryIn, C1)
  BY <1>6, <1>10, <1>12, LeadsOn
<1>14. Leads(K, SvdOutputs(Carry) \o BuildInvert \o CarryIn \o SecondHalf, C2)
  BY <1>7, <1>10, <1>13, LeadsOn
<1>15. Leads(K, SvdOutputs(Carry) \o BuildInvert \o CarryIn \o SecondHalf \o IterationOutputs, R)
  BY <1>8, <1>10, <1>14, LeadsOn
<1> QED
  BY <1>2, <1>10, <1>11, <1>15, LeadsLess

\* The pose is put out in the sharing of the caller, which reads it.
LEMMA PoseLeads ==
  ASSUME context \in Sharing, NEW K \in Knowledge, K.phase = "open", NEW sh \in Sharing,
         The("x") \in Gates(K, sh) \cap K.fresh
  PROVE  Leads(K, <<Out({The("x")}, sh), Exec, Get({The("x")})>>, Known("end"))
<1> DEFINE x == {The("x")}
           L == Know(K.bool \ x, K.yao \ x, K.outs \cup x, K.fresh, K.raws, K.saved, "open")
           X == [L EXCEPT !.phase = "executed"]
           E == Know({}, {}, {}, {}, x, {}, "executed")
<1>1. x \in SUBSET Var
  BY VarNames DEF OptimizerNames
<1>2. /\ E \in Knowledge /\ Known("end") = E /\ Out(x, sh) \in CallRecord
      /\ Exec \in CallRecord /\ Get(x) \in CallRecord
  <2> HIDE DEF x
  <2>1. E \in Knowledge /\ Out(x, sh) \in CallRecord /\ Exec \in CallRecord /\ Get(x) \in CallRecord
    BY <1>1, KnowIsKnowledge, CallsAreCalls
  <2> QED
    BY <2>1 DEF Known, x
<1>3. L \in Knowledge /\ Leads(K, <<Out(x, sh)>>, L)
  <2>1. x \subseteq Gates(K, sh)
    OBVIOUS
  <2>2. /\ Out(x, sh).kind \in {"sharedout", "out"} /\ Out(x, sh).of = x
        /\ Out(x, sh).sharing = sh
    BY DEF Out, Call
  <2> HIDE DEF x
  <2> QED
    BY <1>1, <1>2, <2>1, <2>2, OutLeads
<1>4. L.outs = K.outs \cup x /\ L.fresh = K.fresh /\ L.phase = "open" /\ x \subseteq L.fresh
  BY DEF Know
<1> HIDE DEF L
<1>5. X \in Knowledge /\ X.outs = L.outs /\ X.fresh = L.fresh /\ X.phase = "executed"
  BY <1>3 DEF Knowledge
<1>6. Leads(L, <<Exec>>, X)
  <2>1. Checks(Exec, L) /\ Then(Exec, L) = X
    BY <1>4 DEF Checks, PutsGates, Then, Exec, Call
  <2> QED
    BY <1>2, <1>3, <1>5, <2>1, LeadsCall, BelowIsOrder
<1> HIDE DEF X
<1>7. Leads(X, <<Get(x)>>, E)
  <2>1. Checks(Get(x), X)
    BY <1>4, <1>5 DEF Checks, PutsGates, Get, Call
  <2>2. Then(Get(x), X) = [X EXCEPT !.raws = (X.raws \ x) \cup (x \cap X.fresh)]
    BY DEF Then, Get, Call
  <2>3. /\ E.bool = {} /\ E.yao = {} /\ E.outs = {} /\ E.fresh = {} /\ E.raws = x /\ E.saved = {}
        /\ E.phase = "executed"
    BY DEF Know
  <2>4. /\ Then(Get(x), X).raws = (X.raws \ x) \cup (x \cap X.fresh)
        /\ Then(Get(x), X).phase = "executed"
    BY <1>5, <2>2 DEF Knowledge
  <2>5. x \subseteq X.fresh
    BY <1>4, <1>5
  <2>6. Below(E, Then(Get(x), X))
    BY <2>3, <2>4, <2>5 DEF Below
  <2> QED
    BY <1>2, <1>5, <2>1, <2>6, LeadsCall
<1> HIDE DEF E
<1>8. Leads(L, <<Exec>> \o <<Get(x)>>, E)
  BY <1>2, <1>3, <1>5, <1>6, <1>7, LeadsOn
<1>9. Leads(K, <<Out(x, sh)>> \o (<<Exec>> \o <<Get(x)>>), E)
  BY <1>2, <1>3, <1>8, LeadsOn
<1>10. <<Out(x, sh), Exec, Get(x)>> = <<Out(x, sh)>> \o (<<Exec>> \o <<Get(x)>>)
  <2> DEFINE a == Out(x, sh)
             b == Exec
             c == Get(x)
  <2> HIDE DEF a, b, c
  <2>1. <<a, b, c>> = <<a>> \o <<b, c>>
    BY FirstCall
  <2>2. <<b, c>> = <<b>> \o <<c>>
    BY FirstCall
  <2> QED
    BY <2>1, <2>2 DEF a, b, c
<1> QED
  BY <1>2, <1>9, <1>10 DEF x

LEMMA ReturnLeads ==
  ASSUME ConfigInv
  PROVE  Leads(Known("return"), Return, Known("end"))
<1> DEFINE x == {The("x")}
           I == Inputs \cup State
           calls == <<Out(x, CallerSharing), Exec, Get(x)>>
<1>1. /\ context \in Sharing /\ I \in SUBSET Var /\ {} \in SUBSET Var /\ x \in SUBSET Var
      /\ The("x") \in I /\ BOOL \in Sharing
  BY SetsOfVars, VarNames DEF ConfigInv, OptimizerNames, Inputs, Sharing
<1>2. Known("end") \in Knowledge
  <2> HIDE DEF x
  <2>1. Know({}, {}, {}, {}, x, {}, "executed") \in Knowledge
    BY <1>1, KnowIsKnowledge
  <2> QED
    BY <2>1 DEF Known, x
<1>3. CASE flow = DO
  <2> DEFINE K == Circuit(I, I, {}, {})
  <2>1. Known("return") = K /\ CallerSharing = context /\ Return = << >> \o calls
    BY <1>3 DEF Known, ConfigInv, Return
  <2>2. K \in Knowledge /\ K.phase = "open" /\ The("x") \in Gates(K, context) \cap K.fresh
    <3>1. K \in Knowledge
      BY <1>1, CircuitIsKnowledge
    <3>2. K.phase = "open" /\ K.fresh = I /\ Gates(K, context) = I
      BY <1>1 DEF Circuit, Know, Gates, Sharing, BOOL, YAO
    <3> QED
      BY <1>1, <3>1, <3>2
  <2> HIDE DEF K
  <2>3. Leads(K, calls, Known("end"))
    BY <1>1, <2>1, <2>2, PoseLeads
  <2>4. calls \in Seq(CallRecord)
    BY <2>3 DEF Leads
  <2> HIDE DEF calls
  <2> QED
    BY <2>1, <2>3, <2>4, ConcatEmptySeq
<1>4. CASE flow # DO
  <2> DEFINE K == Between(I, {})
             L == Know(x, {}, {}, x, {}, {}, "open")
  <2>1. Known("return") = K /\ CallerSharing = BOOL /\ Return = <<SharedIn(x)>> \o calls
    BY <1>4 DEF Known, ConfigInv, Return
  <2>2. K \in Knowledge /\ L \in Knowledge /\ SharedIn(x) \in CallRecord
    <3> HIDE DEF x, I
    <3> QED
      BY <1>1, BetweenIsKnowledge, KnowIsKnowledge, CallsAreCalls
  <2>3. Leads(K, <<SharedIn(x)>>, L)
    <3>1. K.phase = "open" /\ K.raws = I /\ K.bool = {} /\ K.yao = {} /\ K.outs = {} /\ K.saved = {}
      BY DEF Between, Know
    <3>2. /\ L.bool = x /\ L.yao = {} /\ L.outs = {} /\ L.fresh = x /\ L.raws = {} /\ L.saved = {}
          /\ L.phase = "open"
      BY DEF Know
    <3> HIDE DEF K, L
    <3>3. Checks(SharedIn(x), K)
      BY <3>1 DEF Checks, PutsGates, SharedIn, Call
    <3>4. Then(SharedIn(x), K) = Put(K, x, BOOL, x \cap K.raws)
      BY DEF Then, SharedIn, Call
    <3> DEFINE T == Then(SharedIn(x), K)
    <3>5. /\ T.bool = K.bool \cup x /\ T.fresh = (K.fresh \ x) \cup (x \cap K.raws)
          /\ T.phase = K.phase
      BY <3>4 DEF Put, Know, BOOL, YAO
    <3> HIDE DEF T
    <3>6. Below(L, T)
      BY <1>1, <3>1, <3>2, <3>5 DEF Below
    <3> QED
      BY <2>2, <3>3, <3>6, LeadsCall DEF T
  <2>4. Leads(L, calls, Known("end"))
    <3>1. L.phase = "open" /\ The("x") \in Gates(L, BOOL) \cap L.fresh
      BY DEF Know, Gates
    <3> HIDE DEF L
    <3> QED
      BY <1>1, <2>1, <2>2, <3>1, PoseLeads
  <2> HIDE DEF K, L, calls
  <2> QED
    BY <1>2, <2>1, <2>2, <2>3, <2>4, LeadsOn
<1> QED
  BY <1>3, <1>4

----------------------------------------------------------------------------
(* The pieces of the SVD.                                                  *)

\* Raw shares are set, copied, and copied out.
LEMMA CopyLeads ==
  ASSUME NEW r \in SUBSET Var, NEW s \in SUBSET Var
  PROVE  /\ \A of \in SUBSET Var : Leads(Between(r, s), <<Set(of)>>, Between(r \cup of, s))
         /\ \A to \in Var, from \in r : to # from =>
              /\ Leads(Between(r, s), <<Move(to, from)>>, Between(r \cup {to}, s))
              /\ Leads(Between(r, s), <<Lend(to, from)>>, Between((r \cup {to}) \ {from}, s))
<1> DEFINE K == Between(r, s)
<1>1. /\ K.bool = {} /\ K.yao = {} /\ K.outs = {} /\ K.fresh = {} /\ K.raws = r /\ K.saved = s
      /\ K.phase = "open"
  BY DEF Between, Know
<1>2. K \in Knowledge
  BY BetweenIsKnowledge
<1>3. \A q : /\ Between(q, s).bool = {} /\ Between(q, s).yao = {} /\ Between(q, s).outs = {}
             /\ Between(q, s).fresh = {} /\ Between(q, s).raws = q /\ Between(q, s).saved = s
             /\ Between(q, s).phase = "open"
  BY DEF Between, Know
<1> HIDE DEF K
<1>4. ASSUME NEW of \in SUBSET Var
      PROVE  Leads(K, <<Set(of)>>, Between(r \cup of, s))
  <2>1. Set(of) \in CallRecord /\ Between(r \cup of, s) \in Knowledge
    BY BetweenIsKnowledge DEF CallRecord, Call, Kind, Sharing, Set
  <2>2. Checks(Set(of), K)
    BY DEF Checks, PutsGates, Set, Call
  <2>3. Then(Set(of), K) = [K EXCEPT !.raws = r \cup of]
    BY <1>1 DEF Then, Set, Call
  <2>4. Below(Between(r \cup of, s), Then(Set(of), K))
    BY <1>1, <1>2, <1>3, <2>3 DEF Below, Knowledge
  <2> QED
    BY <1>2, <2>1, <2>2, <2>4, LeadsCall
<1>5. ASSUME NEW to \in Var, NEW from \in r, to # from
      PROVE  Leads(K, <<Move(to, from)>>, Between(r \cup {to}, s))
  <2>1. Move(to, from) \in CallRecord /\ Between(r \cup {to}, s) \in Knowledge
    BY BetweenIsKnowledge, Copies
  <2>2. /\ Move(to, from).kind = "move" /\ Move(to, from).of = {to}
        /\ Move(to, from).reads = {from}
    BY DEF Move, Call
  <2>3. Checks(Move(to, from), K)
    BY <1>1, <1>5, <2>2 DEF Checks, PutsGates
  <2>4. Then(Move(to, from), K) = [K EXCEPT !.raws = r \cup {to}]
    BY <1>1, <2>2 DEF Then
  <2>5. Below(Between(r \cup {to}, s), Then(Move(to, from), K))
    BY <1>1, <1>2, <1>3, <2>4 DEF Below, Knowledge
  <2> QED
    BY <1>2, <2>1, <2>3, <2>5, LeadsCall
<1>6. ASSUME NEW to \in Var, NEW from \in r, to # from
      PROVE  Leads(K, <<Lend(to, from)>>, Between((r \cup {to}) \ {from}, s))
  <2>1. Lend(to, from) \in CallRecord /\ Between((r \cup {to}) \ {from}, s) \in Knowledge
    BY BetweenIsKnowledge, Copies
  <2>2. /\ Lend(to, from).kind = "lend" /\ Lend(to, from).of = {to}
        /\ Lend(to, from).reads = {from}
    BY DEF Lend, Call
  <2>3. Checks(Lend(to, from), K)
    BY <1>1, <1>6, <2>2 DEF Checks, PutsGates
  <2>4. Then(Lend(to, from), K) = [K EXCEPT !.raws = (r \cup {to}) \ {from}]
    BY <1>1, <2>2 DEF Then
  <2>5. Below(Between((r \cup {to}) \ {from}, s), Then(Lend(to, from), K))
    BY <1>1, <1>2, <1>3, <2>4 DEF Below, Knowledge
  <2> QED
    BY <1>2, <2>1, <2>3, <2>5, LeadsCall
<1> QED
  BY <1>4, <1>5, <1>6 DEF K

LEMMA BetweenLess ==
  ASSUME NEW s, NEW q, NEW r, q \subseteq r
  PROVE  Below(Between(q, s), Between(r, s))
BY DEF Below, Between, Know

\* The reduction makes the matrix the loop works on.
LEMMA Part1Leads ==
  ASSUME ConfigInv
  PROVE  Leads(Known("svd"), RunSvdPart1Circuit, Known("split"))
<1> DEFINE r == Given \cup All("a")
<1>1. /\ context \in Sharing /\ r \in SUBSET Var /\ Carry \in SUBSET Var
      /\ All("a") \in SUBSET Var /\ SvdPart1 \in SUBSET Var /\ {} \in SUBSET Var
      /\ Matrix \in SUBSET Var
  BY SetsOfVars, VarNames DEF ConfigInv
<1>2. Known("svd") = Between(r, Carry) /\ Known("split") = Between(Matrix, Carry)
  BY DEF Known
<1>3. SvdPart1 \cup {} = SvdPart1 /\ Carry \cap (SvdPart1 \cup {}) = {}
      /\ All("a") \in SUBSET (All("a") \cap r) /\ SvdPart1 \cap {} = {}
      /\ SvdPart1 \subseteq All("a") \cup SvdPart1
  BY CarryIsApart
<1>4. Leads(Between(r, Carry), RunSvdPart1Circuit, Between(r \cup SvdPart1, Carry))
  <2> HIDE DEF r
  <2>1. Leads(Between(r, Carry),
              SubCircuit(All("a"), <<Build(All("a"), SvdPart1 \cup {})>>, SvdPart1, SvdPart1, {}),
              Between(r \cup (SvdPart1 \cup {}), Carry))
    BY <1>1, <1>3, SubCircuitLeads
  <2> QED
    BY <1>3, <2>1 DEF RunSvdPart1Circuit, BuildSvdPart1Circuit
<1>5. Matrix \subseteq r \cup SvdPart1
  BY DEF Matrix
<1>6. /\ Between(r, Carry) \in Knowledge /\ Between(r \cup SvdPart1, Carry) \in Knowledge
      /\ Between(Matrix, Carry) \in Knowledge
  <2> HIDE DEF r
  <2> QED
    BY <1>1, BetweenIsKnowledge
<1> QED
  BY <1>2, <1>4, <1>5, <1>6, BetweenLess, LeadsLess

\* A value is compared with anorm, and the bit revealed.
LEMMA CheckZeroLeads ==
  ASSUME context \in Sharing, NEW r \in SUBSET Var, NEW val \in r, The("anorm") \in r
  PROVE  /\ r \cup {The("bit")} \in SUBSET Var
         /\ Leads(Between(r, Carry), RunSvdCheckZeroCircuit(val), Between(r \cup {The("bit")}, Carry))
<1> DEFINE ins == {val, The("anorm")}
           bits == {The("bit")}
<1>1. bits \in SUBSET Var /\ ins \in SUBSET Var /\ ins \in SUBSET (ins \cap r) /\ Carry \in SUBSET Var
  BY SetsOfVars, VarNames DEF SvdNames
<1>2. The("bit") \in SvdVar
  BY DEF SvdVar
<1>3. {} \cup bits = bits /\ {} \cap bits = {} /\ Carry \cap ({} \cup bits) = {}
      /\ {} \in SUBSET Var /\ {} \subseteq ins \cup {}
  BY <1>2, CarryIsApart
<1>4. RunSvdCheckZeroCircuit(val) = SubCircuit(ins, <<Build(ins, {} \cup bits)>>, {}, {}, bits)
  BY <1>3 DEF RunSvdCheckZeroCircuit, BuildSvdCheckZeroCircuit
<1> HIDE DEF ins, bits
<1>5. Leads(Between(r, Carry), SubCircuit(ins, <<Build(ins, {} \cup bits)>>, {}, {}, bits),
            Between(r \cup ({} \cup bits), Carry))
  BY <1>1, <1>3, SubCircuitLeads
<1> QED
  BY <1>1, <1>3, <1>4, <1>5 DEF bits

\* The search: rv1[l], then w[l - 1].
LEMMA SearchLeads ==
  ASSUME ConfigInv, NEW c \in Column, NEW n \in {"rv1", "w"}, NEW p \in {"split", "testRv1", "testW"},
         NEW q \in {"testRv1", "testW"}
  PROVE  Leads(Known(p), RunSvdCheckZeroCircuit(<<n, c>>), Known(q))
<1> DEFINE r == IF p = "split" THEN Matrix ELSE Matrix \cup {The("bit")}
           v == <<n, c>>
<1>1. context \in Sharing /\ r \in SUBSET Var /\ Carry \in SUBSET Var
  BY SetsOfVars, VarNames DEF ConfigInv, SvdNames
<1>2. Known(p) = Between(r, Carry) /\ Known(q) = Between(Matrix \cup {The("bit")}, Carry)
  BY DEF Known
<1>3. v \in r /\ The("anorm") \in r /\ Matrix \subseteq r
  BY MatrixHas
<1>4. Matrix \cup {The("bit")} \subseteq r \cup {The("bit")}
  BY <1>3
<1> HIDE DEF r, v
<1>5. /\ r \cup {The("bit")} \in SUBSET Var
      /\ Leads(Between(r, Carry), RunSvdCheckZeroCircuit(v), Between(r \cup {The("bit")}, Carry))
  BY <1>1, <1>3, CheckZeroLeads
<1>6. /\ Between(r, Carry) \in Knowledge /\ Between(r \cup {The("bit")}, Carry) \in Knowledge
      /\ Between(Matrix \cup {The("bit")}, Carry) \in Knowledge
  BY <1>1, <1>4, <1>5, BetweenIsKnowledge
<1>7. Leads(Between(r, Carry), RunSvdCheckZeroCircuit(v), Between(Matrix \cup {The("bit")}, Carry))
  BY <1>4, <1>5, <1>6, BetweenLess, LeadsLess
<1> QED
  BY <1>2, <1>7 DEF v

\* Scalars and slices of the loop.
LEMMA LoopNames ==
  /\ {The("cc"), The("s"), The("f"), The("bit"), The("z"), The("fx"), The("anorm"),
      The("aSTARi"), The("aSTARnm"), The("vSTARk")} \subseteq SvdVar \cap Var
  /\ \A n \in {"a", "w", "v", "rv1"}, c \in Column : <<n, c>> \in SvdVar \cap Var
<1>1. \A n \in SvdNames : The(n) \in SvdVar /\ The(n) \in Var
  BY VarNames DEF SvdNames, SvdVar
<1>2. \A n \in {"a", "w", "v", "rv1"}, c \in Column : <<n, c>> \in SvdVar /\ <<n, c>> \in Var
  BY VarNames DEF SvdVar
<1> QED
  BY <1>1, <1>2 DEF SvdNames

\* The rotation of a cancellation: f, and whether it is negligible.
LEMMA CancelLeads ==
  ASSUME ConfigInv, i \in Column
  PROVE  Leads(Known("cancel"), RunSvdFlag1Circuit(i) \o RunSvdCheckZeroCircuit(The("f")),
               Known("testF"))
<1> DEFINE r == Matrix \cup {The("cc"), The("s")}
           rv == <<"rv1", i>>
           ins == {The("cc"), The("f"), The("s"), rv}
           reads == {The("cc"), The("s"), rv}
           outs == {The("f"), rv}
           r1 == r \cup outs
           R == Matrix \cup {The("cc"), The("s"), The("f"), The("bit")}
<1>1. /\ context \in Sharing /\ r \in SUBSET Var /\ Carry \in SUBSET Var /\ ins \in SUBSET Var
      /\ outs \in SUBSET Var /\ R \in SUBSET Var /\ outs \subseteq SvdVar
  BY SetsOfVars, LoopNames DEF ConfigInv
<1>2. Known("cancel") = Between(r, Carry) /\ Known("testF") = Between(R, Carry)
  BY DEF Known
<1>3. rv \in Matrix /\ The("anorm") \in Matrix
  BY MatrixHas
<1>4. /\ reads \in SUBSET (ins \cap r) /\ outs \cup {} = outs /\ outs \cap {} = {}
      /\ outs \subseteq ins \cup outs /\ Carry \cap (outs \cup {}) = {} /\ {} \in SUBSET Var
  BY <1>1, <1>3, CarryIsApart
<1>5. RunSvdFlag1Circuit(i) = SubCircuit(ins, <<Build(reads, outs \cup {})>>, outs, outs, {})
  BY <1>4 DEF RunSvdFlag1Circuit, BuildSvdFlag1Circuit
<1>6. r1 \in SUBSET Var /\ The("f") \in r1 /\ The("anorm") \in r1 /\ R \subseteq r1 \cup {The("bit")}
  BY <1>1, <1>3
<1> HIDE DEF r, rv, ins, reads, outs, R
<1>7. Leads(Between(r, Carry), RunSvdFlag1Circuit(i), Between(r1, Carry))
  <2>1. Leads(Between(r, Carry), SubCircuit(ins, <<Build(reads, outs \cup {})>>, outs, outs, {}),
              Between(r \cup (outs \cup {}), Carry))
    BY <1>1, <1>4, SubCircuitLeads
  <2> QED
    BY <1>4, <1>5, <2>1
<1> HIDE DEF r1
<1>8. /\ r1 \cup {The("bit")} \in SUBSET Var
      /\ Leads(Between(r1, Carry), RunSvdCheckZeroCircuit(The("f")),
               Between(r1 \cup {The("bit")}, Carry))
  BY <1>1, <1>6, CheckZeroLeads
<1>9. /\ Between(r, Carry) \in Knowledge /\ Between(r1, Carry) \in Knowledge
      /\ Between(r1 \cup {The("bit")}, Carry) \in Knowledge /\ Between(R, Carry) \in Knowledge
  BY <1>1, <1>6, <1>8, BetweenIsKnowledge
<1>10. Leads(Between(r, Carry), RunSvdFlag1Circuit(i) \o RunSvdCheckZeroCircuit(The("f")),
             Between(r1 \cup {The("bit")}, Carry))
  BY <1>7, <1>8, <1>9, LeadsOn
<1> QED
  BY <1>2, <1>6, <1>9, <1>10, BetweenLess, LeadsLess

\* The rotation is made on two columns that are sliced out of a.
LEMMA Flag2Leads ==
  ASSUME context \in Sharing, NEW x \in Column, NEW nm \in Column, x # nm, NEW r \in SUBSET Var,
         Matrix \cup {The("cc"), The("s"), The("f")} \subseteq r
  PROVE  \E q \in SUBSET Var :
           r \subseteq q /\ Leads(Between(r, Carry), Flag2(x, nm), Between(q, Carry))
<1> DEFINE ai == <<"a", x>>
           anm == <<"a", nm>>
           si == The("aSTARi")
           snm == The("aSTARnm")
           w == <<"w", x>>
           ins == {si, snm, w, The("cc"), The("f"), The("s")}
           reads == {si, snm, w, The("f")}
           outs == ins \ {The("f")}
           r1 == (r \cup {si}) \ {ai}
           r2 == (r1 \cup {snm}) \ {anm}
           r3 == r2 \cup outs
           r4 == r3 \cup {ai}
           r5 == r4 \cup {anm}
<1>1. /\ ai \in Var /\ anm \in Var /\ si \in Var /\ snm \in Var /\ Carry \in SUBSET Var
      /\ ins \in SUBSET Var /\ outs \in SUBSET Var /\ outs \subseteq SvdVar
  BY SetsOfVars, LoopNames
<1>2. ai \in r /\ anm \in r /\ w \in r
  BY MatrixHas
<1>3. /\ si # ai /\ si # anm /\ snm # ai /\ snm # anm /\ ai # anm /\ si # snm /\ w # ai /\ w # anm
      /\ The("f") # ai /\ The("f") # anm
  BY DEF The
<1>4. /\ r1 \in SUBSET Var /\ r2 \in SUBSET Var /\ r3 \in SUBSET Var /\ r4 \in SUBSET Var
      /\ r5 \in SUBSET Var
  BY <1>1
<1>5. anm \in r1 /\ si \in r2 /\ snm \in r2 /\ w \in r2 /\ The("f") \in r2
  BY <1>2, <1>3
<1>6. /\ reads \in SUBSET (ins \cap r2) /\ outs \in SUBSET ins /\ ins \subseteq ins \cup outs
      /\ ins \cap {} = {} /\ outs \cup {} = outs /\ Carry \cap (outs \cup {}) = {} /\ {} \in SUBSET Var
  BY <1>1, <1>5, CarryIsApart
<1>7. outs = {si, snm, w, The("cc"), The("s")}
  BY DEF The
<1>8. si \in r3 /\ snm \in r4
  BY <1>5
<1>9. r \subseteq r5
  OBVIOUS
<1>10. RunSvdFlag2Circuit(x) = SubCircuit(ins, <<Build(reads, outs \cup {})>>, ins, outs, {})
  BY <1>6, <1>7 DEF RunSvdFlag2Circuit, BuildSvdFlag2Circuit
<1>11. Flag2(x, nm) = <<Lend(si, ai), Lend(snm, anm)>> \o RunSvdFlag2Circuit(x)
                        \o <<Move(ai, si), Move(anm, snm)>>
  BY DEF Flag2
<1> HIDE DEF ai, anm, si, snm, w, ins, reads, outs
<1>12. Leads(Between(r, Carry), <<Lend(si, ai)>>, Between(r1, Carry))
  BY <1>1, <1>2, <1>3, CopyLeads
<1>13. Leads(Between(r1, Carry), <<Lend(snm, anm)>>, Between(r2, Carry))
  <2> HIDE DEF r1
  <2> QED
    BY <1>1, <1>3, <1>4, <1>5, CopyLeads
<1>14. Leads(Between(r2, Carry), RunSvdFlag2Circuit(x), Between(r3, Carry))
  <2> HIDE DEF r2
  <2>1. Leads(Between(r2, Carry), SubCircuit(ins, <<Build(reads, outs \cup {})>>, ins, outs, {}),
              Between(r2 \cup (outs \cup {}), Carry))
    BY <1>1, <1>4, <1>6, SubCircuitLeads
  <2> QED
    BY <1>6, <1>10, <2>1
<1>15. Leads(Between(r3, Carry), <<Move(ai, si)>>, Between(r4, Carry))
  <2> HIDE DEF r3
  <2> QED
    BY <1>1, <1>3, <1>4, <1>8, CopyLeads
<1>16. Leads(Between(r4, Carry), <<Move(anm, snm)>>, Between(r5, Carry))
  <2> HIDE DEF r4
  <2> QED
    BY <1>1, <1>3, <1>4, <1>8, CopyLeads
<1> HIDE DEF r1, r2, r3, r4, r5
<1>17. /\ Between(r, Carry) \in Knowledge /\ Between(r1, Carry) \in Knowledge
       /\ Between(r2, Carry) \in Knowledge /\ Between(r3, Carry) \in Knowledge
       /\ Between(r4, Carry) \in Knowledge /\ Between(r5, Carry) \in Knowledge
  BY <1>1, <1>4, BetweenIsKnowledge
<1>18. Leads(Between(r, Carry), <<Lend(si, ai), Lend(snm, anm)>>, Between(r2, Carry))
  <2>1. Leads(Between(r, Carry), <<Lend(si, ai)>> \o <<Lend(snm, anm)>>, Between(r2, Carry))
    BY <1>12, <1>13, <1>17, LeadsOn
  <2> QED
    BY <2>1, FirstCall
<1>19. Leads(Between(r3, Carry), <<Move(ai, si), Move(anm, snm)>>, Between(r5, Carry))
  <2>1. Leads(Between(r3, Carry), <<Move(ai, si)>> \o <<Move(anm, snm)>>, Between(r5, Carry))
    BY <1>15, <1>16, <1>17, LeadsOn
  <2> QED
    BY <2>1, FirstCall
<1>20. Leads(Between(r, Carry), <<Lend(si, ai), Lend(snm, anm)>> \o RunSvdFlag2Circuit(x),
             Between(r3, Carry))
  BY <1>14, <1>17, <1>18, LeadsOn
<1>21. Leads(Between(r, Carry),
             <<Lend(si, ai), Lend(snm, anm)>> \o RunSvdFlag2Circuit(x)
               \o <<Move(ai, si), Move(anm, snm)>>, Between(r5, Carry))
  BY <1>17, <1>19, <1>20, LeadsOn
<1> QED
  BY <1>4, <1>9, <1>11, <1>21

\* The sign of a singular value, on a column that is sliced out of v.
LEMMA SvdZLeads ==
  ASSUME context \in Sharing, NEW x \in Column, NEW r \in SUBSET Var, Matrix \cup {The("z")} \subseteq r
  PROVE  \E q \in SUBSET Var :
           r \subseteq q /\ Leads(Between(r, Carry), SvdZ(x), Between(q, Carry))
<1> DEFINE v == <<"v", x>>
           sv == The("vSTARk")
           w == <<"w", x>>
           ins == {The("z"), w, sv}
           outs == {w, sv}
           r1 == (r \cup {sv}) \ {v}
           r2 == r1 \cup outs
           r3 == r2 \cup {v}
<1>1. /\ v \in Var /\ sv \in Var /\ Carry \in SUBSET Var /\ ins \in SUBSET Var
      /\ outs \in SUBSET Var /\ outs \subseteq SvdVar
  BY SetsOfVars, LoopNames
<1>2. v \in r /\ w \in r
  BY MatrixHas
<1>3. sv # v /\ w # v /\ The("z") # v
  BY DEF The
<1>4. r1 \in SUBSET Var /\ r2 \in SUBSET Var /\ r3 \in SUBSET Var /\ sv \in r2
  BY <1>1
<1>5. /\ ins \in SUBSET (ins \cap r1) /\ outs \subseteq ins \cup outs
      /\ outs \cap {} = {} /\ outs \cup {} = outs /\ Carry \cap (outs \cup {}) = {} /\ {} \in SUBSET Var
  BY <1>1, <1>2, <1>3, CarryIsApart
<1>6. r \subseteq r3
  OBVIOUS
<1>7. RunSvdZCircuit(x) = SubCircuit(ins, <<Build(ins, outs \cup {})>>, outs, outs, {})
  BY <1>5 DEF RunSvdZCircuit, BuildSvdZCircuit
<1>8. SvdZ(x) = <<Lend(sv, v)>> \o RunSvdZCircuit(x) \o <<Move(v, sv)>>
  BY DEF SvdZ
<1> HIDE DEF v, sv, w, ins, outs
<1>9. Leads(Between(r, Carry), <<Lend(sv, v)>>, Between(r1, Carry))
  BY <1>1, <1>2, <1>3, CopyLeads
<1>10. Leads(Between(r1, Carry), RunSvdZCircuit(x), Between(r2, Carry))
  <2> HIDE DEF r1
  <2>1. Leads(Between(r1, Carry), SubCircuit(ins, <<Build(ins, outs \cup {})>>, outs, outs, {}),
              Between(r1 \cup (outs \cup {}), Carry))
    BY <1>1, <1>4, <1>5, SubCircuitLeads
  <2> QED
    BY <1>5, <1>7, <2>1
<1>11. Leads(Between(r2, Carry), <<Move(v, sv)>>, Between(r3, Carry))
  <2> HIDE DEF r2
  <2> QED
    BY <1>1, <1>3, <1>4, CopyLeads
<1> HIDE DEF r1, r2, r3
<1>12. /\ Between(r, Carry) \in Knowledge /\ Between(r1, Carry) \in Knowledge
       /\ Between(r2, Carry) \in Knowledge /\ Between(r3, Carry) \in Knowledge
  BY <1>1, <1>4, BetweenIsKnowledge
<1>13. Leads(Between(r, Carry), <<Lend(sv, v)>> \o RunSvdZCircuit(x), Between(r2, Carry))
  BY <1>9, <1>10, <1>12, LeadsOn
<1>14. Leads(Between(r, Carry), <<Lend(sv, v)>> \o RunSvdZCircuit(x) \o <<Move(v, sv)>>,
             Between(r3, Carry))
  BY <1>11, <1>12, <1>13, LeadsOn
<1> QED
  BY <1>4, <1>6, <1>8, <1>14

LEMMA RotateLeads ==
  ASSUME ConfigInv, i \in Column, l - 1 \in Column, i # l - 1, NEW p \in {"converge", "cancel"}
  PROVE  Leads(Known("testF"), Flag2(i, l - 1), Known(p))
<1> DEFINE r == Matrix \cup {The("cc"), The("s"), The("f"), The("bit")}
           R == IF p = "cancel" THEN Matrix \cup {The("cc"), The("s")} ELSE Matrix
           nm == l - 1
<1>1. context \in Sharing /\ r \in SUBSET Var /\ R \in SUBSET Var /\ Carry \in SUBSET Var
  BY SetsOfVars, LoopNames DEF ConfigInv
<1>2. Known("testF") = Between(r, Carry) /\ Known(p) = Between(R, Carry)
  BY DEF Known
<1>3. Matrix \cup {The("cc"), The("s"), The("f")} \subseteq r /\ R \subseteq r
  OBVIOUS
<1> HIDE DEF r, R, nm
<1>4. PICK q \in SUBSET Var : r \subseteq q /\ Leads(Between(r, Carry), Flag2(i, nm), Between(q, Carry))
  BY <1>1, <1>3, Flag2Leads DEF nm
<1>5. /\ Between(r, Carry) \in Knowledge /\ Between(q, Carry) \in Knowledge
      /\ Between(R, Carry) \in Knowledge /\ R \subseteq q
  BY <1>1, <1>3, <1>4, BetweenIsKnowledge
<1> QED
  BY <1>2, <1>4, <1>5, BetweenLess, LeadsLess DEF nm

\* z is a copy of w[k].
LEMMA TakeZLeads ==
  ASSUME ConfigInv, k \in Column
  PROVE  LET r == Matrix \cup {The("z")}
         IN  /\ r \in SUBSET Var /\ Carry \in SUBSET Var
             /\ Between(Matrix, Carry) \in Knowledge /\ Between(r, Carry) \in Knowledge
             /\ Known("converge") = Between(Matrix, Carry)
             /\ Leads(Between(Matrix, Carry), <<Move(The("z"), <<"w", k>>)>>, Between(r, Carry))
<1> DEFINE r == Matrix \cup {The("z")}
<1>1. r \in SUBSET Var /\ Matrix \in SUBSET Var /\ Carry \in SUBSET Var /\ The("z") \in Var
  BY SetsOfVars, LoopNames
<1>2. <<"w", k>> \in Matrix /\ The("z") # <<"w", k>>
  BY MatrixHas DEF The
<1>3. Between(Matrix, Carry) \in Knowledge /\ Between(r, Carry) \in Knowledge
  BY <1>1, BetweenIsKnowledge
<1>4. Leads(Between(Matrix, Carry), <<Move(The("z"), <<"w", k>>)>>, Between(r, Carry))
  <2> DEFINE to == The("z")
             from == <<"w", k>>
  <2>1. to \in Var /\ from \in Matrix /\ to # from
    BY <1>1, <1>2
  <2> HIDE DEF to, from
  <2>2. Leads(Between(Matrix, Carry), <<Move(to, from)>>, Between(Matrix \cup {to}, Carry))
    BY <1>1, <2>1, CopyLeads
  <2> QED
    BY <2>2 DEF to, from
<1> QED
  BY <1>1, <1>3, <1>4 DEF Known

LEMMA ConvergeLeads ==
  ASSUME ConfigInv, k \in Column, NEW p \in {"split", "inverted"}
  PROVE  Leads(Known("converge"), <<Move(The("z"), <<"w", k>>)>> \o SvdZ(k), Known(p))
<1> DEFINE r == Matrix \cup {The("z")}
<1>1. /\ r \in SUBSET Var /\ Carry \in SUBSET Var
      /\ Between(Matrix, Carry) \in Knowledge /\ Between(r, Carry) \in Knowledge
      /\ Known("converge") = Between(Matrix, Carry) /\ Known(p) = Between(Matrix, Carry)
      /\ Leads(Between(Matrix, Carry), <<Move(The("z"), <<"w", k>>)>>, Between(r, Carry))
  BY TakeZLeads DEF Known
<1>2. Matrix \cup {The("z")} \subseteq r /\ context \in Sharing
  BY DEF ConfigInv
<1> HIDE DEF r
<1>3. PICK q \in SUBSET Var : r \subseteq q /\ Leads(Between(r, Carry), SvdZ(k), Between(q, Carry))
  BY <1>1, <1>2, SvdZLeads
<1>4. Between(q, Carry) \in Knowledge /\ Matrix \subseteq q
  BY <1>1, <1>2, <1>3, BetweenIsKnowledge
<1>5. Leads(Between(Matrix, Carry), <<Move(The("z"), <<"w", k>>)>> \o SvdZ(k), Between(q, Carry))
  BY <1>1, <1>3, <1>4, LeadsOn
<1> QED
  BY <1>1, <1>4, <1>5, BetweenLess, LeadsLess

\* The circuit of a QR step.
Swept == SvdPart2 \cup {The("fx")}
Spared == Given \cup {The("anorm")}

LEMMA SweptSets ==
  /\ Swept \in SUBSET Var /\ Spared \in SUBSET Var /\ Carry \in SUBSET Var
  /\ Swept \subseteq SvdVar
  /\ Spared \cap Swept = {}
  /\ Carry \cap Swept = {}
  /\ Matrix \subseteq Spared \cup SvdPart2
  /\ Matrix \cup {The("z")} = Spared \cup SvdPart2
  /\ Circuit(Swept, Swept, Spared, Carry) \in Knowledge
  /\ \A p \in {"qr", "finish"} : Known(p) = Circuit(Swept, Swept, Spared, Carry)
<1>1. Swept \in SUBSET Var /\ Spared \in SUBSET Var /\ Carry \in SUBSET Var
  BY SetsOfVars, LoopNames DEF Swept, Spared
<1>2. Swept \subseteq SvdVar
  BY CarryIsApart, LoopNames DEF Swept
<1>3. The("anorm") \notin Swept
  BY Apart DEF Swept, SvdPart2
<1>4. Spared \cap Swept = {} /\ Carry \cap Swept = {}
  BY <1>2, <1>3, CarryIsApart DEF Spared
<1>5. Matrix \cup {The("z")} = Spared \cup SvdPart2
  BY DEF Matrix, Spared, SvdPart1, SvdPart2
<1>6. Circuit(Swept, Swept, Spared, Carry) \in Knowledge
  BY <1>1, CircuitIsKnowledge
<1>7. \A p \in {"qr", "finish"} : Known(p) = Circuit(Swept, Swept, Spared, Carry)
  BY DEF Known, Swept, Spared
<1> QED
  BY <1>1, <1>2, <1>4, <1>5, <1>6, <1>7

LEMMA ShiftLeads ==
  ASSUME ConfigInv, k \in Column, l \in Column, k - 1 \in Column
  PROVE  Leads(Known("converge"),
               <<Move(The("z"), <<"w", k>>)>> \o BeginSvdPart2 \o <<BuildSvdShift(k, l)>>,
               Known("qr"))
<1> DEFINE r == Matrix \cup {The("z")}
           P == SvdPart2
           reads == {The("z"), <<"w", l>>, <<"w", k - 1>>, <<"rv1", k - 1>>, <<"rv1", k>>}
           fx == {The("fx")}
           C == Circuit(P, P \cap r, r, Carry)
           D == Circuit(P \cup fx, (P \cap r) \cup fx, r \ fx, Carry \ fx)
           Q == Circuit(Swept, Swept, Spared, Carry)
<1>1. /\ r \in SUBSET Var /\ Carry \in SUBSET Var /\ context \in Sharing
      /\ P \in SUBSET Var /\ fx \in SUBSET Var
      /\ Between(Matrix, Carry) \in Knowledge /\ Between(r, Carry) \in Knowledge
      /\ Known("converge") = Between(Matrix, Carry)
      /\ Leads(Between(Matrix, Carry), <<Move(The("z"), <<"w", k>>)>>, Between(r, Carry))
  BY TakeZLeads, SetsOfVars, LoopNames DEF ConfigInv
<1>2. P \subseteq r /\ P \cap r = P
  BY SweptSets
<1>3. reads \in SUBSET (P \cap (P \cap r))
  <2> DEFINE k1 == k - 1
  <2>1. k1 \in Column
    OBVIOUS
  <2> HIDE DEF k1
  <2>2. {The("z"), <<"w", l>>, <<"w", k1>>, <<"rv1", k1>>, <<"rv1", k>>} \subseteq P
    BY <2>1, MatrixHas
  <2> QED
    BY <1>2, <2>2 DEF k1
<1>4. BuildSvdShift(k, l) = Build(reads, fx)
  BY DEF BuildSvdShift
<1>5. Q \in Knowledge /\ Known("qr") = Q
  BY SweptSets
<1>6. Below(Q, D)
  <2>1. Spared \subseteq r \ fx /\ Carry \subseteq Carry \ fx /\ Swept = P \cup fx
        /\ Swept \subseteq (P \cap r) \cup fx
    BY <1>2, SweptSets DEF Swept
  <2> HIDE DEF r, P, fx
  <2> QED
    BY <2>1 DEF Below, Circuit, Know
<1> HIDE DEF reads, fx, r, P
<1>7. Leads(Between(r, Carry), BeginSvdPart2, C)
  BY <1>1, PrologueLeads DEF BeginSvdPart2, P
<1>8. Leads(C, <<Build(reads, fx)>>, D)
  BY <1>1, <1>3, BuildLeads
<1>9. C \in Knowledge /\ D \in Knowledge
  BY <1>1, CircuitIsKnowledge
<1> HIDE DEF C, D, Q
<1>10. Leads(Between(Matrix, Carry), <<Move(The("z"), <<"w", k>>)>> \o BeginSvdPart2, C)
  BY <1>1, <1>7, <1>9, LeadsOn
<1>11. Leads(Between(Matrix, Carry),
             <<Move(The("z"), <<"w", k>>)>> \o BeginSvdPart2 \o <<Build(reads, fx)>>, D)
  BY <1>1, <1>8, <1>9, <1>10, LeadsOn
<1> QED
  BY <1>1, <1>4, <1>5, <1>6, <1>9, <1>11, LeadsLess

\* More gates on the circuit of a QR step.
LEMMA SweptBuildLeads ==
  ASSUME context \in Sharing, NEW reads \in SUBSET Swept, NEW writes \in SUBSET Swept
  PROVE  Leads(Circuit(Swept, Swept, Spared, Carry), <<Build(reads, writes)>>,
               Circuit(Swept, Swept, Spared, Carry))
<1>1. /\ Swept \cup writes = Swept /\ Spared \ writes = Spared /\ Carry \ writes = Carry
      /\ reads \in SUBSET (Swept \cap Swept) /\ writes \in SUBSET Var
  BY SweptSets
<1>2. Leads(Circuit(Swept, Swept, Spared, Carry), <<Build(reads, writes)>>,
            Circuit(Swept \cup writes, Swept \cup writes, Spared \ writes, Carry \ writes))
  BY <1>1, SweptSets, BuildLeads
<1> QED
  BY <1>1, <1>2

LEMMA SweepLeads ==
  ASSUME ConfigInv, i \in Column, i + 1 \in Column, NEW p \in {"qr", "finish"}
  PROVE  Leads(Known("qr"), <<BuildSvdRotation(i)>>, Known(p))
<1> DEFINE j == i + 1
           pair == {"a", "v"} \X {i, j}
           reads == {The("fx"), <<"rv1", j>>, <<"w", j>>} \cup pair
           writes == {The("fx"), The("z"), <<"rv1", i>>, <<"w", i>>} \cup pair
<1>1. BuildSvdRotation(i) = Build(reads, writes)
  BY DEF BuildSvdRotation
<1>2. pair = {<<"a", i>>, <<"a", j>>, <<"v", i>>, <<"v", j>>}
  OBVIOUS
<1>3. j \in Column
  OBVIOUS
<1> HIDE DEF j, pair
<1>4. reads \subseteq Swept /\ writes \subseteq Swept
  <2>1. /\ {<<"a", i>>, <<"w", i>>, <<"v", i>>, <<"rv1", i>>} \subseteq SvdPart2
        /\ {<<"a", j>>, <<"w", j>>, <<"v", j>>, <<"rv1", j>>} \subseteq SvdPart2
        /\ The("z") \in SvdPart2
    BY <1>3, MatrixHas
  <2> QED
    BY <1>2, <2>1 DEF Swept
<1> HIDE DEF reads, writes
<1> QED
  BY <1>1, <1>4, SweptBuildLeads, SweptSets DEF ConfigInv

LEMMA FinishSweepLeads ==
  ASSUME ConfigInv, k \in Column, l \in Column, NEW p \in {"split", "inverted"}
  PROVE  Leads(Known("finish"), <<BuildSvdLeftOver(k, l)>> \o EndSvdPart2, Known(p))
<1> DEFINE Q == Circuit(Swept, Swept, Spared, Carry)
           reads == {The("fx")}
           writes == {<<"rv1", l>>, <<"rv1", k>>, <<"w", k>>}
           R == Between(Spared \cup (SvdPart2 \cup {}), Carry)
           S0 == Between(Matrix, Carry)
<1>1. /\ context \in Sharing /\ Q \in Knowledge /\ Known("finish") = Q /\ Known(p) = S0
      /\ Swept \in SUBSET Var /\ Spared \in SUBSET Var /\ Carry \in SUBSET Var
      /\ {} \in SUBSET (Swept \cap Swept)
  BY SweptSets DEF ConfigInv, Known
<1>2. reads \subseteq Swept /\ writes \subseteq Swept
  BY MatrixHas DEF Swept
<1>3. BuildSvdLeftOver(k, l) = Build(reads, writes)
  BY DEF BuildSvdLeftOver
<1> HIDE DEF reads, writes
<1>4. Leads(Q, <<BuildSvdLeftOver(k, l)>>, Q)
  BY <1>1, <1>2, <1>3, SweptBuildLeads
<1>5. Leads(Q, EndSvdPart2, R)
  <2>1. SvdPart2 \in SUBSET Swept /\ SvdPart2 \in SUBSET (SvdPart2 \cap Swept) /\ SvdPart2 \cap {} = {}
    BY DEF Swept
  <2> QED
    BY <1>1, <2>1, CloseLeads DEF EndSvdPart2
<1>6. Below(S0, R)
  BY SweptSets, BetweenLess
<1>7. R \in Knowledge /\ S0 \in Knowledge
  BY <1>1, SetsOfVars, BetweenIsKnowledge
<1> HIDE DEF Q, R, S0
<1>8. Leads(Q, <<BuildSvdLeftOver(k, l)>> \o EndSvdPart2, R)
  BY <1>1, <1>4, <1>5, <1>7, LeadsOn
<1> QED
  BY <1>1, <1>6, <1>7, <1>8, LeadsLess

\* Decisions that make no calls, or only set public values.
LEMMA NoCallsLead ==
  ASSUME ConfigInv
  PROVE  /\ Leads(Known("testRv1"), << >>, Known("converge"))
         /\ Leads(Known("testF"), << >>, Known("converge"))
         /\ \A p \in {"iterate", "return"} : Leads(Known("decide"), << >>, Known(p))
         /\ Leads(Known("testW"), <<Set({The("cc"), The("s")})>>, Known("cancel"))
<1> DEFINE rb == Matrix \cup {The("bit")}
           cs == {The("cc"), The("s")}
           rf == Matrix \cup {The("cc"), The("s"), The("f"), The("bit")}
           I == Inputs \cup State
           Ib == I \cup {The("bit")}
           rc == Matrix \cup cs
<1>1. /\ rb \in SUBSET Var /\ cs \in SUBSET Var /\ rf \in SUBSET Var /\ I \in SUBSET Var
      /\ Ib \in SUBSET Var /\ Carry \in SUBSET Var /\ Matrix \in SUBSET Var /\ rc \in SUBSET Var
      /\ {} \in SUBSET Var /\ rb \cup cs \in SUBSET Var
  BY SetsOfVars, LoopNames
<1>2. /\ Known("testRv1") = Between(rb, Carry) /\ Known("testW") = Between(rb, Carry)
      /\ Known("testF") = Between(rf, Carry) /\ Known("converge") = Between(Matrix, Carry)
      /\ Known("cancel") = Between(rc, Carry)
      /\ Known("decide") = (IF flow = DO THEN Circuit(I, I, {}, {}) ELSE Between(Ib, {}))
      /\ \A p \in {"iterate", "return"} :
           Known(p) = (IF flow = DO THEN Circuit(I, I, {}, {}) ELSE Between(I, {}))
  BY DEF Known
<1>3. Matrix \subseteq rb /\ Matrix \subseteq rf /\ I \subseteq Ib /\ rc \subseteq rb \cup cs
  OBVIOUS
<1> HIDE DEF rb, cs, rf, I, Ib, rc
<1>4. /\ Between(rb, Carry) \in Knowledge /\ Between(rf, Carry) \in Knowledge
      /\ Between(Matrix, Carry) \in Knowledge /\ Between(rc, Carry) \in Knowledge
      /\ Between(rb \cup cs, Carry) \in Knowledge
      /\ Between(I, {}) \in Knowledge /\ Between(Ib, {}) \in Knowledge
      /\ Circuit(I, I, {}, {}) \in Knowledge
  BY <1>1, BetweenIsKnowledge, CircuitIsKnowledge
<1>5. /\ Leads(Known("testRv1"), << >>, Known("converge"))
      /\ Leads(Known("testF"), << >>, Known("converge"))
  BY <1>2, <1>3, <1>4, BetweenLess, LeadsNowhere
<1>6. \A p \in {"iterate", "return"} : Leads(Known("decide"), << >>, Known(p))
  BY <1>2, <1>3, <1>4, BetweenLess, BelowIsOrder, LeadsNowhere
<1>7. Leads(Known("testW"), <<Set(cs)>>, Known("cancel"))
  <2>1. Leads(Between(rb, Carry), <<Set(cs)>>, Between(rb \cup cs, Carry))
    BY <1>1, CopyLeads
  <2> QED
    BY <1>2, <1>3, <1>4, <2>1, BetweenLess, LeadsLess
<1> QED
  BY <1>5, <1>6, <1>7 DEF cs

----------------------------------------------------------------------------
(* The invariant.                                                          *)

\* The knowledge calculus depends on the build alone.
LEMMA SameLeads ==
  ASSUME UNCHANGED context, NEW CONSTANT K, NEW CONSTANT s, NEW CONSTANT M
  PROVE  Leads(K, s, M)' <=> Leads(K, s, M)
<1>1. \A c, L : Checks(c, L)' <=> Checks(c, L)
  BY DEF Checks, PutsGates, Gates
<1>2. \A c, L : Then(c, L)' = Then(c, L)
  BY DEF Then, Put, Know, Other
<1>3. \A L, N : Below(L, N)' <=> Below(L, N)
  BY DEF Below
<1> QED
  BY <1>1, <1>2, <1>3 DEF Leads

LEMMA SameKnown ==
  ASSUME UNCHANGED config, NEW CONSTANT p
  PROVE  Known(p)' = Known(p)
<1>1. method' = method /\ flow' = flow /\ context' = context
  BY DEF config
<1>2. Inputs' = Inputs /\ State' = State /\ Given' = Given /\ Matrix' = Matrix /\ Carry' = Carry
  BY <1>1 DEF Inputs, State, Given, Matrix, Carry, LMCarry, GaussNewtonCarry
<1>3. \A g, f, r, s : Circuit(g, f, r, s)' = Circuit(g, f, r, s)
  BY <1>1 DEF Circuit, Know
<1>4. \A r, s : Between(r, s)' = Between(r, s)
  BY DEF Between, Know
<1> QED
  BY <1>1, <1>2, <1>3, <1>4 DEF Known

\* The calls that are left can be made.
LEMMA CallsOn ==
  ASSUME UNCHANGED config, NEW CONSTANT K \in Knowledge, PartyTypeOK', Holds(K)',
         Leads(K, todo', Known(at'))
  PROVE  CallsInv'
<1>1. PICK s, p : s = todo' /\ p = at'
  OBVIOUS
<1>2. PICK M : M = Known(p)
  OBVIOUS
<1>3. Leads(K, s, M)' <=> Leads(K, s, M)
  BY SameLeads DEF config
<1>4. Known(p)' = Known(p)
  BY SameKnown
<1>5. Leads(K, todo, Known(at))'
  BY <1>1, <1>2, <1>3, <1>4
<1> QED
  BY <1>5 DEF CallsInv

\* When all calls are made, what is known at the place is true.
LEMMA CallsDone ==
  ASSUME CallsInv, todo = << >>
  PROVE  Known(at) \in Knowledge /\ Holds(Known(at))
<1>1. PICK K \in Knowledge : Holds(K) /\ Leads(K, << >>, Known(at))
  BY DEF CallsInv
<1>2. Known(at) \in Knowledge
  <2>1. Len(<< >>) = 0
    OBVIOUS
  <2> QED
    BY <1>1, <2>1 DEF Leads
<1> QED
  BY <1>1, <1>2, LeadsNowhere, HoldsBelow

LEMMA StepCalls ==
  ASSUME CallsInv, Step
  PROVE  CallsInv'
<1>1. PartyTypeOK /\ todo # << >> /\ Perform(Head(todo)) /\ todo' = Tail(todo) /\ at' = at
      /\ UNCHANGED config
  BY DEF CallsInv, Step
<1>2. PICK K \in Knowledge : Holds(K) /\ Leads(K, todo, Known(at))
  BY DEF CallsInv
<1>3. Known(at) \in Knowledge
  <2>1. Len(todo) \in 0 .. Len(todo)
    <3>1. todo \in Seq(CallRecord)
      BY <1>2 DEF Leads
    <3> QED
      BY <3>1, LenProperties
  <2> QED
    BY <1>2, <2>1 DEF Leads
<1>4. PICK c \in CallRecord, H \in Knowledge, L \in Knowledge :
        /\ c = Head(todo)
        /\ Below(H, K) /\ Checks(c, H) /\ Below(L, Then(c, H))
        /\ Leads(L, Tail(todo), Known(at))
  BY <1>1, <1>2, <1>3, LeadsFirst
<1>5. Holds(H)
  BY <1>2, <1>4, HoldsBelow
<1>6. Perform(c) /\ context' = context
  BY <1>1, <1>4 DEF config
<1>7. PartyTypeOK'
  BY <1>1, <1>4, <1>6, PerformType
<1>8. Holds(L)'
  BY <1>1, <1>4, <1>5, <1>6, PerformHolds
<1> QED
  BY <1>1, <1>4, <1>7, <1>8, CallsOn

\* What is known at a place lets the piece that is taken up there be run.
Decisions == BuildAndRun \/ Iteration \/ Inverted \/ Decide \/ Finish \/ Svd

LEMMA OptimizerLeads ==
  ASSUME ConfigInv, BuildAndRun \/ Iteration \/ Inverted \/ Decide \/ Finish
  PROVE  Leads(Known(at), todo', Known(at'))
<1>1. CASE BuildAndRun
  BY <1>1, StartLeads DEF BuildAndRun, Run
<1>2. CASE Iteration
  <2>1. CASE flow = LOOP_LEAK
    BY <1>2, <2>1, LeakingIterationLeads DEF Iteration, Run, DO, LOOP_LEAK, SiSL
  <2>2. CASE flow = SiSL
    BY <1>2, <2>2, SiSLIterationLeads DEF Iteration, Run, DO, LOOP_LEAK, SiSL
  <2>3. CASE flow = DO
    BY <1>2, <2>3, ObliviousIterationLeads DEF Iteration, Run, DO, LOOP_LEAK, SiSL
  <2> QED
    BY <2>1, <2>2, <2>3 DEF ConfigInv
<1>3. CASE Inverted
  <2>1. flow = LOOP_LEAK
    BY <1>3 DEF ConfigInv, Inverted
  <2> QED
    BY <1>3, <2>1, InvertedLeads DEF Inverted, Run
<1>4. CASE Decide
  <2>1. at = "decide" /\ todo' = << >> /\ at' \in {"iterate", "return"}
    BY <1>4 DEF Decide, Run
  <2> QED
    BY <2>1, NoCallsLead
<1>5. CASE Finish
  BY <1>5, ReturnLeads DEF Finish, Run
<1> QED
  BY <1>1, <1>2, <1>3, <1>4, <1>5

LEMMA SvdLeads ==
  ASSUME ConfigInv, LoopInv, Svd
  PROVE  Leads(Known(at), todo', Known(at'))
<1>1. /\ NCols \in Nat \ {0}
      /\ l \in Column /\ i \in Column
      /\ at \in InSvd => k \in Column
      /\ at \in InSvd => k \in 0 .. NCols - 1
      /\ at \in {"testRv1", "testW", "cancel", "testF", "converge", "qr", "finish"} => l \in 0 .. k
  BY Bounds DEF LoopInv, LoopsTypeOK, Placed, Column, InSvd
<1>2. CASE RunSvdLoopLeak
  BY <1>2, Part1Leads DEF RunSvdLoopLeak, Run
<1>3. CASE Search
  <2>1. k \in Column
    BY <1>1, <1>3 DEF Search, InSvd
  <2> QED
    BY <1>3, <2>1, SearchLeads DEF Search, Run
<1>4. CASE TestRv1
  <2>1. CASE todo' = << >> /\ at' = "converge"
    BY <1>4, <2>1, NoCallsLead DEF TestRv1
  <2>2. CASE l \notin zero /\ l # 0 /\ todo' = RunSvdCheckZeroCircuit(<<"w", l - 1>>) /\ at' = "testW"
    <3> DEFINE c == l - 1
    <3>1. c \in Column
      BY <1>1, <2>2 DEF Column
    <3> HIDE DEF c
    <3>2. Leads(Known("testRv1"), RunSvdCheckZeroCircuit(<<"w", c>>), Known("testW"))
      BY <3>1, SearchLeads
    <3> QED
      BY <1>4, <2>2, <3>2 DEF TestRv1, c
  <2>3. l = 0 => l \in zero
    BY <1>4 DEF LoopInv, FirstIsZero, TestRv1
  <2> QED
    BY <1>4, <2>1, <2>2, <2>3 DEF TestRv1, Run
<1>5. CASE TestW
  <2>1. CASE todo' = <<Set({The("cc"), The("s")})>> /\ at' = "cancel"
    BY <1>5, <2>1, NoCallsLead DEF TestW
  <2>2. CASE todo' = RunSvdCheckZeroCircuit(<<"rv1", l - 1>>) /\ at' = "testRv1"
    <3> DEFINE c == l - 1
    <3>1. l # 0
      BY <1>5 DEF LoopInv, SearchInv, TestW
    <3>2. c \in Column
      BY <1>1, <3>1 DEF Column
    <3> HIDE DEF c
    <3>3. Leads(Known("testW"), RunSvdCheckZeroCircuit(<<"rv1", c>>), Known("testRv1"))
      BY <3>2, SearchLeads
    <3> QED
      BY <1>5, <2>2, <3>3 DEF TestW, c
  <2> QED
    BY <1>5, <2>1, <2>2 DEF TestW, Run
<1>6. CASE Cancel
  BY <1>1, <1>6, CancelLeads DEF Cancel, Run
<1>7. CASE TestF
  <2>1. CASE todo' = << >> /\ at' = "converge"
    BY <1>7, <2>1, NoCallsLead DEF TestF
  <2>2. CASE todo' = Flag2(i, l - 1) /\ at' \in {"converge", "cancel"}
    <3>1. l # 0 /\ i \in l .. k
      BY <1>7 DEF ConfigInv, LoopInv, Placed, TestF
    <3>2. l - 1 \in Column /\ i # l - 1
      BY <1>1, <3>1 DEF Column
    <3> QED
      BY <1>1, <1>7, <2>2, <3>2, RotateLeads DEF TestF
  <2> QED
    BY <1>7, <2>1, <2>2 DEF TestF, Run
<1>8. CASE Converge
  <2>1. k \in Column /\ at' \in {"split", "inverted"}
    BY <1>1, <1>8 DEF Converge, Run, InSvd
  <2> QED
    BY <1>8, <2>1, ConvergeLeads DEF Converge, Run
<1>9. CASE Shift
  <2>1. k \in Column /\ k - 1 \in Column
    <3>1. k \in 0 .. NCols - 1 /\ l \in 0 .. k /\ l # k
      BY <1>1, <1>9 DEF Shift, InSvd
    <3> QED
      BY <1>1, <3>1 DEF Column
  <2> QED
    BY <1>1, <1>9, <2>1, ShiftLeads DEF Shift, Run
<1>10. CASE Sweep
  <2>1. i + 1 \in Column /\ at' \in {"qr", "finish"}
    <3>1. k \in 0 .. NCols - 1 /\ i \in l .. k - 1
      BY <1>1, <1>10 DEF LoopInv, Placed, Sweep, InSvd
    <3>2. i + 1 \in Column
      BY <1>1, <3>1 DEF Column
    <3> QED
      BY <1>10, <3>2 DEF Sweep, Run
  <2> QED
    BY <1>1, <1>10, <2>1, SweepLeads DEF Sweep, Run
<1>11. CASE FinishSweep
  <2>1. /\ k \in Column /\ at' \in {"split", "inverted"}
        /\ todo' = <<BuildSvdLeftOver(k, l)>> \o EndSvdPart2
    BY <1>1, <1>11 DEF FinishSweep, Run, InSvd
  <2> QED
    BY <1>1, <1>11, <2>1, FinishSweepLeads DEF FinishSweep
<1> QED
  BY <1>2, <1>3, <1>4, <1>5, <1>6, <1>7, <1>8, <1>9, <1>10, <1>11 DEF Svd

LEMMA DecisionCalls ==
  ASSUME ConfigInv, LoopInv, CallsInv, Decisions
  PROVE  CallsInv'
<1>1. UNCHANGED <<config, partyVars>> /\ todo = << >>
  BY DEF Decisions, BuildAndRun, Iteration, Inverted, Decide, Finish, Run, Svd, RunSvdLoopLeak,
         Search, TestRv1, TestW, Cancel, TestF, Converge, Shift, Sweep, FinishSweep
<1>2. Leads(Known(at), todo', Known(at'))
  BY OptimizerLeads, SvdLeads DEF Decisions
<1>3. PICK K \in Knowledge : K = Known(at) /\ Holds(K)
  BY <1>1, CallsDone
<1>4. PartyTypeOK' /\ Holds(K)'
  BY <1>1, <1>3 DEF CallsInv, PartyTypeOK, Holds, config, partyVars
<1> QED
  BY <1>1, <1>2, <1>3, <1>4, CallsOn

\* Where the build at hand is, whatever loop it is in.
LEMMA ConfigStays ==
  ASSUME ConfigInv, UNCHANGED config,
         at' \in InSvd \cup {"svd", "inverted"} => flow = LOOP_LEAK,
         at' \in {"cancel", "testF"} => l' # 0
  PROVE  ConfigInv'
<1>1. CallerSharing' = CallerSharing
  BY DEF config, CallerSharing, LocalizeWrapper, TestLmCircuit
<1> QED
  BY <1>1 DEF ConfigInv, config

LEMMA NextConfig == ConfigInv /\ LoopInv /\ [Next]_vars => ConfigInv'
<1> SUFFICES ASSUME ConfigInv, LoopInv, [Next]_vars PROVE ConfigInv'
  OBVIOUS
<1>1. CASE UNCHANGED vars
  BY <1>1, ConfigStays DEF vars, svdVars, ConfigInv
<1>2. CASE Step \/ BuildAndRun \/ Iteration \/ Inverted \/ Decide \/ Finish
  <2>1. UNCHANGED config /\ l' = l
    BY <1>2 DEF Step, BuildAndRun, Iteration, Inverted, Decide, Finish, svdVars
  <2>2. at' = "svd" => flow = LOOP_LEAK
    BY <1>2 DEF ConfigInv, Step, BuildAndRun, Iteration, Inverted, Decide, Finish, Run
  <2>3. \/ at' = at
        \/ at' \in {"iterate", "svd", "decide", "return", "end"}
    BY <1>2, OptimizerMoves
  <2> QED
    BY <2>1, <2>2, <2>3, ConfigStays DEF ConfigInv, InSvd
<1>3. CASE Svd
  <2>1. UNCHANGED config /\ flow = LOOP_LEAK
    BY <1>3
       DEF ConfigInv, InSvd, Svd, RunSvdLoopLeak, Search, TestRv1, TestW, Cancel, TestF, Converge,
           Shift, Sweep, FinishSweep
  <2>2. at' \in {"cancel", "testF"} => l' # 0
    <3>1. CASE RunSvdLoopLeak \/ Search \/ TestRv1 \/ Converge \/ Shift \/ Sweep \/ FinishSweep
      BY <3>1 DEF RunSvdLoopLeak, Search, TestRv1, Converge, Shift, Sweep, FinishSweep, Run
    <3>2. CASE TestW
      BY <3>2 DEF LoopInv, SearchInv, TestW, Run
    <3>3. CASE Cancel \/ TestF
      BY <3>3 DEF ConfigInv, Cancel, TestF, svdVars
    <3> QED
      BY <1>3, <3>1, <3>2, <3>3 DEF Svd
  <2> QED
    BY <2>1, <2>2, ConfigStays
<1> QED
  BY <1>1, <1>2, <1>3 DEF Next

\* test_lm_circuit, which makes its inputs in the sharing of the solver, does
\* not call the SiSL build in Yao's.
KnownCallers ==
  \A b \in Builds : b.caller = "test_lm_circuit" /\ b.flow = SiSL => b.context = BOOL

LEMMA InitConfig ==
  ASSUME KnownCallers, Init
  PROVE  ConfigInv
<1>1. PICK b \in Builds :
        method = b.method /\ flow = b.flow /\ context = b.context /\ caller = b.caller
  BY Zenon DEF Init
<1>2. b \in BuildRecord
  BY ShareCarryAssumption, Zenon
<1>3. /\ method \in {LM, GN} /\ flow \in {DO, LOOP_LEAK, SiSL} /\ context \in Sharing
      /\ caller \in {"localize_wrapper", "test_lm_circuit"}
  BY <1>1, <1>2 DEF BuildRecord
<1>4. caller = "test_lm_circuit" /\ flow = SiSL => context = BOOL
  BY <1>1 DEF KnownCallers
<1>5. CallerSharing = (IF flow = DO THEN context ELSE BOOL)
  BY <1>3, <1>4 DEF CallerSharing, LocalizeWrapper, TestLmCircuit, DO, LOOP_LEAK, SiSL
<1> QED
  BY <1>3, <1>5 DEF ConfigInv, Init, InSvd

LEMMA InitCalls ==
  ASSUME ConfigInv, Init
  PROVE  CallsInv
<1> DEFINE K == Between({}, {})
<1>1. K \in Knowledge /\ Known(at) = K /\ todo = << >>
  BY BetweenIsKnowledge DEF Known, Init
<1>2. PartyTypeOK
  <2>1. NoShare \in Share
    BY DEF NoShare, Share, Sharing, Value
  <2> QED
    BY <2>1 DEF Init, PartyInit, PartyTypeOK, ConfigInv, Value
<1>3. Holds(K)
  BY DEF Holds, Between, Know, Init, PartyInit
<1> HIDE DEF K
<1>4. Leads(K, << >>, K)
  BY <1>1, LeadsNowhere, BelowIsOrder
<1> QED
  BY <1>1, <1>2, <1>3, <1>4 DEF CallsInv

\* The inductive invariant.
Inv == LoopInv /\ ConfigInv /\ CallsInv

LEMMA NextCalls == Inv /\ [Next]_vars => Inv'
<1> SUFFICES ASSUME Inv, [Next]_vars PROVE Inv'
  OBVIOUS
<1>1. LoopInv' /\ ConfigInv'
  BY NextLoop, NextConfig DEF Inv
<1>2. CASE UNCHANGED vars
  <2>1. PICK K \in Knowledge : Holds(K) /\ Leads(K, todo, Known(at))
    BY DEF Inv, CallsInv
  <2>2. UNCHANGED <<config, partyVars>> /\ todo' = todo /\ at' = at
    BY <1>2 DEF vars
  <2>3. PartyTypeOK' /\ Holds(K)'
    BY <2>1, <2>2 DEF Inv, CallsInv, PartyTypeOK, Holds, config, partyVars
  <2>4. CallsInv'
    BY <2>1, <2>2, <2>3, CallsOn
  <2> QED
    BY <1>1, <2>4 DEF Inv
<1>3. CASE Step
  BY <1>1, <1>3, StepCalls DEF Inv
<1>4. CASE Decisions
  BY <1>1, <1>4, DecisionCalls DEF Inv
<1> QED
  BY <1>2, <1>3, <1>4 DEF Next, Decisions

\* For any matrix, any bounds and any set of builds the callers run: the loops
\* are within their bounds, the build is one there is, and at every moment the
\* calls that a function of the optimizers or of the SVD still has to make of
\* the party can all be made, and leave what the next function relies on.
THEOREM ShareCarryInv == ASSUME KnownCallers PROVE Spec => []Inv
<1>1. Init => Inv
  BY InitLoop, InitConfig, InitCalls DEF Inv
<1> QED
  BY <1>1, NextCalls, PTL DEF Spec

----------------------------------------------------------------------------
(* What the invariant says of a call, and of a decision.                   *)

LEMMA CurrentChecked ==
  ASSUME Inv, Running
  PROVE  /\ Current \in CallRecord
         /\ \E H \in Knowledge : Holds(H) /\ Checks(Current, H)
<1>1. PICK K \in Knowledge : Holds(K) /\ Leads(K, todo, Known(at))
  BY DEF Inv, CallsInv
<1>2. Known(at) \in Knowledge
  <2>1. todo \in Seq(CallRecord)
    BY <1>1 DEF Leads
  <2>2. Len(todo) \in 0 .. Len(todo)
    BY <2>1, LenProperties
  <2> QED
    BY <1>1, <2>2 DEF Leads
<1>3. PICK H \in Knowledge : Below(H, K) /\ Checks(Head(todo), H)
  BY <1>1, <1>2, LeadsFirst DEF Running
<1>4. Head(todo) \in CallRecord
  BY <1>1, <1>2, LeadsFirst DEF Running
<1> QED
  BY <1>1, <1>3, <1>4, HoldsBelow DEF Current

LEMMA GatesHold ==
  ASSUME NEW H \in Knowledge, Holds(H), NEW s \in Sharing, NEW v \in Gates(H, s)
  PROVE  share[v].live /\ share[v].sharing = s
BY DEF Gates, Holds, Sharing

\* Whatever a call takes is on the circuit, in the sharing of its gates.
LEMMA TakenHold ==
  ASSUME Inv, Running, NEW v \in Taken(Current)
  PROVE  share[v].live /\ share[v].sharing = Current.sharing
<1>1. Current \in CallRecord
  BY CurrentChecked
<1>2. PICK H \in Knowledge : Holds(H) /\ Checks(Current, H)
  BY CurrentChecked
<1>3. Current.sharing \in Sharing
  BY <1>1 DEF CallRecord
<1>4. v \in Gates(H, Current.sharing)
  <2>1. CASE Current.kind \in {"convert", "sharedout", "out"}
    BY <1>2, <2>1 DEF Taken, Checks
  <2>2. CASE Current.kind = "build"
    BY <1>2, <2>2 DEF Taken, Checks
  <2>3. Current.kind \in {"convert", "sharedout", "out", "build"}
    BY DEF Taken
  <2> QED
    BY <2>1, <2>2, <2>3
<1> QED
  BY <1>2, <1>3, <1>4, GatesHold

LEMMA InvLiveShares == Inv => LiveShares
<1> SUFFICES ASSUME Inv, Running, PutsGates(Current)
             PROVE  ~executed /\ \A v \in Taken(Current) : share[v].live
  BY DEF LiveShares
<1>1. PICK H \in Knowledge : Holds(H) /\ Checks(Current, H)
  BY CurrentChecked
<1>2. ~executed
  BY <1>1 DEF Checks, Holds
<1> QED
  BY <1>2, TakenHold

LEMMA InvSharingFits == Inv => SharingFits
BY TakenHold DEF SharingFits

LEMMA InvReadsOutputs == Inv => ReadsOutputs
<1> SUFFICES ASSUME Inv, Running, NEW v \in Reads(Current)
             PROVE  executed /\ share[v].live /\ share[v].out
  BY DEF ReadsOutputs
<1>1. PICK H \in Knowledge : Holds(H) /\ Checks(Current, H)
  BY CurrentChecked
<1>2. Current.kind \in {"get", "save"} /\ v \in Current.of
  BY DEF Reads
<1>3. v \in H.outs /\ H.phase # "open"
  BY <1>1, <1>2 DEF Checks
<1> QED
  BY <1>1, <1>3 DEF Holds

LEMMA InvLatestValues == Inv => LatestValues
<1> SUFFICES ASSUME Inv PROVE LatestValues
  OBVIOUS
<1>1. ASSUME Running, Current.kind = "build", NEW v \in Current.reads
      PROVE  share[v].value = "new"
  <2>1. PICK H \in Knowledge : Holds(H) /\ Checks(Current, H)
    BY <1>1, CurrentChecked
  <2>2. v \in H.fresh
    BY <1>1, <2>1 DEF Checks
  <2> QED
    BY <2>1, <2>2 DEF Holds
<1>2. ASSUME ~Running
      PROVE  \A v \in Known(at).raws : raw[v] = "new"
  <2>1. Holds(Known(at))
    BY <1>2, CallsDone DEF Running, Inv
  <2> QED
    BY <2>1 DEF Holds
<1>3. at \in {"testRv1", "testW", "testF"} => The("bit") \in Known(at).raws
  BY DEF Known, Between, Know
<1>4. at = "decide" /\ flow # DO => The("bit") \in Known(at).raws
  BY DEF Known, Between, Know
<1>5. at = "end" => The("x") \in Known(at).raws
  BY DEF Known, Between, Know
<1> QED
  BY <1>1, <1>2, <1>3, <1>4, <1>5 DEF LatestValues

LEMMA InvEveryExecCounted == Inv => EveryExecCounted
<1> SUFFICES ASSUME Inv, Running, Current.kind = "reset"
             PROVE  executed /\ counted
  BY DEF EveryExecCounted
<1>1. PICK H \in Knowledge : Holds(H) /\ Checks(Current, H)
  BY CurrentChecked
<1> QED
  BY <1>1 DEF Checks, Holds

\* For any matrix, any bounds and any set of builds the callers run: the shares,
\* raw shares and buffers, the calls that are left and the place in the program
\* are always what they should be.
THEOREM ShareCarryTypeOK == ASSUME KnownCallers PROVE Spec => []TypeOK
<1>1. Inv => TypeOK
  BY DEF Inv, LoopInv, CallsInv, TypeOK
<1> QED
  BY <1>1, ShareCarryInv, PTL

\* For any matrix, any bounds and any set of builds the callers run: no function
\* puts a gate on a circuit that was executed and not reset, or on a share of a
\* circuit that Reset has thrown away.
THEOREM ShareCarryLiveShares == ASSUME KnownCallers PROVE Spec => []LiveShares
BY InvLiveShares, ShareCarryInv, PTL

\* For any matrix, any bounds and any set of builds the callers run: each
\* circuit takes shares of its own sharing, whatever is converted on the way in.
THEOREM ShareCarrySharingFits == ASSUME KnownCallers PROVE Spec => []SharingFits
BY InvSharingFits, ShareCarryInv, PTL

\* For any matrix, any bounds and any set of builds the callers run: a value is
\* only read of an output gate, after the circuit it is on was executed.
THEOREM ShareCarryReadsOutputs == ASSUME KnownCallers PROVE Spec => []ReadsOutputs
BY InvReadsOutputs, ShareCarryInv, PTL

\* For any matrix, any bounds and any set of builds the callers run: what was
\* carried over a Reset is what was last computed, in every circuit built from
\* it and in every bit the party decides by.
THEOREM ShareCarryLatestValues == ASSUME KnownCallers PROVE Spec => []LatestValues
BY InvLatestValues, ShareCarryInv, PTL

\* For any matrix, any bounds and any set of builds the callers run: the gates of
\* a circuit that was executed are counted before Reset forgets them.
THEOREM ShareCarryEveryExecCounted == ASSUME KnownCallers PROVE Spec => []EveryExecCounted
BY InvEveryExecCounted, ShareCarryInv, PTL

----------------------------------------------------------------------------
(* The loop over singular values.                                          *)

\* For any matrix, any bounds on the loops and any set of builds: no loop of
\* the optimizers or of RunSvdLoopLeak leaves its bounds, and w[-1] is not
\* looked at.
THEOREM ShareCarryLoopsTypeOK == Spec => []LoopsTypeOK
<1>1. LoopInv => LoopsTypeOK
  BY DEF LoopInv
<1> QED
  BY <1>1, InitLoop, NextLoop, PTL DEF Spec

\* For any matrix, any bounds on the loops and any set of builds: what
\* RunSvdLoopLeak does to the matrix, one executed circuit after the other, is
\* what the loop over singular values of Svd does.
THEOREM ShareCarryIsSvd == Spec => IsSvd
<1>1. LoopInv /\ [Next]_vars => [S!Next \/ (S!Init)']_(S!vars)
  BY NextIsSvd
<1> QED
  BY <1>1, InitLoop, InitIsSvd, NextLoop, PTL DEF Spec, IsSvd
=============================================================================
