----------------------------- MODULE SvdProofs -----------------------------
(***************************************************************************)
(* Proofs about SvdOblivious, for any number of columns and iterations: as *)
(* long as no cancellation ends early, the data-oblivious loop over        *)
(* singular values implements the one with breaks.                         *)
(***************************************************************************)
EXTENDS SvdOblivious, TLAPS

\* No cancellation ends before its last column.
RunsThrough == EndsEarly = FALSE

\* x splits the matrix by the tests of this iteration.
Splits(x) == S!Splits(x, rsmall, wsmall)

\* What the search knows after the turns from k down to n + 1: nothing yet,
\* or the first split and whether it is at rv1.
Searched(n) ==
  /\ ~lFound => flag /\ privL = 0 /\ \A y \in n + 1 .. k : ~Splits(y)
  /\ lFound =>
       /\ privL \in n + 1 .. k
       /\ Splits(privL)
       /\ \A y \in privL + 1 .. k : ~Splits(y)
       /\ flag <=> privL \notin rsmall

\* rv1[0] is 0.0 whenever a search starts, and the sweep is past column 0 or
\* has not begun to overwrite it.
ZeroInv ==
  /\ pc \in {"begin", "search", "cancel", "sign"} \/ converged => 0 \in zero
  /\ ~converged /\ pc \in {"qr", "finish"} /\ privL # 0 => 0 \in zero

SearchInv ==
  /\ pc = "search" => l \in 0 .. k /\ Searched(l)
  /\ pc = "search" => zero \cap (0 .. k) \subseteq rsmall /\ rsmall \subseteq 0 .. k /\ wsmall \subseteq 0 .. k
  /\ pc \in {"search", "cancel", "sign"} => 0 \in rsmall
  /\ pc \in {"cancel", "sign"} => Searched(-1) /\ lFound
  /\ pc \in {"qr", "finish"} /\ ~converged => privL \in 0 .. k - 1
  /\ pc \in {"cancel", "qr", "finish"} => k > 0
  /\ pc = "cancel" => i \in 1 .. k
  /\ pc \in {"begin", "search", "sign"} => i = 0
  /\ pc = "qr" => i \in 0 .. k - 1
  /\ pc = "finish" => i = k
  /\ pc # "done" => k \in Column
  /\ converged => k > 0
  /\ pc = "done" => ~converged /\ k = -1

IInv == TypeOK /\ ZeroInv /\ SearchInv

LEMMA OpType ==
  ASSUME NEW kind \in S!OpKind, NEW a \in Column, NEW b \in Column
  PROVE  Op(kind, a, b) \in [kind : S!OpKind, a : Column, b : Column]
BY DEF Op

LEMMA InitInv == Init => IInv
<1> SUFFICES ASSUME Init PROVE IInv
  OBVIOUS
<1>1. 0 \in Column /\ NCols - 1 \in Column
  BY ObliviousAssumption DEF Column
<1>2. op \in [kind : S!OpKind, a : Column, b : Column]
  BY <1>1 DEF Init, Op, S!OpKind
<1>3. k \in -1 .. NCols - 1 /\ its \in 0 .. MaxIts - 1
  BY ObliviousAssumption DEF Init
<1>4. TypeOK
  BY <1>1, <1>2, <1>3 DEF Init, TypeOK
<1>5. ZeroInv /\ SearchInv
  BY <1>1 DEF Init, ZeroInv, SearchInv
<1> QED
  BY <1>4, <1>5 DEF IInv

LEMMA BeginInv ==
  ASSUME IInv, Begin
  PROVE  IInv'
<1>1. /\ k \in Column /\ 0 \in zero /\ 0 \in 0 .. k /\ k \in 0 .. k
      /\ 0 .. k \subseteq Column
  BY ObliviousAssumption DEF IInv, SearchInv, ZeroInv, Column, Begin
<1>2. TypeOK'
  BY <1>1, ObliviousAssumption DEF IInv, TypeOK, Begin, Column
<1>3. ZeroInv'
  BY DEF IInv, ZeroInv, Begin
<1>4. Searched(l)'
  BY <1>1 DEF Begin, Searched, Column
<1>5. SearchInv'
  BY <1>1, <1>4 DEF IInv, SearchInv, Begin
<1> QED
  BY <1>2, <1>3, <1>5 DEF IInv

\* One turn of the search extends what is known by one more row.
LEMMA SearchedStep ==
  ASSUME IInv, Search, NEW n \in Int, n = l - 1
  PROVE  Searched(n)'
<1>1. /\ pc = "search" /\ l \in 0 .. k /\ k \in Nat /\ Searched(l)
      /\ k' = k /\ rsmall' = rsmall /\ wsmall' = wsmall
  BY DEF IInv, SearchInv, Search, Column
<1> DEFINE here == l \in rsmall
           above == l > 0 /\ l - 1 \in wsmall
<1>2. (here \/ above) <=> Splits(l)
  BY DEF Splits, S!Splits
<1>3. /\ flag' = (flag /\ ~(here /\ ~lFound))
      /\ privL' = (IF (here \/ above) /\ ~lFound THEN l ELSE privL)
      /\ lFound' = (lFound \/ here \/ above)
  BY DEF Search
<1>4. flag \in BOOLEAN /\ lFound \in BOOLEAN /\ n + 1 = l /\ l \in Nat
  BY <1>1 DEF IInv, TypeOK
<1>5. CASE lFound
  <2>1. lFound' /\ privL' = privL /\ (flag' <=> flag)
    BY <1>3, <1>5
  <2>2. privL \in n + 1 .. k
    BY <1>1, <1>4, <1>5 DEF Searched
  <2> QED
    BY <1>1, <1>5, <2>1, <2>2 DEF Searched, Splits, S!Splits
<1>6. CASE ~lFound /\ ~Splits(l)
  <2>1. ~lFound' /\ privL' = privL /\ (flag' <=> flag)
    BY <1>2, <1>3, <1>4, <1>6
  <2>2. flag /\ privL = 0 /\ \A y \in n + 1 .. k : ~Splits(y)
    BY <1>1, <1>4, <1>6 DEF Searched
  <2> QED
    BY <1>1, <2>1, <2>2 DEF Searched, Splits, S!Splits
<1>7. CASE ~lFound /\ Splits(l)
  <2>1. lFound' /\ privL' = l /\ (flag' <=> l \notin rsmall)
    <3>1. flag
      BY <1>1, <1>7 DEF Searched
    <3> QED
      BY <1>2, <1>3, <1>4, <1>7, <3>1
  <2>2. l \in n + 1 .. k /\ \A y \in l + 1 .. k : ~Splits(y)
    BY <1>1, <1>4, <1>7 DEF Searched
  <2> QED
    BY <1>1, <1>7, <2>1, <2>2 DEF Searched, Splits, S!Splits
<1> QED
  BY <1>5, <1>6, <1>7

LEMMA SearchStepInv ==
  ASSUME IInv, Search
  PROVE  IInv'
<1>1. /\ pc = "search" /\ l \in 0 .. k /\ k \in Column /\ k \in Nat /\ 0 \in zero /\ 0 \in rsmall
      /\ k' = k /\ rsmall' = rsmall /\ wsmall' = wsmall /\ zero' = zero /\ converged' = converged
      /\ its' = its /\ op' = op
  BY DEF IInv, ZeroInv, SearchInv, Search, Column
<1>2. 0 .. k \subseteq Column
  BY <1>1, ObliviousAssumption DEF Column
<1>3. /\ l' \in 0 .. k /\ i' \in Column
      /\ pc' = IF l > 0 THEN "search" ELSE IF k = 0 THEN "sign" ELSE "cancel"
  BY <1>1, <1>2 DEF Search, Column
<1>4. flag' \in BOOLEAN /\ lFound' \in BOOLEAN /\ privL' \in Column
  BY <1>1, <1>2 DEF Search, IInv, TypeOK
<1>5. TypeOK'
  BY <1>1, <1>2, <1>3, <1>4 DEF IInv, TypeOK
<1>6. ZeroInv'
  BY <1>1, <1>3 DEF IInv, ZeroInv
<1>7. CASE l > 0
  <2>1. l' = l - 1 /\ pc' = "search" /\ i' = 0
    BY <1>1, <1>7 DEF Search
  <2>2. PICK n \in Int : n = l - 1
    BY <1>1
  <2>3. Searched(n)'
    BY <2>2, SearchedStep
  <2>4. Searched(l)'
    BY <2>1, <2>2, <2>3 DEF Searched
  <2>5. l' \in 0 .. k'
    BY <1>1, <1>7, <2>1
  <2> QED
    BY <2>1, <2>4, <2>5, <1>1, <1>5, <1>6 DEF IInv, SearchInv
<1>8. CASE l = 0
  <2>1. Searched(-1)'
    BY <1>8, SearchedStep
  <2>2. lFound'
    <3>1. Splits(0)' /\ 0 \in 0 .. k
      BY <1>1 DEF Splits, S!Splits
    <3> QED
      BY <1>1, <2>1, <3>1 DEF Searched
  <2> QED
    BY <2>1, <2>2, <1>1, <1>3, <1>5, <1>6, <1>8 DEF IInv, SearchInv, Search
<1> QED
  BY <1>1, <1>7, <1>8

\* The search finds a split, by the exact zero at rv1[0]; and when w decided,
\* it is not at column 0.
LEMMA SearchFound ==
  ASSUME IInv, pc \in {"cancel", "sign"}
  PROVE  /\ k \in Nat
         /\ privL \in 0 .. k
         /\ flag => privL > 0
         /\ privL # k => k > 0
<1>1. lFound /\ Searched(-1) /\ 0 \in rsmall /\ k \in Nat
  BY DEF IInv, SearchInv, Column
<1>2. privL \in 0 .. k /\ (flag <=> privL \notin rsmall)
  BY <1>1 DEF Searched
<1> QED
  BY <1>1, <1>2

LEMMA MaskedType ==
  ASSUME TypeOK, NEW modify, NEW z, NEW o, Masked(modify, z, o),
         modify => z \subseteq Column /\ o \in [kind : S!OpKind, a : Column, b : Column]
  PROVE  zero' \subseteq Column /\ op' \in [kind : S!OpKind, a : Column, b : Column]
BY DEF TypeOK, Masked

LEMMA CancelInv ==
  ASSUME IInv, Cancel
  PROVE  IInv'
<1>1. /\ pc = "cancel" /\ k \in Column /\ k \in Nat /\ i \in 1 .. k /\ k > 0
      /\ i \in Column /\ privL \in 0 .. k /\ (flag => privL > 0) /\ 0 \in zero
  BY SearchFound, ObliviousAssumption DEF IInv, SearchInv, ZeroInv, Cancel, Column
<1>2. /\ UNCHANGED <<k, its, l, flag, lFound, privL, rsmall, wsmall, converged>>
      /\ pc' = (IF i = k THEN "sign" ELSE "cancel")
      /\ i' = (IF i = k THEN 0 ELSE i + 1)
  BY DEF Cancel
<1> DEFINE modify == flag /\ i >= privL /\ ~converged
           z == IF i = privL THEN zero \cup {i} ELSE zero
<1>3. PICK small \in BOOLEAN :
        Masked(modify, z, IF small THEN Op("scale", i, i) ELSE Op("rotate", privL - 1, i))
  BY DEF Cancel
<1>4. zero' \subseteq Column /\ op' \in [kind : S!OpKind, a : Column, b : Column]
  <2>1. z \subseteq Column
    BY <1>1 DEF IInv, TypeOK
  <2>2. ASSUME modify PROVE privL - 1 \in Column
    BY <1>1, <2>2, ObliviousAssumption DEF Column
  <2>3. Op("scale", i, i) \in [kind : S!OpKind, a : Column, b : Column]
    BY <1>1, OpType DEF S!OpKind
  <2>4. modify => Op("rotate", privL - 1, i) \in [kind : S!OpKind, a : Column, b : Column]
    BY <1>1, <2>2, OpType DEF S!OpKind
  <2> HIDE DEF modify, z
  <2> QED
    BY <1>3, <2>1, <2>3, <2>4, MaskedType DEF IInv
<1>5. 0 \in zero'
  BY <1>1, <1>3 DEF Masked
<1>6. i' \in Column /\ (pc' = "cancel" => i' \in 1 .. k)
  BY <1>1, <1>2, ObliviousAssumption DEF Column
<1>7. Searched(-1)'
  BY <1>1, <1>2 DEF IInv, SearchInv, Searched, Splits, S!Splits
<1>8. TypeOK'
  BY <1>2, <1>4, <1>6 DEF IInv, TypeOK
<1>9. ZeroInv'
  BY <1>2, <1>5 DEF ZeroInv
<1>10. SearchInv'
  BY <1>1, <1>2, <1>6, <1>7 DEF IInv, SearchInv
<1> QED
  BY <1>8, <1>9, <1>10 DEF IInv

LEMMA SignInv ==
  ASSUME IInv, Sign
  PROVE  IInv'
<1>1. /\ pc = "sign" /\ k \in Column /\ k \in Nat /\ privL \in 0 .. k /\ 0 \in zero
      /\ privL \in Column /\ k - 1 \in -1 .. NCols - 1 /\ 0 \in 0 .. MaxIts - 1
      /\ (converged => k > 0) /\ 0 \in Column
  BY SearchFound, ObliviousAssumption DEF IInv, TypeOK, SearchInv, ZeroInv, Sign, Column
<1>2. i' = 0 /\ UNCHANGED <<l, flag, lFound, privL, rsmall, wsmall, zero>>
  BY DEF Sign
<1>3. op' \in [kind : S!OpKind, a : Column, b : Column]
  <2>1. /\ Op("sign", k, k) \in [kind : S!OpKind, a : Column, b : Column]
        /\ Op("shift", privL, k) \in [kind : S!OpKind, a : Column, b : Column]
    BY <1>1, OpType DEF S!OpKind
  <2> QED
    BY <2>1 DEF Sign, IInv, TypeOK
<1>4. CASE k = 0
  <2>1. k' = -1 /\ its' = 0 /\ converged' = FALSE /\ pc' = "done"
    BY <1>1, <1>4 DEF Sign, NextColumn
  <2>4. k' \in -1 .. NCols - 1 /\ its' \in 0 .. MaxIts - 1 /\ converged' \in BOOLEAN
    <3>1. converged' \in BOOLEAN
      BY <2>1, Zenon
    <3>2. k' \in -1 .. NCols - 1 /\ its' \in 0 .. MaxIts - 1
      BY <1>1, <1>4, <2>1
    <3> QED
      BY <3>1, <3>2
  <2>2. TypeOK'
    BY <1>1, <1>2, <1>3, <2>1, <2>4 DEF IInv, TypeOK
  <2>3. ZeroInv' /\ SearchInv'
    BY <1>1, <1>2, <2>1 DEF ZeroInv, SearchInv
  <2> QED
    BY <2>2, <2>3 DEF IInv
<1>5. CASE k # 0
  <2>1. /\ converged' = (converged \/ privL = k)
        /\ pc' = "qr" /\ k' = k /\ its' = its
    BY <1>5, Zenon DEF Sign
  <2>5. converged' \in BOOLEAN /\ (~converged' => privL # k) /\ k > 0
    <3>1. converged' \in BOOLEAN /\ (~converged' => privL # k)
      BY <2>1, Zenon
    <3>2. k > 0
      BY <1>1, <1>5
    <3> QED
      BY <3>1, <3>2
  <2>2. TypeOK'
    BY <1>1, <1>2, <1>3, <2>1, <2>5 DEF IInv, TypeOK
  <2>3. ZeroInv'
    BY <1>1, <1>2, <2>1, <2>5 DEF ZeroInv
  <2>4. SearchInv'
    BY <1>1, <1>2, <2>1, <2>5 DEF IInv, SearchInv
  <2> QED
    BY <2>2, <2>3, <2>4 DEF IInv
<1> QED
  BY <1>4, <1>5

LEMMA SweepInv ==
  ASSUME IInv, Sweep
  PROVE  IInv'
<1>1. /\ pc = "qr" /\ k \in Column /\ k \in Nat /\ k > 0 /\ i \in 0 .. k - 1
      /\ i \in Column /\ i + 1 \in Column
      /\ (~converged => privL \in 0 .. k - 1)
  BY ObliviousAssumption DEF IInv, SearchInv, Sweep, Column
<1>2. /\ UNCHANGED <<k, its, l, flag, lFound, privL, rsmall, wsmall, converged>>
      /\ pc' = (IF i + 1 = k THEN "finish" ELSE "qr")
      /\ i' = i + 1
      /\ Masked(i >= privL /\ ~converged, zero \ {i}, Op("qr", i, i + 1))
  BY DEF Sweep
<1>3. zero' \subseteq Column /\ op' \in [kind : S!OpKind, a : Column, b : Column]
  <2>1. Op("qr", i, i + 1) \in [kind : S!OpKind, a : Column, b : Column]
    BY <1>1, OpType DEF S!OpKind
  <2> QED
    BY <1>2, <2>1, MaskedType DEF IInv, TypeOK
<1>4. ZeroInv'
  <2>1. CASE converged
    BY <1>1, <1>2, <2>1 DEF IInv, ZeroInv, Masked
  <2>2. CASE ~converged /\ privL # 0
    BY <1>1, <1>2, <2>2 DEF IInv, ZeroInv, Masked
  <2>3. CASE ~converged /\ privL = 0
    BY <1>2, <2>3 DEF ZeroInv
  <2> QED
    BY <2>1, <2>2, <2>3
<1>5. TypeOK'
  BY <1>1, <1>2, <1>3 DEF IInv, TypeOK
<1>6. SearchInv'
  BY <1>1, <1>2 DEF IInv, SearchInv
<1> QED
  BY <1>4, <1>5, <1>6 DEF IInv

LEMMA FinishInv ==
  ASSUME IInv, Finish
  PROVE  IInv'
<1>1. /\ pc = "finish" /\ k \in Column /\ k \in Nat /\ k > 0 /\ 0 \in Column
      /\ (~converged => privL \in 0 .. k - 1) /\ its \in 0 .. MaxIts - 1
      /\ k - 1 \in Column /\ privL \in Column
  BY ObliviousAssumption DEF IInv, TypeOK, SearchInv, Finish, Column
<1>2. /\ Masked(~converged, (zero \cup {privL}) \ {k}, Op("finish", privL, k))
      /\ i' = 0 /\ UNCHANGED <<l, flag, lFound, privL, rsmall, wsmall>>
  BY DEF Finish
<1>3. zero' \subseteq Column /\ op' \in [kind : S!OpKind, a : Column, b : Column]
  <2>1. Op("finish", privL, k) \in [kind : S!OpKind, a : Column, b : Column]
    BY <1>1, OpType DEF S!OpKind
  <2>2. (zero \cup {privL}) \ {k} \subseteq Column
    BY <1>1 DEF IInv, TypeOK
  <2> QED
    BY <1>2, <2>1, <2>2, MaskedType DEF IInv
<1>4. 0 \in zero'
  BY <1>1, <1>2 DEF IInv, ZeroInv, Masked
<1>5. /\ pc' = "begin" /\ k' \in Column /\ its' \in 0 .. MaxIts - 1
      /\ converged' \in BOOLEAN /\ (converged' => k' > 0)
  <2>1. CASE its + 1 = MaxIts
    <3>1. NextColumn
      BY <2>1, Zenon DEF Finish
    <3>2. converged' \in BOOLEAN /\ (converged' => k' > 0)
      BY <3>1, Zenon DEF NextColumn
    <3>3. pc' = "begin" /\ k' \in Column /\ its' \in 0 .. MaxIts - 1
      BY <1>1, <3>1, ObliviousAssumption DEF NextColumn
    <3> QED
      BY <3>2, <3>3
  <2>2. CASE its + 1 # MaxIts
    <3>1. k' = k /\ its' = its + 1 /\ pc' = "begin" /\ converged' = converged
      BY <2>2, Zenon DEF Finish
    <3>2. converged' \in BOOLEAN /\ (converged' => k' > 0)
      BY <1>1, <3>1, Zenon DEF IInv, TypeOK
    <3>3. its' \in 0 .. MaxIts - 1
      BY <1>1, <2>2, <3>1, ObliviousAssumption
    <3> QED
      BY <1>1, <3>1, <3>2, <3>3
  <2> QED
    BY <2>1, <2>2
<1>6. TypeOK'
  BY <1>1, <1>2, <1>3, <1>5, ObliviousAssumption DEF IInv, TypeOK, Column
<1>7. ZeroInv' /\ SearchInv'
  BY <1>2, <1>4, <1>5 DEF ZeroInv, SearchInv
<1> QED
  BY <1>6, <1>7 DEF IInv

LEMMA NextInv == IInv /\ [Next]_vars => IInv'
<1>1. ASSUME IInv, UNCHANGED vars PROVE IInv'
  BY <1>1 DEF vars, IInv, TypeOK, ZeroInv, SearchInv, Searched, Splits, S!Splits
<1> QED
  BY <1>1, BeginInv, SearchStepInv, CancelInv, SignInv, SweepInv, FinishInv DEF Next

\* Every variable has its type and the public loops stay in their bounds.
THEOREM ObliviousTypeOK == Spec => []TypeOK
<1>1. IInv => TypeOK
  BY DEF IInv
<1> QED
  BY <1>1, InitInv, NextInv, PTL DEF Spec

----------------------------------------------------------------------------
(* The refinement.                                                         *)

\* Svd's state outside its iterations, and inside one.
LEMMA ViewBetween ==
  ASSUME Between, pc # "done"
  PROVE  SvdPc = "split" /\ SvdL = 0 /\ SvdFlag = FALSE /\ SvdI = 0
BY DEF SvdPc, SvdL, SvdFlag, SvdI

LEMMA ViewInside ==
  ASSUME ~converged, pc \in {"cancel", "sign", "qr", "finish"}, flag \in BOOLEAN
  PROVE  /\ ~Between /\ SvdK = k /\ SvdIts = its /\ SvdL = privL /\ SvdFlag = flag
         /\ SvdPc = IF pc = "sign" \/ (pc = "cancel" /\ ~flag) THEN "converge" ELSE pc
         /\ SvdI = IF SvdPc = "converge" THEN 0 ELSE IF i < privL THEN privL ELSE i
BY DEF Between, SvdK, SvdIts, SvdL, SvdFlag, SvdPc, SvdI

\* A turn outside Svd's iterations that keeps k and its is a stutter; in
\* particular every turn of an iteration after convergence.
LEMMA BetweenStutters ==
  ASSUME Between, Between', pc # "done", pc' # "done",
         UNCHANGED <<SvdK, SvdIts, zero, op>>
  PROVE  UNCHANGED S!vars
<1>1. SvdPc' = "split" /\ SvdL' = 0 /\ SvdFlag' = FALSE /\ SvdI' = 0
  BY DEF SvdPc, SvdL, SvdFlag, SvdI
<1> QED
  BY <1>1, ViewBetween DEF S!vars

LEMMA InitSvd == Init => S!Init
BY DEF Init, S!Init, Between, SvdK, SvdIts, SvdPc, SvdL, SvdFlag, SvdI, Op, S!Op

LEMMA BeginRefines ==
  ASSUME IInv, Begin
  PROVE  UNCHANGED S!vars
<1>1. Between /\ Between' /\ pc # "done" /\ pc' # "done" /\ UNCHANGED <<SvdK, SvdIts, zero, op>>
  BY DEF Begin, Between, SvdK, SvdIts
<1> QED
  BY <1>1, BetweenStutters

LEMMA SearchRefines ==
  ASSUME IInv, Search
  PROVE  [S!Next]_(S!vars)
<1>1. /\ pc = "search" /\ Between /\ UNCHANGED <<k, its, rsmall, wsmall, converged, zero, op>>
      /\ pc' = IF l > 0 THEN "search" ELSE IF k = 0 THEN "sign" ELSE "cancel"
      /\ k \in Nat /\ l \in 0 .. k
  BY DEF Search, Between, IInv, SearchInv, Column
<1>2. IInv'
  BY SearchStepInv
<1>3. CASE l > 0 \/ converged
  <2>1. Between' /\ pc' # "done" /\ UNCHANGED <<SvdK, SvdIts, zero, op>>
    BY <1>1, <1>3 DEF Between, SvdK, SvdIts
  <2> QED
    BY <1>1, <2>1, BetweenStutters
<1>4. CASE l = 0 /\ ~converged
  <2>1. pc' \in {"cancel", "sign"} /\ pc' = (IF k = 0 THEN "sign" ELSE "cancel")
    BY <1>1, <1>4
  <2>2. /\ privL' \in 0 .. k /\ Splits(privL')
        /\ \A y \in privL' + 1 .. k : ~Splits(y)
        /\ flag' = (privL' \notin rsmall)
        /\ 0 \in rsmall /\ flag' \in BOOLEAN
    <3>1. lFound' /\ Searched(-1)' /\ 0 \in rsmall' /\ flag' \in BOOLEAN
      BY <1>2, <2>1 DEF IInv, SearchInv, TypeOK
    <3> QED
      BY <1>1, <3>1 DEF Searched, Splits, S!Splits
  <2>3. /\ zero \cap (0 .. k) \subseteq rsmall
        /\ rsmall \in SUBSET (0 .. k) /\ wsmall \in SUBSET (0 .. k)
    BY <1>1 DEF IInv, SearchInv
  <2>4. SvdK = k /\ SvdK' = SvdK /\ SvdIts' = SvdIts /\ SvdPc = "split"
    BY <1>1, <1>4, ViewBetween DEF SvdK, SvdIts
  <2>5. /\ SvdL' = privL' /\ SvdFlag' = flag'
        /\ SvdPc' = (IF flag' THEN "cancel" ELSE "converge")
        /\ SvdI' = (IF flag' THEN privL' ELSE 0)
    <3>1. ~converged'
      BY <1>1, <1>4, Zenon
    <3>2. flag' => privL' > 0 /\ pc' = "cancel"
      <4>1. flag' => privL' # 0
        BY <2>2, Zenon
      <4>2. privL' \in Int /\ 0 <= privL' /\ privL' <= k
        BY <1>1, <2>2
      <4> QED
        BY <1>1, <2>1, <4>1, <4>2
    <3>3. pc' = "cancel" => i' = 1
      BY <1>1, <1>4 DEF Search
    <3>4. /\ SvdL' = privL' /\ (SvdFlag' <=> flag')
          /\ SvdPc' = IF pc' = "sign" \/ (pc' = "cancel" /\ ~flag') THEN "converge" ELSE pc'
          /\ SvdI' = IF SvdPc' = "converge" THEN 0 ELSE IF i' < privL' THEN privL' ELSE i'
      BY <2>1, <3>1 DEF Between, SvdL, SvdFlag, SvdPc, SvdI
    <3>5. SvdFlag' \in BOOLEAN
      BY <2>2, Zenon DEF SvdFlag
    <3>6. SvdFlag' = flag'
      BY <2>2, <3>4, <3>5, Zenon
    <3>7. CASE flag'
      <4>1. SvdPc' = "cancel" /\ SvdI' = privL'
        BY <1>1, <2>2, <3>2, <3>3, <3>4, <3>7
      <4> QED
        BY <3>4, <3>6, <3>7, <4>1, Zenon
    <3>8. CASE ~flag'
      <4>1. SvdPc' = "converge" /\ SvdI' = 0
        BY <2>1, <3>4, <3>8
      <4> QED
        BY <3>4, <3>6, <3>8, <4>1, Zenon
    <3> QED
      BY <3>7, <3>8
  <2>6. S!SplitsAt(privL', rsmall, wsmall)
    BY <2>2, <2>4 DEF S!SplitsAt, Splits
  <2>7. S!Search
    BY <2>2, <2>3, <2>4, <2>5, <2>6 DEF S!Search
  <2>8. S!Split
    BY <1>1, <2>4, <2>7 DEF S!Split, S!SiSL
  <2> QED
    BY <2>8 DEF S!Next
<1> QED
  BY <1>1, <1>3, <1>4

\* A masked turn of an inner loop that Svd has not begun is a stutter.
LEMMA CancelRefines ==
  ASSUME IInv, Cancel, RunsThrough
  PROVE  [S!Next]_(S!vars)
<1>1. /\ pc = "cancel" /\ k \in Nat /\ i \in 1 .. k /\ privL \in 0 .. k /\ flag \in BOOLEAN
      /\ (flag => privL > 0)
  BY SearchFound DEF IInv, TypeOK, SearchInv, Cancel
<1>2. /\ UNCHANGED <<k, its, flag, privL, converged>>
      /\ pc' = (IF i = k THEN "sign" ELSE "cancel")
      /\ i' = (IF i = k THEN 0 ELSE i + 1)
  BY DEF Cancel
<1> DEFINE modify == flag /\ i >= privL /\ ~converged
           z == IF i = privL THEN zero \cup {i} ELSE zero
<1>3. PICK small \in BOOLEAN :
        /\ modify /\ small => i = k
        /\ Masked(modify, z, IF small THEN Op("scale", i, i) ELSE Op("rotate", privL - 1, i))
  BY DEF Cancel, RunsThrough
<1>4. CASE converged
  <2>1. Between /\ Between' /\ pc # "done" /\ pc' # "done"
    BY <1>1, <1>2, <1>4 DEF Between
  <2>2. UNCHANGED <<SvdK, SvdIts, zero, op>>
    BY <1>2, <1>3, <1>4 DEF SvdK, SvdIts, Masked
  <2> QED
    BY <2>1, <2>2, BetweenStutters
<1>5. CASE ~converged
  <2>1. /\ SvdK = k /\ SvdIts = its /\ SvdL = privL /\ SvdFlag = flag
        /\ SvdPc = IF ~flag THEN "converge" ELSE "cancel"
        /\ SvdI = IF SvdPc = "converge" THEN 0 ELSE IF i < privL THEN privL ELSE i
    BY <1>1, <1>5, ViewInside
  <2>2. /\ SvdK' = k /\ SvdIts' = its /\ SvdL' = privL
        /\ SvdPc' = IF i = k \/ ~flag THEN "converge" ELSE "cancel"
        /\ SvdI' = IF SvdPc' = "converge" THEN 0 ELSE IF i' < privL THEN privL ELSE i'
    BY <1>1, <1>2, <1>5 DEF Between, SvdK, SvdIts, SvdL, SvdPc, SvdI
  <2>3. SvdFlag' = SvdFlag
    <3>1. ~converged' /\ pc' \in {"cancel", "sign"}
      BY <1>2, <1>5
    <3>2. ~Between'
      BY <3>1 DEF Between
    <3>3. ~Between
      BY <1>1, <1>5 DEF Between
    <3> QED
      BY <1>2, <3>2, <3>3, Zenon DEF SvdFlag
  <2>4. CASE ~flag \/ i < privL
    <3>1. UNCHANGED <<zero, op>>
      BY <1>1, <1>3, <2>4 DEF Masked
    <3>2. SvdPc' = SvdPc /\ SvdI' = SvdI
      BY <1>1, <1>2, <2>1, <2>2, <2>4
    <3>3. SvdK' = SvdK /\ SvdIts' = SvdIts /\ SvdL' = SvdL
      BY <2>1, <2>2
    <3> QED
      BY <2>3, <3>1, <3>2, <3>3, Zenon DEF S!vars
  <2>5. CASE flag /\ i >= privL
    <3>1. SvdPc = "cancel" /\ SvdI = i
      BY <1>1, <2>1, <2>5
    <3>2. /\ zero' = IF SvdI = SvdL THEN zero \cup {SvdI} ELSE zero
          /\ op' = IF small THEN S!Op("scale", SvdI, SvdI) ELSE S!Op("rotate", SvdL - 1, SvdI)
      BY <1>3, <1>5, <2>1, <2>5, <3>1 DEF Masked, Op, S!Op
    <3>3. /\ small => SvdI = SvdK
          /\ SvdPc' = IF small \/ SvdI = SvdK THEN "converge" ELSE "cancel"
          /\ SvdI' = IF small \/ SvdI = SvdK THEN 0 ELSE SvdI + 1
      BY <1>1, <1>2, <1>3, <1>5, <2>1, <2>2, <2>5, <3>1
    <3>4. UNCHANGED <<"LOOP_LEAK", SvdK, SvdIts, SvdL, SvdFlag>>
      BY <2>1, <2>2, <2>3, Zenon
    <3>5. S!Cancel
      BY <3>1, <3>2, <3>3, <3>4 DEF S!Cancel
    <3> QED
      BY <3>5 DEF S!Next
  <2>6. (~flag \/ i < privL) \/ (flag /\ i >= privL)
    BY <1>1
  <2> QED
    BY <2>4, <2>5, <2>6
<1> QED
  BY <1>4, <1>5

LEMMA SignRefines ==
  ASSUME IInv, Sign
  PROVE  [S!Next]_(S!vars)
<1>1. /\ pc = "sign" /\ k \in Nat /\ privL \in 0 .. k /\ i = 0 /\ flag \in BOOLEAN
      /\ (privL # k => k > 0) /\ (converged => k > 0)
  BY SearchFound DEF IInv, TypeOK, SearchInv, Sign
<1>2. UNCHANGED <<flag, privL, zero>> /\ i' = 0
  BY DEF Sign
<1>3. CASE converged
  <2>1. pc' = "qr" /\ converged' /\ k' = k /\ its' = its /\ op' = op
    <3>1. k # 0
      BY <1>1, <1>3
    <3> QED
      BY <1>3, <3>1, Zenon DEF Sign
  <2>2. Between /\ Between' /\ pc # "done" /\ pc' # "done"
    BY <1>1, <1>3, <2>1 DEF Between
  <2>3. UNCHANGED <<SvdK, SvdIts, zero, op>>
    BY <1>2, <1>3, <2>1 DEF SvdK, SvdIts
  <2> QED
    BY <2>2, <2>3, BetweenStutters
<1>4. CASE ~converged /\ privL = k
  <2>1. SvdK = k /\ SvdL = k /\ SvdPc = "converge"
    BY <1>1, <1>4, ViewInside
  <2>2. op' = S!Op("sign", k, k)
    BY <1>4 DEF Sign, Op, S!Op
  <2>3. /\ Between' /\ SvdK' = k - 1 /\ SvdIts' = 0
        /\ SvdPc' = IF k = 0 THEN "done" ELSE "split"
    <3>1. CASE k = 0
      <4>1. k' = k - 1 /\ its' = 0 /\ ~converged' /\ pc' = "done"
        BY <3>1 DEF Sign, NextColumn
      <4> QED
        BY <3>1, <4>1 DEF Between, SvdK, SvdIts, SvdPc
    <3>2. CASE k # 0
      <4>1. k' = k /\ converged' /\ pc' = "qr"
        BY <1>4, <3>2 DEF Sign
      <4> QED
        BY <3>2, <4>1 DEF Between, SvdK, SvdIts, SvdPc
    <3> QED
      BY <3>1, <3>2
  <2>4. SvdL' = 0 /\ SvdFlag' = FALSE /\ SvdI' = 0
    BY <2>3, Zenon DEF SvdL, SvdFlag, SvdI
  <2>5. S!Converge
    BY <1>2, <2>1, <2>2, <2>3, <2>4 DEF S!Converge, S!NextColumn, S!Rest
  <2> QED
    BY <2>5 DEF S!Next
<1>5. CASE ~converged /\ privL # k
  <2>1. pc' = "qr" /\ ~converged' /\ k' = k /\ its' = its /\ op' = S!Op("shift", privL, k)
    <3>1. k # 0
      BY <1>1, <1>5
    <3> QED
      BY <1>5, <3>1, Zenon DEF Sign, Op, S!Op
  <2>2. SvdK = k /\ SvdIts = its /\ SvdL = privL /\ SvdFlag = flag /\ SvdPc = "converge"
    BY <1>1, <1>5, ViewInside
  <2>3. /\ ~Between' /\ SvdK' = k /\ SvdIts' = its /\ SvdL' = privL /\ SvdPc' = "qr"
    BY <1>2, <2>1 DEF Between, SvdK, SvdIts, SvdL, SvdPc
  <2>4. SvdI' = privL
    BY <1>1, <1>2, <2>3 DEF SvdI
  <2>5. SvdFlag' = SvdFlag
    <3>1. ~Between
      BY <1>1, <1>5 DEF Between
    <3> QED
      BY <1>2, <2>3, <3>1, Zenon DEF SvdFlag
  <2>6. S!Shift
    <3>1. SvdL # SvdK /\ op' = S!Op("shift", SvdL, SvdK) /\ SvdI' = SvdL
      BY <1>5, <2>1, <2>2, <2>4
    <3>2. UNCHANGED <<"LOOP_LEAK", SvdK, SvdIts, SvdL, SvdFlag, zero>>
      BY <1>2, <2>2, <2>3, <2>5, Zenon
    <3> QED
      BY <2>2, <2>3, <3>1, <3>2, Zenon DEF S!Shift
  <2> QED
    BY <2>6 DEF S!Next
<1> QED
  BY <1>3, <1>4, <1>5

LEMMA SweepRefines ==
  ASSUME IInv, Sweep
  PROVE  [S!Next]_(S!vars)
<1>1. /\ pc = "qr" /\ k \in Nat /\ i \in 0 .. k - 1 /\ privL \in Nat /\ flag \in BOOLEAN
      /\ (~converged => privL \in 0 .. k - 1)
  BY DEF IInv, TypeOK, SearchInv, Sweep, Column
<1>2. /\ UNCHANGED <<k, its, flag, privL, converged>>
      /\ pc' = (IF i + 1 = k THEN "finish" ELSE "qr")
      /\ i' = i + 1
      /\ Masked(i >= privL /\ ~converged, zero \ {i}, Op("qr", i, i + 1))
  BY DEF Sweep
<1>3. CASE converged
  <2>1. Between /\ Between' /\ pc # "done" /\ pc' # "done"
    BY <1>1, <1>2, <1>3 DEF Between
  <2>2. UNCHANGED <<SvdK, SvdIts, zero, op>>
    BY <1>2, <1>3 DEF SvdK, SvdIts, Masked
  <2> QED
    BY <2>1, <2>2, BetweenStutters
<1>4. CASE ~converged
  <2>1. /\ SvdK = k /\ SvdIts = its /\ SvdL = privL /\ SvdPc = "qr"
        /\ SvdI = IF i < privL THEN privL ELSE i
    BY <1>1, <1>4, ViewInside
  <2>2. /\ SvdK' = k /\ SvdIts' = its /\ SvdL' = privL
        /\ SvdPc' = (IF i + 1 = k THEN "finish" ELSE "qr")
        /\ SvdI' = IF i + 1 < privL THEN privL ELSE i + 1
    BY <1>1, <1>2, <1>4 DEF Between, SvdK, SvdIts, SvdL, SvdPc, SvdI
  <2>3. SvdFlag' = SvdFlag
    <3>1. ~converged' /\ pc' \in {"qr", "finish"}
      BY <1>2, <1>4
    <3>2. ~Between' /\ ~Between
      BY <1>1, <1>4, <3>1 DEF Between
    <3> QED
      BY <1>2, <3>2, Zenon DEF SvdFlag
  <2>4. CASE i < privL
    <3>1. UNCHANGED <<zero, op>>
      BY <1>1, <1>2, <2>4 DEF Masked
    <3>2. SvdPc' = SvdPc /\ SvdI' = SvdI /\ SvdK' = SvdK /\ SvdIts' = SvdIts /\ SvdL' = SvdL
      BY <1>1, <1>4, <2>1, <2>2, <2>4
    <3> QED
      BY <2>3, <3>1, <3>2, Zenon DEF S!vars
  <2>5. CASE i >= privL
    <3>1. zero' = zero \ {SvdI} /\ op' = S!Op("qr", SvdI, SvdI + 1)
      BY <1>1, <1>2, <1>4, <2>1, <2>5 DEF Masked, Op, S!Op
    <3>2. SvdPc' = (IF SvdI + 1 = SvdK THEN "finish" ELSE "qr") /\ SvdI' = SvdI + 1
      BY <1>1, <2>1, <2>2, <2>5
    <3>3. UNCHANGED <<"LOOP_LEAK", SvdK, SvdIts, SvdL, SvdFlag>>
      BY <2>1, <2>2, <2>3, Zenon
    <3>4. S!Sweep
      BY <2>1, <3>1, <3>2, <3>3, Zenon DEF S!Sweep
    <3> QED
      BY <3>4 DEF S!Next
  <2> QED
    BY <1>1, <2>4, <2>5
<1> QED
  BY <1>3, <1>4

LEMMA FinishRefines ==
  ASSUME IInv, Finish
  PROVE  [S!Next]_(S!vars)
<1>1. /\ pc = "finish" /\ k \in Nat /\ k > 0 /\ flag \in BOOLEAN
  BY DEF IInv, TypeOK, SearchInv, Finish, Column
<1>2. /\ Masked(~converged, (zero \cup {privL}) \ {k}, Op("finish", privL, k))
      /\ pc' = "begin"
  BY <1>1 DEF Finish, NextColumn
<1>3. its + 1 = MaxIts => k' = k - 1 /\ its' = 0 /\ ~converged'
  BY DEF Finish, NextColumn
<1>4. its + 1 # MaxIts => k' = k /\ its' = its + 1 /\ (converged' <=> converged)
  BY DEF Finish
<1>5. Between' /\ pc' # "done"
  BY <1>2 DEF Between
<1>6. CASE converged
  <2>1. Between /\ pc # "done"
    BY <1>1, <1>6 DEF Between
  <2>2. UNCHANGED <<zero, op>>
    BY <1>2, <1>6 DEF Masked
  <2>3. SvdK' = SvdK /\ SvdIts' = SvdIts
    BY <1>3, <1>4, <1>6 DEF SvdK, SvdIts
  <2> QED
    BY <1>5, <2>1, <2>2, <2>3, BetweenStutters
<1>7. CASE ~converged
  <2>1. SvdK = k /\ SvdIts = its /\ SvdL = privL /\ SvdPc = "finish"
    BY <1>1, <1>7, ViewInside
  <2>2. zero' = (zero \cup {SvdL}) \ {SvdK} /\ op' = S!Op("finish", SvdL, SvdK)
    BY <1>2, <1>7, <2>1 DEF Masked, Op, S!Op
  <2>3. SvdPc' = "split" /\ S!Rest
    BY <1>5, Zenon DEF SvdPc, SvdL, SvdFlag, SvdI, S!Rest
  <2>4. S!NextIteration
    <3>1. CASE its + 1 = MaxIts
      <4>1. SvdK' = SvdK - 1 /\ SvdIts' = 0
        BY <1>3, <2>1, <3>1 DEF SvdK, SvdIts
      <4> QED
        BY <1>1, <2>1, <2>3, <3>1, <4>1 DEF S!NextIteration, S!NextColumn
    <3>2. CASE its + 1 # MaxIts
      <4>1. SvdK' = SvdK /\ SvdIts' = SvdIts + 1
        BY <1>4, <1>7, <2>1, <3>2 DEF SvdK, SvdIts
      <4> QED
        BY <2>1, <2>3, <3>2, <4>1 DEF S!NextIteration
    <3> QED
      BY <3>1, <3>2
  <2>5. S!Finish
    BY <2>1, <2>2, <2>4 DEF S!Finish
  <2> QED
    BY <2>5 DEF S!Next
<1> QED
  BY <1>6, <1>7

LEMMA NextSvd ==
  ASSUME RunsThrough
  PROVE  IInv /\ [Next]_vars => [S!Next]_(S!vars)
<1>1. ASSUME UNCHANGED vars PROVE UNCHANGED S!vars
  BY <1>1, Zenon DEF vars, S!vars, Between, SvdK, SvdIts, SvdPc, SvdL, SvdFlag, SvdI
<1> QED
  BY <1>1, BeginRefines, SearchRefines, CancelRefines, SignRefines, SweepRefines, FinishRefines
  DEF Next

\* The data-oblivious build writes what the build that stops early writes, in
\* the same order, and nothing else, as long as no cancellation ends early.
THEOREM ObliviousIsSvd ==
  ASSUME RunsThrough
  PROVE  Spec => IsSvd
<1>1. IInv /\ [Next]_vars => [S!Next]_(S!vars)
  BY NextSvd
<1> QED
  BY <1>1, InitInv, NextInv, InitSvd, PTL DEF Spec, IsSvd, S!Spec
=============================================================================
