--------------------------- MODULE LocalizeProofs ---------------------------
(***************************************************************************)
(* Proofs about Localize, for any bounds, any levels of norms and any set  *)
(* of programs: the type invariant (with the bounds of lambda), that the   *)
(* report is right, and that the programs in Descents implement Descent.   *)
(***************************************************************************)
EXTENDS Localize, SequenceTheorems, TLAPS

\* A program that does not implement a mask with the wrong polarity.
OnlyDescents == Programs \subseteq Descents

LEMMA ClampType == \A n \in Int : Clamp(n) \in 0 .. LambdaMax
BY LocalizeAssumption DEF Clamp

\* The clamp of Localize is the clamp of Descent.
LEMMA ClampIsClamp == \A n \in Int : Clamp(n) = D!Clamp(n)
BY LocalizeAssumption DEF Clamp, D!Clamp

LEMMA DampType ==
  ASSUME TypeOK, NEW down \in BOOLEAN, Damp(down)
  PROVE  lambda' \in 0 .. LambdaMax
<1>1. lambda - 1 \in Int /\ lambda + 1 \in Int
  BY LocalizeAssumption DEF TypeOK
<1> QED
  BY <1>1, ClampType DEF Damp

LEMMA MoveType ==
  ASSUME TypeOK, NEW e \in Norm, NEW part \in {"whole", "bit i cleared"}, Move(e, part)
  PROVE  steps' \in Seq(StepRecord)
<1>1. [lambda |-> lambda, norm |-> e, dx |-> part] \in StepRecord
  BY DEF TypeOK, StepRecord
<1> QED
  BY <1>1, AppendProperties DEF TypeOK, Move

LEMMA InitType == Init => TypeOK
BY LocalizeAssumption DEF Init, TypeOK

----------------------------------------------------------------------------
(* What all six programs have in common.                                   *)

\* An iteration either goes on or breaks, keeps lambda and the steps in
\* their types, and moves once or not at all.
LEMMA IterateType ==
  ASSUME TypeOK, Iterate
  PROVE  TypeOK'
<1>1. PICK e \in Norm :
        /\ prev' = err
        /\ err' = e
        /\ \/ Runs("cleartext", "lm") /\ CleartextLM(e)
           \/ Runs("cleartext", "gn") /\ CleartextGN(e)
           \/ Runs("emp", "lm") /\ EmpLM(e)
           \/ Runs("emp", "gn") /\ EmpGN(e)
           \/ Runs("aby", "lm") /\ AbyLM(e)
           \/ Runs("aby", "gn") /\ AbyGN(e)
  BY DEF Iterate
<1>2. prev' \in Norm \cup {Huge} /\ err' \in Norm \cup {Huge} /\ prog' \in Programs
  BY <1>1 DEF Iterate, TypeOK
<1>3. lambda' \in 0 .. LambdaMax
  <2>1. Damp(TRUE) \/ Damp(FALSE) \/ UNCHANGED lambda
    BY <1>1 DEF CleartextLM, CleartextGN, EmpLM, EmpGN, AbyLM, AbyGN, Damp
  <2> QED
    BY <2>1, DampType DEF TypeOK
<1>4. steps' \in Seq(StepRecord)
  <2>1. \/ Move(e, "whole")
        \/ Move(e, "bit i cleared")
        \/ Stay
    BY <1>1 DEF CleartextLM, CleartextGN, EmpLM, EmpGN, AbyLM, AbyGN, AbyMove
  <2> QED
    BY <2>1, MoveType DEF TypeOK, Stay
<1>5. GoOn \/ Break
  BY <1>1 DEF CleartextLM, CleartextGN, EmpLM, EmpGN, AbyLM, AbyGN, AbyEnd
<1>6. i' \in 0 .. MaxItr /\ pc' \in {"loop", "broke", "exhausted"}
  BY <1>5, LocalizeAssumption DEF Iterate, TypeOK, GoOn, Break
<1> QED
  BY <1>2, <1>3, <1>4, <1>6 DEF TypeOK

LEMMA NextType == TypeOK /\ [Next]_vars => TypeOK'
<1> SUFFICES ASSUME TypeOK, [Next]_vars
             PROVE  TypeOK'
  OBVIOUS
<1>1. CASE Iterate
  BY <1>1, IterateType
<1>2. CASE LoopEnds
  BY <1>2 DEF LoopEnds, TypeOK
<1>3. CASE UNCHANGED vars
  BY <1>3 DEF vars, TypeOK
<1>4. CASE InverseFails
  <2>1. << >> \in Seq(StepRecord)
    BY EmptySeq
  <2> QED
    BY <1>4, <2>1 DEF InverseFails, TypeOK
<1> QED
  BY <1>1, <1>2, <1>3, <1>4 DEF Next

\* Every variable of the loops has its type; lambda stays in its bounds.
THEOREM LocalizeTypeOK == Spec => []TypeOK
<1>1. Init => TypeOK
  BY InitType
<1> QED
  BY <1>1, NextType, PTL DEF Spec

----------------------------------------------------------------------------
(* The report.                                                             *)

EmpLeaky == prog.flow = LOOP_LEAK /\ prog.impl = "emp"

\* How the report comes about: a loop that broke saw a small norm, the one
\* before the last in LM and the last in GN; one that runs acted on none.
ReportInv ==
  EmpLeaky =>
    /\ pc = "broke" => i < MaxItr /\ (IF Damped THEN prev ELSE err) < MinEr
    /\ pc = "exhausted" => i = MaxItr
    /\ pc # "failed"
    /\ pc # "broke" => \A n \in 1 .. Len(steps) - 1 : steps[n].norm >= MinEr
    /\ Len(steps) > 0 => steps[Len(steps)].norm = err
    /\ pc # "broke" /\ ~Damped => err >= MinEr

LEMMA InitReport == Init => ReportInv
BY LocalizeAssumption DEF Init, ReportInv

\* Every iteration of a leaky EMP loop takes its whole step.
LEMMA EmpMoves ==
  ASSUME TypeOK, ReportInv, EmpLeaky, NEW e \in Norm, Move(e, "whole"),
         pc = "loop", Damped => err >= MinEr
  PROVE  /\ Len(steps') = Len(steps) + 1
         /\ steps'[Len(steps')].norm = e
         /\ \A n \in 1 .. Len(steps') - 1 : steps'[n].norm >= MinEr
<1> DEFINE r == [lambda |-> lambda, norm |-> e, dx |-> "whole"]
<1>1. steps \in Seq(StepRecord) /\ r \in StepRecord
  BY DEF TypeOK, StepRecord
<1>2. steps' = Append(steps, r)
  BY DEF Move
<1>3. /\ Len(steps') = Len(steps) + 1
      /\ \A n \in 1 .. Len(steps) : steps'[n] = steps[n]
      /\ steps'[Len(steps) + 1] = r
  BY <1>1, <1>2, AppendProperties
<1>4. Len(steps) \in Nat
  BY <1>1, LenProperties
<1>5. \A n \in 1 .. Len(steps) : steps[n].norm >= MinEr
  BY <1>4 DEF ReportInv
<1> QED
  BY <1>3, <1>4, <1>5

LEMMA EmpSteps ==
  ASSUME TypeOK, ReportInv, EmpLeaky, Iterate
  PROVE  ReportInv'
<1>1. PICK e \in Norm :
        /\ prev' = err /\ err' = e
        /\ \/ Damped /\ EmpLM(e)
           \/ ~Damped /\ EmpGN(e)
  BY DEF Iterate, EmpLeaky, Runs, Damped
<1>2. /\ pc = "loop" /\ i \in 0 .. MaxItr /\ i < MaxItr /\ prog' = prog
      /\ e \in Nat /\ MinEr \in Nat /\ MaxItr \in Nat
      /\ err \in Nat /\ prev \in Nat
  BY LocalizeAssumption DEF Iterate, TypeOK
<1>3. ~Oblivious /\ (Damped' <=> Damped) /\ (EmpLeaky' <=> EmpLeaky)
  BY <1>2 DEF EmpLeaky, Oblivious, Damped, LOOP_LEAK, DO
<1>4. Move(e, "whole")
  BY <1>1, <1>3 DEF EmpLM, EmpGN
<1>5. CASE Damped /\ err < MinEr
  <2>1. Break /\ Len(steps') > 0 /\ steps'[Len(steps')].norm = e
    <3>1. Break
      BY <1>1, <1>3, <1>5 DEF EmpLM
    <3>2. [lambda |-> lambda, norm |-> e, dx |-> "whole"] \in StepRecord /\ steps \in Seq(StepRecord)
      BY DEF TypeOK, StepRecord
    <3> QED
      BY <1>4, <3>1, <3>2, AppendProperties, LenProperties DEF Move
  <2> QED
    BY <2>1, <1>1, <1>2, <1>3, <1>5 DEF ReportInv, Break
<1>6. CASE ~(Damped /\ err < MinEr)
  <2>1. Damped => err >= MinEr
    BY <1>2, <1>6
  <2>2. /\ Len(steps') = Len(steps) + 1
        /\ steps'[Len(steps')].norm = e
        /\ \A n \in 1 .. Len(steps') - 1 : steps'[n].norm >= MinEr
    BY <2>1, <1>2, <1>4, EmpMoves
  <2>3. IF ~Damped /\ e < MinEr THEN Break ELSE GoOn
    BY <1>1, <1>2, <1>3, <1>6 DEF EmpLM, EmpGN
  <2> QED
    BY <2>2, <2>3, <1>1, <1>2, <1>3 DEF ReportInv, Break, GoOn
<1> QED
  BY <1>5, <1>6

LEMMA NextReport == TypeOK /\ ReportInv /\ [Next]_vars => ReportInv'
<1> SUFFICES ASSUME TypeOK, ReportInv, [Next]_vars
             PROVE  ReportInv'
  OBVIOUS
<1>1. prog' = prog
  BY DEF Next, Iterate, InverseFails, LoopEnds, vars
<1>2. CASE ~EmpLeaky
  BY <1>1, <1>2 DEF ReportInv, EmpLeaky
<1>3. CASE EmpLeaky /\ Iterate
  BY <1>3, EmpSteps
<1>4. CASE LoopEnds
  BY <1>4 DEF LoopEnds, ReportInv, EmpLeaky, Damped
<1>5. CASE UNCHANGED vars
  BY <1>5 DEF vars, ReportInv, EmpLeaky, Damped
<1>6. InverseFails => ~EmpLeaky
  BY DEF InverseFails, Clear, EmpLeaky
<1> QED
  BY <1>2, <1>3, <1>4, <1>5, <1>6 DEF Next

\* The convergence that EMP's optimizers report is real.
THEOREM LocalizeReportIsRight == Spec => []ReportIsRight
<1>1. ASSUME TypeOK, ReportInv
      PROVE  ReportIsRight
  <2> SUFFICES ASSUME EmpLeaky, pc # "loop"
               PROVE  IF Result.converged
                      THEN (IF Damped THEN prev ELSE err) < MinEr
                      ELSE \A n \in 1 .. Len(steps) - 1 : steps[n].norm >= MinEr
    BY DEF ReportIsRight, EmpLeaky
  <2>1. Result.converged = (i < MaxItr)
    BY DEF Result
  <2>2. CASE pc = "broke"
    BY <1>1, <2>1, <2>2 DEF ReportInv
  <2>3. CASE pc = "exhausted"
    <3>1. ~(i < MaxItr)
      BY <1>1, <2>3, LocalizeAssumption DEF ReportInv
    <3> QED
      BY <1>1, <2>1, <2>3, <3>1 DEF ReportInv
  <2> QED
    BY <1>1, <2>2, <2>3 DEF TypeOK, ReportInv
<1> QED
  BY <1>1, InitType, InitReport, NextType, NextReport, PTL DEF Spec

----------------------------------------------------------------------------
(* The refinement.                                                         *)

\* The oblivious program of Descents is EMP's Levenberg-Marquardt.
LEMMA DescentPrograms ==
  ASSUME OnlyDescents, TypeOK
  PROVE  /\ prog \in Program
         /\ Oblivious => Runs("emp", "lm")
BY LocalizeAssumption DEF OnlyDescents, Descents, Program, TypeOK, Oblivious, Runs, DO, LOOP_LEAK

LEMMA InitDescent == Init => D!Init
BY LocalizeAssumption DEF Init, D!Init, Damped, Oblivious, Clear, Tries, Damping, LastErr, Taken,
   Status, Surplus, SeesStop

\* A change of lambda is one of Descent: down when the norm fell, up when it
\* rose, and either on a tie.
LEMMA DampIsNextLambda ==
  ASSUME TypeOK, NEW e \in Norm, NEW down \in BOOLEAN, Damp(down), Damped,
         Damping = lambda, Damping' = lambda', LastErr = err,
         e < err => down, e > err => ~down
  PROVE  D!NextLambda(e)
<1>1. lambda - 1 \in Int /\ lambda + 1 \in Int
  BY LocalizeAssumption DEF TypeOK
<1>2. down => lambda' = D!Fall
  BY <1>1, ClampIsClamp DEF Damp, D!Fall
<1>3. ~down => lambda' = D!Rise
  BY <1>1, ClampIsClamp DEF Damp, D!Rise
<1> QED
  BY <1>2, <1>3 DEF D!NextLambda

\* An iteration of a descent that has not seen its stop is a try.
LEMMA IterateIsTry ==
  ASSUME OnlyDescents, TypeOK, Iterate, ~SeesStop
  PROVE  D!Try
<1>1. PICK e \in Norm :
        /\ prev' = err
        /\ err' = e
        /\ \/ Runs("cleartext", "lm") /\ CleartextLM(e)
           \/ Runs("cleartext", "gn") /\ CleartextGN(e)
           \/ Runs("emp", "lm") /\ EmpLM(e)
           \/ Runs("emp", "gn") /\ EmpGN(e)
           \/ Runs("aby", "lm") /\ AbyLM(e)
           \/ Runs("aby", "gn") /\ AbyGN(e)
  BY DEF Iterate
<1>2. /\ pc = "loop" /\ i \in Nat /\ i < MaxItr /\ prog' = prog
      /\ e \in Nat /\ err \in Nat /\ MinEr \in Nat
  BY LocalizeAssumption DEF Iterate, TypeOK
<1>3. Tries = i /\ Damping = lambda /\ LastErr = err /\ Taken = steps /\ Status = "running"
  BY <1>2 DEF Tries, Damping, LastErr, Taken, Status, Surplus
<1>4. /\ Damped' = Damped /\ Oblivious' = Oblivious /\ Clear' = Clear
      /\ \A a, b : Runs(a, b)' = Runs(a, b)
  BY <1>2 DEF Damped, Oblivious, Clear, Runs
<1>5. IF Runs("emp", "lm") \/ Oblivious \/ ~(e < MinEr) THEN GoOn ELSE Break
  BY <1>1, <1>2, DescentPrograms DEF SeesStop, Runs, CleartextLM, CleartextGN, EmpLM, EmpGN,
     AbyLM, AbyGN, AbyEnd
<1>6. /\ Tries' = i + 1 /\ Damping' = lambda' /\ LastErr' = e /\ Taken' = steps'
      /\ Status' = IF e < MinEr /\ ~Oblivious THEN "converged" ELSE "running"
  BY <1>1, <1>2, <1>4, <1>5 DEF Tries, Damping, LastErr, Taken, Status, Surplus, SeesStop, GoOn, Break
<1>7. D!NextLambda(e)
  <2>1. CASE Damped
    <3>1. Damp(~(e > err)) \/ Damp(e < err) \/ Damp(err > e)
      BY <1>1, <2>1 DEF Damped, Runs, CleartextLM, EmpLM, AbyLM
    <3>2. (Damp(TRUE) /\ ~(e > err)) \/ (Damp(FALSE) /\ ~(e < err))
      BY <1>2, <3>1 DEF Damp
    <3> QED
      BY <1>3, <1>6, <2>1, <3>2, DampIsNextLambda
  <2>2. CASE ~Damped
    BY <1>1, <1>3, <1>6, <2>2 DEF Damped, Runs, CleartextGN, EmpGN, AbyGN, D!NextLambda
  <2> QED
    BY <2>1, <2>2
<1>8. D!Takes(e)
  <2>1. \/ Move(e, "whole") /\ (Oblivious => e >= MinEr)
        \/ Stay /\ (e < MinEr \/ (Oblivious /\ e = MinEr))
    <3>1. Oblivious => Runs("emp", "lm")
      BY DescentPrograms
    <3>2. CASE Runs("emp", "lm") /\ EmpLM(e)
      BY <1>2, <3>2 DEF EmpLM
    <3>3. CASE Runs("cleartext", "lm") /\ CleartextLM(e)
      BY <3>1, <3>3 DEF CleartextLM, Runs
    <3>4. CASE Runs("cleartext", "gn") /\ CleartextGN(e)
      BY <3>1, <3>4 DEF CleartextGN, Runs
    <3>5. CASE Runs("emp", "gn") /\ EmpGN(e)
      <4>1. ~Oblivious
        BY <3>1, <3>5 DEF Runs
      <4> QED
        BY <3>5, <4>1 DEF EmpGN
    <3>6. CASE prog.impl = "aby" /\ AbyMove(e)
      BY <3>1, <3>6 DEF AbyMove, Runs
    <3> QED
      BY <1>1, <3>2, <3>3, <3>4, <3>5, <3>6 DEF AbyLM, AbyGN, Runs
  <2> QED
    BY <2>1, <1>3, <1>6 DEF Move, Stay, D!Takes, D!Step
<1> QED
  BY <1>1, <1>2, <1>3, <1>4, <1>6, <1>7, <1>8 DEF D!Try

\* The surplus iteration of BuildLM changes nothing that Descent sees.
LEMMA SurplusIsStutter ==
  ASSUME TypeOK, Iterate, SeesStop
  PROVE  UNCHANGED D!dvars
<1>1. PICK e \in Norm : prev' = err /\ EmpLM(e)
  BY DEF Iterate, SeesStop, Runs
<1>2. Break /\ Move(e, "whole") /\ prog' = prog /\ pc = "loop"
  BY <1>1 DEF Iterate, SeesStop, EmpLM
<1>3. ~Surplus /\ Surplus' /\ Status = "converged" /\ Status' = "converged"
  BY <1>2 DEF Surplus, SeesStop, Status, Runs, Break
<1> DEFINE r == [lambda |-> lambda, norm |-> e, dx |-> "whole"]
<1>4. steps \in Seq(StepRecord) /\ r \in StepRecord /\ steps' = Append(steps, r)
  BY <1>2 DEF TypeOK, StepRecord, Move
<1>5. Len(steps') = Len(steps) + 1 /\ steps'[Len(steps')] = r /\ SubSeq(steps', 1, Len(steps') - 1) = steps
  BY <1>4, AppendProperties, LenProperties
<1>6. Damping' = Damping /\ LastErr' = LastErr /\ Taken' = Taken
  BY <1>1, <1>3, <1>5 DEF Damping, LastErr, Taken
<1>7. Tries' = Tries
  BY <1>2, <1>3 DEF Tries, Break
<1> QED
  BY <1>2, <1>3, <1>6, <1>7 DEF D!dvars, Damped, Oblivious, Clear

LEMMA LoopEndsIsGiveUp ==
  ASSUME TypeOK, LoopEnds
  PROVE  D!GiveUp \/ UNCHANGED D!dvars
<1>1. /\ ~Surplus /\ ~Surplus' /\ (SeesStop' <=> SeesStop)
      /\ pc = "loop" /\ pc' = "exhausted" /\ i = MaxItr
  BY DEF LoopEnds, Surplus, SeesStop, Runs, Oblivious
<1>2. Tries = MaxItr /\ UNCHANGED <<Damped, Oblivious, Clear, Tries, Damping, LastErr, Taken>>
  BY <1>1 DEF LoopEnds, Tries, Damping, LastErr, Taken, Damped, Oblivious, Clear
<1>3. CASE SeesStop
  BY <1>1, <1>2, <1>3 DEF Status, D!dvars
<1>4. CASE ~SeesStop
  BY <1>1, <1>2, <1>4 DEF Status, D!GiveUp
<1> QED
  BY <1>3, <1>4

\* The pose of a cleartext program whose inverse fails is as the program found it.
LEMMA InverseFailsIsFail ==
  ASSUME TypeOK, InverseFails
  PROVE  D!Fail
<1>1. /\ ~Runs("emp", "lm") /\ ~Runs("emp", "lm")'
      /\ ~Surplus /\ ~Surplus' /\ ~SeesStop /\ ~SeesStop'
      /\ pc = "loop" /\ pc' = "failed" /\ Clear
  BY DEF InverseFails, Clear, Runs, Surplus, SeesStop
<1>2. Tries = i /\ i < MaxItr /\ Taken' = << >>
  BY <1>1 DEF InverseFails, Tries, Taken
<1>3. UNCHANGED <<Damped, Oblivious, Clear, Tries, Damping, LastErr>>
  BY <1>1 DEF InverseFails, Damped, Oblivious, Clear, Tries, Damping, LastErr
<1>4. Status = "running" /\ Status' = "failed"
  BY <1>1 DEF Status
<1> QED
  BY <1>1, <1>2, <1>3, <1>4 DEF D!Fail

LEMMA NextDescent ==
  ASSUME OnlyDescents
  PROVE  TypeOK /\ [Next]_vars => [D!Next]_(D!dvars)
<1> SUFFICES ASSUME TypeOK, [Next]_vars
             PROVE  [D!Next]_(D!dvars)
  OBVIOUS
<1>1. CASE Iterate /\ SeesStop
  BY <1>1, SurplusIsStutter
<1>2. CASE Iterate /\ ~SeesStop
  BY <1>2, IterateIsTry DEF D!Next
<1>3. CASE LoopEnds
  BY <1>3, LoopEndsIsGiveUp DEF D!Next
<1>4. CASE UNCHANGED vars
  BY <1>4 DEF vars, D!dvars, Tries, Damping, LastErr, Taken, Status, Surplus, SeesStop, Runs,
     Damped, Oblivious, Clear
<1>5. CASE InverseFails
  BY <1>5, InverseFailsIsFail DEF D!Next
<1> QED
  BY <1>1, <1>2, <1>3, <1>4, <1>5 DEF Next

\* EMP's, ABY's and the cleartext loops implement the same descent.
THEOREM LocalizeIsDescent ==
  ASSUME OnlyDescents
  PROVE  Spec => IsDescent
<1>1. TypeOK /\ [Next]_vars => [D!Next]_(D!dvars)
  BY NextDescent
<1> QED
  BY <1>1, InitType, InitDescent, NextType, PTL DEF Spec, IsDescent, D!Spec
=============================================================================
