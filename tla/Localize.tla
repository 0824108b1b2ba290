------------------------------ MODULE Localize ------------------------------
(***************************************************************************)
(* The optimization loops of the repository: BuildLM and BuildGaussNewton  *)
(* on EMP, BuildAndRunLM and BuildAndRunGaussNewton on ABY, and the        *)
(* cleartext lm and gaussNewton they are tested against.  A behaviour is   *)
(* one run of one of them.                                                 *)
(*                                                                         *)
(* What an iteration computes from the pose and lambda is only visible as  *)
(* the norm of its step, any level of Norm; a pose is the sequence of the  *)
(* steps that led to it.  Norms that are not numbers are not modelled.     *)
(***************************************************************************)
EXTENDS Integers, Sequences

CONSTANTS MaxItr, Norm, MinEr, Huge, LambdaInit, LambdaMax,
          Programs   \* the programs a behaviour may run

DO == "DO"
LOOP_LEAK == "LOOP_LEAK"

\* impl: who; method: lm or gn; flow: PPL_FLOW (SiSL runs as LOOP_LEAK here).
Program == [impl : {"cleartext", "emp", "aby"}, method : {"lm", "gn"},
            flow : {DO, LOOP_LEAK}]

ASSUME LocalizeAssumption ==
  /\ MaxItr \in Nat \ {0}
  /\ Norm \subseteq Nat
  /\ MinEr \in Nat
  /\ Huge \in Nat
  /\ MinEr < Huge
  /\ \A e \in Norm : e < Huge
  /\ LambdaMax \in Nat
  /\ LambdaInit \in 0 .. LambdaMax
  /\ Programs \subseteq Program

VARIABLES
  prog,    \* the program that runs
  i,       \* the loop's counter
  lambda,  \* in decades above LM_LAMBDA_MIN
  prev,    \* prevErrNorm, the norm before the last
  err,     \* the norm of the last step
  steps,   \* what was added to the pose, oldest first
  pc       \* "loop", or how the loop ended: "broke", "exhausted", "failed"

vars == <<prog, i, lambda, prev, err, steps, pc>>

Oblivious == prog.flow = DO
Damped == prog.method = "lm"
Clear == prog.impl = "cleartext"

Init ==
  /\ prog \in Programs
  /\ i = 0
  /\ lambda = LambdaInit
  /\ prev = Huge
  /\ err = Huge
  /\ steps = << >>
  /\ pc = "loop"

----------------------------------------------------------------------------
(* The pieces of an iteration.                                             *)

\* LM_LAMBDA_MAX first, then LM_LAMBDA_MIN.
\* Mutant: the upper bound is tested before the change.
ClampLate(l) == IF l < 0 THEN 0 ELSE IF l > LambdaMax + 1 THEN LambdaMax ELSE l
Clamp(l) ==
  LET top == IF LambdaMax < l THEN LambdaMax ELSE l
  IN  IF top < 0 THEN 0 ELSE top

\* lambda / 10 when the error went down, lambda * 10 when not.
Damp(down) == lambda' = Clamp(IF down THEN lambda - 1 ELSE lambda + 1)

\* x = x + dx, with all of dx or with some bits of it cleared.
Move(e, part) == steps' = Append(steps, [lambda |-> lambda, norm |-> e, dx |-> part])
Stay == steps' = steps

GoOn == i' = i + 1 /\ UNCHANGED pc
Break == pc' = "broke" /\ UNCHANGED i

----------------------------------------------------------------------------
(* One iteration of each program; e is the norm of its step.               *)

\* Mutant: the error is compared with itself.
CleartextLMStale(e) ==
  /\ Damp(~(e > prev))
  /\ Move(e, "whole")
  /\ IF e < MinEr THEN Break ELSE GoOn
CleartextLM(e) ==
  /\ Damp(~(e > err))
  /\ Move(e, "whole")
  /\ IF e < MinEr THEN Break ELSE GoOn

\* The cleartext Gauss-Newton breaks before it would move.
CleartextGN(e) ==
  /\ IF e < MinEr THEN Break /\ Stay ELSE GoOn /\ Move(e, "whole")
  /\ UNCHANGED lambda

\* BuildLM: the test that ends the loop looks at the norm before this one.
EmpLM(e) ==
  /\ Damp(e < err)
  /\ IF Oblivious /\ ~(MinEr < e) THEN Stay ELSE Move(e, "whole")
  /\ IF ~Oblivious /\ err < MinEr THEN Break ELSE GoOn

\* BuildGaussNewton: the oblivious flow clears bit i of each word of dx
\* unless the error is under the threshold.
EmpGN(e) ==
  /\ Move(e, IF Oblivious /\ ~(e < MinEr) THEN "bit i cleared" ELSE "whole")
  /\ IF ~Oblivious /\ e < MinEr THEN Break ELSE GoOn
  /\ UNCHANGED lambda

\* PutMUXGate(a, b, s) is a when s: the oblivious flow keeps dx when the
\* error is under the threshold.
AbyMove(e) == IF Oblivious /\ ~(MinEr > e) THEN Stay ELSE Move(e, "whole")
AbyEnd(e) == IF ~Oblivious /\ MinEr > e THEN Break ELSE GoOn
AbyLM(e) == Damp(err > e) /\ AbyMove(e) /\ AbyEnd(e)
AbyGN(e) == AbyMove(e) /\ AbyEnd(e) /\ UNCHANGED lambda

Runs(impl, method) == prog.impl = impl /\ prog.method = method

Iterate ==
  /\ pc = "loop"
  /\ i < MaxItr
  /\ \E e \in Norm :
       /\ prev' = err
       /\ err' = e
       /\ \/ Runs("cleartext", "lm") /\ CleartextLM(e)
          \/ Runs("cleartext", "gn") /\ CleartextGN(e)
          \/ Runs("emp", "lm") /\ EmpLM(e)
          \/ Runs("emp", "gn") /\ EmpGN(e)
          \/ Runs("aby", "lm") /\ AbyLM(e)
          \/ Runs("aby", "gn") /\ AbyGN(e)
  /\ UNCHANGED prog

\* myinvert of a cleartext program fails, as svdcmp finds no convergence in
\* thirty iterations or too few rows.  The program returns at once, and x is not
\* copied back.
InverseFails ==
  /\ pc = "loop"
  /\ i < MaxItr
  /\ Clear
  /\ pc' = "failed"
  /\ steps' = << >>
  /\ UNCHANGED <<prog, i, lambda, prev, err>>

LoopEnds ==
  /\ pc = "loop"
  /\ i = MaxItr
  /\ pc' = "exhausted"
  /\ UNCHANGED <<prog, i, lambda, prev, err, steps>>

Next == Iterate \/ InverseFails \/ LoopEnds
Spec == Init /\ [][Next]_vars

----------------------------------------------------------------------------
(* Properties.                                                             *)

StepRecord == [lambda : 0 .. LambdaMax, norm : Norm, dx : {"whole", "bit i cleared"}]

\* Every variable has its type; lambda never leaves its bounds.
TypeOK ==
  /\ prog \in Programs
  /\ i \in 0 .. MaxItr
  /\ lambda \in 0 .. LambdaMax
  /\ prev \in Norm \cup {Huge}
  /\ err \in Norm \cup {Huge}
  /\ steps \in Seq(StepRecord)
  /\ pc \in {"loop", "broke", "exhausted", "failed"}

\* BuildLM runs one iteration more than it needs: seen as a Descent, it
\* stopped before that iteration, as soon as there was a small norm to see.
Surplus == Runs("emp", "lm") /\ pc = "broke"
SeesStop == Runs("emp", "lm") /\ ~Oblivious /\ err < MinEr

Tries == IF pc = "broke" /\ ~Surplus THEN i + 1 ELSE i
Damping == IF Surplus THEN steps[Len(steps)].lambda ELSE lambda
LastErr == IF Surplus THEN prev ELSE err
Taken == IF Surplus THEN SubSeq(steps, 1, Len(steps) - 1) ELSE steps
Status == IF pc = "broke" \/ SeesStop THEN "converged"
          ELSE IF pc = "loop" THEN "running"
          ELSE IF pc = "failed" THEN "failed" ELSE "gaveUp"

D == INSTANCE Descent WITH
       damped <- Damped,
       oblivious <- Oblivious,
       clear <- Clear,
       tries <- Tries,
       lambda <- Damping,
       err <- LastErr,
       steps <- Taken,
       status <- Status

\* The programs that are descents: all but the oblivious ones that mask the
\* step with the wrong polarity.
Descents == {p \in Program : p.flow = LOOP_LEAK \/ (p.impl = "emp" /\ p.method = "lm")}

\* Each of these programs is a descent: EMP, ABY and cleartext stop at the
\* same norms, damp alike and take the same steps, but for the surplus
\* iteration of BuildLM, for the last small step, for ties, and for the failed
\* inverse that only the cleartext ones know.
IsDescent == D!Spec

\* "set dx to zero if no error": an oblivious iteration changes the pose by
\* the whole step unless the norm is under the threshold, and then not at all.
ZeroStepIffNoError ==
  [][Oblivious /\ i' # i =>
       /\ err' > MinEr => steps' = Append(steps, [lambda |-> lambda, norm |-> err', dx |-> "whole"])
       /\ err' < MinEr => steps' = steps]_vars

\* Mutant: the bound of the report is off by one.
ResultOffByOne == [converged |-> i + 1 < MaxItr, count |-> i + 1]
\* What BuildLM and BuildGaussNewton return: {i < MAX_ITR, i + 1}.
Result == [converged |-> i < MaxItr, count |-> i + 1]

\* The convergence lm_server reports is real: a loop that reports it saw a
\* norm under the threshold, and one that does not saw none it acted on.
ReportIsRight ==
  prog.flow = LOOP_LEAK /\ prog.impl = "emp" /\ pc # "loop" =>
    IF Result.converged
    THEN (IF Damped THEN prev ELSE err) < MinEr
    ELSE \A n \in 1 .. Len(steps) - 1 : steps[n].norm >= MinEr
=============================================================================
