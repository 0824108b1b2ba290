------------------------------ MODULE Descent ------------------------------
(***************************************************************************)
(* What the pose optimizers promise, whoever runs them: a pose is improved *)
(* by steps; each try computes the norm of the next step from the pose and *)
(* the damping lambda; the damping falls when the norm fell and rises when *)
(* it rose; the optimizer stops at the first norm under MinEr, or after    *)
(* MaxItr tries.  An oblivious optimizer hides the stop: it makes all its  *)
(* tries and stands still at each norm under MinEr.  One that runs in the  *)
(* clear may find a matrix it cannot invert, and leaves the pose as it     *)
(* found it.                                                               *)
(*                                                                         *)
(* Norms are levels, and the damping counts its decades above its minimum. *)
(***************************************************************************)
EXTENDS Integers, Sequences

CONSTANTS MaxItr,     \* LM_MAX_ITR, GN_MAX_ITR
          Norm,       \* the levels of a norm
          MinEr,      \* MIN_ER
          Huge,       \* numeric_limits<float>::max()
          LambdaInit, \* decades of LM_LAMBDA_INIT above LM_LAMBDA_MIN
          LambdaMax   \* decades of LM_LAMBDA_MAX above LM_LAMBDA_MIN

VARIABLES damped,    \* Levenberg-Marquardt, not Gauss-Newton
          oblivious, \* the stop is hidden
          clear,     \* runs in the clear: an inverse may fail
          tries,     \* norms computed
          lambda,    \* the damping of the next try
          err,       \* the norm of the last try
          steps,     \* the steps the pose took
          status

dvars == <<damped, oblivious, clear, tries, lambda, err, steps, status>>

Clamp(l) == IF l > LambdaMax THEN LambdaMax ELSE IF l < 0 THEN 0 ELSE l
Rise == Clamp(lambda + 1)
Fall == Clamp(lambda - 1)

Step(e) == [lambda |-> lambda, norm |-> e, dx |-> "whole"]

Init ==
  /\ damped \in BOOLEAN
  /\ oblivious \in BOOLEAN
  /\ clear \in BOOLEAN
  /\ tries = 0
  /\ lambda = LambdaInit
  /\ err = Huge
  /\ steps = << >>
  /\ status = "running"

NextLambda(e) ==
  IF damped
  THEN /\ e < err => lambda' = Fall
       /\ e > err => lambda' = Rise
       /\ e = err => lambda' \in {Rise, Fall}
  ELSE lambda' = lambda

\* Whether the step of norm e is taken: a large one always is, a small one at
\* the optimizer's choice before it stops, and never by an oblivious one.
Takes(e) ==
  \/ steps' = Append(steps, Step(e)) /\ (oblivious => e >= MinEr)
  \/ steps' = steps /\ (e < MinEr \/ (oblivious /\ e = MinEr))

Try ==
  /\ status = "running"
  /\ tries < MaxItr
  /\ \E e \in Norm :
       /\ err' = e
       /\ NextLambda(e)
       /\ Takes(e)
       /\ status' = IF e < MinEr /\ ~oblivious THEN "converged" ELSE "running"
  /\ tries' = tries + 1
  /\ UNCHANGED <<damped, oblivious, clear>>

Fail ==
  /\ status = "running"
  /\ clear
  /\ tries < MaxItr
  /\ status' = "failed"
  /\ steps' = << >>
  /\ UNCHANGED <<damped, oblivious, clear, tries, lambda, err>>

GiveUp ==
  /\ status = "running"
  /\ tries = MaxItr
  /\ status' = "gaveUp"
  /\ UNCHANGED <<damped, oblivious, clear, tries, lambda, err, steps>>

Next == Try \/ Fail \/ GiveUp
Spec == Init /\ [][Next]_dvars
=============================================================================
