----------------------------- MODULE ShareCarry -----------------------------
(***************************************************************************)
(* BuildAndRunLM and BuildAndRunGaussNewton of ABY, from the inputs of     *)
(* their callers to the pose they return, as calls to a party.  The        *)
(* leaking build executes a circuit whenever it needs a bit in the clear:  *)
(* it leaves one circuit half-built in the middle of an iteration to run   *)
(* the SVD, and takes up the rest on another.  What the loops do is        *)
(* compared with Svd.                                                      *)
(***************************************************************************)
EXTENDS SvdCircuits, Integers

CONSTANTS MaxIts,    \* iterations per singular value
          MaxItr,    \* LM_MAX_ITR, GN_MAX_ITR
          Builds     \* what a behaviour may run, a set of Build records

DO == "DO"
LOOP_LEAK == "LOOP_LEAK"
SiSL == "SiSL"
LM == "LM"
GN == "GN"
BuildRecord ==
  [method : {LM, GN}, flow : {DO, LOOP_LEAK, SiSL}, context : Sharing,
   caller : {"localize_wrapper", "test_lm_circuit"}]

ASSUME ShareCarryAssumption ==
  /\ NCols \in Nat \ {0}
  /\ MaxIts \in Nat \ {0}
  /\ MaxItr \in Nat \ {0}
  /\ Builds \subseteq BuildRecord
  /\ Var = SvdVar \cup {The(n) : n \in {"threeDPts", "y0", "camera", "x", "prevErrNorm",
                                       "lambda", "dy", "jacob", "inverse", "one", "zero"}}

VARIABLES
  method, flow, caller,    \* with context, the Build at hand
  todo,    \* calls of the piece of code that is being run
  at,      \* where the loops are once todo is done
  itr,     \* iterations of the optimizer
  k, its, l, flag, i,   \* the loops of RunSvdLoopLeak, as in Svd
  zero,    \* elements of rv1 that are exactly 0.0
  op       \* the last operation of the SVD

config == <<method, flow, caller, context>>
svdVars == <<k, its, l, flag, i, zero, op>>
vars == <<config, partyVars, todo, at, itr, svdVars>>

Op(kind, a, b) == [kind |-> kind, a |-> a, b |-> b]

SvdInit ==
  /\ k = NCols - 1
  /\ its = 0
  /\ l = 0
  /\ flag = FALSE
  /\ i = 0
  /\ zero = {0}
  /\ op = Op("reduced", 0, 0)

Init ==
  /\ \E b \in Builds :
       method = b.method /\ flow = b.flow /\ context = b.context /\ caller = b.caller
  /\ PartyInit
  /\ todo = <<>>
  /\ at = "start"
  /\ itr = 0
  /\ SvdInit

----------------------------------------------------------------------------
(* The pieces of the optimizers.                                           *)

\* What an iteration is given; LM keeps a state from one to the next.
Inputs == {The("threeDPts"), The("y0"), The("camera"), The("x")}
State == IF method = LM THEN {The("prevErrNorm"), The("lambda")} ELSE {}

\* The sharing a caller makes its inputs in and takes the pose in.  Raw shares
\* need boolean ones; the two callers test for different builds.
LocalizeWrapper == IF flow \in {LOOP_LEAK, SiSL} THEN BOOL ELSE context
TestLmCircuit == IF flow = LOOP_LEAK THEN BOOL ELSE context
CallerSharing == IF caller = "localize_wrapper" THEN LocalizeWrapper ELSE TestLmCircuit

\* Dummy circuits that make raw shares of the inputs.
RawInputs(of) ==
  (IF CallerSharing = YAO THEN <<ToBool(Inputs)>> ELSE <<>>)
    \o <<SharedOut(of), Exec, Get(of), Count, Reset>>
BuildAndRunLMLoopLeak == <<Input(State, BOOL)>> \o RawInputs(Inputs \cup State)
BuildAndRunGaussNewtonLoopLeak == RawInputs(Inputs)
BuildAndRunLMDO == <<Input(State, context)>>

\* What comes before the first iteration.
Preparation ==
  CASE flow = DO -> IF method = LM THEN BuildAndRunLMDO ELSE <<>>
    [] flow # DO -> IF method = LM THEN BuildAndRunLMLoopLeak
                                   ELSE BuildAndRunGaussNewtonLoopLeak

\* Constants are gates of the circuit they are on.
Constants == Input({The("one")}, context)

\* Projection, jacobian and error, and the matrix to invert: JtJ for LM, the
\* jacobian itself for Gauss-Newton.
BuildLMNormal ==
  <<Constants,
    Build(Inputs \cup {The("one"), The("lambda")}, {The("dy"), The("jacob")} \cup All("a"))>>
BuildGaussNewtonJacobian ==
  <<Constants, Build(Inputs \cup {The("one")}, {The("dy")} \cup All("a"))>>

\* Mutant: the constants of the first half are used in the second.
BuildLMStepReuses ==
  <<Build({The("one"), The("inverse"), The("jacob"), The("dy"), The("x")} \cup State,
          {The("x"), The("bit")} \cup State)>>
\* The step, its norm, the new lambda, the pose.
BuildLMStep ==
  <<Constants, Build({The("one"), The("inverse"), The("jacob"), The("dy"), The("x")} \cup State,
                     {The("x"), The("bit")} \cup State)>>
BuildGaussNewtonStep ==
  <<Constants, Build({The("one"), The("inverse"), The("dy"), The("x")}, {The("x"), The("bit")})>>

\* The shares that have to outlive the SVD, made raw shares and gates again.
LMCarry == {The("dy"), The("jacob"), The("x")} \cup State
GaussNewtonCarry == {The("dy"), The("x")}
Carry == IF method = LM THEN LMCarry ELSE GaussNewtonCarry
CarryOut == IfYao(ToBool(Carry)) \o <<SharedOut(Carry)>>
\* Mutant: lambda is left in the boolean sharing.
CarryInForgetsLambda == IfYao(ToYao(Carry \ {The("lambda")}))
CarryIn == IfYao(ToYao(Carry))

FirstHalf == IF method = LM THEN BuildLMNormal ELSE BuildGaussNewtonJacobian
SecondHalf == IF method = LM THEN BuildLMStep ELSE BuildGaussNewtonStep

\* What an iteration leaves.
Kept == {The("x")} \cup State
RunLMIteration == IfYao(ToBool(Kept)) \o Epilogue(Kept, {The("bit")})
RunGaussNewtonIteration == IfYao(ToBool({The("x")})) \o Epilogue({The("x")}, {The("bit")})
IterationInputs == Prologue(Inputs \cup State)
IterationOutputs == IF method = LM THEN RunLMIteration ELSE RunGaussNewtonIteration

\* The caller opens the pose.
Return ==
  (IF flow = DO THEN <<>> ELSE <<SharedIn({The("x")})>>)
    \o <<Out({The("x")}, CallerSharing), Exec, Get({The("x")})>>

----------------------------------------------------------------------------
(* Control.  A call, or, when todo is done, a decision on what comes next. *)

Run(p, next) == todo = <<>> /\ todo' = p /\ at' = next

Step ==
  /\ todo # <<>>
  /\ Perform(Head(todo))
  /\ todo' = Tail(todo)
  /\ UNCHANGED <<config, at, itr, svdVars>>

BuildAndRun ==
  /\ at = "start"
  /\ Run(<<Input(Inputs, CallerSharing)>> \o Preparation, "iterate")
  /\ UNCHANGED <<config, partyVars, itr, svdVars>>

\* An iteration, up to the inverse where that ends the circuit.
Iteration ==
  /\ at = "iterate"
  /\ \/ /\ flow = LOOP_LEAK
        /\ Run(IterationInputs \o FirstHalf \o CarryOut \o SvdInputs(Carry, context = YAO), "svd")
     \/ /\ flow = SiSL
        /\ Run(IterationInputs \o FirstHalf \o <<BuildSvdOSL>> \o BuildInvert \o SecondHalf
                 \o IterationOutputs, "decide")
     \/ /\ flow = DO
        /\ Run(FirstHalf \o <<BuildSvdDO>> \o BuildInvert \o SecondHalf, "decide")
  /\ UNCHANGED <<config, partyVars, itr, svdVars>>

Inverted ==
  /\ at = "inverted"
  /\ Run(SvdOutputs(Carry) \o BuildInvert \o CarryIn \o SecondHalf
           \o IterationOutputs, "decide")
  /\ UNCHANGED <<config, partyVars, itr, svdVars>>

\* Mutant: the iterations are not counted.
DecideUncounted ==
  /\ at = "decide"
  /\ \E done \in BOOLEAN :
       /\ done => flow # DO
       /\ Run(<<>>, IF done \/ itr + 1 = MaxItr THEN "return" ELSE "iterate")
  /\ itr' = itr
  /\ UNCHANGED <<config, partyVars, svdVars>>
\* The loop ends when the error is revealed to be small, or on its bound.
Decide ==
  /\ at = "decide"
  /\ \E done \in BOOLEAN :
       /\ done => flow # DO
       /\ Run(<<>>, IF done \/ itr + 1 = MaxItr THEN "return" ELSE "iterate")
  /\ itr' = itr + 1
  /\ UNCHANGED <<config, partyVars, svdVars>>

Finish ==
  /\ at = "return"
  /\ Run(Return, "end")
  /\ UNCHANGED <<config, partyVars, itr, svdVars>>

----------------------------------------------------------------------------
(* RunSvdLoopLeak.                                                         *)

RunSvdLoopLeak ==
  /\ at = "svd"
  /\ Run(RunSvdPart1Circuit, "split")
  /\ k' = NCols - 1
  /\ its' = 0
  /\ l' = 0
  /\ flag' = FALSE
  /\ i' = 0
  /\ zero' = {0}
  /\ op' = Op("reduced", 0, 0)
  /\ UNCHANGED <<config, partyVars, itr>>

Rest == l' = 0 /\ flag' = FALSE /\ i' = 0

\* The test for splitting goes from k down, a circuit for each test.
Search ==
  /\ at = "split"
  /\ Run(RunSvdCheckZeroCircuit(<<"rv1", k>>), "testRv1")
  /\ l' = k
  /\ UNCHANGED <<config, partyVars, itr, k, its, flag, i, zero, op>>

TestRv1 ==
  /\ at = "testRv1"
  /\ \/ Run(<<>>, "converge") /\ flag' = FALSE
     \/ /\ l \notin zero
        /\ IF l = 0 THEN Run(<<>>, "outside")
                    ELSE Run(RunSvdCheckZeroCircuit(<<"w", l - 1>>), "testW")
        /\ UNCHANGED flag
  /\ UNCHANGED <<config, partyVars, itr, k, its, l, i, zero, op>>

TestW ==
  /\ at = "testW"
  /\ \/ Run(<<Set({The("cc"), The("s")})>>, "cancel") /\ flag' = TRUE /\ i' = l /\ l' = l
     \/ Run(RunSvdCheckZeroCircuit(<<"rv1", l - 1>>), "testRv1") /\ l' = l - 1
        /\ UNCHANGED <<flag, i>>
  /\ UNCHANGED <<config, partyVars, itr, k, its, zero, op>>

Cancel ==
  /\ at = "cancel"
  /\ Run(RunSvdFlag1Circuit(i) \o RunSvdCheckZeroCircuit(The("f")), "testF")
  /\ UNCHANGED <<config, partyVars, itr, svdVars>>

\* Mutant: a negligible f does not end the cancellation.
TestFGoesOn ==
  /\ at = "testF"
  /\ zero' = (IF i = l THEN zero \cup {i} ELSE zero)
  /\ \/ Run(<<>>, IF i = k THEN "converge" ELSE "cancel") /\ op' = Op("scale", i, i)
     \/ Run(Flag2(i, l - 1), IF i = k THEN "converge" ELSE "cancel") /\ op' = Op("rotate", l - 1, i)
  /\ i' = (IF i = k THEN 0 ELSE i + 1)
  /\ UNCHANGED <<config, partyVars, itr, k, its, l, flag>>
\* c = 0 in the first column, so rv1[l] becomes 0.0.
TestF ==
  /\ at = "testF"
  /\ zero' = (IF i = l THEN zero \cup {i} ELSE zero)
  /\ \/ Run(<<>>, "converge") /\ op' = Op("scale", i, i) /\ i' = 0
     \/ /\ Run(Flag2(i, l - 1), IF i = k THEN "converge" ELSE "cancel")
        /\ op' = Op("rotate", l - 1, i)
        /\ i' = (IF i = k THEN 0 ELSE i + 1)
  /\ UNCHANGED <<config, partyVars, itr, k, its, l, flag>>

Converge ==
  /\ at = "converge"
  /\ l = k
  /\ Run(<<Move(The("z"), <<"w", k>>)>> \o SvdZ(k), IF k = 0 THEN "inverted" ELSE "split")
  /\ op' = Op("sign", k, k)
  /\ k' = k - 1
  /\ its' = 0
  /\ Rest
  /\ UNCHANGED <<config, partyVars, itr, zero>>

Shift ==
  /\ at = "converge"
  /\ l # k
  /\ Run(<<Move(The("z"), <<"w", k>>)>> \o BeginSvdPart2 \o <<BuildSvdShift(k, l)>>, "qr")
  /\ op' = Op("shift", l, k)
  /\ i' = l
  /\ UNCHANGED <<config, partyVars, itr, k, its, l, flag, zero>>

Sweep ==
  /\ at = "qr"
  /\ Run(<<BuildSvdRotation(i)>>, IF i + 1 = k THEN "finish" ELSE "qr")
  /\ zero' = zero \ {i}
  /\ op' = Op("qr", i, i + 1)
  /\ i' = i + 1
  /\ UNCHANGED <<config, partyVars, itr, k, its, l, flag>>

\* Mutant: the test for the last iteration comes one too late.
FinishSweepLate ==
  /\ at = "finish"
  /\ IF its = MaxIts
     THEN /\ Run(<<BuildSvdLeftOver(k, l)>> \o EndSvdPart2, IF k = 0 THEN "inverted" ELSE "split")
          /\ k' = k - 1
          /\ its' = 0
     ELSE Run(<<BuildSvdLeftOver(k, l)>> \o EndSvdPart2, "split") /\ its' = its + 1 /\ k' = k
  /\ zero' = (zero \cup {l}) \ {k}
  /\ op' = Op("finish", l, k)
  /\ Rest
  /\ UNCHANGED <<config, partyVars, itr>>
\* After the last iteration the value is left as it is.
FinishSweep ==
  /\ at = "finish"
  /\ IF its + 1 = MaxIts
     THEN /\ Run(<<BuildSvdLeftOver(k, l)>> \o EndSvdPart2, IF k = 0 THEN "inverted" ELSE "split")
          /\ k' = k - 1
          /\ its' = 0
     ELSE Run(<<BuildSvdLeftOver(k, l)>> \o EndSvdPart2, "split") /\ its' = its + 1 /\ k' = k
  /\ zero' = (zero \cup {l}) \ {k}
  /\ op' = Op("finish", l, k)
  /\ Rest
  /\ UNCHANGED <<config, partyVars, itr>>

Svd ==
  \/ RunSvdLoopLeak \/ Search \/ TestRv1 \/ TestW \/ Cancel \/ TestF
  \/ Converge \/ Shift \/ Sweep \/ FinishSweep
Next == Step \/ BuildAndRun \/ Iteration \/ Inverted \/ Decide \/ Finish \/ Svd
Spec == Init /\ [][Next]_vars
\* The party is one thread that runs to the end of its program.
FairSpec == Spec /\ WF_vars(Next)

----------------------------------------------------------------------------
(* Properties.                                                             *)

Place ==
  {"start", "iterate", "svd", "split", "testRv1", "testW", "cancel", "testF", "converge",
   "qr", "finish", "inverted", "decide", "return", "end"}

\* The loops stay within their bounds, and the matrix: rv1[0] is found to be
\* zero before w[-1] is looked at.
LoopsTypeOK ==
  /\ at \in Place
  /\ itr \in 0 .. MaxItr
  /\ k \in -1 .. NCols - 1
  /\ its \in 0 .. MaxIts - 1
  /\ l \in Column
  /\ i \in Column
  /\ flag \in BOOLEAN
  /\ zero \subseteq Column

\* Every variable has its type; no loop leaves its bounds.
TypeOK == PartyTypeOK /\ LoopsTypeOK

Current == Head(todo)
Running == todo # <<>>

\* Gates are put on a circuit that has not been executed, and only on shares
\* of that circuit: none is left over from one that was reset.
LiveShares ==
  Running /\ PutsGates(Current) => ~executed /\ \A v \in Taken(Current) : share[v].live

\* "you cant use Y2B shares on Yao input gates": a gate is only put on shares
\* of its own sharing, whatever the solver prefers and its caller made.
SharingFits ==
  Running => \A v \in Taken(Current) : share[v].sharing = Current.sharing

\* A clear value is only read from an output gate of the circuit that has
\* been executed, before it is reset.
ReadsOutputs ==
  Running => \A v \in Reads(Current) : executed /\ share[v].live /\ share[v].out

\* The circuits of a chain compute what one circuit would: gates take the
\* values last computed, and so does every decision on a revealed bit, through
\* raw shares, slices and buffers.
LatestValues ==
  /\ Running /\ Current.kind = "build" => \A v \in Current.reads : share[v].value = "new"
  /\ ~Running /\ at \in {"testRv1", "testW", "testF"} => raw[The("bit")] = "new"
  /\ ~Running /\ at = "decide" /\ flow # DO => raw[The("bit")] = "new"
  /\ ~Running /\ at = "end" => raw[The("x")] = "new"

\* The counters of every circuit are added to the sums before they are reset.
EveryExecCounted == Running /\ Current.kind = "reset" => executed /\ counted

\* Whatever the revealed bits are, the loops of the optimizer and of the SVD
\* end on their bounds: the party comes to the end of its program.
Terminates == <>(at = "end" /\ todo = <<>>)

\* Where Svd is, and how far its search, which is one step there.
Searching == at \in {"split", "testRv1", "testW"}
SvdPlace ==
  IF at = "outside" THEN "failed"
  ELSE IF k = -1 THEN "done"
  ELSE IF at = "testF" THEN "cancel"
  ELSE IF at \in {"cancel", "converge", "qr", "finish"} THEN at
  ELSE "split"
S == INSTANCE Svd WITH Flows <- {LOOP_LEAK}, EndsEarly <- TRUE, flow <- LOOP_LEAK,
                       pc <- SvdPlace, l <- IF Searching THEN 0 ELSE l

\* Circuit by circuit, RunSvdLoopLeak runs the loop over singular values from
\* its start in every iteration of the optimizer, and does nothing to it in
\* between.
IsSvd == S!Init /\ [][S!Next \/ (S!Init)']_(S!vars)
=============================================================================
