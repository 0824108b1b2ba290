---------------------------- MODULE SvdCircuits ----------------------------
(***************************************************************************)
(* The sub-circuits of RunSvdLoopLeak, each a sequence of calls to the     *)
(* party.  Matrices are known by their columns; aSTARi, aSTARnm and        *)
(* vSTARk are the slices a column is copied to and back from.              *)
(***************************************************************************)
EXTENDS AbyParty

CONSTANT NCols

Column == 0 .. NCols - 1

\* Scalars, and vectors that are only handled whole, have column 0.
The(name) == <<name, 0>>
All(name) == {name} \X Column
SvdVar ==
  ({"a", "w", "v", "rv1"} \X Column)
  \cup {The(n) : n \in {"anorm", "cc", "f", "s", "z", "aSTARi", "aSTARnm", "vSTARk", "fx", "bit"}}

\* Householder reduction to bidiagonal form.
SvdResult == UNION {All(n) : n \in {"a", "w", "v"}}
SvdPart1 == {The("anorm")} \cup UNION {All(n) : n \in {"a", "w", "v", "rv1"}}
BuildSvdPart1Circuit == Build(All("a"), SvdPart1)
RunSvdPart1Circuit == SubCircuit(All("a"), <<BuildSvdPart1Circuit>>, SvdPart1, SvdPart1, {})

\* Is val negligible against anorm?  The bit is revealed.
BuildSvdCheckZeroCircuit(val) == Build({val, The("anorm")}, {The("bit")})
RunSvdCheckZeroCircuit(val) ==
  SubCircuit({val, The("anorm")}, <<BuildSvdCheckZeroCircuit(val)>>, {}, {}, {The("bit")})

\* f = s * rv1[i], rv1[i] = cc * rv1[i].
BuildSvdFlag1Circuit(i) ==
  Build({The("cc"), The("s"), <<"rv1", i>>}, {The("f"), <<"rv1", i>>})
RunSvdFlag1Circuit(i) ==
  SubCircuit({The("cc"), The("f"), The("s"), <<"rv1", i>>}, <<BuildSvdFlag1Circuit(i)>>,
             {The("f"), <<"rv1", i>>}, {The("f"), <<"rv1", i>>}, {})

\* The rotation that cancels rv1[i] against w[i], on w[i] and two columns of a.
BuildSvdFlag2Circuit(i) ==
  LET rotated == {The("aSTARi"), The("aSTARnm"), <<"w", i>>, The("cc"), The("s")} IN
  Build({The("aSTARi"), The("aSTARnm"), <<"w", i>>, The("f")}, rotated)
RunSvdFlag2Circuit(i) ==
  LET ins == {The("aSTARi"), The("aSTARnm"), <<"w", i>>, The("cc"), The("f"), The("s")} IN
  SubCircuit(ins, <<BuildSvdFlag2Circuit(i)>>, ins, ins \ {The("f")}, {})
\* The columns are sliced out of a and copied back.
Flag2(i, nm) ==
  <<Lend(The("aSTARi"), <<"a", i>>), Lend(The("aSTARnm"), <<"a", nm>>)>>
    \o RunSvdFlag2Circuit(i)
    \o <<Move(<<"a", i>>, The("aSTARi")), Move(<<"a", nm>>, The("aSTARnm"))>>

\* w[k] and column k of v change sign when z is negative.
BuildSvdZCircuit(k) ==
  Build({The("z"), <<"w", k>>, The("vSTARk")}, {<<"w", k>>, The("vSTARk")})
RunSvdZCircuit(k) ==
  SubCircuit({The("z"), <<"w", k>>, The("vSTARk")}, <<BuildSvdZCircuit(k)>>,
             {<<"w", k>>, The("vSTARk")}, {<<"w", k>>, The("vSTARk")}, {})
\* Mutant: the slice is not copied back.
SvdZKeepsSlice(k) == <<Lend(The("vSTARk"), <<"v", k>>)>> \o RunSvdZCircuit(k)
SvdZ(k) ==
  <<Lend(The("vSTARk"), <<"v", k>>)>> \o RunSvdZCircuit(k)
    \o <<Move(<<"v", k>>, The("vSTARk"))>>

\* The QR step is one circuit: the shift, a rotation for each column from l
\* to nm, and what is left over.  fx stands for the f and x it passes from
\* one to the next, which are local to the circuit.
SvdPart2 == {The("z")} \cup UNION {All(n) : n \in {"a", "w", "v", "rv1"}}
BuildSvdShift(k, l) ==
  Build({The("z"), <<"w", l>>, <<"w", k - 1>>, <<"rv1", k - 1>>, <<"rv1", k>>}, {The("fx")})
BuildSvdRotation(j) ==
  LET pair == {"a", "v"} \X {j, j + 1} IN
  Build({The("fx"), <<"rv1", j + 1>>, <<"w", j + 1>>} \cup pair,
        {The("fx"), The("z"), <<"rv1", j>>, <<"w", j>>} \cup pair)
BuildSvdLeftOver(k, l) ==
  Build({The("fx")}, {<<"rv1", l>>, <<"rv1", k>>, <<"w", k>>})
BeginSvdPart2 == Prologue(SvdPart2)
EndSvdPart2 == IfYao(ToBool(SvdPart2)) \o Epilogue(SvdPart2, {})

----------------------------------------------------------------------------
\* Mutant: the caller's shares are read after the circuit is gone.
SvdInputsSavesLate(carry, yao) ==
  (IF yao THEN <<ToBool(All("a"))>> ELSE <<>>)
    \o <<SharedOut(All("a")), Exec, Get(All("a")), Count, Reset, Save(carry)>>
\* BuildAndRunSvdLoopLeak: the dummy circuit that makes raw shares of the
\* matrix.  carry is what toRawShares reads before the circuit is reset.
SvdInputs(carry, yao) ==
  (IF yao THEN <<ToBool(All("a"))>> ELSE <<>>)
    \o <<SharedOut(All("a")), Exec, Get(All("a")), Save(carry), Count, Reset>>

\* The next circuit starts with the results, and with what toShareObjects
\* rebuilds.
SvdOutputs(carry) == Prologue(SvdResult) \o <<Restore(carry)>>

\* The other two builds of the SVD are part of their caller's circuit.
BuildSvdDO == Build(All("a"), SvdResult)
BuildSvdOSL == Build(All("a"), SvdResult)

\* inv(w) * uT and v times it, with a zero gate of the circuit they are on.
BuildInvert == <<Input({The("zero")}, context),
                 Build(SvdResult \cup {The("zero")}, {The("inverse")})>>
=============================================================================
