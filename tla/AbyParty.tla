------------------------------ MODULE AbyParty ------------------------------
(***************************************************************************)
(* A party of ABY as the solvers use it: one circuit at a time, built of   *)
(* gates, executed once, and thrown away by Reset together with every      *)
(* share object that names one of its gates.  What must survive is read    *)
(* off as a raw share (PutSharedOUTGate, get_clear_value) and put on the   *)
(* next circuit as an input (PutSharedINGate).  Raw shares are boolean; a  *)
(* solver that prefers Yao's circuits converts after the one and before    *)
(* the other.                                                              *)
(*                                                                         *)
(* A value is known by whether it is the one last computed for its         *)
(* variable.  Both parties make the same calls, so one is modelled.        *)
(***************************************************************************)
EXTENDS Naturals, Sequences

CONSTANT Var              \* the variables that have shares

VARIABLES
  context,    \* c->GetContext(): the sharing a solver computes in
  share,      \* share objects, by the variable they are assigned to
  raw,        \* raw shares, in the arrays handed from circuit to circuit
  carried,    \* raw shares in the buffers of toRawShares
  executed,   \* ExecCircuit has run since the last Reset
  counted     \* its counters have been added to the sums

partyVars == <<share, raw, carried, executed, counted>>

BOOL == "S_BOOL"
YAO == "S_YAO"
Sharing == {BOOL, YAO}

\* Nothing, a value since replaced, or the one last computed.
Value == {"none", "old", "new"}
Share == [live : BOOLEAN, sharing : Sharing, out : BOOLEAN, value : Value]
NoShare == [live |-> FALSE, sharing |-> BOOL, out |-> FALSE, value |-> "none"]
Gate(s, x) == [live |-> TRUE, sharing |-> s, out |-> FALSE, value |-> x]

PartyInit ==
  /\ share = [v \in Var |-> NoShare]
  /\ raw = [v \in Var |-> "none"]
  /\ carried = [v \in Var |-> "none"]
  /\ executed = FALSE
  /\ counted = FALSE

----------------------------------------------------------------------------
(* The calls a solver makes, as records; a straight-line piece of a solver *)
(* is a sequence of them.                                                  *)

Kind == {"input", "in", "convert", "build", "sharedout", "out", "exec", "get",
         "save", "restore", "count", "reset", "set", "move", "lend"}
Call(kind, of, sharing) == [kind |-> kind, of |-> of, sharing |-> sharing, reads |-> {}]

Input(of, s) == Call("input", of, s)              \* PutINGate, PutCONSGate
SharedIn(of) == Call("in", of, BOOL)              \* bc->PutSharedINGate
ToYao(of) == Call("convert", of, BOOL)            \* c->PutB2YGate
ToBool(of) == Call("convert", of, YAO)            \* bc->PutY2BGate
Build(reads, writes) == [Call("build", writes, context) EXCEPT !.reads = reads]
SharedOut(of) == Call("sharedout", of, BOOL)     \* bc->PutSharedOUTGate
Out(of, s) == Call("out", of, s)                  \* PutOUTGate(, ALL)
Exec == Call("exec", {}, BOOL)                    \* ExecCircuit
Get(of) == Call("get", of, BOOL)                  \* get_clear_value
Save(of) == Call("save", of, BOOL)                \* the same, in toRawShares
Restore(of) == Call("restore", of, BOOL)          \* toShareObjects
Count == Call("count", {}, BOOL)                  \* collectTiming, collectCommunication
Reset == Call("reset", {}, BOOL)                  \* Reset
Set(of) == Call("set", of, BOOL)                  \* a public value as a raw share
Move(to, from) == [Call("move", {to}, BOOL) EXCEPT !.reads = {from}]
Lend(to, from) == [Call("lend", {to}, BOOL) EXCEPT !.reads = {from}]

\* Calls made only when the solver computes in Yao's sharing.
IfYao(call) == IF context = YAO THEN <<call>> ELSE <<>>

\* A loop over no shares makes no calls.
Loop(call) == IF call.of = {} THEN <<>> ELSE <<call>>

\* The frame of every function that runs a sub-circuit on raw shares: builds
\* is the circuit itself, backs what is converted back, outs what is put out
\* as raw shares, bits what is revealed.
Prologue(ins) == <<SharedIn(ins)>> \o IfYao(ToYao(ins))
\* Mutant: the counters are dropped.
EpilogueUncounted(outs, bits) ==
  Loop(SharedOut(outs)) \o Loop(Out(bits, context)) \o <<Exec, Get(outs \cup bits), Reset>>
Epilogue(outs, bits) ==
  Loop(SharedOut(outs)) \o Loop(Out(bits, context))
    \o <<Exec, Get(outs \cup bits), Count, Reset>>
SubCircuit(ins, builds, backs, outs, bits) ==
  Prologue(ins) \o builds \o (IF backs = {} THEN <<>> ELSE IfYao(ToBool(backs)))
    \o Epilogue(outs, bits)

----------------------------------------------------------------------------
(* What a call does.  Nothing checks its arguments: a share that is gone   *)
(* or of the other sharing gives a gate without a value.                   *)

Fits(v, s) == share[v].live /\ share[v].sharing = s /\ ~share[v].out
Passed(v, s) == IF Fits(v, s) THEN share[v].value ELSE "none"
Opened(v) == IF share[v].live /\ share[v].out /\ executed THEN share[v].value ELSE "none"
Other(s) == IF s = BOOL THEN YAO ELSE BOOL

NewShares(of, sh) == share' = [v \in Var |-> IF v \in of THEN sh[v] ELSE share[v]]
NewRaw(of, val) == raw' = [v \in Var |-> IF v \in of THEN val[v] ELSE raw[v]]
Outdated(mem, of) == [v \in Var |-> IF v \in of /\ mem[v] = "new" THEN "old" ELSE mem[v]]

PutInput(c) ==
  /\ NewShares(c.of, [v \in c.of |-> Gate(c.sharing, "new")])
  /\ UNCHANGED <<raw, carried, executed, counted>>

PutSharedIn(c) ==
  /\ NewShares(c.of, [v \in c.of |-> Gate(BOOL, raw[v])])
  /\ UNCHANGED <<raw, carried, executed, counted>>

Convert(c) ==
  /\ NewShares(c.of, [v \in c.of |-> Gate(Other(c.sharing), Passed(v, c.sharing))])
  /\ UNCHANGED <<raw, carried, executed, counted>>

PutGates(c) ==
  LET known == \A v \in c.reads : Passed(v, context) = "new" IN
  /\ NewShares(c.of, [v \in c.of |-> Gate(context, IF known THEN "new" ELSE "none")])
  /\ raw' = Outdated(raw, c.of)
  /\ carried' = Outdated(carried, c.of)
  /\ UNCHANGED <<executed, counted>>

PutOut(c) ==
  /\ NewShares(c.of, [v \in c.of |-> [Gate(c.sharing, Passed(v, c.sharing)) EXCEPT !.out = TRUE]])
  /\ UNCHANGED <<raw, carried, executed, counted>>

ExecCircuit ==
  /\ executed' = TRUE
  /\ counted' = FALSE
  /\ UNCHANGED <<share, raw, carried>>

GetClearValue(c) ==
  /\ IF c.kind = "get"
     THEN NewRaw(c.of, [v \in c.of |-> Opened(v)]) /\ UNCHANGED carried
     ELSE /\ carried' = [v \in Var |-> IF v \in c.of THEN Opened(v) ELSE carried[v]]
          /\ UNCHANGED raw
  /\ UNCHANGED <<share, executed, counted>>

\* The buffers are freed once the shares are rebuilt.
PutCarried(c) ==
  /\ NewShares(c.of, [v \in c.of |-> Gate(BOOL, carried[v])])
  /\ carried' = [v \in Var |-> "none"]
  /\ UNCHANGED <<raw, executed, counted>>

Collect ==
  /\ counted' = TRUE
  /\ UNCHANGED <<share, raw, carried, executed>>

ResetCircuit ==
  /\ share' = [v \in Var |-> [share[v] EXCEPT !.live = FALSE]]
  /\ executed' = FALSE
  /\ UNCHANGED <<raw, carried, counted>>

\* Raw shares set, copied, or copied out to be replaced: a column that has
\* been sliced out for a circuit is stale until it is copied back.
Assign(c) ==
  /\ \/ c.kind = "set" /\ NewRaw(c.of, [v \in c.of |-> "new"])
     \/ \E to \in c.of, from \in c.reads :
          raw' = [raw EXCEPT ![to] = raw[from],
                             ![from] = IF c.kind = "lend" THEN "old" ELSE raw[from]]
  /\ UNCHANGED <<share, carried, executed, counted>>

Perform(c) ==
  \/ c.kind = "input" /\ PutInput(c)
  \/ c.kind = "in" /\ PutSharedIn(c)
  \/ c.kind = "convert" /\ Convert(c)
  \/ c.kind = "build" /\ PutGates(c)
  \/ c.kind \in {"sharedout", "out"} /\ PutOut(c)
  \/ c.kind = "exec" /\ ExecCircuit
  \/ c.kind \in {"get", "save"} /\ GetClearValue(c)
  \/ c.kind = "restore" /\ PutCarried(c)
  \/ c.kind = "count" /\ Collect
  \/ c.kind = "reset" /\ ResetCircuit
  \/ c.kind \in {"set", "move", "lend"} /\ Assign(c)

----------------------------------------------------------------------------
(* What a call asks of the shares it takes.                                *)

PartyTypeOK ==
  /\ context \in Sharing
  /\ share \in [Var -> Share]
  /\ raw \in [Var -> Value]
  /\ carried \in [Var -> Value]
  /\ executed \in BOOLEAN
  /\ counted \in BOOLEAN

\* The shares a gate is put on.
Taken(c) ==
  CASE c.kind \in {"convert", "sharedout", "out"} -> c.of
    [] c.kind = "build" -> c.reads
    [] OTHER -> {}
PutsGates(c) == c.kind \in {"input", "in", "convert", "build", "sharedout", "out", "restore"}
Reads(c) == IF c.kind \in {"get", "save"} THEN c.of ELSE {}
=============================================================================
