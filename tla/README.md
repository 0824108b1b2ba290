# Verification of the localization server

TLA+ models, TLC runs and TLAPS proofs for the secure visual localization
service in this repository. Two servers run a pose optimizer under two-party
computation on the image points of a client; neither sees them. Paths below are
relative to the repository.

## Inventory

| component | state | operations | modelled in |
|---|---|---|---|
| server main loop, `src/emp-float-server/server-lm.cpp` | the connection `io` between the parties, the connection `ttpio` to a client, the queue of a listening socket, a 3 second poll | connect, accept, poll, restart, call `lm_server` | `Session` |
| `lm_server`, `src/emp-float-server/lmlocalization.cpp:384` | point count, inputs bound, iteration, outputs revealed | receive count, set up, bind inputs, iterate, reveal | `Session` |
| client, `test/emp-float/client.cpp` | two connections, place in its script | connect twice, send counts, labels, seed, receive shares | `Session` |
| EMP optimizers, `src/emp-float-server/{lm,gaussnewton}localization.cpp` | pose, lambda, error norms, loop counter | one iteration, break, report | `Localize`, `Descent` |
| ABY optimizers, `src/aby-float-server/{lm,gaussnewton}localization.cpp` | the same, as raw shares between circuits | the same, a circuit or several per iteration | `Localize`, `Descent`, `ShareCarry` |
| cleartext optimizers, `test/common-test/cleartext-ref/` | the same | the same | `Localize`, `Descent` |
| EMP SVD, `src/emp-float-server/svd.cpp` | w, rv1, a, v, the split, the convergence bit | search, cancel, converge, shift, sweep, in three builds | `Svd`, `SvdOblivious` |
| ABY SVD, `src/aby-float-server/svd.cpp` | the same, in raw shares | the same loop, a circuit per piece; shares to gates and back | `SvdCircuits`, `ShareCarry`, refined to `Svd` |
| ABY matrix inverse, `src/aby-float-server/invert.cpp` | none | calls the SVD, builds the inverse on the circuit that is then at hand | `SvdCircuits`, `ShareCarry` |
| ABY timing counters, `src/aby-float-server/util.cpp` | sums over the circuits that ran | add the counters of a circuit | `AbyParty`, when they are added |
| cleartext fixed point, `src/common/fixed_point.h` | none | product, quotient, remainder, modf, square root; conversions, series | `FixedPoint`, the first five |
| EMP fixed point, `src/emp-float-server/fixed_point_emp.h` | none | the same over emp integers | no |
| linear algebra and camera circuits, both back ends | none | straight-line arithmetic | no |
| `privacyconf.h` | the build's flow and bounds | none | constants |
| logging, tests, benchmarks, scripts, docker | counters, files | none of interest | no |

How they interact. A client opens a connection to ALICE (the garbler), then to
BOB (the evaluator). It sends its point count to both, receives ALICE's delta,
sends a seed to BOB and the labels of its inputs to ALICE. The parties exchange
garbled tables over `io`, one bundle per iteration, and both send their shares of
the pose to the client. No message has a tag, a length or a request number;
everything rests on the order. Inside `lm_server` the optimizer calls the SVD in
each iteration to invert its normal matrix.

ABY executes a circuit once and as a whole. Where the leaking build needs a bit in
the clear it must end the circuit there: it opens the shares it still needs as raw
shares, executes, reads, resets, and puts them on the next circuit. One iteration
of an optimizer is a chain of dozens of circuits, begun in one file
(`lmlocalization.cpp`), broken in a second (`svd.cpp`, in the middle of the matrix
inverse) and taken up in the first by a pair of callbacks.

What is hard:

* each party accepts, polls and restarts on its own clock, and three processes
  wait on one another with no timeout but the poll's;
* a client's connection is complete before it is accepted, so that with two clients at the
  door each party may let in another one, and resets the one behind it;
* a client may die between any two sends, after one party saw it and before the
  other did;
* the streams are untagged, so one message too many or too few shifts every read
  that follows, on connections that are reused for the next request;
* ALICE may garble ahead of BOB, and only the revealed convergence flag keeps
  the two in the same iteration;
* in the chain of ABY circuits nothing checks that a share still belongs to a
  circuit, that it is of the sharing a gate expects, or that it holds the value last
  computed: a mistake gives a wrong number in a secret share;
* the fixed point type computes in the type of twice its width and cuts the result;
* the same algorithm is written several times: with breaks, with masks in
  place of breaks, and in cleartext; the tests compare their end results only.

What makes each correct:

* session: past the handshake the parties work for the same client, on the same circuit,
  and in the same iteration; each read takes the message it is for; a request that both
  work on ends, a dead client is let go, one that both parties let in is answered;
* optimizers: each program is the same descent, up to differences that are
  named; lambda stays bounded; the reported convergence is real; an oblivious
  program stands still once it has converged and only then;
* SVD: the search for a split never runs off the matrix; a singular value is
  taken as converged only once it is decoupled; the oblivious build writes what the build
  with breaks writes.
* share carry: a gate is only put on live shares of its own sharing, a value is only
  read from an executed circuit before it is reset, and what is read is the latest;
  the chain of circuits is the loop of the SVD;
* fixed point: nothing is lost in an intermediate result, results are rounded as the
  operators promise, and the loops of the root end.

`PROJECT.json` lists every hazard at its line.

## Modules

| module | models | checked by |
|---|---|---|
| `Session` | the two server processes and the clients, with their sockets | `session_prompt`, `session_crash`, `session_sisl_client`, `session_restart` |
| `Offload` | what the service promises its clients | as the abstraction of `Session` |
| `MCSession` | clients of one and of two points | |
| `SessionProofs` | proofs about `Session`: types, and who holds a connection | tlapm |
| `SessionQueueProofs` | proofs about `Session`: the sockets of the clients | tlapm |
| `SessionRoundsProofs` | proofs about `Session`: the socket between the parties, with all that rests on it | tlapm |
| `Descent` | what an optimizer promises | as the abstraction of `Localize` |
| `Localize` | the loops of seven programs, and of three oblivious ones that are wrong | `localize`, `localize_emp_gn_do`, `localize_aby_do` |
| `MCLocalize` | small instances of it | |
| `LocalizeProofs` | proofs about `Localize` | tlapm |
| `Svd` | the loop over singular values, LOOP_LEAK and SiSL builds | `svd` |
| `SvdOblivious` | the same loop in the DO build, refined to `Svd` | `svd_oblivious`, `svd_cancellation` |
| `SvdProofs` | proofs about `SvdOblivious` | tlapm |
| `SvdLoopProofs` | proofs about `Svd` | tlapm |
| `AbyParty` | a party of ABY: shares, raw shares, one circuit at a time; external but for the helpers of the solvers | through `ShareCarry` |
| `SvdCircuits` | the sub-circuits of the ABY SVD, as sequences of calls to the party | through `ShareCarry` |
| `ShareCarry` | the ABY optimizers in three builds, with the loops of the SVD, as programs that make these calls; refined to `Svd` | `share_carry` |
| `MCShareCarry` | its variables and builds | |
| `ShareCarryProofs` | proofs about `ShareCarry` | tlapm |
| `FixedPoint` | the functions of the cleartext fixed point type | `fixed_point` |
| `MCFixedPoint` | the 8-bit instance | |
| `FixedPointProofs` | proofs about `FixedPoint` | tlapm |

### Session

`pc[p]` is the place of a party: `io` (waiting for the other party), `ttp`
(accepting a client), `poll` (the 3 second loop), then the places of `lm_server`;
`cpc[c]` is the place of a client. `up`, `down` and `net` are the sockets, FIFO in
each direction. A label stands for the 32 wire labels of a float, one
`tables` message for the garbled tables of an iteration. `ServerInput` gives the
array element each input is stored in, so that a client and a server that agree
on number but not on order are told apart. The poll reads the clock first and the
socket second, as the code does, and tests the clock first: data seen in the poll
that reaches 3 seconds is dropped (`Restart` needs only `late`).

A client's `connect` returns when the connection is in the queue of a listening socket.
`Connect(c)` puts it there: `ttp[p]` is the client whose connection p's `accept` takes,
`backlog[p]` those behind it. The client goes on at once, so that it may be at BOB while ALICE has not
accepted it, or has let in another one. `Accept(p)` takes the first connection and closes the
listening socket, as the constructor of `NetIO` does: the others are reset, and their
clients end at the next read or write (`ClientExit`). Whether a message a client sent
ahead of a reset is delivered does not matter, as nobody reads it. `ConnectIo` is one
step: BOB is the only one who connects to that port. The queue is not bounded; emp's is
short, and a client that is refused tries again, like one whose `Connect` is not taken.

Emp's `NetIO` is external: a read at a closed socket ends the process when the
buffered data is used up, a write to one is lost or ends it. A client that makes
more than one request on its connections is not `client.cpp`, which makes one;
the server's loop around the poll is written for it, so `Requests` is 2 in one run.

`Prompt` states whether the data of a live client that a party has accepted always
arrives within 3 seconds, unless the client cannot connect to BOB, who is not listening
(`KeptWaiting`). It is an assumption on the network: without it a client may be dropped and
`AcceptedAnswered` does not hold; the safety properties and `JointRequestEnds` are checked
without it. Even with it a live client need not be answered when another one is at the
door (see Observations), which is why `session_prompt` asks for it only once both
parties hold the client; `EveryClientAnswered` is what the README of the repository
lets one client expect.

`IsOffload` is `O!Spec`: `Offload`, what the service promises whatever it is made of. Its two
servers are one, a request of a client is `out`, `begun` or `ready`, only one client's is
`begun` at a time, and one that is begun is only given up by death. `Phase(c)` maps
to it from both ends and the sockets. A request begins with the first `Handshake` and is
ready with the last share either party reveals, even when the other has restarted or the client
has read some; the last `RecvShare` answers it. All else the processes do is a stutter: the
polls, the restarts, the iterations, the exits of servers.

Fairness: weak, for each process, since each is a thread of its own that the
operating system runs; a client that keeps trying to connect is connected while the
party listens. No strong fairness, and none for `Crash`.

### Descent and Localize

A behaviour is one run of one program. Norms are levels with the threshold among
them, lambda its decades above the minimum, and a pose the sequence of steps
that led to it, each with the lambda and the norm it was computed with. The
arithmetic of an iteration is any norm, and in the clear the inverse may fail at any iteration
(`InverseFails`), which leaves the caller's pose as it was. NaN is not modelled. `IsDescent` is
`D!Spec`: `Descent` hidden behind a refinement mapping. It leaves programs four
freedoms, which are the differences between them: the last small step may be
taken or not; a tie of norms may raise or lower lambda (raises it in EMP and ABY,
lowers it in the cleartext); a program that runs in the clear may fail, as its
`svdcmp` gives up after thirty iterations (svd.hpp:291) or on a matrix with too few rows
(svd.hpp:97), where the secure ones compute on; and EMP's BuildLM runs one surplus iteration,
because its test (line 313) reads the norm before the last. The mapping hides
that iteration.

### Svd and SvdOblivious

Numbers are gone: a test whether an element is negligible has any outcome, but
elements set to 0.0 are tracked and are negligible. `op` is the last write. `Svd` is
the loop with breaks of EMP and ABY; its search is one step. A value whose iterations run out
is left as it is, and the next one is taken up (the cleartext `svdcmp`, which fails
there, is not one of the builds). `SvdOblivious` has one step per turn
of each loop of the oblivious build, and secret bits. Its mapping takes masked
turns to stuttering and a converged value to the next one.

`EndsEarly` says whether a cancellation may meet a negligible fill-in before its last
column. With it the builds differ (`svd_cancellation`), so the refinement is
checked and proved without it.

### AbyParty, SvdCircuits and ShareCarry

The party has shares, which are gates of the circuit at hand (`live`), of a sharing
(boolean or Yao), output gates or not, and raw shares, which survive. `carried` is
what the callback `toRawShares` (lmlocalization.cpp:261) has read and `toShareObjects`
(281) has not yet rebuilt. A value is the one last computed, one since
replaced, or none; a gate with an input that is not the last value gives none. Both
parties make the same calls with the same revealed bits, so one of them is modelled.
Dimensions of vectors that are only handled whole are gone; matrices that are
handled by column have their columns.

Straight-line code is a sequence of calls, written where the source writes it, and
`todo` is what is left of it. `Step` performs the next call; when none is left, one
of the other actions takes the decision the code takes there. `at` names it: the
loops of the SVD as in `Svd`, those of the optimizer around them. A revealed bit has
any value, but for elements set to 0.0, which are negligible.
`Sweep` runs inside one circuit, as `RunSvdPart2Circuit` does; the search, one step in
`Svd`, is a circuit per test here.

`Builds` are the records of method, flow, preferred sharing and caller. The caller
`localize_wrapper.hpp` shares its inputs in boolean sharing when the build is LOOP_LEAK
or SiSL (line 61); `test_lm_circuit` does so for LOOP_LEAK only
(lmlocalization.cpp:876). In the SiSL build with Yao sharing the second one puts a
boolean share on a Yao circuit. `MCBuilds` leaves this combination out: see
Observations.

`IsSvd` maps `ShareCarry` to `Svd`: dummy circuits, conversions and the iteration around
the SVD are stutters, a new iteration starts `Svd` anew.

Fairness: weak on the next step. The party is one thread.

### FixedPoint

A behaviour is one call, with any raw arguments. `Narrow` is the conversion to the base type; the
shift of a product rounds down, the division of integers towards zero.
Widths are by the number of integer bits, `I`, with one fraction bit less, as in both
instances of the tests (`<int64_t, 32>`, `<int32_t, 16>`). The powers of two are a
constant, `Power2`, as in the source, with their law as the assumption. `Pi` and
`TwoPi` are the two roundings. The root is one step per round of its two loops.
`Reduce` and `Modf` do with negative numbers what the code does, which is not what it
promises (see Observations); only their types are checked.
Fairness: weak on the next step, the call being sequential code.

## Runs

Expected to pass:

| run | bounds | shows |
|---|---|---|
| `session_prompt` | two clients of 1 and 2 points, two requests each, 2 iterations, DO | reads in step on both sides, nothing left over, a client both parties let in is answered |
| `session_crash` | two clients that may die anywhere, one request, 3 iterations, LOOP_LEAK, polls time out at will | no work on the inputs of two clients, same circuit, same iteration; nobody waits in a circle; a request both have begun is not broken off, and ends; all of it is the service of `Offload`; dead clients are let go |
| `localize` | 4 iterations, norms 0..3 with the threshold 1, lambda of 3 decades | seven programs are descents, with inverses that fail in the clear; the report is right |
| `svd` | 4 columns, 3 iterations | the search always splits; values taken as converged are decoupled, those whose iterations ran out need not be |
| `svd_oblivious` | 4 columns, 3 iterations | the oblivious loop is the loop with breaks |
| `share_carry` | 3 columns, 2 QR sweeps per value, 2 iterations; both methods, three flows, both sharings, two callers | live shares, fitting sharings, latest values, every circuit counted, the loop of `Svd`, the program ends |
| `fixed_point` | 4 integer and 3 fraction bits, all arguments | product, quotient and root; the root ends |

Two clients are enough for the two parties to disagree on one; points 1 and 2
give circuits of different size; three iterations let the flag, which is never up in the first, end the loop
before its last one, and four tries leave room for a surplus iteration. Norms
0..3 hold one level under the threshold, the threshold itself and two levels
above that rise and fall. Lambda reaches both of its bounds. Four columns allow
a split strictly inside the matrix with a cancellation of three columns. In
`share_carry` three columns give a split inside, a cancellation of two columns and
a sweep of two rotations; a second iteration meets everything the first left behind.
Eight bits hold each rounding and overflow of the wider types: the
promoted type has 16, and arguments beyond a turn of the angle exist on both sides.
Deadlock is not checked, since each of these programs may stop (a run ends, a
server whose socket broke exits).

Expected to be violated, each a finding in `PROJECT.json`:

| run | property | what happens |
|---|---|---|
| `session_sisl_client` | `EveryClientAnswered` | the default SiSL build waits for a lambda the client never sends |
| `session_restart` | `RestartCompletes` | after a client dies between its connects ALICE waits for BOB, BOB for a client, the next client for ALICE |
| `localize_emp_gn_do` | `ZeroStepIffNoError` | EMP's oblivious Gauss-Newton masks one bit, with the wrong polarity |
| `localize_aby_do` | `ZeroStepIffNoError` | ABY's oblivious loops clear the step above the threshold and keep it under it |
| `svd_cancellation` | `CancellationEnds` | the oblivious cancellation goes on after the point where the reference breaks |

## Proofs

`tlapm` checks eight modules of proofs. They hold for all values of the constants
under the assumptions named in the modules (`SessionAssumption`,
`LocalizeAssumption`, `SvdAssumption`, `ObliviousAssumption`, `ShareCarryAssumption`,
`FixedPointAssumption`: bounds are naturals, sets are of the right kind, the powers
of two are powers of two).

`SessionTypeOK`. Any clients, any number of requests and iterations, any flow, crashes
anywhere. `SessionInv` adds to the types `HoldsClient`: a party that polls or serves holds a
client, one that waits for its peer or has exited holds none. Which client it is
is not for this invariant to say.

`SessionSameCircuit`, `SessionServerReadsInStep`, `SessionClientReadsInStep`. What is
in a socket depends on how far the processes at its ends have come. `QueueInv` states
it per client, once for each party (`AliceSide`, `BobSide`): the contents of the two
queues (`AliceUp`, `AliceDown`, ...), which must hold for a client that has died as
well, and for a live one how far the party is ahead or behind (`AliceLink`,
`BobLink`): the labels ALICE has read and those on the way are those the client has
sent, the shares it has taken and those on the way are those a party has revealed.
`Place` adds the counters, and that in the flows with lambda ALICE never finishes
her inputs. There is one lemma per action; a step of a party disturbs one side of one
client (`HoldingStep`), a step of a client disturbs no other client
(`ClientOnlyStep`).

`SessionSameClient`, `SessionIterationsInStep`, `SessionNothingLeftOver`. What is in the
socket between the parties is the difference of how far they have come: `Away`, the messages
ALICE has sent in the request, less `Taken`, those BOB has read. `Meet` lists the five
phases two parties with an open socket can be in: `NeitherBegan`, `AliceFirst`, `Running`,
`Answered`, `BobDone`. In the first two they may hold a client each. The third is only entered
when BOB has read the client's seed, which the client sends after ALICE's delta; `Met` carries
that from the client's script to the parties: a client that has had anything from ALICE is
held by both while they are connected (`Together`). This is `SameClient`, and why it cannot be
had from the accepts alone. The last phases differ between the builds, as in LOOP_LEAK ALICE
stops after each iteration for BOB's flag. `BobNet` and `AliceNet` say what is left in a
socket when the peer has gone. `Meet` is only kept because a client does not ask again
before both have answered (`AliceLink`, `BobLink` of `QueueInv`); `Clean` carries that to the
start of the next request. From it follow the order of the tables, that no two reads
wait for each other, and that an answered client leaves nothing behind.

`SessionNoCircularWait`. A client that waits for its delta or a share, with both parties at
its connections, always leaves one of them with something to do. The phases of `Meet`
decide who that is; two facts about ALICE are missing and are proved first (`AskInv`): an
input she waits for is one the client still sends, which is where the flows
with lambda fail, and a client that waits for its delta finds it once she has sent it.

`SessionJointRequestUnbroken`, an action property. A restart can meet the peer anywhere in
its script, so the invariant (`GoneInv`) is about what a party finds when its peer has gone while
their client lives. Either the peer left before the two were at work together
(`AliceLeftFirst`, `BobLeftFirst`), and the one left behind is stopped at the base
OTs, before it reads a label; or the peer had done all of its part (`AliceLeftLast`,
`BobLeftLast`): its shares are on their way, and each message the other still has to
read is in its socket. `BothGone` says the same of a client both have left: no share, or all
of them. It rests on `Meet`, `AliceLink` and `BobLink` at the moment the first party
closes. With `SessionNoCircularWait` this is the safe half of `JointRequestEnds`; that
the request does end needs the fairness and stays with TLC.

`SessionIsOffload`: `Spec => IsOffload`, for any clients and requests, with crashes anywhere. What
is to be shown of each action is where the phase of one client goes, and that no other phase moves
(`PhaseFrame`). `HandshakeIsBegin` needs that no other request is begun
(`OneAtATime`): another client has no party, as both have the same (`Meet`), and was left
with no share or with all (`BothGone`). `RevealIsFinish` and `RecvShareIsAnswer` count shares
(`AliceLink`, `BobLink`, `Given`), and that both parties are back in the poll when the
client takes the last is `QueueInv` and `Clean` of the next state. `CloseIsOffload` and
`ClientEndsOffload`, that restarts, exits and clients that give up interrupt no request, are
`JoinedStays` and `GivesUpEarly`, the lemmas of `SessionJointRequestUnbroken`. `ServedInv` adds
that a client that is not done has a request left.

`LocalizeTypeOK`. All ten programs keep lambda between its bounds and the loop
counter in range.

`LocalizeReportIsRight`. The convergence EMP reports is read off the loop counter,
which is compared with the maximum. The strengthening `ReportInv` says why a loop
that broke stopped before the maximum, on which of the two norms, and that every
step but the last was taken above the threshold.

`LocalizeIsDescent`. `Spec => IsDescent` under `OnlyDescents`: the programs are
those of `Descents`, without the two oblivious sets that are wrong. The surplus iteration of
BuildLM is a stutter (`SurplusIsStutter`), each other iteration is `D!Try`
(`IterateIsTry`), a failed inverse is `D!Fail`, and running out of tries is `D!GiveUp`.

`ObliviousTypeOK`, `ObliviousIsSvd`. Any number of columns and iterations. `IInv`
has three parts: the types; `ZeroInv`, `rv1[0]` is exactly zero whenever a search
starts, although a sweep from column 0 overwrites it; `SearchInv`, whose `Searched(n)`
says what the masked search knows after row n + 1: the first split and which of
the two tests made it. With it the end of the search is `S!Split`, and the search
never ends empty. Each later turn is `S!Cancel`, `S!Sweep` and so on, or
masked and a stutter (one lemma per action: `SearchRefines` to `FinishRefines`). The
refinement assumes `RunsThrough`, that no cancellation ends early; `svd_cancellation`
shows that it cannot be dropped.

`SvdTypeOK`, `SvdAlwaysSplits`, `SvdDecoupled`. Any number of columns and iterations.
`FirstIsZero` (rv1[0] is exactly zero whenever a search starts) makes the search
stop at row 0 at the latest. A value is taken as converged with l = k either because rv1[k] was negligible or
after a cancellation that has zeroed it.

`ShareCarryLoopsTypeOK`, `ShareCarryIsSvd`. The same strengthening, carried through the
circuits of a search that is now many steps, each of them a stutter of `Svd` but the last.

`ShareCarryTypeOK`, `ShareCarryLiveShares`, `ShareCarrySharingFits`,
`ShareCarryReadsOutputs`, `ShareCarryLatestValues`, `ShareCarryEveryExecCounted`. Any
number of columns (so of calls in a circuit's prologue), any bounds and builds. None of these
is inductive: whether a call is right depends on all that were made before it. Their invariant
looks ahead instead. A `Knowledge` says which shares are on the circuit, by sharing, which were put
out, which shares, raw shares and buffers have the latest value, and how far the circuit is
(`Holds`: it is true of the party). `Checks` is what a call asks to be known, `Then` what is
known after it, and `Leads(K, s, L)` says that the calls `s` can all be made from `K` and
end in `L`. `CallsInv` says that what is known leads, by the calls in `todo`, to
`Known(at)`, the knowledge stated once for each place of the program. A step takes
the first call off `todo` (`LeadsFirst`, and `PerformHolds`, one case per kind of call); a
decision appends calls (`LeadsOn`), and for each piece of the circuit-building code one lemma
shows where it leads: `SubCircuit` with its conversions, the three sub-circuits of the
SVD, the two halves of an iteration, the dummy circuits at both ends. TLC checked `Known` on
the instance of `share_carry` before it was proved. The hypothesis `KnownCallers` leaves
out one combination, `test_lm_circuit` in a SiSL build that prefers Yao, which nothing calls;
with it in `MCBuilds` TLC finds `SharingFits` violated (see Observations).

`FixedPointTypeOK`, `FixedPointSqrtIsRoot`, `FixedPointProduct`, `FixedPointQuotient`. Any
number of bits, all arguments. The types are those of arguments, results and stored locals. The invariant of the root is `RootInv`: with n the number whose root is taken
and s the root of the bit at hand, a power of two, the loop has found a q with
q^2 <= n < (q + 2s)^2, and keeps it as res = 2qs and op = n - q^2. Each round
halves s and decides on q (`HigherBit`, `LastBit`); `AlignInv` says that no bit is
skipped before; the last conversion is exact as the root is below `Half`
(`HighestBit`). Quotients are bounded by `QuotientRange`.

Liveness and all properties under fairness stay with TLC (`AcceptedAnswered`,
`JointRequestEnds`, `GoneClientReleased`, `Terminates`).

## Observations

What the code does otherwise than it says, and no run shows:

* `test_lm_circuit` (aby-float-server/lmlocalization.cpp:876) takes boolean inputs only
  in the LOOP_LEAK build, where the comments there and at line 686 ask for them whenever
  raw shares are made. The SiSL build makes raw shares as well: under a preference for
  Yao the pose comes back in boolean shares and is put out on a Yao circuit.
  `localize_wrapper.hpp:61` tests for both builds.
* `modf` of a negative number (fixed_point.h:776) promises parts "each of which has the
  same sign as the argument"; the masks round down, so modf(-1) gives 0 and 0, and the parts
  of -1.25 are -1 and -0.75.
* `cos` and `sin` (fixed_point.h:856) promise a reduction to -Pi .. +Pi; arguments
  below -Pi are reduced to -2 Pi .. 0. Their callers pass the norm of a vector.
* The cleartext `lm` ends with `return -1` when its inverse fails (lmlocalization.hpp:242). Its
  type is `bool`, so it reports that it converged; `gaussNewton` (line 214) returns false.
* When two clients are at the door at once, ALICE may let in one and BOB the other: a
  connection is complete before it is accepted, and the second one in a queue is reset when the
  listening socket is closed. Both clients end at a reset connection, neither answered, and
  the parties then end or restart, as with a client that has died. `SameClient`
  and `JointRequestUnbroken` say what this can never do: it does not mix two requests, and does not
  disturb one that both parties have begun.
* `exp` (fixed_point.h:829) multiplies by the factor of a bit when the bit is clear.

## Not modelled

Floating point arithmetic, and with it convergence itself: the models say what
the programs do with any outcome of their comparisons. Garbling and oblivious
transfer are emp's and ABY's. Straight-line circuits (matrix product,
projection, Rodrigues, sine and cosine, the arithmetic inside an iteration) have no control to
check. The conversions of the fixed point type and its series are arithmetic on
floating point constants; the EMP fixed point class repeats the cleartext one over emp
integers and is used by its own tests only. The POWER_TESTING flow is a constant of `Session` that no run
uses. The benchmark drivers, logs, plots, scripts and docker files hold no protocol of
their own.

## Plan

1. `Session`, `Localize`, `Svd` and their proofs: done.
2. `ShareCarry`, its refinement to `Svd` and the proofs about its calls: done.
3. `FixedPoint` and its proofs: done; open are the conversions and the EMP class.
4. The queue invariants of `Session`: proved.
