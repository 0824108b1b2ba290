------------------------------ MODULE Session ------------------------------
(***************************************************************************)
(* One localization service: the two server processes of server-lm.cpp     *)
(* (ALICE the garbler, BOB the evaluator) and the clients that offload a   *)
(* localization to them as client.cpp does.  Every process is a straight   *)
(* script of blocking sends and receives, so the state is where each       *)
(* process is in its script and what is in the sockets between them.       *)
(*                                                                         *)
(* A socket is a FIFO queue per direction.  A read from a socket whose     *)
(* other end is closed first drains the queue and then ends the process,   *)
(* which is what emp's NetIO does; a write to one is lost or ends the      *)
(* process.  Closing an end discards what was not read at that end.        *)
(*                                                                         *)
(* A client's connection is complete as soon as it is in the queue of the  *)
(* party's listening socket; the party's accept takes the first of them.   *)
(* The queue is not bounded here.  A client whose connection would be      *)
(* refused tries again, as one whose Connect is not taken yet.             *)
(***************************************************************************)
EXTENDS Naturals, Sequences

CONSTANTS Client,      \* the client processes, each run once
          None,        \* no client
          Points,      \* Points[c]: the points of c's request
          Requests,    \* requests a client makes on its connections (client.cpp: 1)
          Flow,        \* PPL_FLOW of the servers
          MaxItr,      \* LM_MAX_ITR
          Crashing,    \* the clients that may die at any moment
          Prompt       \* a live client never lets the 3 seconds pass

DO == "DO"
LOOP_LEAK == "LOOP_LEAK"
SiSL == "SiSL"
POWER_TESTING == "POWER_TESTING"

ASSUME SessionAssumption ==
  /\ None \notin Client
  /\ Points \in [Client -> Nat \ {0}]
  /\ Requests \in Nat \ {0}
  /\ MaxItr \in Nat \ {0}
  /\ Flow \in {DO, LOOP_LEAK, SiSL, POWER_TESTING}
  /\ Crashing \subseteq Client
  /\ Prompt \in BOOLEAN

ALICE == 1
BOB == 2
Party == {ALICE, BOB}
Peer(p) == 3 - p

VARIABLES
  pc,      \* pc[p]: where party p is
  ttp,     \* ttp[p]: the client whose connection p's accept returns or has
           \* returned, or None
  backlog, \* backlog[p]: the clients whose connections wait behind that one
  late,    \* late[p]: the last clock reading of the poll was >= 3 seconds
  ready,   \* ready[p]: bytes_ready > 0
  numPts,  \* numPts[p]: the point count p received for the request at hand
  k,       \* k[p]: inputs bound, iterations run or outputs revealed so far
  cpc,     \* cpc[c]: where client c is
  ck,      \* ck[c]: labels sent or poses received so far in this request
  served,  \* served[c]: requests of c that were answered
  up,      \* up[p][c]: sent by c, not yet read by p
  down,    \* down[p][c]: sent by p, not yet read by c
  net      \* net[p]: sent by p's peer over io, not yet read by p

vars == <<pc, ttp, backlog, late, ready, numPts, k, cpc, ck, served, up, down, net>>

----------------------------------------------------------------------------
(* Messages.  A label stands for the 32 wire labels of one float.          *)

Msg(name, i) == [name |-> name, i |-> i]
MsgName == {"numPts", "seed", "delta", "objectX", "objectY", "objectZ",
            "imageX", "imageY", "threeDPts", "twoDPts", "f", "cx", "cy", "x",
            "lambda", "errNorm", "setup", "tables", "flag"}
Message == [name : MsgName, i : Nat]

\* Mutant: the pose guess is indexed from a wrong base.
ClientLabelWrongBase(n, j) ==
  IF j < 5 * n
  THEN Msg(<<"objectX", "objectY", "objectZ", "imageX", "imageY">>[(j % 5) + 1], j \div 5)
  ELSE IF j < 5 * n + 3
  THEN Msg(<<"f", "cx", "cy">>[j - 5 * n + 1], 0)
  ELSE Msg("x", j - 5 * n - 9)
\* Mutant: the image coordinates of a point are sent before the object's.
ClientLabelImageFirst(n, j) ==
  IF j < 5 * n
  THEN Msg(<<"imageX", "imageY", "objectX", "objectY", "objectZ">>[(j % 5) + 1], j \div 5)
  ELSE IF j < 5 * n + 3
  THEN Msg(<<"f", "cx", "cy">>[j - 5 * n + 1], 0)
  ELSE Msg("x", j - 5 * n - 3)
\* The k-th label a client sends (k from 0) for a request of n points.
ClientLabel(n, j) ==
  IF j < 5 * n
  THEN Msg(<<"objectX", "objectY", "objectZ", "imageX", "imageY">>[(j % 5) + 1], j \div 5)
  ELSE IF j < 5 * n + 3
  THEN Msg(<<"f", "cx", "cy">>[j - 5 * n + 1], 0)
  ELSE Msg("x", j - 5 * n - 3)
\* Mutant: the client sends a label too many.
ClientLabelsExtra(n) == 5 * n + 10
\* The client has no lambda to send.
ClientLabels(n) == 5 * n + 9

\* The k-th input a server constructs with Float(0, TTP), as the array
\* element it is stored in.
NeedsLambda == Flow \in {SiSL, POWER_TESTING}
ServerInput(n, j) ==
  IF j < 5 * n
  THEN LET i == j \div 5
       IN  <<Msg("threeDPts", i), Msg("threeDPts", n + i), Msg("threeDPts", 2 * n + i),
             Msg("twoDPts", 2 * i), Msg("twoDPts", 2 * i + 1)>>[(j % 5) + 1]
  ELSE IF j < 5 * n + 3
  THEN Msg(<<"f", "cx", "cy">>[j - 5 * n + 1], 0)
  ELSE IF j < 5 * n + 9 THEN Msg("x", j - 5 * n - 3) ELSE Msg("lambda", 0)
\* Mutant: the garbler stops one input early.
ServerInputsShort(n) == 5 * n + 8
\* Mutant: the garbler reads a lambda in every build.
ServerInputsLambda(n) == 5 * n + 10
ServerInputs(n) == 5 * n + (IF NeedsLambda THEN 10 ELSE 9)

\* The k-th output a server reveals to the client.
ServerOutput(j) == IF j < 6 THEN Msg("x", j) ELSE Msg("errNorm", 0)
\* Mutant: the last coordinate of the pose is not revealed.
ServerOutputsFive == 5
ServerOutputs == IF NeedsLambda THEN 7 ELSE 6
ClientOutputs == 6

\* Exchanges of garbled tables: LM iterations, or the one of SiSL.
Rounds == IF Flow = SiSL THEN 1 ELSE IF Flow = POWER_TESTING THEN 0 ELSE MaxItr

----------------------------------------------------------------------------
(* Sockets.                                                                *)

Serving == {"numPts", "setup", "handshake", "input", "compute", "flag", "reveal"}
IoOpen(p) == pc[p] \notin {"io", "exited"}
Ended(c) == cpc[c] \in {"done", "gaveUp", "crashed"}
\* c tries to connect to BOB, who is not listening.
KeptWaiting(c) == cpc[c] = "connectBob" /\ pc[BOB] # "ttp"

\* What p has to read from its client; p reads its head; p writes m.
FromClient(p) == up[p][ttp[p]]
ReadClient(p) ==
  /\ FromClient(p) # << >>
  /\ up' = [up EXCEPT ![p][ttp[p]] = Tail(@)]
ToClient(p, m) ==
  down' = IF Ended(ttp[p]) THEN down ELSE [down EXCEPT ![p][ttp[p]] = Append(@, m)]

\* p reads the head of what its peer sent; p writes m to its peer.
ReadPeer(p) ==
  /\ net[p] # << >>
  /\ net' = [net EXCEPT ![p] = Tail(@)]
ToPeer(p, m) ==
  net' = IF IoOpen(Peer(p)) THEN [net EXCEPT ![Peer(p)] = Append(@, m)] ELSE net

\* c reads the head of what p sent; c writes m to p.
ReadParty(c, p) ==
  /\ down[p][c] # << >>
  /\ down' = [down EXCEPT ![p][c] = Tail(@)]
ToParty(c, p, m) ==
  up' = IF ttp[p] = c THEN [up EXCEPT ![p][c] = Append(@, m)] ELSE up

\* p closes io and ttpio and goes on at s.
Close(p, s) ==
  /\ pc' = [pc EXCEPT ![p] = s]
  /\ ttp' = [ttp EXCEPT ![p] = None]
  /\ up' = IF ttp[p] = None THEN up ELSE [up EXCEPT ![p][ttp[p]] = << >>]
  /\ net' = [net EXCEPT ![p] = << >>]
  /\ numPts' = [numPts EXCEPT ![p] = 0]
  /\ k' = [k EXCEPT ![p] = 0]
  /\ late' = [late EXCEPT ![p] = FALSE]
  /\ ready' = [ready EXCEPT ![p] = FALSE]

----------------------------------------------------------------------------
(* The servers: the loops of main.                                         *)

\* ALICE accepts on port 8080 the connection BOB makes; both go on to accept
\* a client on a port of their own.  BOB is the only one who connects there, so
\* connecting and accepting are one step.
ConnectIo ==
  /\ pc[ALICE] = "io"
  /\ pc[BOB] = "io"
  /\ pc' = [p \in Party |-> "ttp"]
  /\ UNCHANGED <<ttp, backlog, late, ready, numPts, k, cpc, ck, served, up, down, net>>

\* Party p returns from accept with the connection that came first and closes
\* its listening socket, which resets the connections behind it.
Accept(p) ==
  /\ pc[p] = "ttp"
  /\ ttp[p] # None
  /\ pc' = [pc EXCEPT ![p] = "poll"]
  /\ backlog' = [backlog EXCEPT ![p] = {}]
  /\ UNCHANGED <<ttp, late, ready, numPts, k, cpc, ck, served, up, down, net>>

\* Mutant: the clock is not read again.
PollNoClock(p) ==
  /\ pc[p] = "poll"
  /\ ~late[p] /\ ~ready[p]
  /\ ready' = [ready EXCEPT ![p] = FromClient(p) # << >>]
  /\ UNCHANGED <<pc, ttp, backlog, late, numPts, k, cpc, ck, served, up, down, net>>
\* One turn of the poll loop: the clock is read, then the bytes in ttpio.
Poll(p) ==
  /\ pc[p] = "poll"
  /\ ~late[p] /\ ~ready[p]
  /\ \E t \in BOOLEAN :
       /\ t => (Prompt => Ended(ttp[p]) \/ KeptWaiting(ttp[p]))
       /\ late' = [late EXCEPT ![p] = t]
  /\ ready' = [ready EXCEPT ![p] = FromClient(p) # << >>]
  /\ UNCHANGED <<pc, ttp, backlog, numPts, k, cpc, ck, served, up, down, net>>

\* Mutant: only ttpio is replaced.
RestartKeepsIo(p) ==
  /\ pc[p] = "poll"
  /\ late[p]
  /\ Close(p, "ttp")
  /\ UNCHANGED <<backlog, cpc, ck, served, down>>
\* The deadline passed: leave the inner loop, delete io and ttpio.
Restart(p) ==
  /\ pc[p] = "poll"
  /\ late[p]
  /\ Close(p, "io")
  /\ UNCHANGED <<backlog, cpc, ck, served, down>>

\* There is data and the deadline did not pass: call lm_server.
Serve(p) ==
  /\ pc[p] = "poll"
  /\ ready[p] /\ ~late[p]
  /\ pc' = [pc EXCEPT ![p] = "numPts"]
  /\ ready' = [ready EXCEPT ![p] = FALSE]
  /\ UNCHANGED <<ttp, backlog, late, numPts, k, cpc, ck, served, up, down, net>>

----------------------------------------------------------------------------
(* The servers: lm_server.                                                 *)

\* Whatever integer comes first on ttpio is the number of points.
RecvNumPts(p) ==
  /\ pc[p] = "numPts"
  /\ ReadClient(p)
  /\ numPts' = [numPts EXCEPT ![p] = Head(FromClient(p)).i]
  /\ pc' = [pc EXCEPT ![p] = "setup"]
  /\ UNCHANGED <<ttp, backlog, late, ready, k, cpc, ck, served, down, net>>

\* setup_semi_honest: the garbler gives the client its delta, the evaluator
\* gets the client's seed, and the two exchange the base OTs over io.
SetupAlice ==
  /\ pc[ALICE] = "setup"
  /\ ToClient(ALICE, Msg("delta", 0))
  /\ ToPeer(ALICE, Msg("setup", 0))
  /\ pc' = [pc EXCEPT ![ALICE] = "handshake"]
  /\ UNCHANGED <<ttp, backlog, late, ready, numPts, k, cpc, ck, served, up>>

SetupBob ==
  /\ pc[BOB] = "setup"
  /\ ReadClient(BOB)
  /\ ToPeer(BOB, Msg("setup", 0))
  /\ pc' = [pc EXCEPT ![BOB] = "handshake"]
  /\ UNCHANGED <<ttp, backlog, late, ready, numPts, k, cpc, ck, served, down>>

Handshake(p) ==
  /\ pc[p] = "handshake"
  /\ ReadPeer(p)
  /\ pc' = [pc EXCEPT ![p] = "input"]
  /\ UNCHANGED <<ttp, backlog, late, ready, numPts, k, cpc, ck, served, up, down>>

\* Mutant: the counter is not reset for the outputs.
AfterRoundNoReset(p, i) ==
  /\ pc' = [pc EXCEPT ![p] = IF i = Rounds THEN "reveal" ELSE "compute"]
  /\ k' = [k EXCEPT ![p] = i]
\* Where a party goes when i exchanges are behind it.
AfterRound(p, i) ==
  /\ pc' = [pc EXCEPT ![p] = IF i = Rounds THEN "reveal" ELSE "compute"]
  /\ k' = [k EXCEPT ![p] = IF i = Rounds THEN 0 ELSE i]

\* ALICE reads the labels of her next input; BOB draws all of his from the
\* seed.  After the last input the computation starts.
InputAlice ==
  /\ pc[ALICE] = "input"
  /\ ReadClient(ALICE)
  /\ IF k[ALICE] + 1 = ServerInputs(numPts[ALICE])
     THEN AfterRound(ALICE, 0)
     ELSE k' = [k EXCEPT ![ALICE] = @ + 1] /\ pc' = pc
  /\ UNCHANGED <<ttp, backlog, late, ready, numPts, cpc, ck, served, down, net>>

InputBob ==
  /\ pc[BOB] = "input"
  /\ AfterRound(BOB, 0)
  /\ UNCHANGED <<ttp, backlog, late, ready, numPts, cpc, ck, served, up, down, net>>

\* Mutant: ALICE garbles the last iteration twice instead of the first.
GarbleAliceSameIteration ==
  /\ pc[ALICE] = "compute"
  /\ ToPeer(ALICE, Msg("tables", (k[ALICE] + 1) % MaxItr))
  /\ IF Flow = LOOP_LEAK
     THEN pc' = [pc EXCEPT ![ALICE] = "flag"] /\ k' = k
     ELSE AfterRound(ALICE, k[ALICE] + 1)
  /\ UNCHANGED <<ttp, backlog, late, ready, numPts, cpc, ck, served, up, down>>
\* ALICE garbles one iteration.  In LOOP_LEAK its last gate is the
\* convergence flag, which is revealed to both.
GarbleAlice ==
  /\ pc[ALICE] = "compute"
  /\ ToPeer(ALICE, Msg("tables", k[ALICE]))
  /\ IF Flow = LOOP_LEAK
     THEN pc' = [pc EXCEPT ![ALICE] = "flag"] /\ k' = k
     ELSE AfterRound(ALICE, k[ALICE] + 1)
  /\ UNCHANGED <<ttp, backlog, late, ready, numPts, cpc, ck, served, up, down>>

\* Mutant: ALICE does not leave the loop on the flag.
FlagAliceIgnores ==
  /\ pc[ALICE] = "flag"
  /\ ReadPeer(ALICE)
  /\ AfterRound(ALICE, k[ALICE] + 1)
  /\ UNCHANGED <<ttp, backlog, late, ready, numPts, cpc, ck, served, up, down>>
FlagAlice ==
  /\ pc[ALICE] = "flag"
  /\ ReadPeer(ALICE)
  /\ AfterRound(ALICE, IF Head(net[ALICE]).i = 1 THEN Rounds ELSE k[ALICE] + 1)
  /\ UNCHANGED <<ttp, backlog, late, ready, numPts, cpc, ck, served, up, down>>

\* Mutant: BOB leaves the loop before he tells ALICE.
EvaluateBobSilent ==
  /\ pc[BOB] = "compute"
  /\ net[BOB] # << >>
  /\ \E flag \in {0, 1} :
       /\ flag = 1 => Flow = LOOP_LEAK /\ k[BOB] > 0
       /\ net' = [net EXCEPT
            ![BOB] = Tail(@),
            ![ALICE] = IF Flow = LOOP_LEAK /\ IoOpen(ALICE) /\ flag = 0
                       THEN Append(@, Msg("flag", flag)) ELSE @]
       /\ AfterRound(BOB, IF flag = 1 THEN Rounds ELSE k[BOB] + 1)
  /\ UNCHANGED <<ttp, backlog, late, ready, numPts, cpc, ck, served, up, down>>
\* BOB evaluates one iteration; he opens the flag first and tells ALICE.
\* prevErrNorm is the largest float in the first iteration, so that one
\* never converges.
EvaluateBob ==
  /\ pc[BOB] = "compute"
  /\ net[BOB] # << >>
  /\ \E flag \in {0, 1} :
       /\ flag = 1 => Flow = LOOP_LEAK /\ k[BOB] > 0
       /\ net' = [net EXCEPT
            ![BOB] = Tail(@),
            ![ALICE] = IF Flow = LOOP_LEAK /\ IoOpen(ALICE)
                       THEN Append(@, Msg("flag", flag)) ELSE @]
       /\ AfterRound(BOB, IF flag = 1 THEN Rounds ELSE k[BOB] + 1)
  /\ UNCHANGED <<ttp, backlog, late, ready, numPts, cpc, ck, served, up, down>>

\* The shares of one output go to the client.  After the last one lm_server
\* returns and the poll starts afresh.
Reveal(p) ==
  /\ pc[p] = "reveal"
  /\ ToClient(p, ServerOutput(k[p]))
  /\ IF k[p] + 1 = ServerOutputs
     THEN /\ pc' = [pc EXCEPT ![p] = "poll"]
          /\ k' = [k EXCEPT ![p] = 0]
          /\ numPts' = [numPts EXCEPT ![p] = 0]
     ELSE /\ k' = [k EXCEPT ![p] = @ + 1]
          /\ UNCHANGED <<pc, numPts>>
  /\ UNCHANGED <<ttp, backlog, late, ready, cpc, ck, served, up, net>>

----------------------------------------------------------------------------
(* A process whose socket broke.                                           *)

\* The reads and writes each place of lm_server does.
ReadsClient(p) == \/ pc[p] = "numPts"
                  \/ pc[p] = "setup" /\ p = BOB
                  \/ pc[p] = "input" /\ p = ALICE
ReadsPeer(p) == \/ pc[p] \in {"handshake", "flag"}
                \/ pc[p] = "compute" /\ p = BOB
WritesClient(p) == pc[p] = "reveal" \/ (pc[p] = "setup" /\ p = ALICE)
WritesPeer(p) == pc[p] = "setup" \/ (pc[p] = "compute" /\ p = ALICE)

\* The process of party p ends at a broken socket.
Exit(p) ==
  /\ \/ ReadsClient(p) /\ FromClient(p) = << >> /\ Ended(ttp[p])
     \/ ReadsPeer(p) /\ net[p] = << >> /\ ~IoOpen(Peer(p))
     \/ WritesClient(p) /\ Ended(ttp[p])
     \/ WritesPeer(p) /\ ~IoOpen(Peer(p))
  /\ Close(p, "exited")
  /\ UNCHANGED <<backlog, cpc, ck, served, down>>

----------------------------------------------------------------------------
(* The clients.                                                            *)

Hop(c, s) == cpc' = [cpc EXCEPT ![c] = s]

\* A client connects to ALICE first, then to BOB, and tries each until it is
\* listening.  The kernel completes the connection: the client goes on before
\* the party returns from accept, and whether or not it is the first to connect.
Connect(c) ==
  \E p \in Party :
    /\ pc[p] = "ttp"
    /\ cpc[c] = IF p = ALICE THEN "connectAlice" ELSE "connectBob"
    /\ Hop(c, IF p = ALICE THEN "connectBob" ELSE "ptsAlice")
    /\ IF ttp[p] = None
       THEN ttp' = [ttp EXCEPT ![p] = c] /\ UNCHANGED backlog
       ELSE backlog' = [backlog EXCEPT ![p] = @ \cup {c}] /\ UNCHANGED ttp
    /\ UNCHANGED <<pc, late, ready, numPts, k, ck, served, up, down, net>>

\* numPts goes to ALICE and then to BOB.
SendNumPts(c) ==
  /\ \/ cpc[c] = "ptsAlice" /\ ToParty(c, ALICE, Msg("numPts", Points[c])) /\ Hop(c, "ptsBob")
     \/ cpc[c] = "ptsBob" /\ ToParty(c, BOB, Msg("numPts", Points[c])) /\ Hop(c, "delta")
  /\ UNCHANGED <<pc, ttp, backlog, late, ready, numPts, k, ck, served, down, net>>

RecvDelta(c) ==
  /\ cpc[c] = "delta"
  /\ ReadParty(c, ALICE)
  /\ Hop(c, "seed")
  /\ UNCHANGED <<pc, ttp, backlog, late, ready, numPts, k, ck, served, up, net>>

SendSeed(c) ==
  /\ cpc[c] = "seed"
  /\ ToParty(c, BOB, Msg("seed", 0))
  /\ Hop(c, "labels")
  /\ UNCHANGED <<pc, ttp, backlog, late, ready, numPts, k, ck, served, down, net>>

SendLabel(c) ==
  /\ cpc[c] = "labels"
  /\ ToParty(c, ALICE, ClientLabel(Points[c], ck[c]))
  /\ IF ck[c] + 1 = ClientLabels(Points[c])
     THEN Hop(c, "poseAlice") /\ ck' = [ck EXCEPT ![c] = 0]
     ELSE ck' = [ck EXCEPT ![c] = @ + 1] /\ cpc' = cpc
  /\ UNCHANGED <<pc, ttp, backlog, late, ready, numPts, k, served, down, net>>

\* The shares of an output come from ALICE and then from BOB.  After the
\* last output the client exits, unless it has another request.
RecvShare(c) ==
  /\ \/ /\ cpc[c] = "poseAlice"
        /\ ReadParty(c, ALICE)
        /\ Hop(c, "poseBob")
        /\ UNCHANGED <<ck, served>>
     \/ /\ cpc[c] = "poseBob"
        /\ down[BOB][c] # << >>
        /\ IF ck[c] + 1 < ClientOutputs
           THEN /\ ck' = [ck EXCEPT ![c] = @ + 1]
                /\ Hop(c, "poseAlice")
                /\ down' = [down EXCEPT ![BOB][c] = Tail(@)]
                /\ UNCHANGED served
           ELSE /\ ck' = [ck EXCEPT ![c] = 0]
                /\ served' = [served EXCEPT ![c] = @ + 1]
                /\ IF served[c] + 1 < Requests
                   THEN /\ Hop(c, "ptsAlice")
                        /\ down' = [down EXCEPT ![BOB][c] = Tail(@)]
                   ELSE /\ Hop(c, "done")
                        /\ down' = [p \in Party |-> [down[p] EXCEPT ![c] = << >>]]
  /\ UNCHANGED <<pc, ttp, backlog, late, ready, numPts, k, up, net>>

\* The client's process ends before the answer: at a socket the party at the
\* other end has closed, or killed.
AtParty(c) ==
  CASE cpc[c] \in {"ptsAlice", "delta", "labels", "poseAlice"} -> ALICE
    [] cpc[c] \in {"ptsBob", "seed", "poseBob"} -> BOB
    [] OTHER -> 0
ClientEnds(c, how) ==
  /\ Hop(c, how)
  /\ ck' = [ck EXCEPT ![c] = 0]
  /\ down' = [p \in Party |-> [down[p] EXCEPT ![c] = << >>]]
  /\ UNCHANGED <<pc, ttp, backlog, late, ready, numPts, k, served, up, net>>
ClientExit(c) ==
  /\ AtParty(c) # 0
  /\ ttp[AtParty(c)] # c /\ c \notin backlog[AtParty(c)]
  /\ cpc[c] \in {"delta", "poseAlice", "poseBob"} => down[AtParty(c)][c] = << >>
  /\ ClientEnds(c, "gaveUp")
Crash(c) ==
  /\ c \in Crashing
  /\ ~Ended(c)
  /\ ClientEnds(c, "crashed")

----------------------------------------------------------------------------

Init ==
  /\ pc = [p \in Party |-> "io"]
  /\ ttp = [p \in Party |-> None]
  /\ backlog = [p \in Party |-> {}]
  /\ late = [p \in Party |-> FALSE]
  /\ ready = [p \in Party |-> FALSE]
  /\ numPts = [p \in Party |-> 0]
  /\ k = [p \in Party |-> 0]
  /\ cpc = [c \in Client |-> "connectAlice"]
  /\ ck = [c \in Client |-> 0]
  /\ served = [c \in Client |-> 0]
  /\ up = [p \in Party |-> [c \in Client |-> << >>]]
  /\ down = [p \in Party |-> [c \in Client |-> << >>]]
  /\ net = [p \in Party |-> << >>]

LmServer(p) ==
  \/ RecvNumPts(p)
  \/ p = ALICE /\ (SetupAlice \/ InputAlice \/ GarbleAlice \/ FlagAlice)
  \/ p = BOB /\ (SetupBob \/ InputBob \/ EvaluateBob)
  \/ Handshake(p)
  \/ Reveal(p)
  \/ Exit(p)

PartyStep(p) == Accept(p) \/ Poll(p) \/ Restart(p) \/ Serve(p) \/ LmServer(p)

ClientStep(c) ==
  \/ Connect(c) \/ SendNumPts(c) \/ RecvDelta(c) \/ SendSeed(c) \/ SendLabel(c)
  \/ RecvShare(c) \/ ClientExit(c)

Next ==
  \/ ConnectIo
  \/ \E p \in Party : PartyStep(p)
  \/ \E c \in Client : ClientStep(c) \/ Crash(c)

Spec == Init /\ [][Next]_vars

\* No process stops in the middle of its script, a client that keeps trying to
\* connect to a listening party does, and the clock of a poll runs.
Fairness ==
  /\ WF_vars(ConnectIo)
  /\ \A p \in Party : WF_vars(PartyStep(p))
  /\ \A c \in Client : WF_vars(ClientStep(c))
FairSpec == Spec /\ Fairness

----------------------------------------------------------------------------
(* Properties.                                                             *)

PartyPlace == {"io", "ttp", "poll", "exited"} \cup Serving
ClientPlace == {"connectAlice", "connectBob", "ptsAlice", "ptsBob", "delta", "seed",
                "labels", "poseAlice", "poseBob", "done", "gaveUp", "crashed"}

\* Every variable has its type.
TypeOK ==
  /\ pc \in [Party -> PartyPlace]
  /\ ttp \in [Party -> Client \cup {None}]
  /\ backlog \in [Party -> SUBSET Client]
  /\ late \in [Party -> BOOLEAN]
  /\ ready \in [Party -> BOOLEAN]
  /\ numPts \in [Party -> Nat]
  /\ k \in [Party -> Nat]
  /\ cpc \in [Client -> ClientPlace]
  /\ ck \in [Client -> Nat]
  /\ served \in [Client -> Nat]
  /\ up \in [Party -> [Client -> Seq(Message)]]
  /\ down \in [Party -> [Client -> Seq(Message)]]
  /\ net \in [Party -> Seq(Message)]

\* Past the handshake of setup_semi_honest both parties are at work on a request.
Joined(p) == pc[p] \in {"input", "compute", "flag", "reveal"}

\* Clients at the door may be let in by one party each.  The two never get past
\* the handshake with each other then: no garbled circuit is fed with the inputs
\* of one client on one side and of another on the other side.
SameClient ==
  (\E p \in Party : Joined(p)) =>
    ttp[ALICE] = None \/ ttp[BOB] = None \/ ttp[ALICE] = ttp[BOB]

\* Both parties build the circuit for the number of points the client asked
\* for; a party that took another message for numPts would build a different
\* circuit from its peer's.
SameCircuit == \A p \in Party : numPts[p] # 0 => numPts[p] = Points[ttp[p]]

\* The array element that holds a client's value when LMIteration reads it:
\* P is stored by rows [x...; y...; z...; 1...], y0 by points [x, y; ...].
Element(n, m) ==
  CASE m.name = "objectX" -> Msg("threeDPts", m.i)
    [] m.name = "objectY" -> Msg("threeDPts", n + m.i)
    [] m.name = "objectZ" -> Msg("threeDPts", 2 * n + m.i)
    [] m.name = "imageX" -> Msg("twoDPts", 2 * m.i)
    [] m.name = "imageY" -> Msg("twoDPts", 2 * m.i + 1)
    [] OTHER -> m

\* The streams carry no tags: each read of a server takes whatever comes next
\* on ttpio.  It is always the message that read is for, and each label goes
\* into the array element of the value it encodes.
ServerReadsInStep ==
  \A p \in Party : ttp[p] # None /\ FromClient(p) # << >> =>
    LET m == Head(FromClient(p)) IN
    /\ pc[p] \in {"poll", "numPts"} => m = Msg("numPts", Points[ttp[p]])
    /\ pc[p] = "setup" /\ p = BOB => m = Msg("seed", 0)
    /\ pc[p] = "input" /\ p = ALICE =>
         Element(numPts[p], m) = ServerInput(numPts[p], k[p])

\* So is each read of the client; in particular the two shares it combines
\* into one output are shares of the same output.
ClientReadsInStep ==
  \A c \in Client :
    /\ cpc[c] = "delta" /\ down[ALICE][c] # << >> =>
         Head(down[ALICE][c]) = Msg("delta", 0)
    /\ cpc[c] = "poseAlice" /\ down[ALICE][c] # << >> =>
         Head(down[ALICE][c]) = ServerOutput(ck[c])
    /\ cpc[c] = "poseBob" /\ down[BOB][c] # << >> =>
         Head(down[BOB][c]) = ServerOutput(ck[c])

\* The parties leave the iterations together: the tables BOB reads are those
\* of the iteration he is at, and no party waits for its peer inside lm_server
\* while the peer waits for it.
Waits(p) == ReadsPeer(p) /\ net[p] = << >>
IterationsInStep ==
  /\ pc[BOB] = "compute" /\ net[BOB] # << >> => Head(net[BOB]) = Msg("tables", k[BOB])
  /\ pc[ALICE] = "flag" /\ net[ALICE] # << >> => Head(net[ALICE]).name = "flag"
  /\ ~(Waits(ALICE) /\ Waits(BOB))
  /\ \A p \in Party : Waits(p) => pc[Peer(p)] \notin {"reveal"}

\* A process that gets no further on its own: it reads from an empty socket, or
\* polls one.
HeldUp(p) ==
  \/ ReadsClient(p) /\ FromClient(p) = << >>
  \/ Waits(p)
  \/ pc[p] = "poll" /\ FromClient(p) = << >>
ClientHeldUp(c) ==
  cpc[c] \in {"delta", "poseAlice", "poseBob"} /\ down[AtParty(c)][c] = << >>

\* The three processes never wait for each other, nor does a client wait for
\* parties that think it has been answered: when it waits and both parties hold
\* it, one of them has work to do.  (The builds that read a lambda are another
\* matter: see EveryClientAnswered.)
NoCircularWait ==
  ~NeedsLambda =>
    \A c \in Client :
      ClientHeldUp(c) /\ (\A p \in Party : ttp[p] = c) => \E p \in Party : ~HeldUp(p)

\* No socket breaks under a request both parties have begun, whatever the timers
\* of the polls before and after it do: unless its client dies no party of it
\* exits, the client does not give up, and one that has a first share gets them
\* all.
JointRequestUnbroken ==
  [][/\ \A p \in Party : Joined(p) /\ ~Ended(ttp[p]) => pc'[p] # "exited"
     /\ \A c \in Client : cpc[c] # "gaveUp" /\ cpc'[c] = "gaveUp" =>
          /\ \A p \in Party : ttp[p] = c => ~Joined(p)
          /\ cpc[c] # "poseBob" /\ (cpc[c] = "poseAlice" => ck[c] = 0)]_vars

\* What p has given to c in the request at hand: the shares c has taken and
\* those on the way.
Pose == {"poseAlice", "poseBob"}
Got(p, c) ==
  IF cpc[c] = "poseAlice" THEN ck[c]
  ELSE IF cpc[c] = "poseBob" THEN IF p = ALICE THEN ck[c] + 1 ELSE ck[c]
  ELSE 0
Given(p, c) == Got(p, c) + Len(down[p][c])

\* Processes and sockets together are the service of Offload.  Its servers have
\* begun a request as soon as one of them is past the handshake, although the
\* other is not yet, or has left already; the answer is ready when all of it is
\* in the sockets of the client, whether or not the servers are still there.
Begun(c) ==
  \E p \in Party :
    \/ ttp[p] = c /\ Joined(p)
    \/ cpc[c] \in {"labels"} \cup Pose /\ Given(p, c) > 0
Ready(c) == cpc[c] \in Pose /\ \A p \in Party : Given(p, c) >= ClientOutputs
Phase(c) ==
  IF cpc[c] \in {"gaveUp", "crashed"} THEN cpc[c]
  ELSE IF Ready(c) THEN "ready" ELSE IF Begun(c) THEN "begun" ELSE "out"
O == INSTANCE Offload WITH
       phase <- [c \in Client |-> Phase(c)], answers <- served
IsOffload == O!Spec

\* A client that was answered left nothing in a socket: nothing of it can be
\* taken for the start of another request.
NothingLeftOver ==
  \A c \in Client, p \in Party :
    \/ cpc[c] = "ptsAlice" /\ served[c] > 0
    \/ cpc[c] = "done" /\ ttp[p] = c
    => up[p][c] = << >> /\ (pc[p] = "poll" /\ ttp[p] = c => net[p] = << >>)

\* A client that both parties let in is answered, whoever else is at the door.
AcceptedAnswered == \A c \in Client : (\A p \in Party : ttp[p] = c) ~> cpc[c] = "done"

\* Every client is answered.  (The README's way to run client and servers.)
EveryClientAnswered == \A c \in Client : <>(cpc[c] = "done")

\* Once both parties are at work on a request, the client is answered unless
\* it dies itself: no timer of the poll comes between, and no party leaves the
\* other, or the client, alone with a broken socket.
BothServe(c) == \A p \in Party : pc[p] \in Serving /\ ttp[p] = c
JointRequestEnds ==
  \A c \in Client, r \in 0 .. Requests - 1 :
    (BothServe(c) /\ served[c] = r) ~> (served[c] > r \/ cpc[c] = "crashed")

\* A party never stays with a client that is gone.
GoneClientReleased ==
  \A p \in Party, c \in Client : (ttp[p] = c /\ Ended(c)) ~> (ttp[p] # c)

\* "restarting server": a party that restarts comes to accept a client again,
\* as long as the process of its peer runs.
RestartCompletes ==
  \A p \in Party : pc[p] = "io" ~> (pc[p] = "ttp" \/ pc[Peer(p)] = "exited")
=============================================================================
