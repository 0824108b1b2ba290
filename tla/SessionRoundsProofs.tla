------------------------ MODULE SessionRoundsProofs ------------------------
(* Theorems about the socket between the two parties of Session: BOB        *)
(* evaluates the tables of the iteration he is at, the parties leave the    *)
(* iterations together, and a request leaves nothing behind in it.  From    *)
(* that: no process waits in a circle, and no socket breaks under a request *)
(* both parties have begun.  With these, processes and sockets implement    *)
(* the service of Offload.                                                  *)
EXTENDS SessionQueueProofs

USE DEF ALICE, BOB, Party, Peer

----------------------------------------------------------------------------
(* The inductive invariant.  Bases, tables and flags are all ALICE and BOB  *)
(* exchange; what is on the way is the difference of how far they are.      *)

(* The j-th message of a request from ALICE to BOB; q holds those from j on. *)
Setup == Msg("setup", 0)
ToBob(j) == IF j = 0 THEN Setup ELSE Msg("tables", j - 1)
Tables(q, j) == \A m \in 1 .. Len(q) : q[m] = ToBob(j + m - 1)

(* Not yet at work together, or at work with BOB before his outputs; p has  *)
(* answered its client, which has not asked again.                          *)
Idle == {"ttp", "poll", "numPts", "setup"}
Early == {"handshake", "input", "compute"}
Post(p) == pc[p] = "poll" /\ FromClient(p) = << >>

(* Messages of the request BOB has read, and ALICE has sent.                *)
Taken == IF pc[BOB] = "input" THEN 1 ELSE IF pc[BOB] = "compute" THEN k[BOB] + 1 ELSE 0
Away ==
  IF pc[ALICE] \in {"handshake", "input"} THEN 1
  ELSE IF pc[ALICE] = "compute" THEN k[ALICE] + 1
  ELSE IF pc[ALICE] = "flag" THEN k[ALICE] + 2
  ELSE Rounds + 1

(* What a party finds in its end, even after its peer has gone.             *)
BobNet ==
  /\ pc[BOB] \in Idle \cup Early => Tables(net[BOB], Taken)
  /\ pc[BOB] \in {"io", "exited", "reveal"} => net[BOB] = << >>
  /\ pc[BOB] = "compute" => k[BOB] < Rounds
  /\ pc[BOB] \in Idle \cup Early => Taken + Len(net[BOB]) <= Rounds + 1
  /\ Flow = LOOP_LEAK => Len(net[BOB]) <= IF pc[BOB] = "compute" THEN 1 ELSE 2 - Taken
AliceNet ==
  /\ pc[ALICE] \in {"compute", "flag"} => k[ALICE] < Rounds
  /\ pc[ALICE] = "flag" => Flow = LOOP_LEAK
  /\ pc[ALICE] \in {"io", "exited", "input", "compute", "reveal"} \cup Idle => net[ALICE] = << >>
  /\ pc[ALICE] = "handshake" => net[ALICE] \in {<< >>, <<Setup>>}
  /\ pc[ALICE] = "flag" => net[ALICE] \in {<< >>, <<Msg("flag", 0)>>, <<Msg("flag", 1)>>}

(* How two parties with an open socket meet: five phases of a request.  The *)
(* first two they may be in with a client each, from the third on they hold *)
(* the same one.                                                            *)
Together == ttp[ALICE] = ttp[BOB]
NeitherBegan ==
  /\ pc[ALICE] \in Idle /\ pc[BOB] \in Idle
  /\ net[ALICE] = << >> /\ net[BOB] = << >>
  /\ pc[ALICE] = "poll" /\ cpc[ttp[ALICE]] \in Pose => Post(BOB) /\ Together
AliceFirst ==
  /\ pc[ALICE] = "handshake" /\ pc[BOB] \in Idle
  /\ net[ALICE] = << >> /\ net[BOB] = <<Setup>>
Running ==
  /\ pc[BOB] \in Early /\ Together
  /\ Taken + Len(net[BOB]) = Away
  /\ \/ pc[ALICE] = "handshake" /\ net[ALICE] = <<Setup>>
     \/ /\ pc[ALICE] \in {"input", "compute"} /\ net[ALICE] = << >>
        /\ Flow = LOOP_LEAK /\ pc[ALICE] = "compute" => k[ALICE] = 0 \/ net[BOB] = << >>
     \/ /\ pc[ALICE] = "flag" /\ net[ALICE] = << >>
        /\ Len(net[BOB]) > 0 /\ (k[ALICE] = 0 \/ Len(net[BOB]) = 1)
     \/ pc[ALICE] = "reveal" /\ Flow # LOOP_LEAK /\ net[ALICE] = << >>
     \/ Post(ALICE) /\ Flow # LOOP_LEAK /\ net[ALICE] = << >>
Answered ==
  /\ pc[ALICE] = "flag" /\ pc[BOB] = "compute" /\ k[BOB] = k[ALICE] + 1 /\ Together
  /\ net[BOB] = << >> /\ net[ALICE] = <<Msg("flag", 0)>>
BobDone ==
  /\ \/ pc[BOB] = "reveal"
     \/ Post(BOB) /\ cpc[ttp[BOB]] \notin {"ptsBob", "delta", "seed"}
  /\ net[BOB] = << >> /\ Together
  /\ \/ pc[ALICE] = "reveal" /\ net[ALICE] = << >>
     \/ Post(ALICE) /\ pc[BOB] = "reveal" /\ net[ALICE] = << >>
     \/ pc[ALICE] = "flag" /\ net[ALICE] = <<Msg("flag", 1)>>
     \/ pc[ALICE] = "flag" /\ net[ALICE] = <<Msg("flag", 0)>> /\ k[ALICE] + 1 = Rounds
     \/ pc[ALICE] = "handshake" /\ net[ALICE] = <<Setup>> /\ Rounds = 0
     \/ pc[ALICE] = "input" /\ net[ALICE] = << >> /\ Rounds = 0
Meet ==
  IoOpen(ALICE) /\ IoOpen(BOB) =>
    NeitherBegan \/ AliceFirst \/ Running \/ Answered \/ BobDone

(* A client that has asked for nothing BOB has not read, and that asks for  *)
(* more only when it has its answer, has nothing of a request in front of   *)
(* him; nor has one that is done in front of either party.                  *)
Resting(c) ==
  \/ cpc[c] \in {"labels", "done"} \cup Pose
  \/ cpc[c] = "ptsAlice" /\ served[c] > 0
Clean(c) ==
  /\ /\ ttp[BOB] = c /\ pc[BOB] \in {"ttp", "poll"} /\ up[BOB][c] = << >> /\ Resting(c)
     => net[BOB] = << >>
  /\ cpc[c] = "done" => \A p \in Party :
       ttp[p] = c => pc[p] = "poll" /\ up[p][c] = << >> /\ net[p] = << >>

(* A client that has had anything from a party while it was connected to    *)
(* the other is held by both, as long as the parties have not parted.       *)
AliceMet(c) ==
  \/ down[ALICE][c] # << >> \/ cpc[c] \in {"seed", "labels"} \cup Pose \/ served[c] > 0
SeedUp(c) == up[BOB][c] \in {<<N(c), Seed>>, <<Seed>>}
Met(c) ==
  /\ ttp[BOB] = c /\ IoOpen(ALICE) /\ AliceMet(c) => ttp[ALICE] = c /\ pc[ALICE] # "ttp"
  /\ ttp[BOB] = c /\ IoOpen(ALICE) /\ SeedUp(c) => ttp[ALICE] = c /\ pc[ALICE] = "handshake"
  /\ ttp[ALICE] = c /\ IoOpen(BOB) /\ ttp[BOB] # c => down[BOB][c] = << >> /\ cpc[c] # "poseBob"
  /\ cpc[c] \in {"connectAlice", "connectBob"} => served[c] = 0
  /\ cpc[c] = "done" => served[c] > 0

RoundsInv == BobNet /\ AliceNet /\ Meet /\ \A c \in Client : Clean(c) /\ Met(c)

----------------------------------------------------------------------------
(* Facts about the constants and the queues.                                *)

LEMMA RoundsType ==
  /\ Rounds \in Nat
  /\ ~NeedsLambda => Rounds >= 1
  /\ Flow = LOOP_LEAK => ~NeedsLambda
BY SessionAssumption DEF Rounds, NeedsLambda, DO, LOOP_LEAK, SiSL, POWER_TESTING

LEMMA NetMessages ==
  /\ Setup \in Message
  /\ \A i \in {0, 1} : Msg("flag", i) \in Message
  /\ \A j \in Nat : ToBob(j) \in Message
  /\ Setup # Msg("flag", 0) /\ Setup # Msg("flag", 1) /\ Msg("flag", 0) # Msg("flag", 1)
<1>1. \A j \in Nat : j # 0 => j - 1 \in Nat
  OBVIOUS
<1>2. Setup \in Message /\ \A i \in {0, 1} : Msg("flag", i) \in Message
  BY MsgType DEF Setup, MsgName
<1>3. \A j \in Nat : Msg("tables", j) \in Message
  BY MsgType DEF MsgName
<1> QED BY <1>1, <1>2, <1>3 DEF ToBob, Setup, Msg

LEMMA NetType ==
  ASSUME TypeOK
  PROVE  \A p \in Party :
           /\ net[p] \in Seq(Message) /\ Len(net[p]) \in Nat
           /\ Len(net[p]) = 0 <=> net[p] = << >>
           /\ k[p] \in Nat /\ pc[p] \in PartyPlace
<1>1. \A p \in Party : net[p] \in Seq(Message) /\ k[p] \in Nat /\ pc[p] \in PartyPlace
  BY DEF TypeOK
<1> QED BY <1>1, EmptyLen

(* What the writes and reads between the parties change.                    *)
LEMMA ToPeerEffect ==
  ASSUME TypeOK, NEW p \in Party, NEW m, ToPeer(p, m)
  PROVE  /\ net'[p] = net[p]
         /\ net'[Peer(p)] = IF IoOpen(Peer(p)) THEN Append(net[Peer(p)], m) ELSE net[Peer(p)]
BY DEF TypeOK, ToPeer

LEMMA ReadPeerEffect ==
  ASSUME TypeOK, NEW p \in Party, ReadPeer(p)
  PROVE  /\ net[p] # << >>
         /\ net'[p] = Tail(net[p])
         /\ net'[Peer(p)] = net[Peer(p)]
BY DEF TypeOK, ReadPeer

LEMMA TablesAppend ==
  ASSUME NEW q \in Seq(Message), NEW j \in Nat, Tables(q, j)
  PROVE  Tables(Append(q, ToBob(j + Len(q))), j)
<1> DEFINE m == ToBob(j + Len(q))
<1>1. Len(q) \in Nat
  OBVIOUS
<1>2. m \in Message
  BY <1>1, NetMessages
<1> HIDE DEF m
<1> SUFFICES ASSUME NEW i \in 1 .. Len(q) + 1
             PROVE  Append(q, m)[i] = ToBob(j + i - 1)
  BY <1>1, <1>2, AppendProps DEF Tables, m
<1>3. CASE i = Len(q) + 1
  <2>1. j + i - 1 = j + Len(q)
    BY <1>1, <1>3
  <2> QED BY <1>2, <1>3, <2>1, AppendProps DEF m
<1>4. CASE i # Len(q) + 1
  <2>1. i \in 1 .. Len(q)
    BY <1>1, <1>4
  <2> QED BY <1>2, <2>1, AppendProps DEF Tables
<1> QED BY <1>3, <1>4

LEMMA TablesTail ==
  ASSUME NEW q \in Seq(Message), NEW j \in Nat, Tables(q, j), q # << >>
  PROVE  Tables(Tail(q), j + 1) /\ Head(q) = ToBob(j)
<1>1. Len(q) \in Nat \ {0}
  BY TailProps
<1>2. ASSUME NEW i \in 1 .. Len(Tail(q))
      PROVE  Tail(q)[i] = ToBob((j + 1) + i - 1)
  <2>1. i + 1 \in 1 .. Len(q) /\ j + (i + 1) - 1 = (j + 1) + i - 1
    BY <1>1, TailProps
  <2>2. q[i + 1] = ToBob(j + (i + 1) - 1)
    BY <2>1 DEF Tables
  <2> QED BY <2>1, <2>2, TailProps
<1>3. Head(q) = ToBob(j)
  <2>1. 1 \in 1 .. Len(q) /\ j + 1 - 1 = j
    BY <1>1
  <2>2. q[1] = ToBob(j + 1 - 1)
    BY <2>1 DEF Tables
  <2> QED BY <2>1, <2>2, TailProps
<1> QED BY <1>2, <1>3 DEF Tables

----------------------------------------------------------------------------
(* Steps that leave the socket between the parties alone.                   *)

LEMMA QuietRounds ==
  ASSUME RoundsInv, UNCHANGED <<pc, ttp, k, net, up, down, cpc, served>>
  PROVE  RoundsInv'
<1>1. BobNet' /\ AliceNet'
  BY DEF RoundsInv, BobNet, AliceNet, Taken, Tables
<1>2. Meet'
  BY DEF RoundsInv, Meet, IoOpen, NeitherBegan, AliceFirst, Running, Answered, BobDone,
         Post, FromClient, Taken, Away, Together
<1>3. ASSUME NEW c \in Client PROVE Clean(c)' /\ Met(c)'
  BY DEF RoundsInv, Clean, Met, AliceMet, SeedUp, Resting, IoOpen
<1> QED BY <1>1, <1>2, <1>3 DEF RoundsInv

(* Both open io afresh.                                                     *)
LEMMA ConnectIoRounds ==
  ASSUME TypeOK, HoldsClient, RoundsInv, ConnectIo
  PROVE  RoundsInv'
<1>1. /\ pc[ALICE] = "io" /\ pc[BOB] = "io" /\ pc'[ALICE] = "ttp" /\ pc'[BOB] = "ttp"
      /\ UNCHANGED <<ttp, k, net, up, down, cpc, served>>
  BY DEF ConnectIo
<1>2. net[ALICE] = << >> /\ net[BOB] = << >> /\ Len(<< >>) = 0
  BY <1>1 DEF RoundsInv, BobNet, AliceNet
<1>3. \A p \in Party : ttp[p] = None
  BY <1>1 DEF HoldsClient
<1>4. BobNet' /\ AliceNet'
  BY <1>1, <1>2, RoundsType DEF BobNet, AliceNet, Taken, Tables, Idle, Early
<1>5. Meet'
  BY <1>1, <1>2 DEF Meet, NeitherBegan, Idle
<1>6. ASSUME NEW c \in Client PROVE Clean(c)' /\ Met(c)'
  BY <1>1, <1>3, SessionAssumption DEF RoundsInv, Clean, Met
<1> QED BY <1>4, <1>5, <1>6 DEF RoundsInv

(* A party lets its client in: neither the client nor the peer has begun.   *)
LEMMA AcceptRounds ==
  ASSUME TypeOK, HoldsClient, QueueInv, RoundsInv, NEW p \in Party, Accept(p)
  PROVE  RoundsInv'
<1>1. /\ pc[p] = "ttp" /\ pc'[p] = "poll" /\ \A q \in Party : q # p => pc'[q] = pc[q]
      /\ UNCHANGED <<ttp, k, net, up, down, cpc, served>>
  BY DEF Accept, TypeOK
<1>2. PICK c \in Client : ttp[p] = c
  BY DEF Accept, TypeOK
<1>3. BobNet' /\ AliceNet'
  BY <1>1 DEF RoundsInv, BobNet, AliceNet, Taken, Tables, Idle, Early
<1>4. Meet'
  <2>1. CASE p = ALICE
    <3>1. IoOpen(BOB) => NeitherBegan
      BY <1>1, <2>1 DEF RoundsInv, Meet, IoOpen, AliceFirst, Running, Answered, BobDone, Post
    <3>2. cpc[c] \notin Pose
      BY <1>1, <1>2, <2>1 DEF QueueInv, AliceSide, AliceLink
    <3> QED BY <1>1, <1>2, <2>1, <3>1, <3>2 DEF Meet, IoOpen, NeitherBegan, Idle
  <2>2. CASE p = BOB
    <3>1. IoOpen(ALICE) => NeitherBegan \/ AliceFirst
      BY <1>1, <2>2 DEF RoundsInv, Meet, IoOpen, Running, Answered, BobDone, Post, Early
    <3> QED BY <1>1, <2>2, <3>1 DEF Meet, IoOpen, NeitherBegan, AliceFirst, Idle, Post
  <2> QED BY <2>1, <2>2
<1>5. ASSUME NEW d \in Client PROVE Clean(d)' /\ Met(d)'
  BY <1>1 DEF RoundsInv, Clean, Met, AliceMet, SeedUp, Resting, IoOpen
<1> QED BY <1>3, <1>4, <1>5 DEF RoundsInv

(* A client at the door has nothing of a request anywhere.                  *)
LEMMA ConnectRounds ==
  ASSUME TypeOK, HoldsClient, QueueInv, RoundsInv, NEW c \in Client, Connect(c)
  PROVE  RoundsInv'
<1>1. PICK p \in Party : Connecting(c, p)
  BY ConnectingOf
<1>2. /\ pc[p] = "ttp" /\ UNCHANGED <<pc, k, net, up, down, served>>
      /\ \A q \in Party : q # p => ttp'[q] = ttp[q]
      /\ ttp'[p] = c \/ ttp'[p] = ttp[p]
  BY <1>1 DEF Connecting, TypeOK
<1>3. /\ cpc[c] = IF p = ALICE THEN "connectAlice" ELSE "connectBob"
      /\ cpc'[c] = IF p = ALICE THEN "connectBob" ELSE "ptsAlice"
      /\ \A d \in Client : d # c => cpc'[d] = cpc[d]
  BY <1>1 DEF Connecting, TypeOK
<1>4. /\ served[c] = 0 /\ up[p][c] = << >> /\ down[BOB][c] = << >>
      /\ p = BOB => down[ALICE][c] = << >>
      /\ ttp[p] # c /\ (p = ALICE => ttp[BOB] # c)
  <2>1. AliceDown(c) /\ BobDown(c) /\ Closed(c) /\ served[c] = 0
    BY <1>3 DEF RoundsInv, Met, QueueInv, AliceSide, BobSide
  <2>2. ttp[p] # c /\ (p = ALICE => ttp[BOB] # c)
    BY <1>3 DEF QueueInv, AliceSide, BobSide, AliceLink, BobLink
  <2>3. up[p][c] = << >>
    BY <2>1, <2>2 DEF Closed
  <2> QED BY <1>3, <2>1, <2>2, <2>3 DEF AliceDown, BobDown, Pose
<1>5. BobNet' /\ AliceNet'
  BY <1>2 DEF RoundsInv, BobNet, AliceNet, Taken
<1>6. Meet'
  <2> SUFFICES ASSUME IoOpen(ALICE), IoOpen(BOB) PROVE NeitherBegan' \/ AliceFirst'
    BY <1>2 DEF Meet, IoOpen
  <2>1. NeitherBegan \/ AliceFirst
    BY <1>2 DEF RoundsInv, Meet, Running, Answered, BobDone, Post, Early
  <2>2. AliceFirst => AliceFirst'
    BY <1>2 DEF AliceFirst
  <2>3. ASSUME NeitherBegan PROVE NeitherBegan'
    <3>1. pc[ALICE] = "poll" => p = BOB /\ cpc[ttp[ALICE]] \notin Pose /\ ttp[ALICE] \in Client
      BY <1>2, <2>3, Holder DEF NeitherBegan, Post, Working
    <3>2. pc[ALICE] = "poll" => cpc'[ttp[ALICE]] \notin Pose
      BY <1>3, <3>1 DEF Pose
    <3> QED BY <1>2, <2>3, <3>1, <3>2 DEF NeitherBegan
  <2> QED BY <2>1, <2>2, <2>3
<1>7. ASSUME NEW d \in Client PROVE Clean(d)' /\ Met(d)'
  <2>1. Clean(d) /\ Met(d)
    BY DEF RoundsInv
  <2>2. CASE d # c
    <3>1. cpc'[d] = cpc[d] /\ \A q \in Party : ttp'[q] = d <=> ttp[q] = d
      BY <1>1, <1>2, <1>3, <2>2, SessionAssumption DEF Connecting, TypeOK
    <3>2. Clean(d)'
      BY <1>2, <2>1, <3>1 DEF Clean, Resting
    <3>3. Met(d)'
      BY <1>2, <2>1, <3>1 DEF Met, AliceMet, SeedUp, IoOpen
    <3> QED BY <3>2, <3>3
  <2>3. CASE d = c
    <3>1. ~Resting(c)' /\ cpc'[c] # "done"
      BY <1>2, <1>3, <1>4 DEF Resting, Pose
    <3>2. Clean(c)'
      BY <3>1 DEF Clean
    <3>3. p = BOB => ~AliceMet(c)' /\ ~SeedUp(c)'
      <4>1. <<N(c), Seed>> # << >> /\ <<Seed>> # << >>
        BY LabelsAreMessages, OneQueued, TwoQueued
      <4> QED BY <1>2, <1>3, <1>4, <4>1 DEF AliceMet, SeedUp, Pose
    <3>4. Met(c)'
      BY <1>2, <1>3, <1>4, <3>3 DEF Met
    <3> QED BY <2>3, <3>2, <3>4
  <2> QED BY <2>2, <2>3
<1> QED BY <1>5, <1>6, <1>7 DEF RoundsInv

----------------------------------------------------------------------------
(* What a party that goes on with its client does to the clients.           *)

LEMMA MetWorking ==
  ASSUME TypeOK, HoldsClient, RoundsInv, NEW p \in Party, NEW c \in Client, ttp[p] = c,
         pc[p] \in Working, pc'[p] \in Working,
         UNCHANGED <<ttp, cpc, served>>,
         \A q \in Party : q # p => pc'[q] = pc[q],
         \A q \in Party, d \in Client : q # p \/ d # c =>
           up'[q][d] = up[q][d] /\ down'[q][d] = down[q][d],
         p = BOB /\ SeedUp(c)' => SeedUp(c),
         p = ALICE /\ pc[ALICE] = "handshake" /\ pc'[ALICE] # "handshake" =>
           (ttp[BOB] \in Client => ~SeedUp(ttp[BOB]))
  PROVE  \A d \in Client : Met(d)'
<1> SUFFICES ASSUME NEW d \in Client PROVE Met(d)'
  OBVIOUS
<1>1. Met(d) /\ \A q \in Party : IoOpen(q)' <=> IoOpen(q)
  BY DEF RoundsInv, IoOpen, Working, Serving
<1>2. CASE p = ALICE
  <2>1. SeedUp(d)' <=> SeedUp(d)
    BY <1>2 DEF SeedUp
  <2>2. down'[BOB][d] = down[BOB][d] /\ (d # c => down'[ALICE][d] = down[ALICE][d])
    BY <1>2
  <2>3. pc'[ALICE] # "ttp" /\ ttp[ALICE] = c
    BY <1>2 DEF Working, Serving
  <2>4. d # c => (AliceMet(d)' <=> AliceMet(d))
    BY <2>2 DEF AliceMet
  <2>5. ttp[BOB] = d /\ IoOpen(ALICE) /\ SeedUp(d) => pc'[ALICE] = "handshake"
    BY <1>1, <1>2 DEF Met
  <2> QED BY <1>1, <1>2, <2>1, <2>2, <2>3, <2>4, <2>5 DEF Met
<1>3. CASE p = BOB
  <2>1. AliceMet(d)' <=> AliceMet(d)
    BY <1>3 DEF AliceMet
  <2>2. SeedUp(d)' => SeedUp(d)
    BY <1>3 DEF SeedUp
  <2>3. ttp[BOB] = c /\ pc'[ALICE] = pc[ALICE] /\ (d # c => down'[BOB][d] = down[BOB][d])
    BY <1>3
  <2> QED BY <1>1, <2>1, <2>2, <2>3 DEF Met
<1> QED BY <1>2, <1>3

LEMMA CleanWorking ==
  ASSUME TypeOK, HoldsClient, RoundsInv, NEW p \in Party, NEW c \in Client, ttp[p] = c,
         pc[p] \in Serving, pc'[p] \in Serving \cup {"poll"},
         UNCHANGED <<ttp, cpc, served>>,
         \A q \in Party : q # p => pc'[q] = pc[q],
         \A q \in Party, d \in Client : q # p \/ d # c => up'[q][d] = up[q][d],
         pc'[p] = "poll" => net'[p] = << >>,
         p = BOB /\ pc[ALICE] = "poll" => net'[ALICE] = net[ALICE],
         p = ALICE /\ pc[BOB] \in {"ttp", "poll"} /\ ttp[BOB] \in Client =>
           net'[BOB] = net[BOB] \/ ~Resting(ttp[BOB])
  PROVE  \A d \in Client : Clean(d)'
<1> SUFFICES ASSUME NEW d \in Client PROVE Clean(d)'
  OBVIOUS
<1>1. Clean(d) /\ (Resting(d)' <=> Resting(d)) /\ (cpc[d] = "done" => Resting(d))
  BY DEF RoundsInv, Resting
<1>2. cpc[d] = "done" => d # c
  BY DEF RoundsInv, Clean, Serving
<1>3. CASE p = ALICE
  BY <1>1, <1>2, <1>3 DEF Clean, Serving
<1>4. CASE p = BOB
  BY <1>1, <1>2, <1>4 DEF Clean, Serving
<1> QED BY <1>3, <1>4

(* A client at rest is one both parties have met.                           *)
LEMMA RestingMet ==
  ASSUME RoundsInv, NEW c \in Client, Resting(c)
  PROVE  AliceMet(c)
BY DEF RoundsInv, Met, Resting, AliceMet

(* A party that starts on a request and reads its size.                     *)
LEMMA ServeRounds ==
  ASSUME TypeOK, HoldsClient, QueueInv, RoundsInv, NEW p \in Party, Serve(p) \/ RecvNumPts(p)
  PROVE  RoundsInv'
<1>1. PICK c \in Client : ttp[p] = c
  BY Holder DEF Serve, RecvNumPts, Working, Serving
<1>2. /\ pc[p] \in {"poll", "numPts"} /\ pc'[p] \in {"numPts", "setup"}
      /\ \A q \in Party : q # p => pc'[q] = pc[q]
      /\ UNCHANGED <<ttp, k, net, cpc, down, served>>
      /\ up[p][c] # << >>
      /\ \A q \in Party, d \in Client : q # p \/ d # c => up'[q][d] = up[q][d]
      /\ up'[p][c] = up[p][c] \/ (pc[p] = "numPts" /\ up'[p][c] = Tail(up[p][c]))
  <2>1. CASE Serve(p)
    BY <1>1, <2>1 DEF Serve, TypeOK, QueueInv, Place, FromClient
  <2>2. CASE RecvNumPts(p)
    <3>1. /\ up[p][c] # << >> /\ up'[p][c] = Tail(up[p][c])
          /\ \A q \in Party, d \in Client : q # p \/ d # c => up'[q][d] = up[q][d]
      BY <1>1, <2>2, ReadClientEffect DEF RecvNumPts
    <3> QED BY <2>2, <3>1 DEF RecvNumPts, TypeOK
  <2> QED BY <2>1, <2>2
<1>3. ~Post(p)
  BY <1>1, <1>2 DEF Post, FromClient
<1>4. BobNet' /\ AliceNet'
  BY <1>2, NetType DEF RoundsInv, BobNet, AliceNet, Taken, Tables, Idle, Early
<1>5. Meet'
  <2>1. CASE p = ALICE
    <3>1. IoOpen(ALICE) /\ IoOpen(BOB) => NeitherBegan
      BY <1>2, <1>3, <2>1 DEF RoundsInv, Meet, AliceFirst, Running, Answered, BobDone
    <3> QED BY <1>2, <2>1, <3>1 DEF Meet, IoOpen, NeitherBegan, Idle
  <2>2. CASE p = BOB
    <3>1. IoOpen(ALICE) /\ IoOpen(BOB) => NeitherBegan \/ AliceFirst
      BY <1>2, <1>3, <2>2 DEF RoundsInv, Meet, Running, Answered, BobDone, Early
    <3> QED BY <1>2, <1>3, <2>2, <3>1 DEF Meet, IoOpen, NeitherBegan, AliceFirst, Idle
  <2> QED BY <2>1, <2>2
<1>6. ASSUME NEW d \in Client PROVE Clean(d)'
  <2>1. d # c => \A q \in Party : up'[q][d] = up[q][d]
    BY <1>2
  <2> QED BY <1>1, <1>2, <2>1 DEF RoundsInv, Clean, Resting
<1>7. p = BOB /\ SeedUp(c)' => SeedUp(c)
  <2> SUFFICES ASSUME p = BOB, pc[BOB] = "numPts", up'[BOB][c] = Tail(up[BOB][c])
               PROVE  SeedUp(c)' => SeedUp(c)
    BY <1>2 DEF SeedUp
  <2>1. up[BOB][c] \in {<<N(c)>>, <<N(c), Seed>>}
    BY <1>1, <1>2 DEF QueueInv, BobSide, BobUp
  <2>2. Tail(<<N(c)>>) = << >> /\ <<N(c), Seed>> # << >> /\ <<Seed>> # << >>
    BY LabelsAreMessages, OneQueued, TwoQueued
  <2> QED BY <2>1, <2>2 DEF SeedUp
<1>8. \A d \in Client : Met(d)'
  BY <1>1, <1>2, <1>7, MetWorking DEF Working, Serving
<1> QED BY <1>4, <1>5, <1>6, <1>8 DEF RoundsInv

(* A party that closes discards what it had not read.                       *)
LEMMA CloseRounds ==
  ASSUME TypeOK, HoldsClient, RoundsInv, NEW p \in Party, NEW s \in {"io", "exited"},
         pc[p] \in Working, Close(p, s), UNCHANGED <<cpc, down, served>>
  PROVE  RoundsInv'
<1>1. PICK c \in Client : ttp[p] = c
  BY Holder
<1>2. /\ pc'[p] = s /\ ttp'[p] = None /\ k'[p] = 0 /\ net'[p] = << >>
      /\ \A q \in Party, d \in Client : q # p => up'[q][d] = up[q][d]
      /\ \A q \in Party : q # p => pc'[q] = pc[q] /\ ttp'[q] = ttp[q] /\ k'[q] = k[q]
      /\ \A q \in Party : q # p => net'[q] = net[q]
  <2>1. net'[p] = << >> /\ \A q \in Party : q # p => net'[q] = net[q]
    BY DEF Close, TypeOK
  <2>2. pc'[p] = s /\ ttp'[p] = None /\ k'[p] = 0
    BY <1>1, CloseEffect
  <2>3. /\ \A q \in Party, d \in Client : q # p => up'[q][d] = up[q][d]
        /\ \A q \in Party : q # p => pc'[q] = pc[q] /\ ttp'[q] = ttp[q] /\ k'[q] = k[q]
    BY DEF Close, TypeOK
  <2> QED BY <2>1, <2>2, <2>3
<1>3. Len(<< >>) = 0
  OBVIOUS
<1>4. BobNet'
  <2>1. CASE p = BOB
    BY <1>2, <1>3, <2>1 DEF BobNet, Idle, Early, Taken, Tables
  <2>2. CASE p = ALICE
    BY <1>2, <2>2 DEF RoundsInv, BobNet, Taken, Tables
  <2> QED BY <2>1, <2>2
<1>5. AliceNet'
  BY <1>2 DEF RoundsInv, AliceNet, Idle
<1>6. Meet'
  BY <1>2 DEF Meet, IoOpen
<1>7. ASSUME NEW d \in Client PROVE Clean(d)' /\ Met(d)'
  <2>1. Clean(d)'
    BY <1>2, SessionAssumption DEF RoundsInv, Clean, Resting
  <2>2. CASE p = ALICE
    <3>1. ~IoOpen(ALICE)' /\ ttp'[ALICE] # d
      BY <1>2, <2>2, SessionAssumption DEF IoOpen
    <3> QED BY <2>1, <3>1 DEF RoundsInv, Met
  <2>3. CASE p = BOB
    <3>1. ~IoOpen(BOB)' /\ ttp'[BOB] # d
      BY <1>2, <2>3, SessionAssumption DEF IoOpen
    <3> QED BY <2>1, <3>1 DEF RoundsInv, Met
  <2> QED BY <2>2, <2>3
<1> QED BY <1>4, <1>5, <1>6, <1>7 DEF RoundsInv

----------------------------------------------------------------------------
(* Steps of a party at work on the request of client c.                     *)

(* ALICE starts first: BOB cannot before the client has her delta.          *)
LEMMA SetupAliceRounds ==
  ASSUME TypeOK, HoldsClient, QueueInv, RoundsInv, SetupAlice
  PROVE  RoundsInv'
<1>1. PICK c \in Client : ttp[ALICE] = c
  BY Holder DEF SetupAlice, Working, Serving
<1>2. /\ pc[ALICE] = "setup" /\ pc'[ALICE] = "handshake" /\ pc'[BOB] = pc[BOB]
      /\ UNCHANGED <<ttp, k, cpc, up, served>>
      /\ \A q \in Party, d \in Client : q # ALICE \/ d # c => down'[q][d] = down[q][d]
  <2>1. \A q \in Party, d \in Client : q # ALICE \/ d # c => down'[q][d] = down[q][d]
    BY <1>1, ToClientEffect DEF SetupAlice
  <2> QED BY <2>1 DEF SetupAlice, TypeOK
<1>3. /\ net'[ALICE] = net[ALICE]
      /\ net'[BOB] = IF IoOpen(BOB) THEN Append(net[BOB], Setup) ELSE net[BOB]
  BY ToPeerEffect DEF SetupAlice, Setup
<1>4. IoOpen(BOB) => NeitherBegan
  BY <1>2 DEF RoundsInv, Meet, IoOpen, AliceFirst, Running, Answered, BobDone, Post
<1>5. IoOpen(BOB) =>
        net[BOB] = << >> /\ net'[BOB] = <<Setup>> /\ Len(<<Setup>>) = 1 /\ <<Setup>>[1] = Setup
  BY <1>3, <1>4, NetMessages, OneQueued DEF NeitherBegan
<1>7. BobNet'
  <2>1. CASE IoOpen(BOB)
    <3>1. pc[BOB] \in Idle /\ Taken' = 0
      BY <1>2, <1>4, <2>1 DEF NeitherBegan, Idle, Taken
    <3>2. Len(net'[BOB]) = 1 /\ net'[BOB][1] = Setup
      BY <1>5, <2>1
    <3>3. Tables(net'[BOB], 0)
      BY <3>2 DEF Tables, ToBob
    <3>4. pc[BOB] # "compute" /\ pc[BOB] \notin {"io", "exited", "reveal"}
      BY <3>1 DEF Idle
    <3> QED BY <1>2, <3>1, <3>2, <3>3, <3>4, RoundsType DEF BobNet
  <2>2. CASE ~IoOpen(BOB)
    BY <1>2, <1>3, <2>2 DEF RoundsInv, BobNet, IoOpen, Idle, Early, Taken
  <2> QED BY <2>1, <2>2
<1>8. AliceNet'
  BY <1>2, <1>3 DEF RoundsInv, AliceNet, Idle
<1>9. Meet'
  <2>1. CASE IoOpen(BOB)
    BY <1>2, <1>3, <1>4, <1>5, <2>1 DEF Meet, NeitherBegan, AliceFirst
  <2>2. CASE ~IoOpen(BOB)
    BY <1>2, <2>2 DEF Meet, IoOpen
  <2> QED BY <2>1, <2>2
<1>10. ttp[BOB] \in Client => ~Resting(ttp[BOB])
  <2> SUFFICES ASSUME ttp[BOB] \in Client, Resting(ttp[BOB]) PROVE FALSE
    OBVIOUS
  <2>1. ttp[BOB] = c
    BY <1>1, <1>2, RestingMet DEF RoundsInv, Met, IoOpen
  <2>2. AliceLink(c)
    BY <1>1 DEF QueueInv, AliceSide
  <2>3. cpc[c] = "done"
    BY <1>2, <2>1, <2>2 DEF AliceLink, Resting, Starting
  <2> QED BY <1>1, <1>2, <2>3 DEF RoundsInv, Clean
<1>11. \A d \in Client : Clean(d)'
  BY <1>1, <1>2, <1>10, CleanWorking DEF Serving
<1>12. \A d \in Client : Met(d)'
  BY <1>1, <1>2, MetWorking DEF Working, Serving
<1> QED BY <1>7, <1>8, <1>9, <1>11, <1>12 DEF RoundsInv

(* BOB starts second, with the client ALICE waits with: it has her delta.   *)
LEMMA SetupBobRounds ==
  ASSUME TypeOK, HoldsClient, QueueInv, RoundsInv, SetupBob
  PROVE  RoundsInv'
<1>1. PICK c \in Client : ttp[BOB] = c
  BY Holder DEF SetupBob, Working, Serving
<1>2. /\ pc[BOB] = "setup" /\ pc'[BOB] = "handshake" /\ pc'[ALICE] = pc[ALICE]
      /\ UNCHANGED <<ttp, k, cpc, down, served>>
  BY DEF SetupBob, TypeOK
<1>3. /\ net'[BOB] = net[BOB]
      /\ net'[ALICE] = IF IoOpen(ALICE) THEN Append(net[ALICE], Setup) ELSE net[ALICE]
  BY ToPeerEffect DEF SetupBob, Setup
<1>4. /\ up[BOB][c] = <<Seed>> /\ up'[BOB][c] = << >>
      /\ \A q \in Party, d \in Client : q # BOB \/ d # c => up'[q][d] = up[q][d]
  <2>1. /\ up[BOB][c] # << >> /\ up'[BOB][c] = Tail(up[BOB][c])
        /\ \A q \in Party, d \in Client : q # BOB \/ d # c => up'[q][d] = up[q][d]
    BY <1>1, ReadClientEffect DEF SetupBob
  <2>2. up[BOB][c] = <<Seed>>
    BY <1>1, <1>2, <2>1 DEF QueueInv, BobSide, BobUp
  <2> QED BY <2>1, <2>2, LabelsAreMessages, OneQueued
<1>5. IoOpen(ALICE) => AliceFirst /\ Together
  <2>1. IoOpen(ALICE) => pc[ALICE] = "handshake" /\ Together
    BY <1>1, <1>4 DEF RoundsInv, Met, SeedUp, Together
  <2> QED BY <1>2, <2>1 DEF RoundsInv, Meet, IoOpen, NeitherBegan, Running, Answered, BobDone,
             Early, Post, Idle
<1>6. IoOpen(ALICE) => net[ALICE] = << >> /\ net'[ALICE] = <<Setup>>
  BY <1>3, <1>5, NetMessages, OneQueued DEF AliceFirst
<1>9. BobNet'
  BY <1>2, <1>3 DEF RoundsInv, BobNet, Idle, Early, Taken
<1>10. AliceNet'
  <2>1. CASE IoOpen(ALICE)
    BY <1>2, <1>5, <1>6, <2>1 DEF AliceFirst, AliceNet, Idle
  <2>2. CASE ~IoOpen(ALICE)
    BY <1>2, <1>3, <2>2 DEF RoundsInv, AliceNet, IoOpen
  <2> QED BY <2>1, <2>2
<1>11. Meet'
  <2>1. CASE IoOpen(ALICE)
    <3>1. Len(<<Setup>>) = 1
      BY NetMessages, OneQueued
    <3> QED BY <1>2, <1>3, <1>5, <1>6, <2>1, <3>1
      DEF Meet, AliceFirst, Running, Taken, Away, Early, Together
  <2>2. CASE ~IoOpen(ALICE)
    BY <1>2, <2>2 DEF Meet, IoOpen
  <2> QED BY <2>1, <2>2
<1>12. pc[ALICE] # "poll"
  BY <1>5 DEF AliceFirst, IoOpen
<1>13. \A d \in Client : Clean(d)'
  BY <1>1, <1>2, <1>4, <1>12, CleanWorking DEF Serving
<1>14. \A d \in Client : Met(d)'
  BY <1>1, <1>2, <1>4, MetWorking DEF Working, Serving, SeedUp
<1> QED BY <1>9, <1>10, <1>11, <1>13, <1>14 DEF RoundsInv

LEMMA HandshakeAliceRounds ==
  ASSUME TypeOK, HoldsClient, QueueInv, RoundsInv, Handshake(ALICE)
  PROVE  RoundsInv'
<1>1. PICK c \in Client : ttp[ALICE] = c
  BY Holder DEF Handshake, Working, Serving
<1>2. /\ pc[ALICE] = "handshake" /\ pc'[ALICE] = "input" /\ pc'[BOB] = pc[BOB]
      /\ UNCHANGED <<ttp, k, cpc, up, down, served>>
  BY DEF Handshake, TypeOK
<1>3. net[ALICE] # << >> /\ net'[ALICE] = Tail(net[ALICE]) /\ net'[BOB] = net[BOB]
  BY ReadPeerEffect DEF Handshake
<1>4. net'[ALICE] = << >>
  <2>1. net[ALICE] = <<Setup>>
    BY <1>2, <1>3 DEF RoundsInv, AliceNet
  <2> QED BY <1>3, <2>1, NetMessages, OneQueued
<1>5. BobNet' /\ AliceNet'
  BY <1>2, <1>3, <1>4 DEF RoundsInv, BobNet, AliceNet, Taken, Idle
<1>6. Meet'
  <2>1. IoOpen(BOB) => Running \/ BobDone
    BY <1>2, <1>3 DEF RoundsInv, Meet, IoOpen, NeitherBegan, AliceFirst, Answered, Idle
  <2>2. Running => Running'
    BY <1>2, <1>3, <1>4 DEF Running, Taken, Away, Post, Together
  <2>3. BobDone => BobDone'
    BY <1>2, <1>3, <1>4 DEF BobDone, Post, FromClient, Together
  <2> QED BY <1>2, <2>1, <2>2, <2>3 DEF Meet, IoOpen
<1>7. \A d \in Client : Clean(d)'
  BY <1>1, <1>2, <1>3, CleanWorking DEF Serving
<1>8. ttp[BOB] \in Client => up[BOB][ttp[BOB]] = << >>
  <2> SUFFICES ASSUME NEW d \in Client, ttp[BOB] = d PROVE up[BOB][d] = << >>
    OBVIOUS
  <2>1. IoOpen(BOB)
    BY SessionAssumption DEF HoldsClient, IoOpen
  <2>2. Running \/ BobDone
    BY <1>2, <1>3, <2>1 DEF RoundsInv, Meet, IoOpen, NeitherBegan, AliceFirst, Answered, Idle
  <2>3. pc[BOB] \in {"handshake", "input", "compute", "reveal"} \/ Post(BOB)
    BY <2>2 DEF Running, BobDone, Early
  <2> QED BY <2>3 DEF Post, FromClient, QueueInv, BobSide, BobUp, Serving
<1>9. \A d \in Client : Met(d)'
  <2>1. <<Seed>> # << >> /\ \A d \in Client : <<N(d), Seed>> # << >>
    BY LabelsAreMessages, OneQueued, TwoQueued
  <2> QED BY <1>1, <1>2, <1>8, <2>1, MetWorking DEF Working, Serving, SeedUp
<1> QED BY <1>5, <1>6, <1>7, <1>9 DEF RoundsInv

LEMMA HandshakeBobRounds ==
  ASSUME TypeOK, HoldsClient, QueueInv, RoundsInv, Handshake(BOB)
  PROVE  RoundsInv'
<1>1. PICK c \in Client : ttp[BOB] = c
  BY Holder DEF Handshake, Working, Serving
<1>2. /\ pc[BOB] = "handshake" /\ pc'[BOB] = "input" /\ pc'[ALICE] = pc[ALICE]
      /\ UNCHANGED <<ttp, k, cpc, up, down, served>>
  BY DEF Handshake, TypeOK
<1>3. net[BOB] # << >> /\ net'[BOB] = Tail(net[BOB]) /\ net'[ALICE] = net[ALICE]
  BY ReadPeerEffect DEF Handshake
<1>4. /\ net[BOB] \in Seq(Message) /\ Len(net[BOB]) \in Nat \ {0}
      /\ Len(net'[BOB]) = Len(net[BOB]) - 1
      /\ Len(net[BOB]) = 1 => net'[BOB] = << >>
  <2>1. net[BOB] \in Seq(Message) /\ Tail(net[BOB]) \in Seq(Message)
    BY <1>3, NetType, HeadTailType
  <2>2. Len(net[BOB]) \in Nat \ {0} /\ Len(Tail(net[BOB])) = Len(net[BOB]) - 1
    BY <1>3, <2>1, TailProps
  <2>3. Len(Tail(net[BOB])) = 0 <=> Tail(net[BOB]) = << >>
    BY <2>1, EmptyLen
  <2> QED BY <1>3, <2>1, <2>2, <2>3
<1>5. Taken = 0 /\ Taken' = 1
  BY <1>2 DEF Taken
<1>6. BobNet'
  <2>1. Tables(net[BOB], 0) /\ Len(net[BOB]) <= Rounds + 1
    BY <1>2, <1>5, <1>4 DEF RoundsInv, BobNet, Early
  <2>2. Tables(net'[BOB], 1)
    BY <1>3, <1>4, <2>1, TablesTail
  <2>3. Flow = LOOP_LEAK => Len(net[BOB]) <= 2
    BY <1>2, <1>5 DEF RoundsInv, BobNet
  <2> QED BY <1>2, <1>4, <1>5, <2>1, <2>2, <2>3, RoundsType DEF BobNet
<1>7. AliceNet'
  BY <1>2, <1>3 DEF RoundsInv, AliceNet
<1>8. Meet'
  <2>1. IoOpen(ALICE) => Running
    BY <1>2, <1>3 DEF RoundsInv, Meet, IoOpen, NeitherBegan, AliceFirst, Answered,
                      BobDone, Idle, Post
  <2>2. Away' = Away
    BY <1>2 DEF Away
  <2>3. k[ALICE] \in Nat /\ Rounds \in Nat
    BY NetType, RoundsType
  <2>4. Running => Running'
    BY <1>2, <1>3, <1>4, <1>5, <2>2, <2>3 DEF Running, Early, Post, FromClient, Away, Together
  <2> QED BY <1>2, <2>1, <2>4 DEF Meet, IoOpen
<1>9. \A d \in Client : Clean(d)'
  BY <1>1, <1>2, <1>3, CleanWorking DEF Serving
<1>10. \A d \in Client : Met(d)'
  BY <1>1, <1>2, MetWorking DEF Working, Serving, SeedUp
<1> QED BY <1>6, <1>7, <1>8, <1>9, <1>10 DEF RoundsInv

(* ALICE only finishes her inputs in a flow that has iterations.            *)
LEMMA InputAliceRounds ==
  ASSUME TypeOK, HoldsClient, QueueInv, QueueInv', RoundsInv, InputAlice
  PROVE  RoundsInv'
<1>1. PICK c \in Client : ttp[ALICE] = c
  BY Holder DEF InputAlice, Working, Serving
<1>2. /\ pc[ALICE] = "input" /\ pc'[BOB] = pc[BOB] /\ k'[BOB] = k[BOB]
      /\ \/ pc'[ALICE] = "input"
         \/ pc'[ALICE] = "compute" /\ k'[ALICE] = 0 /\ Rounds # 0
      /\ UNCHANGED <<ttp, net, cpc, down, served>>
  <2>1. CASE k[ALICE] + 1 = ServerInputs(numPts[ALICE])
    <3>1. AfterRound(ALICE, 0) /\ pc[ALICE] = "input" /\ UNCHANGED <<ttp, net, cpc, down, served>>
      BY <2>1 DEF InputAlice
    <3>2. /\ pc'[ALICE] = IF 0 = Rounds THEN "reveal" ELSE "compute"
          /\ k'[ALICE] = 0 /\ pc'[BOB] = pc[BOB] /\ k'[BOB] = k[BOB]
      BY <3>1 DEF AfterRound, TypeOK
    <3>3. ~NeedsLambda
      BY <3>2 DEF QueueInv, Place
    <3> QED BY <3>1, <3>2, <3>3, RoundsType
  <2>2. CASE k[ALICE] + 1 # ServerInputs(numPts[ALICE])
    BY <2>2 DEF InputAlice, TypeOK
  <2> QED BY <2>1, <2>2
<1>3. \A q \in Party, d \in Client : q # ALICE \/ d # c => up'[q][d] = up[q][d]
  BY <1>1, ReadClientEffect DEF InputAlice
<1>4. net[ALICE] = << >>
  BY <1>2 DEF RoundsInv, AliceNet
<1>5. BobNet' /\ AliceNet'
  BY <1>2, <1>4, RoundsType DEF RoundsInv, BobNet, AliceNet, Taken
<1>6. Meet'
  <2>1. IoOpen(BOB) => Running \/ BobDone
    BY <1>2 DEF RoundsInv, Meet, IoOpen, NeitherBegan, AliceFirst, Answered, Idle
  <2>2. Running => Running'
    BY <1>2, <1>4 DEF Running, Taken, Away, Post, Together
  <2>3. ASSUME BobDone PROVE BobDone'
    <3>1. Rounds = 0
      BY <1>2, <2>3 DEF BobDone, Post
    <3>2. pc[BOB] = "poll" => ttp[BOB] \in Client
      BY Holder DEF Working
    <3>3. Post(BOB) => FromClient(BOB)' = FromClient(BOB)
      BY <1>2, <1>3, <3>2 DEF Post, FromClient
    <3> QED BY <1>2, <1>4, <2>3, <3>1, <3>3 DEF BobDone, Post, Together
  <2> QED BY <1>2, <2>1, <2>2, <2>3 DEF Meet, IoOpen
<1>7. \A d \in Client : Clean(d)'
  BY <1>1, <1>2, <1>3, CleanWorking DEF Serving
<1>8. \A d \in Client : Met(d)'
  BY <1>1, <1>2, <1>3, MetWorking DEF Working, Serving
<1> QED BY <1>5, <1>6, <1>7, <1>8 DEF RoundsInv

(* The tables that ALICE sends are the next BOB has not got.                *)
LEMMA GarbleRounds ==
  ASSUME TypeOK, HoldsClient, QueueInv, RoundsInv, GarbleAlice
  PROVE  RoundsInv'
<1>1. PICK c \in Client : ttp[ALICE] = c
  BY Holder DEF GarbleAlice, Working, Serving
<1> DEFINE j == k[ALICE]
<1>2. /\ pc[ALICE] = "compute" /\ pc'[BOB] = pc[BOB] /\ k'[BOB] = k[BOB]
      /\ j \in Nat /\ j < Rounds /\ Rounds \in Nat
      /\ \/ Flow = LOOP_LEAK /\ pc'[ALICE] = "flag" /\ k'[ALICE] = j
         \/ Flow # LOOP_LEAK /\ pc'[ALICE] = "compute" /\ k'[ALICE] = j + 1 /\ j + 1 < Rounds
         \/ Flow # LOOP_LEAK /\ pc'[ALICE] = "reveal" /\ j + 1 = Rounds
      /\ UNCHANGED <<ttp, cpc, up, down, served>>
  <2>1. pc[ALICE] = "compute" /\ UNCHANGED <<ttp, cpc, up, down, served>>
    BY DEF GarbleAlice
  <2>2. j \in Nat /\ j < Rounds /\ Rounds \in Nat
    BY <2>1, NetType, RoundsType DEF RoundsInv, AliceNet
  <2>3. CASE Flow = LOOP_LEAK
    <3>1. pc' = [pc EXCEPT ![ALICE] = "flag"] /\ k' = k
      BY <2>3 DEF GarbleAlice
    <3> QED BY <2>1, <2>2, <2>3, <3>1 DEF TypeOK
  <2>4. CASE Flow # LOOP_LEAK
    <3>1. AfterRound(ALICE, j + 1)
      BY <2>4 DEF GarbleAlice
    <3> QED BY <2>1, <2>2, <2>4, <3>1 DEF AfterRound, TypeOK
  <2> QED BY <2>3, <2>4
<1>3. /\ net'[ALICE] = net[ALICE]
      /\ net'[BOB] = IF IoOpen(BOB) THEN Append(net[BOB], Msg("tables", j)) ELSE net[BOB]
  BY ToPeerEffect DEF GarbleAlice
<1>4. net[ALICE] = << >>
  BY <1>2 DEF RoundsInv, AliceNet
<1>5. /\ net[BOB] \in Seq(Message) /\ Len(net[BOB]) \in Nat
      /\ Len(net[BOB]) = 0 <=> net[BOB] = << >>
      /\ Taken \in Nat
  BY NetType DEF Taken
<1>6. ASSUME IoOpen(BOB)
      PROVE  /\ pc[BOB] \in Early /\ Taken + Len(net[BOB]) = j + 1 /\ Together
             /\ Flow = LOOP_LEAK => j = 0 \/ net[BOB] = << >>
             /\ Len(net'[BOB]) = Len(net[BOB]) + 1
             /\ Tables(net'[BOB], Taken)
  <2>1. Running
    BY <1>2, <1>6 DEF RoundsInv, Meet, IoOpen, NeitherBegan, AliceFirst, Answered,
                      BobDone, Idle, Post
  <2>2. /\ pc[BOB] \in Early /\ Taken + Len(net[BOB]) = j + 1 /\ Together
        /\ Flow = LOOP_LEAK => j = 0 \/ net[BOB] = << >>
    BY <1>2, <2>1 DEF Running, Away, Post
  <2>3. Msg("tables", j) = ToBob(Taken + Len(net[BOB])) /\ Msg("tables", j) \in Message
    <3>1. j + 1 # 0 /\ (j + 1) - 1 = j /\ j + 1 \in Nat
      BY <1>2
    <3>2. ToBob(j + 1) = Msg("tables", j)
      BY <3>1 DEF ToBob
    <3> QED BY <2>2, <3>1, <3>2, NetMessages
  <2>4. net'[BOB] = Append(net[BOB], ToBob(Taken + Len(net[BOB])))
    BY <1>3, <1>6, <2>3
  <2>5. Tables(net[BOB], Taken)
    BY <2>2 DEF RoundsInv, BobNet
  <2>6. Tables(net'[BOB], Taken)
    BY <1>5, <2>4, <2>5, TablesAppend
  <2>7. Len(net'[BOB]) = Len(net[BOB]) + 1
    BY <1>3, <1>5, <1>6, <2>3, AppendProps
  <2> QED BY <2>2, <2>6, <2>7
<1>7. Taken' = Taken /\ (pc[BOB] = "compute" => Taken = k[BOB] + 1 /\ k[BOB] \in Nat)
      /\ (pc[BOB] # "compute" => Taken \in {0, 1})
  BY <1>2, NetType DEF Taken
<1> HIDE DEF j
<1>8. BobNet'
  <2>1. CASE IoOpen(BOB)
    <3>1. pc[BOB] = "compute" => k[BOB] < Rounds
      BY DEF RoundsInv, BobNet
    <3>2. Taken + Len(net'[BOB]) <= Rounds + 1
      BY <1>2, <1>5, <1>6, <2>1
    <3>3. Flow = LOOP_LEAK => Len(net'[BOB]) <= IF pc[BOB] = "compute" THEN 1 ELSE 2 - Taken
      BY <1>5, <1>6, <1>7, <2>1
    <3> QED BY <1>2, <1>6, <1>7, <2>1, <3>1, <3>2, <3>3 DEF BobNet, Early
  <2>2. CASE ~IoOpen(BOB)
    BY <1>2, <1>3, <1>7, <2>2 DEF RoundsInv, BobNet, Idle, Early, IoOpen
  <2> QED BY <2>1, <2>2
<1>9. AliceNet'
  BY <1>2, <1>3, <1>4 DEF AliceNet
<1>10. Meet'
  <2>1. ASSUME IoOpen(BOB) PROVE Running'
    <3>1. Away' = j + 2
      BY <1>2 DEF Away
    <3>2. Taken' + Len(net'[BOB]) = Away' /\ pc'[BOB] \in Early
      BY <1>2, <1>5, <1>6, <1>7, <2>1, <3>1
    <3>4. Together'
      BY <1>2, <1>6, <2>1 DEF Together
    <3>3. Flow = LOOP_LEAK => Len(net'[BOB]) > 0 /\ (j = 0 \/ Len(net'[BOB]) = 1)
      <4>1. Len(net'[BOB]) = Len(net[BOB]) + 1
        BY <1>6, <2>1
      <4>2. Flow = LOOP_LEAK => j = 0 \/ Len(net[BOB]) = 0
        BY <1>5, <1>6, <2>1
      <4> QED BY <1>5, <4>1, <4>2
    <3> QED BY <1>2, <1>3, <1>4, <3>2, <3>3, <3>4 DEF Running
  <2> QED BY <1>2, <2>1 DEF Meet, IoOpen
<1>11. \A d \in Client : Clean(d)'
  <2>1. pc[BOB] \notin {"ttp", "poll"} \/ ~IoOpen(BOB)
    BY <1>6 DEF Early
  <2> QED BY <1>1, <1>2, <2>1, CleanWorking DEF Serving, IoOpen
<1>12. \A d \in Client : Met(d)'
  BY <1>1, <1>2, MetWorking DEF Working, Serving
<1> QED BY <1>8, <1>9, <1>10, <1>11, <1>12 DEF RoundsInv

(* ALICE leaves the loop where BOB has left it.                             *)
LEMMA FlagRounds ==
  ASSUME TypeOK, HoldsClient, QueueInv, RoundsInv, FlagAlice
  PROVE  RoundsInv'
<1>1. PICK c \in Client : ttp[ALICE] = c
  BY Holder DEF FlagAlice, Working, Serving
<1> DEFINE j == k[ALICE]
           i == IF net[ALICE] = <<Msg("flag", 1)>> THEN Rounds ELSE j + 1
<1>2. /\ pc[ALICE] = "flag" /\ j \in Nat /\ j < Rounds /\ Rounds \in Nat /\ Flow = LOOP_LEAK
      /\ UNCHANGED <<ttp, cpc, up, down, served>>
  <2>1. pc[ALICE] = "flag" /\ UNCHANGED <<ttp, cpc, up, down, served>>
    BY DEF FlagAlice
  <2> QED BY <2>1, NetType, RoundsType DEF RoundsInv, AliceNet
<1>3. net[ALICE] # << >> /\ net'[ALICE] = Tail(net[ALICE]) /\ net'[BOB] = net[BOB]
  BY ReadPeerEffect DEF FlagAlice
<1>4. net[ALICE] = <<Msg("flag", 0)>> \/ net[ALICE] = <<Msg("flag", 1)>>
  BY <1>2, <1>3 DEF RoundsInv, AliceNet
<1>5. /\ net'[ALICE] = << >>
      /\ Head(net[ALICE]).i = 1 <=> net[ALICE] = <<Msg("flag", 1)>>
  <2>1. \A f \in {0, 1} :
          Tail(<<Msg("flag", f)>>) = << >> /\ Head(<<Msg("flag", f)>>) = Msg("flag", f)
    BY NetMessages, OneQueued
  <2>2. \A f \in {0, 1} : Msg("flag", f).i = f
    BY DEF Msg
  <2>3. CASE net[ALICE] = <<Msg("flag", 0)>>
    <3>1. Head(net[ALICE]) = Msg("flag", 0) /\ Tail(net[ALICE]) = << >>
      BY <2>1, <2>3
    <3>2. Head(net[ALICE]).i = 0
      BY <2>2, <3>1
    <3>3. net[ALICE] # <<Msg("flag", 1)>>
      BY <2>1, <2>2, <3>2
    <3> QED BY <1>3, <3>1, <3>2, <3>3
  <2>4. CASE net[ALICE] = <<Msg("flag", 1)>>
    <3>1. Head(net[ALICE]) = Msg("flag", 1) /\ Tail(net[ALICE]) = << >>
      BY <2>1, <2>4
    <3>2. Head(net[ALICE]).i = 1
      BY <2>2, <3>1
    <3> QED BY <1>3, <2>4, <3>1, <3>2
  <2> QED BY <1>4, <2>3, <2>4
<1>6. /\ pc'[ALICE] = IF i = Rounds THEN "reveal" ELSE "compute"
      /\ k'[ALICE] = IF i = Rounds THEN 0 ELSE i
      /\ pc'[BOB] = pc[BOB] /\ k'[BOB] = k[BOB]
  <2>1. AfterRound(ALICE, i)
    BY <1>5 DEF FlagAlice
  <2> QED BY <2>1 DEF AfterRound, TypeOK
<1>7. BobNet' /\ AliceNet'
  <2>1. BobNet'
    BY <1>3, <1>6 DEF RoundsInv, BobNet, Taken
  <2>2. pc'[ALICE] = "compute" => k'[ALICE] < Rounds
    BY <1>2, <1>6
  <2>3. AliceNet'
    BY <1>5, <1>6, <2>2 DEF AliceNet
  <2> QED BY <2>1, <2>3
<1>8. Meet'
  <2>1. IoOpen(BOB) => Answered \/ BobDone
    BY <1>2, <1>3 DEF RoundsInv, Meet, IoOpen, NeitherBegan, AliceFirst, Running,
                      Idle, Post
  <2>2. ASSUME Answered PROVE Running'
    <3>1. /\ pc[BOB] = "compute" /\ k[BOB] = j + 1 /\ net[BOB] = << >>
          /\ net[ALICE] = <<Msg("flag", 0)>>
      BY <2>2 DEF Answered
    <3>2. k[BOB] < Rounds
      BY <3>1 DEF RoundsInv, BobNet
    <3>3. i = j + 1 /\ i # Rounds
      <4>1. <<Msg("flag", 0)>> # <<Msg("flag", 1)>>
        BY NetMessages, OneQueued
      <4> QED BY <1>2, <3>1, <3>2, <4>1
    <3>4. pc'[ALICE] = "compute" /\ k'[ALICE] = j + 1
      BY <1>6, <3>3
    <3>5. Taken' = j + 2 /\ Away' = j + 2 /\ Len(net'[BOB]) = 0
      BY <1>2, <1>3, <1>6, <3>1, <3>4 DEF Taken, Away
    <3> QED BY <1>2, <1>3, <1>5, <1>6, <2>2, <3>1, <3>4, <3>5 DEF Answered, Running, Early, Together
  <2>3. ASSUME BobDone PROVE BobDone'
    <3>1. i = Rounds
      BY <1>2, <1>3, <2>3 DEF BobDone, Post
    <3>2. pc'[ALICE] = "reveal"
      BY <1>6, <3>1
    <3>3. Post(BOB)' <=> Post(BOB)
      BY <1>2, <1>6 DEF Post, FromClient
    <3> QED BY <1>2, <1>3, <1>5, <1>6, <2>3, <3>2, <3>3 DEF BobDone, Together
  <2> QED BY <1>6, <2>1, <2>2, <2>3 DEF Meet, IoOpen
<1>9. \A d \in Client : Clean(d)'
  BY <1>1, <1>2, <1>3, <1>6, CleanWorking DEF Serving
<1>10. \A d \in Client : Met(d)'
  BY <1>1, <1>2, <1>6, MetWorking DEF Working, Serving
<1> QED BY <1>7, <1>8, <1>9, <1>10 DEF RoundsInv

(* BOB goes on with the labels drawn from the seed.                         *)
LEMMA InputBobRounds ==
  ASSUME TypeOK, HoldsClient, QueueInv, RoundsInv, InputBob
  PROVE  RoundsInv'
<1>1. PICK c \in Client : ttp[BOB] = c
  BY Holder DEF InputBob, Working, Serving
<1>2. /\ pc[BOB] = "input" /\ pc'[ALICE] = pc[ALICE] /\ k'[ALICE] = k[ALICE]
      /\ pc'[BOB] = IF 0 = Rounds THEN "reveal" ELSE "compute"
      /\ k'[BOB] = 0
      /\ UNCHANGED <<ttp, cpc, up, down, served, net>>
  BY DEF InputBob, AfterRound, TypeOK
<1>3. /\ Taken = 1 /\ Len(net[BOB]) \in Nat /\ Rounds \in Nat
      /\ Len(net[BOB]) = 0 <=> net[BOB] = << >>
      /\ Tables(net[BOB], 1) /\ 1 + Len(net[BOB]) <= Rounds + 1
      /\ Flow = LOOP_LEAK => Len(net[BOB]) <= 1
  <2>1. Taken = 1
    BY <1>2 DEF Taken
  <2>2. Flow = LOOP_LEAK => Len(net[BOB]) <= 2 - 1
    BY <1>2, <2>1 DEF RoundsInv, BobNet
  <2> QED BY <1>2, <2>1, <2>2, NetType, RoundsType DEF RoundsInv, BobNet, Early
<1>4. AliceNet'
  BY <1>2 DEF RoundsInv, AliceNet
<1>5. \A d \in Client : Clean(d)' /\ Met(d)'
  <2>1. \A d \in Client : Clean(d)'
    BY <1>1, <1>2, CleanWorking DEF Serving
  <2>2. \A d \in Client : Met(d)'
    BY <1>1, <1>2, MetWorking DEF Working, Serving, SeedUp
  <2> QED BY <2>1, <2>2
<1>6. IoOpen(ALICE) => Running
  BY <1>2 DEF RoundsInv, Meet, IoOpen, NeitherBegan, AliceFirst, Answered,
              BobDone, Idle, Post
<1>7. CASE Rounds # 0
  <2>1. pc'[BOB] = "compute" /\ Taken' = 1
    BY <1>2, <1>7 DEF Taken
  <2>2. BobNet'
    BY <1>2, <1>3, <1>7, <2>1 DEF BobNet
  <2>3. Running => Running'
    BY <1>2, <1>3, <2>1 DEF Running, Away, Early, Post, FromClient, Together
  <2>4. Meet'
    BY <1>2, <1>6, <2>3 DEF Meet, IoOpen
  <2> QED BY <1>4, <1>5, <2>2, <2>4 DEF RoundsInv
<1>8. CASE Rounds = 0
  <2>1. pc'[BOB] = "reveal" /\ net[BOB] = << >> /\ Len(net[BOB]) = 0
    BY <1>2, <1>3, <1>8
  <2>2. BobNet'
    BY <1>2, <2>1, <1>8 DEF BobNet, Idle, Early, Taken
  <2>3. NeedsLambda
    BY <1>8, RoundsType
  <2>4. pc[ALICE] \notin {"compute", "flag", "reveal"}
    BY <2>3 DEF QueueInv, Place
  <2>5. Running => BobDone'
    BY <1>2, <1>8, <2>1, <2>4 DEF Running, BobDone, Post, FromClient, Together
  <2>6. Meet'
    BY <1>2, <1>6, <2>5 DEF Meet, IoOpen
  <2> QED BY <1>4, <1>5, <2>2, <2>6 DEF RoundsInv
<1> QED BY <1>7, <1>8

(* After the last tables BOB reveals; in LOOP_LEAK he tells ALICE first.    *)
LEMMA EvaluateRounds ==
  ASSUME TypeOK, HoldsClient, QueueInv, RoundsInv, EvaluateBob
  PROVE  RoundsInv'
<1>1. PICK c \in Client : ttp[BOB] = c
  BY Holder DEF EvaluateBob, Working, Serving
<1> DEFINE j == k[BOB]
<1>2. PICK f \in {0, 1} :
        /\ f = 1 => Flow = LOOP_LEAK
        /\ net'[BOB] = Tail(net[BOB])
        /\ net'[ALICE] = IF Flow = LOOP_LEAK /\ IoOpen(ALICE)
                         THEN Append(net[ALICE], Msg("flag", f)) ELSE net[ALICE]
        /\ AfterRound(BOB, IF f = 1 THEN Rounds ELSE j + 1)
  <2>1. PICK f \in {0, 1} :
          /\ f = 1 => Flow = LOOP_LEAK /\ k[BOB] > 0
          /\ net' = [net EXCEPT
               ![BOB] = Tail(@),
               ![ALICE] = IF Flow = LOOP_LEAK /\ IoOpen(ALICE)
                          THEN Append(@, Msg("flag", f)) ELSE @]
          /\ AfterRound(BOB, IF f = 1 THEN Rounds ELSE k[BOB] + 1)
    BY DEF EvaluateBob
  <2>2. net \in [Party -> Seq(Message)]
    BY DEF TypeOK
  <2>3. /\ net'[BOB] = Tail(net[BOB])
        /\ net'[ALICE] = IF Flow = LOOP_LEAK /\ IoOpen(ALICE)
                         THEN Append(net[ALICE], Msg("flag", f)) ELSE net[ALICE]
    BY <2>1, <2>2
  <2> QED BY <2>1, <2>3
<1> DEFINE last == f = 1 \/ j + 1 = Rounds
<1>3. /\ pc[BOB] = "compute" /\ pc'[ALICE] = pc[ALICE] /\ k'[ALICE] = k[ALICE]
      /\ j \in Nat /\ j < Rounds /\ Rounds \in Nat
      /\ pc'[BOB] = IF last THEN "reveal" ELSE "compute"
      /\ k'[BOB] = IF last THEN 0 ELSE j + 1
      /\ net[BOB] # << >>
      /\ UNCHANGED <<ttp, cpc, up, down, served>>
  <2>1. pc[BOB] = "compute" /\ net[BOB] # << >> /\ UNCHANGED <<ttp, cpc, up, down, served>>
    BY DEF EvaluateBob
  <2>2. j \in Nat /\ j < Rounds /\ Rounds \in Nat
    BY <2>1, NetType, RoundsType DEF RoundsInv, BobNet
  <2>3. CASE f = 1
    <3>1. AfterRound(BOB, Rounds)
      BY <1>2, <2>3
    <3> QED BY <2>1, <2>2, <2>3, <3>1 DEF AfterRound, TypeOK
  <2>4. CASE f = 0
    <3>1. AfterRound(BOB, j + 1)
      BY <1>2, <2>4
    <3> QED BY <2>1, <2>2, <2>4, <3>1 DEF AfterRound, TypeOK
  <2> QED BY <2>3, <2>4
<1>4. /\ Taken = j + 1 /\ Len(net[BOB]) \in Nat \ {0}
      /\ Tables(net[BOB], Taken) /\ Taken + Len(net[BOB]) <= Rounds + 1
      /\ Flow = LOOP_LEAK => Len(net[BOB]) <= 1
  BY <1>3, NetType DEF RoundsInv, BobNet, Early, Taken
<1>5. /\ Tables(net'[BOB], Taken + 1) /\ Len(net'[BOB]) = Len(net[BOB]) - 1
      /\ Len(net'[BOB]) = 0 <=> net'[BOB] = << >>
  <2>1. net[BOB] \in Seq(Message) /\ Tail(net[BOB]) \in Seq(Message)
    BY <1>3, NetType, HeadTailType
  <2>2. Len(Tail(net[BOB])) = Len(net[BOB]) - 1
    BY <1>3, <2>1, TailProps
  <2>3. Len(Tail(net[BOB])) = 0 <=> Tail(net[BOB]) = << >>
    BY <2>1, EmptyLen
  <2>4. Taken \in Nat
    BY <1>3, <1>4
  <2>5. Tables(Tail(net[BOB]), Taken + 1)
    BY <1>3, <1>4, <2>1, <2>4, TablesTail
  <2> QED BY <1>2, <2>2, <2>3, <2>5
<1>6. last => net'[BOB] = << >>
  BY <1>2, <1>3, <1>4, <1>5
<1>7. ~last => Taken' = j + 2 /\ j + 1 < Rounds
  BY <1>3 DEF Taken
<1> HIDE DEF last
<1>8. BobNet'
  <2>1. CASE last
    BY <1>3, <1>6, <2>1 DEF BobNet, Idle, Early, Taken
  <2>2. CASE ~last
    <3>1. Taken' = Taken + 1 /\ pc'[BOB] = "compute" /\ k'[BOB] < Rounds
      BY <1>3, <1>4, <1>7, <2>2
    <3>2. Taken' + Len(net'[BOB]) <= Rounds + 1
      BY <1>3, <1>4, <1>5, <3>1
    <3>3. Flow = LOOP_LEAK => Len(net'[BOB]) <= 1
      BY <1>4, <1>5
    <3> QED BY <1>5, <3>1, <3>2, <3>3 DEF BobNet
  <2> QED BY <2>1, <2>2
<1>9. IoOpen(ALICE) => Running
  BY <1>3 DEF RoundsInv, Meet, IoOpen, NeitherBegan, AliceFirst, Answered,
              BobDone, Idle, Post
<1>10. IoOpen(ALICE) /\ Flow = LOOP_LEAK =>
         /\ pc[ALICE] = "flag" /\ k[ALICE] = j /\ net[ALICE] = << >>
         /\ net'[ALICE] = <<Msg("flag", f)>> /\ net'[BOB] = << >>
  <2> SUFFICES ASSUME Running, IoOpen(ALICE), Flow = LOOP_LEAK
               PROVE  /\ pc[ALICE] = "flag" /\ k[ALICE] = j /\ net[ALICE] = << >>
                      /\ net'[ALICE] = <<Msg("flag", f)>> /\ net'[BOB] = << >>
    BY <1>9
  <2>1. k[ALICE] \in Nat
    BY NetType
  <2>2. Away = j + 2
    BY <1>3, <1>4 DEF Running
  <2>3. pc[ALICE] = "flag" /\ k[ALICE] = j /\ net[ALICE] = << >>
    BY <1>3, <2>1, <2>2 DEF Running, Away, Post
  <2> QED BY <1>2, <1>4, <1>5, <2>3, NetMessages, OneQueued
<1>11. AliceNet'
  <2>1. CASE IoOpen(ALICE) /\ Flow = LOOP_LEAK
    <3>1. k[ALICE] < Rounds
      BY <1>3, <1>10, <2>1
    <3>2. net'[ALICE] \in {<<Msg("flag", 0)>>, <<Msg("flag", 1)>>}
      BY <1>2, <1>10, <2>1
    <3> QED BY <1>3, <1>10, <2>1, <3>1, <3>2 DEF AliceNet, Idle
  <2>2. CASE ~(IoOpen(ALICE) /\ Flow = LOOP_LEAK)
    BY <1>2, <1>3, <2>2 DEF RoundsInv, AliceNet
  <2> QED BY <2>1, <2>2
<1>12. Meet'
  <2> SUFFICES ASSUME IoOpen(ALICE) PROVE Running' \/ Answered' \/ BobDone'
    BY <1>3 DEF Meet, IoOpen
  <2>1. CASE Flow = LOOP_LEAK /\ last
    <3>1. f = 1 \/ (f = 0 /\ j + 1 = Rounds)
      BY <1>2, <2>1 DEF last
    <3> QED BY <1>3, <1>9, <1>10, <2>1, <3>1 DEF BobDone, Running, Together
  <2>2. CASE Flow = LOOP_LEAK /\ ~last
    <3>1. f = 0
      BY <1>2, <2>2 DEF last
    <3> QED BY <1>3, <1>9, <1>10, <2>2, <3>1 DEF Answered, Running, Together
  <2>3. CASE Flow # LOOP_LEAK /\ last
    <3>1. Away = Rounds + 1
      <4>1. j + 1 = Rounds
        BY <1>2, <2>3 DEF last
      <4>2. Taken + Len(net[BOB]) = Away
        BY <1>9 DEF Running
      <4> QED BY <1>3, <1>4, <4>1, <4>2
    <3>2. pc[ALICE] = "compute" => k[ALICE] < Rounds /\ k[ALICE] \in Nat
      BY NetType DEF RoundsInv, AliceNet
    <3>3. pc[ALICE] \in {"reveal", "poll"}
      BY <1>3, <1>9, <2>3, <3>1, <3>2 DEF Running, Away, Post, RoundsInv, AliceNet
    <3> QED BY <1>2, <1>3, <1>6, <1>9, <2>3, <3>3 DEF Running, BobDone, Post, FromClient, Together
  <2>4. CASE Flow # LOOP_LEAK /\ ~last
    <3>1. Taken' + Len(net'[BOB]) = Taken + Len(net[BOB]) /\ Away' = Away
      <4>1. Taken' = j + 2 /\ Taken = j + 1 /\ Len(net'[BOB]) = Len(net[BOB]) - 1
        BY <1>4, <1>5, <1>7, <2>4
      <4>2. Away' = Away
        BY <1>3 DEF Away
      <4>3. \A a \in Nat, b \in Nat \ {0} : (a + 2) + (b - 1) = (a + 1) + b
        OBVIOUS
      <4>4. j \in Nat /\ Len(net[BOB]) \in Nat \ {0}
        BY <1>3, <1>4
      <4> QED BY <4>1, <4>2, <4>3, <4>4
    <3>2. pc[ALICE] # "flag" /\ net'[ALICE] = net[ALICE]
      BY <1>2, <2>4 DEF RoundsInv, AliceNet
    <3> QED BY <1>3, <1>9, <2>4, <3>1, <3>2 DEF Running, Early, Post, FromClient, Together
  <2> QED BY <2>1, <2>2, <2>3, <2>4
<1>13. \A d \in Client : Clean(d)'
  <2>1. pc[ALICE] = "poll" => net'[ALICE] = net[ALICE]
    BY <1>2, <1>10 DEF IoOpen
  <2> QED BY <1>1, <1>3, <1>6, <2>1, CleanWorking DEF Serving
<1>14. \A d \in Client : Met(d)'
  BY <1>1, <1>3, MetWorking DEF Working, Serving, SeedUp
<1> QED BY <1>8, <1>11, <1>12, <1>13, <1>14 DEF RoundsInv

(* A party that has revealed its last share has nothing more to read.       *)
LEMMA RevealRounds ==
  ASSUME TypeOK, HoldsClient, QueueInv, RoundsInv, NEW p \in Party, Reveal(p)
  PROVE  RoundsInv'
<1>1. PICK c \in Client : ttp[p] = c
  BY Holder DEF Reveal, Working, Serving
<1>2. /\ pc[p] = "reveal" /\ pc'[p] \in {"reveal", "poll"}
      /\ \A q \in Party : q # p => pc'[q] = pc[q] /\ k'[q] = k[q]
      /\ UNCHANGED <<ttp, cpc, up, net, served>>
      /\ \A q \in Party, d \in Client : q # p \/ d # c => down'[q][d] = down[q][d]
  <2>1. \A q \in Party, d \in Client : q # p \/ d # c => down'[q][d] = down[q][d]
    BY <1>1, ToClientEffect DEF Reveal
  <2> QED BY <2>1 DEF Reveal, TypeOK
<1>3. net[p] = << >> /\ Len(<< >>) = 0
  BY <1>2 DEF RoundsInv, BobNet, AliceNet
<1>4. FromClient(p) = << >> /\ FromClient(p)' = << >>
  BY <1>1, <1>2 DEF FromClient, QueueInv, AliceSide, AliceUp, BobSide, BobUp, Serving
<1>5. \A d \in Client : Clean(d)' /\ Met(d)'
  <2>1. \A d \in Client : Clean(d)'
    BY <1>1, <1>2, <1>3, CleanWorking DEF Serving
  <2>2. \A d \in Client : Met(d)'
    BY <1>1, <1>2, MetWorking DEF Working, Serving, SeedUp
  <2> QED BY <2>1, <2>2
<1>6. CASE p = ALICE
  <2>1. BobNet' /\ AliceNet'
    BY <1>2, <1>3, <1>6 DEF RoundsInv, BobNet, AliceNet, Taken, Idle
  <2>2. IoOpen(BOB) => Running \/ BobDone
    BY <1>2, <1>6 DEF RoundsInv, Meet, IoOpen, NeitherBegan, AliceFirst, Answered, Idle
  <2>3. Running => Running'
    BY <1>2, <1>4, <1>6 DEF Running, Taken, Away, Post, Together
  <2>4. Post(BOB)' <=> Post(BOB)
    BY <1>2, <1>6 DEF Post, FromClient
  <2>5. BobDone => BobDone' \/ NeitherBegan'
    BY <1>2, <1>4, <1>6, <2>4 DEF BobDone, NeitherBegan, Post, Idle, Together
  <2>6. Meet'
    BY <1>2, <1>6, <2>2, <2>3, <2>5 DEF Meet, IoOpen
  <2> QED BY <1>5, <2>1, <2>6 DEF RoundsInv
<1>7. CASE p = BOB
  <2>1. BobNet' /\ AliceNet'
    <3>1. Tables(<< >>, 0)
      BY DEF Tables
    <3> QED BY <1>2, <1>3, <1>7, <3>1, RoundsType
      DEF RoundsInv, BobNet, AliceNet, Taken, Idle, Early
  <2>2. IoOpen(ALICE) => BobDone
    BY <1>2, <1>7 DEF RoundsInv, Meet, IoOpen, NeitherBegan, AliceFirst, Running,
                      Answered, Idle, Early
  <2>3. cpc[c] \notin {"ptsBob", "delta", "seed"}
    BY <1>1, <1>2, <1>7 DEF QueueInv, BobSide, BobLink
  <2>4. Post(ALICE)' <=> Post(ALICE)
    BY <1>2, <1>7 DEF Post, FromClient
  <2>5. BobDone => BobDone' \/ NeitherBegan'
    BY <1>1, <1>2, <1>3, <1>4, <1>7, <2>3, <2>4 DEF BobDone, NeitherBegan, Post, Idle, Together
  <2>6. Meet'
    BY <1>2, <1>7, <2>2, <2>5 DEF Meet, IoOpen
  <2> QED BY <1>5, <2>1, <2>6 DEF RoundsInv
<1> QED BY <1>6, <1>7

----------------------------------------------------------------------------
(* Steps of a client: no party moves.  A client that has been answered by a *)
(* party does not ask again before its peer has answered as well.           *)

LEMMA ClientRounds ==
  ASSUME TypeOK, HoldsClient, RoundsInv, NEW c \in Client,
         UNCHANGED <<pc, ttp, k, net>>,
         \A d \in Client : d # c =>
           /\ cpc'[d] = cpc[d] /\ served'[d] = served[d]
           /\ \A q \in Party : up'[q][d] = up[q][d] /\ down'[q][d] = down[q][d],
         (\A q \in Party : ttp[q] = c) /\ Post(ALICE) /\ pc[BOB] \in Early \cup {"reveal"}
           => Post(ALICE)',
         (\A q \in Party : ttp[q] = c) /\ Post(BOB) /\ pc[ALICE] \in Serving
           /\ cpc[c] \notin {"ptsBob", "delta", "seed"}
           => Post(BOB)' /\ cpc'[c] \notin {"ptsBob", "delta", "seed"},
         ttp[ALICE] = c /\ pc[ALICE] = "poll" /\ cpc'[c] \in Pose =>
           cpc[c] \in Pose /\ (Post(BOB) => Post(BOB)'),
         Clean(c)', Met(c)'
  PROVE  RoundsInv'
<1>1. BobNet' /\ AliceNet'
  BY DEF RoundsInv, BobNet, AliceNet, Taken
<1>2. ASSUME NEW d \in Client PROVE Clean(d)' /\ Met(d)'
  <2>1. CASE d = c
    BY <2>1
  <2>2. CASE d # c
    BY <2>2 DEF RoundsInv, Clean, Met, AliceMet, SeedUp, Resting, IoOpen
  <2> QED BY <2>1, <2>2
<1>3. /\ pc[ALICE] = "poll" => ttp[ALICE] \in Client
      /\ pc[BOB] = "poll" => ttp[BOB] \in Client
  BY Holder DEF Working
<1>4. /\ ttp[ALICE] # c /\ Post(ALICE) => Post(ALICE)'
      /\ ttp[BOB] # c /\ Post(BOB) => Post(BOB)'
  BY <1>3 DEF Post, FromClient
<1>5. NeitherBegan => NeitherBegan'
  <2> SUFFICES ASSUME NeitherBegan, pc[ALICE] = "poll", cpc'[ttp[ALICE]] \in Pose
               PROVE  Post(BOB)' /\ Together'
    BY DEF NeitherBegan, Idle
  <2>1. cpc[ttp[ALICE]] \in Pose
    BY <1>3
  <2>2. Post(BOB) /\ Together
    BY <2>1 DEF NeitherBegan
  <2>3. CASE ttp[ALICE] = c
    BY <2>2, <2>3 DEF Together
  <2>4. CASE ttp[ALICE] # c
    BY <1>4, <2>2, <2>4 DEF Together
  <2> QED BY <2>3, <2>4
<1>7. AliceFirst => AliceFirst'
  BY DEF AliceFirst
<1>8. Running => Running'
  <2> SUFFICES ASSUME Running PROVE Running'
    OBVIOUS
  <2>1. Together /\ pc[BOB] \in Early /\ Together'
    BY DEF Running, Together
  <2>2. Post(ALICE) => Post(ALICE)'
    BY <1>4, <2>1 DEF Together
  <2> QED BY <2>1, <2>2 DEF Running, Taken, Away
<1>9. Answered => Answered'
  BY DEF Answered, Together
<1>10. BobDone => BobDone'
  <2> SUFFICES ASSUME BobDone PROVE BobDone'
    OBVIOUS
  <2>1. Together /\ Together'
    BY DEF BobDone, Together
  <2>2. CASE pc[BOB] = "reveal"
    <3>1. Post(ALICE) => Post(ALICE)'
      BY <1>4, <2>1, <2>2 DEF Together
    <3> QED BY <2>1, <2>2, <3>1 DEF BobDone
  <2>3. CASE pc[BOB] # "reveal"
    <3>1. Post(BOB) /\ cpc[ttp[BOB]] \notin {"ptsBob", "delta", "seed"} /\ pc[ALICE] \in Serving
      BY <2>3 DEF BobDone, Serving
    <3>2. Post(BOB)' /\ cpc'[ttp[BOB]] \notin {"ptsBob", "delta", "seed"}
      <4>1. CASE ttp[BOB] = c
        BY <2>1, <3>1, <4>1 DEF Together
      <4>2. CASE ttp[BOB] # c
        BY <1>3, <1>4, <3>1, <4>2 DEF Post
      <4> QED BY <4>1, <4>2
    <3> QED BY <2>1, <2>3, <3>2 DEF BobDone
  <2> QED BY <2>2, <2>3
<1>11. Meet'
  BY <1>5, <1>7, <1>8, <1>9, <1>10 DEF RoundsInv, Meet, IoOpen
<1> QED BY <1>1, <1>2, <1>11 DEF RoundsInv

LEMMA SendNumPtsRounds ==
  ASSUME TypeOK, HoldsClient, QueueInv, RoundsInv, NEW c \in Client, SendNumPts(c)
  PROVE  RoundsInv'
<1>1. /\ cpc[c] \in {"ptsAlice", "ptsBob"} /\ cpc'[c] \in {"ptsBob", "delta"}
      /\ cpc[c] = "ptsAlice" <=> cpc'[c] = "ptsBob"
      /\ \A d \in Client : d # c => cpc'[d] = cpc[d]
      /\ UNCHANGED <<pc, ttp, k, net, down, served>>
  BY DEF SendNumPts, Hop, TypeOK
<1>2. /\ \A q \in Party, d \in Client : d # c => up'[q][d] = up[q][d]
      /\ cpc[c] = "ptsBob" => up'[ALICE][c] = up[ALICE][c]
      /\ up'[BOB][c] = IF cpc[c] = "ptsBob" /\ ttp[BOB] = c THEN Append(up[BOB][c], N(c))
                                                           ELSE up[BOB][c]
  <2>1. CASE cpc[c] = "ptsAlice"
    BY <2>1, ToPartyEffect DEF SendNumPts
  <2>2. CASE cpc[c] = "ptsBob"
    BY <2>2, ToPartyEffect DEF SendNumPts, N
  <2> QED BY <1>1, <2>1, <2>2
<1>3. /\ ttp[ALICE] = c => AliceLink(c)
      /\ ttp[BOB] = c => BobLink(c)
  BY DEF QueueInv, AliceSide, BobSide
<1>4. ~(ttp[BOB] = c /\ pc[BOB] \in Serving)
  BY <1>1, <1>3 DEF BobLink, Serving
<1>5. cpc[c] = "ptsAlice" => ~(ttp[ALICE] = c /\ pc[ALICE] \in Serving)
  BY <1>3 DEF AliceLink, Starting, Serving
<1>6. Clean(c)'
  BY <1>1 DEF Clean, Resting, Pose
<1>7. Met(c)'
  <2>1. AliceMet(c)' => AliceMet(c)
    BY <1>1 DEF AliceMet, Pose
  <2>2. ttp[BOB] = c /\ SeedUp(c)' => SeedUp(c)
    <3>1. ttp[BOB] = c => up[BOB][c] = << >>
      BY <1>1, <1>3 DEF BobLink
    <3>2. Append(<< >>, N(c)) = <<N(c)>> /\ <<N(c)>> # <<Seed>> /\ <<N(c)>> # <<N(c), Seed>>
      <4>1. N(c) # Seed
        BY DEF N, Seed, Msg
      <4>2. Len(<<N(c)>>) = 1 /\ Len(<<N(c), Seed>>) = 2 /\ <<N(c)>>[1] = N(c) /\ <<Seed>>[1] = Seed
        OBVIOUS
      <4>3. <<N(c)>> # <<Seed>> /\ <<N(c)>> # <<N(c), Seed>>
        BY <4>1, <4>2
      <4> QED BY <4>3, LabelsAreMessages, OneQueued
    <3> QED BY <1>2, <3>1, <3>2 DEF SeedUp
  <2> QED BY <1>1, <2>1, <2>2 DEF RoundsInv, Met, IoOpen
<1> QED BY <1>1, <1>2, <1>4, <1>5, <1>6, <1>7, ClientRounds DEF Early, Serving, Pose

LEMMA RecvDeltaRounds ==
  ASSUME TypeOK, HoldsClient, QueueInv, RoundsInv, NEW c \in Client, RecvDelta(c)
  PROVE  RoundsInv'
<1>1. /\ cpc[c] = "delta" /\ cpc'[c] = "seed" /\ down[ALICE][c] # << >>
      /\ \A d \in Client : d # c => cpc'[d] = cpc[d]
      /\ UNCHANGED <<pc, ttp, k, net, up, served>>
      /\ \A q \in Party, d \in Client : q # ALICE \/ d # c => down'[q][d] = down[q][d]
  <2>1. /\ down[ALICE][c] # << >>
        /\ \A q \in Party, d \in Client : q # ALICE \/ d # c => down'[q][d] = down[q][d]
    BY ReadPartyEffect DEF RecvDelta
  <2> QED BY <2>1 DEF RecvDelta, Hop, TypeOK
<1>2. Clean(c)'
  BY <1>1 DEF Clean, Resting, Pose
<1>3. Post(ALICE) => Post(ALICE)'
  BY <1>1 DEF Post, FromClient
<1>4. Met(c)'
  <2>1. AliceMet(c)
    BY <1>1 DEF AliceMet
  <2>2. SeedUp(c)' => SeedUp(c)
    BY <1>1 DEF SeedUp
  <2> QED BY <1>1, <2>1, <2>2 DEF RoundsInv, Met, IoOpen
<1> QED BY <1>1, <1>2, <1>3, <1>4, ClientRounds DEF Pose

(* The seed follows the delta: ALICE has it, and waits for BOB.             *)
LEMMA SendSeedRounds ==
  ASSUME TypeOK, HoldsClient, QueueInv, RoundsInv, NEW c \in Client, SendSeed(c)
  PROVE  RoundsInv'
<1>1. /\ cpc[c] = "seed" /\ cpc'[c] = "labels"
      /\ \A d \in Client : d # c => cpc'[d] = cpc[d]
      /\ UNCHANGED <<pc, ttp, k, net, down, served>>
  BY DEF SendSeed, Hop, TypeOK
<1>2. /\ up'[BOB][c] = IF ttp[BOB] = c THEN Append(up[BOB][c], Seed) ELSE up[BOB][c]
      /\ \A q \in Party, d \in Client : q # BOB \/ d # c => up'[q][d] = up[q][d]
  BY ToPartyEffect DEF SendSeed, Seed
<1>3. ttp[BOB] = c => up'[BOB][c] # << >>
  <2>1. up[BOB][c] \in Seq(Message)
    BY DEF TypeOK
  <2> QED BY <1>2, <2>1, LabelsAreMessages, AppendProps
<1>4. Clean(c)'
  BY <1>1, <1>3 DEF Clean
<1>5. ttp[ALICE] = c /\ Post(ALICE) => Post(ALICE)'
  BY <1>1, <1>2 DEF Post, FromClient
<1>6. ttp[BOB] = c /\ IoOpen(ALICE) => ttp[ALICE] = c /\ pc[ALICE] = "handshake"
  <2> SUFFICES ASSUME ttp[BOB] = c, IoOpen(ALICE)
               PROVE  ttp[ALICE] = c /\ pc[ALICE] = "handshake"
    OBVIOUS
  <2>1. ttp[ALICE] = c
    BY <1>1 DEF RoundsInv, Met, AliceMet
  <2>2. pc[ALICE] \in {"handshake", "input"}
    BY <1>1, <2>1 DEF QueueInv, AliceSide, AliceLink
  <2>3. pc[BOB] \in Idle /\ ~Post(BOB)
    <3>1. <<N(c)>> # << >>
      BY LabelsAreMessages, OneQueued
    <3>2. BobLink(c)
      BY DEF QueueInv, BobSide
    <3> QED BY <1>1, <3>1, <3>2 DEF BobLink, Idle, Post, FromClient
  <2> QED BY <2>1, <2>2, <2>3
      DEF RoundsInv, Meet, IoOpen, NeitherBegan, AliceFirst, Running, Answered, BobDone, Idle, Early
<1>7. Met(c)'
  <2>1. AliceMet(c)
    BY <1>1 DEF AliceMet
  <2> QED BY <1>1, <1>6, <2>1 DEF RoundsInv, Met, IoOpen
<1> QED BY <1>1, <1>2, <1>4, <1>5, <1>7, ClientRounds DEF Pose

LEMMA SendLabelRounds ==
  ASSUME TypeOK, HoldsClient, QueueInv, RoundsInv, NEW c \in Client, SendLabel(c)
  PROVE  RoundsInv'
<1>1. /\ cpc[c] = "labels" /\ cpc'[c] \in {"labels", "poseAlice"}
      /\ \A d \in Client : d # c => cpc'[d] = cpc[d]
      /\ UNCHANGED <<pc, ttp, k, net, down, served>>
  BY DEF SendLabel, Hop, TypeOK
<1>2. \A q \in Party, d \in Client : q # ALICE \/ d # c => up'[q][d] = up[q][d]
  BY ToPartyEffect DEF SendLabel
<1>3. ttp[ALICE] = c => pc[ALICE] # "poll"
  BY <1>1 DEF QueueInv, AliceSide, AliceLink
<1>4. Clean(c)'
  BY <1>1, <1>2 DEF RoundsInv, Clean, Resting
<1>5. ttp[BOB] = c /\ Post(BOB) => Post(BOB)'
  BY <1>1, <1>2 DEF Post, FromClient
<1>6. Met(c)'
  <2>1. AliceMet(c)
    BY <1>1 DEF AliceMet
  <2>2. SeedUp(c)' => SeedUp(c)
    BY <1>2 DEF SeedUp
  <2> QED BY <1>1, <2>1, <2>2 DEF RoundsInv, Met, IoOpen
<1> QED BY <1>1, <1>2, <1>3, <1>4, <1>5, <1>6, ClientRounds DEF Post

(* ALICE gives shares only of a request that BOB, if he is there, is on.    *)
LEMMA ShareTogether ==
  ASSUME TypeOK, HoldsClient, QueueInv, RoundsInv, NEW c \in Client,
         ttp[ALICE] = c, cpc[c] \in Pose, Given(ALICE, c) > 0, IoOpen(BOB)
  PROVE  ttp[BOB] = c
<1>1. pc[ALICE] \in {"reveal", "poll"}
  BY DEF QueueInv, AliceSide, AliceLink
<1>2. IoOpen(ALICE)
  BY <1>1 DEF IoOpen
<1> QED BY <1>1, <1>2
    DEF RoundsInv, Meet, NeitherBegan, AliceFirst, Running, Answered, BobDone, Idle, Together

LEMMA RecvShareRounds ==
  ASSUME TypeOK, HoldsClient, QueueInv, RoundsInv, NEW c \in Client, RecvShare(c)
  PROVE  RoundsInv'
<1>1. /\ cpc[c] \in Pose /\ cpc'[c] \in Pose \cup {"ptsAlice", "done"}
      /\ cpc'[c] = "poseBob" => cpc[c] = "poseAlice" /\ down[ALICE][c] # << >>
      /\ \A d \in Client : d # c => cpc'[d] = cpc[d] /\ served'[d] = served[d]
      /\ cpc'[c] \in {"ptsAlice", "done"} => served'[c] > 0
      /\ UNCHANGED <<pc, ttp, k, net, up>>
      /\ \A q \in Party, d \in Client : d # c => down'[q][d] = down[q][d]
  <2>1. CASE cpc[c] = "poseAlice"
    <3>1. /\ down[ALICE][c] # << >>
          /\ \A q \in Party, d \in Client : q # ALICE \/ d # c => down'[q][d] = down[q][d]
      BY <2>1, ReadPartyEffect DEF RecvShare
    <3> QED BY <2>1, <3>1 DEF RecvShare, Hop, TypeOK, Pose
  <2>2. CASE cpc[c] = "poseBob"
    <3>1. CASE ck[c] + 1 < ClientOutputs
      <4>1. /\ cpc' = [cpc EXCEPT ![c] = "poseAlice"] /\ served' = served
            /\ down' = [down EXCEPT ![BOB][c] = Tail(@)]
            /\ UNCHANGED <<pc, ttp, k, net, up>>
        BY <2>2, <3>1 DEF RecvShare, Hop
      <4> QED BY <2>2, <4>1 DEF TypeOK, Pose
    <3>2. CASE ~(ck[c] + 1 < ClientOutputs) /\ served[c] + 1 < Requests
      <4>1. /\ cpc' = [cpc EXCEPT ![c] = "ptsAlice"]
            /\ served' = [served EXCEPT ![c] = @ + 1]
            /\ down' = [down EXCEPT ![BOB][c] = Tail(@)]
            /\ UNCHANGED <<pc, ttp, k, net, up>>
        BY <2>2, <3>2 DEF RecvShare, Hop
      <4>2. served[c] \in Nat
        BY DEF TypeOK
      <4>3. served'[c] > 0
        BY <4>1, <4>2 DEF TypeOK
      <4> QED BY <2>2, <4>1, <4>3 DEF TypeOK, Pose
    <3>3. CASE ~(ck[c] + 1 < ClientOutputs) /\ ~(served[c] + 1 < Requests)
      <4>1. /\ cpc' = [cpc EXCEPT ![c] = "done"]
            /\ served' = [served EXCEPT ![c] = @ + 1]
            /\ down' = [p \in Party |-> [down[p] EXCEPT ![c] = << >>]]
            /\ UNCHANGED <<pc, ttp, k, net, up>>
        BY <2>2, <3>3 DEF RecvShare, Hop
      <4>2. served[c] \in Nat
        BY DEF TypeOK
      <4>3. served'[c] > 0
        BY <4>1, <4>2 DEF TypeOK
      <4> QED BY <2>2, <4>1, <4>3 DEF TypeOK, Pose
    <3> QED BY <3>1, <3>2, <3>3
  <2> QED BY <2>1, <2>2 DEF RecvShare
<1>2. cpc'[c] = "done" =>
        \A p \in Party : ttp[p] = c => pc[p] = "poll" /\ up[p][c] = << >> /\ net[p] = << >>
  <2> SUFFICES ASSUME cpc'[c] = "done", NEW p \in Party, ttp[p] = c
               PROVE  pc[p] = "poll" /\ up[p][c] = << >> /\ net[p] = << >>
    OBVIOUS
  <2>1. cpc[c] = "poseBob" /\ down[BOB][c] # << >> /\ ~(ck[c] + 1 < ClientOutputs)
    BY DEF RecvShare, Hop, TypeOK
  <2>2. pc[p] = "poll" /\ up[p][c] = << >>
    BY <2>1, LastShare
  <2> QED BY <1>1, <2>2 DEF RoundsInv, Clean, Resting, AliceNet, Idle
<1>3. Clean(c)'
  BY <1>1, <1>2 DEF RoundsInv, Clean, Resting
<1>4. \A p \in Party : Post(p)' <=> Post(p)
  BY <1>1 DEF Post, FromClient
<1>5. Met(c)'
  <2>1. AliceMet(c) /\ Met(c)
    BY <1>1 DEF AliceMet, RoundsInv
  <2>2. SeedUp(c)' => SeedUp(c)
    BY <1>1 DEF SeedUp
  <2>3. ttp[ALICE] = c /\ IoOpen(BOB) /\ ttp[BOB] # c =>
          down'[BOB][c] = << >> /\ cpc'[c] # "poseBob"
    <3> SUFFICES ASSUME ttp[ALICE] = c, IoOpen(BOB), ttp[BOB] # c
                 PROVE  down'[BOB][c] = << >> /\ cpc'[c] # "poseBob"
      OBVIOUS
    <3>1. cpc[c] = "poseAlice" /\ down[BOB][c] = << >>
      BY <1>1, <2>1 DEF Met, Pose
    <3>2. down'[BOB][c] = << >>
      BY <3>1, ReadPartyEffect DEF RecvShare
    <3>3. ~(Given(ALICE, c) > 0)
      BY <3>1, ShareTogether DEF Pose
    <3>4. down[ALICE][c] = << >>
      <4>1. down[ALICE][c] \in Seq(Message) /\ ck[c] \in Nat
        BY DEF TypeOK
      <4>2. Given(ALICE, c) = ck[c] + Len(down[ALICE][c])
        BY <3>1 DEF Given, Got
      <4> QED BY <3>3, <4>1, <4>2, EmptyLen
    <3> QED BY <1>1, <3>2, <3>4
  <2> QED BY <1>1, <2>1, <2>2, <2>3 DEF Met, IoOpen, Pose
<1> QED BY <1>1, <1>3, <1>4, <1>5, ClientRounds DEF Pose

LEMMA ClientEndsRounds ==
  ASSUME TypeOK, HoldsClient, RoundsInv, NEW c \in Client,
         NEW how \in {"gaveUp", "crashed"}, ClientEnds(c, how)
  PROVE  RoundsInv'
<1>1. /\ cpc'[c] = how
      /\ \A d \in Client : d # c =>
           cpc'[d] = cpc[d] /\ \A q \in Party : down'[q][d] = down[q][d]
      /\ \A q \in Party : down'[q][c] = << >>
      /\ UNCHANGED <<pc, ttp, k, net, up, served>>
  BY DEF ClientEnds, Hop, TypeOK
<1>2. Clean(c)'
  BY <1>1 DEF Clean, Resting, Pose
<1>3. \A p \in Party : Post(p)' <=> Post(p)
  BY <1>1 DEF Post, FromClient
<1>4. Met(c)'
  <2>1. AliceMet(c)' => AliceMet(c)
    BY <1>1 DEF AliceMet, Pose
  <2>2. SeedUp(c)' => SeedUp(c)
    BY <1>1 DEF SeedUp
  <2> QED BY <1>1, <2>1, <2>2 DEF RoundsInv, Met, IoOpen
<1> QED BY <1>1, <1>2, <1>3, <1>4, ClientRounds DEF Pose

----------------------------------------------------------------------------
(* The invariant is inductive.                                              *)

LEMMA RoundsInit == Init => RoundsInv
<1> SUFFICES ASSUME Init PROVE RoundsInv
  OBVIOUS
<1>1. /\ \A p \in Party : pc[p] = "io" /\ ttp[p] = None /\ k[p] = 0 /\ net[p] = << >>
      /\ \A c \in Client : cpc[c] = "connectAlice" /\ served[c] = 0
  BY DEF Init
<1>2. Len(<< >>) = 0
  OBVIOUS
<1>3. BobNet /\ AliceNet
  BY <1>1, <1>2 DEF BobNet, AliceNet, Idle, Early, Taken
<1>4. Meet
  BY <1>1 DEF Meet, IoOpen
<1>5. ASSUME NEW c \in Client PROVE Clean(c) /\ Met(c)
  BY <1>1, SessionAssumption DEF Clean, Met
<1> QED BY <1>3, <1>4, <1>5 DEF RoundsInv

LEMMA RoundsStep ==
  ASSUME TypeOK, HoldsClient, QueueInv, QueueInv', RoundsInv, [Next]_vars
  PROVE  RoundsInv'
<1>1. CASE ConnectIo
  BY <1>1, ConnectIoRounds
<1>2. ASSUME NEW p \in Party, Accept(p) PROVE RoundsInv'
  BY <1>2, AcceptRounds
<1>3. ASSUME NEW p \in Party, Poll(p) PROVE RoundsInv'
  BY <1>3, QuietRounds DEF Poll
<1>4. ASSUME NEW p \in Party, Restart(p) PROVE RoundsInv'
  <2>1. pc[p] \in Working /\ Close(p, "io") /\ UNCHANGED <<cpc, down, served>>
    BY <1>4 DEF Restart, Working
  <2> QED BY <2>1, CloseRounds
<1>5. ASSUME NEW p \in Party, Exit(p) PROVE RoundsInv'
  <2>1. pc[p] \in Working /\ Close(p, "exited") /\ UNCHANGED <<cpc, down, served>>
    BY <1>5 DEF Exit, ReadsClient, ReadsPeer, WritesClient, WritesPeer, Working, Serving
  <2> QED BY <2>1, CloseRounds
<1>6. ASSUME NEW p \in Party, Serve(p) \/ RecvNumPts(p) \/ Handshake(p) \/ Reveal(p)
      PROVE  RoundsInv'
  BY <1>6, ServeRounds, HandshakeAliceRounds, HandshakeBobRounds, RevealRounds
<1>7. CASE SetupAlice \/ InputAlice \/ GarbleAlice \/ FlagAlice
  BY <1>7, SetupAliceRounds, InputAliceRounds, GarbleRounds, FlagRounds
<1>8. CASE SetupBob \/ InputBob \/ EvaluateBob
  BY <1>8, SetupBobRounds, InputBobRounds, EvaluateRounds
<1>9. ASSUME NEW c \in Client,
             \/ Connect(c) \/ SendNumPts(c) \/ RecvDelta(c) \/ SendSeed(c) \/ SendLabel(c)
             \/ RecvShare(c)
      PROVE  RoundsInv'
  BY <1>9, ConnectRounds, SendNumPtsRounds, RecvDeltaRounds, SendSeedRounds, SendLabelRounds,
     RecvShareRounds
<1>10. ASSUME NEW c \in Client, NEW how \in {"gaveUp", "crashed"}, ClientEnds(c, how)
       PROVE  RoundsInv'
  BY <1>10, ClientEndsRounds
<1>11. CASE UNCHANGED vars
  BY <1>11, QuietRounds DEF vars
<1> QED
  BY <1>1, <1>2, <1>3, <1>4, <1>5, <1>6, <1>7, <1>8, <1>9, <1>10, <1>11
  DEF Next, PartyStep, LmServer, ClientStep, ClientExit, Crash

(* In every reachable state the parties are in a phase of a request, and    *)
(* the socket between them holds what the phase expects.                    *)
THEOREM SessionRounds == Spec => [](SessionInv /\ QueueInv /\ RoundsInv)
<1>1. Init => RoundsInv
  BY RoundsInit
<1>2. (SessionInv /\ QueueInv) /\ (SessionInv /\ QueueInv)' /\ RoundsInv /\ [Next]_vars
        => RoundsInv'
  BY RoundsStep DEF SessionInv
<1> QED BY SessionQueues, <1>1, <1>2, PTL DEF Spec

----------------------------------------------------------------------------
(* What follows for the two clients, the iterations and the end of a request. *)

(* SameClient: the clients at the door may be let in by one party each, but *)
(* then neither party gets past the handshake.                              *)
THEOREM SessionSameClient == Spec => []SameClient
<1>1. SessionInv /\ RoundsInv => SameClient
  <2> SUFFICES ASSUME SessionInv, RoundsInv, NEW p \in Party, Joined(p),
                      ttp[ALICE] # None, ttp[BOB] # None
               PROVE  ttp[ALICE] = ttp[BOB]
    BY DEF SameClient
  <2>1. IoOpen(ALICE) /\ IoOpen(BOB)
    BY DEF SessionInv, HoldsClient, IoOpen
  <2>2. Running \/ Answered \/ BobDone
    BY <2>1 DEF RoundsInv, Meet, NeitherBegan, AliceFirst, Joined, Idle
  <2> QED BY <2>2 DEF Running, Answered, BobDone, Together
<1> QED BY SessionRounds, <1>1, PTL

(* BOB evaluates the tables of the iteration he is at, ALICE reads a flag   *)
(* where she expects one, and no party is left waiting in a request that    *)
(* its peer has left, or that waits for it.                                 *)
THEOREM SessionIterationsInStep == Spec => []IterationsInStep
<1>1. SessionInv /\ QueueInv /\ RoundsInv => IterationsInStep
  <2> SUFFICES ASSUME SessionInv, QueueInv, RoundsInv PROVE IterationsInStep
    OBVIOUS
  <2>1. \A p \in Party : net[p] \in Seq(Message) /\ k[p] \in Nat
    BY DEF SessionInv, TypeOK
  <2>2. /\ pc[BOB] # "flag"
        /\ \A p \in Party : Waits(p) =>
             IoOpen(p) /\ net[p] = << >>
             /\ pc[p] \in {"handshake", "flag", "compute"} /\ (p = ALICE => pc[p] # "compute")
    BY DEF QueueInv, Place, Waits, ReadsPeer, IoOpen
  <2>3. /\ <<Setup>> # << >> /\ <<Msg("flag", 0)>> # << >> /\ <<Msg("flag", 1)>> # << >>
        /\ Len(<< >>) = 0
    BY NetMessages, OneQueued
  <2>4. ASSUME pc[BOB] = "compute", net[BOB] # << >>
        PROVE  Head(net[BOB]) = Msg("tables", k[BOB])
    <3>1. Tables(net[BOB], k[BOB] + 1)
      BY <2>4 DEF RoundsInv, BobNet, Early, Taken
    <3>2. Head(net[BOB]) = ToBob(k[BOB] + 1)
      BY <2>1, <2>4, <3>1, TablesTail
    <3>3. k[BOB] + 1 # 0 /\ (k[BOB] + 1) - 1 = k[BOB]
      BY <2>1
    <3> QED BY <3>2, <3>3 DEF ToBob
  <2>5. ASSUME pc[ALICE] = "flag", net[ALICE] # << >>
        PROVE  Head(net[ALICE]).name = "flag"
    <3>1. PICK i \in {0, 1} : net[ALICE] = <<Msg("flag", i)>>
      BY <2>5 DEF RoundsInv, AliceNet
    <3>2. Head(net[ALICE]) = Msg("flag", i)
      BY <3>1, NetMessages, OneQueued
    <3> QED BY <3>2 DEF Msg
  <2>6. ~(Waits(ALICE) /\ Waits(BOB))
    <3> SUFFICES ASSUME Waits(ALICE), Waits(BOB) PROVE FALSE
      OBVIOUS
    <3>1. /\ IoOpen(ALICE) /\ pc[ALICE] \in {"handshake", "flag"} /\ net[ALICE] = << >>
          /\ IoOpen(BOB) /\ pc[BOB] \in {"handshake", "compute"} /\ net[BOB] = << >>
      BY <2>2
    <3>2. Running
      BY <2>3, <3>1 DEF RoundsInv, Meet, NeitherBegan, AliceFirst, Answered, BobDone,
         Idle, Post
    <3> QED BY <2>3, <3>1, <3>2 DEF Running, Post
  <2>7. ~(Waits(ALICE) /\ pc[BOB] = "reveal")
    BY <2>2, <2>3 DEF RoundsInv, Meet, IoOpen, NeitherBegan, AliceFirst, Running,
       Answered, BobDone, Idle, Early, Post
  <2>8. ~(Waits(BOB) /\ pc[ALICE] = "reveal")
    <3> SUFFICES ASSUME Waits(BOB), pc[ALICE] = "reveal" PROVE FALSE
      OBVIOUS
    <3>1. Running
      BY <2>2 DEF RoundsInv, Meet, IoOpen, NeitherBegan, AliceFirst, Answered, BobDone,
         Idle, Post
    <3>2. Taken = Rounds + 1
      <4>1. Taken + Len(net[BOB]) = Rounds + 1
        BY <3>1 DEF Running, Away
      <4>2. Taken \in Nat /\ Len(net[BOB]) = 0
        BY <2>1, <2>2, <2>3 DEF Taken
      <4> QED BY <4>1, <4>2
    <3>3. pc[BOB] = "compute" => k[BOB] < Rounds
      BY DEF RoundsInv, BobNet
    <3>4. pc[BOB] \in {"handshake", "compute"}
      BY <2>2
    <3> QED BY <2>1, <3>2, <3>3, <3>4, RoundsType DEF Taken
  <2> QED BY <2>4, <2>5, <2>6, <2>7, <2>8 DEF IterationsInStep
<1> QED BY SessionRounds, <1>1, PTL

(* A client that was answered left nothing in a socket that could be taken  *)
(* for the start of another request.                                        *)
THEOREM SessionNothingLeftOver == Spec => []NothingLeftOver
<1>1. SessionInv /\ QueueInv /\ RoundsInv => NothingLeftOver
  <2> SUFFICES ASSUME QueueInv, RoundsInv, NEW c \in Client, NEW p \in Party,
                      \/ cpc[c] = "ptsAlice" /\ served[c] > 0
                      \/ cpc[c] = "done" /\ ttp[p] = c
               PROVE  up[p][c] = << >> /\ (pc[p] = "poll" /\ ttp[p] = c => net[p] = << >>)
    BY DEF NothingLeftOver
  <2>1. Clean(c) /\ Closed(c)
    BY DEF QueueInv, RoundsInv
  <2>2. CASE cpc[c] = "done"
    BY <2>1, <2>2 DEF Clean
  <2>3. CASE cpc[c] = "ptsAlice" /\ ttp[p] # c
    BY <2>1, <2>3 DEF Closed
  <2>4. CASE cpc[c] = "ptsAlice" /\ served[c] > 0 /\ ttp[p] = c
    <3>1. up[p][c] = << >>
      BY <2>4 DEF QueueInv, AliceSide, BobSide, AliceLink, BobLink, Starting
    <3> QED BY <2>1, <2>4, <3>1 DEF RoundsInv, Clean, Resting, AliceNet, Idle
  <2> QED BY <2>2, <2>3, <2>4
<1> QED BY SessionRounds, <1>1, PTL

----------------------------------------------------------------------------
(* Nobody waits for good.  Two more facts of the place of ALICE: an input   *)
(* she waits for is one the client still sends, and a client that waits for *)
(* its delta finds it.                                                      *)

InputLeft == pc[ALICE] = "input" => k[ALICE] < ServerInputs(numPts[ALICE])
DeltaSent(c) ==
  ttp[ALICE] = c /\ pc[ALICE] \in {"handshake", "input"} /\ cpc[c] \in {"ptsBob", "delta"}
  => down[ALICE][c] = <<Delta>>
AskInv == InputLeft /\ \A c \in Client : DeltaSent(c)

(* A step that leaves ALICE where she is, or takes her elsewhere.           *)
LEMMA AskFrame ==
  ASSUME AskInv,
         pc'[ALICE] \in {"handshake", "input"} =>
           /\ pc'[ALICE] = pc[ALICE] /\ ttp'[ALICE] = ttp[ALICE]
           /\ pc[ALICE] = "input" => k'[ALICE] = k[ALICE] /\ numPts'[ALICE] = numPts[ALICE],
         \A c \in Client : cpc'[c] \in {"ptsBob", "delta"} =>
           \/ cpc[c] \in {"ptsBob", "delta"} /\ down'[ALICE][c] = down[ALICE][c]
           \/ ttp'[ALICE] = c => pc'[ALICE] \notin {"handshake", "input"}
  PROVE  AskInv'
<1>1. InputLeft'
  BY DEF AskInv, InputLeft, ServerInputs
<1>2. ASSUME NEW c \in Client PROVE DeltaSent(c)'
  BY DEF AskInv, DeltaSent
<1> QED BY <1>1, <1>2 DEF AskInv

LEMMA AskPartyStep ==
  ASSUME TypeOK, HoldsClient, QueueInv, AskInv, NEW p \in Party, PartyStep(p)
  PROVE  AskInv'
<1>1. /\ pc \in [Party -> PartyPlace] /\ k \in [Party -> Nat] /\ numPts \in [Party -> Nat]
      /\ down \in [Party -> [Client -> Seq(Message)]]
  BY DEF TypeOK
<1>2. CASE Accept(p) \/ Poll(p) \/ Serve(p) \/ RecvNumPts(p)
  BY <1>1, <1>2, AskFrame DEF Accept, Poll, Serve, RecvNumPts
<1>3. CASE Restart(p) \/ Exit(p)
  <2>1. PICK s \in {"io", "exited"} : Close(p, s) /\ cpc' = cpc /\ down' = down
    BY <1>3 DEF Restart, Exit
  <2>2. /\ pc' = [pc EXCEPT ![p] = s] /\ ttp' = [ttp EXCEPT ![p] = None]
        /\ numPts' = [numPts EXCEPT ![p] = 0] /\ k' = [k EXCEPT ![p] = 0]
    BY <2>1 DEF Close
  <2>3. \A q \in Party : q # p =>
          pc'[q] = pc[q] /\ ttp'[q] = ttp[q] /\ k'[q] = k[q] /\ numPts'[q] = numPts[q]
    BY <1>1, <2>2
  <2>4. pc'[p] \notin {"handshake", "input"}
    BY <1>1, <2>2
  <2> QED BY <2>1, <2>3, <2>4, AskFrame
<1>4. CASE SetupBob \/ InputBob \/ EvaluateBob
  BY <1>1, <1>4, AskFrame DEF SetupBob, InputBob, EvaluateBob, AfterRound
<1>5. CASE p = ALICE /\ (GarbleAlice \/ FlagAlice)
  BY <1>1, <1>5, AskFrame DEF GarbleAlice, FlagAlice, AfterRound
<1>6. CASE Reveal(p)
  <2>1. /\ pc[p] = "reveal" /\ ttp' = ttp /\ cpc' = cpc
        /\ pc'[p] \in {"poll", "reveal"}
        /\ \A q \in Party : q # p => pc'[q] = pc[q] /\ k'[q] = k[q] /\ numPts'[q] = numPts[q]
    BY <1>1, <1>6 DEF Reveal
  <2>2. PICK c \in Client : ttp[p] = c
    BY <1>6, Holder DEF Reveal, Working, Serving
  <2>4. p # ALICE => \A d \in Client : down'[ALICE][d] = down[ALICE][d]
    BY <1>6, <2>2, ToClientEffect DEF Reveal
  <2>5. CASE p = ALICE
    BY <1>1, <2>1, <2>5, AskFrame
  <2>6. CASE p # ALICE
    BY <1>1, <2>1, <2>4, <2>6, AskFrame
  <2> QED BY <2>5, <2>6
<1>7. CASE Handshake(p)
  <2>1. pc[p] = "handshake" /\ pc' = [pc EXCEPT ![p] = "input"]
        /\ UNCHANGED <<ttp, numPts, k, cpc, down>>
    BY <1>7 DEF Handshake
  <2>2. CASE p = ALICE
    <3>1. k[ALICE] = 0 /\ numPts[ALICE] \in Nat
      BY <1>1, <2>1, <2>2 DEF QueueInv, Place
    <3>2. InputLeft'
      BY <2>1, <3>1 DEF InputLeft, ServerInputs, NeedsLambda
    <3> QED BY <1>1, <2>1, <2>2, <3>2 DEF AskInv, DeltaSent
  <2>3. CASE p # ALICE
    BY <1>1, <2>1, <2>3, AskFrame
  <2> QED BY <2>2, <2>3
<1>8. CASE SetupAlice
  <2>1. /\ pc[ALICE] = "setup" /\ pc' = [pc EXCEPT ![ALICE] = "handshake"]
        /\ ToClient(ALICE, Delta) /\ UNCHANGED <<ttp, numPts, k, cpc>>
    BY <1>8 DEF SetupAlice, Delta
  <2>2. ASSUME NEW c \in Client, ttp[ALICE] = c, cpc[c] \in {"ptsBob", "delta"}
        PROVE  down'[ALICE][c] = <<Delta>>
    <3>1. down[ALICE][c] = << >>
      BY <2>1, <2>2 DEF QueueInv, AliceSide, AliceLink
    <3>2. down'[ALICE][c] = Append(down[ALICE][c], Delta)
      BY <2>1, <2>2, ToClientEffect DEF Ended
    <3> QED BY <3>1, <3>2, LabelsAreMessages, OneQueued
  <2> QED BY <1>1, <2>1, <2>2 DEF AskInv, InputLeft, DeltaSent
<1>9. CASE InputAlice
  <2>1. /\ pc[ALICE] = "input" /\ UNCHANGED <<ttp, numPts, cpc, down>>
        /\ \/ k[ALICE] + 1 # ServerInputs(numPts[ALICE]) /\ pc' = pc
              /\ k' = [k EXCEPT ![ALICE] = @ + 1]
           \/ AfterRound(ALICE, 0)
    BY <1>9 DEF InputAlice
  <2>2. k[ALICE] < ServerInputs(numPts[ALICE]) /\ ServerInputs(numPts[ALICE]) \in Nat
    BY <1>1, <2>1 DEF AskInv, InputLeft, ServerInputs
  <2>3. InputLeft'
    <3>1. CASE AfterRound(ALICE, 0)
      BY <3>1, AfterRoundEffect DEF InputLeft
    <3>2. CASE k[ALICE] + 1 # ServerInputs(numPts[ALICE]) /\ pc' = pc
               /\ k' = [k EXCEPT ![ALICE] = @ + 1]
      <4>1. k'[ALICE] = k[ALICE] + 1 /\ numPts' = numPts /\ k[ALICE] \in Nat
        BY <1>1, <2>1, <3>2
      <4>2. k[ALICE] + 1 < ServerInputs(numPts[ALICE])
        BY <2>2, <3>2, <4>1
      <4> QED BY <4>1, <4>2 DEF InputLeft, ServerInputs, NeedsLambda
    <3> QED BY <2>1, <3>1, <3>2
  <2>4. pc'[ALICE] \in {"handshake", "input"} => pc[ALICE] = "input"
    BY <2>1
  <2> QED BY <2>1, <2>3, <2>4 DEF AskInv, DeltaSent
<1> QED
  BY <1>2, <1>3, <1>4, <1>5, <1>6, <1>7, <1>8, <1>9 DEF PartyStep, LmServer

LEMMA AskClientStep ==
  ASSUME TypeOK, HoldsClient, QueueInv, AskInv, NEW c \in Client, ClientStep(c) \/ Crash(c)
  PROVE  AskInv'
<1>0. CASE Connect(c)
  <2>1. PICK p \in Party : Connecting(c, p)
    BY <1>0, ConnectingOf
  <2>2. pc[p] = "ttp" /\ UNCHANGED <<pc, k, numPts, down>>
        /\ \A q \in Party : q # p => ttp'[q] = ttp[q]
    BY <2>1 DEF Connecting, TypeOK
  <2>3. \A d \in Client : cpc'[d] \in {"ptsBob", "delta"} => cpc'[d] = cpc[d]
    BY <2>1 DEF Connecting, TypeOK
  <2> QED BY <2>2, <2>3, AskFrame
<1> SUFFICES ASSUME ~Connect(c) PROVE AskInv'
  BY <1>0
<1>1. /\ cpc \in [Client -> ClientPlace] /\ down \in [Party -> [Client -> Seq(Message)]]
      /\ pc' = pc /\ ttp' = ttp /\ k' = k /\ numPts' = numPts
  BY DEF TypeOK, ClientStep, SendNumPts, RecvDelta, SendSeed, SendLabel, RecvShare, ClientExit,
         Crash, ClientEnds
<1>2. \A d \in Client : d # c => cpc'[d] = cpc[d] /\ down'[ALICE][d] = down[ALICE][d]
  <2>1. CASE SendNumPts(c) \/ SendSeed(c) \/ SendLabel(c)
    BY <1>1, <2>1 DEF SendNumPts, SendSeed, SendLabel, Hop
  <2>2. CASE RecvDelta(c)
    BY <1>1, <2>2, ReadPartyEffect DEF RecvDelta, Hop
  <2>3. CASE RecvShare(c)
    <3>1. CASE cpc[c] = "poseAlice"
      BY <1>1, <2>3, <3>1, ReadPartyEffect DEF RecvShare, Hop
    <3>2. CASE cpc[c] # "poseAlice"
      BY <1>1, <2>3, <3>2 DEF RecvShare, Hop
    <3> QED BY <3>1, <3>2
  <2>4. CASE ClientExit(c) \/ Crash(c)
    BY <1>1, <2>4 DEF ClientExit, Crash, ClientEnds, Hop
  <2> QED BY <2>1, <2>2, <2>3, <2>4 DEF ClientStep
<1>3. cpc'[c] \in {"ptsBob", "delta"} =>
        \/ cpc[c] \in {"ptsBob", "delta"} /\ down'[ALICE][c] = down[ALICE][c]
        \/ cpc[c] = "ptsAlice"
  BY <1>1 DEF ClientStep, SendNumPts, RecvDelta, SendSeed, SendLabel, RecvShare,
         ClientExit, Crash, ClientEnds, Hop
<1>4. ttp[ALICE] = c /\ cpc[c] = "ptsAlice" => pc[ALICE] \in {"ttp", "poll"}
  BY DEF QueueInv, AliceSide, AliceLink, Starting
<1> QED BY <1>1, <1>2, <1>3, <1>4, AskFrame

LEMMA AskStep ==
  ASSUME TypeOK, HoldsClient, QueueInv, AskInv, [Next]_vars
  PROVE  AskInv'
<1>1. CASE ConnectIo
  BY <1>1, AskFrame DEF ConnectIo, TypeOK
<1>2. CASE UNCHANGED vars
  BY <1>2, AskFrame DEF vars
<1> QED BY <1>1, <1>2, AskPartyStep, AskClientStep DEF Next

(* ALICE never waits for a label the client does not send, and a client for *)
(* a delta it does not get.                                                 *)
THEOREM SessionAsks == Spec => []AskInv
<1>1. Init => AskInv
  BY DEF Init, AskInv, InputLeft, DeltaSent
<1>2. (SessionInv /\ QueueInv) /\ AskInv /\ [Next]_vars => AskInv'
  BY AskStep DEF SessionInv
<1> QED BY SessionQueues, <1>1, <1>2, PTL DEF Spec

(* The label ALICE waits for is on its way to her once the client waits for *)
(* a share.                                                                 *)
LEMMA AliceFedInput ==
  ASSUME TypeOK, QueueInv, AskInv, ~NeedsLambda, NEW c \in Client, ttp[ALICE] = c,
         cpc[c] \in Pose, pc[ALICE] = "input"
  PROVE  up[ALICE][c] # << >>
<1>1. k[ALICE] + Len(up[ALICE][c]) = ClientLabels(Points[c]) /\ numPts[ALICE] = Points[c]
  BY DEF QueueInv, AliceSide, AliceLink, Place, Serving, Sent, Pose
<1>2. k[ALICE] < ServerInputs(Points[c]) /\ k[ALICE] \in Nat /\ Points[c] \in Nat
  BY <1>1, SessionAssumption DEF AskInv, InputLeft, TypeOK
<1>3. ServerInputs(Points[c]) = ClientLabels(Points[c])
  BY DEF ServerInputs, ClientLabels
<1>4. ASSUME up[ALICE][c] = << >> PROVE Len(up[ALICE][c]) = 0
  BY <1>4
<1> QED BY <1>1, <1>2, <1>3, <1>4

(* A client never waits for two parties that are both held up.              *)
LEMMA OneGoesOn ==
  ASSUME SessionInv, QueueInv, RoundsInv, AskInv, ~NeedsLambda,
         NEW c \in Client, ClientHeldUp(c), \A p \in Party : ttp[p] = c /\ HeldUp(p)
  PROVE  FALSE
<1>0. TypeOK /\ HoldsClient /\ ~(<<Setup>> = << >>) /\ N(c) \in Message /\ Seed \in Message
  BY NetMessages, OneQueued, LabelsAreMessages DEF SessionInv
<1>1. /\ Counter(c) /\ AliceLink(c) /\ BobLink(c) /\ DeltaSent(c) /\ Clean(c)
      /\ BobNet /\ AliceNet
  BY DEF QueueInv, AliceSide, BobSide, RoundsInv, AskInv
<1>2. /\ down[ALICE][c] = << >> => Len(down[ALICE][c]) = 0
      /\ down[BOB][c] = << >> => Len(down[BOB][c]) = 0
      /\ ck[c] \in Nat
  BY <1>0 DEF TypeOK
<1>3. /\ FromClient(ALICE) = up[ALICE][c] /\ FromClient(BOB) = up[BOB][c]
      /\ pc[ALICE] \in Working /\ pc[BOB] \in Working
  BY <1>0 DEF FromClient, HeldUp, Waits, ReadsClient, ReadsPeer, Working, Serving
<1>4. /\ \/ pc[ALICE] \in {"numPts", "input", "poll"} /\ up[ALICE][c] = << >>
         \/ pc[ALICE] \in {"handshake", "flag"} /\ net[ALICE] = << >>
      /\ \/ pc[BOB] \in {"numPts", "setup", "poll"} /\ up[BOB][c] = << >>
         \/ pc[BOB] \in {"handshake", "compute"} /\ net[BOB] = << >>
  <2>1. pc[BOB] # "flag"
    BY DEF QueueInv, Place
  <2> QED BY <1>3, <2>1 DEF HeldUp, ReadsClient, Waits, ReadsPeer
<1>5. NeitherBegan \/ AliceFirst \/ Running \/ Answered \/ BobDone
  BY <1>4 DEF RoundsInv, Meet, IoOpen
<1>6. <<N(c)>> # << >> /\ <<N(c), Seed>> # << >> /\ <<Seed>> # << >>
  BY <1>0, OneQueued, TwoQueued
<1>7. CASE cpc[c] = "delta"
  <2>1. down[ALICE][c] = << >>
    BY <1>7 DEF ClientHeldUp, AtParty
  <2>2. <<Delta>> # << >>
    BY LabelsAreMessages, OneQueued
  <2> QED BY <1>1, <1>4, <1>6, <1>7, <2>1, <2>2 DEF AliceLink, DeltaSent
<1>8. CASE cpc[c] = "poseAlice"
  <2>1. down[ALICE][c] = << >> /\ cpc[c] \in Pose
    BY <1>8 DEF ClientHeldUp, AtParty, Pose
  <2>2. Given(ALICE, c) = ck[c] /\ ck[c] < ClientOutputs
    BY <1>1, <1>2, <1>8, <2>1 DEF Given, Got, Counter
  <2>3. pc[ALICE] \in {"handshake", "flag"} /\ net[ALICE] = << >>
    <3>1. pc[ALICE] # "input"
      BY <1>0, <1>4, <2>1, AliceFedInput
    <3>2. pc[ALICE] \notin {"poll", "numPts"}
      BY <1>1, <2>1, <2>2 DEF AliceLink, ClientOutputs
    <3> QED BY <1>4, <3>1, <3>2
  <2>4. CASE pc[ALICE] = "handshake"
    <3>1. pc[BOB] \in Idle /\ net[BOB] = <<Setup>>
      BY <1>0, <1>5, <2>3, <2>4
      DEF NeitherBegan, AliceFirst, Running, Answered, BobDone, Idle, Post
    <3>2. pc[BOB] = "poll" /\ up[BOB][c] = << >>
      BY <1>1, <1>4, <1>6, <2>1, <3>1 DEF BobLink, Idle
    <3> QED BY <1>0, <1>1, <2>1, <3>1, <3>2 DEF Clean, Resting
  <2>5. CASE pc[ALICE] = "flag"
    <3>1. Running
      <4>1. <<Msg("flag", 0)>> # << >> /\ <<Msg("flag", 1)>> # << >>
        BY NetMessages, OneQueued
      <4> QED BY <1>5, <2>3, <2>5, <4>1
          DEF NeitherBegan, AliceFirst, Answered, BobDone, Idle, Post
    <3>2. pc[BOB] \in Early /\ Len(net[BOB]) > 0
      BY <2>5, <3>1 DEF Running, Post
    <3>3. net[BOB] # << >>
      BY <1>0, <3>2, NetType
    <3> QED BY <1>4, <3>2, <3>3 DEF Early
  <2> QED BY <2>3, <2>4, <2>5
<1>9. CASE cpc[c] = "poseBob"
  <2>1. down[BOB][c] = << >> /\ cpc[c] \in Pose
    BY <1>9 DEF ClientHeldUp, AtParty, Pose
  <2>2. Given(BOB, c) = ck[c] /\ ck[c] < ClientOutputs /\ ServerOutputs = 6
    BY <1>1, <1>2, <1>9, <2>1 DEF Given, Got, Counter, ServerOutputs
  <2>3. pc[BOB] \in {"handshake", "compute"} /\ net[BOB] = << >>
    <3>1. Given(BOB, c) # ServerOutputs
      BY <1>2, <2>2 DEF ClientOutputs
    <3>2. pc[BOB] \in {"poll", "numPts", "setup"} => up[BOB][c] # << >>
      BY <1>1, <1>6, <2>1, <3>1 DEF BobLink
    <3> QED BY <1>4, <3>2
  <2>4. Len(net[BOB]) = 0 /\ k[BOB] \in Nat /\ k[ALICE] \in Nat /\ Rounds \in Nat
    BY <1>0, <2>3, NetType, RoundsType
  <2>5. pc[ALICE] = "poll" \/ (pc[ALICE] \in {"handshake", "flag"} /\ net[ALICE] = << >>)
    <3>1. pc[ALICE] # "input"
      BY <1>0, <1>4, <2>1, AliceFedInput
    <3>2. pc[ALICE] # "numPts"
      BY <1>1, <2>1 DEF AliceLink
    <3> QED BY <1>4, <3>1, <3>2
  <2>6. ~NeitherBegan /\ ~AliceFirst /\ ~BobDone
    BY <2>3 DEF NeitherBegan, AliceFirst, BobDone, Idle, Post
  <2>7. ~Answered
    <3>1. <<Msg("flag", 0)>> # << >>
      BY NetMessages, OneQueued
    <3> QED BY <2>5, <3>1 DEF Answered
  <2>9. ~Running
    <3>1. ASSUME Running PROVE pc[ALICE] = "poll" /\ Taken = Rounds + 1
      <4>1. Taken \in Nat
        BY <2>4 DEF Taken
      <4>2. Taken + 0 = Away
        BY <2>4, <3>1 DEF Running
      <4>3. pc[ALICE] = "poll"
        <5>1. ~(Len(net[BOB]) > 0) /\ ~(<<Setup>> = << >>)
          BY <1>0, <2>4
        <5> QED BY <2>5, <3>1, <5>1 DEF Running, Post
      <4> QED BY <4>1, <4>2, <4>3 DEF Away
    <3>2. CASE pc[BOB] = "handshake"
      BY <2>4, <3>1, <3>2 DEF Taken
    <3>3. CASE pc[BOB] = "compute"
      BY <1>1, <2>4, <3>1, <3>3 DEF Taken, BobNet
    <3> QED BY <2>3, <3>2, <3>3
  <2> QED BY <1>5, <2>6, <2>7, <2>9
<1> QED BY <1>7, <1>8, <1>9 DEF ClientHeldUp

(* NoCircularWait: a client that waits for its answer never waits for two   *)
(* parties that both wait, for each other or for the client.                *)
THEOREM SessionNoCircularWait == Spec => []NoCircularWait
<1>1. SessionInv /\ QueueInv /\ RoundsInv /\ AskInv => NoCircularWait
  BY OneGoesOn DEF NoCircularWait
<1> QED BY SessionRounds, SessionAsks, <1>1, PTL

----------------------------------------------------------------------------
(* A request both parties have begun is not broken off.  The inductive      *)
(* invariant says what a party finds when its peer has gone while their     *)
(* client lives: either the peer left before the two were at work together, *)
(* or only when it had given all its shares and sent all its messages.      *)

AliceLeftFirst(c) ==
  /\ cpc[c] \in {"ptsAlice", "ptsBob", "delta"} /\ down[ALICE][c] = << >>
  /\ pc[BOB] \in Idle
AliceLeftLast(c) ==
  /\ cpc[c] \in Pose /\ Given(ALICE, c) = ClientOutputs
  /\ \/ pc[BOB] = "reveal" \/ Post(BOB)
     \/ pc[BOB] \in Early /\ Taken + Len(net[BOB]) = Rounds + 1
AliceGone(c) ==
  ttp[BOB] = c /\ ~Ended(c) /\ ~IoOpen(ALICE) => AliceLeftFirst(c) \/ AliceLeftLast(c)

BobLeftFirst(c) ==
  /\ pc[ALICE] \in Idle \cup {"handshake"} /\ net[ALICE] = << >>
  /\ cpc[c] \in Pose => Given(ALICE, c) = 0
  /\ down[BOB][c] = << >> /\ cpc[c] # "poseBob"
BobLeftLast(c) ==
  /\ cpc[c] \in {"labels"} \cup Pose /\ Given(BOB, c) = ServerOutputs
  /\ \/ pc[ALICE] = "reveal" \/ Post(ALICE)
     \/ pc[ALICE] = "flag" /\ net[ALICE] = <<Msg("flag", 1)>>
     \/ pc[ALICE] = "flag" /\ net[ALICE] = <<Msg("flag", 0)>> /\ k[ALICE] + 1 = Rounds
     \/ pc[ALICE] = "handshake" /\ net[ALICE] = <<Setup>> /\ Rounds = 0
     \/ pc[ALICE] = "input" /\ Rounds = 0
BobGone(c) ==
  ttp[ALICE] = c /\ ~Ended(c) /\ ~IoOpen(BOB) => BobLeftFirst(c) \/ BobLeftLast(c)

(* A client no party holds any more has no share, or all of them.           *)
BothGone(c) ==
  (\A p \in Party : ttp[p] # c) /\ cpc[c] \in {"labels"} \cup Pose =>
    \/ cpc[c] # "poseBob" /\ \A p \in Party : Given(p, c) = 0
    \/ \A p \in Party : Given(p, c) = ClientOutputs

GoneInv == \A c \in Client : AliceGone(c) /\ BobGone(c) /\ BothGone(c)

(* What a client has been given moves with its script and its queues only.  *)
LEMMA GivenFrame ==
  ASSUME NEW p \in Party, NEW c \in Client, SameScript(c), down'[p][c] = down[p][c]
  PROVE  Given(p, c)' = Given(p, c)
BY DEF Given, Got, SameScript

LEMMA RoundEnds ==
  ASSUME TypeOK, NEW p \in Party, NEW i, AfterRound(p, i)
  PROVE  IF i = Rounds THEN pc'[p] = "reveal" ELSE pc'[p] = "compute" /\ k'[p] = i
BY DEF TypeOK, AfterRound

(* A step of a party that goes on with its client.                          *)
LEMMA GoneBobMoves ==
  ASSUME GoneInv, NEW c \in Client, ttp[BOB] = c, UNCHANGED <<ttp, cpc, ck>>,
         IoOpen(BOB)',
         \A q \in Party, d \in Client : q # BOB \/ d # c => down'[q][d] = down[q][d],
         AliceGone(c)'
  PROVE  GoneInv'
<1> SUFFICES ASSUME NEW d \in Client PROVE AliceGone(d)' /\ BobGone(d)' /\ BothGone(d)'
  BY DEF GoneInv
<1>1. AliceGone(d)' /\ BobGone(d)'
  BY DEF AliceGone, BobGone
<1>2. BothGone(d)'
  <2>1. CASE d = c
    BY <2>1 DEF BothGone
  <2>2. CASE d # c
    <3>1. \A p \in Party : Given(p, d)' = Given(p, d)
      BY <2>2, GivenFrame DEF SameScript
    <3> QED BY <3>1 DEF GoneInv, BothGone
  <2> QED BY <2>1, <2>2
<1> QED BY <1>1, <1>2

LEMMA GoneAliceMoves ==
  ASSUME GoneInv, NEW c \in Client, ttp[ALICE] = c, UNCHANGED <<ttp, cpc, ck>>,
         IoOpen(ALICE)',
         \A q \in Party, d \in Client : q # ALICE \/ d # c => down'[q][d] = down[q][d],
         BobGone(c)'
  PROVE  GoneInv'
<1> SUFFICES ASSUME NEW d \in Client PROVE AliceGone(d)' /\ BobGone(d)' /\ BothGone(d)'
  BY DEF GoneInv
<1>1. AliceGone(d)' /\ BobGone(d)'
  BY DEF AliceGone, BobGone
<1>2. BothGone(d)'
  <2>1. CASE d = c
    BY <2>1 DEF BothGone
  <2>2. CASE d # c
    <3>1. \A p \in Party : Given(p, d)' = Given(p, d)
      BY <2>2, GivenFrame DEF SameScript
    <3> QED BY <3>1 DEF GoneInv, BothGone
  <2> QED BY <2>1, <2>2
<1> QED BY <1>1, <1>2

(* BOB without ALICE.                                                       *)
LEMMA GoneBobStep ==
  ASSUME TypeOK, HoldsClient, QueueInv, RoundsInv, GoneInv,
         \/ Serve(BOB) \/ RecvNumPts(BOB) \/ SetupBob \/ Handshake(BOB)
         \/ InputBob \/ EvaluateBob \/ Reveal(BOB)
  PROVE  GoneInv'
<1>1. PICK c \in Client : ttp[BOB] = c
  BY Holder DEF Serve, RecvNumPts, SetupBob, Handshake, InputBob, EvaluateBob, Reveal,
     Working, Serving
<1>2. /\ UNCHANGED <<ttp, cpc, ck>> /\ pc'[ALICE] = pc[ALICE] /\ pc'[BOB] \in Working
      /\ \A q \in Party, d \in Client : q # BOB \/ d # c => down'[q][d] = down[q][d]
  <2>1. CASE Reveal(BOB)
    <3>1. \A q \in Party, d \in Client : q # BOB \/ d # c => down'[q][d] = down[q][d]
      BY <1>1, <2>1, ToClientEffect DEF Reveal
    <3> QED BY <2>1, <3>1 DEF Reveal, TypeOK, Working, Serving
  <2>2. CASE InputBob \/ EvaluateBob
    BY <2>2, AfterRoundEffect DEF InputBob, EvaluateBob, Working, Serving
  <2>3. CASE Serve(BOB)
    BY <2>3 DEF Serve, TypeOK, Working, Serving
  <2>6. CASE RecvNumPts(BOB)
    BY <2>6 DEF RecvNumPts, TypeOK, Working, Serving
  <2>4. CASE SetupBob
    BY <2>4 DEF SetupBob, TypeOK, Working, Serving
  <2>5. CASE Handshake(BOB)
    BY <2>5 DEF Handshake, TypeOK, Working, Serving
  <2> QED BY <2>1, <2>2, <2>3, <2>4, <2>5, <2>6
<1>3. IoOpen(BOB)'
  BY <1>2 DEF IoOpen, Working, Serving
<1>4. AliceGone(c)'
  <2> SUFFICES ASSUME ~Ended(c), ~IoOpen(ALICE)
               PROVE  AliceLeftFirst(c)' \/ AliceLeftLast(c)'
    BY <1>2 DEF AliceGone, Ended, IoOpen
  <2>1. AliceLeftFirst(c) \/ AliceLeftLast(c)
    BY <1>1 DEF GoneInv, AliceGone
  <2>2. Given(ALICE, c)' = Given(ALICE, c) /\ cpc'[c] = cpc[c] /\ down'[ALICE][c] = down[ALICE][c]
    BY <1>2, GivenFrame DEF SameScript
  <2>3. /\ net[BOB] \in Seq(Message) /\ Len(net[BOB]) \in Nat
        /\ k[BOB] \in Nat /\ Rounds \in Nat
        /\ FromClient(BOB) = up[BOB][c] /\ BobLink(c) /\ BobUp(c) /\ BobNet
    BY <1>1, NetType, RoundsType DEF FromClient, QueueInv, BobSide, RoundsInv
  <2>4. CASE Serve(BOB)
    <3>1. pc[BOB] = "poll" /\ pc'[BOB] = "numPts" /\ net' = net /\ ~Post(BOB)
      BY <2>4 DEF Serve, TypeOK, QueueInv, Place, Post
    <3> QED BY <2>1, <2>2, <3>1 DEF Idle, AliceLeftFirst, AliceLeftLast, Early
  <2>5. CASE RecvNumPts(BOB)
    <3>1. pc[BOB] = "numPts" /\ pc'[BOB] = "setup" /\ net' = net
      BY <2>5 DEF RecvNumPts, TypeOK
    <3> QED BY <2>1, <2>2, <3>1 DEF Idle, AliceLeftFirst, AliceLeftLast, Early, Post
  <2>6. CASE SetupBob
    <3>1. pc[BOB] = "setup" /\ up[BOB][c] # << >>
      BY <1>1, <2>6, ReadClientEffect DEF SetupBob
    <3> QED BY <2>1, <2>3, <3>1 DEF Idle, AliceLeftFirst, AliceLeftLast, Early, Post, BobLink
  <2>7. CASE Handshake(BOB)
    <3>1. /\ pc[BOB] = "handshake" /\ pc'[BOB] = "input"
          /\ net[BOB] # << >> /\ net'[BOB] = Tail(net[BOB])
      BY <2>7, ReadPeerEffect DEF Handshake, TypeOK
    <3>2. Len(net'[BOB]) = Len(net[BOB]) - 1
      BY <2>3, <3>1, TailProps
    <3>3. Taken = 0 /\ Taken' = 1
      BY <3>1 DEF Taken
    <3> QED BY <2>1, <2>2, <2>3, <3>1, <3>2, <3>3
        DEF Idle, AliceLeftFirst, AliceLeftLast, Early, Post
  <2>8. CASE InputBob
    <3>1. /\ pc[BOB] = "input" /\ net' = net
          /\ pc'[BOB] = "reveal" \/ (pc'[BOB] = "compute" /\ k'[BOB] = 0)
      BY <2>8, RoundEnds DEF InputBob
    <3>2. Taken = 1 /\ (pc'[BOB] = "compute" => Taken' = 1)
      BY <3>1 DEF Taken
    <3> QED BY <2>1, <2>2, <2>3, <3>1, <3>2
        DEF Idle, AliceLeftFirst, AliceLeftLast, Early, Post
  <2>9. CASE EvaluateBob
    <3>1. PICK flag \in {0, 1} :
            /\ net' = [net EXCEPT
                 ![BOB] = Tail(@),
                 ![ALICE] = IF Flow = LOOP_LEAK /\ IoOpen(ALICE)
                            THEN Append(@, Msg("flag", flag)) ELSE @]
            /\ AfterRound(BOB, IF flag = 1 THEN Rounds ELSE k[BOB] + 1)
      BY <2>9 DEF EvaluateBob
    <3>2. /\ pc[BOB] = "compute" /\ net[BOB] # << >> /\ net'[BOB] = Tail(net[BOB])
      <4>1. net \in [Party -> Seq(Message)]
        BY DEF TypeOK
      <4>2. net'[BOB] = Tail(net[BOB])
        BY <3>1, <4>1
      <4> QED BY <2>9, <4>2 DEF EvaluateBob
    <3>3. pc'[BOB] = "reveal" \/ (pc'[BOB] = "compute" /\ k'[BOB] = k[BOB] + 1)
      BY <3>1, RoundEnds
    <3>4. Len(net'[BOB]) = Len(net[BOB]) - 1
      BY <2>3, <3>2, TailProps
    <3>5. Taken = k[BOB] + 1 /\ (pc'[BOB] = "compute" => Taken' = k[BOB] + 1 + 1)
      BY <3>2, <3>3 DEF Taken
    <3> QED BY <2>1, <2>2, <2>3, <3>2, <3>3, <3>4, <3>5
        DEF Idle, AliceLeftFirst, AliceLeftLast, Early, Post
  <2>10. CASE Reveal(BOB)
    <3>1. pc[BOB] = "reveal" /\ pc'[BOB] \in {"reveal", "poll"} /\ up' = up
      BY <2>10 DEF Reveal, TypeOK
    <3>2. up[BOB][c] = << >>
      BY <2>3, <3>1 DEF BobUp, Serving
    <3>3. pc'[BOB] = "reveal" \/ Post(BOB)'
      BY <1>1, <1>2, <3>1, <3>2 DEF Post, FromClient
    <3> QED BY <2>1, <2>2, <3>1, <3>3 DEF Idle, AliceLeftFirst, AliceLeftLast
  <2> QED BY <2>4, <2>5, <2>6, <2>7, <2>8, <2>9, <2>10
<1> QED BY <1>1, <1>2, <1>3, <1>4, GoneBobMoves

(* ALICE without BOB.                                                       *)
LEMMA GoneAliceStep ==
  ASSUME TypeOK, HoldsClient, QueueInv, RoundsInv, GoneInv,
         \/ Serve(ALICE) \/ RecvNumPts(ALICE) \/ SetupAlice \/ Handshake(ALICE)
         \/ InputAlice \/ GarbleAlice \/ FlagAlice \/ Reveal(ALICE)
  PROVE  GoneInv'
<1>1. PICK c \in Client : ttp[ALICE] = c
  BY Holder DEF Serve, RecvNumPts, SetupAlice, Handshake, InputAlice, GarbleAlice, FlagAlice,
     Reveal, Working, Serving
<1>2. /\ UNCHANGED <<ttp, cpc, ck>> /\ pc'[BOB] = pc[BOB] /\ pc'[ALICE] \in Working
      /\ \A q \in Party, d \in Client : q # ALICE \/ d # c => down'[q][d] = down[q][d]
  <2>1. CASE Reveal(ALICE)
    <3>1. \A q \in Party, d \in Client : q # ALICE \/ d # c => down'[q][d] = down[q][d]
      BY <1>1, <2>1, ToClientEffect DEF Reveal
    <3> QED BY <2>1, <3>1 DEF Reveal, TypeOK, Working, Serving
  <2>2. CASE SetupAlice
    <3>1. \A q \in Party, d \in Client : q # ALICE \/ d # c => down'[q][d] = down[q][d]
      BY <1>1, <2>2, ToClientEffect DEF SetupAlice
    <3> QED BY <2>2, <3>1 DEF SetupAlice, TypeOK, Working, Serving
  <2>3. CASE InputAlice
    <3>1. (pc' = pc /\ pc[ALICE] = "input") \/ AfterRound(ALICE, 0)
      BY <2>3 DEF InputAlice
    <3> QED BY <2>3, <3>1, AfterRoundEffect DEF InputAlice, Working, Serving
  <2>4. CASE GarbleAlice
    <3>1. pc' = [pc EXCEPT ![ALICE] = "flag"] \/ AfterRound(ALICE, k[ALICE] + 1)
      BY <2>4 DEF GarbleAlice
    <3>2. pc'[BOB] = pc[BOB] /\ pc'[ALICE] \in {"flag", "compute", "reveal"}
      <4>1. pc \in [Party -> PartyPlace]
        BY DEF TypeOK
      <4>2. CASE pc' = [pc EXCEPT ![ALICE] = "flag"]
        BY <4>1, <4>2
      <4>3. CASE AfterRound(ALICE, k[ALICE] + 1)
        BY <4>3, AfterRoundEffect
      <4> QED BY <3>1, <4>2, <4>3
    <3> QED BY <2>4, <3>2 DEF GarbleAlice, Working, Serving
  <2>5. CASE FlagAlice
    BY <2>5, AfterRoundEffect DEF FlagAlice, Working, Serving
  <2>6. CASE Serve(ALICE)
    BY <2>6 DEF Serve, TypeOK, Working, Serving
  <2>7. CASE RecvNumPts(ALICE)
    BY <2>7 DEF RecvNumPts, TypeOK, Working, Serving
  <2>8. CASE Handshake(ALICE)
    BY <2>8 DEF Handshake, TypeOK, Working, Serving
  <2> QED BY <2>1, <2>2, <2>3, <2>4, <2>5, <2>6, <2>7, <2>8
<1>3. IoOpen(ALICE)'
  BY <1>2 DEF IoOpen, Working, Serving
<1>4. BobGone(c)'
  <2> SUFFICES ASSUME ~Ended(c), ~IoOpen(BOB)
               PROVE  BobLeftFirst(c)' \/ BobLeftLast(c)'
    BY <1>2 DEF BobGone, Ended, IoOpen
  <2>1. BobLeftFirst(c) \/ BobLeftLast(c)
    BY <1>1 DEF GoneInv, BobGone
  <2>2. Given(BOB, c)' = Given(BOB, c) /\ cpc'[c] = cpc[c] /\ down'[BOB][c] = down[BOB][c]
    BY <1>2, GivenFrame DEF SameScript
  <2>3. /\ net[ALICE] \in Seq(Message) /\ k[ALICE] \in Nat /\ Rounds \in Nat
        /\ FromClient(ALICE) = up[ALICE][c] /\ AliceLink(c) /\ AliceUp(c) /\ AliceNet
    BY <1>1, NetType, RoundsType DEF FromClient, QueueInv, AliceSide, RoundsInv
  <2>4. CASE Serve(ALICE)
    <3>1. pc[ALICE] = "poll" /\ pc'[ALICE] = "numPts" /\ net' = net /\ down' = down /\ ~Post(ALICE)
      BY <2>4 DEF Serve, TypeOK, QueueInv, Place, Post
    <3>2. Given(ALICE, c)' = Given(ALICE, c)
      BY <1>2, <3>1, GivenFrame DEF SameScript
    <3> QED BY <2>1, <2>2, <3>1, <3>2 DEF Idle, BobLeftFirst, BobLeftLast
  <2>5. CASE RecvNumPts(ALICE)
    <3>1. pc[ALICE] = "numPts" /\ pc'[ALICE] = "setup" /\ net' = net /\ down' = down
      BY <2>5 DEF RecvNumPts, TypeOK
    <3>2. Given(ALICE, c)' = Given(ALICE, c)
      BY <1>2, <3>1, GivenFrame DEF SameScript
    <3> QED BY <2>1, <2>2, <3>1, <3>2 DEF Idle, BobLeftFirst, BobLeftLast, Post
  <2>6. CASE SetupAlice
    <3>1. pc[ALICE] = "setup" /\ pc'[ALICE] = "handshake" /\ net'[ALICE] = net[ALICE]
      BY <2>6, ToPeerEffect DEF SetupAlice, TypeOK
    <3>2. cpc[c] \notin Pose
      BY <2>3, <3>1 DEF AliceLink
    <3> QED BY <2>1, <2>2, <3>1, <3>2 DEF Idle, BobLeftFirst, BobLeftLast, Post
  <2>7. CASE Handshake(ALICE)
    <3>1. pc[ALICE] = "handshake" /\ pc'[ALICE] = "input" /\ net[ALICE] # << >>
      BY <2>7, ReadPeerEffect DEF Handshake, TypeOK
    <3> QED BY <2>1, <2>2, <3>1 DEF Idle, BobLeftFirst, BobLeftLast, Post
  <2>8. CASE InputAlice
    <3>1. pc[ALICE] = "input" /\ (pc' = pc \/ AfterRound(ALICE, 0))
      BY <2>8 DEF InputAlice
    <3>2. Rounds = 0 => pc'[ALICE] \in {"input", "reveal"}
      BY <3>1, RoundEnds
    <3> QED BY <2>1, <2>2, <3>1, <3>2 DEF Idle, BobLeftFirst, BobLeftLast, Post
  <2>9. CASE GarbleAlice
    BY <2>1, <2>9 DEF Idle, GarbleAlice, BobLeftFirst, BobLeftLast, Post
  <2>10. CASE FlagAlice
    <3>1. /\ pc[ALICE] = "flag"
          /\ AfterRound(ALICE, IF Head(net[ALICE]).i = 1 THEN Rounds ELSE k[ALICE] + 1)
      BY <2>10 DEF FlagAlice
    <3>2. \/ net[ALICE] = <<Msg("flag", 1)>>
          \/ net[ALICE] = <<Msg("flag", 0)>> /\ k[ALICE] + 1 = Rounds
      BY <2>1, <3>1 DEF Idle, BobLeftFirst, BobLeftLast, Post
    <3>3. (IF Head(net[ALICE]).i = 1 THEN Rounds ELSE k[ALICE] + 1) = Rounds
      BY <3>2, NetMessages, OneQueued DEF Msg
    <3>4. pc'[ALICE] = "reveal"
      BY <3>1, <3>3, RoundEnds
    <3> QED BY <2>1, <2>2, <3>1, <3>4 DEF Idle, BobLeftFirst, BobLeftLast, Post
  <2>11. CASE Reveal(ALICE)
    <3>1. pc[ALICE] = "reveal" /\ pc'[ALICE] \in {"reveal", "poll"} /\ up' = up
      BY <2>11 DEF Reveal, TypeOK
    <3>2. up[ALICE][c] = << >>
      BY <2>3, <3>1 DEF AliceUp
    <3>3. pc'[ALICE] = "reveal" \/ Post(ALICE)'
      BY <1>1, <1>2, <3>1, <3>2 DEF Post, FromClient
    <3> QED BY <2>1, <2>2, <3>1, <3>3 DEF Idle, BobLeftFirst, BobLeftLast
  <2> QED BY <2>4, <2>5, <2>6, <2>7, <2>8, <2>9, <2>10, <2>11
<1> QED BY <1>1, <1>2, <1>3, <1>4, GoneAliceMoves

(* What is found does not change while the one that finds it stays put.     *)
LEMMA AliceLeftFrame ==
  ASSUME NEW c \in Client, SameScript(c), down'[ALICE][c] = down[ALICE][c],
         ttp[BOB] = c, SamePlace(BOB), net'[BOB] = net[BOB], up'[BOB][c] = up[BOB][c],
         AliceLeftFirst(c) \/ AliceLeftLast(c)
  PROVE  (AliceLeftFirst(c) \/ AliceLeftLast(c))'
<1>1. Given(ALICE, c)' = Given(ALICE, c) /\ Taken' = Taken
  BY GivenFrame DEF Taken, SamePlace
<1>2. Post(BOB)' <=> Post(BOB)
  BY DEF Post, FromClient, SamePlace
<1> QED BY <1>1, <1>2 DEF AliceLeftFirst, AliceLeftLast, SameScript, SamePlace

LEMMA BobLeftFrame ==
  ASSUME NEW c \in Client, SameScript(c), \A p \in Party : down'[p][c] = down[p][c],
         ttp[ALICE] = c, SamePlace(ALICE), net'[ALICE] = net[ALICE], up'[ALICE][c] = up[ALICE][c],
         BobLeftFirst(c) \/ BobLeftLast(c)
  PROVE  (BobLeftFirst(c) \/ BobLeftLast(c))'
<1>1. Given(ALICE, c)' = Given(ALICE, c) /\ Given(BOB, c)' = Given(BOB, c)
  BY GivenFrame
<1>2. Post(ALICE)' <=> Post(ALICE)
  BY DEF Post, FromClient, SamePlace
<1> QED BY <1>1, <1>2 DEF BobLeftFirst, BobLeftLast, SameScript, SamePlace

(* A client that has all its shares of ALICE asked for no lambda.           *)
LEMMA AllSharesOfAlice ==
  ASSUME TypeOK, QueueInv, NEW c \in Client, cpc[c] \in Pose, Given(ALICE, c) = ClientOutputs
  PROVE  ServerOutputs = ClientOutputs
<1> SUFFICES ASSUME NeedsLambda PROVE FALSE
  BY DEF ServerOutputs, ClientOutputs
<1>1. Counter(c) /\ AliceDown(c) /\ ck[c] \in Nat
  BY DEF QueueInv, AliceSide, TypeOK
<1>2. down[ALICE][c] = << >> /\ cpc[c] = "poseAlice" /\ ck[c] < ClientOutputs
  BY <1>1 DEF AliceDown, Counter, Pose
<1>3. Given(ALICE, c) = ck[c]
  BY <1>1, <1>2 DEF Given, Got
<1> QED BY <1>1, <1>2, <1>3 DEF ClientOutputs

(* At the side of a live client a party exits only when its peer has gone.  *)
LEMMA BrokenSocket ==
  ASSUME NEW p \in Party, Exit(p), ~Ended(ttp[p])
  PROVE  /\ ~IoOpen(Peer(p))
         /\ \/ pc[p] \in {"handshake", "flag"} /\ net[p] = << >>
            \/ pc[p] = "compute" /\ p = BOB /\ net[p] = << >>
            \/ pc[p] = "setup"
            \/ pc[p] = "compute" /\ p = ALICE
BY DEF Exit, ReadsPeer, WritesClient, WritesPeer

(* A party that closes.                                                     *)
LEMMA ClosesEffect ==
  ASSUME TypeOK, HoldsClient, NEW p \in Party, Restart(p) \/ Exit(p)
  PROVE  /\ pc[p] \in Working /\ ttp[p] \in Client /\ ttp'[p] = None
         /\ pc'[p] \in {"io", "exited"}
         /\ UNCHANGED <<cpc, ck, down>>
         /\ \A q \in Party : q # p => SamePlace(q) /\ net'[q] = net[q]
         /\ \A q \in Party, c \in Client : q # p => up'[q][c] = up[q][c]
<1>1. PICK s \in {"io", "exited"} : Close(p, s)
  BY DEF Restart, Exit
<1>2. pc[p] \in Working
  BY DEF Restart, Exit, ReadsClient, ReadsPeer, WritesClient, WritesPeer, Working, Serving
<1>3. ttp[p] \in Client
  BY <1>2, Holder
<1>4. UNCHANGED <<cpc, ck, down>>
  BY DEF Restart, Exit
<1>5. \A q \in Party : q # p => net'[q] = net[q]
  BY <1>1 DEF Close, TypeOK
<1>6. /\ pc'[p] \in {"io", "exited"} /\ ttp'[p] = None
      /\ \A q \in Party : q # p => SamePlace(q)
      /\ \A q \in Party, c \in Client : q # p => up'[q][c] = up[q][c]
  <2>1. /\ pc'[p] = s /\ ttp'[p] = None
        /\ \A q \in Party : q # p => pc'[q] = pc[q] /\ ttp'[q] = ttp[q] /\ k'[q] = k[q]
    BY <1>1 DEF Close, TypeOK
  <2>2. \A q \in Party, d \in Client : q # p => up'[q][d] = up[q][d]
    BY <1>1, <1>3 DEF Close, TypeOK
  <2> QED BY <2>1, <2>2 DEF SamePlace
<1> QED BY <1>2, <1>3, <1>4, <1>5, <1>6

(* A client without a share of ALICE has none of BOB either.                *)
LEMMA NoSharesYet ==
  ASSUME TypeOK, QueueInv, NEW c \in Client, cpc[c] \in {"labels"} \cup Pose,
         cpc[c] \in Pose => ~(Given(ALICE, c) > 0),
         down[BOB][c] = << >>, cpc[c] # "poseBob"
  PROVE  \A p \in Party : Given(p, c) = 0
<1>1. /\ ck[c] \in Nat /\ Len(<< >>) = 0
      /\ Len(down[ALICE][c]) \in Nat
  BY EmptyLen DEF TypeOK
<1>2. CASE cpc[c] = "labels"
  <2>1. down[ALICE][c] = << >>
    BY <1>2 DEF QueueInv, AliceSide, AliceDown, Pose
  <2> QED BY <1>1, <1>2, <2>1 DEF Given, Got
<1>3. CASE cpc[c] = "poseAlice"
  <2>1. Given(ALICE, c) = ck[c] + Len(down[ALICE][c]) /\ Given(BOB, c) = ck[c]
    BY <1>1, <1>3 DEF Given, Got
  <2>2. ~(Given(ALICE, c) > 0)
    BY <1>3 DEF Pose
  <2> QED BY <1>1, <2>1, <2>2
<1> QED BY <1>2, <1>3 DEF Pose

(* Parties that hold a client each have not begun.                          *)
LEMMA Apart ==
  ASSUME RoundsInv, IoOpen(ALICE), IoOpen(BOB), ttp[ALICE] # ttp[BOB]
  PROVE  /\ pc[ALICE] \in Idle \cup {"handshake"} /\ net[ALICE] = << >>
         /\ pc[BOB] \in Idle
BY DEF RoundsInv, Meet, NeitherBegan, AliceFirst, Running, Answered, BobDone, Together

(* Parties that hold a client each have not begun with it.                  *)
LEMMA ApartFromAlice ==
  ASSUME TypeOK, QueueInv, RoundsInv, NEW c \in Client, ttp[BOB] = c, ttp[ALICE] # c,
         ~Ended(c), IoOpen(ALICE), IoOpen(BOB)
  PROVE  AliceLeftFirst(c)
<1>1. BobLink(c) /\ Met(c) /\ cpc[c] \notin {"gaveUp", "crashed", "done"}
  BY DEF QueueInv, BobSide, RoundsInv, Ended
<1>2. down[ALICE][c] = << >> /\ cpc[c] \notin {"seed", "labels"} \cup Pose
  BY <1>1 DEF Met, AliceMet
<1>3. cpc[c] \in {"ptsAlice", "ptsBob", "delta"}
  BY <1>1, <1>2 DEF BobLink, TypeOK, ClientPlace, Pose
<1> QED BY <1>2, <1>3, Apart DEF AliceLeftFirst

LEMMA ApartFromBob ==
  ASSUME TypeOK, HoldsClient, QueueInv, RoundsInv, NEW c \in Client, ttp[ALICE] = c,
         ttp[BOB] # c, IoOpen(ALICE), IoOpen(BOB)
  PROVE  BobLeftFirst(c)
<1>1. down[BOB][c] = << >> /\ cpc[c] # "poseBob"
  BY DEF RoundsInv, Met
<1>2. cpc[c] \in Pose => Given(ALICE, c) = 0
  BY <1>1, ShareTogether, NoSharesYet
<1> QED BY <1>1, <1>2, Apart DEF BobLeftFirst

LEMMA GoneCloseAlice ==
  ASSUME TypeOK, HoldsClient, QueueInv, RoundsInv, GoneInv, Restart(ALICE) \/ Exit(ALICE)
  PROVE  GoneInv'
<1>1. /\ pc[ALICE] \in Working /\ ttp[ALICE] \in Client /\ ttp'[ALICE] = None
      /\ UNCHANGED <<cpc, ck, down>> /\ SamePlace(BOB) /\ net'[BOB] = net[BOB]
      /\ \A c \in Client : up'[BOB][c] = up[BOB][c]
  BY ClosesEffect
<1>2. IoOpen(ALICE) /\ None \notin Client
  BY <1>1, SessionAssumption DEF IoOpen, Working, Serving
<1> SUFFICES ASSUME NEW c \in Client PROVE AliceGone(c)' /\ BobGone(c)' /\ BothGone(c)'
  BY DEF GoneInv
<1>3. SameScript(c) /\ \A p \in Party : down'[p][c] = down[p][c] /\ Given(p, c)' = Given(p, c)
  BY <1>1, GivenFrame DEF SameScript
<1>4. ASSUME ttp[ALICE] = c
      PROVE  AliceLink(c) /\ AliceDown(c) /\ BobDown(c) /\ Counter(c) /\ Clean(c) /\ BobNet
  BY <1>4 DEF QueueInv, AliceSide, BobSide, RoundsInv
<1>5. ASSUME ttp[BOB] = c, ~Ended(c)
      PROVE  AliceLeftFirst(c) \/ AliceLeftLast(c)
  <2>1. /\ IoOpen(BOB) /\ BobLink(c) /\ AliceDown(c) /\ Met(c)
        /\ cpc[c] \notin {"gaveUp", "crashed", "done"}
    BY <1>2, <1>5 DEF HoldsClient, IoOpen, QueueInv, AliceSide, BobSide, RoundsInv, Ended
  <2>2. CASE ttp[ALICE] # c
    BY <1>2, <1>5, <2>1, <2>2, ApartFromAlice
  <2>3. CASE ttp[ALICE] = c
    <3>1. pc[ALICE] = "poll" /\ AliceLink(c)
      BY <1>4, <1>5, <2>1, <2>3, BrokenSocket DEF Restart
    <3>2. CASE cpc[c] \in {"ptsAlice", "ptsBob", "delta"}
      <4>1. down[ALICE][c] = << >>
        BY <2>1, <3>1, <3>2 DEF AliceLink, AliceDown, Pose
      <4> QED BY <2>1, <3>2, <4>1 DEF AliceLeftFirst, BobLink, Idle
    <3>3. CASE cpc[c] \in Pose
      <4>1. NeitherBegan \/ Running \/ BobDone
        BY <1>2, <2>1, <3>1 DEF RoundsInv, Meet, AliceFirst, Answered
      <4>2. Given(ALICE, c) = ClientOutputs
        BY <3>1, <3>3 DEF AliceLink
      <4>3. NeitherBegan => Post(BOB)
        BY <2>3, <3>1, <3>3 DEF NeitherBegan
      <4>4. Running => pc[BOB] \in Early /\ Taken + Len(net[BOB]) = Rounds + 1
        BY <3>1 DEF Running, Away
      <4>5. BobDone => pc[BOB] = "reveal" \/ Post(BOB)
        BY DEF BobDone
      <4> QED BY <3>3, <4>1, <4>2, <4>3, <4>4, <4>5 DEF AliceLeftLast
    <3>4. cpc[c] \notin {"connectAlice", "connectBob", "seed", "labels"}
      BY <2>1, <3>1 DEF AliceLink, BobLink
    <3> QED BY <2>1, <3>2, <3>3, <3>4 DEF TypeOK, ClientPlace, Pose
  <2> QED BY <2>2, <2>3
<1>6. AliceGone(c)'
  BY <1>1, <1>3, <1>5, AliceLeftFrame DEF AliceGone, SamePlace, Ended
<1>7. BobGone(c)'
  BY <1>1, <1>2 DEF BobGone
<1>8. BothGone(c)'
  <2> SUFFICES ASSUME ttp[BOB] # c, cpc[c] \in {"labels"} \cup Pose
               PROVE  \/ cpc[c] # "poseBob" /\ \A p \in Party : Given(p, c) = 0
                      \/ \A p \in Party : Given(p, c) = ClientOutputs
    BY <1>1, <1>3 DEF BothGone, SamePlace
  <2>1. CASE ttp[ALICE] # c
    BY <2>1 DEF GoneInv, BothGone
  <2>2. CASE ttp[ALICE] = c
    <3>1. ~Ended(c)
      BY DEF Ended, Pose
    <3>2. CASE IoOpen(BOB)
      <4>1. down[BOB][c] = << >> /\ cpc[c] # "poseBob"
        BY <2>2, <3>2 DEF RoundsInv, Met
      <4>2. cpc[c] \in Pose => ~(Given(ALICE, c) > 0)
        BY <2>2, <3>2, ShareTogether
      <4> QED BY <4>1, <4>2, NoSharesYet
    <3>3. CASE ~IoOpen(BOB)
      <4>1. BobLeftFirst(c) \/ BobLeftLast(c)
        BY <2>2, <3>1, <3>3 DEF GoneInv, BobGone
      <4>2. CASE Restart(ALICE) /\ ~BobLeftFirst(c)
        <5>1. cpc[c] \in Pose /\ Given(ALICE, c) = ClientOutputs
          BY <1>4, <2>2, <4>2 DEF Restart, AliceLink
        <5> QED BY <4>1, <4>2, <5>1, AllSharesOfAlice DEF BobLeftLast
      <4>3. CASE Exit(ALICE)
        <5>1. \/ pc[ALICE] \in {"handshake", "flag"} /\ net[ALICE] = << >>
              \/ pc[ALICE] \in {"setup", "compute"}
          BY <2>2, <3>1, <4>3, BrokenSocket
        <5>2. <<Setup>> # << >> /\ <<Msg("flag", 0)>> # << >> /\ <<Msg("flag", 1)>> # << >>
          BY NetMessages, OneQueued
        <5>3. BobLeftFirst(c)
          BY <4>1, <5>1, <5>2 DEF BobLeftLast, Post
        <5> QED BY <5>3, NoSharesYet DEF BobLeftFirst
      <4>4. CASE BobLeftFirst(c)
        BY <4>4, NoSharesYet DEF BobLeftFirst
      <4> QED BY <4>2, <4>3, <4>4
    <3> QED BY <3>2, <3>3
  <2> QED BY <2>1, <2>2
<1> QED BY <1>6, <1>7, <1>8

LEMMA GoneCloseBob ==
  ASSUME TypeOK, HoldsClient, QueueInv, RoundsInv, GoneInv, Restart(BOB) \/ Exit(BOB)
  PROVE  GoneInv'
<1>1. /\ pc[BOB] \in Working /\ ttp[BOB] \in Client /\ ttp'[BOB] = None
      /\ UNCHANGED <<cpc, ck, down>> /\ SamePlace(ALICE) /\ net'[ALICE] = net[ALICE]
      /\ \A c \in Client : up'[ALICE][c] = up[ALICE][c]
  BY ClosesEffect
<1>2. IoOpen(BOB) /\ None \notin Client
  BY <1>1, SessionAssumption DEF IoOpen, Working, Serving
<1> SUFFICES ASSUME NEW c \in Client PROVE AliceGone(c)' /\ BobGone(c)' /\ BothGone(c)'
  BY DEF GoneInv
<1>3. SameScript(c) /\ \A p \in Party : down'[p][c] = down[p][c] /\ Given(p, c)' = Given(p, c)
  BY <1>1, GivenFrame DEF SameScript
<1>4. ASSUME ttp[BOB] = c
      PROVE  BobLink(c) /\ BobDown(c) /\ Clean(c) /\ BobNet
  BY <1>4 DEF QueueInv, BobSide, RoundsInv
<1>5. ASSUME ttp[ALICE] = c, ~Ended(c)
      PROVE  BobLeftFirst(c) \/ BobLeftLast(c)
  <2>1. /\ IoOpen(ALICE) /\ AliceLink(c) /\ BobDown(c) /\ Met(c)
        /\ cpc[c] \notin {"gaveUp", "crashed", "done"}
    BY <1>2, <1>5 DEF HoldsClient, IoOpen, QueueInv, AliceSide, BobSide, RoundsInv, Ended
  <2>2. CASE ttp[BOB] # c
    BY <1>2, <1>5, <2>1, <2>2, ApartFromBob
  <2>3. CASE ttp[BOB] = c
    <3>1. pc[BOB] = "poll" /\ BobLink(c)
      BY <1>4, <1>5, <2>1, <2>3, BrokenSocket DEF Restart
    <3>2. FromClient(ALICE) = up[ALICE][c] /\ FromClient(BOB) = up[BOB][c]
      BY <1>5, <2>3 DEF FromClient
    <3>3. NeitherBegan \/ AliceFirst \/ BobDone
      BY <1>2, <2>1, <3>1 DEF RoundsInv, Meet, Running, Answered, Early
    <3>4. /\ <<N(c)>> # << >> /\ <<N(c), Seed>> # << >> /\ <<Setup>> # << >>
          /\ ck[c] \in Nat /\ Len(<< >>) = 0
          /\ \A p \in Party : /\ Len(down[p][c]) \in Nat
                              /\ Len(down[p][c]) = 0 <=> down[p][c] = << >>
      BY LabelsAreMessages, NetMessages, OneQueued, TwoQueued, EmptyLen DEF TypeOK
    <3>5. CASE cpc[c] \in {"ptsAlice", "ptsBob", "delta", "seed"}
      <4>1. down[BOB][c] = << >>
        BY <2>1, <3>5 DEF BobDown, Pose
      <4>2. CASE cpc[c] = "ptsAlice"
        <5>1. pc[ALICE] \in Idle /\ net[ALICE] = << >>
          BY <2>1, <4>2 DEF AliceLink, Starting, Idle, RoundsInv, AliceNet
        <5> QED BY <4>1, <4>2, <5>1 DEF BobLeftFirst, Pose
      <4>3. CASE cpc[c] # "ptsAlice"
        <5>1. ~BobDone
          BY <2>3, <3>1, <3>5, <4>3 DEF BobDone
        <5>2. net[ALICE] = << >> /\ pc[ALICE] \in Idle \cup {"handshake"}
          BY <3>3, <5>1 DEF NeitherBegan, AliceFirst
        <5> QED BY <3>5, <4>1, <5>2 DEF BobLeftFirst, Pose
      <4> QED BY <4>2, <4>3
    <3>6. CASE cpc[c] \in {"labels"} \cup Pose /\ up[BOB][c] # << >>
      <4>1. Given(BOB, c) = 0 /\ ~Post(BOB)
        BY <3>1, <3>2, <3>6 DEF BobLink, Post
      <4>2. ~BobDone
        BY <3>1, <4>1 DEF BobDone
      <4>3. \/ pc[ALICE] \in {"handshake", "input"}
            \/ cpc[c] \in Pose /\ pc[ALICE] \notin Idle \ {"poll"}
        BY <2>1, <3>6 DEF AliceLink, Idle
      <4>4. ~NeitherBegan
        BY <1>5, <4>1, <4>3 DEF NeitherBegan, Idle
      <4>5. pc[ALICE] = "handshake" /\ net[ALICE] = << >>
        BY <3>3, <4>2, <4>4 DEF AliceFirst
      <4>6. cpc[c] \in Pose => Given(ALICE, c) = 0
        BY <2>1, <4>5 DEF AliceLink
      <4>7. cpc[c] # "poseBob"
        BY <3>4, <4>6 DEF Given, Got, Pose
      <4>8. down[BOB][c] = << >>
        BY <3>4, <3>6, <4>1 DEF Given, Got, Pose
      <4> QED BY <4>5, <4>6, <4>7, <4>8 DEF BobLeftFirst
    <3>7. CASE cpc[c] \in {"labels"} \cup Pose /\ up[BOB][c] = << >>
      <4>1. Given(BOB, c) = ServerOutputs
        BY <3>1, <3>4, <3>7 DEF BobLink
      <4>2. net[BOB] = << >>
        BY <1>4, <2>3, <3>1, <3>7 DEF Clean, Resting
      <4>3. ~AliceFirst
        BY <3>4, <4>2 DEF AliceFirst
      <4>4. NeitherBegan => Post(ALICE)
        <5>1. ASSUME pc[ALICE] \in Idle PROVE pc[ALICE] = "poll" /\ up[ALICE][c] = << >>
          BY <2>1, <3>7, <5>1 DEF AliceLink, Idle
        <5> QED BY <3>2, <5>1 DEF NeitherBegan, Post
      <4> QED BY <3>1, <3>3, <3>7, <4>1, <4>3, <4>4 DEF BobDone, BobLeftLast
    <3>8. cpc[c] \notin {"connectAlice", "connectBob"}
      BY <3>1 DEF BobLink
    <3> QED BY <2>1, <3>5, <3>6, <3>7, <3>8 DEF TypeOK, ClientPlace, Pose
  <2> QED BY <2>2, <2>3
<1>6. BobGone(c)'
  BY <1>1, <1>3, <1>5, BobLeftFrame DEF BobGone, SamePlace, Ended
<1>7. AliceGone(c)'
  BY <1>1, <1>2 DEF AliceGone
<1>8. BothGone(c)'
  <2> SUFFICES ASSUME ttp[ALICE] # c, cpc[c] \in {"labels"} \cup Pose
               PROVE  \/ cpc[c] # "poseBob" /\ \A p \in Party : Given(p, c) = 0
                      \/ \A p \in Party : Given(p, c) = ClientOutputs
    BY <1>1, <1>3 DEF BothGone, SamePlace
  <2>1. CASE ttp[BOB] # c
    BY <2>1 DEF GoneInv, BothGone
  <2>2. CASE ttp[BOB] = c
    <3>1. ~Ended(c)
      BY DEF Ended, Pose
    <3>2. ~IoOpen(ALICE)
      BY <2>2 DEF RoundsInv, Met, AliceMet
    <3>3. AliceLeftLast(c)
      BY <2>2, <3>1, <3>2 DEF GoneInv, AliceGone, AliceLeftFirst, Pose
    <3>4. cpc[c] \in Pose /\ Given(ALICE, c) = ClientOutputs /\ ServerOutputs = ClientOutputs
      BY <3>3, AllSharesOfAlice DEF AliceLeftLast
    <3>5. Restart(BOB)
      <4> SUFFICES ASSUME Exit(BOB) PROVE FALSE
        OBVIOUS
      <4>1. pc[BOB] = "setup" \/ (pc[BOB] \in {"handshake", "flag", "compute"} /\ net[BOB] = << >>)
        BY <2>2, <3>1, BrokenSocket
      <4>2. pc[BOB] \in Early /\ Taken + Len(net[BOB]) = Rounds + 1 /\ net[BOB] = << >>
        BY <3>3, <4>1 DEF AliceLeftLast, Post, Early
      <4>3. Len(net[BOB]) = 0 /\ k[BOB] \in Nat /\ Rounds \in Nat
        BY <4>2, NetType, RoundsType
      <4>4. pc[BOB] = "compute" => k[BOB] < Rounds
        BY <1>4, <2>2 DEF BobNet
      <4>5. pc[BOB] \in {"handshake", "compute"}
        BY <4>1, <4>2 DEF Early
      <4>6. Taken < Rounds + 1
        BY <4>3, <4>4, <4>5 DEF Taken
      <4>7. Taken \in Nat
        BY <4>3 DEF Taken
      <4> QED BY <4>2, <4>3, <4>6, <4>7
    <3>6. pc[BOB] = "poll" /\ up[BOB][c] = << >>
      BY <2>2, <3>3, <3>5 DEF Restart, AliceLeftLast, Early, Post, FromClient
    <3>7. Given(BOB, c) = ServerOutputs
      <4>1. <<N(c), Seed>> # << >>
        BY LabelsAreMessages, TwoQueued
      <4> QED BY <1>4, <2>2, <3>4, <3>6, <4>1 DEF BobLink
    <3> QED BY <3>4, <3>7
  <2> QED BY <2>1, <2>2
<1> QED BY <1>6, <1>7, <1>8

(* A client comes to the door: it has nothing of either party.              *)
LEMMA GoneConnect ==
  ASSUME TypeOK, HoldsClient, QueueInv, RoundsInv, GoneInv, NEW d \in Client, Connect(d)
  PROVE  GoneInv'
<1>1. PICK p \in Party : Connecting(d, p)
  BY ConnectingOf
<1>2. /\ pc[p] = "ttp" /\ UNCHANGED <<pc, k, ck, up, down, net>>
      /\ \A q \in Party : q # p => ttp'[q] = ttp[q]
      /\ ttp'[p] = ttp[p] \/ (ttp[p] = None /\ ttp'[p] = d)
  BY <1>1 DEF Connecting, TypeOK
<1>3. /\ cpc[d] = IF p = ALICE THEN "connectAlice" ELSE "connectBob"
      /\ cpc'[d] = IF p = ALICE THEN "connectBob" ELSE "ptsAlice"
      /\ \A c \in Client : c # d => cpc'[c] = cpc[c]
  BY <1>1 DEF Connecting, TypeOK
<1>4. /\ down[BOB][d] = << >> /\ (p = BOB => down[ALICE][d] = << >>)
      /\ ttp[p] # d /\ (p = ALICE => ttp[BOB] # d)
  BY <1>3 DEF QueueInv, AliceSide, BobSide, AliceDown, BobDown, AliceLink, BobLink, Pose
<1> SUFFICES ASSUME NEW c \in Client PROVE AliceGone(c)' /\ BobGone(c)' /\ BothGone(c)'
  BY DEF GoneInv
<1>5. CASE c = d
  <2>1. AliceGone(d)'
    <3>1. p = BOB => AliceLeftFirst(d)'
      BY <1>2, <1>3, <1>4 DEF AliceLeftFirst, Idle
    <3> QED BY <1>2, <1>4, <3>1 DEF AliceGone
  <2>2. BobGone(d)'
    <3>1. p = ALICE => BobLeftFirst(d)'
      BY <1>2, <1>3, <1>4 DEF BobLeftFirst, Idle, Pose, RoundsInv, AliceNet
    <3> QED BY <1>2, <3>1 DEF BobGone, IoOpen
  <2>3. BothGone(d)'
    BY <1>3 DEF BothGone, Pose
  <2> QED BY <1>5, <2>1, <2>2, <2>3
<1>6. CASE c # d
  <2>1. /\ SameScript(c) /\ \A q \in Party : (ttp'[q] = c <=> ttp[q] = c)
        /\ \A q \in Party : Given(q, c)' = Given(q, c)
    BY <1>2, <1>3, <1>6, GivenFrame, SessionAssumption DEF SameScript
  <2>2. BothGone(c)'
    BY <2>1 DEF GoneInv, BothGone, SameScript
  <2>3. AliceGone(c)'
    BY <1>2, <2>1, AliceLeftFrame DEF GoneInv, AliceGone, Ended, IoOpen, SameScript, SamePlace
  <2>4. BobGone(c)'
    BY <1>2, <2>1, BobLeftFrame DEF GoneInv, BobGone, Ended, IoOpen, SameScript, SamePlace
  <2> QED BY <2>2, <2>3, <2>4
<1> QED BY <1>5, <1>6

(* A party lets its client in: neither has begun.                           *)
LEMMA GoneAccept ==
  ASSUME TypeOK, QueueInv, GoneInv, NEW p \in Party, Accept(p)
  PROVE  GoneInv'
<1>1. /\ pc[p] = "ttp" /\ pc'[p] = "poll" /\ UNCHANGED <<ttp, k, cpc, ck, up, down, net>>
      /\ \A q \in Party : q # p => pc'[q] = pc[q]
  BY DEF Accept, TypeOK
<1> SUFFICES ASSUME NEW c \in Client PROVE AliceGone(c)' /\ BobGone(c)' /\ BothGone(c)'
  BY DEF GoneInv
<1>2. SameScript(c) /\ \A q \in Party : Given(q, c)' = Given(q, c) /\ (IoOpen(q)' <=> IoOpen(q))
  BY <1>1, GivenFrame DEF SameScript, IoOpen
<1>3. AliceGone(c)'
  <2>1. CASE p = BOB
    <3>1. ~AliceLeftLast(c) /\ (AliceLeftFirst(c) => AliceLeftFirst(c)')
      BY <1>1, <2>1 DEF AliceLeftLast, AliceLeftFirst, Post, Early, Idle
    <3> QED BY <1>1, <1>2, <3>1 DEF GoneInv, AliceGone, Ended
  <2>2. CASE p # BOB
    BY <1>1, <1>2, <2>2, AliceLeftFrame DEF GoneInv, AliceGone, Ended, SamePlace
  <2> QED BY <2>1, <2>2
<1>4. BobGone(c)'
  <2>1. CASE p = ALICE
    <3>1. ~BobLeftLast(c)
      BY <1>1, <2>1 DEF BobLeftLast, Post
    <3>2. BobLeftFirst(c) => BobLeftFirst(c)'
      BY <1>1, <1>2, <2>1 DEF BobLeftFirst, Idle
    <3> QED BY <1>1, <1>2, <3>1, <3>2 DEF GoneInv, BobGone, Ended
  <2>2. CASE p # ALICE
    BY <1>1, <1>2, <2>2, BobLeftFrame DEF GoneInv, BobGone, Ended, SamePlace
  <2> QED BY <2>1, <2>2
<1>5. BothGone(c)'
  BY <1>1, <1>2 DEF GoneInv, BothGone
<1> QED BY <1>3, <1>4, <1>5

LEMMA GoneQuiet ==
  ASSUME GoneInv, UNCHANGED <<ttp, k, cpc, ck, up, down, net>>,
         pc' = pc \/ \A p \in Party : IoOpen(p)'
  PROVE  GoneInv'
<1> SUFFICES ASSUME NEW c \in Client PROVE AliceGone(c)' /\ BobGone(c)' /\ BothGone(c)'
  BY DEF GoneInv
<1>1. \A p \in Party : Given(p, c)' = Given(p, c)
  BY GivenFrame DEF SameScript
<1>2. BothGone(c)'
  BY <1>1 DEF GoneInv, BothGone
<1>3. AliceGone(c)' /\ BobGone(c)'
  <2>1. CASE \A p \in Party : IoOpen(p)'
    BY <2>1 DEF AliceGone, BobGone
  <2>2. CASE pc' = pc
    BY <2>2, AliceLeftFrame, BobLeftFrame
    DEF GoneInv, AliceGone, BobGone, Ended, IoOpen, SameScript, SamePlace
  <2> QED BY <2>1, <2>2
<1> QED BY <1>2, <1>3

(* A step of a client.                                                      *)
LEMMA GoneClientMoves ==
  ASSUME GoneInv, NEW d \in Client, UNCHANGED <<pc, ttp, k, net>>,
         \A c \in Client : c # d => SameScript(c) /\ \A p \in Party : SameQueues(p, c),
         AliceGone(d)', BobGone(d)', BothGone(d)'
  PROVE  GoneInv'
<1> SUFFICES ASSUME NEW c \in Client, c # d
             PROVE  AliceGone(c)' /\ BobGone(c)' /\ BothGone(c)'
  BY DEF GoneInv
<1>1. SameScript(c) /\ \A p \in Party : down'[p][c] = down[p][c] /\ up'[p][c] = up[p][c]
  BY DEF SameQueues
<1>2. BothGone(c)'
  <2>1. \A p \in Party : Given(p, c)' = Given(p, c)
    BY <1>1, GivenFrame
  <2> QED BY <1>1, <2>1 DEF GoneInv, BothGone, SameScript
<1>3. AliceGone(c)' /\ BobGone(c)'
  BY <1>1, AliceLeftFrame, BobLeftFrame
  DEF GoneInv, AliceGone, BobGone, Ended, IoOpen, SameScript, SamePlace
<1> QED BY <1>2, <1>3

LEMMA GoneSendNumPts ==
  ASSUME TypeOK, HoldsClient, QueueInv, RoundsInv, GoneInv, NEW c \in Client, SendNumPts(c)
  PROVE  GoneInv'
<1>1. /\ UNCHANGED <<pc, ttp, k, ck, down, net>>
      /\ cpc[c] \in {"ptsAlice", "ptsBob"} /\ cpc'[c] \in {"ptsBob", "delta"}
      /\ \A d \in Client : d # c => cpc'[d] = cpc[d]
  BY DEF SendNumPts, Hop, TypeOK
<1>2. \A d \in Client : d # c => SameScript(d) /\ \A p \in Party : SameQueues(p, d)
  BY <1>1, ToPartyEffect DEF SendNumPts, SameScript, SameQueues
<1>3. AliceGone(c)'
  BY <1>1 DEF GoneInv, AliceGone, AliceLeftFirst, AliceLeftLast, IoOpen, Ended, Pose
<1>4. BobGone(c)'
  BY <1>1 DEF GoneInv, BobGone, BobLeftFirst, BobLeftLast, IoOpen, Ended, Pose
<1>5. BothGone(c)'
  BY <1>1 DEF BothGone, Pose
<1> QED BY <1>1, <1>2, <1>3, <1>4, <1>5, GoneClientMoves

LEMMA GoneRecvDelta ==
  ASSUME TypeOK, HoldsClient, QueueInv, RoundsInv, GoneInv, NEW c \in Client, RecvDelta(c)
  PROVE  GoneInv'
<1>1. /\ UNCHANGED <<pc, ttp, k, ck, up, net>>
      /\ cpc[c] = "delta" /\ cpc'[c] = "seed" /\ down[ALICE][c] # << >>
      /\ down'[BOB][c] = down[BOB][c]
      /\ \A d \in Client : d # c => cpc'[d] = cpc[d]
  BY ReadPartyEffect DEF RecvDelta, Hop, TypeOK
<1>2. \A d \in Client : d # c => SameScript(d) /\ \A p \in Party : SameQueues(p, d)
  BY <1>1, ReadPartyEffect DEF RecvDelta, SameScript, SameQueues
<1>3. AliceGone(c)'
  BY <1>1 DEF GoneInv, AliceGone, AliceLeftFirst, AliceLeftLast, IoOpen, Ended, Pose
<1>4. BobGone(c)'
  BY <1>1 DEF GoneInv, BobGone, BobLeftFirst, BobLeftLast, IoOpen, Ended, Pose
<1>5. BothGone(c)'
  BY <1>1 DEF BothGone, Pose
<1> QED BY <1>1, <1>2, <1>3, <1>4, <1>5, GoneClientMoves

LEMMA GoneSendSeed ==
  ASSUME TypeOK, HoldsClient, QueueInv, RoundsInv, GoneInv, NEW c \in Client, SendSeed(c)
  PROVE  GoneInv'
<1>1. /\ UNCHANGED <<pc, ttp, k, ck, down, net>>
      /\ cpc[c] = "seed" /\ cpc'[c] = "labels"
      /\ \A d \in Client : d # c => cpc'[d] = cpc[d]
  BY DEF SendSeed, Hop, TypeOK
<1>2. \A d \in Client : d # c => SameScript(d) /\ \A p \in Party : SameQueues(p, d)
  BY <1>1, ToPartyEffect DEF SendSeed, SameScript, SameQueues
<1>3. AliceGone(c)'
  BY <1>1 DEF GoneInv, AliceGone, AliceLeftFirst, AliceLeftLast, IoOpen, Ended, Pose
<1>4. BobGone(c)'
  BY <1>1 DEF GoneInv, BobGone, BobLeftFirst, BobLeftLast, IoOpen, Ended, Pose
<1>5. BothGone(c)'
  <2>1. \A p \in Party : down[p][c] = << >>
    BY <1>1 DEF QueueInv, AliceSide, AliceDown, BobSide, BobDown, Pose
  <2>2. Len(<< >>) = 0
    OBVIOUS
  <2>3. \A p \in Party : Given(p, c)' = 0
    BY <1>1, <2>1, <2>2 DEF Given, Got
  <2> QED BY <1>1, <2>3 DEF BothGone
<1> QED BY <1>1, <1>2, <1>3, <1>4, <1>5, GoneClientMoves

LEMMA GoneSendLabel ==
  ASSUME TypeOK, HoldsClient, QueueInv, RoundsInv, GoneInv, NEW c \in Client, SendLabel(c)
  PROVE  GoneInv'
<1>1. /\ UNCHANGED <<pc, ttp, k, down, net>>
      /\ cpc[c] = "labels"
      /\ cpc'[c] = "labels" \/ (cpc'[c] = "poseAlice" /\ ck'[c] = 0)
      /\ \A d \in Client : d # c => SameScript(d)
  BY DEF SendLabel, Hop, TypeOK, SameScript
<1>2. \A d \in Client : d # c => SameScript(d) /\ \A p \in Party : SameQueues(p, d)
  BY <1>1, ToPartyEffect DEF SendLabel, SameQueues
<1>0. \A p \in Party : Given(p, c)' = Given(p, c)
  BY <1>1 DEF Given, Got
<1>3. AliceGone(c)'
  BY <1>1 DEF GoneInv, AliceGone, AliceLeftFirst, AliceLeftLast, IoOpen, Ended, Pose
<1>4. BobGone(c)'
  <2> SUFFICES ASSUME ttp[ALICE] = c, ~IoOpen(BOB)
               PROVE  BobLeftFirst(c)' \/ BobLeftLast(c)'
    BY <1>1 DEF BobGone, IoOpen
  <2>1. BobLeftFirst(c) \/ BobLeftLast(c)
    BY <1>1 DEF GoneInv, BobGone, Ended
  <2>2. pc[ALICE] \in {"handshake", "input"} /\ Given(ALICE, c) = 0
    <3>1. down[ALICE][c] = << >> /\ Len(<< >>) = 0
      BY <1>1 DEF QueueInv, AliceSide, AliceDown, Pose
    <3> QED BY <1>1, <3>1 DEF QueueInv, AliceSide, AliceLink, Given, Got
  <2>3. CASE BobLeftFirst(c)
    BY <1>0, <1>1, <2>2, <2>3 DEF BobLeftFirst
  <2>4. CASE BobLeftLast(c)
    BY <1>0, <1>1, <2>2, <2>4 DEF BobLeftLast, Post, Pose
  <2> QED BY <2>1, <2>3, <2>4
<1>5. BothGone(c)'
  BY <1>0, <1>1 DEF GoneInv, BothGone
<1> QED BY <1>1, <1>2, <1>3, <1>4, <1>5, GoneClientMoves

(* A share the client takes and that is not its last leaves all it has been *)
(* given the same.                                                          *)
LEMMA ShareTaken ==
  ASSUME TypeOK, NEW c \in Client, RecvShare(c), cpc'[c] \in Pose
  PROVE  /\ cpc[c] \in Pose
         /\ \A p \in Party : Given(p, c)' = Given(p, c)
         /\ Given(ALICE, c) # 0
<1>0. \A p \in Party : down[p][c] \in Seq(Message) /\ Len(down[p][c]) \in Nat /\ ck[c] \in Nat
  BY EmptyLen DEF TypeOK
<1>1. CASE cpc[c] = "poseAlice"
  <2>1. /\ down[ALICE][c] # << >> /\ down'[ALICE][c] = Tail(down[ALICE][c])
        /\ down'[BOB][c] = down[BOB][c]
    BY <1>1, ReadPartyEffect DEF RecvShare
  <2>2. cpc'[c] = "poseBob" /\ ck' = ck
    BY <1>1 DEF RecvShare, Hop, TypeOK
  <2>3. Len(down'[ALICE][c]) = Len(down[ALICE][c]) - 1 /\ Len(down[ALICE][c]) # 0
    BY <1>0, <2>1, TailProps
  <2>4. Got(ALICE, c) = ck[c] /\ Got(ALICE, c)' = ck[c] + 1 /\ Got(BOB, c)' = Got(BOB, c)
    BY <1>1, <2>2 DEF Got
  <2>5. Given(ALICE, c)' = Given(ALICE, c) /\ Given(ALICE, c) # 0
    <3>1. /\ Len(down[ALICE][c]) \in Nat /\ ck[c] \in Nat
          /\ \A a \in Nat, b \in Nat : (a + 1) + (b - 1) = a + b /\ (b # 0 => a + b # 0)
      BY <1>0
    <3> QED BY <2>3, <2>4, <3>1 DEF Given
  <2>6. Given(BOB, c)' = Given(BOB, c)
    BY <2>1, <2>4 DEF Given
  <2> QED BY <1>1, <2>5, <2>6 DEF Pose
<1>2. CASE cpc[c] = "poseBob"
  <2>1. /\ down[BOB][c] # << >> /\ down'[BOB][c] = Tail(down[BOB][c])
        /\ down'[ALICE][c] = down[ALICE][c]
        /\ cpc'[c] = "poseAlice" /\ ck'[c] = ck[c] + 1
    <3>1. ck[c] + 1 < ClientOutputs
      BY <1>2 DEF RecvShare, Hop, TypeOK, Pose
    <3>2. /\ down[BOB][c] # << >> /\ down' = [down EXCEPT ![BOB][c] = Tail(@)]
          /\ cpc' = [cpc EXCEPT ![c] = "poseAlice"] /\ ck' = [ck EXCEPT ![c] = @ + 1]
      BY <1>2, <3>1 DEF RecvShare, Hop
    <3> QED BY <3>2 DEF TypeOK
  <2>2. Len(down'[BOB][c]) = Len(down[BOB][c]) - 1
    BY <1>0, <2>1, TailProps
  <2>3. /\ Got(ALICE, c) = ck[c] + 1 /\ Got(ALICE, c)' = ck[c] + 1
        /\ Got(BOB, c) = ck[c] /\ Got(BOB, c)' = ck[c] + 1
    BY <1>2, <2>1 DEF Got
  <2>4. Given(BOB, c)' = Given(BOB, c)
    <3>1. /\ Len(down[BOB][c]) \in Nat /\ ck[c] \in Nat
          /\ \A a \in Nat, b \in Nat : (a + 1) + (b - 1) = a + b
      BY <1>0
    <3> QED BY <2>2, <2>3, <3>1 DEF Given
  <2>5. Given(ALICE, c)' = Given(ALICE, c) /\ Given(ALICE, c) # 0
    BY <1>0, <2>1, <2>3 DEF Given
  <2> QED BY <1>2, <2>4, <2>5 DEF Pose
<1> QED BY <1>1, <1>2 DEF RecvShare

(* The client takes a share and goes on; all it has been given is the same. *)
LEMMA GoneRecvShare ==
  ASSUME TypeOK, HoldsClient, QueueInv, RoundsInv, GoneInv, (QueueInv /\ RoundsInv)',
         NEW c \in Client, RecvShare(c)
  PROVE  GoneInv'
<1>1. UNCHANGED <<pc, ttp, k, up, net>>
  BY DEF RecvShare
<1>2. \A d \in Client : d # c => SameScript(d) /\ \A p \in Party : SameQueues(p, d)
  <2>1. CASE cpc[c] = "poseAlice"
    <3>1. \A d \in Client, p \in Party : d # c => down'[p][d] = down[p][d]
      BY <2>1, ReadPartyEffect DEF RecvShare
    <3>2. \A d \in Client : d # c => cpc'[d] = cpc[d] /\ ck'[d] = ck[d]
      BY <2>1 DEF RecvShare, Hop, TypeOK
    <3> QED BY <1>1, <3>1, <3>2 DEF SameScript, SameQueues
  <2>2. CASE cpc[c] = "poseBob"
    <3>1. \/ down' = [down EXCEPT ![BOB][c] = Tail(@)]
          \/ down' = [p \in Party |-> [down[p] EXCEPT ![c] = << >>]]
      BY <2>2 DEF RecvShare
    <3>2. \A d \in Client, p \in Party : d # c => down'[p][d] = down[p][d]
      BY <3>1 DEF TypeOK
    <3>3. \A d \in Client : d # c => cpc'[d] = cpc[d] /\ ck'[d] = ck[d]
      BY <2>2 DEF RecvShare, Hop, TypeOK
    <3> QED BY <1>1, <3>2, <3>3 DEF SameScript, SameQueues
  <2> QED BY <2>1, <2>2 DEF RecvShare
<1>3. CASE cpc'[c] \in Pose
  <2>1. /\ cpc[c] \in Pose
        /\ \A p \in Party : Given(p, c)' = Given(p, c)
        /\ Given(ALICE, c) # 0
    BY <1>3, ShareTaken
  <2>2. AliceGone(c)'
    <3> SUFFICES ASSUME ttp[BOB] = c, ~IoOpen(ALICE) PROVE AliceLeftLast(c)'
      BY <1>1 DEF AliceGone, IoOpen
    <3>1. AliceLeftLast(c)
      BY <2>1 DEF GoneInv, AliceGone, AliceLeftFirst, Ended, Pose
    <3> QED BY <1>1, <1>3, <2>1, <3>1 DEF AliceLeftLast, Post, FromClient, Taken
  <2>3. BobGone(c)'
    <3> SUFFICES ASSUME ttp[ALICE] = c, ~IoOpen(BOB) PROVE BobLeftLast(c)'
      BY <1>1 DEF BobGone, IoOpen
    <3>1. BobLeftLast(c)
      BY <2>1 DEF GoneInv, BobGone, BobLeftFirst, Ended, Pose
    <3> QED BY <1>1, <1>3, <2>1, <3>1 DEF BobLeftLast, Post, FromClient
  <2>4. BothGone(c)'
    BY <1>1, <1>3, <2>1 DEF GoneInv, BothGone
  <2> QED BY <1>1, <1>2, <2>2, <2>3, <2>4, GoneClientMoves
<1>4. CASE cpc'[c] = "done"
  BY <1>1, <1>2, <1>4, GoneClientMoves DEF AliceGone, BobGone, BothGone, Ended, Pose
<1>5. CASE cpc'[c] = "ptsAlice"
  <2>1. AliceSide(c)' /\ BobSide(c)' /\ Clean(c)'
    BY DEF QueueInv, RoundsInv
  <2>2. down'[ALICE][c] = << >> /\ down'[BOB][c] = << >>
    BY <1>5, <2>1 DEF AliceSide, AliceDown, BobSide, BobDown, Pose
  <2>3. AliceGone(c)'
    <3> SUFFICES ASSUME ttp'[BOB] = c PROVE AliceLeftFirst(c)'
      BY DEF AliceGone
    <3>1. pc'[BOB] \in Idle
      BY <1>5, <2>1 DEF BobSide, BobLink, Idle
    <3> QED BY <1>5, <2>2, <3>1 DEF AliceLeftFirst
  <2>4. BobGone(c)'
    <3> SUFFICES ASSUME ttp'[ALICE] = c PROVE BobLeftFirst(c)'
      BY DEF BobGone
    <3>1. pc'[ALICE] \in Idle
      BY <1>5, <2>1 DEF AliceSide, AliceLink, Starting, Idle
    <3>2. net'[ALICE] = << >>
      BY <3>1 DEF RoundsInv, AliceNet
    <3> QED BY <1>5, <2>2, <3>1, <3>2 DEF BobLeftFirst, Pose
  <2>5. BothGone(c)'
    BY <1>5 DEF BothGone, Pose
  <2> QED BY <1>1, <1>2, <2>3, <2>4, <2>5, GoneClientMoves
<1>6. cpc'[c] \in Pose \cup {"done", "ptsAlice"}
  BY DEF RecvShare, Hop, TypeOK, Pose
<1> QED BY <1>3, <1>4, <1>5, <1>6

LEMMA GoneClientEnds ==
  ASSUME TypeOK, GoneInv, NEW c \in Client, NEW how \in {"gaveUp", "crashed"},
         ClientEnds(c, how)
  PROVE  GoneInv'
<1>1. UNCHANGED <<pc, ttp, k, up, net>> /\ cpc'[c] = how
  BY DEF ClientEnds, Hop, TypeOK
<1>2. \A d \in Client : d # c => SameScript(d) /\ \A p \in Party : SameQueues(p, d)
  BY DEF ClientEnds, Hop, TypeOK, SameScript, SameQueues
<1> QED BY <1>1, <1>2, GoneClientMoves DEF AliceGone, BobGone, BothGone, Ended, Pose

LEMMA GoneStep ==
  ASSUME SessionInv, QueueInv, RoundsInv, GoneInv, [Next]_vars, (QueueInv /\ RoundsInv)'
  PROVE  GoneInv'
<1>0. TypeOK /\ HoldsClient
  BY DEF SessionInv
<1>1. CASE ConnectIo
  <2>1. UNCHANGED <<ttp, k, cpc, ck, up, down, net>> /\ \A p \in Party : IoOpen(p)'
    BY <1>1 DEF ConnectIo, IoOpen
  <2> QED BY <2>1, GoneQuiet
<1>2. ASSUME NEW p \in Party, Poll(p) PROVE GoneInv'
  BY <1>2, GoneQuiet DEF Poll
<1>3. CASE UNCHANGED vars
  BY <1>3, GoneQuiet DEF vars
<1>4. ASSUME NEW p \in Party, Accept(p) PROVE GoneInv'
  BY <1>0, <1>4, GoneAccept
<1>5. ASSUME PartyStep(ALICE) PROVE GoneInv'
  BY <1>0, <1>2, <1>4, <1>5, GoneAliceStep, GoneCloseAlice DEF PartyStep, LmServer
<1>6. ASSUME PartyStep(BOB) PROVE GoneInv'
  BY <1>0, <1>2, <1>4, <1>6, GoneBobStep, GoneCloseBob DEF PartyStep, LmServer
<1>7. ASSUME NEW c \in Client, ClientStep(c) PROVE GoneInv'
  <2>1. CASE ClientExit(c)
    BY <1>0, <2>1, GoneClientEnds DEF ClientExit
  <2> QED BY <1>0, <1>7, <2>1, GoneConnect, GoneSendNumPts, GoneRecvDelta, GoneSendSeed,
             GoneSendLabel, GoneRecvShare DEF ClientStep
<1>8. ASSUME NEW c \in Client, Crash(c) PROVE GoneInv'
  BY <1>0, <1>8, GoneClientEnds DEF Crash
<1> QED BY <1>1, <1>3, <1>5, <1>6, <1>7, <1>8 DEF Next

(* A party that has gone left its peer and its live client no request it    *)
(* had begun with the peer and not done its part of.                        *)
THEOREM SessionGone == Spec => []GoneInv
<1>1. Init => GoneInv
  <2> SUFFICES ASSUME Init, NEW c \in Client PROVE AliceGone(c) /\ BobGone(c) /\ BothGone(c)
    BY DEF GoneInv
  <2>1. ttp[ALICE] # c /\ ttp[BOB] # c /\ cpc[c] = "connectAlice"
    BY SessionAssumption DEF Init
  <2> QED BY <2>1 DEF AliceGone, BobGone, BothGone, Pose
<1>2. /\ SessionInv /\ QueueInv /\ RoundsInv /\ (SessionInv /\ QueueInv /\ RoundsInv)'
      /\ GoneInv /\ [Next]_vars
      => GoneInv'
  BY GoneStep
<1> QED BY SessionRounds, <1>1, <1>2, PTL DEF Spec

(* No party that has begun a request with its peer finds a broken socket    *)
(* while its client lives.                                                  *)
LEMMA JoinedStays ==
  ASSUME SessionInv, QueueInv, RoundsInv, GoneInv,
         NEW p \in Party, Joined(p), ~Ended(ttp[p]), Exit(p)
  PROVE  FALSE
<1>0. TypeOK /\ HoldsClient
  BY DEF SessionInv
<1>1. /\ ~IoOpen(Peer(p))
      /\ \/ pc[p] \in {"handshake", "flag"} /\ net[p] = << >>
         \/ pc[p] = "compute" /\ p = BOB /\ net[p] = << >>
         \/ pc[p] = "setup"
         \/ pc[p] = "compute" /\ p = ALICE
  BY BrokenSocket
<1>2. PICK c \in Client : ttp[p] = c
  BY <1>0, Holder DEF Joined, Working, Serving
<1>3. CASE p = ALICE
  <2>1. BobLeftFirst(c) \/ BobLeftLast(c)
    BY <1>1, <1>2, <1>3 DEF GoneInv, BobGone
  <2>2. <<Msg("flag", 0)>> # << >> /\ <<Msg("flag", 1)>> # << >>
    BY NetMessages, OneQueued
  <2> QED BY <1>1, <1>3, <2>1, <2>2 DEF Idle, Joined, BobLeftFirst, BobLeftLast, Post
<1>4. CASE p = BOB
  <2>1. AliceLeftFirst(c) \/ AliceLeftLast(c)
    BY <1>1, <1>2, <1>4 DEF GoneInv, AliceGone
  <2>2. pc[BOB] = "compute" /\ net[BOB] = << >>
    BY <1>1, <1>4 DEF Joined, QueueInv, Place
  <2>3. Taken + Len(net[BOB]) = Rounds + 1
    BY <2>1, <2>2 DEF Idle, AliceLeftFirst, AliceLeftLast, Post
  <2>4. Len(net[BOB]) = 0 /\ Taken = k[BOB] + 1 /\ k[BOB] < Rounds
    BY <2>2 DEF Taken, RoundsInv, BobNet
  <2>5. k[BOB] \in Nat /\ Rounds \in Nat
    BY <1>0, NetType, RoundsType
  <2> QED BY <2>3, <2>4, <2>5
<1> QED BY <1>3, <1>4

(* A client that gives up is in no request both parties have begun.         *)
LEMMA GivesUpEarly ==
  ASSUME SessionInv, QueueInv, RoundsInv, GoneInv, NEW c \in Client, ClientExit(c)
  PROVE  /\ \A p \in Party : ttp[p] = c => ~Joined(p)
         /\ cpc[c] # "poseBob" /\ (cpc[c] = "poseAlice" => ck[c] = 0)
         /\ cpc[c] \in {"labels"} \cup Pose => \A p \in Party : Given(p, c) = 0
<1>0. TypeOK /\ HoldsClient
  BY DEF SessionInv
<1>1. /\ ttp[AtParty(c)] # c
      /\ cpc[c] \in {"delta", "poseAlice", "poseBob"} => down[AtParty(c)][c] = << >>
      /\ cpc[c] \in {"ptsAlice", "ptsBob", "delta", "seed", "labels"} \cup Pose
  BY DEF ClientExit, AtParty, Pose
<1>2. /\ ~Ended(c) /\ cpc[c] \notin {"connectAlice", "connectBob"}
      /\ Counter(c) /\ Clean(c)
      /\ ttp[ALICE] = c => AliceLink(c)
      /\ ttp[BOB] = c => BobLink(c)
      /\ AliceGone(c) /\ BobGone(c) /\ BothGone(c)
  BY <1>1 DEF Ended, Pose, QueueInv, AliceSide, BobSide, RoundsInv, GoneInv
<1>3. \A p \in Party : ttp[p] = c => IoOpen(p)
  BY <1>0, SessionAssumption DEF HoldsClient, IoOpen
<1>4. /\ ck[c] \in Nat /\ Len(<< >>) = 0
      /\ cpc[c] \in Pose => ck[c] < ClientOutputs
  BY <1>0, <1>2 DEF TypeOK, Counter
<1>5. CASE cpc[c] \in {"ptsAlice", "delta", "labels", "poseAlice"}
  <2>1. ttp[ALICE] # c
    BY <1>1, <1>5 DEF AtParty
  <2>2. ttp[BOB] = c => AliceLeftFirst(c) \/ AliceLeftLast(c)
    BY <1>0, <1>2, <1>3, <2>1, ApartFromAlice DEF AliceGone
  <2>3. cpc[c] = "poseAlice" => Given(ALICE, c) = ck[c]
    BY <1>1, <1>4 DEF Given, Got, AtParty
  <2>4. ~AliceLeftLast(c)
    BY <1>4, <1>5, <2>3 DEF AliceLeftLast, Pose
  <2>5. ~Joined(BOB) \/ ttp[BOB] # c
    BY <2>2, <2>4 DEF Idle, AliceLeftFirst, Joined
  <2>6. cpc[c] = "poseAlice" => ttp[BOB] # c
    BY <2>2, <2>4 DEF Idle, AliceLeftFirst
  <2>7. cpc[c] = "poseAlice" => ck[c] = 0
    BY <1>2, <1>4, <2>1, <2>3, <2>6 DEF BothGone, Pose
  <2>8. cpc[c] = "labels" => Given(ALICE, c) = 0
    BY <1>2, <1>4 DEF QueueInv, AliceSide, AliceDown, Given, Got, Pose
  <2>9. cpc[c] \in {"labels"} \cup Pose => ttp[BOB] # c /\ Given(ALICE, c) < ClientOutputs
    BY <1>4, <1>5, <2>2, <2>3, <2>4, <2>8 DEF Idle, AliceLeftFirst, Pose, ClientOutputs
  <2>10. cpc[c] \in {"labels"} \cup Pose => \A p \in Party : Given(p, c) = 0
    BY <1>2, <2>1, <2>9 DEF BothGone, ClientOutputs
  <2> QED BY <1>5, <2>1, <2>5, <2>7, <2>10
<1>6. CASE cpc[c] \in {"ptsBob", "seed", "poseBob"}
  <2>1. ttp[BOB] # c
    BY <1>1, <1>6 DEF AtParty
  <2>2. ttp[ALICE] = c => BobLeftFirst(c) \/ BobLeftLast(c)
    BY <1>0, <1>2, <1>3, <2>1, ApartFromBob DEF BobGone
  <2>3. cpc[c] = "poseBob" => Given(BOB, c) = ck[c]
    BY <1>1, <1>4 DEF Given, Got, AtParty
  <2>4. ~BobLeftLast(c)
    BY <1>4, <1>6, <2>3 DEF BobLeftLast, Pose, ServerOutputs, ClientOutputs
  <2>5. ttp[ALICE] = c => ~Joined(ALICE) /\ cpc[c] # "poseBob"
    BY <2>2, <2>4 DEF Idle, BobLeftFirst, Joined
  <2>6. cpc[c] # "poseBob"
    BY <1>2, <1>4, <2>1, <2>3, <2>5 DEF BothGone, Pose
  <2> QED BY <1>6, <2>1, <2>5, <2>6 DEF Pose
<1> QED BY <1>1, <1>5, <1>6 DEF Pose

(* Only Exit ends a party, and only ClientExit makes a client give up.       *)
LEMMA OnlyExitExits ==
  ASSUME TypeOK, [Next]_vars, NEW p \in Party, pc[p] # "exited", pc'[p] = "exited"
  PROVE  Exit(p)
<1>t. pc \in [Party -> PartyPlace]
  BY DEF TypeOK
<1>1. ~ConnectIo /\ ~UNCHANGED vars
  BY DEF ConnectIo, vars
<1>3. ASSUME NEW q \in Party, PartyStep(q) PROVE Exit(p)
  <2>1. ~Accept(q) /\ ~Poll(q) /\ ~Serve(q) /\ ~RecvNumPts(q) /\ ~Handshake(q)
    BY <1>t DEF Accept, Poll, Serve, RecvNumPts, Handshake
  <2>2. ~Restart(q)
    BY <1>t DEF Restart, Close
  <2>3. ~SetupAlice /\ ~SetupBob
    BY <1>t DEF SetupAlice, SetupBob
  <2>4. \A r \in Party : \A i : ~AfterRound(r, i)
    BY <1>t DEF AfterRound
  <2>5. ~InputAlice /\ ~InputBob
    BY <2>4 DEF InputAlice, InputBob
  <2>6. ~GarbleAlice
    <3>1. pc' # [pc EXCEPT ![ALICE] = "flag"]
      BY <1>t
    <3> QED BY <2>4, <3>1 DEF GarbleAlice
  <2>7. ~FlagAlice /\ ~EvaluateBob
    BY <2>4 DEF FlagAlice, EvaluateBob
  <2>8. ~Reveal(q)
    BY <1>t DEF Reveal
  <2>9. Exit(q)
    BY <1>3, <2>1, <2>2, <2>3, <2>5, <2>6, <2>7, <2>8 DEF PartyStep, LmServer
  <2>10. q = p
    BY <1>t, <2>9 DEF Exit, Close
  <2> QED BY <2>9, <2>10
<1>4. ASSUME NEW c \in Client, ClientStep(c) \/ Crash(c) PROVE FALSE
  BY <1>4 DEF ClientStep, Connect, SendNumPts, RecvDelta, SendSeed, SendLabel, RecvShare,
     ClientExit, Crash, ClientEnds
<1> QED BY <1>1, <1>3, <1>4 DEF Next

LEMMA OnlyExitGivesUp ==
  ASSUME TypeOK, [Next]_vars, NEW c \in Client, cpc[c] # "gaveUp", cpc'[c] = "gaveUp"
  PROVE  ClientExit(c)
<1>t. cpc \in [Client -> ClientPlace]
  BY DEF TypeOK
<1>1. ~ConnectIo /\ ~UNCHANGED vars
  BY DEF ConnectIo, vars
<1>3. \A p \in Party : ~PartyStep(p)
  BY DEF PartyStep, LmServer, Accept, Poll, Restart, Serve, RecvNumPts, SetupAlice, SetupBob,
     Handshake, InputAlice, InputBob, GarbleAlice, FlagAlice, EvaluateBob, Reveal, Exit
<1>4. ASSUME NEW d \in Client, ClientStep(d) \/ Crash(d) PROVE ClientExit(c)
  <2>7. ~Connect(d)
    BY <1>t DEF Connect, Hop
  <2>1. ~SendNumPts(d) /\ ~RecvDelta(d) /\ ~SendSeed(d)
    BY <1>t DEF SendNumPts, RecvDelta, SendSeed, Hop
  <2>2. ~SendLabel(d)
    BY <1>t DEF SendLabel, Hop
  <2>3. ~RecvShare(d)
    BY <1>t DEF RecvShare, Hop
  <2>4. ~Crash(d)
    BY <1>t DEF Crash, ClientEnds, Hop
  <2>5. ClientExit(d)
    BY <1>4, <2>1, <2>2, <2>3, <2>4, <2>7 DEF ClientStep
  <2>6. d = c
    BY <1>t, <2>5 DEF ClientExit, ClientEnds, Hop
  <2> QED BY <2>5, <2>6
<1> QED BY <1>1, <1>3, <1>4 DEF Next

(* JointRequestUnbroken: no party of a request both have begun exits, and   *)
(* its client does not give up, as long as the client itself lives.         *)
THEOREM SessionJointRequestUnbroken == Spec => JointRequestUnbroken
<1>1. /\ SessionInv /\ QueueInv /\ RoundsInv /\ GoneInv /\ [Next]_vars
      => [/\ \A p \in Party : Joined(p) /\ ~Ended(ttp[p]) => pc'[p] # "exited"
          /\ \A c \in Client : cpc[c] # "gaveUp" /\ cpc'[c] = "gaveUp" =>
               /\ \A p \in Party : ttp[p] = c => ~Joined(p)
               /\ cpc[c] # "poseBob" /\ (cpc[c] = "poseAlice" => ck[c] = 0)]_vars
  <2> SUFFICES ASSUME SessionInv, QueueInv, RoundsInv, GoneInv, [Next]_vars
      PROVE  /\ \A p \in Party : Joined(p) /\ ~Ended(ttp[p]) => pc'[p] # "exited"
             /\ \A c \in Client : cpc[c] # "gaveUp" /\ cpc'[c] = "gaveUp" =>
                  /\ \A p \in Party : ttp[p] = c => ~Joined(p)
                  /\ cpc[c] # "poseBob" /\ (cpc[c] = "poseAlice" => ck[c] = 0)
    OBVIOUS
  <2>0. TypeOK
    BY DEF SessionInv
  <2>1. ASSUME NEW p \in Party, Joined(p), ~Ended(ttp[p]) PROVE pc'[p] # "exited"
    <3>1. ~Exit(p) /\ pc[p] # "exited"
      BY <2>1, JoinedStays DEF Joined
    <3> QED BY <2>0, <3>1, OnlyExitExits
  <2>2. ASSUME NEW c \in Client, cpc[c] # "gaveUp", cpc'[c] = "gaveUp" PROVE ClientExit(c)
    BY <2>0, <2>2, OnlyExitGivesUp
  <2> QED BY <2>1, <2>2, GivesUpEarly
<1> QED BY SessionRounds, SessionGone, <1>1, PTL DEF Spec, JointRequestUnbroken

----------------------------------------------------------------------------
(* Processes and sockets are the service of Offload: every step begins,     *)
(* finishes, answers, gives up or ends one request, or is none of its       *)
(* business.                                                                *)

ServedInv == \A c \in Client : ~Ended(c) => served[c] < Requests

(* A client that is not done has a request left.                            *)
THEOREM SessionServed == Spec => []ServedInv
<1>1. Init => ServedInv
  BY SessionAssumption DEF Init, ServedInv
<1>2. TypeOK /\ ServedInv /\ [Next]_vars => ServedInv'
  <2> SUFFICES ASSUME TypeOK, ServedInv, [Next]_vars PROVE ServedInv'
    OBVIOUS
  <2>1. CASE ConnectIo \/ (\E p \in Party : PartyStep(p)) \/ UNCHANGED vars
    <3>1. cpc' = cpc /\ served' = served
      BY <2>1 DEF ConnectIo, PartyStep, LmServer, Accept, Poll, Restart, Serve, RecvNumPts,
             SetupAlice, SetupBob, InputAlice, InputBob, GarbleAlice, FlagAlice, EvaluateBob,
             Handshake, Reveal, Exit, vars
    <3> QED BY <3>1 DEF ServedInv, Ended
  <2>3. ASSUME NEW c \in Client, ClientStep(c) \/ Crash(c) PROVE ServedInv'
    <3>1. /\ cpc \in [Client -> ClientPlace] /\ served \in [Client -> Nat] /\ Requests \in Nat
      BY SessionAssumption DEF TypeOK
    <3>2. CASE RecvShare(c)
      BY <3>1, <3>2 DEF RecvShare, Hop, ServedInv, Ended
    <3>3. CASE ~RecvShare(c)
      BY <2>3, <3>1, <3>3 DEF ClientStep, Connect, SendNumPts, RecvDelta, SendSeed, SendLabel,
             ClientExit, Crash, ClientEnds, Hop, ServedInv, Ended
    <3> QED BY <3>2, <3>3
  <2> QED BY <2>1, <2>3 DEF Next
<1> QED BY SessionTypeOK, <1>1, <1>2, PTL DEF Spec

(* The parties that are past the handshake with c.                          *)
At(p, c) == ttp[p] = c /\ Joined(p)
Answering == {"labels"} \cup Pose

(* What the service does for a client depends on its script, on its shares  *)
(* while it can get any, and on who is past the handshake with it.          *)
LEMMA PhaseFrame ==
  ASSUME NEW c \in Client, SameScript(c),
         \A p \in Party : cpc[c] \in Answering => down'[p][c] = down[p][c],
         \A p \in Party : At(p, c)' <=> At(p, c)
  PROVE  Phase(c)' = Phase(c)
<1>1. cpc[c] \in Answering => \A p \in Party : Given(p, c)' = Given(p, c)
  BY GivenFrame
<1>2. cpc'[c] = cpc[c]
  BY DEF SameScript
<1>3. Begun(c)' <=> Begun(c)
  BY <1>1, <1>2 DEF Begun, At, Answering
<1>4. Ready(c)' <=> Ready(c)
  BY <1>1, <1>2 DEF Ready, Answering
<1> QED BY <1>2, <1>3, <1>4 DEF Phase

(* So it is with a client that moves where it gets no shares.               *)
LEMMA PhaseApart ==
  ASSUME NEW c \in Client,
         cpc[c] \notin Answering \cup {"gaveUp", "crashed"},
         cpc'[c] \notin Pose \cup {"gaveUp", "crashed"},
         cpc'[c] \in Answering => \A p \in Party : Given(p, c)' = 0,
         \A p \in Party : At(p, c)' <=> At(p, c)
  PROVE  Phase(c)' = Phase(c)
<1>1. Begun(c)' <=> Begun(c)
  BY DEF Begun, At, Answering
<1>2. ~Ready(c) /\ ~Ready(c)'
  BY DEF Ready, Answering
<1> QED BY <1>1, <1>2 DEF Phase

(* The phase of a client that is gone is for good; that of a live one says  *)
(* what it has been given, and by whom.                                     *)
LEMMA PhaseOfGone ==
  ASSUME NEW c \in Client, cpc[c] \in {"gaveUp", "crashed"}, cpc'[c] = cpc[c]
  PROVE  Phase(c)' = Phase(c)
BY DEF Phase

LEMMA PhaseOfLive ==
  ASSUME NEW c \in Client, cpc[c] \notin {"gaveUp", "crashed"}
  PROVE  /\ Ready(c) => Phase(c) = "ready"
         /\ ~Ready(c) /\ Begun(c) => Phase(c) = "begun"
         /\ ~Ready(c) /\ ~Begun(c) => Phase(c) = "out"
BY DEF Phase

LEMMA PhaseBegun ==
  ASSUME NEW c \in Client, Phase(c) = "begun"
  PROVE  ~Ready(c) /\ Begun(c)
BY DEF Phase

LEMMA PhaseOfLiveNext ==
  ASSUME NEW c \in Client, cpc'[c] \notin {"gaveUp", "crashed"}
  PROVE  /\ Ready(c)' => Phase(c)' = "ready"
         /\ ~Ready(c)' /\ Begun(c)' => Phase(c)' = "begun"
         /\ ~Ready(c)' /\ ~Begun(c)' => Phase(c)' = "out"
BY DEF Phase

LEMMA PhaseEnds ==
  ASSUME NEW c \in Client, cpc'[c] \in {"gaveUp", "crashed"}
  PROVE  Phase(c)' = cpc'[c]
BY DEF Phase

LEMMA PhaseValues ==
  ASSUME NEW c \in Client, cpc[c] \notin {"gaveUp", "crashed"}
  PROVE  Phase(c) \in {"out", "begun", "ready"}
BY DEF Phase

(* The steps of Session, as steps of Offload.                               *)
LEMMA Stutters ==
  ASSUME \A c \in Client : Phase(c)' = Phase(c), served' = served
  PROVE  UNCHANGED O!ovars
BY DEF O!ovars

LEMMA OneGoes ==
  ASSUME NEW c \in Client, \A d \in Client : d # c => Phase(d)' = Phase(d)
  PROVE  O!Goes(c, Phase(c)')
BY DEF O!Goes

(* A step that moves no client and takes no party into or out of a request. *)
LEMMA PartyStutters ==
  ASSUME UNCHANGED <<cpc, ck, served>>,
         \A c \in Client, p \in Party : cpc[c] \in Answering => down'[p][c] = down[p][c],
         \A c \in Client, p \in Party : At(p, c)' <=> At(p, c)
  PROVE  UNCHANGED O!ovars
<1>1. \A c \in Client : SameScript(c)
  BY DEF SameScript
<1>2. \A c \in Client : Phase(c)' = Phase(c)
  BY <1>1, PhaseFrame
<1> QED BY <1>2, Stutters

LEMMA QuietIsOffload ==
  ASSUME TypeOK, HoldsClient, NEW p \in Party,
         \/ Accept(p) \/ Poll(p) \/ Serve(p) \/ RecvNumPts(p)
         \/ p = ALICE /\ (InputAlice \/ GarbleAlice \/ FlagAlice)
         \/ p = BOB /\ (SetupBob \/ InputBob \/ EvaluateBob)
  PROVE  UNCHANGED O!ovars
<1>1. UNCHANGED <<ttp, cpc, ck, served, down>>
  BY DEF Accept, Poll, Serve, RecvNumPts, InputAlice, GarbleAlice, FlagAlice, SetupBob, InputBob,
         EvaluateBob
<1>2. \A q \in Party : Joined(q)' <=> Joined(q)
  BY DEF Accept, Poll, Serve, RecvNumPts, InputAlice, GarbleAlice, FlagAlice, SetupBob, InputBob,
         EvaluateBob, AfterRound, Joined, TypeOK
<1> QED BY <1>1, <1>2, PartyStutters DEF At

(* The client that gets the delta of ALICE is not at its shares.             *)
LEMMA SetupAliceIsOffload ==
  ASSUME TypeOK, HoldsClient, QueueInv, SetupAlice
  PROVE  UNCHANGED O!ovars
<1>1. PICK c \in Client : ttp[ALICE] = c
  BY Holder DEF SetupAlice, Working, Serving
<1>2. /\ UNCHANGED <<ttp, cpc, ck, served>> /\ pc[ALICE] = "setup"
      /\ \A q \in Party : Joined(q)' <=> Joined(q)
  BY DEF SetupAlice, Joined, TypeOK
<1>3. cpc[c] \notin Answering
  BY <1>1, <1>2 DEF QueueInv, AliceSide, AliceLink, Answering, Pose
<1>4. \A d \in Client, q \in Party : d # c => down'[q][d] = down[q][d]
  BY <1>1, ToClientEffect DEF SetupAlice
<1> QED BY <1>2, <1>3, <1>4, PartyStutters DEF At

(* When a party gets past the handshake with a client, no other client's    *)
(* request is begun and not finished.                                       *)
LEMMA OneAtATime ==
  ASSUME SessionInv, QueueInv, RoundsInv, GoneInv, NEW p \in Party, Handshake(p),
         NEW c \in Client, ttp[p] = c, NEW d \in Client, d # c
  PROVE  Phase(d) # "begun"
<1>1. \A q \in Party : ttp[q] # d
  <2>1. pc[p] = "handshake" /\ net[p] # << >> /\ IoOpen(p)
    BY DEF Handshake, ReadPeer, IoOpen
  <2>2. IoOpen(ALICE) /\ IoOpen(BOB) => ttp[ALICE] = ttp[BOB]
    BY <2>1, Apart DEF Idle
  <2>3. \A q \in Party : ~IoOpen(q) => ttp[q] = None
    BY DEF SessionInv, HoldsClient, IoOpen
  <2>4. d # None
    BY SessionAssumption
  <2> QED BY <2>1, <2>2, <2>3, <2>4
<1>2. SUFFICES ASSUME ~Ready(d), Begun(d) PROVE FALSE
  BY PhaseBegun
<1>3. PICK q \in Party : cpc[d] \in Answering /\ Given(q, d) > 0
  BY <1>1, <1>2 DEF Begun, Answering
<1>4. \A r \in Party : Given(r, d) = ClientOutputs
  BY <1>1, <1>3 DEF GoneInv, BothGone, Answering
<1>5. cpc[d] = "labels" => Given(ALICE, d) = 0
  BY DEF QueueInv, AliceSide, AliceDown, Given, Got, Pose
<1>6. cpc[d] \in Pose
  BY <1>3, <1>4, <1>5 DEF Answering, ClientOutputs
<1> QED BY <1>2, <1>4, <1>6 DEF Ready, ClientOutputs

(* The first party past the handshake begins the request.                   *)
LEMMA HandshakeIsBegin ==
  ASSUME SessionInv, QueueInv, RoundsInv, GoneInv, ServedInv, NEW p \in Party, Handshake(p)
  PROVE  [O!Next]_(O!ovars)
<1>0. TypeOK /\ HoldsClient
  BY DEF SessionInv
<1>1. PICK c \in Client : ttp[p] = c
  BY <1>0, Holder DEF Handshake, Working, Serving
<1>2. /\ UNCHANGED <<ttp, cpc, ck, served, down>> /\ pc[p] = "handshake" /\ pc'[p] = "input"
      /\ \A q \in Party : q # p => pc'[q] = pc[q]
  BY <1>0 DEF Handshake, TypeOK
<1>3. \A d \in Client : d # c => Phase(d)' = Phase(d)
  <2>1. \A d \in Client : SameScript(d)
    BY <1>2 DEF SameScript
  <2>2. \A q \in Party, d \in Client : d # c => (At(q, d)' <=> At(q, d))
    BY <1>1, <1>2 DEF At, Joined
  <2> QED BY <1>2, <2>1, <2>2, PhaseFrame
<1>4. CASE Ended(c)
  <2>1. cpc[c] # "done"
    BY <1>1, <1>2 DEF RoundsInv, Clean
  <2>2. Phase(c)' = Phase(c)
    BY <1>2, <1>4, <2>1, PhaseOfGone DEF Ended
  <2> QED BY <1>2, <1>3, <2>2, Stutters
<1>5. CASE ~Ended(c)
  <2>1. ~Ready(c)
    <3>1. cpc[c] \in Pose => Given(p, c) = 0
      BY <1>1, <1>2 DEF QueueInv, AliceSide, BobSide, AliceLink, BobLink, Pose
    <3> QED BY <3>1 DEF Ready, ClientOutputs
  <2>2. \A q \in Party : Given(q, c)' = Given(q, c)
    BY <1>2, GivenFrame DEF SameScript
  <2>3. ~Ready(c)' /\ Begun(c)'
    BY <1>1, <1>2, <2>1, <2>2 DEF Ready, Begun, Joined
  <2>4. Phase(c)' = "begun" /\ Phase(c) \in {"out", "begun"}
    BY <1>2, <1>5, <2>1, <2>3, PhaseOfLive, PhaseOfLiveNext DEF Ended
  <2>5. CASE Phase(c) = "begun"
    BY <1>2, <1>3, <2>4, <2>5, Stutters
  <2>6. CASE Phase(c) = "out"
    <3>1. O!Goes(c, "begun")
      BY <1>3, <2>4, OneGoes
    <3>2. O!Asks(c)
      BY <1>5, <2>6 DEF O!Asks, ServedInv
    <3>3. \A d \in Client : Phase(d) # "begun"
      BY <1>1, <2>6, OneAtATime
    <3>4. O!Begin(c)
      BY <1>2, <2>6, <3>1, <3>2, <3>3 DEF O!Begin
    <3> QED BY <3>4 DEF O!Next
  <2> QED BY <2>4, <2>5, <2>6
<1> QED BY <1>4, <1>5

(* The last share given out finishes it.                                    *)
LEMMA RevealIsFinish ==
  ASSUME SessionInv, QueueInv, RoundsInv, NEW p \in Party, Reveal(p)
  PROVE  [O!Next]_(O!ovars)
<1>0. TypeOK /\ HoldsClient
  BY DEF SessionInv
<1>1. PICK c \in Client : ttp[p] = c
  BY <1>0, Holder DEF Reveal, Working, Serving
<1>2. /\ UNCHANGED <<ttp, cpc, ck, served>> /\ pc[p] = "reveal"
      /\ \A q \in Party : q # p => pc'[q] = pc[q]
      /\ ToClient(p, ServerOutput(k[p]))
  BY <1>0 DEF Reveal, TypeOK
<1>3. \A d \in Client : d # c => Phase(d)' = Phase(d)
  <2>1. \A d \in Client : SameScript(d)
    BY <1>2 DEF SameScript
  <2>2. \A q \in Party, d \in Client : d # c => (At(q, d)' <=> At(q, d))
    BY <1>1, <1>2 DEF At, Joined
  <2>3. \A q \in Party, d \in Client : d # c => down'[q][d] = down[q][d]
    BY <1>0, <1>1, <1>2, ToClientEffect
  <2> QED BY <2>1, <2>2, <2>3, PhaseFrame
<1>4. CASE Ended(c)
  <2>1. cpc[c] # "done"
    BY <1>1, <1>2 DEF RoundsInv, Clean
  <2>2. Phase(c)' = Phase(c)
    BY <1>2, <1>4, <2>1, PhaseOfGone DEF Ended
  <2> QED BY <1>2, <1>3, <2>2, Stutters
<1>5. CASE ~Ended(c)
  <2>1. /\ cpc[c] \in Answering /\ Given(p, c) = k[p] /\ k[p] < ServerOutputs
        /\ p = ALICE => cpc[c] \in Pose /\ ~NeedsLambda
    <3>1. k[p] < ServerOutputs /\ (p = ALICE => ~NeedsLambda)
      BY <1>2 DEF QueueInv, Place
    <3>2. cpc[c] \in ClientPlace
      BY <1>0 DEF TypeOK
    <3>3. CASE p = ALICE
      <4>1. AliceLink(c) /\ pc[ALICE] = "reveal"
        BY <1>1, <1>2, <3>3 DEF QueueInv, AliceSide
      <4>2. cpc[c] \in Pose
        BY <1>5, <3>2, <4>1 DEF AliceLink, Starting, Pose, Ended, ClientPlace
      <4> QED BY <3>1, <3>3, <4>1, <4>2 DEF AliceLink, Answering
    <3>4. CASE p = BOB
      <4>1. BobLink(c) /\ pc[BOB] = "reveal"
        BY <1>1, <1>2, <3>4 DEF QueueInv, BobSide
      <4>2. cpc[c] \in Answering
        BY <1>5, <3>2, <4>1 DEF BobLink, Pose, Answering, Ended, ClientPlace
      <4> QED BY <3>1, <3>4, <4>1, <4>2 DEF BobLink, Answering
    <3> QED BY <3>3, <3>4
  <2>2. ~Ready(c)
    <3> SUFFICES ASSUME cpc[c] \in Pose, Given(ALICE, c) >= ClientOutputs, k[p] >= ClientOutputs
                 PROVE  FALSE
      BY <2>1 DEF Ready
    <3>1. Given(ALICE, c) \in Nat /\ k[p] \in Nat
      <4>1. /\ down[ALICE][c] \in Seq(Message) /\ ck[c] \in Nat /\ k[p] \in Nat
            /\ Got(ALICE, c) \in {ck[c], ck[c] + 1, 0}
        BY <1>0 DEF Got, TypeOK
      <4>2. Len(down[ALICE][c]) \in Nat
        BY <4>1, EmptyLen
      <4>3. Got(ALICE, c) \in Nat
        BY <4>1
      <4> QED BY <4>1, <4>2, <4>3 DEF Given
    <3>2. Given(ALICE, c) <= ClientOutputs
      BY DEF QueueInv, AliceSide, AliceDown
    <3>3. ServerOutputs = ClientOutputs
      BY <1>0, <3>1, <3>2, AllSharesOfAlice DEF ClientOutputs
    <3> QED BY <2>1, <3>1, <3>3 DEF ClientOutputs
  <2>3. Given(p, c)' > 0
    <3>1. /\ down[p][c] \in Seq(Message) /\ ServerOutput(k[p]) \in Message
          /\ down'[p][c] = Append(down[p][c], ServerOutput(k[p]))
      <4>1. down[p][c] \in Seq(Message) /\ k[p] \in Nat
        BY <1>0 DEF TypeOK
      <4>2. ServerOutput(k[p]) \in Message
        BY <4>1, ServerOutputType
      <4>3. down'[p][c] = Append(down[p][c], ServerOutput(k[p]))
        <5>1. down'[p][c] = IF Ended(c) THEN down[p][c]
                            ELSE Append(down[p][c], ServerOutput(k[p]))
          BY <1>0, <1>1, <1>2, ToClientEffect
        <5> QED BY <1>5, <5>1
      <4> QED BY <4>1, <4>2, <4>3
    <3>2. Len(down'[p][c]) = Len(down[p][c]) + 1 /\ Len(down[p][c]) \in Nat
      BY <3>1, AppendProps
    <3>3. Got(p, c)' \in Nat
      <4>1. ck'[c] \in Nat /\ Got(p, c)' \in {ck'[c], ck'[c] + 1, 0}
        BY <1>0, <1>2 DEF Got, TypeOK
      <4> QED BY <4>1
    <3> QED BY <3>2, <3>3 DEF Given
  <2>4. Begun(c) /\ Begun(c)'
    BY <1>1, <1>2, <2>1, <2>3 DEF Begun, Joined, Answering
  <2>5. Phase(c) = "begun" /\ Phase(c)' \in {"begun", "ready"}
    BY <1>2, <1>5, <2>2, <2>4, PhaseOfLive, PhaseOfLiveNext DEF Ended
  <2>6. CASE Phase(c)' = "begun"
    BY <1>2, <1>3, <2>5, <2>6, Stutters
  <2>7. CASE Phase(c)' = "ready"
    <3>1. O!Goes(c, "ready")
      BY <1>3, <2>7, OneGoes
    <3> QED BY <1>2, <2>5, <3>1 DEF O!Finish, O!Next
  <2> QED BY <2>5, <2>6, <2>7
<1> QED BY <1>4, <1>5

(* A party that closes its sockets was in no request of a live client.       *)
LEMMA CloseIsOffload ==
  ASSUME SessionInv, QueueInv, RoundsInv, GoneInv, NEW p \in Party, Restart(p) \/ Exit(p)
  PROVE  UNCHANGED O!ovars
<1>0. TypeOK /\ HoldsClient
  BY DEF SessionInv
<1>1. /\ pc[p] \in Working /\ ttp[p] \in Client /\ ttp'[p] = None
      /\ UNCHANGED <<cpc, ck, down>>
      /\ \A q \in Party : q # p => SamePlace(q)
  BY <1>0, ClosesEffect
<1>2. served' = served /\ None \notin Client
  BY SessionAssumption DEF Restart, Exit
<1>3. \A c \in Client : Phase(c)' = Phase(c)
  <2> SUFFICES ASSUME NEW c \in Client PROVE Phase(c)' = Phase(c)
    OBVIOUS
  <2>1. SameScript(c)
    BY <1>1 DEF SameScript
  <2>2. CASE ~At(p, c)
    <3>1. \A q \in Party : At(q, c)' <=> At(q, c)
      BY <1>1, <1>2, <2>2 DEF At, SamePlace, Joined
    <3> QED BY <1>1, <2>1, <3>1, PhaseFrame
  <2>3. CASE At(p, c)
    <3>1. Exit(p) /\ Joined(p) /\ ttp[p] = c
      BY <2>3 DEF At, Joined, Restart
    <3>2. Ended(c)
      BY <3>1, JoinedStays
    <3>3. cpc[c] # "done"
      BY <3>1 DEF RoundsInv, Clean, Joined
    <3> QED BY <1>1, <3>2, <3>3, PhaseOfGone DEF Ended
  <2> QED BY <2>2, <2>3
<1> QED BY <1>2, <1>3, Stutters

(* A client that connects has no request yet.                               *)
LEMMA ConnectIsOffload ==
  ASSUME TypeOK, HoldsClient, NEW c \in Client, Connect(c)
  PROVE  UNCHANGED O!ovars
<1>1. PICK p \in Party : Connecting(c, p)
  BY ConnectingOf
<1>2. /\ UNCHANGED <<pc, ck, served, down>>
      /\ pc[p] = "ttp" /\ \A q \in Party : q # p => ttp'[q] = ttp[q]
      /\ cpc[c] \in {"connectAlice", "connectBob"} /\ cpc'[c] \in {"connectBob", "ptsAlice"}
      /\ \A d \in Client : d # c => cpc'[d] = cpc[d]
  BY <1>1 DEF Connecting, TypeOK
<1>3. \A d \in Client, q \in Party : At(q, d)' <=> At(q, d)
  BY <1>2 DEF At, Joined
<1>4. Phase(c)' = Phase(c)
  BY <1>2, <1>3, PhaseApart DEF Answering, Pose
<1>5. \A d \in Client : d # c => Phase(d)' = Phase(d)
  BY <1>2, <1>3, PhaseFrame DEF SameScript
<1> QED BY <1>2, <1>4, <1>5, Stutters

(* A step of a client is its own.                                           *)
LEMMA OthersPhase ==
  ASSUME NEW c \in Client, UNCHANGED <<pc, ttp>>,
         \A d \in Client : d # c => SameScript(d) /\ \A p \in Party : down'[p][d] = down[p][d]
  PROVE  /\ \A d \in Client, p \in Party : At(p, d)' <=> At(p, d)
         /\ \A d \in Client : d # c => Phase(d)' = Phase(d)
<1>1. \A d \in Client, p \in Party : At(p, d)' <=> At(p, d)
  BY DEF At, Joined
<1> QED BY <1>1, PhaseFrame

LEMMA SendsAreOffload ==
  ASSUME TypeOK, HoldsClient, QueueInv, NEW c \in Client,
         SendNumPts(c) \/ RecvDelta(c) \/ SendSeed(c)
  PROVE  UNCHANGED O!ovars
<1>1. /\ UNCHANGED <<pc, ttp, ck, served>>
      /\ cpc[c] \in {"ptsAlice", "ptsBob", "delta", "seed"}
      /\ cpc'[c] \in {"ptsBob", "delta", "seed"} \/ (cpc[c] = "seed" /\ cpc'[c] = "labels")
      /\ \A d \in Client : d # c => cpc'[d] = cpc[d]
  BY DEF SendNumPts, RecvDelta, SendSeed, Hop, TypeOK
<1>2. /\ \A d \in Client, p \in Party : d # c => down'[p][d] = down[p][d]
      /\ cpc'[c] = "labels" => down' = down
  BY <1>1, ReadPartyEffect DEF SendNumPts, RecvDelta, SendSeed
<1>3. \A d \in Client : d # c => SameScript(d)
  BY <1>1 DEF SameScript
<1>4. cpc'[c] \in Answering => \A p \in Party : Given(p, c)' = 0
  <2> SUFFICES ASSUME cpc[c] = "seed", cpc'[c] = "labels", NEW p \in Party
               PROVE  Given(p, c)' = 0
    BY <1>1 DEF Answering, Pose
  <2>1. down'[p][c] = << >>
    BY <1>2 DEF QueueInv, AliceSide, AliceDown, BobSide, BobDown, Pose
  <2> QED BY <2>1 DEF Given, Got
<1>5. /\ \A p \in Party : At(p, c)' <=> At(p, c)
      /\ \A d \in Client : d # c => Phase(d)' = Phase(d)
  BY <1>1, <1>2, <1>3, OthersPhase
<1>6. Phase(c)' = Phase(c)
  BY <1>1, <1>4, <1>5, PhaseApart DEF Answering, Pose
<1> QED BY <1>1, <1>5, <1>6, Stutters

(* The last label of a client is no share.                                  *)
LEMMA SendLabelIsOffload ==
  ASSUME TypeOK, HoldsClient, QueueInv, NEW c \in Client, SendLabel(c)
  PROVE  UNCHANGED O!ovars
<1>1. /\ UNCHANGED <<pc, ttp, served, down>>
      /\ cpc[c] = "labels" /\ cpc'[c] \in {"labels", "poseAlice"}
      /\ cpc'[c] = "poseAlice" => ck'[c] = 0
      /\ \A d \in Client : d # c => SameScript(d)
  BY DEF SendLabel, Hop, TypeOK, SameScript
<1>2. \A p \in Party : Given(p, c)' = Given(p, c)
  BY <1>1 DEF Given, Got
<1>3. Given(ALICE, c) = 0
  BY <1>1 DEF QueueInv, AliceSide, AliceDown, Given, Got, Pose
<1>4. ~Ready(c) /\ ~Ready(c)'
  BY <1>2, <1>3 DEF Ready, ClientOutputs
<1>5. /\ \A p \in Party : At(p, c)' <=> At(p, c)
      /\ \A d \in Client : d # c => Phase(d)' = Phase(d)
  BY <1>1, OthersPhase
<1>6. Begun(c)' <=> Begun(c)
  BY <1>1, <1>2, <1>5 DEF Begun, At, Pose
<1>7. Phase(c)' = Phase(c)
  BY <1>1, <1>4, <1>6, PhaseOfLive, PhaseOfLiveNext
<1> QED BY <1>1, <1>5, <1>7, Stutters

(* The last share a client takes answers it.                                *)
LEMMA RecvShareIsAnswer ==
  ASSUME TypeOK, HoldsClient, QueueInv, ServedInv, (QueueInv /\ RoundsInv)',
         NEW c \in Client, RecvShare(c)
  PROVE  [O!Next]_(O!ovars)
<1>1. /\ UNCHANGED <<pc, ttp>> /\ cpc[c] \in Pose
      /\ cpc'[c] \in Pose \cup {"done", "ptsAlice"}
      /\ \A d \in Client : d # c => cpc'[d] = cpc[d] /\ ck'[d] = ck[d]
  BY DEF RecvShare, Hop, TypeOK, Pose
<1>2. \A d \in Client, p \in Party : d # c => down'[p][d] = down[p][d]
  <2>1. CASE cpc[c] = "poseAlice"
    BY <2>1, ReadPartyEffect DEF RecvShare
  <2>2. CASE cpc[c] = "poseBob"
    <3>1. \/ down' = [down EXCEPT ![BOB][c] = Tail(@)]
          \/ down' = [p \in Party |-> [down[p] EXCEPT ![c] = << >>]]
      BY <2>2 DEF RecvShare
    <3> QED BY <3>1 DEF TypeOK
  <2> QED BY <1>1, <2>1, <2>2 DEF Pose
<1>3. /\ \A p \in Party : At(p, c)' <=> At(p, c)
      /\ \A d \in Client : d # c => Phase(d)' = Phase(d)
  BY <1>1, <1>2, OthersPhase DEF SameScript
<1>4. CASE cpc'[c] \in Pose
  <2>1. \A p \in Party : Given(p, c)' = Given(p, c)
    BY <1>4, ShareTaken
  <2>2. (Ready(c)' <=> Ready(c)) /\ (Begun(c)' <=> Begun(c))
    BY <1>1, <1>3, <1>4, <2>1 DEF Ready, Begun, At
  <2>3. Phase(c)' = Phase(c)
    BY <1>1, <1>4, <2>2, PhaseOfLive, PhaseOfLiveNext DEF Pose
  <2>4. served' = served
    BY <1>4 DEF RecvShare, Hop, TypeOK, Pose
  <2> QED BY <1>3, <2>3, <2>4, Stutters
<1>5. CASE cpc'[c] \in {"done", "ptsAlice"}
  <2>1. /\ cpc[c] = "poseBob" /\ down[BOB][c] # << >> /\ ck[c] + 1 >= ClientOutputs
        /\ served' = [served EXCEPT ![c] = @ + 1]
    <3>1. ck[c] \in Nat
      BY DEF TypeOK
    <3> QED BY <1>5, <3>1 DEF RecvShare, Hop, TypeOK, ClientOutputs
  <2>2. Ready(c)
    <3>1. \A p \in Party : Len(down[p][c]) \in Nat /\ ck[c] \in Nat
      BY EmptyLen DEF TypeOK
    <3>2. Len(down[BOB][c]) # 0
      BY <2>1, EmptyLen DEF TypeOK
    <3>3. Given(ALICE, c) >= ClientOutputs /\ Given(BOB, c) >= ClientOutputs
      BY <2>1, <3>1, <3>2 DEF Given, Got, ClientOutputs
    <3> QED BY <2>1, <3>3 DEF Ready, Pose
  <2>3. \A p \in Party : ~At(p, c)'
    <3>1. AliceSide(c)' /\ BobSide(c)' /\ Clean(c)'
      BY DEF QueueInv, RoundsInv
    <3> QED BY <1>5, <3>1 DEF AliceSide, BobSide, AliceLink, BobLink, Clean, Starting, At, Joined
  <2>4. ~Ready(c)' /\ ~Begun(c)'
    BY <1>5, <2>3 DEF Ready, Begun, At, Pose
  <2>5. Phase(c) = "ready" /\ Phase(c)' = "out"
    BY <1>1, <1>5, <2>2, <2>4, PhaseOfLive, PhaseOfLiveNext DEF Pose
  <2>6. O!Goes(c, "out")
    BY <1>3, <2>5, OneGoes
  <2>7. O!Asks(c)
    BY <1>1, <2>5 DEF O!Asks, ServedInv, Ended, Pose
  <2> QED BY <2>1, <2>5, <2>6, <2>7 DEF O!Answer, O!Next
<1> QED BY <1>1, <1>4, <1>5

(* A client that gives up has no request of its own under way.              *)
LEMMA ClientEndsOffload ==
  ASSUME SessionInv, QueueInv, RoundsInv, GoneInv, ServedInv, NEW c \in Client,
         ClientExit(c) \/ Crash(c)
  PROVE  O!Next
<1>0. TypeOK
  BY DEF SessionInv
<1>1. PICK how \in {"gaveUp", "crashed"} :
        /\ ClientEnds(c, how)
        /\ how = "gaveUp" => ClientExit(c)
        /\ how = "crashed" => c \in Crashing
  BY DEF ClientExit, Crash
<1>2. ~Ended(c)
  BY DEF ClientExit, Crash, AtParty, Ended
<1>3. /\ UNCHANGED <<pc, ttp, served>> /\ cpc'[c] = how
      /\ \A d \in Client : d # c => SameScript(d) /\ \A p \in Party : down'[p][d] = down[p][d]
  BY <1>0, <1>1 DEF ClientEnds, Hop, TypeOK, SameScript
<1>4. \A d \in Client : d # c => Phase(d)' = Phase(d)
  BY <1>3, OthersPhase
<1>5. Phase(c)' = how
  BY <1>3, PhaseEnds
<1>6. O!Goes(c, how)
  BY <1>4, <1>5, OneGoes
<1>7. O!Asks(c)
  BY <1>2, PhaseValues DEF O!Asks, ServedInv, Ended
<1>8. how = "gaveUp" => Phase(c) = "out"
  <2> SUFFICES ASSUME how = "gaveUp" PROVE Phase(c) = "out"
    OBVIOUS
  <2>1. /\ \A p \in Party : ~At(p, c)
        /\ cpc[c] \in Answering => \A p \in Party : Given(p, c) = 0
    BY <1>1, GivesUpEarly DEF At, Answering
  <2>2. ~Ready(c) /\ ~Begun(c)
    BY <2>1 DEF Ready, Begun, At, Answering, ClientOutputs
  <2> QED BY <1>2, <2>2, PhaseOfLive DEF Ended
<1>9. O!GiveUp(c) \/ O!Die(c)
  BY <1>1, <1>3, <1>6, <1>7, <1>8 DEF O!GiveUp, O!Die
<1> QED BY <1>9 DEF O!Next

LEMMA StepIsOffload ==
  ASSUME SessionInv, QueueInv, RoundsInv, GoneInv, ServedInv, [Next]_vars,
         (QueueInv /\ RoundsInv)'
  PROVE  [O!Next]_(O!ovars)
<1>0. TypeOK /\ HoldsClient
  BY DEF SessionInv
<1>1. CASE ConnectIo
  <2>1. /\ UNCHANGED <<ttp, cpc, ck, served, down>>
        /\ \A p \in Party : ~Joined(p) /\ ~Joined(p)'
    BY <1>1 DEF ConnectIo, Joined
  <2> QED BY <2>1, PartyStutters DEF At
<1>3. ASSUME NEW p \in Party, PartyStep(p) PROVE [O!Next]_(O!ovars)
  <2>1. CASE Restart(p) \/ Exit(p)
    BY <2>1, CloseIsOffload
  <2>2. CASE Handshake(p)
    BY <2>2, HandshakeIsBegin
  <2>3. CASE Reveal(p)
    BY <2>3, RevealIsFinish
  <2>4. CASE SetupAlice
    BY <1>0, <2>4, SetupAliceIsOffload
  <2>5. CASE \/ Accept(p) \/ Poll(p) \/ Serve(p) \/ RecvNumPts(p)
             \/ p = ALICE /\ (InputAlice \/ GarbleAlice \/ FlagAlice)
             \/ p = BOB /\ (SetupBob \/ InputBob \/ EvaluateBob)
    BY <1>0, <2>5, QuietIsOffload
  <2> QED BY <1>3, <2>1, <2>2, <2>3, <2>4, <2>5 DEF PartyStep, LmServer
<1>4. ASSUME NEW c \in Client, ClientStep(c) \/ Crash(c) PROVE [O!Next]_(O!ovars)
  BY <1>0, <1>4, ConnectIsOffload, SendsAreOffload, SendLabelIsOffload, RecvShareIsAnswer,
     ClientEndsOffload
     DEF ClientStep
<1>5. CASE UNCHANGED vars
  <2>1. /\ UNCHANGED <<cpc, ck, served, down>>
        /\ \A p \in Party, c \in Client : At(p, c)' <=> At(p, c)
    BY <1>5 DEF vars, At, Joined
  <2> QED BY <2>1, PartyStutters
<1> QED BY <1>1, <1>3, <1>4, <1>5 DEF Next

(* Processes and sockets implement the service of Offload, whatever the     *)
(* timers of the polls, the deaths of clients and the exits of parties.     *)
THEOREM SessionIsOffload == Spec => IsOffload
<1>1. Init => O!Init
  <2> SUFFICES ASSUME Init PROVE O!Init
    OBVIOUS
  <2>1. \A c \in Client : ~Ready(c) /\ ~Begun(c) /\ cpc[c] = "connectAlice"
    BY DEF Init, Ready, Begun, Joined, Pose
  <2>2. \A c \in Client : Phase(c) = "out"
    BY <2>1, PhaseOfLive
  <2>3. served = [c \in Client |-> 0]
    BY DEF Init
  <2> QED BY <2>2, <2>3 DEF O!Init
<1>2. /\ SessionInv /\ QueueInv /\ RoundsInv /\ (SessionInv /\ QueueInv /\ RoundsInv)'
      /\ GoneInv /\ ServedInv /\ [Next]_vars
      => [O!Next]_(O!ovars)
  BY StepIsOffload
<1> QED BY SessionRounds, SessionGone, SessionServed, <1>1, <1>2, PTL DEF Spec, IsOffload, O!Spec
=============================================================================
