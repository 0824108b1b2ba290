--------------------------- MODULE SessionProofs ---------------------------
(* Theorems about Session: types, and when a party holds a connection, for *)
(* every set of clients, every flow and every bound.                       *)
EXTENDS Session, TLAPS

USE DEF ALICE, BOB, Party, Peer

----------------------------------------------------------------------------
(* Types.                                                                  *)

(* Every label, every revealed output and every index a party or a client  *)
(* puts into a message is a message of the model.                          *)
LEMMA MsgType ==
  ASSUME NEW name \in MsgName, NEW i \in Nat
  PROVE  Msg(name, i) \in Message
BY DEF Msg, Message

LEMMA ClientLabelType ==
  ASSUME NEW n \in Nat, NEW j \in Nat
  PROVE  ClientLabel(n, j) \in Message
<1> USE DEF Message, MsgName, Msg
<1>1. CASE j < 5 * n
  <2>1. j % 5 \in 0 .. 4 /\ j \div 5 \in Nat
    OBVIOUS
  <2>2. <<"objectX", "objectY", "objectZ", "imageX", "imageY">>[(j % 5) + 1] \in MsgName
    BY <2>1
  <2> QED BY <1>1, <2>1, <2>2 DEF ClientLabel
<1>2. CASE ~(j < 5 * n) /\ j < 5 * n + 3
  <2>1. j - 5 * n + 1 \in 1 .. 3
    BY <1>2
  <2>2. <<"f", "cx", "cy">>[j - 5 * n + 1] \in MsgName
    BY <2>1
  <2> QED BY <1>2, <2>2 DEF ClientLabel
<1>3. CASE ~(j < 5 * n + 3)
  <2>1. j - 5 * n - 3 \in Nat /\ ~(j < 5 * n)
    BY <1>3
  <2> QED BY <1>3, <2>1 DEF ClientLabel
<1> QED BY <1>1, <1>2, <1>3

LEMMA ServerOutputType ==
  ASSUME NEW j \in Nat
  PROVE  ServerOutput(j) \in Message
BY DEF ServerOutput, Message, MsgName, Msg

(* Reading a queue leaves a queue, and what was read is a message.          *)
LEMMA HeadTailType ==
  ASSUME NEW q \in Seq(Message), q # << >>
  PROVE  Head(q) \in Message /\ Tail(q) \in Seq(Message)
OBVIOUS

LEMMA AppendType ==
  ASSUME NEW q \in Seq(Message), NEW m \in Message
  PROVE  Append(q, m) \in Seq(Message)
OBVIOUS

(* The socket operators keep the queues typed.                              *)
LEMMA ToClientType ==
  ASSUME TypeOK, NEW p \in Party, NEW m \in Message, ttp[p] # None, ToClient(p, m)
  PROVE  down' \in [Party -> [Client -> Seq(Message)]]
BY AppendType DEF TypeOK, ToClient

LEMMA ToPeerType ==
  ASSUME TypeOK, NEW p \in Party, NEW m \in Message, ToPeer(p, m)
  PROVE  net' \in [Party -> Seq(Message)]
BY AppendType DEF TypeOK, ToPeer

LEMMA ReadPeerType ==
  ASSUME TypeOK, NEW p \in Party, ReadPeer(p)
  PROVE  net' \in [Party -> Seq(Message)] /\ Head(net[p]) \in Message
BY HeadTailType DEF TypeOK, ReadPeer

LEMMA ReadClientType ==
  ASSUME TypeOK, NEW p \in Party, ttp[p] # None, ReadClient(p)
  PROVE  up' \in [Party -> [Client -> Seq(Message)]] /\ Head(FromClient(p)) \in Message
BY HeadTailType DEF TypeOK, ReadClient, FromClient

LEMMA ToPartyType ==
  ASSUME TypeOK, NEW c \in Client, NEW p \in Party, NEW m \in Message, ToParty(c, p, m)
  PROVE  up' \in [Party -> [Client -> Seq(Message)]]
BY AppendType DEF TypeOK, ToParty

LEMMA ReadPartyType ==
  ASSUME TypeOK, NEW c \in Client, NEW p \in Party, ReadParty(c, p)
  PROVE  down' \in [Party -> [Client -> Seq(Message)]]
BY HeadTailType DEF TypeOK, ReadParty

LEMMA CloseType ==
  ASSUME TypeOK, NEW p \in Party, NEW s \in PartyPlace, Close(p, s)
  PROVE  /\ pc' \in [Party -> PartyPlace]
         /\ ttp' \in [Party -> Client \cup {None}]
         /\ late' \in [Party -> BOOLEAN]
         /\ ready' \in [Party -> BOOLEAN]
         /\ numPts' \in [Party -> Nat]
         /\ k' \in [Party -> Nat]
         /\ up' \in [Party -> [Client -> Seq(Message)]]
         /\ net' \in [Party -> Seq(Message)]
<1>1. << >> \in Seq(Message)
  OBVIOUS
<1> QED BY <1>1 DEF TypeOK, Close

LEMMA AfterRoundType ==
  ASSUME TypeOK, NEW p \in Party, NEW i \in Nat, AfterRound(p, i)
  PROVE  pc' \in [Party -> PartyPlace] /\ k' \in [Party -> Nat]
BY DEF TypeOK, AfterRound, PartyPlace, Serving

----------------------------------------------------------------------------
(* A party that polls or serves holds a client's connection, and one that  *)
(* waits for its peer or has exited holds none.                            *)

HoldsClient ==
  \A p \in Party :
    /\ pc[p] \in {"poll"} \cup Serving => ttp[p] # None
    /\ pc[p] \in {"io", "exited"} => ttp[p] = None

SessionInv == TypeOK /\ HoldsClient

LEMMA InitInv == Init => SessionInv
<1> SUFFICES ASSUME Init PROVE SessionInv
  OBVIOUS
<1>1. << >> \in Seq(Message)
  OBVIOUS
<1>2. TypeOK
  BY <1>1 DEF Init, TypeOK, PartyPlace, ClientPlace
<1>3. HoldsClient
  BY DEF Init, HoldsClient, Serving
<1> QED BY <1>2, <1>3 DEF SessionInv

----------------------------------------------------------------------------
(* Every step keeps the types.                                             *)

(* What a connection does, with the party it is made to.                    *)
Connecting(c, p) ==
  /\ pc[p] = "ttp"
  /\ cpc[c] = IF p = ALICE THEN "connectAlice" ELSE "connectBob"
  /\ cpc' = [cpc EXCEPT ![c] = IF p = ALICE THEN "connectBob" ELSE "ptsAlice"]
  /\ \/ ttp[p] = None /\ ttp' = [ttp EXCEPT ![p] = c] /\ backlog' = backlog
     \/ ttp[p] # None /\ ttp' = ttp /\ backlog' = [backlog EXCEPT ![p] = @ \cup {c}]
  /\ UNCHANGED <<pc, late, ready, numPts, k, ck, served, up, down, net>>

LEMMA ConnectingOf ==
  ASSUME NEW c \in Client, Connect(c)
  PROVE  \E p \in Party : Connecting(c, p)
BY DEF Connect, Connecting, Hop

LEMMA TypeStep ==
  ASSUME TypeOK, HoldsClient, [Next]_vars
  PROVE  TypeOK'
<1> USE SessionAssumption
<1>n. ASSUME NEW p \in Party, pc[p] \in Serving PROVE ttp[p] # None /\ ttp[p] \in Client
  BY <1>n DEF HoldsClient, TypeOK
<1>k. pc \in [Party -> PartyPlace] /\ k \in [Party -> Nat] /\ numPts \in [Party -> Nat]
  BY DEF TypeOK
<1>1. CASE ConnectIo
  BY <1>1 DEF ConnectIo, TypeOK, PartyPlace
<1>2. ASSUME NEW p \in Party, Accept(p) PROVE TypeOK'
  BY <1>2 DEF Accept, TypeOK, PartyPlace
<1>2c. ASSUME NEW c \in Client, Connect(c) PROVE TypeOK'
  <2>1. PICK p \in Party : Connecting(c, p)
    BY <1>2c, ConnectingOf
  <2>2. cpc' \in [Client -> ClientPlace]
    BY <2>1 DEF Connecting, TypeOK, ClientPlace
  <2>3. ttp' \in [Party -> Client \cup {None}] /\ backlog' \in [Party -> SUBSET Client]
    <3>1. CASE ttp[p] = None
      <4>1. ttp' = [ttp EXCEPT ![p] = c] /\ backlog' = backlog
        BY <2>1, <3>1 DEF Connecting
      <4> QED BY <4>1 DEF TypeOK
    <3>2. CASE ttp[p] # None
      <4>1. ttp' = ttp /\ backlog' = [backlog EXCEPT ![p] = backlog[p] \cup {c}]
        BY <2>1, <3>2 DEF Connecting
      <4>2. backlog[p] \cup {c} \in SUBSET Client
        BY DEF TypeOK
      <4> QED BY <4>1, <4>2 DEF TypeOK
    <3> QED BY <3>1, <3>2
  <2> QED BY <2>1, <2>2, <2>3 DEF Connecting, TypeOK
<1>3. ASSUME NEW p \in Party, Poll(p) PROVE TypeOK'
  BY <1>3 DEF Poll, TypeOK
<1>4. ASSUME NEW p \in Party, Restart(p) PROVE TypeOK'
  <2>1. "io" \in PartyPlace
    BY DEF PartyPlace
  <2> QED BY <1>4, <2>1, CloseType DEF Restart, TypeOK
<1>5. ASSUME NEW p \in Party, Serve(p) PROVE TypeOK'
  BY <1>5 DEF Serve, TypeOK, PartyPlace, Serving
<1>6. ASSUME NEW p \in Party, RecvNumPts(p) PROVE TypeOK'
  <2>1. ttp[p] # None
    BY <1>6, <1>n DEF RecvNumPts, Serving
  <2>2. up' \in [Party -> [Client -> Seq(Message)]] /\ Head(FromClient(p)).i \in Nat
    BY <1>6, <2>1, ReadClientType DEF RecvNumPts, Message
  <2> QED BY <1>6, <2>2 DEF RecvNumPts, TypeOK, PartyPlace, Serving
<1>7. CASE SetupAlice
  <2>1. ttp[ALICE] # None
    BY <1>7, <1>n DEF SetupAlice, Serving
  <2>2. Msg("delta", 0) \in Message /\ Msg("setup", 0) \in Message
    BY MsgType DEF MsgName
  <2>3. down' \in [Party -> [Client -> Seq(Message)]] /\ net' \in [Party -> Seq(Message)]
    BY <1>7, <2>1, <2>2, ToClientType, ToPeerType DEF SetupAlice
  <2> QED BY <1>7, <2>3 DEF SetupAlice, TypeOK, PartyPlace, Serving
<1>8. CASE SetupBob
  <2>1. ttp[BOB] # None
    BY <1>8, <1>n DEF SetupBob, Serving
  <2>2. Msg("setup", 0) \in Message
    BY MsgType DEF MsgName
  <2>3. up' \in [Party -> [Client -> Seq(Message)]] /\ net' \in [Party -> Seq(Message)]
    BY <1>8, <2>1, <2>2, ReadClientType, ToPeerType DEF SetupBob
  <2> QED BY <1>8, <2>3 DEF SetupBob, TypeOK, PartyPlace, Serving
<1>9. ASSUME NEW p \in Party, Handshake(p) PROVE TypeOK'
  BY <1>9, ReadPeerType DEF Handshake, TypeOK, PartyPlace, Serving
<1>10. CASE InputAlice
  <2>1. ttp[ALICE] # None
    BY <1>10, <1>n DEF InputAlice, Serving
  <2>2. up' \in [Party -> [Client -> Seq(Message)]]
    BY <1>10, <2>1, ReadClientType DEF InputAlice
  <2>3. pc' \in [Party -> PartyPlace] /\ k' \in [Party -> Nat]
    <3>1. CASE k[ALICE] + 1 = ServerInputs(numPts[ALICE])
      BY <1>10, <3>1, AfterRoundType DEF InputAlice
    <3>2. CASE k[ALICE] + 1 # ServerInputs(numPts[ALICE])
      <4>1. k' = [k EXCEPT ![ALICE] = @ + 1] /\ pc' = pc
        BY <1>10, <3>2 DEF InputAlice
      <4> QED BY <4>1, <1>k
    <3> QED BY <3>1, <3>2
  <2> QED BY <1>10, <2>2, <2>3 DEF InputAlice, TypeOK
<1>11. CASE InputBob
  BY <1>11, AfterRoundType DEF InputBob, TypeOK
<1>12. CASE GarbleAlice
  <2>1. k[ALICE] \in Nat /\ k[ALICE] + 1 \in Nat
    BY DEF TypeOK
  <2>2. Msg("tables", k[ALICE]) \in Message
    BY <2>1, MsgType DEF MsgName
  <2>3. net' \in [Party -> Seq(Message)]
    BY <1>12, <2>2, ToPeerType DEF GarbleAlice
  <2>4. pc' \in [Party -> PartyPlace] /\ k' \in [Party -> Nat]
    BY <1>12, <2>1, AfterRoundType DEF GarbleAlice, TypeOK, PartyPlace, Serving
  <2> QED BY <1>12, <2>3, <2>4 DEF GarbleAlice, TypeOK
<1>13. CASE FlagAlice
  <2>1. Rounds \in Nat /\ k[ALICE] + 1 \in Nat
    BY DEF TypeOK, Rounds
  <2>2. pc' \in [Party -> PartyPlace] /\ k' \in [Party -> Nat]
    BY <1>13, <2>1, AfterRoundType DEF FlagAlice
  <2> QED BY <1>13, <2>2, ReadPeerType DEF FlagAlice, TypeOK
<1>14. CASE EvaluateBob
  <2>1. PICK flag \in {0, 1} :
          /\ net' = [net EXCEPT
               ![BOB] = Tail(@),
               ![ALICE] = IF Flow = LOOP_LEAK /\ IoOpen(ALICE)
                          THEN Append(@, Msg("flag", flag)) ELSE @]
          /\ AfterRound(BOB, IF flag = 1 THEN Rounds ELSE k[BOB] + 1)
    BY <1>14 DEF EvaluateBob
  <2>2. Msg("flag", flag) \in Message
    BY MsgType DEF MsgName
  <2>3. Tail(net[BOB]) \in Seq(Message)
    BY <1>14, HeadTailType DEF EvaluateBob, TypeOK
  <2>4. net' \in [Party -> Seq(Message)]
    BY <2>1, <2>2, <2>3, AppendType DEF TypeOK
  <2>5. Rounds \in Nat /\ k[BOB] + 1 \in Nat
    BY DEF TypeOK, Rounds
  <2>6. pc' \in [Party -> PartyPlace] /\ k' \in [Party -> Nat]
    BY <2>1, <2>5, AfterRoundType
  <2> QED BY <1>14, <2>4, <2>6 DEF EvaluateBob, TypeOK
<1>15. ASSUME NEW p \in Party, Reveal(p) PROVE TypeOK'
  <2>1. ttp[p] # None /\ ServerOutput(k[p]) \in Message
    BY <1>15, <1>n, ServerOutputType DEF Reveal, Serving, TypeOK
  <2>2. down' \in [Party -> [Client -> Seq(Message)]]
    BY <1>15, <2>1, ToClientType DEF Reveal
  <2>3. pc' \in [Party -> PartyPlace] /\ k' \in [Party -> Nat] /\ numPts' \in [Party -> Nat]
    <3>1. CASE k[p] + 1 = ServerOutputs
      <4>1. /\ pc' = [pc EXCEPT ![p] = "poll"]
            /\ k' = [k EXCEPT ![p] = 0]
            /\ numPts' = [numPts EXCEPT ![p] = 0]
        BY <1>15, <3>1 DEF Reveal
      <4> QED BY <4>1 DEF TypeOK, PartyPlace
    <3>2. CASE k[p] + 1 # ServerOutputs
      <4>1. k' = [k EXCEPT ![p] = @ + 1] /\ pc' = pc /\ numPts' = numPts
        BY <1>15, <3>2 DEF Reveal
      <4> QED BY <4>1, <1>k
    <3> QED BY <3>1, <3>2
  <2> QED BY <1>15, <2>2, <2>3 DEF Reveal, TypeOK
<1>16. ASSUME NEW p \in Party, Exit(p) PROVE TypeOK'
  <2>1. "exited" \in PartyPlace
    BY DEF PartyPlace
  <2> QED BY <1>16, <2>1, CloseType DEF Exit, TypeOK
<1>17. ASSUME NEW c \in Client, SendNumPts(c) PROVE TypeOK'
  <2>1. Msg("numPts", Points[c]) \in Message
    BY MsgType DEF MsgName
  <2>2. up' \in [Party -> [Client -> Seq(Message)]]
    BY <1>17, <2>1, ToPartyType DEF SendNumPts
  <2>3. cpc' \in [Client -> ClientPlace]
    BY <1>17 DEF SendNumPts, Hop, TypeOK, ClientPlace
  <2> QED BY <1>17, <2>2, <2>3 DEF SendNumPts, TypeOK
<1>18. ASSUME NEW c \in Client, RecvDelta(c) PROVE TypeOK'
  BY <1>18, ReadPartyType DEF RecvDelta, Hop, TypeOK, ClientPlace
<1>19. ASSUME NEW c \in Client, SendSeed(c) PROVE TypeOK'
  <2>1. Msg("seed", 0) \in Message
    BY MsgType DEF MsgName
  <2>2. up' \in [Party -> [Client -> Seq(Message)]]
    BY <1>19, <2>1, ToPartyType DEF SendSeed
  <2> QED BY <1>19, <2>2 DEF SendSeed, Hop, TypeOK, ClientPlace
<1>20. ASSUME NEW c \in Client, SendLabel(c) PROVE TypeOK'
  <2>1. ClientLabel(Points[c], ck[c]) \in Message
    BY ClientLabelType DEF TypeOK
  <2>2. up' \in [Party -> [Client -> Seq(Message)]]
    BY <1>20, <2>1, ToPartyType DEF SendLabel
  <2>3. cpc' \in [Client -> ClientPlace] /\ ck' \in [Client -> Nat]
    <3>1. CASE ck[c] + 1 = ClientLabels(Points[c])
      <4>1. cpc' = [cpc EXCEPT ![c] = "poseAlice"] /\ ck' = [ck EXCEPT ![c] = 0]
        BY <1>20, <3>1 DEF SendLabel, Hop
      <4> QED BY <4>1 DEF TypeOK, ClientPlace
    <3>2. CASE ck[c] + 1 # ClientLabels(Points[c])
      <4>1. ck' = [ck EXCEPT ![c] = @ + 1] /\ cpc' = cpc
        BY <1>20, <3>2 DEF SendLabel
      <4> QED BY <4>1 DEF TypeOK
    <3> QED BY <3>1, <3>2
  <2> QED BY <1>20, <2>2, <2>3 DEF SendLabel, TypeOK
<1>21. ASSUME NEW c \in Client, RecvShare(c) PROVE TypeOK'
  <2>0. << >> \in Seq(Message)
    OBVIOUS
  <2>1. CASE cpc[c] = "poseAlice"
    BY <1>21, <2>1, ReadPartyType DEF RecvShare, Hop, TypeOK, ClientPlace
  <2>2. CASE cpc[c] = "poseBob"
    <3>1. Tail(down[BOB][c]) \in Seq(Message)
      BY <1>21, <2>2, HeadTailType DEF RecvShare, TypeOK
    <3>2. [down EXCEPT ![BOB][c] = Tail(@)] \in [Party -> [Client -> Seq(Message)]]
      BY <3>1 DEF TypeOK
    <3>3. [p \in Party |-> [down[p] EXCEPT ![c] = << >>]] \in [Party -> [Client -> Seq(Message)]]
      BY <2>0 DEF TypeOK
    <3>4. CASE ck[c] + 1 < ClientOutputs
      <4>1. /\ ck' = [ck EXCEPT ![c] = @ + 1]
            /\ cpc' = [cpc EXCEPT ![c] = "poseAlice"]
            /\ down' = [down EXCEPT ![BOB][c] = Tail(@)]
            /\ served' = served
        BY <1>21, <2>2, <3>4 DEF RecvShare, Hop
      <4>2. cpc' \in [Client -> ClientPlace] /\ ck' \in [Client -> Nat] /\ served' \in [Client -> Nat]
        BY <4>1 DEF TypeOK, ClientPlace
      <4>3. UNCHANGED <<pc, ttp, backlog, late, ready, numPts, k, up, net>>
        BY <1>21 DEF RecvShare
      <4> QED BY <4>1, <4>2, <4>3, <3>2 DEF TypeOK
    <3>5. CASE ~(ck[c] + 1 < ClientOutputs) /\ served[c] + 1 < Requests
      <4>1. /\ ck' = [ck EXCEPT ![c] = 0]
            /\ served' = [served EXCEPT ![c] = @ + 1]
            /\ cpc' = [cpc EXCEPT ![c] = "ptsAlice"]
            /\ down' = [down EXCEPT ![BOB][c] = Tail(@)]
        BY <1>21, <2>2, <3>5 DEF RecvShare, Hop
      <4>2. cpc' \in [Client -> ClientPlace] /\ ck' \in [Client -> Nat] /\ served' \in [Client -> Nat]
        BY <4>1 DEF TypeOK, ClientPlace
      <4>3. UNCHANGED <<pc, ttp, backlog, late, ready, numPts, k, up, net>>
        BY <1>21 DEF RecvShare
      <4> QED BY <4>1, <4>2, <4>3, <3>2 DEF TypeOK
    <3>6. CASE ~(ck[c] + 1 < ClientOutputs) /\ ~(served[c] + 1 < Requests)
      <4>1. /\ ck' = [ck EXCEPT ![c] = 0]
            /\ served' = [served EXCEPT ![c] = @ + 1]
            /\ cpc' = [cpc EXCEPT ![c] = "done"]
            /\ down' = [p \in Party |-> [down[p] EXCEPT ![c] = << >>]]
        BY <1>21, <2>2, <3>6 DEF RecvShare, Hop
      <4>2. cpc' \in [Client -> ClientPlace] /\ ck' \in [Client -> Nat] /\ served' \in [Client -> Nat]
        BY <4>1 DEF TypeOK, ClientPlace
      <4>3. UNCHANGED <<pc, ttp, backlog, late, ready, numPts, k, up, net>>
        BY <1>21 DEF RecvShare
      <4> QED BY <4>1, <4>2, <4>3, <3>3 DEF TypeOK
    <3> QED BY <3>4, <3>5, <3>6
  <2> QED BY <1>21, <2>1, <2>2 DEF RecvShare
<1>22. ASSUME NEW c \in Client, NEW how \in {"gaveUp", "crashed"}, ClientEnds(c, how) PROVE TypeOK'
  <2>0. << >> \in Seq(Message)
    OBVIOUS
  <2> QED BY <1>22, <2>0 DEF ClientEnds, Hop, TypeOK, ClientPlace
<1>23. CASE UNCHANGED vars
  BY <1>23 DEF vars, TypeOK
<1> QED
  BY <1>1, <1>2, <1>2c, <1>3, <1>4, <1>5, <1>6, <1>7, <1>8, <1>9, <1>10, <1>11, <1>12,
     <1>13, <1>14, <1>15, <1>16, <1>17, <1>18, <1>19, <1>20, <1>21, <1>22, <1>23
  DEF Next, PartyStep, LmServer, ClientStep, ClientExit, Crash

----------------------------------------------------------------------------
(* Every step keeps the connections consistent.                            *)

Working == {"poll"} \cup Serving

(* A step that lets no one in and closes nothing.                           *)
LEMMA QuietStep ==
  ASSUME TypeOK, HoldsClient,
         ttp' = ttp,
         \A p \in Party : pc'[p] = pc[p] \/ (pc[p] \in Working /\ pc'[p] \in Working)
  PROVE  HoldsClient'
BY DEF HoldsClient, Working, Serving

(* A party at work that closes its connections and leaves.                  *)
LEMMA CloseStep ==
  ASSUME TypeOK, HoldsClient, NEW p \in Party, NEW s \in {"io", "exited"}, Close(p, s)
  PROVE  HoldsClient'
<1>1. pc' = [pc EXCEPT ![p] = s] /\ ttp' = [ttp EXCEPT ![p] = None]
  BY DEF Close
<1>2. /\ pc \in [Party -> PartyPlace]
      /\ ttp \in [Party -> Client \cup {None}]
  BY DEF TypeOK
<1> QED BY <1>1, <1>2 DEF HoldsClient, Serving

LEMMA ConnStep ==
  ASSUME TypeOK, HoldsClient, [Next]_vars
  PROVE  HoldsClient'
<1> USE SessionAssumption
<1>t. /\ pc \in [Party -> PartyPlace]
      /\ ttp \in [Party -> Client \cup {None}]
  BY DEF TypeOK
<1>1. CASE ConnectIo
  BY <1>1, <1>t DEF ConnectIo, HoldsClient, Serving
<1>2. ASSUME NEW p \in Party, Accept(p) PROVE HoldsClient'
  BY <1>2, <1>t DEF Accept, HoldsClient
<1>3. ASSUME NEW c \in Client, Connect(c) PROVE HoldsClient'
  <2>1. PICK p \in Party : Connecting(c, p)
    BY <1>3, ConnectingOf
  <2>2. pc' = pc /\ (ttp' = ttp \/ ttp' = [ttp EXCEPT ![p] = c]) /\ pc[p] = "ttp"
    BY <2>1 DEF Connecting
  <2> QED BY <2>2, <1>t DEF HoldsClient
<1>4. ASSUME NEW p \in Party, Poll(p) \/ Serve(p) PROVE HoldsClient'
  <2>1. ttp' = ttp
    BY <1>4 DEF Poll, Serve
  <2>2. \A q \in Party : pc'[q] = pc[q] \/ (pc[q] \in Working /\ pc'[q] \in Working)
    BY <1>4, <1>t DEF Poll, Serve, Working, Serving
  <2> QED BY <2>1, <2>2, QuietStep
<1>5. ASSUME NEW p \in Party, Restart(p) PROVE HoldsClient'
  BY <1>5, CloseStep DEF Restart
<1>6. ASSUME NEW p \in Party, RecvNumPts(p) \/ Handshake(p) \/ Reveal(p) PROVE HoldsClient'
  <2>1. ttp' = ttp
    BY <1>6 DEF RecvNumPts, Handshake, Reveal
  <2>2. \A q \in Party : pc'[q] = pc[q] \/ (pc[q] \in Working /\ pc'[q] \in Working)
    BY <1>6, <1>t DEF RecvNumPts, Handshake, Reveal, Working, Serving
  <2> QED BY <2>1, <2>2, QuietStep
<1>7. CASE SetupAlice \/ InputAlice \/ GarbleAlice \/ FlagAlice
  <2>1. ttp' = ttp
    BY <1>7 DEF SetupAlice, InputAlice, GarbleAlice, FlagAlice
  <2>2. \A q \in Party : pc'[q] = pc[q] \/ (pc[q] \in Working /\ pc'[q] \in Working)
    BY <1>7, <1>t
    DEF SetupAlice, InputAlice, GarbleAlice, FlagAlice, AfterRound, Working, Serving
  <2> QED BY <2>1, <2>2, QuietStep
<1>8. CASE SetupBob \/ InputBob \/ EvaluateBob
  <2>1. ttp' = ttp
    BY <1>8 DEF SetupBob, InputBob, EvaluateBob
  <2>2. \A q \in Party : pc'[q] = pc[q] \/ (pc[q] \in Working /\ pc'[q] \in Working)
    BY <1>8, <1>t DEF SetupBob, InputBob, EvaluateBob, AfterRound, Working, Serving
  <2> QED BY <2>1, <2>2, QuietStep
<1>9. ASSUME NEW p \in Party, Exit(p) PROVE HoldsClient'
  BY <1>9, CloseStep DEF Exit
<1>10. ASSUME NEW c \in Client,
              \/ SendNumPts(c) \/ RecvDelta(c) \/ SendSeed(c)
              \/ SendLabel(c) \/ RecvShare(c)
              \/ ClientEnds(c, "gaveUp") \/ ClientEnds(c, "crashed")
       PROVE  HoldsClient'
  <2>1. ttp' = ttp /\ pc' = pc
    BY <1>10 DEF SendNumPts, RecvDelta, SendSeed, SendLabel, RecvShare, ClientEnds
  <2> QED BY <2>1, QuietStep
<1>11. CASE UNCHANGED vars
  BY <1>11, QuietStep DEF vars
<1> QED
  BY <1>1, <1>2, <1>3, <1>4, <1>5, <1>6, <1>7, <1>8, <1>9, <1>10, <1>11
  DEF Next, PartyStep, LmServer, ClientStep, ClientExit, Crash

----------------------------------------------------------------------------
(* The theorems.                                                           *)

LEMMA SessionInductive == Spec => []SessionInv
<1>1. SessionInv /\ [Next]_vars => SessionInv'
  BY TypeStep, ConnStep DEF SessionInv
<1> QED BY InitInv, <1>1, PTL DEF Spec

(* TypeOK is an invariant: every queue holds messages, every party and      *)
(* client is at a place of its script.                                      *)
THEOREM SessionTypeOK == Spec => []TypeOK
<1>1. SessionInv => TypeOK
  BY DEF SessionInv
<1> QED BY SessionInductive, <1>1, PTL
=============================================================================
