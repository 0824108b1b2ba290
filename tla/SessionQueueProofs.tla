------------------------ MODULE SessionQueueProofs -------------------------
(* Theorems about the sockets of Session: what is in every queue, for every *)
(* set of clients, every flow and every bound, and so that no read of a     *)
(* server or of a client ever takes a message meant for another one.        *)
EXTENDS SessionProofs

USE DEF ALICE, BOB, Party, Peer

----------------------------------------------------------------------------
(* The inductive invariant.  Each client has an ALICE side and a BOB side:  *)
(* what is in the two queues of that socket, and how far the party that     *)
(* holds the client has come compared with the client.                      *)

N(c) == Msg("numPts", Points[c])
Seed == Msg("seed", 0)
Delta == Msg("delta", 0)
Starting == {"connectAlice", "connectBob", "ptsAlice"}

(* q holds labels of a request for n points from the j-th on, or outputs.   *)
Labels(q, n, j) == \A m \in 1 .. Len(q) : q[m] = ClientLabel(n, j + m - 1)
Outputs(q, j) == \A m \in 1 .. Len(q) : q[m] = ServerOutput(j + m - 1)

(* Labels c has sent in its request.                                        *)
Sent(c) ==
  IF cpc[c] = "labels" THEN ck[c]
  ELSE IF cpc[c] \in Pose THEN ClientLabels(Points[c]) ELSE 0

(* The counters of a party fit its place.                                   *)
Place(p) ==
  /\ pc[p] \notin Serving \ {"numPts"} => numPts[p] = 0
  /\ pc[p] \in Serving \ {"numPts"} => numPts[p] = Points[ttp[p]]
  /\ pc[p] \notin {"input", "compute", "flag", "reveal"} => k[p] = 0
  /\ pc[p] = "reveal" => k[p] < ServerOutputs
  /\ ready[p] => pc[p] = "poll" /\ FromClient(p) # << >>
  /\ pc[p] = "numPts" => FromClient(p) # << >>
  /\ p = BOB => pc[p] # "flag" /\ (pc[p] = "input" => k[p] = 0)
  /\ p = ALICE /\ NeedsLambda => pc[p] \notin {"compute", "flag", "reveal"}

(* The counter of a client fits its place; a client of a flow with lambda   *)
(* never gets past the first share.                                         *)
Counter(c) ==
  /\ cpc[c] \in Pose => ck[c] < ClientOutputs
  /\ cpc[c] = "labels" => ck[c] < ClientLabels(Points[c])
  /\ cpc[c] \notin Pose \cup {"labels"} => ck[c] = 0
  /\ NeedsLambda => cpc[c] # "poseBob"

(* A socket with one end has nothing left to read at the closed end.        *)
Closed(c) == \A p \in Party : ttp[p] # c => up[p][c] = << >>

(* What a client, alive or not, has sent to the party that holds it.        *)
AliceUp(c) ==
  /\ pc[ALICE] \in {"ttp", "poll", "numPts"} => up[ALICE][c] \in {<< >>, <<N(c)>>}
  /\ pc[ALICE] \in {"setup", "compute", "flag", "reveal"} => up[ALICE][c] = << >>
  /\ pc[ALICE] \in {"handshake", "input"} =>
       /\ Labels(up[ALICE][c], Points[c], k[ALICE])
       /\ k[ALICE] + Len(up[ALICE][c]) <= ClientLabels(Points[c])
BobUp(c) ==
  /\ pc[BOB] \in {"ttp", "poll", "numPts"} =>
       up[BOB][c] \in {<< >>, <<N(c)>>, <<N(c), Seed>>}
  /\ pc[BOB] = "setup" => up[BOB][c] \in {<< >>, <<Seed>>}
  /\ pc[BOB] \in Serving \ {"numPts", "setup"} => up[BOB][c] = << >>

(* What a party has sent to a client, whether or not it still holds it.     *)
AliceDown(c) ==
  /\ cpc[c] \notin {"ptsBob", "delta"} \cup Pose => down[ALICE][c] = << >>
  /\ cpc[c] \in {"ptsBob", "delta"} => down[ALICE][c] \in {<< >>, <<Delta>>}
  /\ cpc[c] \in Pose =>
       /\ Outputs(down[ALICE][c], Got(ALICE, c))
       /\ Given(ALICE, c) <= ClientOutputs
       /\ NeedsLambda => down[ALICE][c] = << >>
BobDown(c) ==
  /\ cpc[c] \notin {"labels"} \cup Pose => down[BOB][c] = << >>
  /\ cpc[c] \in {"labels"} \cup Pose =>
       Outputs(down[BOB][c], Got(BOB, c)) /\ Given(BOB, c) <= ServerOutputs

(* A live client and the party that holds it are at the same point of the   *)
(* request.  A client may write before the party returns from accept.       *)
AliceLink(c) ==
  /\ cpc[c] # "connectAlice"
  /\ cpc[c] \in Starting => pc[ALICE] \in {"ttp", "poll"} /\ up[ALICE][c] = << >>
  /\ cpc[c] \in {"ptsBob", "delta"} =>
       \/ /\ pc[ALICE] \in {"ttp", "poll", "numPts"}
          /\ up[ALICE][c] = <<N(c)>> /\ down[ALICE][c] = << >>
       \/ pc[ALICE] = "setup" /\ down[ALICE][c] = << >>
       \/ /\ pc[ALICE] \in {"handshake", "input"} /\ k[ALICE] = 0
          /\ up[ALICE][c] = << >>
  /\ cpc[c] \in {"seed", "labels"} =>
       pc[ALICE] \in {"handshake", "input"} /\ k[ALICE] + Len(up[ALICE][c]) = Sent(c)
  /\ cpc[c] \in Pose =>
       \/ /\ pc[ALICE] \in {"handshake", "input"}
          /\ k[ALICE] + Len(up[ALICE][c]) = Sent(c) /\ Given(ALICE, c) = 0
       \/ pc[ALICE] \in {"compute", "flag"} /\ Given(ALICE, c) = 0
       \/ pc[ALICE] = "reveal" /\ Given(ALICE, c) = k[ALICE]
       \/ pc[ALICE] = "poll" /\ up[ALICE][c] = << >> /\ Given(ALICE, c) = ClientOutputs
BobLink(c) ==
  /\ cpc[c] \notin {"connectAlice", "connectBob"}
  /\ cpc[c] \in {"ptsAlice", "ptsBob"} => pc[BOB] \in {"ttp", "poll"} /\ up[BOB][c] = << >>
  /\ cpc[c] \in {"delta", "seed"} =>
       \/ pc[BOB] \in {"ttp", "poll", "numPts"} /\ up[BOB][c] = <<N(c)>>
       \/ pc[BOB] = "setup" /\ up[BOB][c] = << >>
  /\ cpc[c] \in {"labels"} \cup Pose =>
       \/ /\ pc[BOB] \in {"ttp", "poll", "numPts"}
          /\ up[BOB][c] = <<N(c), Seed>> /\ Given(BOB, c) = 0
       \/ pc[BOB] = "setup" /\ up[BOB][c] = <<Seed>> /\ Given(BOB, c) = 0
       \/ pc[BOB] \in {"handshake", "input", "compute"} /\ Given(BOB, c) = 0
       \/ pc[BOB] = "reveal" /\ Given(BOB, c) = k[BOB]
       \/ pc[BOB] = "poll" /\ up[BOB][c] = << >> /\ Given(BOB, c) = ServerOutputs

AliceSide(c) == AliceDown(c) /\ (ttp[ALICE] = c => AliceUp(c) /\ AliceLink(c))
BobSide(c) == BobDown(c) /\ (ttp[BOB] = c => BobUp(c) /\ BobLink(c))

QueueInv ==
  /\ \A p \in Party : Place(p)
  /\ \A c \in Client : Counter(c) /\ Closed(c) /\ AliceSide(c) /\ BobSide(c)

----------------------------------------------------------------------------
(* Queues of messages.                                                      *)

LEMMA LabelsAreMessages ==
  /\ Seed \in Message /\ Delta \in Message
  /\ \A c \in Client : N(c) \in Message
<1>1. \A c \in Client : Points[c] \in Nat
  BY SessionAssumption
<1> QED BY <1>1, MsgType DEF Seed, Delta, N, MsgName

LEMMA AppendProps ==
  ASSUME NEW q \in Seq(Message), NEW m \in Message
  PROVE  /\ Len(q) \in Nat
         /\ Len(Append(q, m)) = Len(q) + 1
         /\ \A i \in 1 .. Len(q) : Append(q, m)[i] = q[i]
         /\ Append(q, m)[Len(q) + 1] = m
         /\ Append(q, m) # << >>
OBVIOUS

LEMMA TailProps ==
  ASSUME NEW q \in Seq(Message), q # << >>
  PROVE  /\ Len(q) \in Nat \ {0}
         /\ Len(Tail(q)) = Len(q) - 1
         /\ \A i \in 1 .. Len(Tail(q)) : Tail(q)[i] = q[i + 1]
         /\ Head(q) = q[1]
OBVIOUS

LEMMA EmptyLen ==
  ASSUME NEW q \in Seq(Message)
  PROVE  Len(q) \in Nat /\ (Len(q) = 0 <=> q = << >>)
OBVIOUS

LEMMA SameQueue ==
  ASSUME NEW q \in Seq(Message), NEW r \in Seq(Message),
         Len(q) = Len(r), \A i \in 1 .. Len(q) : q[i] = r[i]
  PROVE  q = r
OBVIOUS

(* The short queues of the start of a request.                              *)
LEMMA AppendSecond ==
  ASSUME NEW a \in Message, NEW b \in Message
  PROVE  Append(<<a>>, b) = <<a, b>>
<1> DEFINE q == Append(<<a>>, b)
<1>1. <<a>> \in Seq(Message) /\ <<a, b>> \in Seq(Message)
  OBVIOUS
<1>2. q \in Seq(Message) /\ Len(q) = 2 /\ q[2] = b
  BY <1>1
<1>3. q[1] = a
  BY <1>1
<1>4. Len(<<a, b>>) = 2 /\ <<a, b>>[1] = a /\ <<a, b>>[2] = b
  OBVIOUS
<1>5. \A i \in 1 .. 2 : i = 1 \/ i = 2
  OBVIOUS
<1> HIDE DEF q
<1>6. \A i \in 1 .. Len(q) : q[i] = <<a, b>>[i]
  BY <1>2, <1>3, <1>4, <1>5
<1>7. q = <<a, b>>
  BY <1>1, <1>2, <1>4, <1>6, SameQueue
<1> QED BY <1>7 DEF q

LEMMA OneQueued ==
  ASSUME NEW a \in Message
  PROVE  /\ Append(<< >>, a) = <<a>> /\ Tail(<<a>>) = << >> /\ Head(<<a>>) = a
         /\ <<a>> # << >> /\ Len(<<a>>) = 1
OBVIOUS

LEMMA TwoQueued ==
  ASSUME NEW a \in Message, NEW b \in Message
  PROVE  /\ Tail(<<a, b>>) = <<b>> /\ Head(<<a, b>>) = a
         /\ <<a, b>> # << >> /\ <<a, b>> # <<a>>
OBVIOUS

LEMMA LabelsAppend ==
  ASSUME NEW q \in Seq(Message), NEW n \in Nat, NEW j \in Nat, Labels(q, n, j)
  PROVE  Labels(Append(q, ClientLabel(n, j + Len(q))), n, j)
<1> DEFINE m == ClientLabel(n, j + Len(q))
<1>1. Len(q) \in Nat
  OBVIOUS
<1>2. m \in Message
  BY <1>1, ClientLabelType
<1> HIDE DEF m
<1> SUFFICES ASSUME NEW i \in 1 .. Len(q) + 1
             PROVE  Append(q, m)[i] = ClientLabel(n, j + i - 1)
  BY <1>1, <1>2, AppendProps DEF Labels, m
<1>3. CASE i = Len(q) + 1
  <2>1. j + i - 1 = j + Len(q)
    BY <1>1, <1>3
  <2> QED BY <1>2, <1>3, <2>1, AppendProps DEF m
<1>4. CASE i # Len(q) + 1
  <2>1. i \in 1 .. Len(q)
    BY <1>1, <1>4
  <2> QED BY <1>2, <2>1, AppendProps DEF Labels
<1> QED BY <1>3, <1>4

LEMMA LabelsTail ==
  ASSUME NEW q \in Seq(Message), NEW n \in Nat, NEW j \in Nat, Labels(q, n, j), q # << >>
  PROVE  Labels(Tail(q), n, j + 1) /\ Head(q) = ClientLabel(n, j)
<1>1. Len(q) \in Nat \ {0}
  BY TailProps
<1>2. ASSUME NEW i \in 1 .. Len(Tail(q))
      PROVE  Tail(q)[i] = ClientLabel(n, (j + 1) + i - 1)
  <2>1. i + 1 \in 1 .. Len(q) /\ j + (i + 1) - 1 = (j + 1) + i - 1
    BY <1>1, TailProps
  <2>2. q[i + 1] = ClientLabel(n, j + (i + 1) - 1)
    BY <2>1 DEF Labels
  <2> QED BY <2>1, <2>2, TailProps
<1>3. Head(q) = ClientLabel(n, j)
  <2>1. 1 \in 1 .. Len(q) /\ j + 1 - 1 = j
    BY <1>1
  <2>2. q[1] = ClientLabel(n, j + 1 - 1)
    BY <2>1 DEF Labels
  <2> QED BY <2>1, <2>2, TailProps
<1> QED BY <1>2, <1>3 DEF Labels

LEMMA OutputsAppend ==
  ASSUME NEW q \in Seq(Message), NEW j \in Nat, Outputs(q, j)
  PROVE  Outputs(Append(q, ServerOutput(j + Len(q))), j)
<1> DEFINE m == ServerOutput(j + Len(q))
<1>1. Len(q) \in Nat
  OBVIOUS
<1>2. m \in Message
  BY <1>1, ServerOutputType
<1> HIDE DEF m
<1> SUFFICES ASSUME NEW i \in 1 .. Len(q) + 1
             PROVE  Append(q, m)[i] = ServerOutput(j + i - 1)
  BY <1>1, <1>2, AppendProps DEF Outputs, m
<1>3. CASE i = Len(q) + 1
  <2>1. j + i - 1 = j + Len(q)
    BY <1>1, <1>3
  <2> QED BY <1>2, <1>3, <2>1, AppendProps DEF m
<1>4. CASE i # Len(q) + 1
  <2>1. i \in 1 .. Len(q)
    BY <1>1, <1>4
  <2> QED BY <1>2, <2>1, AppendProps DEF Outputs
<1> QED BY <1>3, <1>4

LEMMA OutputsTail ==
  ASSUME NEW q \in Seq(Message), NEW j \in Nat, Outputs(q, j), q # << >>
  PROVE  Outputs(Tail(q), j + 1) /\ Head(q) = ServerOutput(j)
<1>1. Len(q) \in Nat \ {0}
  BY TailProps
<1>2. ASSUME NEW i \in 1 .. Len(Tail(q))
      PROVE  Tail(q)[i] = ServerOutput((j + 1) + i - 1)
  <2>1. i + 1 \in 1 .. Len(q) /\ j + (i + 1) - 1 = (j + 1) + i - 1
    BY <1>1, TailProps
  <2>2. q[i + 1] = ServerOutput(j + (i + 1) - 1)
    BY <2>1 DEF Outputs
  <2> QED BY <2>1, <2>2, TailProps
<1>3. Head(q) = ServerOutput(j)
  <2>1. 1 \in 1 .. Len(q) /\ j + 1 - 1 = j
    BY <1>1
  <2>2. q[1] = ServerOutput(j + 1 - 1)
    BY <2>1 DEF Outputs
  <2> QED BY <2>1, <2>2, TailProps
<1> QED BY <1>2, <1>3 DEF Outputs

LEMMA NothingQueued ==
  \A n, j : Labels(<< >>, n, j) /\ Outputs(<< >>, j)
BY DEF Labels, Outputs

----------------------------------------------------------------------------
(* What one socket operator changes: one queue of one client.               *)

LEMMA ReadClientEffect ==
  ASSUME TypeOK, NEW p \in Party, NEW c \in Client, ttp[p] = c, ReadClient(p)
  PROVE  /\ up[p][c] # << >>
         /\ up'[p][c] = Tail(up[p][c])
         /\ \A q \in Party, d \in Client : q # p \/ d # c => up'[q][d] = up[q][d]
BY DEF TypeOK, ReadClient, FromClient

LEMMA ToClientEffect ==
  ASSUME TypeOK, NEW p \in Party, NEW c \in Client, ttp[p] = c, NEW m, ToClient(p, m)
  PROVE  /\ down'[p][c] = IF Ended(c) THEN down[p][c] ELSE Append(down[p][c], m)
         /\ \A q \in Party, d \in Client : q # p \/ d # c => down'[q][d] = down[q][d]
BY DEF TypeOK, ToClient

LEMMA ReadPartyEffect ==
  ASSUME TypeOK, NEW p \in Party, NEW c \in Client, ReadParty(c, p)
  PROVE  /\ down[p][c] # << >>
         /\ down'[p][c] = Tail(down[p][c])
         /\ \A q \in Party, d \in Client : q # p \/ d # c => down'[q][d] = down[q][d]
BY DEF TypeOK, ReadParty

LEMMA ToPartyEffect ==
  ASSUME TypeOK, NEW p \in Party, NEW c \in Client, NEW m, ToParty(c, p, m)
  PROVE  /\ up'[p][c] = IF ttp[p] = c THEN Append(up[p][c], m) ELSE up[p][c]
         /\ \A q \in Party, d \in Client : q # p \/ d # c => up'[q][d] = up[q][d]
BY DEF TypeOK, ToParty

LEMMA CloseEffect ==
  ASSUME TypeOK, NEW p \in Party, NEW c \in Client, ttp[p] = c, NEW s, Close(p, s)
  PROVE  /\ pc'[p] = s /\ ttp'[p] = None /\ numPts'[p] = 0 /\ k'[p] = 0 /\ ready'[p] = FALSE
         /\ up'[p][c] = << >>
         /\ \A q \in Party, d \in Client : q # p \/ d # c => up'[q][d] = up[q][d]
         /\ \A q \in Party : q # p =>
              /\ pc'[q] = pc[q] /\ ttp'[q] = ttp[q] /\ numPts'[q] = numPts[q]
              /\ k'[q] = k[q] /\ ready'[q] = ready[q]
<1>1. c # None
  BY SessionAssumption
<1> QED BY <1>1 DEF TypeOK, Close

----------------------------------------------------------------------------
(* What a step leaves alone.                                                *)

SamePlace(p) == pc'[p] = pc[p] /\ ttp'[p] = ttp[p] /\ k'[p] = k[p]
SameParty(p) == SamePlace(p) /\ numPts'[p] = numPts[p] /\ ready'[p] = ready[p]
SameQueues(p, c) == up'[p][c] = up[p][c] /\ down'[p][c] = down[p][c]
SameScript(c) == cpc'[c] = cpc[c] /\ ck'[c] = ck[c]

LEMMA AliceFrame ==
  ASSUME NEW c \in Client, AliceSide(c), SameScript(c), SameQueues(ALICE, c),
         ttp'[ALICE] = c => SamePlace(ALICE)
  PROVE  AliceSide(c)'
BY DEF AliceSide, AliceDown, AliceUp, AliceLink, Sent, Got, Given, Pose, Starting,
       SameScript, SameQueues, SamePlace

LEMMA BobFrame ==
  ASSUME NEW c \in Client, BobSide(c), SameScript(c), SameQueues(BOB, c),
         ttp'[BOB] = c => SamePlace(BOB)
  PROVE  BobSide(c)'
BY DEF BobSide, BobDown, BobUp, BobLink, Got, Given, Pose, Serving,
       SameScript, SameQueues, SamePlace

LEMMA PlaceFrame ==
  ASSUME TypeOK, HoldsClient, NEW p \in Party, Place(p), SameParty(p),
         ttp[p] \in Client /\ FromClient(p) # << >> => FromClient(p)' # << >>
  PROVE  Place(p)'
<1>1. pc[p] \in {"poll", "numPts"} => ttp[p] \in Client
  BY DEF TypeOK, HoldsClient, Serving
<1> QED BY <1>1 DEF Place, SameParty, SamePlace, Serving

(* A step of party p, which holds client c before and after it.             *)
LEMMA HoldingStep ==
  ASSUME TypeOK, HoldsClient, QueueInv, NEW p \in Party, NEW c \in Client,
         ttp[p] = c, ttp'[p] = c, cpc' = cpc, ck' = ck,
         \A q \in Party : q # p => SameParty(q),
         \A q \in Party, d \in Client : q # p \/ d # c => SameQueues(q, d),
         Place(p)',
         p = ALICE => AliceSide(c)',
         p = BOB => BobSide(c)'
  PROVE  QueueInv'
<1>1. \A d \in Client : SameScript(d)
  BY DEF SameScript
<1>2. \A q \in Party : ttp'[q] = ttp[q]
  BY DEF SameParty, SamePlace
<1>3. ASSUME NEW q \in Party PROVE Place(q)'
  <2>1. CASE q # p
    <3>1. SameParty(q) /\ Place(q)
      BY <2>1 DEF QueueInv
    <3>2. ttp[q] \in Client => FromClient(q)' = FromClient(q)
      BY <1>2, <2>1 DEF SameQueues, FromClient
    <3> QED BY <3>1, <3>2, PlaceFrame
  <2> QED BY <2>1
<1>4. ASSUME NEW d \in Client
      PROVE  Counter(d)' /\ Closed(d)' /\ AliceSide(d)' /\ BobSide(d)'
  <2>1. Counter(d) /\ Closed(d) /\ AliceSide(d) /\ BobSide(d) /\ SameScript(d)
    BY <1>1 DEF QueueInv
  <2>2. Counter(d)'
    BY <2>1 DEF Counter, Pose, SameScript
  <2>3. Closed(d)'
    BY <1>2, <2>1 DEF Closed, SameQueues
  <2>4. AliceSide(d)'
    <3>1. CASE p = ALICE /\ d = c
      BY <3>1
    <3>2. CASE p # ALICE \/ d # c
      BY <2>1, <3>2, AliceFrame DEF SameParty
    <3> QED BY <3>1, <3>2
  <2>5. BobSide(d)'
    <3>1. CASE p = BOB /\ d = c
      BY <3>1
    <3>2. CASE p # BOB \/ d # c
      BY <2>1, <3>2, BobFrame DEF SameParty
    <3> QED BY <3>1, <3>2
  <2> QED BY <2>2, <2>3, <2>4, <2>5
<1> QED BY <1>3, <1>4 DEF QueueInv

(* A step of client c, which moves no party.                                *)
LEMMA ClientOnlyStep ==
  ASSUME TypeOK, HoldsClient, QueueInv, NEW c \in Client,
         pc' = pc, ttp' = ttp, numPts' = numPts, k' = k, ready' = ready,
         \A d \in Client : d # c => SameScript(d),
         \A q \in Party, d \in Client : d # c => SameQueues(q, d),
         \A q \in Party : up[q][c] # << >> => up'[q][c] # << >>,
         \A q \in Party : ttp[q] # c => up'[q][c] = up[q][c],
         Counter(c)', AliceSide(c)', BobSide(c)'
  PROVE  QueueInv'
<1>1. \A q \in Party : SameParty(q)
  BY DEF SameParty, SamePlace
<1>2. ASSUME NEW q \in Party PROVE Place(q)'
  <2>1. ttp[q] \in Client /\ FromClient(q) # << >> => FromClient(q)' # << >>
    BY DEF SameQueues, FromClient
  <2> QED BY <1>1, <2>1, PlaceFrame DEF QueueInv
<1>3. ASSUME NEW d \in Client
      PROVE  Counter(d)' /\ Closed(d)' /\ AliceSide(d)' /\ BobSide(d)'
  <2>1. Counter(d) /\ Closed(d) /\ AliceSide(d) /\ BobSide(d)
    BY DEF QueueInv
  <2>2. Closed(d)'
    BY <2>1 DEF Closed, SameQueues
  <2>3. CASE d = c
    BY <2>2, <2>3
  <2>4. CASE d # c
    <3>1. SameScript(d) /\ SameQueues(ALICE, d) /\ SameQueues(BOB, d)
      BY <2>4
    <3>2. Counter(d)'
      BY <2>1, <3>1 DEF Counter, Pose, SameScript
    <3> QED BY <1>1, <2>1, <2>2, <3>1, <3>2, AliceFrame, BobFrame DEF SameParty
  <2> QED BY <2>3, <2>4
<1> QED BY <1>2, <1>3 DEF QueueInv

----------------------------------------------------------------------------
(* Steps both parties take.                                                 *)

LEMMA Holder ==
  ASSUME TypeOK, HoldsClient, NEW p \in Party, pc[p] \in Working
  PROVE  ttp[p] \in Client
BY DEF TypeOK, HoldsClient, Working

LEMMA PollStep ==
  ASSUME TypeOK, HoldsClient, QueueInv, NEW p \in Party, Poll(p)
  PROVE  QueueInv'
<1>1. PICK c \in Client : ttp[p] = c
  BY Holder DEF Poll, Working
<1>2. /\ pc[p] = "poll"
      /\ ready' = [ready EXCEPT ![p] = FromClient(p) # << >>]
      /\ pc' = pc /\ ttp' = ttp /\ numPts' = numPts /\ k' = k
      /\ cpc' = cpc /\ ck' = ck /\ up' = up /\ down' = down
  BY DEF Poll
<1>3. \A q \in Party : SamePlace(q) /\ (q # p => SameParty(q))
  BY <1>2 DEF SamePlace, SameParty, TypeOK
<1>4. \A q \in Party, d \in Client : SameQueues(q, d) /\ SameScript(d)
  BY <1>2 DEF SameQueues, SameScript
<1>5. Place(p)'
  BY <1>2 DEF QueueInv, Place, FromClient, Serving, TypeOK
<1>6. AliceSide(c)' /\ BobSide(c)'
  BY <1>3, <1>4, AliceFrame, BobFrame DEF QueueInv
<1> QED BY <1>1, <1>2, <1>3, <1>4, <1>5, <1>6, HoldingStep

(* Data waits, so the client has asked: it is not between two requests.     *)
LEMMA ServeStep ==
  ASSUME TypeOK, HoldsClient, QueueInv, NEW p \in Party, Serve(p)
  PROVE  QueueInv'
<1>1. PICK c \in Client : ttp[p] = c
  BY Holder DEF Serve, Working
<1>2. /\ pc[p] = "poll" /\ pc'[p] = "numPts"
      /\ ready'[p] = FALSE /\ ready[p]
      /\ ttp' = ttp /\ numPts' = numPts /\ k' = k
      /\ cpc' = cpc /\ ck' = ck /\ up' = up /\ down' = down
  BY DEF Serve, TypeOK
<1>3. \A q \in Party : q # p => SameParty(q)
  BY DEF Serve, SamePlace, SameParty, TypeOK
<1>4. \A q \in Party, d \in Client : SameQueues(q, d) /\ SameScript(d)
  BY <1>2 DEF SameQueues, SameScript
<1>5. up[p][c] # << >>
  BY <1>1, <1>2 DEF QueueInv, Place, FromClient
<1>6. Place(p)'
  BY <1>1, <1>2, <1>5 DEF QueueInv, Place, FromClient, Serving
<1>7. ASSUME p = ALICE PROVE AliceSide(c)'
  <2>1. AliceDown(c) /\ AliceUp(c) /\ AliceLink(c)
    BY <1>1, <1>7 DEF QueueInv, AliceSide
  <2>2. AliceDown(c)'
    BY <1>2, <2>1 DEF AliceDown, Given, Got, Pose
  <2>3. AliceUp(c)'
    BY <1>2, <1>7, <2>1 DEF AliceUp
  <2>4. AliceLink(c)'
    BY <1>2, <1>5, <1>7, <2>1 DEF AliceLink, Given, Got, Sent, Pose, Starting
  <2> QED BY <2>2, <2>3, <2>4 DEF AliceSide
<1>8. ASSUME p = BOB PROVE BobSide(c)'
  <2>1. BobDown(c) /\ BobUp(c) /\ BobLink(c)
    BY <1>1, <1>8 DEF QueueInv, BobSide
  <2>2. BobDown(c)'
    BY <1>2, <2>1 DEF BobDown, Given, Got, Pose
  <2>3. BobUp(c)'
    BY <1>2, <1>8, <2>1 DEF BobUp, Serving
  <2>4. BobLink(c)'
    BY <1>2, <1>5, <1>8, <2>1 DEF BobLink, Given, Got, Pose
  <2> QED BY <2>2, <2>3, <2>4 DEF BobSide
<1> QED BY <1>1, <1>2, <1>3, <1>4, <1>6, <1>7, <1>8, HoldingStep

LEMMA RecvNumPtsStep ==
  ASSUME TypeOK, HoldsClient, QueueInv, NEW p \in Party, RecvNumPts(p)
  PROVE  QueueInv'
<1>1. PICK c \in Client : ttp[p] = c
  BY Holder DEF RecvNumPts, Working, Serving
<1>2. /\ pc[p] = "numPts" /\ pc'[p] = "setup"
      /\ numPts'[p] = Head(up[p][c]).i
      /\ ttp' = ttp /\ ready' = ready /\ k' = k
      /\ cpc' = cpc /\ ck' = ck /\ down' = down
  BY <1>1 DEF RecvNumPts, TypeOK, FromClient
<1>3. \A q \in Party : q # p => SameParty(q)
  BY DEF RecvNumPts, SamePlace, SameParty, TypeOK
<1>4. /\ up[p][c] # << >> /\ up'[p][c] = Tail(up[p][c])
      /\ \A q \in Party, d \in Client : q # p \/ d # c => up'[q][d] = up[q][d]
  BY <1>1, ReadClientEffect DEF RecvNumPts
<1>5. \A q \in Party, d \in Client : q # p \/ d # c => SameQueues(q, d)
  BY <1>2, <1>4 DEF SameQueues
<1>6. N(c) \in Message /\ Seed \in Message /\ N(c).i = Points[c]
  BY LabelsAreMessages DEF N, Msg
<1>7. \/ up[p][c] = <<N(c)>> /\ up'[p][c] = << >> /\ Head(up[p][c]) = N(c)
      \/ p = BOB /\ up[p][c] = <<N(c), Seed>> /\ up'[p][c] = <<Seed>> /\ Head(up[p][c]) = N(c)
  <2>1. CASE p = ALICE
    <3>1. up[p][c] = <<N(c)>>
      BY <1>1, <1>2, <1>4, <2>1 DEF QueueInv, AliceSide, AliceUp
    <3> QED BY <1>4, <1>6, <3>1, OneQueued
  <2>2. CASE p = BOB
    <3>1. up[p][c] = <<N(c)>> \/ up[p][c] = <<N(c), Seed>>
      BY <1>1, <1>2, <1>4, <2>2 DEF QueueInv, BobSide, BobUp
    <3> QED BY <1>4, <1>6, <2>2, <3>1, OneQueued, TwoQueued
  <2> QED BY <2>1, <2>2
<1>8. Place(p)'
  BY <1>1, <1>2, <1>6, <1>7 DEF QueueInv, Place, Serving
<1>9. ASSUME p = ALICE PROVE AliceSide(c)'
  <2>1. AliceDown(c) /\ AliceUp(c) /\ AliceLink(c)
    BY <1>1, <1>9 DEF QueueInv, AliceSide
  <2>2. AliceDown(c)'
    BY <1>2, <2>1 DEF AliceDown, Given, Got, Pose
  <2>3. AliceUp(c)'
    BY <1>2, <1>7, <1>9 DEF AliceUp
  <2>4. AliceLink(c)'
    BY <1>2, <1>4, <1>9, <2>1 DEF AliceLink, Given, Got, Sent, Pose, Starting
  <2> QED BY <2>2, <2>3, <2>4 DEF AliceSide
<1>10. ASSUME p = BOB PROVE BobSide(c)'
  <2>1. BobDown(c) /\ BobUp(c) /\ BobLink(c)
    BY <1>1, <1>10 DEF QueueInv, BobSide
  <2>2. BobDown(c)'
    BY <1>2, <2>1 DEF BobDown, Given, Got, Pose
  <2>3. BobUp(c)'
    BY <1>2, <1>7, <1>10 DEF BobUp, Serving
  <2>4. <<N(c)>> # <<N(c), Seed>>
    BY <1>6, TwoQueued
  <2>5. BobLink(c)'
    BY <1>2, <1>4, <1>7, <1>10, <2>1, <2>4 DEF BobLink, Given, Got, Pose
  <2> QED BY <2>2, <2>3, <2>5 DEF BobSide
<1> QED BY <1>1, <1>2, <1>3, <1>5, <1>8, <1>9, <1>10, HoldingStep

LEMMA HandshakeStep ==
  ASSUME TypeOK, HoldsClient, QueueInv, NEW p \in Party, Handshake(p)
  PROVE  QueueInv'
<1>1. PICK c \in Client : ttp[p] = c
  BY Holder DEF Handshake, Working, Serving
<1>2. /\ pc[p] = "handshake" /\ pc'[p] = "input"
      /\ ttp' = ttp /\ numPts' = numPts /\ ready' = ready /\ k' = k
      /\ cpc' = cpc /\ ck' = ck /\ up' = up /\ down' = down
  BY DEF Handshake, TypeOK
<1>3. \A q \in Party : q # p => SameParty(q)
  BY DEF Handshake, SamePlace, SameParty, TypeOK
<1>4. \A q \in Party, d \in Client : SameQueues(q, d)
  BY <1>2 DEF SameQueues
<1>5. Place(p)'
  BY <1>2 DEF QueueInv, Place, Serving
<1>6. ASSUME p = ALICE PROVE AliceSide(c)'
  <2>1. AliceDown(c) /\ AliceUp(c) /\ AliceLink(c)
    BY <1>1, <1>6 DEF QueueInv, AliceSide
  <2>2. AliceDown(c)'
    BY <1>2, <2>1 DEF AliceDown, Given, Got, Pose
  <2>3. AliceUp(c)'
    BY <1>2, <1>6, <2>1 DEF AliceUp
  <2>4. AliceLink(c)'
    BY <1>2, <1>6, <2>1 DEF AliceLink, Given, Got, Sent, Pose, Starting
  <2> QED BY <2>2, <2>3, <2>4 DEF AliceSide
<1>7. ASSUME p = BOB PROVE BobSide(c)'
  <2>1. BobDown(c) /\ BobUp(c) /\ BobLink(c)
    BY <1>1, <1>7 DEF QueueInv, BobSide
  <2>2. BobDown(c)'
    BY <1>2, <2>1 DEF BobDown, Given, Got, Pose
  <2>3. BobUp(c)'
    BY <1>2, <1>7, <2>1 DEF BobUp, Serving
  <2>4. BobLink(c)'
    BY <1>2, <1>7, <2>1 DEF BobLink, Given, Got, Pose
  <2> QED BY <2>2, <2>3, <2>4 DEF BobSide
<1> QED BY <1>1, <1>2, <1>3, <1>4, <1>5, <1>6, <1>7, HoldingStep

(* The client of a party that reveals its k-th output has been given k.     *)
LEMMA RevealStep ==
  ASSUME TypeOK, HoldsClient, QueueInv, NEW p \in Party, Reveal(p)
  PROVE  QueueInv'
<1>1. PICK c \in Client : ttp[p] = c
  BY Holder DEF Reveal, Working, Serving
<1>2. /\ pc[p] = "reveal" /\ k[p] \in Nat /\ k[p] < ServerOutputs
      /\ ttp' = ttp /\ ready' = ready
      /\ cpc' = cpc /\ ck' = ck /\ up' = up
  BY DEF Reveal, TypeOK, QueueInv, Place
<1>3. \/ k[p] + 1 = ServerOutputs /\ pc'[p] = "poll" /\ k'[p] = 0 /\ numPts'[p] = 0
      \/ /\ k[p] + 1 < ServerOutputs /\ pc'[p] = "reveal" /\ k'[p] = k[p] + 1
         /\ numPts'[p] = numPts[p]
  <2>1. CASE k[p] + 1 = ServerOutputs
    <3>1. /\ pc' = [pc EXCEPT ![p] = "poll"]
          /\ k' = [k EXCEPT ![p] = 0]
          /\ numPts' = [numPts EXCEPT ![p] = 0]
      BY <2>1 DEF Reveal
    <3> QED BY <2>1, <3>1 DEF TypeOK
  <2>2. CASE k[p] + 1 # ServerOutputs
    <3>1. k' = [k EXCEPT ![p] = @ + 1] /\ pc' = pc /\ numPts' = numPts
      BY <2>2 DEF Reveal
    <3>2. k[p] + 1 < ServerOutputs
      BY <1>2, <2>2 DEF ServerOutputs
    <3> QED BY <1>2, <3>1, <3>2 DEF TypeOK
  <2> QED BY <2>1, <2>2
<1>4. \A q \in Party : q # p => SameParty(q)
  BY DEF Reveal, SamePlace, SameParty, TypeOK
<1>5. /\ down'[p][c] = IF Ended(c) THEN down[p][c] ELSE Append(down[p][c], ServerOutput(k[p]))
      /\ \A q \in Party, d \in Client : q # p \/ d # c => down'[q][d] = down[q][d]
  BY <1>1, ToClientEffect DEF Reveal
<1>6. \A q \in Party, d \in Client : q # p \/ d # c => SameQueues(q, d)
  BY <1>2, <1>5 DEF SameQueues
<1>7. Place(p)'
  BY <1>1, <1>2, <1>3 DEF QueueInv, Place, FromClient, Serving
<1>8. down[p][c] \in Seq(Message) /\ ServerOutput(k[p]) \in Message /\ ck[c] \in Nat
  BY <1>2, ServerOutputType DEF TypeOK
<1>9. ~Ended(c) => Len(down'[p][c]) = Len(down[p][c]) + 1 /\ Len(down[p][c]) \in Nat
  BY <1>5, <1>8, AppendProps
<1>10. ASSUME p = ALICE PROVE AliceSide(c)'
  <2>1. AliceDown(c) /\ AliceUp(c) /\ AliceLink(c)
    BY <1>1, <1>10 DEF QueueInv, AliceSide
  <2>2. ServerOutputs = ClientOutputs /\ ~NeedsLambda
    BY <1>2, <1>10 DEF QueueInv, Place, ServerOutputs, ClientOutputs
  <2>3. AliceUp(c)'
    BY <1>2, <1>3, <1>10, <2>1 DEF AliceUp
  <2>4. CASE Ended(c)
    <3>1. AliceDown(c)'
      BY <1>2, <1>5, <1>10, <2>1, <2>4 DEF AliceDown, Given, Got, Pose, Ended
    <3>2. AliceLink(c)'
      BY <1>2, <2>4 DEF AliceLink, Pose, Starting, Ended
    <3> QED BY <2>3, <3>1, <3>2 DEF AliceSide
  <2>5. CASE ~Ended(c)
    <3>1. cpc[c] \in ClientPlace
      BY DEF TypeOK
    <3>2. cpc[c] \in Pose /\ Given(ALICE, c) = k[ALICE]
      BY <1>2, <1>10, <2>1, <2>5, <3>1 DEF AliceLink, Ended, ClientPlace, Starting, Pose
    <3>3. Got(ALICE, c) \in Nat /\ Got(ALICE, c)' = Got(ALICE, c)
      BY <1>2, <1>8 DEF Got
    <3>4. Given(ALICE, c)' = k[ALICE] + 1
      BY <1>9, <1>10, <2>5, <3>2, <3>3 DEF Given
    <3>5. down'[ALICE][c] = Append(down[ALICE][c], ServerOutput(Got(ALICE, c) + Len(down[ALICE][c])))
      BY <1>5, <1>10, <2>5, <3>2 DEF Given
    <3>6. Outputs(down[ALICE][c], Got(ALICE, c))
      BY <2>1, <3>2 DEF AliceDown
    <3>7. Outputs(down[ALICE][c], Got(ALICE, c))'
      BY <1>8, <1>10, <3>3, <3>5, <3>6, OutputsAppend
    <3>8. AliceDown(c)'
      BY <1>2, <1>10, <2>2, <3>2, <3>4, <3>7 DEF AliceDown, Pose, ClientOutputs
    <3>9. AliceLink(c)'
      BY <1>2, <1>3, <1>10, <2>1, <2>2, <3>2, <3>4
      DEF AliceLink, AliceUp, Pose, Starting, ClientOutputs
    <3> QED BY <2>3, <3>8, <3>9 DEF AliceSide
  <2> QED BY <2>4, <2>5
<1>11. ASSUME p = BOB PROVE BobSide(c)'
  <2>1. BobDown(c) /\ BobUp(c) /\ BobLink(c)
    BY <1>1, <1>11 DEF QueueInv, BobSide
  <2>3. BobUp(c)'
    BY <1>2, <1>3, <1>11, <2>1 DEF BobUp, Serving
  <2>4. CASE Ended(c)
    <3>1. BobDown(c)'
      BY <1>2, <1>5, <1>11, <2>1, <2>4 DEF BobDown, Given, Got, Pose, Ended
    <3>2. BobLink(c)'
      BY <1>2, <2>4 DEF BobLink, Pose, Ended
    <3> QED BY <2>3, <3>1, <3>2 DEF BobSide
  <2>5. CASE ~Ended(c)
    <3>1. cpc[c] \in ClientPlace
      BY DEF TypeOK
    <3>2. cpc[c] \in {"labels"} \cup Pose /\ Given(BOB, c) = k[BOB]
      BY <1>2, <1>11, <2>1, <2>5, <3>1 DEF BobLink, Ended, ClientPlace, Pose
    <3>3. Got(BOB, c) \in Nat /\ Got(BOB, c)' = Got(BOB, c)
      BY <1>2, <1>8 DEF Got
    <3>4. Given(BOB, c)' = k[BOB] + 1
      BY <1>9, <1>11, <2>5, <3>2, <3>3 DEF Given
    <3>5. down'[BOB][c] = Append(down[BOB][c], ServerOutput(Got(BOB, c) + Len(down[BOB][c])))
      BY <1>5, <1>11, <2>5, <3>2 DEF Given
    <3>6. Outputs(down[BOB][c], Got(BOB, c))
      BY <2>1, <3>2 DEF BobDown
    <3>7. Outputs(down[BOB][c], Got(BOB, c))'
      BY <1>8, <1>11, <3>3, <3>5, <3>6, OutputsAppend
    <3>8. ServerOutputs \in Nat
      BY DEF ServerOutputs
    <3>9. BobDown(c)'
      BY <1>2, <1>11, <3>2, <3>4, <3>7, <3>8 DEF BobDown, Pose
    <3>10. BobLink(c)'
      BY <1>2, <1>3, <1>11, <2>1, <3>2, <3>4, <3>8 DEF BobLink, BobUp, Pose, Serving
    <3> QED BY <2>3, <3>9, <3>10 DEF BobSide
  <2> QED BY <2>4, <2>5
<1> QED BY <1>1, <1>2, <1>4, <1>6, <1>7, <1>10, <1>11, HoldingStep

(* A party that restarts or exits discards what it had not read.            *)
LEMMA CloseQueueStep ==
  ASSUME TypeOK, HoldsClient, QueueInv, NEW p \in Party, NEW s \in {"io", "exited"},
         pc[p] \in Working, Close(p, s), UNCHANGED <<cpc, ck, down>>
  PROVE  QueueInv'
<1>1. PICK c \in Client : ttp[p] = c
  BY Holder
<1>2. /\ pc'[p] = s /\ ttp'[p] = None /\ numPts'[p] = 0 /\ k'[p] = 0 /\ ready'[p] = FALSE
      /\ up'[p][c] = << >>
      /\ \A q \in Party, d \in Client : q # p \/ d # c => up'[q][d] = up[q][d]
      /\ \A q \in Party : q # p => SameParty(q)
  BY <1>1, CloseEffect DEF SameParty, SamePlace
<1>3. \A q \in Party, d \in Client : q # p \/ d # c => SameQueues(q, d)
  BY <1>2 DEF SameQueues
<1>4. \A d \in Client : SameScript(d) /\ d # None
  BY SessionAssumption DEF SameScript
<1>5. ASSUME NEW q \in Party PROVE Place(q)'
  <2>1. CASE q = p
    BY <1>2, <2>1 DEF Place, Serving
  <2>2. CASE q # p
    <3>1. ttp[q] \in Client => FromClient(q)' = FromClient(q)
      BY <1>2, <2>2 DEF FromClient, SameParty, SamePlace
    <3> QED BY <1>2, <2>2, <3>1, PlaceFrame DEF QueueInv
  <2> QED BY <2>1, <2>2
<1>6. ASSUME NEW d \in Client
      PROVE  Counter(d)' /\ Closed(d)' /\ AliceSide(d)' /\ BobSide(d)'
  <2>1. Counter(d) /\ Closed(d) /\ AliceSide(d) /\ BobSide(d) /\ SameScript(d)
    BY <1>4 DEF QueueInv
  <2>2. Counter(d)'
    BY <2>1 DEF Counter, Pose, SameScript
  <2>3. Closed(d)'
    BY <1>1, <1>2, <2>1 DEF Closed, SameParty, SamePlace
  <2>4. AliceSide(d)'
    <3>1. CASE p = ALICE
      <4>1. AliceDown(d)'
        BY <2>1 DEF AliceSide, AliceDown, Given, Got, Pose, SameScript
      <4> QED BY <1>2, <1>4, <3>1, <4>1 DEF AliceSide
    <3>2. CASE p # ALICE
      BY <1>2, <1>3, <2>1, <3>2, AliceFrame DEF SameParty
    <3> QED BY <3>1, <3>2
  <2>5. BobSide(d)'
    <3>1. CASE p = BOB
      <4>1. BobDown(d)'
        BY <2>1 DEF BobSide, BobDown, Given, Got, Pose, SameScript
      <4> QED BY <1>2, <1>4, <3>1, <4>1 DEF BobSide
    <3>2. CASE p # BOB
      BY <1>2, <1>3, <2>1, <3>2, BobFrame DEF SameParty
    <3> QED BY <3>1, <3>2
  <2> QED BY <2>2, <2>3, <2>4, <2>5
<1> QED BY <1>5, <1>6 DEF QueueInv

----------------------------------------------------------------------------
(* Steps of one party.                                                      *)

LEMMA SetupAliceStep ==
  ASSUME TypeOK, HoldsClient, QueueInv, SetupAlice
  PROVE  QueueInv'
<1>1. PICK c \in Client : ttp[ALICE] = c
  BY Holder DEF SetupAlice, Working, Serving
<1>2. /\ pc[ALICE] = "setup" /\ pc'[ALICE] = "handshake"
      /\ ttp' = ttp /\ numPts' = numPts /\ ready' = ready /\ k' = k
      /\ cpc' = cpc /\ ck' = ck /\ up' = up
  BY DEF SetupAlice, TypeOK
<1>3. \A q \in Party : q # ALICE => SameParty(q)
  BY DEF SetupAlice, SamePlace, SameParty, TypeOK
<1>4. /\ down'[ALICE][c] = IF Ended(c) THEN down[ALICE][c] ELSE Append(down[ALICE][c], Delta)
      /\ \A q \in Party, d \in Client : q # ALICE \/ d # c => down'[q][d] = down[q][d]
  BY <1>1, ToClientEffect DEF SetupAlice, Delta
<1>5. \A q \in Party, d \in Client : q # ALICE \/ d # c => SameQueues(q, d)
  BY <1>2, <1>4 DEF SameQueues
<1>6. Place(ALICE)'
  BY <1>1, <1>2 DEF QueueInv, Place, Serving
<1>7. AliceDown(c) /\ AliceUp(c) /\ AliceLink(c)
  BY <1>1 DEF QueueInv, AliceSide
<1>8. k[ALICE] = 0 /\ up[ALICE][c] = << >>
  BY <1>2, <1>7 DEF QueueInv, Place, AliceUp
<1>9. AliceUp(c)'
  <2>1. Len(<< >>) = 0 /\ ClientLabels(Points[c]) >= 0
    BY SessionAssumption DEF ClientLabels
  <2> QED BY <1>2, <1>8, <2>1, NothingQueued DEF AliceUp
<1>10. AliceDown(c)' /\ AliceLink(c)'
  <2>1. CASE Ended(c)
    <3>1. AliceDown(c)'
      BY <1>2, <1>4, <1>7, <2>1 DEF AliceDown, Given, Got, Pose, Ended
    <3>2. AliceLink(c)'
      BY <1>2, <2>1 DEF AliceLink, Pose, Starting, Ended
    <3> QED BY <3>1, <3>2
  <2>2. CASE ~Ended(c)
    <3>1. cpc[c] \in ClientPlace
      BY DEF TypeOK
    <3>2. cpc[c] \in {"ptsBob", "delta"} /\ down[ALICE][c] = << >>
      BY <1>2, <1>7, <2>2, <3>1 DEF AliceLink, Ended, ClientPlace, Starting, Pose
    <3>3. down'[ALICE][c] = <<Delta>>
      BY <1>4, <2>2, <3>2, LabelsAreMessages, OneQueued
    <3>4. AliceDown(c)'
      BY <1>2, <3>2, <3>3 DEF AliceDown, Pose
    <3>5. AliceLink(c)'
      BY <1>2, <1>8, <3>2 DEF AliceLink, Pose, Starting
    <3> QED BY <3>4, <3>5
  <2> QED BY <2>1, <2>2
<1> QED BY <1>1, <1>2, <1>3, <1>5, <1>6, <1>9, <1>10, HoldingStep DEF AliceSide

LEMMA SetupBobStep ==
  ASSUME TypeOK, HoldsClient, QueueInv, SetupBob
  PROVE  QueueInv'
<1>1. PICK c \in Client : ttp[BOB] = c
  BY Holder DEF SetupBob, Working, Serving
<1>2. /\ pc[BOB] = "setup" /\ pc'[BOB] = "handshake"
      /\ ttp' = ttp /\ numPts' = numPts /\ ready' = ready /\ k' = k
      /\ cpc' = cpc /\ ck' = ck /\ down' = down
  BY DEF SetupBob, TypeOK
<1>3. \A q \in Party : q # BOB => SameParty(q)
  BY DEF SetupBob, SamePlace, SameParty, TypeOK
<1>4. /\ up[BOB][c] # << >> /\ up'[BOB][c] = Tail(up[BOB][c])
      /\ \A q \in Party, d \in Client : q # BOB \/ d # c => up'[q][d] = up[q][d]
  BY <1>1, ReadClientEffect DEF SetupBob
<1>5. \A q \in Party, d \in Client : q # BOB \/ d # c => SameQueues(q, d)
  BY <1>2, <1>4 DEF SameQueues
<1>6. Place(BOB)'
  BY <1>1, <1>2 DEF QueueInv, Place, Serving
<1>7. BobDown(c) /\ BobUp(c) /\ BobLink(c)
  BY <1>1 DEF QueueInv, BobSide
<1>8. up'[BOB][c] = << >>
  <2>1. up[BOB][c] = <<Seed>>
    BY <1>2, <1>4, <1>7 DEF BobUp
  <2> QED BY <1>4, <2>1, LabelsAreMessages, OneQueued
<1>9. BobDown(c)'
  BY <1>2, <1>7 DEF BobDown, Given, Got, Pose
<1>10. BobUp(c)'
  BY <1>2, <1>8 DEF BobUp, Serving
<1>11. BobLink(c)'
  BY <1>2, <1>4, <1>7 DEF BobLink, Given, Got, Pose
<1> QED BY <1>1, <1>2, <1>3, <1>5, <1>6, <1>9, <1>10, <1>11, HoldingStep DEF BobSide

(* ALICE takes the label of her next input.  After the last one the client  *)
(* has sent all it has; with a lambda to read she never gets there.         *)
LEMMA InputAliceStep ==
  ASSUME TypeOK, HoldsClient, QueueInv, InputAlice
  PROVE  QueueInv'
<1>1. PICK c \in Client : ttp[ALICE] = c
  BY Holder DEF InputAlice, Working, Serving
<1>2. /\ pc[ALICE] = "input" /\ k[ALICE] \in Nat /\ numPts[ALICE] = Points[c]
      /\ ttp' = ttp /\ numPts' = numPts /\ ready' = ready
      /\ cpc' = cpc /\ ck' = ck /\ down' = down
  BY <1>1 DEF InputAlice, TypeOK, QueueInv, Place, Serving
<1>3. \A q \in Party : q # ALICE => SameParty(q)
  BY DEF InputAlice, AfterRound, SamePlace, SameParty, TypeOK
<1>4. /\ up[ALICE][c] # << >> /\ up'[ALICE][c] = Tail(up[ALICE][c])
      /\ \A q \in Party, d \in Client : q # ALICE \/ d # c => up'[q][d] = up[q][d]
  BY <1>1, ReadClientEffect DEF InputAlice
<1>5. \A q \in Party, d \in Client : q # ALICE \/ d # c => SameQueues(q, d)
  BY <1>2, <1>4 DEF SameQueues
<1>6. AliceDown(c) /\ AliceUp(c) /\ AliceLink(c) /\ Counter(c) /\ Place(ALICE)
  BY <1>1 DEF QueueInv, AliceSide
<1>7. up[ALICE][c] \in Seq(Message) /\ up'[ALICE][c] \in Seq(Message)
  BY <1>4 DEF TypeOK
<1>8. /\ Len(up[ALICE][c]) \in Nat \ {0}
      /\ Len(up'[ALICE][c]) = Len(up[ALICE][c]) - 1
  BY <1>4, <1>7, TailProps
<1>9. /\ Labels(up[ALICE][c], Points[c], k[ALICE])
      /\ k[ALICE] + Len(up[ALICE][c]) <= ClientLabels(Points[c])
  BY <1>2, <1>6 DEF AliceUp
<1>10. Points[c] \in Nat \ {0} /\ ClientLabels(Points[c]) = 5 * Points[c] + 9
  BY SessionAssumption DEF ClientLabels
<1>11. AliceDown(c)'
  BY <1>2, <1>6 DEF AliceDown, Given, Got, Pose
<1>12. CASE k[ALICE] + 1 = ServerInputs(numPts[ALICE])
  <2>1. ~NeedsLambda /\ k[ALICE] + 1 = ClientLabels(Points[c])
    BY <1>2, <1>8, <1>9, <1>10, <1>12 DEF ServerInputs
  <2>2. Len(up[ALICE][c]) = 1 /\ up'[ALICE][c] = << >>
    <3> DEFINE a == k[ALICE]
               b == Len(up[ALICE][c])
               d == ClientLabels(Points[c])
    <3>1. a \in Nat /\ b \in Nat \ {0} /\ d \in Nat /\ a + 1 = d /\ a + b <= d
      BY <1>2, <1>8, <1>9, <1>10, <2>1
    <3> HIDE DEF a, b, d
    <3>2. b = 1
      BY <3>1
    <3> QED BY <1>7, <1>8, <3>2, EmptyLen DEF b
  <2>3. Rounds \in Nat \ {0}
    BY <2>1, SessionAssumption DEF Rounds, NeedsLambda, DO, LOOP_LEAK, SiSL, POWER_TESTING
  <2>4. pc'[ALICE] = "compute" /\ k'[ALICE] = 0
    BY <1>12, <2>3 DEF InputAlice, AfterRound, TypeOK
  <2>5. Place(ALICE)'
    BY <1>2, <1>6, <2>1, <2>4 DEF Place, Serving
  <2>6. AliceUp(c)'
    BY <2>2, <2>4 DEF AliceUp
  <2>7. AliceLink(c)'
    BY <1>2, <1>4, <1>6, <1>8, <1>10, <2>1, <2>2, <2>4
    DEF AliceLink, Counter, Given, Got, Sent, Pose, Starting
  <2> QED BY <1>1, <1>2, <1>3, <1>5, <1>11, <2>5, <2>6, <2>7, HoldingStep DEF AliceSide
<1>13. CASE k[ALICE] + 1 # ServerInputs(numPts[ALICE])
  <2>1. pc'[ALICE] = "input" /\ k'[ALICE] = k[ALICE] + 1
    BY <1>2, <1>13 DEF InputAlice, TypeOK
  <2>2. Place(ALICE)'
    BY <1>1, <1>2, <1>6, <2>1 DEF Place, Serving
  <2>3. AliceUp(c)'
    <3>1. Labels(up'[ALICE][c], Points[c], k'[ALICE])
      BY <1>2, <1>4, <1>7, <1>9, <1>10, <2>1, LabelsTail
    <3>2. k'[ALICE] + Len(up'[ALICE][c]) <= ClientLabels(Points[c])
      BY <1>2, <1>8, <1>9, <1>10, <2>1
    <3> QED BY <2>1, <3>1, <3>2 DEF AliceUp
  <2>4. k'[ALICE] + Len(up'[ALICE][c]) = k[ALICE] + Len(up[ALICE][c])
    <3>1. \A a \in Nat, b \in Nat \ {0} : (a + 1) + (b - 1) = a + b
      OBVIOUS
    <3> QED BY <1>2, <1>8, <2>1, <3>1
  <2>5. AliceLink(c)'
    BY <1>2, <1>4, <1>6, <2>1, <2>4 DEF AliceLink, Given, Got, Sent, Pose, Starting
  <2> QED BY <1>1, <1>2, <1>3, <1>5, <1>11, <2>2, <2>3, <2>5, HoldingStep DEF AliceSide
<1> QED BY <1>12, <1>13

LEMMA AfterRoundEffect ==
  ASSUME TypeOK, NEW p \in Party, NEW i, AfterRound(p, i)
  PROVE  /\ pc'[p] = "compute" \/ (pc'[p] = "reveal" /\ k'[p] = 0)
         /\ \A q \in Party : q # p => pc'[q] = pc[q] /\ k'[q] = k[q]
BY DEF TypeOK, AfterRound

(* No party touches its client between the inputs and the outputs.          *)
LEMMA AliceComputesStep ==
  ASSUME TypeOK, HoldsClient, QueueInv,
         pc[ALICE] \in {"compute", "flag"},
         pc'[ALICE] \in {"compute", "flag"} \/ (pc'[ALICE] = "reveal" /\ k'[ALICE] = 0),
         pc'[BOB] = pc[BOB], k'[BOB] = k[BOB],
         UNCHANGED <<ttp, ready, numPts, cpc, ck, up, down>>
  PROVE  QueueInv'
<1>1. PICK c \in Client : ttp[ALICE] = c
  BY Holder DEF Working, Serving
<1>2. \A q \in Party, d \in Client : SameQueues(q, d)
  BY DEF SameQueues
<1>3. SameParty(BOB)
  BY DEF SameParty, SamePlace
<1>4. AliceDown(c) /\ AliceUp(c) /\ AliceLink(c) /\ Place(ALICE)
  BY <1>1 DEF QueueInv, AliceSide
<1>5. Place(ALICE)'
  BY <1>4 DEF Place, Serving, ServerOutputs
<1>6. AliceDown(c)'
  BY <1>4 DEF AliceDown, Given, Got, Pose
<1>7. AliceUp(c)'
  BY <1>4 DEF AliceUp
<1>8. AliceLink(c)'
  BY <1>4 DEF AliceLink, Given, Got, Sent, Pose, Starting
<1> QED BY <1>1, <1>2, <1>3, <1>5, <1>6, <1>7, <1>8, HoldingStep DEF AliceSide

LEMMA BobComputesStep ==
  ASSUME TypeOK, HoldsClient, QueueInv,
         pc[BOB] \in {"input", "compute"},
         pc'[BOB] = "compute" \/ (pc'[BOB] = "reveal" /\ k'[BOB] = 0),
         pc'[ALICE] = pc[ALICE], k'[ALICE] = k[ALICE],
         UNCHANGED <<ttp, ready, numPts, cpc, ck, up, down>>
  PROVE  QueueInv'
<1>1. PICK c \in Client : ttp[BOB] = c
  BY Holder DEF Working, Serving
<1>2. \A q \in Party, d \in Client : SameQueues(q, d)
  BY DEF SameQueues
<1>3. SameParty(ALICE)
  BY DEF SameParty, SamePlace
<1>4. BobDown(c) /\ BobUp(c) /\ BobLink(c) /\ Place(BOB)
  BY <1>1 DEF QueueInv, BobSide
<1>5. Place(BOB)'
  BY <1>4 DEF Place, Serving, ServerOutputs
<1>6. BobDown(c)'
  BY <1>4 DEF BobDown, Given, Got, Pose
<1>7. BobUp(c)'
  BY <1>4 DEF BobUp, Serving
<1>8. BobLink(c)'
  BY <1>4 DEF BobLink, Given, Got, Pose
<1> QED BY <1>1, <1>2, <1>3, <1>5, <1>6, <1>7, <1>8, HoldingStep DEF BobSide

LEMMA IterationStep ==
  ASSUME TypeOK, HoldsClient, QueueInv, GarbleAlice \/ FlagAlice \/ InputBob \/ EvaluateBob
  PROVE  QueueInv'
<1>1. CASE GarbleAlice
  <2>1. /\ pc[ALICE] = "compute"
        /\ UNCHANGED <<ttp, ready, numPts, cpc, ck, up, down>>
    BY <1>1 DEF GarbleAlice
  <2>2. CASE Flow = LOOP_LEAK
    <3>1. pc' = [pc EXCEPT ![ALICE] = "flag"] /\ k' = k
      BY <1>1, <2>2 DEF GarbleAlice
    <3>2. pc'[ALICE] = "flag" /\ pc'[BOB] = pc[BOB] /\ k'[BOB] = k[BOB]
      BY <3>1 DEF TypeOK
    <3> QED BY <2>1, <3>2, AliceComputesStep
  <2>3. CASE Flow # LOOP_LEAK
    <3>1. AfterRound(ALICE, k[ALICE] + 1)
      BY <1>1, <2>3 DEF GarbleAlice
    <3> QED BY <2>1, <3>1, AfterRoundEffect, AliceComputesStep
  <2> QED BY <2>2, <2>3
<1>2. CASE FlagAlice
  <2>1. /\ pc[ALICE] = "flag"
        /\ UNCHANGED <<ttp, ready, numPts, cpc, ck, up, down>>
        /\ AfterRound(ALICE, IF Head(net[ALICE]).i = 1 THEN Rounds ELSE k[ALICE] + 1)
    BY <1>2 DEF FlagAlice
  <2> QED BY <2>1, AfterRoundEffect, AliceComputesStep
<1>3. CASE InputBob
  <2>1. /\ pc[BOB] = "input"
        /\ UNCHANGED <<ttp, ready, numPts, cpc, ck, up, down>>
        /\ AfterRound(BOB, 0)
    BY <1>3 DEF InputBob
  <2> QED BY <2>1, AfterRoundEffect, BobComputesStep
<1>4. CASE EvaluateBob
  <2>1. /\ pc[BOB] = "compute"
        /\ UNCHANGED <<ttp, ready, numPts, cpc, ck, up, down>>
        /\ \E i : AfterRound(BOB, i)
    BY <1>4 DEF EvaluateBob
  <2> QED BY <2>1, AfterRoundEffect, BobComputesStep
<1> QED BY <1>1, <1>2, <1>3, <1>4

----------------------------------------------------------------------------
(* Connections.                                                             *)

LEMMA ConnectIoStep ==
  ASSUME TypeOK, HoldsClient, QueueInv, ConnectIo
  PROVE  QueueInv'
<1>1. /\ \A p \in Party : pc[p] = "io" /\ pc'[p] = "ttp"
      /\ UNCHANGED <<ttp, numPts, k, ready, cpc, ck, up, down>>
  BY DEF ConnectIo
<1>2. \A p \in Party, c \in Client : ttp'[p] # c
  BY <1>1, SessionAssumption DEF HoldsClient, Serving
<1>3. ASSUME NEW p \in Party PROVE Place(p)'
  BY <1>1 DEF QueueInv, Place, Serving
<1>4. ASSUME NEW c \in Client
      PROVE  Counter(c)' /\ Closed(c)' /\ AliceSide(c)' /\ BobSide(c)'
  <2>1. Counter(c) /\ Closed(c) /\ AliceSide(c) /\ BobSide(c)
    BY DEF QueueInv
  <2>2. Counter(c)'
    BY <1>1, <2>1 DEF Counter, Pose
  <2>3. Closed(c)'
    BY <1>1, <2>1 DEF Closed
  <2>4. SameScript(c) /\ SameQueues(ALICE, c) /\ SameQueues(BOB, c)
    BY <1>1 DEF SameScript, SameQueues
  <2> QED BY <1>2, <2>1, <2>2, <2>3, <2>4, AliceFrame, BobFrame
<1> QED BY <1>3, <1>4 DEF QueueInv

(* A party returns from accept with the client that came first.             *)
LEMMA AcceptStep ==
  ASSUME TypeOK, HoldsClient, QueueInv, NEW p \in Party, Accept(p)
  PROVE  QueueInv'
<1>1. PICK c \in Client : ttp[p] = c
  BY DEF Accept, TypeOK
<1>2. /\ pc[p] = "ttp" /\ pc'[p] = "poll"
      /\ ttp' = ttp /\ numPts' = numPts /\ ready' = ready /\ k' = k
      /\ cpc' = cpc /\ ck' = ck /\ up' = up /\ down' = down
  BY DEF Accept, TypeOK
<1>3. \A q \in Party : q # p => SameParty(q)
  BY DEF Accept, SamePlace, SameParty, TypeOK
<1>4. \A q \in Party, d \in Client : SameQueues(q, d)
  BY <1>2 DEF SameQueues
<1>5. Place(p)'
  BY <1>2 DEF QueueInv, Place, FromClient, Serving
<1>6. ASSUME p = ALICE PROVE AliceSide(c)'
  <2>1. AliceDown(c) /\ AliceUp(c) /\ AliceLink(c)
    BY <1>1, <1>6 DEF QueueInv, AliceSide
  <2>2. AliceDown(c)'
    BY <1>2, <2>1 DEF AliceDown, Given, Got, Pose
  <2>3. AliceUp(c)'
    BY <1>2, <1>6, <2>1 DEF AliceUp
  <2>4. AliceLink(c)'
    BY <1>2, <1>6, <2>1 DEF AliceLink, Given, Got, Sent, Pose, Starting
  <2> QED BY <2>2, <2>3, <2>4 DEF AliceSide
<1>7. ASSUME p = BOB PROVE BobSide(c)'
  <2>1. BobDown(c) /\ BobUp(c) /\ BobLink(c)
    BY <1>1, <1>7 DEF QueueInv, BobSide
  <2>2. BobDown(c)'
    BY <1>2, <2>1 DEF BobDown, Given, Got, Pose
  <2>3. BobUp(c)'
    BY <1>2, <1>7, <2>1 DEF BobUp, Serving
  <2>4. BobLink(c)'
    BY <1>2, <1>7, <2>1 DEF BobLink, Given, Got, Pose
  <2> QED BY <2>2, <2>3, <2>4 DEF BobSide
<1> QED BY <1>1, <1>2, <1>3, <1>4, <1>5, <1>6, <1>7, HoldingStep

(* A client that connects has sent nothing yet, and no other client's       *)
(* connection is touched.                                                   *)
LEMMA ConnectStep ==
  ASSUME TypeOK, HoldsClient, QueueInv, NEW c \in Client, Connect(c)
  PROVE  QueueInv'
<1>1. PICK p \in Party : Connecting(c, p)
  BY ConnectingOf
<1>2. /\ pc[p] = "ttp" /\ \A q \in Party : q # p => SameParty(q)
      /\ UNCHANGED <<pc, numPts, k, ready, ck, up, down>>
      /\ \/ ttp[p] = None /\ ttp'[p] = c
         \/ ttp[p] # None /\ ttp'[p] = ttp[p]
  BY <1>1 DEF Connecting, TypeOK, SameParty, SamePlace
<1>3. /\ cpc[c] = IF p = ALICE THEN "connectAlice" ELSE "connectBob"
      /\ cpc'[c] = IF p = ALICE THEN "connectBob" ELSE "ptsAlice"
      /\ \A d \in Client : d # c => cpc'[d] = cpc[d]
  BY <1>1 DEF Connecting, TypeOK
<1>4. c # None /\ ttp[p] # c
  BY <1>3, SessionAssumption DEF QueueInv, AliceSide, BobSide, AliceLink, BobLink
<1>5. ASSUME NEW q \in Party PROVE Place(q)'
  <2>1. CASE q = p
    BY <1>2, <2>1 DEF QueueInv, Place, Serving
  <2>2. CASE q # p
    <3>1. ttp[q] \in Client => FromClient(q)' = FromClient(q)
      BY <1>2, <2>2 DEF FromClient, SameParty, SamePlace
    <3> QED BY <1>2, <2>2, <3>1, PlaceFrame DEF QueueInv
  <2> QED BY <2>1, <2>2
<1>6. up[p][c] = << >>
  BY <1>4 DEF QueueInv, Closed
<1>7. ASSUME NEW d \in Client
      PROVE  Counter(d)' /\ Closed(d)' /\ AliceSide(d)' /\ BobSide(d)'
  <2>1. Counter(d) /\ Closed(d) /\ AliceSide(d) /\ BobSide(d)
    BY DEF QueueInv
  <2>2. Closed(d)'
    BY <1>2, <2>1, SessionAssumption DEF Closed, SameParty, SamePlace
  <2>3. Counter(d)'
    BY <1>2, <1>3, <2>1 DEF Counter, Pose
  <2>4. CASE d # c
    <3>1. SameScript(d) /\ SameQueues(ALICE, d) /\ SameQueues(BOB, d)
      BY <1>2, <1>3, <2>4 DEF SameScript, SameQueues
    <3>2. \A q \in Party : ttp'[q] = d => SamePlace(q)
      BY <1>2, <2>4 DEF SameParty, SamePlace
    <3> QED BY <2>1, <2>2, <2>3, <3>1, <3>2, AliceFrame, BobFrame
  <2>5. CASE d = c
    <3>1. AliceDown(c)' /\ BobDown(c)'
      BY <1>2, <1>3, <2>1, <2>5 DEF AliceSide, BobSide, AliceDown, BobDown, Pose
    <3>2. CASE p = ALICE
      <4>1. ttp'[BOB] # c
        BY <1>2, <1>3, <2>1, <2>5, <3>2 DEF BobSide, BobLink, SameParty, SamePlace
      <4>2. AliceUp(c)'
        BY <1>2, <1>6, <3>2 DEF AliceUp
      <4>3. AliceLink(c)'
        BY <1>2, <1>3, <1>6, <3>2 DEF AliceLink, Starting, Pose
      <4> QED BY <2>2, <2>3, <2>5, <3>1, <4>1, <4>2, <4>3 DEF AliceSide, BobSide
    <3>3. CASE p = BOB
      <4>1. BobUp(c)'
        BY <1>2, <1>6, <3>3 DEF BobUp, Serving
      <4>2. BobLink(c)'
        BY <1>2, <1>3, <1>6, <3>3 DEF BobLink, Pose
      <4>3. ttp'[ALICE] = c => AliceUp(c)' /\ AliceLink(c)'
        <5>1. SUFFICES ASSUME ttp'[ALICE] = c PROVE AliceUp(c)' /\ AliceLink(c)'
          OBVIOUS
        <5>2. AliceUp(c) /\ AliceLink(c) /\ SameParty(ALICE)
          BY <1>2, <2>1, <2>5, <3>3, <5>1 DEF AliceSide, SameParty, SamePlace
        <5>3. AliceUp(c)'
          BY <1>2, <5>2 DEF AliceUp, SameParty, SamePlace
        <5>4. AliceLink(c)'
          BY <1>2, <1>3, <3>3, <5>2 DEF AliceLink, Starting, Pose, SameParty, SamePlace
        <5> QED BY <5>3, <5>4
      <4> QED BY <2>2, <2>3, <2>5, <3>1, <4>1, <4>2, <4>3 DEF AliceSide, BobSide
    <3> QED BY <3>2, <3>3
  <2> QED BY <2>4, <2>5
<1> QED BY <1>5, <1>7 DEF QueueInv

----------------------------------------------------------------------------
(* Steps of a client.                                                       *)

LEMMA SendNumPtsStep ==
  ASSUME TypeOK, HoldsClient, QueueInv, NEW c \in Client, SendNumPts(c)
  PROVE  QueueInv'
<1>1. /\ UNCHANGED <<pc, ttp, numPts, k, ready, ck, down>>
      /\ \A d \in Client : d # c => SameScript(d)
  BY DEF SendNumPts, Hop, SameScript, TypeOK
<1>2. /\ Counter(c) /\ Closed(c) /\ AliceDown(c) /\ BobDown(c)
      /\ ttp[ALICE] = c => AliceUp(c) /\ AliceLink(c)
      /\ ttp[BOB] = c => BobUp(c) /\ BobLink(c)
  BY DEF QueueInv, AliceSide, BobSide
<1>3. N(c) \in Message
  BY LabelsAreMessages
<1>4. CASE cpc[c] = "ptsAlice"
  <2>1. ToParty(c, ALICE, N(c)) /\ cpc'[c] = "ptsBob"
    BY <1>4 DEF SendNumPts, Hop, TypeOK, N
  <2>2. /\ up'[ALICE][c] = IF ttp[ALICE] = c THEN Append(up[ALICE][c], N(c)) ELSE up[ALICE][c]
        /\ \A q \in Party, d \in Client : q # ALICE \/ d # c => up'[q][d] = up[q][d]
    BY <2>1, ToPartyEffect
  <2>3. ttp[ALICE] = c => /\ pc[ALICE] \in {"ttp", "poll"} /\ up[ALICE][c] = << >>
                         /\ up'[ALICE][c] = <<N(c)>> /\ up'[ALICE][c] # << >>
    <3>1. SUFFICES ASSUME ttp[ALICE] = c
                   PROVE  /\ pc[ALICE] \in {"ttp", "poll"} /\ up[ALICE][c] = << >>
                          /\ up'[ALICE][c] = <<N(c)>> /\ up'[ALICE][c] # << >>
      OBVIOUS
    <3>2. pc[ALICE] \in {"ttp", "poll"} /\ up[ALICE][c] = << >>
      BY <1>2, <1>4, <3>1 DEF AliceLink, Starting
    <3> QED BY <1>3, <2>2, <3>1, <3>2, OneQueued
  <2>4. Counter(c)' /\ AliceDown(c)' /\ BobDown(c)'
    BY <1>1, <1>2, <1>4, <2>1 DEF Counter, AliceDown, BobDown, Pose
  <2>5. AliceSide(c)'
    <3>1. CASE ttp[ALICE] = c
      BY <1>1, <1>2, <1>4, <2>1, <2>3, <2>4, <3>1
      DEF AliceSide, AliceUp, AliceLink, AliceDown, Starting, Pose
    <3>2. CASE ttp[ALICE] # c
      BY <1>1, <2>4, <3>2 DEF AliceSide
    <3> QED BY <3>1, <3>2
  <2>6. BobSide(c)'
    <3>1. CASE ttp[BOB] = c
      BY <1>1, <1>2, <1>4, <2>1, <2>2, <2>4, <3>1 DEF BobSide, BobUp, BobLink, Pose, Serving
    <3>2. CASE ttp[BOB] # c
      BY <1>1, <2>4, <3>2 DEF BobSide
    <3> QED BY <3>1, <3>2
  <2> QED BY <1>1, <2>2, <2>3, <2>4, <2>5, <2>6, ClientOnlyStep DEF SameQueues
<1>5. CASE cpc[c] = "ptsBob"
  <2>1. ToParty(c, BOB, N(c)) /\ cpc'[c] = "delta"
    BY <1>5 DEF SendNumPts, Hop, TypeOK, N
  <2>2. /\ up'[BOB][c] = IF ttp[BOB] = c THEN Append(up[BOB][c], N(c)) ELSE up[BOB][c]
        /\ \A q \in Party, d \in Client : q # BOB \/ d # c => up'[q][d] = up[q][d]
    BY <2>1, ToPartyEffect
  <2>3. ttp[BOB] = c => /\ pc[BOB] \in {"ttp", "poll"} /\ up[BOB][c] = << >>
                       /\ up'[BOB][c] = <<N(c)>> /\ up'[BOB][c] # << >>
    <3>1. SUFFICES ASSUME ttp[BOB] = c
                   PROVE  /\ pc[BOB] \in {"ttp", "poll"} /\ up[BOB][c] = << >>
                          /\ up'[BOB][c] = <<N(c)>> /\ up'[BOB][c] # << >>
      OBVIOUS
    <3>2. pc[BOB] \in {"ttp", "poll"} /\ up[BOB][c] = << >>
      BY <1>2, <1>5, <3>1 DEF BobLink
    <3> QED BY <1>3, <2>2, <3>1, <3>2, OneQueued
  <2>4. Counter(c)' /\ AliceDown(c)' /\ BobDown(c)'
    BY <1>1, <1>2, <1>5, <2>1 DEF Counter, AliceDown, BobDown, Pose
  <2>5. AliceSide(c)'
    <3>1. CASE ttp[ALICE] = c
      BY <1>1, <1>2, <1>5, <2>1, <2>2, <2>4, <3>1
      DEF AliceSide, AliceUp, AliceLink, Starting, Pose
    <3>2. CASE ttp[ALICE] # c
      BY <1>1, <2>4, <3>2 DEF AliceSide
    <3> QED BY <3>1, <3>2
  <2>6. BobSide(c)'
    <3>1. CASE ttp[BOB] = c
      BY <1>1, <2>1, <2>3, <2>4, <3>1 DEF BobSide, BobUp, BobLink, Pose, Serving
    <3>2. CASE ttp[BOB] # c
      BY <1>1, <2>4, <3>2 DEF BobSide
    <3> QED BY <3>1, <3>2
  <2> QED BY <1>1, <2>2, <2>3, <2>4, <2>5, <2>6, ClientOnlyStep DEF SameQueues
<1> QED BY <1>4, <1>5 DEF SendNumPts

LEMMA RecvDeltaStep ==
  ASSUME TypeOK, HoldsClient, QueueInv, NEW c \in Client, RecvDelta(c)
  PROVE  QueueInv'
<1>1. /\ UNCHANGED <<pc, ttp, numPts, k, ready, ck, up>>
      /\ \A d \in Client : d # c => SameScript(d)
      /\ cpc[c] = "delta" /\ cpc'[c] = "seed"
  BY DEF RecvDelta, Hop, SameScript, TypeOK
<1>2. /\ Counter(c) /\ AliceDown(c) /\ BobDown(c)
      /\ ttp[ALICE] = c => AliceUp(c) /\ AliceLink(c)
      /\ ttp[BOB] = c => BobUp(c) /\ BobLink(c)
  BY DEF QueueInv, AliceSide, BobSide
<1>3. /\ down[ALICE][c] # << >> /\ down'[ALICE][c] = Tail(down[ALICE][c])
      /\ \A q \in Party, d \in Client : q # ALICE \/ d # c => down'[q][d] = down[q][d]
  BY ReadPartyEffect DEF RecvDelta
<1>4. down'[ALICE][c] = << >>
  <2>1. down[ALICE][c] = <<Delta>>
    BY <1>1, <1>2, <1>3 DEF AliceDown
  <2> QED BY <1>3, <2>1, LabelsAreMessages, OneQueued
<1>5. Counter(c)' /\ AliceDown(c)' /\ BobDown(c)'
  BY <1>1, <1>2, <1>3, <1>4 DEF Counter, AliceDown, BobDown, Pose
<1>6. AliceSide(c)'
  <2>1. CASE ttp[ALICE] = c
    <3>1. AliceUp(c)'
      BY <1>1, <1>2, <2>1 DEF AliceUp
    <3>2. pc[ALICE] \in {"handshake", "input"} /\ k[ALICE] = 0 /\ Len(up[ALICE][c]) = 0
      BY <1>1, <1>2, <1>3, <2>1 DEF AliceLink
    <3>3. AliceLink(c)'
      BY <1>1, <3>2 DEF AliceLink, Sent, Starting, Pose
    <3> QED BY <1>5, <3>1, <3>3 DEF AliceSide
  <2>2. CASE ttp[ALICE] # c
    BY <1>1, <1>5, <2>2 DEF AliceSide
  <2> QED BY <2>1, <2>2
<1>7. BobSide(c)'
  <2>1. CASE ttp[BOB] = c
    BY <1>1, <1>2, <1>5, <2>1 DEF BobSide, BobUp, BobLink, Pose, Serving
  <2>2. CASE ttp[BOB] # c
    BY <1>1, <1>5, <2>2 DEF BobSide
  <2> QED BY <2>1, <2>2
<1> QED BY <1>1, <1>3, <1>5, <1>6, <1>7, ClientOnlyStep DEF SameQueues

LEMMA SendSeedStep ==
  ASSUME TypeOK, HoldsClient, QueueInv, NEW c \in Client, SendSeed(c)
  PROVE  QueueInv'
<1>1. /\ UNCHANGED <<pc, ttp, numPts, k, ready, ck, down>>
      /\ \A d \in Client : d # c => SameScript(d)
      /\ cpc[c] = "seed" /\ cpc'[c] = "labels"
  BY DEF SendSeed, Hop, SameScript, TypeOK
<1>2. /\ Counter(c) /\ AliceDown(c) /\ BobDown(c)
      /\ ttp[ALICE] = c => AliceUp(c) /\ AliceLink(c)
      /\ ttp[BOB] = c => BobUp(c) /\ BobLink(c)
  BY DEF QueueInv, AliceSide, BobSide
<1>3. /\ up'[BOB][c] = IF ttp[BOB] = c THEN Append(up[BOB][c], Seed) ELSE up[BOB][c]
      /\ \A q \in Party, d \in Client : q # BOB \/ d # c => up'[q][d] = up[q][d]
  BY ToPartyEffect DEF SendSeed, Seed
<1>4. N(c) \in Message /\ Seed \in Message
  BY LabelsAreMessages
<1>5. /\ ck[c] = 0 /\ down[ALICE][c] = << >> /\ down[BOB][c] = << >>
      /\ ClientLabels(Points[c]) > 0 /\ ServerOutputs \in Nat
  BY <1>1, <1>2, SessionAssumption
  DEF Counter, AliceDown, BobDown, Pose, ClientLabels, ServerOutputs
<1>6. Given(BOB, c)' = 0 /\ Got(BOB, c)' = 0
  BY <1>1, <1>5 DEF Given, Got
<1>7. Counter(c)' /\ AliceDown(c)'
  BY <1>1, <1>2, <1>5 DEF Counter, AliceDown, Pose
<1>8. BobDown(c)'
  BY <1>1, <1>5, <1>6, NothingQueued DEF BobDown, Pose
<1>9. AliceSide(c)'
  <2>1. CASE ttp[ALICE] = c
    <3>1. AliceUp(c)'
      BY <1>1, <1>2, <1>3, <2>1 DEF AliceUp
    <3>2. AliceLink(c)'
      BY <1>1, <1>2, <1>3, <1>5, <2>1 DEF AliceLink, Sent, Starting, Pose
    <3> QED BY <1>7, <3>1, <3>2 DEF AliceSide
  <2>2. CASE ttp[ALICE] # c
    BY <1>1, <1>7, <2>2 DEF AliceSide
  <2> QED BY <2>1, <2>2
<1>10. BobSide(c)'
  <2>1. CASE ttp[BOB] = c
    <3>1. \/ /\ pc[BOB] \in {"ttp", "poll", "numPts"}
             /\ up[BOB][c] = <<N(c)>> /\ up'[BOB][c] = <<N(c), Seed>>
          \/ /\ pc[BOB] = "setup"
             /\ up[BOB][c] = << >> /\ up'[BOB][c] = <<Seed>>
      <4>1. \/ pc[BOB] \in {"ttp", "poll", "numPts"} /\ up[BOB][c] = <<N(c)>>
            \/ pc[BOB] = "setup" /\ up[BOB][c] = << >>
        BY <1>1, <1>2, <2>1 DEF BobLink
      <4> QED BY <1>3, <1>4, <2>1, <4>1, OneQueued, AppendSecond
    <3>2. BobUp(c)'
      BY <1>1, <3>1 DEF BobUp, Serving
    <3>3. BobLink(c)'
      BY <1>1, <1>6, <3>1 DEF BobLink, Pose
    <3> QED BY <1>8, <3>2, <3>3 DEF BobSide
  <2>2. CASE ttp[BOB] # c
    BY <1>1, <1>8, <2>2 DEF BobSide
  <2> QED BY <2>1, <2>2
<1>11. \A q \in Party : up[q][c] # << >> => up'[q][c] # << >>
  <2>1. up[BOB][c] \in Seq(Message)
    BY DEF TypeOK
  <2>2. Append(up[BOB][c], Seed) # << >>
    BY <1>4, <2>1, AppendProps
  <2> QED BY <1>3, <2>2
<1> QED BY <1>1, <1>3, <1>7, <1>9, <1>10, <1>11, ClientOnlyStep DEF SameQueues

(* The label a client sends is the one ALICE will read after those on the   *)
(* way.                                                                     *)
LEMMA SendLabelStep ==
  ASSUME TypeOK, HoldsClient, QueueInv, NEW c \in Client, SendLabel(c)
  PROVE  QueueInv'
<1>1. /\ UNCHANGED <<pc, ttp, numPts, k, ready, down>>
      /\ \A d \in Client : d # c => SameScript(d)
      /\ cpc[c] = "labels" /\ ck[c] \in Nat
  BY DEF SendLabel, Hop, SameScript, TypeOK
<1>2. /\ Counter(c) /\ AliceDown(c) /\ BobDown(c)
      /\ ttp[ALICE] = c => AliceUp(c) /\ AliceLink(c)
      /\ ttp[BOB] = c => BobUp(c) /\ BobLink(c)
  BY DEF QueueInv, AliceSide, BobSide
<1>3. /\ up'[ALICE][c] = IF ttp[ALICE] = c
                         THEN Append(up[ALICE][c], ClientLabel(Points[c], ck[c]))
                         ELSE up[ALICE][c]
      /\ \A q \in Party, d \in Client : q # ALICE \/ d # c => up'[q][d] = up[q][d]
  BY ToPartyEffect DEF SendLabel
<1>4. /\ Points[c] \in Nat /\ ClientLabels(Points[c]) \in Nat
      /\ ck[c] < ClientLabels(Points[c])
  BY <1>1, <1>2, SessionAssumption DEF Counter, ClientLabels
<1>5. \/ /\ ck[c] + 1 = ClientLabels(Points[c])
         /\ cpc'[c] = "poseAlice" /\ ck'[c] = 0
      \/ /\ ck[c] + 1 < ClientLabels(Points[c])
         /\ cpc'[c] = "labels" /\ ck'[c] = ck[c] + 1
  <2>1. CASE ck[c] + 1 = ClientLabels(Points[c])
    BY <1>1, <2>1 DEF SendLabel, Hop, TypeOK
  <2>2. CASE ck[c] + 1 # ClientLabels(Points[c])
    <3>1. ck' = [ck EXCEPT ![c] = @ + 1] /\ cpc' = cpc
      BY <2>2 DEF SendLabel
    <3>2. ck[c] + 1 < ClientLabels(Points[c])
      BY <1>1, <1>4, <2>2
    <3> QED BY <1>1, <3>1, <3>2 DEF TypeOK
  <2> QED BY <2>1, <2>2
<1>6. Sent(c) = ck[c] /\ Sent(c)' = ck[c] + 1
  BY <1>1, <1>5 DEF Sent, Pose
<1>7. /\ down[ALICE][c] = << >> /\ Got(BOB, c)' = 0 /\ Got(BOB, c) = 0
      /\ Given(ALICE, c)' = 0 /\ Given(BOB, c)' = Given(BOB, c)
  BY <1>1, <1>2, <1>5 DEF AliceDown, Pose, Given, Got
<1>8. Counter(c)'
  BY <1>1, <1>4, <1>5 DEF Counter, Pose, ClientOutputs
<1>9. AliceDown(c)'
  BY <1>1, <1>5, <1>7, NothingQueued DEF AliceDown, Pose, ClientOutputs
<1>10. BobDown(c)'
  <2>1. Outputs(down[BOB][c], 0) /\ Given(BOB, c) <= ServerOutputs
    BY <1>1, <1>2, <1>7 DEF BobDown
  <2>2. Outputs(down[BOB][c], Got(BOB, c))'
    BY <1>1, <1>7, <2>1
  <2> QED BY <1>1, <1>5, <1>7, <2>1, <2>2 DEF BobDown, Pose
<1>11. BobSide(c)'
  <2>1. CASE ttp[BOB] = c
    <3>1. BobUp(c)'
      BY <1>1, <1>2, <1>3, <2>1 DEF BobUp, Serving
    <3>2. BobLink(c)'
      BY <1>1, <1>2, <1>3, <1>5, <1>7, <2>1 DEF BobLink, Pose
    <3> QED BY <1>10, <3>1, <3>2 DEF BobSide
  <2>2. CASE ttp[BOB] # c
    BY <1>1, <1>10, <2>2 DEF BobSide
  <2> QED BY <2>1, <2>2
<1>12. up[ALICE][c] \in Seq(Message) /\ ClientLabel(Points[c], ck[c]) \in Message
  BY <1>1, <1>4, ClientLabelType DEF TypeOK
<1>13. AliceSide(c)'
  <2>1. CASE ttp[ALICE] = c
    <3>1. /\ pc[ALICE] \in {"handshake", "input"}
          /\ k[ALICE] + Len(up[ALICE][c]) = ck[c] /\ k[ALICE] \in Nat
      BY <1>1, <1>2, <1>6, <2>1 DEF AliceLink, TypeOK
    <3>2. Labels(up[ALICE][c], Points[c], k[ALICE])
      BY <1>2, <2>1, <3>1 DEF AliceUp
    <3>3. Labels(up'[ALICE][c], Points[c], k[ALICE])
      BY <1>3, <1>4, <1>12, <2>1, <3>1, <3>2, LabelsAppend
    <3>4. k[ALICE] + Len(up'[ALICE][c]) = ck[c] + 1
      <4>1. Len(up'[ALICE][c]) = Len(up[ALICE][c]) + 1 /\ Len(up[ALICE][c]) \in Nat
        BY <1>3, <1>12, <2>1, AppendProps
      <4> QED BY <3>1, <4>1
    <3>5. AliceUp(c)'
      BY <1>1, <1>4, <1>5, <3>1, <3>3, <3>4 DEF AliceUp
    <3>6. AliceLink(c)'
      BY <1>1, <1>5, <1>6, <1>7, <3>1, <3>4 DEF AliceLink, Starting, Pose
    <3> QED BY <1>9, <3>5, <3>6 DEF AliceSide
  <2>2. CASE ttp[ALICE] # c
    BY <1>1, <1>9, <2>2 DEF AliceSide
  <2> QED BY <2>1, <2>2
<1>14. \A q \in Party : up[q][c] # << >> => up'[q][c] # << >>
  <2>1. Append(up[ALICE][c], ClientLabel(Points[c], ck[c])) # << >>
    BY <1>12, AppendProps
  <2> QED BY <1>3, <2>1
<1> QED BY <1>1, <1>3, <1>8, <1>11, <1>13, <1>14, ClientOnlyStep DEF SameQueues

(* Who takes the last share of BOB has taken the last of ALICE, and both    *)
(* parties are back at the poll with nothing left to read.                  *)
LEMMA LastShare ==
  ASSUME TypeOK, QueueInv, NEW c \in Client,
         cpc[c] = "poseBob", down[BOB][c] # << >>, ~(ck[c] + 1 < ClientOutputs)
  PROVE  /\ down[ALICE][c] = << >> /\ Tail(down[BOB][c]) = << >>
         /\ ttp[ALICE] = c => pc[ALICE] = "poll" /\ up[ALICE][c] = << >>
         /\ ttp[BOB] = c => pc[BOB] = "poll" /\ up[BOB][c] = << >>
<1>1. /\ Counter(c) /\ AliceDown(c) /\ BobDown(c)
      /\ ttp[ALICE] = c => AliceLink(c)
      /\ ttp[BOB] = c => BobLink(c)
  BY DEF QueueInv, AliceSide, BobSide
<1>2. /\ ~NeedsLambda /\ ServerOutputs = ClientOutputs /\ ClientOutputs = 6
      /\ ck[c] < ClientOutputs /\ ck[c] \in Nat
  BY <1>1 DEF Counter, Pose, ServerOutputs, ClientOutputs, TypeOK
<1>3. \A q \in Party : down[q][c] \in Seq(Message)
  BY DEF TypeOK
<1>4. /\ Len(down[BOB][c]) \in Nat \ {0}
      /\ Len(Tail(down[BOB][c])) = Len(down[BOB][c]) - 1
      /\ Tail(down[BOB][c]) \in Seq(Message)
  BY <1>3, TailProps, HeadTailType
<1>5. /\ ck[c] = 5 /\ Got(BOB, c) = ck[c] /\ Got(ALICE, c) = ck[c] + 1
      /\ Given(BOB, c) <= 6 /\ Given(ALICE, c) <= 6
  BY <1>1, <1>2 DEF BobDown, AliceDown, Pose, Got
<1> DEFINE a == Len(down[ALICE][c])
           b == Len(down[BOB][c])
<1>6. a \in Nat /\ b \in Nat \ {0} /\ 6 + a <= 6 /\ 5 + b <= 6
  BY <1>3, <1>4, <1>5, EmptyLen DEF Given
<1> HIDE DEF a, b
<1>7. a = 0 /\ b = 1
  BY <1>6
<1>8. Len(down[ALICE][c]) = 0 /\ Len(down[BOB][c]) = 1 /\ Len(Tail(down[BOB][c])) = 0
  BY <1>4, <1>7 DEF a, b
<1>9. down[ALICE][c] = << >> /\ Tail(down[BOB][c]) = << >>
  BY <1>3, <1>4, <1>8, EmptyLen
<1>10. Given(ALICE, c) = 6 /\ Given(BOB, c) = 6
  BY <1>5, <1>8 DEF Given
<1>11. Place(ALICE) /\ Place(BOB) /\ k[ALICE] \in Nat /\ k[BOB] \in Nat
  BY DEF QueueInv, TypeOK
<1>12. ttp[ALICE] = c => pc[ALICE] = "poll" /\ up[ALICE][c] = << >>
  BY <1>1, <1>2, <1>10, <1>11 DEF AliceLink, Place, Starting, Pose
<1>13. ttp[BOB] = c => pc[BOB] = "poll" /\ up[BOB][c] = << >>
  BY <1>1, <1>2, <1>10, <1>11 DEF BobLink, Place, Pose
<1> QED BY <1>9, <1>12, <1>13

(* Taking a share moves it from the queue to the client.                    *)
LEMMA RecvShareStep ==
  ASSUME TypeOK, HoldsClient, QueueInv, NEW c \in Client, RecvShare(c)
  PROVE  QueueInv'
<1>1. /\ UNCHANGED <<pc, ttp, numPts, k, ready, up>>
      /\ \A d \in Client : d # c => SameScript(d)
      /\ ck[c] \in Nat
  BY DEF RecvShare, Hop, SameScript, TypeOK
<1>2. /\ Counter(c) /\ AliceDown(c) /\ BobDown(c)
      /\ ttp[ALICE] = c => AliceUp(c) /\ AliceLink(c)
      /\ ttp[BOB] = c => BobUp(c) /\ BobLink(c)
  BY DEF QueueInv, AliceSide, BobSide
<1>3. \A q \in Party : down[q][c] \in Seq(Message)
  BY DEF TypeOK
<1>4. CASE cpc[c] = "poseAlice"
  <2>1. /\ cpc'[c] = "poseBob" /\ ck' = ck
        /\ down[ALICE][c] # << >> /\ down'[ALICE][c] = Tail(down[ALICE][c])
        /\ \A q \in Party, d \in Client : q # ALICE \/ d # c => down'[q][d] = down[q][d]
    BY <1>4, ReadPartyEffect DEF RecvShare, Hop, TypeOK
  <2>2. /\ Len(down[ALICE][c]) \in Nat \ {0}
        /\ Len(down'[ALICE][c]) = Len(down[ALICE][c]) - 1
    BY <1>3, <2>1, TailProps
  <2>3. ~NeedsLambda /\ Outputs(down[ALICE][c], Got(ALICE, c))
    BY <1>2, <1>4, <2>1 DEF AliceDown, Pose
  <2>4. /\ Got(ALICE, c) = ck[c] /\ Got(ALICE, c)' = ck[c] + 1
        /\ Got(BOB, c)' = Got(BOB, c)
    BY <1>4, <2>1 DEF Got
  <2>5. Given(ALICE, c)' = Given(ALICE, c) /\ Given(BOB, c)' = Given(BOB, c)
    <3>1. \A a \in Nat, b \in Nat \ {0} : (a + 1) + (b - 1) = a + b
      OBVIOUS
    <3>2. Given(ALICE, c)' = (ck[c] + 1) + (Len(down[ALICE][c]) - 1)
      BY <2>2, <2>4 DEF Given
    <3>3. Given(ALICE, c) = ck[c] + Len(down[ALICE][c])
      BY <2>4 DEF Given
    <3>4. Given(BOB, c)' = Given(BOB, c)
      BY <2>1, <2>4 DEF Given
    <3> QED BY <1>1, <2>2, <3>1, <3>2, <3>3, <3>4
  <2>6. Outputs(down[ALICE][c], Got(ALICE, c))'
    BY <1>1, <1>3, <2>1, <2>3, <2>4, OutputsTail
  <2>7. Counter(c)'
    BY <1>2, <1>4, <2>1, <2>3 DEF Counter, Pose
  <2>8. AliceDown(c)'
    BY <1>2, <1>4, <2>1, <2>3, <2>5, <2>6 DEF AliceDown, Pose
  <2>9. BobDown(c)'
    BY <1>2, <1>4, <2>1, <2>4, <2>5 DEF BobDown, Pose
  <2>10. AliceSide(c)'
    <3>1. CASE ttp[ALICE] = c
      <4>1. AliceUp(c)'
        BY <1>1, <1>2, <3>1 DEF AliceUp
      <4>2. AliceLink(c)'
        BY <1>1, <1>2, <1>4, <2>1, <2>5, <3>1 DEF AliceLink, Sent, Starting, Pose
      <4> QED BY <2>8, <4>1, <4>2 DEF AliceSide
    <3>2. CASE ttp[ALICE] # c
      BY <1>1, <2>8, <3>2 DEF AliceSide
    <3> QED BY <3>1, <3>2
  <2>11. BobSide(c)'
    <3>1. CASE ttp[BOB] = c
      <4>1. BobUp(c)'
        BY <1>1, <1>2, <3>1 DEF BobUp, Serving
      <4>2. BobLink(c)'
        BY <1>1, <1>2, <1>4, <2>1, <2>5, <3>1 DEF BobLink, Pose
      <4> QED BY <2>9, <4>1, <4>2 DEF BobSide
    <3>2. CASE ttp[BOB] # c
      BY <1>1, <2>9, <3>2 DEF BobSide
    <3> QED BY <3>1, <3>2
  <2> QED BY <1>1, <2>1, <2>7, <2>10, <2>11, ClientOnlyStep DEF SameQueues
<1>5. CASE cpc[c] = "poseBob"
  <2>1. /\ ~NeedsLambda /\ ServerOutputs = ClientOutputs /\ ClientOutputs = 6
        /\ ck[c] < ClientOutputs
    BY <1>2, <1>5 DEF Counter, Pose, ServerOutputs, ClientOutputs
  <2>2. /\ down[BOB][c] # << >>
        /\ Len(down[BOB][c]) \in Nat \ {0} /\ Len(Tail(down[BOB][c])) = Len(down[BOB][c]) - 1
    <3>1. down[BOB][c] # << >>
      BY <1>5 DEF RecvShare
    <3> QED BY <1>3, <3>1, TailProps
  <2>3. /\ Outputs(down[BOB][c], ck[c]) /\ Outputs(down[ALICE][c], ck[c] + 1)
        /\ Got(BOB, c) = ck[c] /\ Got(ALICE, c) = ck[c] + 1
        /\ Given(BOB, c) <= 6 /\ Given(ALICE, c) <= 6
    BY <1>2, <1>5, <2>1 DEF BobDown, AliceDown, Pose, Got
  <2>4. CASE ck[c] + 1 < ClientOutputs
    <3>1. /\ cpc'[c] = "poseAlice" /\ ck'[c] = ck[c] + 1
          /\ down' = [down EXCEPT ![BOB][c] = Tail(@)]
      BY <1>5, <2>4 DEF RecvShare, Hop, TypeOK
    <3>2. /\ down'[BOB][c] = Tail(down[BOB][c])
          /\ \A q \in Party, d \in Client : q # BOB \/ d # c => down'[q][d] = down[q][d]
      BY <3>1 DEF TypeOK
    <3>3. Got(BOB, c)' = ck[c] + 1 /\ Got(ALICE, c)' = ck[c] + 1
      BY <3>1 DEF Got
    <3>4. Given(ALICE, c)' = Given(ALICE, c) /\ Given(BOB, c)' = Given(BOB, c)
      <4>1. \A a \in Nat, b \in Nat \ {0} : (a + 1) + (b - 1) = a + b
        OBVIOUS
      <4>2. Given(BOB, c)' = (ck[c] + 1) + (Len(down[BOB][c]) - 1)
        BY <2>2, <3>2, <3>3 DEF Given
      <4>3. Given(BOB, c) = ck[c] + Len(down[BOB][c])
        BY <2>3 DEF Given
      <4>4. Given(ALICE, c)' = Given(ALICE, c)
        BY <2>3, <3>2, <3>3 DEF Given
      <4> QED BY <1>1, <2>2, <4>1, <4>2, <4>3, <4>4
    <3>5. Outputs(down[BOB][c], Got(BOB, c))'
      BY <1>1, <1>3, <2>2, <2>3, <3>2, <3>3, OutputsTail
    <3>6. Counter(c)'
      BY <2>1, <2>4, <3>1 DEF Counter, Pose
    <3>7. AliceDown(c)'
      BY <2>1, <2>3, <3>1, <3>2, <3>3, <3>4 DEF AliceDown, Pose
    <3>8. BobDown(c)'
      BY <2>1, <2>3, <3>1, <3>4, <3>5 DEF BobDown, Pose
    <3>9. AliceSide(c)'
      <4>1. CASE ttp[ALICE] = c
        <5>1. AliceUp(c)'
          BY <1>1, <1>2, <4>1 DEF AliceUp
        <5>2. AliceLink(c)'
          BY <1>1, <1>2, <1>5, <3>1, <3>4, <4>1 DEF AliceLink, Sent, Starting, Pose
        <5> QED BY <3>7, <5>1, <5>2 DEF AliceSide
      <4>2. CASE ttp[ALICE] # c
        BY <1>1, <3>7, <4>2 DEF AliceSide
      <4> QED BY <4>1, <4>2
    <3>10. BobSide(c)'
      <4>1. CASE ttp[BOB] = c
        <5>1. BobUp(c)'
          BY <1>1, <1>2, <4>1 DEF BobUp, Serving
        <5>2. BobLink(c)'
          BY <1>1, <1>2, <1>5, <3>1, <3>4, <4>1 DEF BobLink, Pose
        <5> QED BY <3>8, <5>1, <5>2 DEF BobSide
      <4>2. CASE ttp[BOB] # c
        BY <1>1, <3>8, <4>2 DEF BobSide
      <4> QED BY <4>1, <4>2
    <3> QED BY <1>1, <3>2, <3>6, <3>9, <3>10, ClientOnlyStep DEF SameQueues
  <2>5. CASE ~(ck[c] + 1 < ClientOutputs)
    <3>1. /\ down[ALICE][c] = << >> /\ Tail(down[BOB][c]) = << >>
          /\ ttp[ALICE] = c => pc[ALICE] = "poll" /\ up[ALICE][c] = << >>
          /\ ttp[BOB] = c => pc[BOB] = "poll" /\ up[BOB][c] = << >>
      BY <1>5, <2>2, <2>5, LastShare
    <3>2. /\ ck'[c] = 0 /\ cpc'[c] \in {"ptsAlice", "done"}
          /\ down'[ALICE][c] = << >> /\ down'[BOB][c] = << >>
          /\ \A q \in Party, d \in Client : d # c => down'[q][d] = down[q][d]
      <4>1. CASE served[c] + 1 < Requests
        <5>1. /\ cpc' = [cpc EXCEPT ![c] = "ptsAlice"] /\ ck' = [ck EXCEPT ![c] = 0]
              /\ down' = [down EXCEPT ![BOB][c] = Tail(@)]
          BY <1>5, <2>5, <4>1 DEF RecvShare, Hop
        <5> QED BY <3>1, <5>1 DEF TypeOK
      <4>2. CASE ~(served[c] + 1 < Requests)
        <5>1. /\ cpc' = [cpc EXCEPT ![c] = "done"] /\ ck' = [ck EXCEPT ![c] = 0]
              /\ down' = [p \in Party |-> [down[p] EXCEPT ![c] = << >>]]
          BY <1>5, <2>5, <4>2 DEF RecvShare, Hop
        <5> QED BY <5>1 DEF TypeOK
      <4> QED BY <4>1, <4>2
    <3>3. Counter(c)' /\ AliceDown(c)' /\ BobDown(c)'
      BY <2>1, <3>2 DEF Counter, AliceDown, BobDown, Pose
    <3>4. AliceSide(c)'
      <4>1. CASE ttp[ALICE] = c
        <5>1. AliceUp(c)' /\ AliceLink(c)'
          BY <1>1, <3>1, <3>2, <4>1 DEF AliceUp, AliceLink, Starting, Pose
        <5> QED BY <3>3, <5>1 DEF AliceSide
      <4>2. CASE ttp[ALICE] # c
        BY <1>1, <3>3, <4>2 DEF AliceSide
      <4> QED BY <4>1, <4>2
    <3>5. BobSide(c)'
      <4>1. CASE ttp[BOB] = c
        <5>1. BobUp(c)' /\ BobLink(c)'
          BY <1>1, <3>1, <3>2, <4>1 DEF BobUp, BobLink, Pose, Serving
        <5> QED BY <3>3, <5>1 DEF BobSide
      <4>2. CASE ttp[BOB] # c
        BY <1>1, <3>3, <4>2 DEF BobSide
      <4> QED BY <4>1, <4>2
    <3> QED BY <1>1, <3>2, <3>3, <3>4, <3>5, ClientOnlyStep DEF SameQueues
  <2> QED BY <2>4, <2>5
<1> QED BY <1>4, <1>5 DEF RecvShare

(* A client that ends leaves what it sent, and loses what was sent to it.   *)
LEMMA ClientEndsStep ==
  ASSUME TypeOK, HoldsClient, QueueInv, NEW c \in Client,
         NEW how \in {"gaveUp", "crashed"}, ClientEnds(c, how)
  PROVE  QueueInv'
<1>1. /\ UNCHANGED <<pc, ttp, numPts, k, ready, up>>
      /\ \A d \in Client : d # c => SameScript(d)
      /\ cpc'[c] = how /\ ck'[c] = 0
      /\ \A q \in Party : down'[q][c] = << >>
      /\ \A q \in Party, d \in Client : d # c => down'[q][d] = down[q][d]
  BY DEF ClientEnds, Hop, SameScript, TypeOK
<1>2. AliceSide(c) /\ BobSide(c)
  BY DEF QueueInv
<1>3. Counter(c)' /\ AliceDown(c)' /\ BobDown(c)'
  BY <1>1 DEF Counter, AliceDown, BobDown, Pose
<1>4. AliceSide(c)'
  BY <1>1, <1>2, <1>3 DEF AliceSide, AliceUp, AliceLink, Starting, Pose
<1>5. BobSide(c)'
  BY <1>1, <1>2, <1>3 DEF BobSide, BobUp, BobLink, Pose, Serving
<1> QED BY <1>1, <1>3, <1>4, <1>5, ClientOnlyStep DEF SameQueues

----------------------------------------------------------------------------
(* The invariant is inductive.                                              *)

LEMMA QueueInit == Init => QueueInv
<1> SUFFICES ASSUME Init PROVE QueueInv
  OBVIOUS
<1>1. /\ \A p \in Party : pc[p] = "io" /\ ttp[p] = None /\ numPts[p] = 0 /\ k[p] = 0
                          /\ ready[p] = FALSE
      /\ \A c \in Client : cpc[c] = "connectAlice" /\ ck[c] = 0
      /\ \A p \in Party, c \in Client : up[p][c] = << >> /\ down[p][c] = << >>
  BY DEF Init
<1>2. ASSUME NEW p \in Party PROVE Place(p)
  BY <1>1 DEF Place, Serving
<1>3. ASSUME NEW c \in Client
      PROVE  Counter(c) /\ Closed(c) /\ AliceSide(c) /\ BobSide(c)
  BY <1>1, SessionAssumption
  DEF Counter, Closed, AliceSide, BobSide, AliceDown, BobDown, Pose
<1> QED BY <1>2, <1>3 DEF QueueInv

LEMMA QueueStep ==
  ASSUME TypeOK, HoldsClient, QueueInv, [Next]_vars
  PROVE  QueueInv'
<1>1. CASE ConnectIo
  BY <1>1, ConnectIoStep
<1>2. ASSUME NEW p \in Party, Accept(p) PROVE QueueInv'
  BY <1>2, AcceptStep
<1>3. ASSUME NEW p \in Party, Poll(p) \/ Serve(p) \/ RecvNumPts(p) \/ Handshake(p) \/ Reveal(p)
      PROVE  QueueInv'
  BY <1>3, PollStep, ServeStep, RecvNumPtsStep, HandshakeStep, RevealStep
<1>4. ASSUME NEW p \in Party, Restart(p) PROVE QueueInv'
  <2>1. pc[p] \in Working /\ Close(p, "io") /\ UNCHANGED <<cpc, ck, down>>
    BY <1>4 DEF Restart, Working
  <2> QED BY <2>1, CloseQueueStep
<1>5. ASSUME NEW p \in Party, Exit(p) PROVE QueueInv'
  <2>1. pc[p] \in Working /\ Close(p, "exited") /\ UNCHANGED <<cpc, ck, down>>
    BY <1>5 DEF Exit, ReadsClient, ReadsPeer, WritesClient, WritesPeer, Working, Serving
  <2> QED BY <2>1, CloseQueueStep
<1>6. CASE SetupAlice \/ InputAlice \/ GarbleAlice \/ FlagAlice
  BY <1>6, SetupAliceStep, InputAliceStep, IterationStep
<1>7. CASE SetupBob \/ InputBob \/ EvaluateBob
  BY <1>7, SetupBobStep, IterationStep
<1>8. ASSUME NEW c \in Client,
             \/ Connect(c) \/ SendNumPts(c) \/ RecvDelta(c) \/ SendSeed(c) \/ SendLabel(c)
             \/ RecvShare(c)
      PROVE  QueueInv'
  BY <1>8, ConnectStep, SendNumPtsStep, RecvDeltaStep, SendSeedStep, SendLabelStep, RecvShareStep
<1>9. ASSUME NEW c \in Client, NEW how \in {"gaveUp", "crashed"}, ClientEnds(c, how)
      PROVE  QueueInv'
  BY <1>9, ClientEndsStep
<1>10. CASE UNCHANGED vars
  <2>1. UNCHANGED <<pc, ttp, numPts, k, ready, cpc, ck, up, down>>
    BY <1>10 DEF vars
  <2>2. ASSUME NEW p \in Party PROVE Place(p)'
    BY <2>1 DEF QueueInv, Place, FromClient, Serving
  <2>3. ASSUME NEW c \in Client
        PROVE  Counter(c)' /\ Closed(c)' /\ AliceSide(c)' /\ BobSide(c)'
    <3>1. Counter(c) /\ Closed(c) /\ AliceSide(c) /\ BobSide(c)
      BY DEF QueueInv
    <3>2. Counter(c)' /\ Closed(c)'
      BY <2>1, <3>1 DEF Counter, Closed, Pose
    <3>3. /\ SameScript(c) /\ SameQueues(ALICE, c) /\ SameQueues(BOB, c)
          /\ SamePlace(ALICE) /\ SamePlace(BOB)
      BY <2>1 DEF SameScript, SameQueues, SamePlace
    <3> QED BY <3>1, <3>2, <3>3, AliceFrame, BobFrame
  <2> QED BY <2>2, <2>3 DEF QueueInv
<1> QED
  BY <1>1, <1>2, <1>3, <1>4, <1>5, <1>6, <1>7, <1>8, <1>9, <1>10
  DEF Next, PartyStep, LmServer, ClientStep, ClientExit, Crash

(* In every reachable state the queues hold what the scripts expect.        *)
THEOREM SessionQueues == Spec => [](SessionInv /\ QueueInv)
<1>1. Init => SessionInv /\ QueueInv
  BY InitInv, QueueInit
<1>2. SessionInv /\ QueueInv /\ [Next]_vars => (SessionInv /\ QueueInv)'
  BY TypeStep, ConnStep, QueueStep DEF SessionInv
<1> QED BY <1>1, <1>2, PTL DEF Spec

----------------------------------------------------------------------------
(* What follows for the reads.                                              *)

(* The j-th label of a client is stored where the j-th input goes: both     *)
(* enumerate the points by five and then the camera and the pose guess.     *)
LEMMA LabelMeetsInput ==
  ASSUME NEW n \in Nat, NEW j \in Nat, j < ClientLabels(n)
  PROVE  Element(n, ClientLabel(n, j)) = ServerInput(n, j)
<1>1. CASE j < 5 * n
  <2> DEFINE i == j \div 5
             r == j % 5
  <2>1. r \in 0 .. 4 /\ i \in Nat
    OBVIOUS
  <2>2. r = 0 \/ r = 1 \/ r = 2 \/ r = 3 \/ r = 4
    BY <2>1
  <2>3. ClientLabel(n, j)
          = Msg(<<"objectX", "objectY", "objectZ", "imageX", "imageY">>[r + 1], i)
    BY <1>1 DEF ClientLabel
  <2>4. ServerInput(n, j)
          = <<Msg("threeDPts", i), Msg("threeDPts", n + i), Msg("threeDPts", 2 * n + i),
              Msg("twoDPts", 2 * i), Msg("twoDPts", 2 * i + 1)>>[r + 1]
    BY <1>1 DEF ServerInput
  <2> HIDE DEF i, r
  <2>5. CASE r = 0
    BY <2>3, <2>4, <2>5 DEF Element, Msg
  <2>6. CASE r = 1
    BY <2>3, <2>4, <2>6 DEF Element, Msg
  <2>7. CASE r = 2
    BY <2>3, <2>4, <2>7 DEF Element, Msg
  <2>8. CASE r = 3
    BY <2>3, <2>4, <2>8 DEF Element, Msg
  <2>9. CASE r = 4
    BY <2>3, <2>4, <2>9 DEF Element, Msg
  <2> QED BY <2>2, <2>5, <2>6, <2>7, <2>8, <2>9
<1>2. CASE ~(j < 5 * n) /\ j < 5 * n + 3
  <2> DEFINE r == j - 5 * n
  <2>1. r = 0 \/ r = 1 \/ r = 2
    BY <1>2
  <2>2. /\ ClientLabel(n, j) = Msg(<<"f", "cx", "cy">>[r + 1], 0)
        /\ ServerInput(n, j) = Msg(<<"f", "cx", "cy">>[r + 1], 0)
    BY <1>2 DEF ClientLabel, ServerInput
  <2> HIDE DEF r
  <2>3. <<"f", "cx", "cy">>[r + 1] \in {"f", "cx", "cy"}
    BY <2>1
  <2> QED BY <2>2, <2>3 DEF Element, Msg
<1>3. CASE ~(j < 5 * n + 3)
  <2>1. ~(j < 5 * n) /\ j < 5 * n + 9
    BY <1>3 DEF ClientLabels
  <2>2. /\ ClientLabel(n, j) = Msg("x", j - 5 * n - 3)
        /\ ServerInput(n, j) = Msg("x", j - 5 * n - 3)
    BY <1>3, <2>1 DEF ClientLabel, ServerInput
  <2> QED BY <2>2 DEF Element, Msg
<1> QED BY <1>1, <1>2, <1>3

(* No party ever builds a circuit for another number of points than its     *)
(* client asked for.                                                        *)
THEOREM SessionSameCircuit == Spec => []SameCircuit
<1>1. SessionInv /\ QueueInv => SameCircuit
  <2> SUFFICES ASSUME QueueInv PROVE SameCircuit
    OBVIOUS
  <2> QED BY DEF QueueInv, Place, SameCircuit
<1> QED BY SessionQueues, <1>1, PTL

(* Each read of a server on the untagged stream takes the message it is     *)
(* for, and each label goes into the element of the value it encodes.       *)
THEOREM SessionServerReadsInStep == Spec => []ServerReadsInStep
<1>1. SessionInv /\ QueueInv => ServerReadsInStep
  <2> SUFFICES ASSUME SessionInv, QueueInv,
                      NEW p \in Party, ttp[p] # None, FromClient(p) # << >>
               PROVE  LET m == Head(FromClient(p)) IN
                      /\ pc[p] \in {"poll", "numPts"} => m = Msg("numPts", Points[ttp[p]])
                      /\ pc[p] = "setup" /\ p = BOB => m = Msg("seed", 0)
                      /\ pc[p] = "input" /\ p = ALICE =>
                           Element(numPts[p], m) = ServerInput(numPts[p], k[p])
    BY DEF ServerReadsInStep
  <2>1. PICK c \in Client : ttp[p] = c
    BY DEF SessionInv, TypeOK
  <2>2. up[p][c] # << >> /\ up[p][c] \in Seq(Message)
    BY <2>1 DEF FromClient, SessionInv, TypeOK
  <2>3. /\ p = ALICE => AliceUp(c)
        /\ p = BOB => BobUp(c)
        /\ Place(p)
    BY <2>1 DEF QueueInv, AliceSide, BobSide
  <2>4. ASSUME pc[p] \in {"poll", "numPts"} PROVE Head(up[p][c]) = N(c)
    <3>1. up[p][c] = <<N(c)>> \/ up[p][c] = <<N(c), Seed>>
      BY <2>2, <2>3, <2>4 DEF AliceUp, BobUp
    <3> QED BY <3>1, LabelsAreMessages, OneQueued, TwoQueued
  <2>5. ASSUME pc[p] = "setup", p = BOB PROVE Head(up[p][c]) = Seed
    <3>1. up[p][c] = <<Seed>>
      BY <2>2, <2>3, <2>5 DEF BobUp
    <3> QED BY <3>1, LabelsAreMessages, OneQueued
  <2>6. ASSUME pc[p] = "input", p = ALICE
        PROVE  Element(numPts[p], Head(up[p][c])) = ServerInput(numPts[p], k[p])
    <3>1. /\ Labels(up[p][c], Points[c], k[p])
          /\ k[p] + Len(up[p][c]) <= ClientLabels(Points[c])
          /\ numPts[p] = Points[c]
      BY <2>1, <2>3, <2>6 DEF AliceUp, Place, Serving
    <3>2. k[p] \in Nat /\ Points[c] \in Nat /\ ClientLabels(Points[c]) \in Nat
      <4>1. k[p] \in Nat
        BY DEF SessionInv, TypeOK
      <4>2. Points[c] \in Nat
        BY SessionAssumption
      <4> QED BY <4>1, <4>2 DEF ClientLabels
    <3>3. Len(up[p][c]) \in Nat \ {0} /\ Head(up[p][c]) = ClientLabel(Points[c], k[p])
      BY <2>2, <3>1, <3>2, TailProps, LabelsTail
    <3>4. k[p] < ClientLabels(Points[c])
      BY <3>1, <3>2, <3>3
    <3> QED BY <3>1, <3>2, <3>3, <3>4, LabelMeetsInput
  <2> QED BY <2>1, <2>4, <2>5, <2>6 DEF FromClient, N, Seed
<1> QED BY SessionQueues, <1>1, PTL

(* Each read of a client takes the message it is for: the two shares it     *)
(* combines are shares of the same output.                                  *)
THEOREM SessionClientReadsInStep == Spec => []ClientReadsInStep
<1>1. SessionInv /\ QueueInv => ClientReadsInStep
  <2> SUFFICES ASSUME SessionInv, QueueInv, NEW c \in Client
               PROVE  /\ cpc[c] = "delta" /\ down[ALICE][c] # << >> =>
                           Head(down[ALICE][c]) = Msg("delta", 0)
                      /\ cpc[c] = "poseAlice" /\ down[ALICE][c] # << >> =>
                           Head(down[ALICE][c]) = ServerOutput(ck[c])
                      /\ cpc[c] = "poseBob" /\ down[BOB][c] # << >> =>
                           Head(down[BOB][c]) = ServerOutput(ck[c])
    BY DEF ClientReadsInStep
  <2>1. AliceDown(c) /\ BobDown(c)
    BY DEF QueueInv, AliceSide, BobSide
  <2>2. ck[c] \in Nat /\ \A p \in Party : down[p][c] \in Seq(Message)
    BY DEF SessionInv, TypeOK
  <2>3. ASSUME cpc[c] = "delta", down[ALICE][c] # << >>
        PROVE  Head(down[ALICE][c]) = Msg("delta", 0)
    <3>1. down[ALICE][c] = <<Delta>>
      BY <2>1, <2>3 DEF AliceDown
    <3> QED BY <3>1, LabelsAreMessages, OneQueued DEF Delta
  <2>4. ASSUME cpc[c] = "poseAlice", down[ALICE][c] # << >>
        PROVE  Head(down[ALICE][c]) = ServerOutput(ck[c])
    <3>1. Outputs(down[ALICE][c], ck[c])
      BY <2>1, <2>4 DEF AliceDown, Got, Pose
    <3> QED BY <2>2, <2>4, <3>1, OutputsTail
  <2>5. ASSUME cpc[c] = "poseBob", down[BOB][c] # << >>
        PROVE  Head(down[BOB][c]) = ServerOutput(ck[c])
    <3>1. Outputs(down[BOB][c], ck[c])
      BY <2>1, <2>5 DEF BobDown, Got, Pose
    <3> QED BY <2>2, <2>5, <3>1, OutputsTail
  <2> QED BY <2>3, <2>4, <2>5
<1> QED BY SessionQueues, <1>1, PTL
=============================================================================
