--------------------------- MODULE TftpLinkProofs ---------------------------
(***************************************************************************)
(* Proofs about the TFTP handlers over links that keep the order. There    *)
(* the payload may have any number of blocks: their numbers may wrap       *)
(* around, because only two neighbouring blocks are ever on a link.        *)
(***************************************************************************)
EXTENDS TftpLink, TftpProofs, SequenceTheorems

-----------------------------------------------------------------------------
(* Neighbouring block numbers                                              *)

LEMMA Division ==
    ASSUME NEW m \in Nat, m > 1, NEW k \in Nat
    PROVE  k = m * (k \div m) + (k % m) /\ k \div m \in Int /\ k % m \in 0..(m - 1)
  OBVIOUS

\* Also where the number wraps around, a block and its predecessor differ.
LEMMA NeighboursDiffer ==
    ASSUME NEW k \in Nat \ {0}
    PROVE  BlockNumber(k - 1) # BlockNumber(k)
<1> DEFINE m == BlockMod
           q == k \div m
           p == (k - 1) \div m
           r == k % m
<1>1. m \in Nat /\ m > 1
  BY TftpAssumption
<1> SUFFICES ASSUME (k - 1) % m = r PROVE FALSE
  BY DEF BlockNumber
<1> HIDE DEF m
<1>2. k = m * q + r /\ q \in Int /\ r \in Int
  BY <1>1, Division
<1>3. k - 1 = m * p + r /\ p \in Int
  BY <1>1, Division
<1> HIDE DEF q, p, r
<1>4. m * (q - p) = 1
  BY <1>1, <1>2, <1>3
<1>5. CASE q - p >= 1
  BY <1>1, <1>2, <1>3, <1>4, <1>5
<1>6. CASE q - p <= 0
  BY <1>1, <1>2, <1>3, <1>4, <1>6
<1> QED
  BY <1>2, <1>3, <1>5, <1>6

LEMMA AcksDiffer ==
    ASSUME NEW k \in Nat \ {0}
    PROVE  Ack(BlockNumber(k - 1)) # Ack(BlockNumber(k))
  BY NeighboursDiffer DEF Ack

-----------------------------------------------------------------------------
(* The handlers are those of Tftp.tla                                      *)

LEMMA LinkStepIsStep == LinkNext => [Next]_vars
<1> SUFFICES ASSUME LinkNext PROVE [Next]_vars
  OBVIOUS
<1>1. CASE LinkRequest
  BY <1>1 DEF LinkRequest, Next
<1>2. ASSUME NEW h \in Handlers, LinkAccept(h) \/ LinkDial(h) \/ LinkWrite(h) \/ LinkTimeout(h)
      PROVE  [Next]_vars
  BY <1>2 DEF LinkAccept, LinkDial, LinkWrite, LinkTimeout, Next, Handle
<1>3. ASSUME NEW h \in Handlers, LinkReceive(h) PROVE [Next]_vars
  <2>1. PICK d \in toServer[h] : Receive(h, d)
    BY <1>3 DEF LinkReceive, Receive
  <2> QED
    BY <2>1 DEF Next, Handle
<1>4. ASSUME NEW h \in Handlers, LinkClientReceive(h) PROVE [Next]_vars
  <2>1. PICK k \in toClient[h] : ClientReceive(h, k)
    BY <1>4 DEF LinkClientReceive, ClientReceive
  <2> QED
    BY <2>1 DEF Next
<1>5. ASSUME NEW h \in Handlers, LinkRefuse(h) PROVE [Next]_vars
  <2>1. CASE pc[h] \in {"write", "wait"} /\ Quit(h, "broken")
    BY <1>5, <2>1
    DEF LinkRefuse, Next, Handle, Break, netVars, clientVars
  <2>2. CASE UNCHANGED <<pc, seq, tries>>
    BY <1>5, <2>2
    DEF LinkRefuse, vars, serverVars, netVars, clientVars
  <2> QED
    BY <1>5, <2>1, <2>2 DEF LinkRefuse
<1> QED
  BY <1>1, <1>2, <1>3, <1>4, <1>5 DEF LinkNext, LinkHandle

\* Type correctness of the handlers over these links.
THEOREM LinkTypes == LinkSpec => []TypeInv
<1>1. LinkInit => TypeInv
  BY TypeInit DEF LinkInit
<1>2. TypeInv /\ [LinkNext]_allVars => TypeInv'
  BY LinkStepIsStep, TypeStep DEF allVars, vars
<1> QED
  BY <1>1, <1>2, PTL DEF LinkSpec

-----------------------------------------------------------------------------
(* The order on the links                                                  *)

\* A step that leaves a handler and its link alone keeps the order there.
LEMMA OthersInOrder ==
    ASSUME NEW g \in Handlers, InOrder(g),
           pc'[g] = pc[g] \/ pc'[g] # "sent",
           seq'[g] = seq[g], got'[g] = got[g],
           dataQ'[g] = dataQ[g], ackQ'[g] = ackQ[g]
    PROVE  InOrder(g)'
  BY DEF InOrder, OldAck, CurrentAck

\* Nor does taking the first DATA or the first ACK off a link change the order.
LEMMA DropInOrder ==
    ASSUME NEW g \in Handlers, InOrder(g),
           pc'[g] = "sent" => seq[g] \in got[g],
           seq[g] # 0, seq'[g] = seq[g], got'[g] = got[g],
           Len(dataQ[g]) \in Nat, Len(ackQ[g]) \in Nat,
           NEW a \in {0, 1}, NEW b \in {0, 1},
           Len(dataQ'[g]) = Len(dataQ[g]) - a,
           \A i \in 1..Len(dataQ'[g]) : dataQ'[g][i] = dataQ[g][i + a],
           Len(ackQ'[g]) = Len(ackQ[g]) - b,
           \A i \in 1..Len(ackQ'[g]) : ackQ'[g][i] = ackQ[g][i + b]
    PROVE  InOrder(g)'
<1>1. OldAck(g)' = OldAck(g) /\ CurrentAck(g)' = CurrentAck(g)
  BY DEF OldAck, CurrentAck
<1>2. ASSUME NEW i \in 1..Len(dataQ'[g])
      PROVE  /\ dataQ'[g][i] \in {seq'[g] - 1, seq'[g]}
             /\ dataQ'[g][i] = seq'[g] =>
                    \A j \in i..Len(dataQ'[g]) : dataQ'[g][j] = seq'[g]
  BY DEF InOrder
<1>3. ASSUME NEW i \in 1..Len(ackQ'[g])
      PROVE  /\ ackQ'[g][i] \in {OldAck(g), CurrentAck(g)}
             /\ ackQ'[g][i] = CurrentAck(g) =>
                    /\ seq'[g] \in got'[g]
                    /\ \A j \in i..Len(ackQ'[g]) : ackQ'[g][j] = CurrentAck(g)
                    /\ \A j \in 1..Len(dataQ'[g]) : dataQ'[g][j] = seq'[g]
  <2>1. i + b \in 1..Len(ackQ[g]) /\ ackQ'[g][i] = ackQ[g][i + b]
    OBVIOUS
  <2>2. ackQ[g][i + b] \in {OldAck(g), CurrentAck(g)}
    BY <2>1 DEF InOrder
  <2>3. ASSUME ackQ[g][i + b] = CurrentAck(g)
        PROVE  /\ seq[g] \in got[g]
               /\ \A j \in (i + b)..Len(ackQ[g]) : ackQ[g][j] = CurrentAck(g)
               /\ \A j \in 1..Len(dataQ[g]) : dataQ[g][j] = seq[g]
    BY <2>1, <2>3 DEF InOrder
  <2>4. \A j \in i..Len(ackQ'[g]) :
            j + b \in (i + b)..Len(ackQ[g]) /\ ackQ'[g][j] = ackQ[g][j + b]
    OBVIOUS
  <2>5. \A j \in 1..Len(dataQ'[g]) :
            j + a \in 1..Len(dataQ[g]) /\ dataQ'[g][j] = dataQ[g][j + a]
    OBVIOUS
  <2> QED
    BY <2>1, <2>2, <2>3, <2>4, <2>5
<1>4. 1..(seq'[g] - 1) \subseteq got'[g]
  BY DEF InOrder
<1> QED
  BY <1>1, <1>2, <1>3, <1>4 DEF InOrder

LEMMA OrderInit == LinkInit => LinkInv
<1> SUFFICES ASSUME LinkInit PROVE LinkInv
  OBVIOUS
<1>1. QueueTypes
  BY DEF LinkInit, QueueTypes
<1>2. ASSUME NEW h \in Handlers PROVE InOrder(h)
  BY DEF LinkInit, Init, InOrder
<1> QED
  BY <1>1, <1>2 DEF LinkInv

LEMMA SeqIsBlock ==
    ASSUME TypeInv, NEW h \in Handlers, pc[h] \in {"write", "wait"}
    PROVE  seq[h] \in Blocks /\ seq[h] \in Nat \ {0}
  BY TftpAssumption DEF TypeInv, TypeOK, Position, Blocks

LEMMA DialInOrder ==
    ASSUME TypeInv, LinkInv, NEW h \in Handlers, LinkDial(h)
    PROVE  LinkInv'
<1>1. QueueTypes'
  BY DEF LinkDial, linkVars, LinkInv, QueueTypes
<1>2. ASSUME NEW g \in Handlers PROVE InOrder(g)'
  <2>1. CASE g # h \/ Quit(h, "undialled")
    BY <2>1, OthersInOrder
    DEF LinkDial, linkVars, Dial, NextPacket, Quit, netVars, clientVars,
        TypeInv, TypeOK, LinkInv
  <2>2. CASE g = h /\ NextPacket(h)
    <3>1. seq[h] = 0 /\ dataQ'[h] = <<>> /\ ackQ'[h] = <<>>
      BY DEF LinkDial, linkVars, Dial, TypeInv, Position, LinkInv, InOrder
    <3>2. seq'[h] = 1 /\ pc'[h] = "write"
      BY <2>2, <3>1, TftpAssumption DEF NextPacket, TypeInv, TypeOK
    <3> QED
      BY <2>2, <3>1, <3>2 DEF InOrder
  <2> QED
    BY <2>1, <2>2 DEF LinkDial, Dial
<1> QED
  BY <1>1, <1>2 DEF LinkInv

LEMMA WriteInOrder ==
    ASSUME TypeInv, LinkInv, NEW h \in Handlers, LinkWrite(h)
    PROVE  LinkInv'
<1>1. seq[h] \in Blocks /\ seq[h] \in Nat \ {0}
  BY SeqIsBlock DEF LinkWrite, Write
<1>2. QueueTypes'
  BY <1>1 DEF LinkWrite, LinkInv, QueueTypes
<1>3. ASSUME NEW g \in Handlers PROVE InOrder(g)'
  <2>1. CASE g # h
    BY <2>1, OthersInOrder
    DEF LinkWrite, Write, clientVars, TypeInv, TypeOK, LinkInv, QueueTypes
  <2>2. CASE g = h
    <3>1. /\ dataQ'[h] = Append(dataQ[h], seq[h]) /\ dataQ[h] \in Seq(Blocks)
          /\ ackQ'[h] = ackQ[h] /\ seq'[h] = seq[h] /\ got'[h] = got[h]
          /\ pc'[h] = "wait" /\ InOrder(h)
      BY DEF LinkWrite, Write, clientVars, TypeInv, TypeOK, LinkInv, QueueTypes
    <3>2. /\ Len(dataQ'[h]) = Len(dataQ[h]) + 1
          /\ Len(dataQ[h]) \in Nat
          /\ \A i \in 1..Len(dataQ[h]) : dataQ'[h][i] = dataQ[h][i]
          /\ dataQ'[h][Len(dataQ[h]) + 1] = seq[h]
      BY <3>1
    <3>3. OldAck(h)' = OldAck(h) /\ CurrentAck(h)' = CurrentAck(h)
      BY <3>1 DEF OldAck, CurrentAck
    <3>4. ASSUME NEW i \in 1..Len(dataQ'[h])
          PROVE  /\ dataQ'[h][i] \in {seq[h] - 1, seq[h]}
                 /\ dataQ'[h][i] = seq[h] =>
                        \A j \in i..Len(dataQ'[h]) : dataQ'[h][j] = seq[h]
      BY <3>1, <3>2 DEF InOrder
    <3>5. ASSUME NEW i \in 1..Len(ackQ'[h])
          PROVE  /\ ackQ'[h][i] \in {OldAck(h), CurrentAck(h)}
                 /\ ackQ'[h][i] = CurrentAck(h) =>
                        /\ seq[h] \in got[h]
                        /\ \A j \in i..Len(ackQ'[h]) : ackQ'[h][j] = CurrentAck(h)
                        /\ \A j \in 1..Len(dataQ'[h]) : dataQ'[h][j] = seq[h]
      BY <3>1, <3>2 DEF InOrder
    <3>6. 1..(seq'[h] - 1) \subseteq got'[h] /\ seq'[h] # 0
      BY <1>1, <3>1 DEF InOrder
    <3> QED
      BY <2>2, <3>1, <3>3, <3>4, <3>5, <3>6 DEF InOrder
  <2> QED
    BY <2>1, <2>2
<1> QED
  BY <1>2, <1>3 DEF LinkInv

LEMMA TimeoutInOrder ==
    ASSUME TypeInv, LinkInv, NEW h \in Handlers, LinkTimeout(h)
    PROVE  LinkInv'
<1>1. QueueTypes'
  BY DEF LinkTimeout, LinkInv, QueueTypes
<1>2. ASSUME NEW g \in Handlers PROVE InOrder(g)'
  BY OthersInOrder
  DEF LinkTimeout, Timeout, Retry, clientVars, TypeInv, TypeOK, LinkInv
<1> QED
  BY <1>1, <1>2 DEF LinkInv

\* The datagram the handler reads is an ACK of the current block or of the one
\* before it. When it is of the current block, only such ACKs follow it, and the
\* DATA on the way is of that block: the window moves on by one.
LEMMA ReceiveInOrder ==
    ASSUME TypeInv, LinkInv, NEW h \in Handlers, LinkReceive(h)
    PROVE  LinkInv'
<1> DEFINE d == Head(ackQ[h])
<1>1. seq[h] \in Blocks /\ seq[h] \in Nat \ {0}
  BY SeqIsBlock DEF LinkReceive, Receive
<1>2. ackQ[h] \in Seq(Datagrams) /\ ackQ[h] # <<>> /\ dataQ[h] \in Seq(Blocks)
  BY DEF LinkReceive, LinkInv, QueueTypes
<1>3. /\ Len(ackQ[h]) \in Nat \ {0} /\ d = ackQ[h][1]
      /\ Tail(ackQ[h]) \in Seq(Datagrams)
      /\ Len(Tail(ackQ[h])) = Len(ackQ[h]) - 1
      /\ \A i \in 1..Len(Tail(ackQ[h])) : Tail(ackQ[h])[i] = ackQ[h][i + 1]
  BY <1>2
<1>4. /\ ackQ'[h] = Tail(ackQ[h]) /\ dataQ'[h] = dataQ[h] /\ got'[h] = got[h]
      /\ \A g \in Handlers \ {h} : ackQ'[g] = ackQ[g] /\ dataQ'[g] = dataQ[g]
      /\ got' = got
  BY DEF LinkReceive, Receive, clientVars, LinkInv, QueueTypes
<1>5. QueueTypes'
  BY <1>3 DEF LinkReceive, LinkInv, QueueTypes
<1>6. InOrder(h) /\ d \in {OldAck(h), CurrentAck(h)}
  <2>1. InOrder(h)
    BY DEF LinkInv
  <2>2. 1 \in 1..Len(ackQ[h])
    BY <1>3
  <2> QED
    BY <1>3, <2>1, <2>2 DEF InOrder
<1>7. OldAck(h) # CurrentAck(h) /\ d.type = "ack" /\ d # Runt
  BY <1>1, <1>6, AcksDiffer DEF OldAck, CurrentAck, Ack, Runt
<1>8. buf'[h] = d
  BY <1>7 DEF LinkReceive, Receive, Contents, TypeInv, TypeOK
<1>9. Acknowledges(d, seq[h]) <=> d = CurrentAck(h)
  BY <1>6, <1>7 DEF Acknowledges, CurrentAck, OldAck, Ack
<1>10. (d = CurrentAck(h) /\ NextPacket(h)) \/ (d = OldAck(h) /\ Retry(h))
  BY <1>6, <1>7, <1>8, <1>9 DEF LinkReceive, Receive
<1>11. /\ Len(dataQ[h]) \in Nat /\ Len(ackQ[h]) \in Nat
       /\ Len(dataQ'[h]) = Len(dataQ[h]) - 0
       /\ \A i \in 1..Len(dataQ'[h]) : dataQ'[h][i] = dataQ[h][i + 0]
       /\ Len(ackQ'[h]) = Len(ackQ[h]) - 1
       /\ \A i \in 1..Len(ackQ'[h]) : ackQ'[h][i] = ackQ[h][i + 1]
  BY <1>2, <1>3, <1>4
<1>12. ASSUME NEW g \in Handlers PROVE InOrder(g)'
  <2>1. CASE g # h
    BY <1>4, <1>10, <2>1, OthersInOrder
    DEF NextPacket, Quit, Retry, TypeInv, TypeOK, LinkInv
  <2>2. CASE g = h /\ Retry(h)
    <3>1. seq'[h] = seq[h] /\ pc'[h] # "sent"
      BY <2>2 DEF Retry, TypeInv, TypeOK
    <3> QED
      BY <1>1, <1>4, <1>6, <1>11, <2>2, <3>1, DropInOrder
  <2>3. CASE g = h /\ d = CurrentAck(h) /\ NextPacket(h)
    <3>1. /\ seq[h] \in got[h]
          /\ \A i \in 1..Len(ackQ[h]) : ackQ[h][i] = CurrentAck(h)
          /\ \A i \in 1..Len(dataQ[h]) : dataQ[h][i] = seq[h]
      BY <1>3, <1>6, <2>3 DEF InOrder
    <3>2. CASE seq[h] = NumBlocks /\ Quit(h, "sent")
      <4>1. seq'[h] = seq[h]
        BY <3>2 DEF Quit
      <4> QED
        BY <1>1, <1>4, <1>6, <1>11, <2>3, <3>1, <4>1, DropInOrder
    <3>3. CASE seq'[h] = seq[h] + 1 /\ pc'[h] = "write"
      <4>1. OldAck(h)' = CurrentAck(h) /\ OldAck(h)' # CurrentAck(h)'
        BY <1>1, <3>3, AcksDiffer DEF OldAck, CurrentAck
      <4>2. 1..(seq'[h] - 1) \subseteq got'[h]
        BY <1>1, <1>4, <1>6, <3>1, <3>3 DEF InOrder
      <4>3. \A i \in 1..Len(ackQ'[h]) : ackQ'[h][i] = OldAck(h)'
        BY <1>3, <1>4, <3>1, <4>1
      <4>4. \A i \in 1..Len(dataQ'[h]) : dataQ'[h][i] = seq'[h] - 1
        BY <1>1, <1>4, <3>1, <3>3
      <4> QED
        BY <1>1, <2>3, <3>3, <4>1, <4>2, <4>3, <4>4 DEF InOrder
    <3> QED
      BY <2>3, <3>2, <3>3 DEF NextPacket, TypeInv, TypeOK
  <2> QED
    BY <1>10, <2>1, <2>2, <2>3
<1> QED
  BY <1>5, <1>12 DEF LinkInv

\* The first DATA on the link is of the block before the current one, then the
\* client has it already, or of the current one, then all that follows is.
LEMMA ClientInOrder ==
    ASSUME TypeInv, LinkInv, NEW h \in Handlers, LinkClientReceive(h)
    PROVE  LinkInv'
<1> DEFINE k == Head(dataQ[h])
<1>1. dataQ[h] \in Seq(Blocks) /\ dataQ[h] # <<>> /\ ackQ[h] \in Seq(Datagrams)
  BY DEF LinkClientReceive, LinkInv, QueueTypes
<1>2. /\ Len(dataQ[h]) \in Nat \ {0} /\ k = dataQ[h][1] /\ k \in Blocks
      /\ Tail(dataQ[h]) \in Seq(Blocks)
      /\ Len(Tail(dataQ[h])) = Len(dataQ[h]) - 1
      /\ \A i \in 1..Len(Tail(dataQ[h])) : Tail(dataQ[h])[i] = dataQ[h][i + 1]
  BY <1>1
<1> DEFINE a == Ack(BlockNumber(k))
<1>3. a \in Datagrams
  BY <1>2, PacketTypes
<1>4. /\ Len(ackQ[h]) \in Nat
      /\ Append(ackQ[h], a) \in Seq(Datagrams)
      /\ Len(Append(ackQ[h], a)) = Len(ackQ[h]) + 1
      /\ \A i \in 1..Len(ackQ[h]) : Append(ackQ[h], a)[i] = ackQ[h][i]
      /\ Append(ackQ[h], a)[Len(ackQ[h]) + 1] = a
  BY <1>1, <1>3
<1>5. QueueTypes'
  BY <1>2, <1>4 DEF LinkClientReceive, LinkInv, QueueTypes
<1>6. /\ dataQ'[h] = Tail(dataQ[h]) /\ ackQ'[h] = Append(ackQ[h], a)
      /\ got'[h] = got[h] \union {k} /\ pc' = pc /\ seq' = seq
      /\ \A g \in Handlers \ {h} :
            dataQ'[g] = dataQ[g] /\ ackQ'[g] = ackQ[g] /\ got'[g] = got[g]
  BY DEF LinkClientReceive, ClientReceive, serverVars, LinkInv, QueueTypes,
         TypeInv, TypeOK
<1>7. ASSUME NEW g \in Handlers PROVE InOrder(g)'
  <2>1. CASE g # h
    BY <1>6, <2>1, OthersInOrder DEF LinkInv
  <2>2. CASE g = h
    <3>1. InOrder(h) /\ k \in {seq[h] - 1, seq[h]} /\ seq[h] \in Nat \ {0}
      BY <1>1, <1>2 DEF LinkInv, InOrder, TypeInv, TypeOK
    <3>2. OldAck(h) # CurrentAck(h) /\ OldAck(h)' = OldAck(h) /\ CurrentAck(h)' = CurrentAck(h)
      BY <1>6, <3>1, AcksDiffer DEF OldAck, CurrentAck
    <3>3. /\ 1..(seq'[h] - 1) \subseteq got'[h]
          /\ pc'[h] = "sent" => seq'[h] \in got'[h]
          /\ seq'[h] # 0
      BY <1>6, <3>1 DEF InOrder
    <3>4. ASSUME NEW i \in 1..Len(dataQ'[h])
          PROVE  /\ dataQ'[h][i] \in {seq'[h] - 1, seq'[h]}
                 /\ dataQ'[h][i] = seq'[h] =>
                        \A j \in i..Len(dataQ'[h]) : dataQ'[h][j] = seq'[h]
      BY <1>2, <1>6, <3>1 DEF InOrder
    <3>5. CASE k = seq[h]
      <4>1. \A j \in 1..Len(dataQ'[h]) : dataQ'[h][j] = seq[h]
        BY <1>2, <1>6, <3>1, <3>5 DEF InOrder
      <4>2. a = CurrentAck(h) /\ seq[h] \in got'[h]
        BY <1>6, <3>5 DEF CurrentAck
      <4>3. ASSUME NEW i \in 1..Len(ackQ'[h])
            PROVE  /\ ackQ'[h][i] \in {OldAck(h), CurrentAck(h)}
                   /\ ackQ'[h][i] = CurrentAck(h) =>
                          \A j \in i..Len(ackQ'[h]) : ackQ'[h][j] = CurrentAck(h)
        BY <1>4, <1>6, <3>1, <4>2 DEF InOrder
      <4> QED
        BY <1>6, <2>2, <3>2, <3>3, <3>4, <4>1, <4>2, <4>3 DEF InOrder
    <3>6. CASE k = seq[h] - 1
      <4>1. a = OldAck(h)
        BY <3>6 DEF OldAck
      <4>2. \A i \in 1..Len(ackQ[h]) : ackQ[h][i] = OldAck(h)
        BY <1>2, <3>1, <3>6 DEF InOrder
      <4>3. \A i \in 1..Len(ackQ'[h]) : ackQ'[h][i] = OldAck(h)
        BY <1>4, <1>6, <4>1, <4>2
      <4> QED
        BY <1>6, <2>2, <3>2, <3>3, <3>4, <4>3 DEF InOrder
    <3> QED
      BY <3>1, <3>5, <3>6
  <2> QED
    BY <2>1, <2>2
<1> QED
  BY <1>5, <1>7 DEF LinkInv

\* Dropping the first datagram of a link keeps the order of the others.
LEMMA RefuseInOrder ==
    ASSUME TypeInv, LinkInv, NEW h \in Handlers, LinkRefuse(h)
    PROVE  LinkInv'
<1>1. dataQ[h] \in Seq(Blocks) /\ dataQ[h] # <<>>
  BY DEF LinkRefuse, LinkInv, QueueTypes
<1>2. /\ Len(dataQ[h]) \in Nat \ {0}
      /\ Tail(dataQ[h]) \in Seq(Blocks)
      /\ Len(Tail(dataQ[h])) = Len(dataQ[h]) - 1
      /\ \A i \in 1..Len(Tail(dataQ[h])) : Tail(dataQ[h])[i] = dataQ[h][i + 1]
  BY <1>1
<1>3. QueueTypes'
  BY <1>2 DEF LinkRefuse, LinkInv, QueueTypes
<1>4. /\ dataQ'[h] = Tail(dataQ[h]) /\ ackQ' = ackQ /\ got' = got /\ seq' = seq
      /\ pc'[h] = pc[h] \/ pc'[h] = "broken"
      /\ \A g \in Handlers \ {h} : dataQ'[g] = dataQ[g] /\ pc'[g] = pc[g]
  BY DEF LinkRefuse, Quit, LinkInv, QueueTypes, TypeInv, TypeOK
<1>5. ASSUME NEW g \in Handlers PROVE InOrder(g)'
  <2>1. CASE g # h
    BY <1>4, <2>1, OthersInOrder DEF LinkInv
  <2>2. CASE g = h
    <3>1. InOrder(h) /\ seq[h] # 0 /\ Len(ackQ[h]) \in Nat
      BY <1>1 DEF LinkInv, InOrder, QueueTypes
    <3>2. pc'[h] = "sent" => seq[h] \in got[h]
      BY <1>4, <3>1 DEF InOrder
    <3>3. /\ Len(dataQ[h]) \in Nat
          /\ Len(dataQ'[h]) = Len(dataQ[h]) - 1
          /\ \A i \in 1..Len(dataQ'[h]) : dataQ'[h][i] = dataQ[h][i + 1]
          /\ Len(ackQ'[h]) = Len(ackQ[h]) - 0
          /\ \A i \in 1..Len(ackQ'[h]) : ackQ'[h][i] = ackQ[h][i + 0]
      BY <1>2, <1>4, <3>1
    <3> QED
      BY <1>4, <2>2, <3>1, <3>2, <3>3, DropInOrder
  <2> QED
    BY <2>1, <2>2
<1> QED
  BY <1>3, <1>5 DEF LinkInv

LEMMA OrderStep == TypeInv /\ LinkInv /\ [LinkNext]_allVars => LinkInv'
<1> SUFFICES ASSUME TypeInv, LinkInv, [LinkNext]_allVars PROVE LinkInv'
  OBVIOUS
<1>1. CASE LinkRequest \/ UNCHANGED allVars
  BY <1>1 DEF LinkRequest, Request, allVars, linkVars, vars, serverVars, clientVars,
              LinkInv, QueueTypes, InOrder, OldAck, CurrentAck
<1>2. ASSUME NEW h \in Handlers, LinkAccept(h) PROVE LinkInv'
  BY <1>2, OthersInOrder
  DEF LinkAccept, Accept, linkVars, clientVars, LinkInv, QueueTypes, TypeInv, TypeOK
<1> QED
  BY <1>1, <1>2, DialInOrder, WriteInOrder, TimeoutInOrder, ReceiveInOrder,
     ClientInOrder, RefuseInOrder
  DEF LinkNext, LinkHandle

\* The links keep their order in every behaviour.
THEOREM OrderInvariant == LinkSpec => [](TypeInv /\ LinkInv)
<1> QED
  BY OrderInit, OrderStep, LinkTypes, PTL DEF LinkSpec

\* Only two neighbouring blocks are ever on a link, however long the payload
\* and however often its block numbers wrap around.
THEOREM WrapAroundSafe == LinkSpec => []TwoBlockWindow
<1>1. LinkInv => TwoBlockWindow
  <2> SUFFICES ASSUME LinkInv, NEW h \in Handlers
               PROVE  /\ \A i \in DOMAIN dataQ[h] : dataQ[h][i] \in {seq[h] - 1, seq[h]}
                      /\ \A i \in DOMAIN ackQ[h] : ackQ[h][i] \in {OldAck(h), CurrentAck(h)}
    BY DEF TwoBlockWindow, OldAck, CurrentAck
  <2>1. DOMAIN dataQ[h] = 1..Len(dataQ[h]) /\ DOMAIN ackQ[h] = 1..Len(ackQ[h])
    BY DEF LinkInv, QueueTypes
  <2> QED
    BY <2>1 DEF LinkInv, InOrder
<1> QED
  BY <1>1, OrderInvariant, PTL

\* A handler that reports success has delivered every block, also when there are
\* more blocks than block numbers.
THEOREM LongTransfersComplete == LinkSpec => []SentMeansDelivered
<1>1. TypeInv /\ LinkInv => SentMeansDelivered
  <2> SUFFICES ASSUME TypeInv, LinkInv, NEW h \in Handlers, pc[h] = "sent"
               PROVE  got[h] = Blocks
    BY DEF SentMeansDelivered
  <2>1. seq[h] = NumBlocks /\ got[h] \subseteq Blocks
    BY DEF TypeInv, TypeOK, Position
  <2>2. 1..(NumBlocks - 1) \subseteq got[h] /\ NumBlocks \in got[h]
    BY <2>1 DEF LinkInv, InOrder
  <2>3. \A k \in 1..NumBlocks : k = NumBlocks \/ k \in 1..(NumBlocks - 1)
    BY TftpAssumption
  <2> QED
    BY <2>1, <2>2, <2>3 DEF Blocks
<1> QED
  BY <1>1, OrderInvariant, PTL

-----------------------------------------------------------------------------
(* How many datagrams there are                                            *)

\* What a step can do to one handler and its link.
Untouched(g) ==
    /\ pc'[g] = pc[g] /\ seq'[g] = seq[g] /\ tries'[g] = tries[g]
    /\ timeouts'[g] = timeouts[g]
    /\ dataQ'[g] = dataQ[g] /\ ackQ'[g] = ackQ[g]

Begins(g) ==
    /\ pc[g] # "wait" /\ pc'[g] # "wait"
    /\ timeouts'[g] = timeouts[g] /\ dataQ'[g] = dataQ[g] /\ ackQ'[g] = ackQ[g]
    /\ \/ seq'[g] = seq[g] /\ tries'[g] = tries[g] /\ pc'[g] # "exhausted"
       \/ seq[g] = 0 /\ seq'[g] = 1 /\ tries'[g] = Retries /\ pc'[g] = "write"

Sends(g) ==
    /\ pc[g] = "write" /\ pc'[g] = "wait" /\ seq[g] \in Blocks
    /\ seq'[g] = seq[g] /\ tries'[g] = tries[g] /\ timeouts'[g] = timeouts[g]
    /\ dataQ'[g] = Append(dataQ[g], seq[g]) /\ ackQ'[g] = ackQ[g]

\* A try less, and no tries left after the last one.
UsesTry(g) ==
    /\ seq'[g] = seq[g] /\ tries'[g] = tries[g] - 1
    /\ pc'[g] = IF tries[g] > 1 THEN "write" ELSE "exhausted"

MissesDeadline(g) ==
    /\ pc[g] = "wait" /\ UsesTry(g)
    /\ timeouts'[g] = timeouts[g] + 1
    /\ dataQ'[g] = dataQ[g] /\ ackQ'[g] = ackQ[g]

Advances(g) ==
    \/ seq'[g] = seq[g] /\ tries'[g] = tries[g] /\ pc'[g] = "sent"
    \/ seq'[g] = seq[g] + 1 /\ tries'[g] = Retries /\ pc'[g] = "write"

Hears(g) ==
    /\ pc[g] = "wait" /\ ackQ[g] # <<>>
    /\ timeouts'[g] = timeouts[g]
    /\ dataQ'[g] = dataQ[g] /\ ackQ'[g] = Tail(ackQ[g])
    /\ \/ Head(ackQ[g]) = CurrentAck(g) /\ Advances(g)
       \/ Head(ackQ[g]) = OldAck(g) /\ UsesTry(g)

Answered(g) ==
    /\ dataQ[g] # <<>> /\ client = "reading"
    /\ pc'[g] = pc[g] /\ seq'[g] = seq[g] /\ tries'[g] = tries[g]
    /\ timeouts'[g] = timeouts[g]
    /\ dataQ'[g] = Tail(dataQ[g])
    /\ ackQ'[g] = Append(ackQ[g], Ack(BlockNumber(Head(dataQ[g]))))

Refused(g) ==
    /\ dataQ[g] # <<>> /\ client = "closed"
    /\ pc'[g] = pc[g] \/ (pc[g] \in {"write", "wait"} /\ pc'[g] = "broken")
    /\ seq'[g] = seq[g] /\ tries'[g] = tries[g] /\ timeouts'[g] = timeouts[g]
    /\ dataQ'[g] = Tail(dataQ[g]) /\ ackQ'[g] = ackQ[g]

Unanswered(g) ==
    \/ Untouched(g) \/ Begins(g) \/ Sends(g) \/ MissesDeadline(g)
    \/ Hears(g) \/ Refused(g)

Kind(g) == Unanswered(g) \/ Answered(g)

TimeoutTypes == timeouts \in [Handlers -> Nat]

\* The datagram a handler reads advances it or uses up a try.
LEMMA HeardKind ==
    ASSUME TypeInv, LinkInv, TimeoutTypes, NEW h \in Handlers, LinkReceive(h),
           NEW g \in Handlers
    PROVE  Unanswered(g)
<1> DEFINE d == Head(ackQ[h])
<1>1. seq[h] \in Blocks /\ seq[h] \in Nat \ {0}
  BY SeqIsBlock DEF LinkReceive, Receive
<1>2. InOrder(h) /\ ackQ[h] \in Seq(Datagrams) /\ ackQ[h] # <<>>
  BY DEF LinkReceive, LinkInv, QueueTypes
<1>3. d = ackQ[h][1] /\ 1 \in 1..Len(ackQ[h])
  BY <1>2
<1>4. d \in {OldAck(h), CurrentAck(h)}
  BY <1>2, <1>3 DEF InOrder
<1>5. OldAck(h) # CurrentAck(h) /\ d.type = "ack" /\ d # Runt
  BY <1>1, <1>4, AcksDiffer DEF OldAck, CurrentAck, Ack, Runt
<1>6. buf'[h] = d
  BY <1>5 DEF LinkReceive, Receive, Contents, TypeInv, TypeOK
<1>7. Acknowledges(d, seq[h]) <=> d = CurrentAck(h)
  BY <1>4, <1>5 DEF Acknowledges, CurrentAck, OldAck, Ack
<1>8. (d = CurrentAck(h) /\ NextPacket(h)) \/ (d = OldAck(h) /\ Retry(h))
  BY <1>4, <1>5, <1>6, <1>7 DEF LinkReceive, Receive
<1>9. NextPacket(h) => Advances(h)
  BY DEF NextPacket, Quit, Advances, TypeInv, TypeOK
<1>10. Retry(h) => UsesTry(h)
  BY DEF Retry, UsesTry, TypeInv, TypeOK
<1>11. /\ pc[h] = "wait" /\ timeouts' = timeouts /\ dataQ' = dataQ
       /\ ackQ'[h] = Tail(ackQ[h])
  BY DEF LinkReceive, Receive, LinkInv, QueueTypes
<1>12. CASE g = h
  <2>1. Hears(h)
    BY <1>2, <1>8, <1>9, <1>10, <1>11 DEF Hears
  <2> QED
    BY <1>12, <2>1 DEF Unanswered
<1>13. CASE g # h
  <2>1. ackQ'[g] = ackQ[g]
    BY <1>13 DEF LinkReceive, LinkInv, QueueTypes
  <2>2. pc'[g] = pc[g] /\ seq'[g] = seq[g] /\ tries'[g] = tries[g]
    BY <1>8, <1>13 DEF NextPacket, Quit, Retry, TypeInv, TypeOK
  <2> QED
    BY <1>11, <2>1, <2>2 DEF Untouched, Unanswered
<1> QED
  BY <1>12, <1>13

LEMMA OtherKinds ==
    ASSUME TypeInv, LinkInv, TimeoutTypes, LinkNext, NEW g \in Handlers,
           \A h \in Handlers : ~LinkClientReceive(h)
    PROVE  Unanswered(g)
<1>1. CASE LinkRequest
  BY <1>1 DEF LinkRequest, Request, linkVars, serverVars, Untouched, Unanswered
<1>2. ASSUME NEW h \in Handlers, LinkAccept(h) PROVE Unanswered(g)
  BY <1>2 DEF LinkAccept, Accept, linkVars, Untouched, Begins, Unanswered, TypeInv, TypeOK
<1>3. ASSUME NEW h \in Handlers, LinkDial(h) PROVE Unanswered(g)
  <2>1. timeouts' = timeouts /\ dataQ' = dataQ /\ ackQ' = ackQ /\ pc[h] = "dial"
    BY <1>3 DEF LinkDial, Dial, linkVars
  <2>2. seq[h] = 0
    BY <2>1 DEF TypeInv, Position
  <2>3. NextPacket(h) \/ Quit(h, "undialled")
    BY <1>3 DEF LinkDial, Dial
  <2>4. CASE g = h
    <3>1. Begins(h)
      BY <2>1, <2>2, <2>3, TftpAssumption DEF NextPacket, Quit, Begins, TypeInv, TypeOK
    <3> QED
      BY <2>4, <3>1 DEF Unanswered
  <2>5. CASE g # h
    <3>1. Untouched(g)
      BY <2>1, <2>3, <2>5 DEF NextPacket, Quit, Untouched, TypeInv, TypeOK
    <3> QED
      BY <3>1 DEF Unanswered
  <2> QED
    BY <2>4, <2>5
<1>4. ASSUME NEW h \in Handlers, LinkWrite(h) PROVE Unanswered(g)
  <2>1. seq[h] \in Blocks
    BY <1>4, SeqIsBlock DEF LinkWrite, Write
  <2> QED
    BY <1>4, <2>1
    DEF LinkWrite, Write, Untouched, Sends, Unanswered, TypeInv, TypeOK, LinkInv, QueueTypes
<1>5. ASSUME NEW h \in Handlers, LinkTimeout(h) PROVE Unanswered(g)
  <2>1. CASE g = h
    <3>1. MissesDeadline(h)
      BY <1>5
      DEF LinkTimeout, Timeout, Retry, UsesTry, MissesDeadline, TypeInv, TypeOK, TimeoutTypes
    <3> QED
      BY <2>1, <3>1 DEF Unanswered
  <2>2. CASE g # h
    BY <1>5, <2>2
    DEF LinkTimeout, Timeout, Retry, Untouched, Unanswered, TypeInv, TypeOK, TimeoutTypes
  <2> QED
    BY <2>1, <2>2
<1>6. ASSUME NEW h \in Handlers, LinkRefuse(h) PROVE Unanswered(g)
  <2>1. CASE g = h
    <3>1. Refused(h)
      <4>1. /\ dataQ[h] # <<>> /\ client = "closed" /\ timeouts' = timeouts
            /\ dataQ'[h] = Tail(dataQ[h]) /\ ackQ' = ackQ /\ seq' = seq /\ tries' = tries
        BY <1>6 DEF LinkRefuse, Quit, LinkInv, QueueTypes
      <4>2. pc'[h] = pc[h] \/ (pc[h] \in {"write", "wait"} /\ pc'[h] = "broken")
        <5>1. CASE pc[h] \in {"write", "wait"} /\ Quit(h, "broken")
          BY <5>1 DEF Quit, TypeInv, TypeOK
        <5>2. CASE pc' = pc
          BY <5>2
        <5> QED
          BY <1>6, <5>1, <5>2 DEF LinkRefuse
      <4> QED
        BY <4>1, <4>2 DEF Refused
    <3> QED
      BY <2>1, <3>1 DEF Unanswered
  <2>2. CASE g # h
    BY <1>6, <2>2
    DEF LinkRefuse, Quit, Untouched, Unanswered, LinkInv, QueueTypes, TypeInv, TypeOK
  <2> QED
    BY <2>1, <2>2
<1> QED
  BY <1>1, <1>2, <1>3, <1>4, <1>5, <1>6, HeardKind DEF LinkNext, LinkHandle

LEMMA ClientKinds ==
    ASSUME TypeInv, LinkInv, NEW h \in Handlers, LinkClientReceive(h)
    PROVE  Answered(h) /\ \A g \in Handlers \ {h} : Untouched(g)
  BY DEF LinkClientReceive, ClientReceive, serverVars, Answered, Untouched, LinkInv, QueueTypes

LEMMA StepKinds ==
    ASSUME TypeInv, LinkInv, TimeoutTypes, LinkNext, NEW g \in Handlers
    PROVE  Kind(g)
<1>1. CASE \A h \in Handlers : ~LinkClientReceive(h)
  BY <1>1, OtherKinds DEF Kind
<1>2. ASSUME NEW h \in Handlers, LinkClientReceive(h) PROVE Kind(g)
  BY <1>2, ClientKinds DEF Kind, Unanswered
<1> QED
  BY <1>1, <1>2

LEMMA TimeoutTypesStep ==
    ASSUME TimeoutTypes, [LinkNext]_allVars
    PROVE  TimeoutTypes'
  BY DEF TimeoutTypes, LinkNext, LinkRequest, LinkAccept, LinkHandle, LinkDial, LinkWrite,
         LinkTimeout, LinkReceive, LinkClientReceive, LinkRefuse, linkVars, allVars

\* A client that has closed does not open again.
LEMMA ClientStaysClosed ==
    ASSUME [LinkNext]_allVars, client' = "reading"
    PROVE  client = "reading"
<1>1. CASE UNCHANGED allVars
  BY <1>1 DEF allVars, vars, clientVars
<1>2. CASE LinkRequest
  BY <1>2 DEF LinkRequest, Request
<1>3. ASSUME NEW h \in Handlers, LinkAccept(h) \/ LinkHandle(h) PROVE client' = client
  BY <1>3 DEF LinkAccept, LinkHandle, LinkDial, LinkWrite, LinkTimeout, LinkReceive,
              Accept, Dial, Write, Timeout, Receive, clientVars
<1>4. ASSUME NEW h \in Handlers, LinkClientReceive(h) PROVE client = "reading"
  BY <1>4 DEF LinkClientReceive, ClientReceive
<1>5. ASSUME NEW h \in Handlers, LinkRefuse(h) PROVE client' = client
  BY <1>5 DEF LinkRefuse
<1> QED
  BY <1>1, <1>2, <1>3, <1>4, <1>5 DEF LinkNext

-----------------------------------------------------------------------------
\* Lengths of a queue that lost its first or gained a last element.
LEMMA TailLen ==
    ASSUME NEW T, NEW s \in Seq(T), s # <<>>
    PROVE  \E n \in Nat : /\ Len(s) = n + 1 /\ Len(Tail(s)) = n /\ Head(s) = s[1]
                          /\ \A i \in 1..n : Tail(s)[i] = s[i + 1]
<1>1. Len(s) \in Nat /\ Len(s) # 0
  OBVIOUS
<1> DEFINE n == Len(s) - 1
<1>2. n \in Nat /\ Len(s) = n + 1
  BY <1>1
<1>3. /\ Len(Tail(s)) = n /\ Head(s) = s[1]
      /\ \A i \in 1..n : Tail(s)[i] = s[i + 1]
  BY HeadTailProperties, <1>2
<1> QED
  BY <1>2, <1>3

LEMMA AppendLen ==
    ASSUME NEW T, NEW s \in Seq(T), NEW e \in T
    PROVE  \E n \in Nat : /\ Len(s) = n /\ Len(Append(s, e)) = n + 1
                          /\ \A i \in 1..n : Append(s, e)[i] = s[i]
                          /\ Append(s, e)[n + 1] = e
<1>1. Len(s) \in Nat
  OBVIOUS
<1> QED
  BY <1>1, AppendProperties

LEMMA QueueLen ==
    ASSUME LinkInv, NEW g \in Handlers
    PROVE  /\ dataQ[g] \in Seq(Blocks) /\ ackQ[g] \in Seq(Datagrams)
           /\ \E n \in Nat : Len(dataQ[g]) = n
           /\ \E n \in Nat : Len(ackQ[g]) = n
  BY DEF LinkInv, QueueTypes

\* What is on the way changes with the deadlines and the place of the handler: by
\* the datagram written, by the one read, and by those refused.
Waiting(g) == IF pc[g] = "wait" THEN 1 ELSE 0

LEMMA FlightStep ==
    ASSUME LinkInv, TimeoutTypes, NEW g \in Handlers, Kind(g)
    PROVE  /\ InFlight(g) \in Int /\ timeouts[g] \in Int /\ Waiting(g) \in Int
           /\ InFlight(g)' \in Int /\ timeouts'[g] \in Int /\ Waiting(g)' \in Int
           /\ InFlight(g)' - timeouts'[g] - Waiting(g)'
                 <= InFlight(g) - timeouts[g] - Waiting(g)
           /\ ~Refused(g) =>
                 InFlight(g)' - timeouts'[g] - Waiting(g)'
                    = InFlight(g) - timeouts[g] - Waiting(g)
<1>1. /\ dataQ[g] \in Seq(Blocks) /\ ackQ[g] \in Seq(Datagrams)
  BY QueueLen
<1>2. PICK a \in Nat : Len(dataQ[g]) = a
  BY QueueLen
<1>3. PICK b \in Nat : Len(ackQ[g]) = b
  BY QueueLen
<1>4. PICK t \in Nat : timeouts[g] = t
  BY DEF TimeoutTypes
<1> DEFINE lens(c, d) == Len(dataQ'[g]) = c /\ Len(ackQ'[g]) = d
<1>5. InFlight(g) = a + b
  BY <1>2, <1>3 DEF InFlight
<1>6. ASSUME NEW c \in Nat, NEW d \in Nat, lens(c, d) PROVE InFlight(g)' = c + d
  BY <1>6 DEF InFlight
<1>7. CASE Untouched(g) \/ Begins(g)
  <2>1. lens(a, b) /\ timeouts'[g] = t /\ Waiting(g)' = Waiting(g)
    BY <1>2, <1>3, <1>4, <1>7 DEF Untouched, Begins, Waiting
  <2> QED
    BY <1>4, <1>5, <1>6, <2>1 DEF Waiting
<1>8. CASE Sends(g)
  <2>1. seq[g] \in Blocks /\ dataQ'[g] = Append(dataQ[g], seq[g])
    BY <1>8 DEF Sends
  <2>2. Len(dataQ'[g]) = a + 1
    BY <1>1, <1>2, <2>1, AppendLen
  <2>3. lens(a + 1, b) /\ timeouts'[g] = t /\ Waiting(g)' = 1 /\ Waiting(g) = 0
    BY <1>3, <1>4, <1>8, <2>2 DEF Sends, Waiting
  <2> QED
    BY <1>4, <1>5, <1>6, <2>3
<1>9. CASE MissesDeadline(g)
  <2>1. lens(a, b) /\ timeouts'[g] = t + 1 /\ Waiting(g)' = 0 /\ Waiting(g) = 1
    BY <1>2, <1>3, <1>4, <1>9 DEF MissesDeadline, UsesTry, Waiting
  <2> QED
    BY <1>4, <1>5, <1>6, <2>1
<1>10. CASE Hears(g)
  <2>1. PICK n \in Nat : Len(ackQ[g]) = n + 1 /\ Len(Tail(ackQ[g])) = n
    BY <1>1, <1>10, TailLen DEF Hears
  <2>2. lens(a, n) /\ timeouts'[g] = t /\ Waiting(g)' = 0 /\ Waiting(g) = 1
    BY <1>2, <1>4, <1>10, <2>1 DEF Hears, UsesTry, Advances, Waiting
  <2>3. b = n + 1
    BY <1>3, <2>1
  <2> QED
    BY <1>4, <1>5, <1>6, <2>2, <2>3
<1>11. CASE Answered(g)
  <2>1. PICK n \in Nat : /\ Len(dataQ[g]) = n + 1 /\ Len(Tail(dataQ[g])) = n
                         /\ Head(dataQ[g]) = dataQ[g][1]
    BY <1>1, <1>11, TailLen DEF Answered
  <2>2. Head(dataQ[g]) \in Blocks
    BY <1>1, <1>11 DEF Answered
  <2>3. Len(ackQ'[g]) = b + 1
    BY <1>1, <1>3, <1>11, <2>2, AppendLen, PacketTypes DEF Answered
  <2>4. lens(n, b + 1) /\ timeouts'[g] = t /\ Waiting(g)' = Waiting(g)
    BY <1>4, <1>11, <2>1, <2>3 DEF Answered, Waiting
  <2>5. a = n + 1
    BY <1>2, <2>1
  <2> QED
    BY <1>4, <1>5, <1>6, <2>4, <2>5 DEF Waiting
<1>12. CASE Refused(g)
  <2>1. PICK n \in Nat : Len(dataQ[g]) = n + 1 /\ Len(Tail(dataQ[g])) = n
    BY <1>1, <1>12, TailLen DEF Refused
  <2>2. lens(n, b) /\ timeouts'[g] = t
    BY <1>3, <1>4, <1>12, <2>1 DEF Refused
  <2>3. Waiting(g) \in {0, 1} /\ Waiting(g)' \in {0, 1}
        /\ Waiting(g) <= Waiting(g)' + 1
    BY DEF Waiting
  <2>4. a = n + 1
    BY <1>2, <2>1
  <2> QED
    BY <1>4, <1>5, <1>6, <1>12, <2>2, <2>3, <2>4
<1> QED
  BY <1>7, <1>8, <1>9, <1>10, <1>11, <1>12 DEF Kind, Unanswered

-----------------------------------------------------------------------------
(* The budget of tries                                                     *)

LEMMA TriesUsedNat ==
    ASSUME TypeInv, NEW g \in Handlers
    PROVE  TriesUsed(g) \in Nat /\ tries[g] \in Nat
  BY TftpAssumption DEF TriesUsed, TypeInv, TypeOK

\* The budget with names for its numbers.
LEMMA BudgetOpen ==
    ASSUME NEW g \in Handlers, Budget(g), seq[g] # 0, NEW u, NEW t, NEW n, NEW m,
           TriesUsed(g) = u, timeouts[g] = t, Len(ackQ[g]) = n, Len(dataQ[g]) = m
    PROVE  /\ u <= t
           /\ \A i \in 1..n : ackQ[g][i] = OldAck(g) => u + i <= t
           /\ \A i \in 1..m : dataQ[g][i] = seq[g] - 1 => u + n + i <= t
  BY DEF Budget

LEMMA BudgetClose ==
    ASSUME NEW g \in Handlers, NEW u, NEW t, NEW n, NEW m,
           TriesUsed(g)' = u, timeouts'[g] = t, Len(ackQ'[g]) = n, Len(dataQ'[g]) = m,
           u <= t,
           \A i \in 1..n : ackQ'[g][i] = OldAck(g)' => u + i <= t,
           \A i \in 1..m : dataQ'[g][i] = seq'[g] - 1 => u + n + i <= t
    PROVE  Budget(g)'
  BY DEF Budget

\* What is old on the link moves towards its end, and only then uses up a try.
LEMMA BudgetStep ==
    ASSUME TypeInv, LinkInv, TimeoutTypes, NEW g \in Handlers,
           Budget(g), AtMostInFlight(g), Kind(g)
    PROVE  Budget(g)'
<1>1. dataQ[g] \in Seq(Blocks) /\ ackQ[g] \in Seq(Datagrams)
  BY QueueLen
<1>2. PICK m \in Nat : Len(dataQ[g]) = m
  BY QueueLen
<1>3. PICK n \in Nat : Len(ackQ[g]) = n
  BY QueueLen
<1>4. PICK t \in Nat : timeouts[g] = t
  BY DEF TimeoutTypes
<1>5. PICK u \in Nat : TriesUsed(g) = u
  BY TriesUsedNat
<1>6. seq[g] # 0 =>
         /\ u <= t
         /\ \A i \in 1..n : ackQ[g][i] = OldAck(g) => u + i <= t
         /\ \A i \in 1..m : dataQ[g][i] = seq[g] - 1 => u + n + i <= t
  BY <1>2, <1>3, <1>4, <1>5, BudgetOpen
<1>7. seq'[g] = seq[g] => OldAck(g)' = OldAck(g)
  BY DEF OldAck
<1>8. tries'[g] = tries[g] => TriesUsed(g)' = u
  BY <1>5 DEF TriesUsed
<1>9. tries'[g] = Retries => TriesUsed(g)' = 0
  BY TftpAssumption DEF TriesUsed
<1>10. UsesTry(g) => TriesUsed(g)' = u + 1
  BY <1>5, TriesUsedNat, TftpAssumption DEF UsesTry, TriesUsed
<1>11. pc[g] \in {"write", "wait"} => seq[g] \in Nat \ {0} /\ seq[g] \in Blocks
  BY SeqIsBlock
<1>12. seq[g] = 0 => m = 0 /\ n = 0
  <2>1. InOrder(g)
    BY DEF LinkInv
  <2> QED
    BY <1>2, <1>3, <2>1 DEF InOrder
<1>13. CASE Untouched(g)
  BY <1>13 DEF Untouched, Budget, TriesUsed, OldAck
<1>14. CASE Begins(g)
  <2>1. CASE seq'[g] = seq[g] /\ tries'[g] = tries[g]
    BY <1>14, <2>1 DEF Begins, Budget, TriesUsed, OldAck
  <2>2. CASE seq[g] = 0 /\ tries'[g] = Retries
    <3>1. Len(ackQ'[g]) = 0 /\ Len(dataQ'[g]) = 0 /\ timeouts'[g] = t /\ TriesUsed(g)' = 0
      BY <1>2, <1>3, <1>4, <1>9, <1>12, <1>14, <2>2 DEF Begins
    <3>2. 0 <= t /\ \A i \in 1..0 : FALSE
      OBVIOUS
    <3> QED
      BY <3>1, <3>2 DEF Budget
  <2> QED
    BY <1>14, <2>1, <2>2 DEF Begins
<1>15. CASE Sends(g)
  <2>1. seq[g] \in Blocks /\ dataQ'[g] = Append(dataQ[g], seq[g])
    BY <1>15 DEF Sends
  <2>2. /\ Len(dataQ'[g]) = m + 1 /\ dataQ'[g][m + 1] = seq[g]
        /\ \A i \in 1..m : dataQ'[g][i] = dataQ[g][i]
    BY <1>1, <1>2, <2>1, AppendLen
  <2>3. /\ seq[g] \in Nat \ {0} /\ seq'[g] = seq[g] /\ ackQ'[g] = ackQ[g]
        /\ timeouts'[g] = t /\ TriesUsed(g)' = u
    BY <1>4, <1>8, <1>11, <1>15 DEF Sends
  <2>4. \A i \in 1..(m + 1) : dataQ'[g][i] = seq'[g] - 1 => u + n + i <= t
    BY <1>6, <2>2, <2>3
  <2>5. \A i \in 1..n : ackQ'[g][i] = OldAck(g)' => u + i <= t
    BY <1>6, <1>7, <2>3
  <2>6. Len(ackQ'[g]) = n /\ u <= t
    BY <1>3, <1>6, <2>3
  <2> QED
    BY <2>2, <2>3, <2>4, <2>5, <2>6, BudgetClose
<1>16. CASE MissesDeadline(g)
  <2>1. /\ seq[g] \in Nat \ {0} /\ seq'[g] = seq[g] /\ ackQ'[g] = ackQ[g]
        /\ dataQ'[g] = dataQ[g]
        /\ timeouts'[g] = t + 1 /\ TriesUsed(g)' = u + 1
    BY <1>4, <1>10, <1>11, <1>16 DEF MissesDeadline, UsesTry
  <2>2. /\ \A i \in 1..n : ackQ'[g][i] = OldAck(g)' => u + 1 + i <= t + 1
        /\ \A i \in 1..m : dataQ'[g][i] = seq'[g] - 1 => u + 1 + n + i <= t + 1
        /\ u + 1 <= t + 1
    BY <1>6, <1>7, <2>1
  <2>3. Len(ackQ'[g]) = n /\ Len(dataQ'[g]) = m
    BY <1>2, <1>3, <2>1
  <2> QED
    BY <2>1, <2>2, <2>3, BudgetClose
<1>17. CASE Hears(g)
  <2>1. PICK k \in Nat : /\ Len(ackQ[g]) = k + 1 /\ Len(Tail(ackQ[g])) = k
                         /\ Head(ackQ[g]) = ackQ[g][1]
                         /\ \A i \in 1..k : Tail(ackQ[g])[i] = ackQ[g][i + 1]
    BY <1>1, <1>17, TailLen DEF Hears
  <2>2. n = k + 1
    BY <1>3, <2>1
  <2>3. /\ seq[g] \in Nat \ {0} /\ ackQ'[g] = Tail(ackQ[g]) /\ dataQ'[g] = dataQ[g]
        /\ timeouts'[g] = t /\ Len(ackQ'[g]) = k /\ Len(dataQ'[g]) = m
    BY <1>2, <1>4, <1>11, <1>17, <2>1 DEF Hears
  <2>4. CASE Head(ackQ[g]) = OldAck(g) /\ UsesTry(g)
    <3>1. TriesUsed(g)' = u + 1 /\ seq'[g] = seq[g]
      BY <1>10, <2>4 DEF UsesTry
    <3>2. u + 1 <= t
      BY <1>6, <2>1, <2>2, <2>3, <2>4
    <3>3. \A i \in 1..k : ackQ'[g][i] = OldAck(g)' => u + 1 + i <= t
      BY <1>6, <1>7, <2>1, <2>2, <2>3, <3>1
    <3>4. \A i \in 1..m : dataQ'[g][i] = seq'[g] - 1 => u + 1 + k + i <= t
      BY <1>6, <2>2, <2>3, <3>1
    <3> QED
      BY <2>3, <3>1, <3>2, <3>3, <3>4, BudgetClose
  <2>5. CASE seq'[g] = seq[g] /\ tries'[g] = tries[g]
    <3>1. ASSUME NEW i \in 1..k, ackQ'[g][i] = OldAck(g)' PROVE u + i <= t
      <4>1. i + 1 \in 1..n /\ ackQ[g][i + 1] = OldAck(g)
        BY <1>7, <2>1, <2>2, <2>3, <2>5, <3>1
      <4>2. u + (i + 1) <= t
        BY <1>6, <2>3, <4>1
      <4> QED
        BY <4>2
    <3>2. \A i \in 1..m : dataQ'[g][i] = seq'[g] - 1 => u + k + i <= t
      BY <1>6, <2>2, <2>3, <2>5
    <3>3. u <= t
      BY <1>6, <2>3
    <3> QED
      BY <1>8, <2>3, <2>5, <3>1, <3>2, <3>3, BudgetClose
  <2>6. CASE seq'[g] = seq[g] + 1 /\ tries'[g] = Retries
    <3>1. m + (k + 1) <= t + 1
      BY <1>2, <1>3, <1>4, <1>17, <2>2 DEF AtMostInFlight, InFlight, Hears
    <3>2. \A i \in 1..k : 0 + i <= t
      BY <3>1
    <3>3. \A i \in 1..m : 0 + k + i <= t
      BY <3>1
    <3>4. 0 <= t /\ TriesUsed(g)' = 0
      BY <1>9, <2>6
    <3> QED
      BY <2>3, <3>2, <3>3, <3>4 DEF Budget
  <2> QED
    BY <1>17, <2>4, <2>5, <2>6 DEF Hears, Advances
<1>18. CASE Answered(g)
  <2> DEFINE b == Head(dataQ[g])
             a == Ack(BlockNumber(b))
  <2>1. PICK k \in Nat : /\ Len(dataQ[g]) = k + 1 /\ Len(Tail(dataQ[g])) = k
                         /\ b = dataQ[g][1]
                         /\ \A i \in 1..k : Tail(dataQ[g])[i] = dataQ[g][i + 1]
    BY <1>1, <1>18, TailLen DEF Answered
  <2>2. m = k + 1
    BY <1>2, <2>1
  <2>3. b \in Blocks /\ a \in Datagrams
    BY <1>1, <1>18, PacketTypes DEF Answered
  <2>4. /\ seq'[g] = seq[g] /\ dataQ'[g] = Tail(dataQ[g]) /\ ackQ'[g] = Append(ackQ[g], a)
        /\ timeouts'[g] = t /\ TriesUsed(g)' = u /\ Len(dataQ'[g]) = k
    BY <1>4, <1>8, <1>18, <2>1 DEF Answered
  <2> HIDE DEF a
  <2>5. /\ Len(ackQ'[g]) = n + 1 /\ ackQ'[g][n + 1] = a
        /\ \A i \in 1..n : ackQ'[g][i] = ackQ[g][i]
    BY <1>1, <1>3, <2>3, <2>4, AppendLen
  <2>6. seq[g] # 0 /\ seq[g] \in Nat
    BY <1>12, <2>2 DEF TypeInv, TypeOK
  <2>7. a = OldAck(g) => b = seq[g] - 1
    <3>1. InOrder(g) /\ 1 \in 1..Len(dataQ[g])
      BY <2>1 DEF LinkInv
    <3>2. b \in {seq[g] - 1, seq[g]}
      BY <2>1, <3>1 DEF InOrder
    <3> QED
      BY <2>6, <3>2, AcksDiffer DEF OldAck, a
  <2>8. ASSUME NEW i \in 1..(n + 1), ackQ'[g][i] = OldAck(g)' PROVE u + i <= t
    <3>1. CASE i \in 1..n
      BY <1>6, <1>7, <2>4, <2>5, <2>6, <2>8, <3>1
    <3>2. CASE i = n + 1
      <4>1. dataQ[g][1] = seq[g] - 1 /\ 1 \in 1..m
        BY <1>7, <2>1, <2>2, <2>4, <2>5, <2>7, <2>8, <3>2
      <4>2. u + n + 1 <= t
        BY <1>6, <2>6, <4>1
      <4> QED
        BY <3>2, <4>2
    <3> QED
      BY <3>1, <3>2
  <2>9. ASSUME NEW i \in 1..k, dataQ'[g][i] = seq'[g] - 1 PROVE u + (n + 1) + i <= t
    <3>1. i + 1 \in 1..m /\ dataQ[g][i + 1] = seq[g] - 1
      BY <2>1, <2>2, <2>4, <2>9
    <3>2. u + n + (i + 1) <= t
      BY <1>6, <2>6, <3>1
    <3> QED
      BY <3>2
  <2>10. u <= t
    BY <1>6, <2>6
  <2> QED
    BY <2>4, <2>5, <2>8, <2>9, <2>10, BudgetClose
<1>19. CASE Refused(g)
  <2>1. PICK k \in Nat : /\ Len(dataQ[g]) = k + 1 /\ Len(Tail(dataQ[g])) = k
                         /\ \A i \in 1..k : Tail(dataQ[g])[i] = dataQ[g][i + 1]
    BY <1>1, <1>19, TailLen DEF Refused
  <2>2. m = k + 1
    BY <1>2, <2>1
  <2>3. seq[g] # 0
    BY <1>12, <2>2
  <2>4. /\ seq'[g] = seq[g] /\ dataQ'[g] = Tail(dataQ[g]) /\ ackQ'[g] = ackQ[g]
        /\ timeouts'[g] = t /\ TriesUsed(g)' = u /\ Len(dataQ'[g]) = k /\ Len(ackQ'[g]) = n
    BY <1>3, <1>4, <1>8, <1>19, <2>1 DEF Refused
  <2>5. \A i \in 1..n : ackQ'[g][i] = OldAck(g)' => u + i <= t
    BY <1>6, <1>7, <2>3, <2>4
  <2>6. \A i \in 1..k : dataQ'[g][i] = seq'[g] - 1 => u + n + i <= t
    BY <1>6, <2>1, <2>2, <2>3, <2>4
  <2> QED
    BY <1>6, <2>3, <2>4, <2>5, <2>6, BudgetClose
<1> QED
  BY <1>13, <1>14, <1>15, <1>16, <1>17, <1>18, <1>19 DEF Kind, Unanswered

LEMMA ExhaustedStep ==
    ASSUME TypeInv, NEW g \in Handlers, Kind(g), pc[g] = "exhausted" => tries[g] = 0
    PROVE  pc'[g] = "exhausted" => tries'[g] = 0
<1>1. pc[g] = "wait" /\ UsesTry(g) /\ pc'[g] = "exhausted" => tries'[g] = 0
  <2>1. tries[g] \in Nat /\ (pc[g] = "wait" => tries[g] > 0)
    BY TriesUsedNat DEF TypeInv, Position
  <2> QED
    BY <2>1 DEF UsesTry
<1> QED
  BY <1>1 DEF Kind, Unanswered, Untouched, Begins, Sends, MissesDeadline, Hears, Advances, Answered, Refused

LEMMA BudgetInit == LinkInit => BudgetInv
<1> SUFFICES ASSUME LinkInit PROVE BudgetInv
  OBVIOUS
<1>1. ASSUME NEW h \in Handlers PROVE AtMostInFlight(h) /\ Budget(h) /\ pc[h] # "exhausted"
  BY DEF LinkInit, Init, AtMostInFlight, InFlight, Budget
<1> QED
  BY <1>1 DEF BudgetInv, LinkInit

LEMMA BudgetInvStep == TypeInv /\ LinkInv /\ BudgetInv /\ [LinkNext]_allVars => BudgetInv'
<1> SUFFICES ASSUME TypeInv, LinkInv, BudgetInv, [LinkNext]_allVars PROVE BudgetInv'
  OBVIOUS
<1>1. TimeoutTypes /\ TimeoutTypes'
  BY TimeoutTypesStep DEF BudgetInv, TimeoutTypes
<1>2. CASE UNCHANGED allVars
  BY <1>2 DEF allVars, linkVars, vars, serverVars, BudgetInv, AtMostInFlight, InFlight,
              Budget, TriesUsed, OldAck
<1>3. CASE LinkNext
  <2>1. ASSUME NEW g \in Handlers
        PROVE  AtMostInFlight(g)' /\ Budget(g)' /\ (pc'[g] = "exhausted" => tries'[g] = 0)
    <3>1. Kind(g)
      BY <1>1, <1>3, StepKinds
    <3>2. AtMostInFlight(g) /\ Budget(g) /\ (pc[g] = "exhausted" => tries[g] = 0)
      BY DEF BudgetInv
    <3>3. AtMostInFlight(g)'
      <4>1. InFlight(g) <= timeouts[g] + Waiting(g)
        BY <3>2 DEF AtMostInFlight, Waiting
      <4>2. InFlight(g)' <= timeouts'[g] + Waiting(g)'
        BY <1>1, <3>1, <4>1, FlightStep
      <4> QED
        BY <4>2 DEF AtMostInFlight, Waiting
    <3> QED
      BY <1>1, <3>1, <3>2, <3>3, BudgetStep, ExhaustedStep
  <2> QED
    BY <1>1, <2>1 DEF BudgetInv, TimeoutTypes
<1> QED
  BY <1>2, <1>3

\* On every link there is no more under way than deadlines were missed and one
\* block is waited for, and an old ACK there never costs more tries than that.
THEOREM BudgetInvariant == LinkSpec => []BudgetInv
<1> QED
  BY BudgetInit, BudgetInvStep, OrderInvariant, PTL DEF LinkSpec

\* A transfer in which fewer deadlines are missed than there are Retries never gives
\* up (the RETRY loop of handle), though every late ACK makes it send blocks twice.
THEOREM LateAcksHarmless == LinkSpec => []LateAcksSurvived
<1>1. TypeInv /\ BudgetInv => LateAcksSurvived
  <2> SUFFICES ASSUME TypeInv, BudgetInv, NEW h \in Handlers,
                      timeouts[h] < Retries, pc[h] = "exhausted"
               PROVE  FALSE
    BY DEF LateAcksSurvived
  <2>1. seq[h] # 0 /\ tries[h] = 0
    BY DEF TypeInv, Position, BudgetInv
  <2>2. Retries - 0 <= timeouts[h] /\ timeouts[h] \in Nat
    BY <2>1 DEF BudgetInv, Budget, TriesUsed
  <2> QED
    BY <2>2, TftpAssumption
<1> QED
  BY <1>1, BudgetInvariant, OrderInvariant, PTL

\* As long as the client reads, a datagram more is under way for every deadline
\* missed, to the end of the transfer: nothing discards a repeated block or ACK.
THEOREM DuplicatesStay == LinkSpec => []DuplicatesNeverDecay
<1>1. LinkInit => DuplicatesNeverDecay
  <2> SUFFICES ASSUME LinkInit, NEW g \in Handlers
               PROVE  InFlight(g) = timeouts[g] + (IF pc[g] = "wait" THEN 1 ELSE 0)
    BY DEF DuplicatesNeverDecay
  <2>1. InFlight(g) = 0 /\ timeouts[g] = 0 /\ pc[g] # "wait"
    BY DEF LinkInit, Init, InFlight
  <2> QED
    BY <2>1
<1>2. /\ TypeInv /\ LinkInv /\ BudgetInv /\ DuplicatesNeverDecay /\ [LinkNext]_allVars
      => DuplicatesNeverDecay'
  <2> SUFFICES ASSUME TypeInv, LinkInv, BudgetInv, DuplicatesNeverDecay,
                      [LinkNext]_allVars, client' = "reading", NEW g \in Handlers
               PROVE  InFlight(g)' = timeouts'[g] + Waiting(g)'
    BY DEF DuplicatesNeverDecay, Waiting
  <2>1. client = "reading"
    BY ClientStaysClosed
  <2>2. InFlight(g) = timeouts[g] + Waiting(g)
    BY <2>1 DEF DuplicatesNeverDecay, Waiting
  <2>3. CASE UNCHANGED allVars
    BY <2>2, <2>3 DEF allVars, linkVars, vars, serverVars, InFlight, Waiting
  <2>4. CASE LinkNext
    <3>1. TimeoutTypes
      BY DEF BudgetInv, TimeoutTypes
    <3>2. Kind(g) /\ ~Refused(g)
      BY <2>1, <2>4, <3>1, StepKinds DEF Refused
    <3>3. /\ InFlight(g) \in Int /\ timeouts[g] \in Int /\ Waiting(g) \in Int
          /\ InFlight(g)' \in Int /\ timeouts'[g] \in Int /\ Waiting(g)' \in Int
          /\ InFlight(g)' - timeouts'[g] - Waiting(g)'
                = InFlight(g) - timeouts[g] - Waiting(g)
      BY <3>1, <3>2, FlightStep
    <3> DEFINE a == InFlight(g)
               b == timeouts[g]
               c == Waiting(g)
               d == InFlight(g)'
               e == timeouts'[g]
               f == Waiting(g)'
    <3>4. /\ a \in Int /\ b \in Int /\ c \in Int /\ d \in Int /\ e \in Int /\ f \in Int
          /\ d - e - f = a - b - c /\ a = b + c
      BY <2>2, <3>3
    <3>5. d = e + f
      <4> HIDE DEF a, b, c, d, e, f
      <4> QED
        BY <3>4
    <3> QED
      BY <3>5
  <2> QED
    BY <2>3, <2>4
<1> QED
  BY <1>1, <1>2, BudgetInvariant, OrderInvariant, PTL DEF LinkSpec

-----------------------------------------------------------------------------
(* What the client has read                                                *)

LEMMA FileUnchanged ==
    ASSUME LinkNext, \A h \in Handlers : ~LinkClientReceive(h)
    PROVE  file' = file
  BY DEF LinkNext, LinkRequest, LinkAccept, LinkHandle, LinkDial, LinkWrite,
         LinkTimeout, LinkReceive, LinkRefuse, linkVars

LEMMA FileUpToStep ==
    ASSUME TypeInv, LinkInv, NEW g \in Handlers, file \in Seq(Blocks), FileUpTo(g),
           file' = file, Unanswered(g)
    PROVE  FileUpTo(g)'
<1>1. dataQ[g] \in Seq(Blocks) /\ ackQ[g] \in Seq(Datagrams) /\ InOrder(g)
  BY QueueLen DEF LinkInv
<1>2. PICK m \in Nat : Len(dataQ[g]) = m
  BY QueueLen
<1>3. PICK n \in Nat : Len(ackQ[g]) = n
  BY QueueLen
<1>4. LastRead' = LastRead /\ LastRead \in Nat
  <2>1. CASE file = <<>>
    BY <2>1 DEF LastRead
  <2>2. CASE file # <<>>
    <3>1. Len(file) \in 1..Len(file)
      BY <2>2
    <3>2. file[Len(file)] \in Blocks
      BY <3>1
    <3> QED
      BY <2>2, <3>2 DEF LastRead, Blocks
  <2> QED
    BY <2>1, <2>2
<1> DEFINE r == LastRead
<1>5. /\ r \in {seq[g] - 1, seq[g]}
      /\ r = seq[g] => \A i \in 1..m : dataQ[g][i] = seq[g]
      /\ \A i \in 1..n : ackQ[g][i] = CurrentAck(g) => r = seq[g]
  BY <1>2, <1>3 DEF FileUpTo
<1>6. seq[g] \in Nat /\ (seq[g] = 0 => m = 0 /\ n = 0)
  BY <1>1, <1>2, <1>3 DEF InOrder, TypeInv, TypeOK
<1>7. seq'[g] = seq[g] => CurrentAck(g)' = CurrentAck(g)
  BY DEF CurrentAck
<1>8. r \in Nat
  BY <1>4
<1> HIDE DEF r
<1>9. ASSUME NEW p \in Nat, NEW q \in Nat, Len(dataQ'[g]) = p, Len(ackQ'[g]) = q,
             r \in {seq'[g] - 1, seq'[g]},
             r = seq'[g] => \A i \in 1..p : dataQ'[g][i] = seq'[g],
             \A i \in 1..q : ackQ'[g][i] = CurrentAck(g)' => r = seq'[g]
      PROVE  FileUpTo(g)'
  BY <1>4, <1>9 DEF FileUpTo, r
<1>10. CASE Untouched(g) \/ MissesDeadline(g)
  BY <1>2, <1>3, <1>5, <1>7, <1>9, <1>10 DEF Untouched, MissesDeadline, UsesTry
<1>11. CASE Begins(g)
  <2>1. CASE seq'[g] = seq[g]
    BY <1>2, <1>3, <1>5, <1>7, <1>9, <1>11, <2>1 DEF Begins
  <2>2. CASE seq[g] = 0 /\ seq'[g] = 1
    <3>1. r = 0
      BY <1>5, <1>8, <2>2
    <3>2. Len(dataQ'[g]) = 0 /\ Len(ackQ'[g]) = 0
      BY <1>2, <1>3, <1>6, <1>11, <2>2 DEF Begins
    <3> QED
      BY <1>9, <2>2, <3>1, <3>2
  <2> QED
    BY <1>11, <2>1, <2>2 DEF Begins
<1>12. CASE Sends(g)
  <2>1. seq[g] \in Blocks /\ dataQ'[g] = Append(dataQ[g], seq[g])
    BY <1>12 DEF Sends
  <2>2. /\ Len(dataQ'[g]) = m + 1 /\ dataQ'[g][m + 1] = seq[g]
        /\ \A i \in 1..m : dataQ'[g][i] = dataQ[g][i]
    BY <1>1, <1>2, <2>1, AppendLen
  <2>3. seq'[g] = seq[g] /\ ackQ'[g] = ackQ[g] /\ Len(ackQ'[g]) = n
    BY <1>3, <1>12 DEF Sends
  <2>4. ASSUME r = seq[g], NEW i \in 1..(m + 1) PROVE dataQ'[g][i] = seq[g]
    <3>1. CASE i = m + 1
      BY <2>2, <3>1
    <3>2. CASE i \in 1..m
      BY <1>5, <2>2, <2>4, <3>2
    <3> QED
      BY <3>1, <3>2
  <2> QED
    BY <1>5, <1>7, <1>9, <2>2, <2>3, <2>4
<1>13. CASE Hears(g)
  <2>1. PICK k \in Nat : /\ Len(ackQ[g]) = k + 1 /\ Len(Tail(ackQ[g])) = k
                         /\ Head(ackQ[g]) = ackQ[g][1]
                         /\ \A i \in 1..k : Tail(ackQ[g])[i] = ackQ[g][i + 1]
    BY <1>1, <1>13, TailLen DEF Hears
  <2>2. n = k + 1
    BY <1>3, <2>1
  <2>3. /\ ackQ'[g] = Tail(ackQ[g]) /\ dataQ'[g] = dataQ[g] /\ seq[g] \in Nat \ {0}
        /\ Len(ackQ'[g]) = k /\ Len(dataQ'[g]) = m
        /\ \A i \in 1..k : i + 1 \in 1..n /\ ackQ'[g][i] = ackQ[g][i + 1]
    BY <1>2, <1>13, <2>1, <2>2, SeqIsBlock DEF Hears
  <2>4. CASE seq'[g] = seq[g]
    BY <1>5, <1>7, <1>9, <2>3, <2>4
  <2>5. CASE seq'[g] = seq[g] + 1 /\ Head(ackQ[g]) = CurrentAck(g)
    <3>1. r = seq[g] /\ 1 \in 1..Len(ackQ[g]) /\ ackQ[g][1] = CurrentAck(g)
      BY <1>5, <2>1, <2>2, <2>5
    <3>2. \A i \in 1..(k + 1) : ackQ[g][i] = CurrentAck(g)
      BY <1>1, <2>1, <3>1 DEF InOrder
    <3>3. CurrentAck(g)' # CurrentAck(g)
      BY <2>3, <2>5, AcksDiffer DEF CurrentAck
    <3>4. \A i \in 1..k : ackQ'[g][i] # CurrentAck(g)'
      BY <2>2, <2>3, <3>2, <3>3
    <3>5. r = seq'[g] - 1 /\ r # seq'[g]
      <4>1. PICK x \in Nat : seq[g] = x
        BY <1>6
      <4>2. r = x /\ seq'[g] = x + 1
        BY <2>5, <3>1, <4>1
      <4> QED
        BY <4>2
    <3> QED
      BY <1>9, <2>3, <3>4, <3>5
  <2> QED
    BY <1>13, <2>4, <2>5 DEF Hears, Advances, UsesTry
<1>14. CASE Refused(g)
  <2>1. PICK k \in Nat : /\ Len(dataQ[g]) = k + 1 /\ Len(Tail(dataQ[g])) = k
                         /\ \A i \in 1..k : Tail(dataQ[g])[i] = dataQ[g][i + 1]
    BY <1>1, <1>14, TailLen DEF Refused
  <2>2. m = k + 1
    BY <1>2, <2>1
  <2>3. /\ seq'[g] = seq[g] /\ dataQ'[g] = Tail(dataQ[g]) /\ ackQ'[g] = ackQ[g]
        /\ Len(dataQ'[g]) = k /\ Len(ackQ'[g]) = n
        /\ \A i \in 1..k : i + 1 \in 1..m /\ dataQ'[g][i] = dataQ[g][i + 1]
    BY <1>3, <1>14, <2>1, <2>2 DEF Refused
  <2> QED
    BY <1>5, <1>7, <1>9, <2>3
<1> QED
  BY <1>10, <1>11, <1>12, <1>13, <1>14 DEF Unanswered

\* The client appends the block its predecessor was followed by, or that one again.
LEMMA FileRead ==
    ASSUME TypeInv, LinkInv, FileInv, NEW h \in Handlers, LinkClientReceive(h)
    PROVE  /\ file' \in Seq(Blocks) /\ FileIsPayloadWithRepeats'
           /\ FileUpTo(h)'
<1> DEFINE b == Head(dataQ[h])
           a == Ack(BlockNumber(b))
<1>1. dataQ[h] \in Seq(Blocks) /\ ackQ[h] \in Seq(Datagrams) /\ InOrder(h)
  BY QueueLen DEF LinkInv
<1>2. Answered(h) /\ file' = Append(file, b) /\ file \in Seq(Blocks)
  BY ClientKinds DEF LinkClientReceive, FileInv
<1>3. PICK k \in Nat : /\ Len(dataQ[h]) = k + 1 /\ Len(Tail(dataQ[h])) = k
                       /\ b = dataQ[h][1]
                       /\ \A i \in 1..k : Tail(dataQ[h])[i] = dataQ[h][i + 1]
  BY <1>1, <1>2, TailLen DEF Answered
<1>4. PICK n \in Nat : Len(ackQ[h]) = n
  BY QueueLen
<1>5. b \in Blocks /\ a \in Datagrams
  BY <1>1, <1>2, PacketTypes DEF Answered
<1>6. /\ seq'[h] = seq[h] /\ dataQ'[h] = Tail(dataQ[h]) /\ ackQ'[h] = Append(ackQ[h], a)
      /\ CurrentAck(h)' = CurrentAck(h) /\ Len(dataQ'[h]) = k
  BY <1>2, <1>3 DEF Answered, CurrentAck
<1> HIDE DEF a, b
<1>7. /\ Len(ackQ'[h]) = n + 1 /\ ackQ'[h][n + 1] = a
      /\ \A i \in 1..n : ackQ'[h][i] = ackQ[h][i]
  BY <1>1, <1>4, <1>5, <1>6, AppendLen
<1>8. PICK s \in Nat : /\ Len(file) = s /\ Len(Append(file, b)) = s + 1
                       /\ \A i \in 1..s : Append(file, b)[i] = file[i]
                       /\ Append(file, b)[s + 1] = b
  BY <1>2, <1>5, AppendLen
<1>9. /\ file' \in Seq(Blocks) /\ Len(file') = s + 1 /\ file'[s + 1] = b
      /\ \A i \in 1..s : file'[i] = file[i]
  BY <1>2, <1>5, <1>8
<1>10. LastRead' = b
  BY <1>8, <1>9 DEF LastRead
<1>11. b \in {seq[h] - 1, seq[h]} /\ seq[h] \in Nat \ {0} /\ b \in Nat \ {0}
  <2>1. 1 \in 1..Len(dataQ[h])
    BY <1>3
  <2> QED
    BY <1>1, <1>3, <1>5, <2>1 DEF InOrder, Blocks, TypeInv, TypeOK
<1> DEFINE r == LastRead
<1>12. /\ r \in {seq[h] - 1, seq[h]}
       /\ r = seq[h] => \A i \in 1..(k + 1) : dataQ[h][i] = seq[h]
       /\ \A i \in 1..n : ackQ[h][i] = CurrentAck(h) => r = seq[h]
  BY <1>3, <1>4 DEF FileInv, FileUpTo
<1>13. r = seq[h] => b = seq[h]
  BY <1>3, <1>12
<1>14. IF s = 0 THEN r = 0 ELSE r = file[s]
  BY <1>2, <1>8 DEF LastRead
<1> HIDE DEF r
<1>15. FileIsPayloadWithRepeats'
  <2>1. file'[1] = 1
    <3>1. CASE s = 0
      BY <1>9, <1>11, <1>12, <1>14, <3>1
    <3>2. CASE s # 0
      <4>1. 1 \in 1..s /\ file # <<>>
        BY <1>8, <3>2
      <4> QED
        BY <1>9, <4>1 DEF FileInv, FileIsPayloadWithRepeats
    <3> QED
      BY <3>1, <3>2
  <2>2. ASSUME NEW i \in 2..(s + 1) PROVE file'[i] - file'[i - 1] \in {0, 1}
    <3>1. CASE i = s + 1
      <4>1. file'[i] = b /\ file'[i - 1] = r
        BY <1>9, <1>14, <2>2, <3>1
      <4>2. b - r \in {0, 1}
        BY <1>11, <1>12, <1>13
      <4> QED
        BY <4>1, <4>2
    <3>2. CASE i # s + 1
      <4>1. i \in 2..s /\ file # <<>> /\ i \in 1..s /\ i - 1 \in 1..s
        BY <1>8, <2>2, <3>2
      <4>2. file[i] - file[i - 1] \in {0, 1}
        BY <1>8, <4>1 DEF FileInv, FileIsPayloadWithRepeats
      <4> QED
        BY <1>9, <4>1, <4>2
    <3> QED
      BY <3>1, <3>2
  <2> QED
    BY <1>9, <2>1, <2>2 DEF FileIsPayloadWithRepeats
<1>16. b = seq'[h] => \A i \in 1..k : dataQ'[h][i] = seq'[h]
  <2> SUFFICES ASSUME b = seq[h], NEW i \in 1..k PROVE dataQ'[h][i] = seq[h]
    BY <1>6
  <2>1. \A j \in 1..(k + 1) : dataQ[h][j] = seq[h]
    <3>1. dataQ[h][1] = seq[h] /\ 1 \in 1..Len(dataQ[h])
      BY <1>3, <1>6
    <3>2. \A j \in 1..Len(dataQ[h]) : dataQ[h][j] = seq[h]
      BY <1>1, <3>1 DEF InOrder
    <3> QED
      BY <1>3, <3>2
  <2>2. i + 1 \in 1..(k + 1) /\ dataQ'[h][i] = dataQ[h][i + 1]
    BY <1>3, <1>6
  <2> QED
    BY <2>1, <2>2
<1>17. ASSUME NEW i \in 1..(n + 1), ackQ'[h][i] = CurrentAck(h)' PROVE b = seq'[h]
  <2>1. CASE i \in 1..n
    BY <1>6, <1>7, <1>12, <1>13, <1>17, <2>1
  <2>2. CASE i = n + 1
    <3>1. a = CurrentAck(h)
      BY <1>6, <1>7, <1>17, <2>2
    <3> QED
      BY <1>6, <1>11, <3>1, AcksDiffer DEF CurrentAck, a
  <2> QED
    BY <2>1, <2>2
<1>18. FileUpTo(h)'
  BY <1>6, <1>7, <1>10, <1>11, <1>16, <1>17 DEF FileUpTo
<1> QED
  BY <1>9, <1>15, <1>18

\* One request was sent and answered once, as on the loopback of the test: the
\* buffer p2 of the client is the payload with blocks repeated on the spot, and
\* never one block left out or out of order.
THEOREM FileIsPayload ==
    ASSUME NEW h, Handlers = {h}
    PROVE  LinkSpec => []FileIsPayloadWithRepeats
<1>1. LinkInit => FileInv
  BY DEF LinkInit, Init, FileInv, FileIsPayloadWithRepeats, FileUpTo, LastRead
<1>2. TypeInv /\ LinkInv /\ BudgetInv /\ FileInv /\ [LinkNext]_allVars => FileInv'
  <2> SUFFICES ASSUME TypeInv, LinkInv, BudgetInv, FileInv, [LinkNext]_allVars
               PROVE  FileInv'
    OBVIOUS
  <2>1. CASE UNCHANGED allVars
    BY <2>1 DEF allVars, linkVars, vars, serverVars, FileInv, FileIsPayloadWithRepeats,
                FileUpTo, LastRead, CurrentAck
  <2>2. CASE LinkClientReceive(h)
    BY <2>2, FileRead DEF FileInv
  <2>3. CASE LinkNext /\ \A g \in Handlers : ~LinkClientReceive(g)
    <3>1. file' = file
      BY <2>3, FileUnchanged
    <3>2. TimeoutTypes
      BY DEF BudgetInv, TimeoutTypes
    <3>3. ASSUME NEW g \in Handlers PROVE FileUpTo(g)'
      BY <2>3, <3>1, <3>2, OtherKinds, FileUpToStep DEF FileInv
    <3> QED
      BY <3>1, <3>3 DEF FileInv, FileIsPayloadWithRepeats
  <2> QED
    BY <2>1, <2>2, <2>3
<1>3. FileInv => FileIsPayloadWithRepeats
  BY DEF FileInv
<1> QED
  BY <1>1, <1>2, <1>3, BudgetInvariant, OrderInvariant, PTL DEF LinkSpec

-----------------------------------------------------------------------------
(* What Retries bounds                                                     *)

WritesOf(h) ==
    /\ seq[h] = 0 => writes[h] = 0
    /\ pc[h] = "write" => writes[h] = TriesUsed(h)
    /\ pc[h] = "wait" => writes[h] = TriesUsed(h) + 1
    /\ pc[h] = "exhausted" => writes[h] = Retries

LEMMA WritesByHandler ==
    WritesInv <=> writes \in [Handlers -> Nat] /\ \A h \in Handlers : WritesOf(h)
  BY DEF WritesInv, RetriesAreWrites, WritesOf

LEMMA WritesKept ==
    ASSUME NEW g \in Handlers, WritesOf(g), writes'[g] = writes[g],
           seq'[g] = seq[g], tries'[g] = tries[g],
           pc'[g] = pc[g] \/ pc'[g] \notin {"write", "wait", "exhausted"}
    PROVE  WritesOf(g)'
  BY DEF WritesOf, TriesUsed

\* A try less after a write: what was written is what is used up.
LEMMA WritesRetry ==
    ASSUME TypeInv, NEW g \in Handlers, WritesOf(g), writes[g] \in Nat, pc[g] = "wait",
           Retry(g), writes'[g] = writes[g]
    PROVE  WritesOf(g)'
<1>1. tries[g] \in Nat \ {0} /\ Retries \in Nat /\ seq[g] # 0
  BY TriesUsedNat, TftpAssumption, SeqIsBlock DEF TypeInv, Position
<1>2. /\ tries'[g] = tries[g] - 1 /\ seq'[g] = seq[g]
      /\ pc'[g] = IF tries[g] > 1 THEN "write" ELSE "exhausted"
  BY DEF Retry, TypeInv, TypeOK
<1>3. PICK x \in Nat \ {0} : tries[g] = x
  BY <1>1
<1>4. writes'[g] = Retries - x + 1 /\ TriesUsed(g)' = Retries - (x - 1)
  BY <1>1, <1>2, <1>3 DEF WritesOf, TriesUsed
<1>5. CASE x > 1
  <2>1. writes'[g] = TriesUsed(g)'
    BY <1>1, <1>4
  <2>2. pc'[g] = "write" /\ seq'[g] # 0
    BY <1>1, <1>2, <1>3, <1>5
  <2> QED
    BY <2>1, <2>2 DEF WritesOf
<1>6. CASE ~(x > 1)
  <2>1. writes'[g] = Retries
    BY <1>1, <1>3, <1>4, <1>6
  <2>2. pc'[g] = "exhausted" /\ seq'[g] # 0
    BY <1>1, <1>2, <1>3, <1>6
  <2> QED
    BY <2>1, <2>2 DEF WritesOf
<1> QED
  BY <1>5, <1>6

\* A new block begins with no write of it and all its tries, or the transfer ends.
LEMMA WritesNext ==
    ASSUME TypeInv, NEW g \in Handlers, WritesOf(g), NextPacket(g),
           writes'[g] = IF seq'[g] = seq[g] THEN writes[g] ELSE 0
    PROVE  WritesOf(g)'
<1>1. CASE Quit(g, "sent")
  BY <1>1, WritesKept DEF Quit, TypeInv, TypeOK
<1>2. CASE pc'[g] = "write" /\ seq'[g] = seq[g] + 1 /\ tries'[g] = Retries
  <2>1. seq[g] \in Nat /\ seq'[g] # seq[g] /\ seq'[g] # 0
    BY <1>2 DEF TypeInv, TypeOK
  <2>2. TriesUsed(g)' = 0
    BY <1>2, TftpAssumption DEF TriesUsed
  <2> QED
    BY <1>2, <2>1, <2>2 DEF WritesOf
<1> QED
  BY <1>1, <1>2 DEF NextPacket, TypeInv, TypeOK

LEMMA WritesStep ==
    ASSUME TypeInv, WritesInv, [LinkNext]_allVars
    PROVE  WritesInv'
<1>1. writes \in [Handlers -> Nat] /\ \A g \in Handlers : WritesOf(g)
  BY WritesByHandler
<1>2. writes' \in [Handlers -> Nat]
  BY <1>1 DEF LinkNext, LinkRequest, LinkAccept, LinkHandle, LinkDial, LinkWrite,
     LinkTimeout, LinkReceive, LinkClientReceive, LinkRefuse, linkVars, allVars
<1>3. ASSUME NEW g \in Handlers PROVE WritesOf(g)'
  <2>1. CASE UNCHANGED allVars \/ LinkRequest
    BY <1>1, <2>1, WritesKept
    DEF allVars, linkVars, vars, LinkRequest, Request, serverVars
  <2>2. ASSUME NEW h \in Handlers, LinkAccept(h) PROVE WritesOf(g)'
    BY <1>1, <2>2, WritesKept DEF LinkAccept, Accept, linkVars, TypeInv, TypeOK
  <2>3. ASSUME NEW h \in Handlers, LinkDial(h) PROVE WritesOf(g)'
    <3>1. writes' = writes /\ seq[h] = 0 /\ writes[h] = 0
      BY <1>1, <2>3 DEF LinkDial, Dial, linkVars, TypeInv, Position, WritesOf
    <3>2. CASE Quit(h, "undialled")
      BY <1>1, <3>1, <3>2, WritesKept DEF Quit, TypeInv, TypeOK
    <3>3. CASE NextPacket(h) /\ g = h
      BY <1>1, <3>1, <3>3, WritesNext
    <3>4. CASE NextPacket(h) /\ g # h
      BY <1>1, <3>1, <3>4, WritesKept DEF NextPacket, Quit, TypeInv, TypeOK
    <3> QED
      BY <2>3, <3>2, <3>3, <3>4 DEF LinkDial, Dial
  <2>4. ASSUME NEW h \in Handlers, LinkWrite(h) PROVE WritesOf(g)'
    <3>1. CASE g = h
      <4>1. /\ pc[h] = "write" /\ pc'[h] = "wait" /\ writes'[h] = writes[h] + 1
            /\ seq'[h] = seq[h] /\ tries'[h] = tries[h]
        BY <1>1, <2>4 DEF LinkWrite, Write, TypeInv, TypeOK
      <4>2. seq[h] # 0 /\ writes[h] = TriesUsed(h) /\ TriesUsed(h)' = TriesUsed(h)
        BY <1>1, <4>1, SeqIsBlock DEF WritesOf, TriesUsed
      <4> QED
        BY <3>1, <4>1, <4>2 DEF WritesOf
    <3>2. CASE g # h
      BY <1>1, <2>4, <3>2, WritesKept DEF LinkWrite, Write, TypeInv, TypeOK
    <3> QED
      BY <3>1, <3>2
  <2>5. ASSUME NEW h \in Handlers, LinkTimeout(h) PROVE WritesOf(g)'
    <3>1. CASE g = h
      BY <1>1, <2>5, <3>1, WritesRetry DEF LinkTimeout, Timeout
    <3>2. CASE g # h
      BY <1>1, <2>5, <3>2, WritesKept DEF LinkTimeout, Timeout, Retry, TypeInv, TypeOK
    <3> QED
      BY <3>1, <3>2
  <2>6. ASSUME NEW h \in Handlers, LinkReceive(h) PROVE WritesOf(g)'
    <3>1. /\ pc[h] = "wait"
          /\ NextPacket(h) \/ Quit(h, "aborted") \/ Retry(h)
          /\ writes' = [writes EXCEPT ![h] = IF seq'[h] = seq[h] THEN @ ELSE 0]
      BY <2>6 DEF LinkReceive, Receive
    <3>2. CASE g # h
      BY <1>1, <3>1, <3>2, WritesKept DEF NextPacket, Quit, Retry, TypeInv, TypeOK
    <3>3. CASE g = h /\ NextPacket(h)
      BY <1>1, <3>1, <3>3, WritesNext
    <3>4. CASE g = h /\ Quit(h, "aborted")
      BY <1>1, <3>1, <3>4, WritesKept DEF Quit, TypeInv, TypeOK
    <3>5. CASE g = h /\ Retry(h)
      <4>1. writes'[h] = writes[h]
        BY <1>1, <3>1, <3>5 DEF Retry
      <4> QED
        BY <1>1, <3>1, <3>5, <4>1, WritesRetry
    <3> QED
      BY <3>1, <3>2, <3>3, <3>4, <3>5
  <2>7. ASSUME NEW h \in Handlers, LinkClientReceive(h) PROVE WritesOf(g)'
    BY <1>1, <2>7, WritesKept DEF LinkClientReceive, ClientReceive, serverVars
  <2>8. ASSUME NEW h \in Handlers, LinkRefuse(h) PROVE WritesOf(g)'
    <3>1. CASE pc[h] \in {"write", "wait"} /\ Quit(h, "broken")
      BY <1>1, <2>8, <3>1, WritesKept DEF LinkRefuse, Quit, TypeInv, TypeOK
    <3>2. CASE UNCHANGED <<pc, seq, tries>>
      BY <1>1, <2>8, <3>2, WritesKept DEF LinkRefuse
    <3> QED
      BY <2>8, <3>1, <3>2 DEF LinkRefuse
  <2> QED
    BY <2>1, <2>2, <2>3, <2>4, <2>5, <2>6, <2>7, <2>8 DEF LinkNext, LinkHandle
<1> QED
  BY <1>2, <1>3, WritesByHandler DEF WritesInv, RetriesAreWrites, WritesOf

\* A handler gives up after Retries writes of a block (the RETRY loop of handle):
\* what its documentation calls retries includes the first transmission.
THEOREM RetriesBoundWrites == LinkSpec => []RetriesAreWrites
<1>1. LinkInit => WritesInv
  BY DEF LinkInit, Init, WritesInv, RetriesAreWrites
<1>2. TypeInv /\ WritesInv /\ [LinkNext]_allVars => WritesInv'
  BY WritesStep
<1>3. WritesInv => RetriesAreWrites
  BY DEF WritesInv
<1> QED
  BY <1>1, <1>2, <1>3, LinkTypes, PTL DEF LinkSpec
=============================================================================
