----------------------------- MODULE TftpProofs -----------------------------
(***************************************************************************)
(* Proofs about Tftp for any number of handlers, blocks and retries.       *)
(* Type correctness needs nothing else; the properties about what the      *)
(* client has need block numbers that do not wrap around within a payload. *)
(***************************************************************************)
EXTENDS Tftp, TLAPS

-----------------------------------------------------------------------------
(* Block numbers                                                           *)

\* Two blocks of a payload that fits into the block numbers have different
\* numbers on the wire, although the last one may be 0.
LEMMA BlockNumbersDistinct ==
    ASSUME NumBlocks <= BlockMod, NEW i \in Blocks, NEW j \in Blocks,
           BlockNumber(i) = BlockNumber(j)
    PROVE  i = j
<1>1. \A k \in Blocks : BlockNumber(k) = IF k = BlockMod THEN 0 ELSE k
  BY TftpAssumption DEF Blocks, BlockNumber
<1> QED
  BY <1>1, TftpAssumption DEF Blocks

-----------------------------------------------------------------------------
(* Type correctness                                                        *)

LEMMA PacketTypes ==
    /\ Err \in Datagrams /\ Junk \in Datagrams /\ Runt \in Datagrams
    /\ \A k \in Blocks : Ack(BlockNumber(k)) \in Datagrams
<1>1. 0 \in 0..(BlockMod - 1)
  BY TftpAssumption
<1>2. \A k \in Blocks : BlockNumber(k) \in 0..(BlockMod - 1)
  BY TftpAssumption DEF Blocks, BlockNumber
<1> QED
  BY <1>1, <1>2 DEF Datagrams, Err, Junk, Runt, Ack

LEMMA TypeInit == Init => TypeInv
<1> SUFFICES ASSUME Init PROVE TypeInv
  OBVIOUS
<1>1. TypeOK
  <2>1. 0 \in 0..NumBlocks /\ 0 \in 0..Retries
    BY TftpAssumption
  <2>2. serving \in BOOLEAN /\ requested \in BOOLEAN
    BY DEF Init
  <2> QED
    BY <2>1, <2>2, PacketTypes DEF Init, TypeOK
<1>2. \A h \in Handlers : Position(h)
  BY TftpAssumption DEF Init, Position
<1> QED
  BY <1>1, <1>2 DEF TypeInv

\* The two loops of handle, whatever made it go round.
LEMMA NextPacketType ==
    ASSUME TypeInv, NEW h \in Handlers, pc[h] \in {"dial", "wait"}, NextPacket(h)
    PROVE  /\ pc' \in [Handlers -> Active \union Ended \union {"idle"}]
           /\ seq' \in [Handlers -> 0..NumBlocks]
           /\ tries' \in [Handlers -> 0..Retries]
           /\ \A g \in Handlers : Position(g)'
  BY TftpAssumption
  DEF TypeInv, TypeOK, Position, NextPacket, Quit, Active, Ended, Failed

LEMMA RetryType ==
    ASSUME TypeInv, NEW h \in Handlers, pc[h] = "wait", Retry(h)
    PROVE  /\ pc' \in [Handlers -> Active \union Ended \union {"idle"}]
           /\ seq' \in [Handlers -> 0..NumBlocks]
           /\ tries' \in [Handlers -> 0..Retries]
           /\ \A g \in Handlers : Position(g)'
  BY TftpAssumption
  DEF TypeInv, TypeOK, Position, Retry, Active, Ended, Failed

LEMMA QuitType ==
    ASSUME TypeInv, NEW h \in Handlers,
           NEW outcome \in Failed,
           Quit(h, outcome),
           IF outcome = "undialled" THEN pc[h] = "dial" ELSE pc[h] \in {"write", "wait"}
    PROVE  /\ pc' \in [Handlers -> Active \union Ended \union {"idle"}]
           /\ seq' \in [Handlers -> 0..NumBlocks]
           /\ tries' \in [Handlers -> 0..Retries]
           /\ \A g \in Handlers : Position(g)'
  BY TftpAssumption
  DEF TypeInv, TypeOK, Position, Quit, Active, Ended, Failed

LEMMA TypeStep == TypeInv /\ [Next]_vars => TypeInv'
<1> SUFFICES ASSUME TypeInv, [Next]_vars PROVE TypeInv'
  OBVIOUS
<1> USE DEF serverVars, netVars, clientVars
<1>1. CASE StopServing \/ Request \/ ClientGivesUp
  BY <1>1 DEF TypeInv, TypeOK, Position, StopServing, Request, ClientGivesUp
<1>2. ASSUME NEW h \in Handlers, Accept(h) PROVE TypeInv'
  BY <1>2 DEF TypeInv, TypeOK, Position, Accept, Active, Ended, Failed
<1>3. ASSUME NEW h \in Handlers, Dial(h) PROVE TypeInv'
  BY <1>3, NextPacketType, QuitType DEF TypeInv, TypeOK, Dial, Failed
<1>4. ASSUME NEW h \in Handlers, Write(h) PROVE TypeInv'
  <2>1. seq[h] \in Blocks
    BY <1>4, TftpAssumption DEF Write, TypeInv, TypeOK, Position, Blocks
  <2> QED
    BY <1>4, <2>1 DEF TypeInv, TypeOK, Position, Write, Active, Ended, Failed
<1>5. ASSUME NEW h \in Handlers, Break(h) PROVE TypeInv'
  BY <1>5, QuitType DEF TypeInv, TypeOK, Break, Failed
<1>6. ASSUME NEW h \in Handlers, Timeout(h) PROVE TypeInv'
  BY <1>6, RetryType DEF TypeInv, TypeOK, Timeout
<1>7. ASSUME NEW h \in Handlers, NEW d \in toServer[h], Receive(h, d) PROVE TypeInv'
  <2>1. buf' \in [Handlers -> Datagrams]
    BY <1>7 DEF TypeInv, TypeOK, Receive, Contents
  <2>2. /\ pc' \in [Handlers -> Active \union Ended \union {"idle"}]
        /\ seq' \in [Handlers -> 0..NumBlocks]
        /\ tries' \in [Handlers -> 0..Retries]
        /\ \A g \in Handlers : Position(g)'
    BY <1>7, NextPacketType, RetryType, QuitType DEF Receive, Failed
  <2> QED
    BY <1>7, <2>1, <2>2 DEF TypeInv, TypeOK, Receive
<1>8. ASSUME NEW h \in Handlers, NEW k \in toClient[h], ClientReceive(h, k) PROVE TypeInv'
  <2>1. k \in Blocks
    BY DEF TypeInv, TypeOK
  <2> QED
    BY <1>8, <2>1, PacketTypes DEF TypeInv, TypeOK, Position, ClientReceive
<1>9. ASSUME NEW h \in Handlers, NEW d \in {Err, Junk, Runt}, ClientSends(h, d)
      PROVE  TypeInv'
  BY <1>9, PacketTypes DEF TypeInv, TypeOK, Position, ClientSends
<1>10. CASE UNCHANGED vars
  BY <1>10 DEF TypeInv, TypeOK, Position, vars
<1> QED
  BY <1>1, <1>2, <1>3, <1>4, <1>5, <1>6, <1>7, <1>8, <1>9, <1>10 DEF Next, Handle

\* Every variable keeps its type: no handler marshals more blocks than the
\* payload has, writes more often than its budget, or runs its budget below 0.
THEOREM TypeCorrect == Safety => []TypeOK
<1>1. TypeInv => TypeOK
  BY DEF TypeInv
<1> QED
  BY TypeInit, TypeStep, <1>1, PTL DEF Safety

-----------------------------------------------------------------------------
(* What the client has                                                     *)

LEMMA TransferInit == Init => TransferInv
<1> SUFFICES ASSUME Init, NEW h \in Handlers
             PROVE  Window(h) /\ AckOrigin(h) /\ OldBuffer(h)
  BY DEF TransferInv
<1>1. /\ pc[h] = "idle" /\ seq[h] = 0
      /\ toClient[h] = {} /\ toServer[h] = {} /\ got[h] = {}
      /\ buf[h].type = "junk"
  BY DEF Init, Junk
<1>2. 1..(0 - 1) = {}
  OBVIOUS
<1> QED
  BY <1>1, <1>2 DEF Window, AckOrigin, OldBuffer

\* The acknowledged block has been received, so the next may be marshalled.
LEMMA AckedBlockReceived ==
    ASSUME NumBlocks <= BlockMod, TypeInv, TransferInv,
           NEW h \in Handlers, NEW d \in toServer[h],
           Receive(h, d), Acknowledges(buf'[h], seq[h])
    PROVE  seq[h] \in got[h]
<1> DEFINE c == Contents(h, d)
<1>1. c.type = "ack" /\ c.block = BlockNumber(seq[h]) /\ pc[h] = "wait"
  BY DEF Receive, Acknowledges, TypeInv, TypeOK
<1>2. seq[h] \in Blocks
  BY <1>1, TftpAssumption DEF TypeInv, TypeOK, Position, Blocks
<1>3. PICK k \in got[h] \union 1..(seq[h] - 1) : c.block = BlockNumber(k)
  BY <1>1 DEF Contents, TransferInv, AckOrigin, OldBuffer, Ended, Failed
<1>4. k \in Blocks
  BY <1>2, <1>3, TftpAssumption DEF TypeInv, TypeOK, Blocks
<1>5. k = seq[h]
  BY <1>1, <1>2, <1>3, <1>4, BlockNumbersDistinct
<1> QED
  BY <1>2, <1>3, <1>5 DEF Blocks

\* A step that leaves the network, the client and the block being sent alone.
LEMMA TransferKept ==
    ASSUME TypeInv, TransferInv, NEW h \in Handlers,
           NEW outcome \in Active \union Failed,
           pc' = [pc EXCEPT ![h] = outcome],
           pc[h] \notin Ended,
           UNCHANGED <<seq, buf, netVars, clientVars>>
    PROVE  TransferInv'
  BY DEF TypeInv, TypeOK, TransferInv, Window, AckOrigin, OldBuffer,
         netVars, clientVars, Active, Failed, Ended

\* A step to the next block, or to the end, once the current one has arrived.
LEMMA TransferAdvances ==
    ASSUME TypeInv, TransferInv, NEW h \in Handlers,
           seq[h] # 0 => seq[h] \in got[h],
           pc[h] \in {"dial", "wait"},
           NextPacket(h),
           /\ DOMAIN buf' = Handlers
           /\ \A g \in Handlers \ {h} : buf'[g] = buf[g]
           /\ buf'[h].type = "ack" => \E k \in 1..seq[h] : buf'[h].block = BlockNumber(k),
           UNCHANGED <<netVars, clientVars>>
    PROVE  TransferInv'
<1> USE DEF netVars, clientVars
<1> SUFFICES ASSUME NEW g \in Handlers
             PROVE  (Window(g) /\ AckOrigin(g) /\ OldBuffer(g))'
  BY DEF TransferInv
<1>1. CASE g # h
  BY <1>1 DEF TypeInv, TypeOK, TransferInv, Window, AckOrigin, OldBuffer, NextPacket, Quit
<1>2. CASE g = h
  <2>1. AckOrigin(g)'
    BY DEF TransferInv, AckOrigin
  <2>2. CASE seq[h] = NumBlocks /\ Quit(h, "sent")
    <3>1. pc'[h] = "sent" /\ seq' = seq /\ seq[h] \in got[h]
      BY <2>2, TftpAssumption DEF Quit, TypeInv, TypeOK
    <3> QED
      BY <1>2, <2>1, <3>1 DEF TransferInv, Window, OldBuffer, Ended
  <2>3. CASE seq[h] # NumBlocks
    <3>1. pc'[h] = "write" /\ seq'[h] = seq[h] + 1 /\ seq[h] \in 0..NumBlocks
      BY <2>3 DEF NextPacket, TypeInv, TypeOK
    <3>2. 1..(seq'[h] - 1) \subseteq got[h]
      BY <3>1 DEF TransferInv, Window
    <3>3. Window(h)'
      BY <3>1, <3>2 DEF TransferInv, Window
    <3>4. OldBuffer(h)'
      BY <3>1 DEF OldBuffer
    <3> QED
      BY <1>2, <2>1, <3>3, <3>4
  <2> QED
    BY <2>2, <2>3 DEF NextPacket
<1> QED
  BY <1>1, <1>2

LEMMA TransferStep ==
    ASSUME NumBlocks <= BlockMod, TypeInv, TransferInv, [Next]_vars
    PROVE  TransferInv'
<1>1. CASE StopServing \/ Request \/ ClientGivesUp \/ UNCHANGED vars
  BY <1>1 DEF TransferInv, Window, AckOrigin, OldBuffer, StopServing, Request,
              ClientGivesUp, vars, serverVars, netVars, clientVars
<1>2. ASSUME NEW h \in Handlers, Accept(h) PROVE TransferInv'
  BY <1>2, TransferKept DEF Accept, Active, Ended, Failed
<1>3. ASSUME NEW h \in Handlers, Dial(h) PROVE TransferInv'
  <2>1. pc[h] = "dial" /\ seq[h] = 0 /\ buf' = buf /\ DOMAIN buf = Handlers
    BY <1>3 DEF Dial, TypeInv, TypeOK, Position
  <2>2. buf[h].type # "ack"
    BY <2>1 DEF TransferInv, OldBuffer, Ended, Failed
  <2>3. CASE NextPacket(h)
    BY <1>3, <2>1, <2>2, <2>3, TransferAdvances DEF Dial
  <2>4. CASE Quit(h, "undialled")
    BY <1>3, <2>1, <2>4, TransferKept DEF Dial, Quit, Ended, Failed
  <2> QED
    BY <1>3, <2>3, <2>4 DEF Dial
<1>4. ASSUME NEW h \in Handlers, Write(h) PROVE TransferInv'
  <2>1. seq[h] \in 1..seq[h]
    BY <1>4 DEF Write, TypeInv, TypeOK, Position
  <2> QED
    BY <1>4, <2>1 DEF Write, TypeInv, TypeOK, TransferInv, Window, AckOrigin,
                      OldBuffer, netVars, clientVars, Ended, Failed
<1>5. ASSUME NEW h \in Handlers, Break(h) PROVE TransferInv'
  BY <1>5, TransferKept DEF Break, Quit, Ended, Failed
<1>6. ASSUME NEW h \in Handlers, Timeout(h) PROVE TransferInv'
  BY <1>6, TransferKept DEF Timeout, Retry, Active, Ended, Failed
<1>7. ASSUME NEW h \in Handlers, NEW d \in toServer[h], Receive(h, d) PROVE TransferInv'
  <2>1. CASE Acknowledges(buf'[h], seq[h]) /\ NextPacket(h)
    <3>1. seq[h] \in got[h] /\ seq[h] \in Nat /\ seq[h] > 0
      <4>1. seq[h] \in got[h]
        BY <1>7, <2>1, AckedBlockReceived
      <4> QED
        BY <1>7, <4>1 DEF Receive, TypeInv, TypeOK, Position
    <3>2. \E k \in 1..seq[h] : buf'[h].block = BlockNumber(k)
      BY <2>1, <3>1 DEF Acknowledges
    <3> QED
      BY <1>7, <2>1, <3>1, <3>2, TransferAdvances DEF Receive, TypeInv, TypeOK
  <2>2. CASE buf'[h].type = "err" /\ Quit(h, "aborted")
    BY <1>7, <2>2 DEF Receive, Quit, TypeInv, TypeOK, TransferInv, Window, AckOrigin,
                      OldBuffer, netVars, clientVars, Ended, Failed
  <2>3. CASE ~Acknowledges(buf'[h], seq[h]) /\ Retry(h)
    <3>1. ASSUME buf'[h].type = "ack"
          PROVE  \E k \in 1..(seq[h] - 1) : buf'[h].block = BlockNumber(k)
      <4>1. PICK k \in got[h] \union 1..(seq[h] - 1) : buf'[h].block = BlockNumber(k)
        BY <1>7, <3>1 DEF Receive, Contents, TransferInv, AckOrigin, OldBuffer,
                          TypeInv, TypeOK, Ended, Failed
      <4>2. k # seq[h]
        BY <2>3, <3>1, <4>1 DEF Acknowledges
      <4> QED
        <5>1. seq[h] \in Nat /\ got[h] \subseteq 1..seq[h]
          BY DEF TransferInv, Window, TypeInv, TypeOK
        <5> QED
          BY <4>1, <4>2, <5>1
    <3> QED
      BY <1>7, <2>3, <3>1 DEF Receive, Retry, TypeInv, TypeOK, TransferInv, Window,
                              AckOrigin, OldBuffer, netVars, clientVars, Ended, Failed
  <2> QED
    BY <1>7, <2>1, <2>2, <2>3 DEF Receive
<1>8. ASSUME NEW h \in Handlers, NEW k \in toClient[h], ClientReceive(h, k)
      PROVE  TransferInv'
  BY <1>8 DEF ClientReceive, TypeInv, TypeOK, TransferInv, Window, AckOrigin,
              OldBuffer, Ack, serverVars
<1>9. ASSUME NEW h \in Handlers, NEW d \in {Err, Junk, Runt}, ClientSends(h, d)
      PROVE  TransferInv'
  BY <1>9 DEF ClientSends, TypeInv, TypeOK, TransferInv, Window, AckOrigin,
              OldBuffer, Err, Junk, Runt, serverVars, clientVars
<1> QED
  BY <1>1, <1>2, <1>3, <1>4, <1>5, <1>6, <1>7, <1>8, <1>9 DEF Next, Handle

-----------------------------------------------------------------------------
(* The safety properties                                                   *)

THEOREM TransferInvariant ==
    ASSUME NumBlocks <= BlockMod
    PROVE  Safety => [](TypeInv /\ TransferInv)
<1>1. Init => TypeInv /\ TransferInv
  BY TypeInit, TransferInit
<1>2. TypeInv /\ TransferInv /\ [Next]_vars => (TypeInv /\ TransferInv)'
  BY TypeStep, TransferStep
<1> QED
  BY <1>1, <1>2, PTL DEF Safety

\* The handlers' report is sound: "sent" is logged only when the client has
\* received every block, for any loss, repetition or reordering of datagrams.
THEOREM CompletionSound ==
    ASSUME NumBlocks <= BlockMod
    PROVE  Safety => []SentMeansDelivered
<1>1. TypeInv /\ TransferInv => SentMeansDelivered
  <2> SUFFICES ASSUME TypeInv, TransferInv, NEW h \in Handlers, pc[h] = "sent"
               PROVE  got[h] = Blocks
    BY DEF SentMeansDelivered
  <2>1. seq[h] = NumBlocks /\ got[h] \in SUBSET Blocks /\ seq[h] \in got[h]
        /\ 1..(seq[h] - 1) \subseteq got[h]
    BY DEF TypeInv, TypeOK, Position, TransferInv, Window
  <2>2. \A k \in Blocks : k = NumBlocks \/ k \in 1..(NumBlocks - 1)
    BY TftpAssumption DEF Blocks
  <2> QED
    BY <2>1, <2>2
<1> QED
  BY <1>1, TransferInvariant, PTL

LEMMA IntervalFilled ==
    ASSUME NEW n \in Nat, NEW S, S \subseteq 1..n, 1..(n - 1) \subseteq S
    PROVE  S = 1..n \/ S = 1..(n - 1)
<1>1. \A k \in 1..n : k = n \/ k \in 1..(n - 1)
  OBVIOUS
<1>2. \A k \in 1..(n - 1) : k \in 1..n /\ k # n
  OBVIOUS
<1>3. CASE n \in S
  BY <1>1, <1>3
<1>4. CASE n \notin S
  BY <1>1, <1>2, <1>4
<1> QED
  BY <1>3, <1>4

\* The client's blocks are a prefix of the payload, and no handler is more than
\* one block ahead of it.
THEOREM StopAndWait ==
    ASSUME NumBlocks <= BlockMod
    PROVE  Safety => []OneBlockAhead
<1>1. TypeInv /\ TransferInv => OneBlockAhead
  <2> SUFFICES ASSUME TypeInv, TransferInv, NEW h \in Handlers
               PROVE  got[h] = 1..seq[h] \/ got[h] = 1..(seq[h] - 1)
    BY DEF OneBlockAhead
  <2>1. seq[h] \in Nat /\ got[h] \subseteq 1..seq[h] /\ 1..(seq[h] - 1) \subseteq got[h]
    BY DEF TypeInv, TypeOK, TransferInv, Window
  <2> QED
    BY <2>1, IntervalFilled
<1> QED
  BY <1>1, TransferInvariant, PTL

\* An ACK left over in the reused buffer never acknowledges the current block.
THEOREM BufferReuseHarmless ==
    ASSUME NumBlocks <= BlockMod
    PROVE  Safety => []StaleBufferHarmless
<1>1. TypeInv /\ TransferInv => StaleBufferHarmless
  <2> SUFFICES ASSUME TypeInv, TransferInv, NEW h \in Handlers,
                      pc[h] \in {"write", "wait"}, Acknowledges(buf[h], seq[h])
               PROVE  FALSE
    BY DEF StaleBufferHarmless
  <2>1. PICK k \in 1..(seq[h] - 1) : BlockNumber(k) = BlockNumber(seq[h])
    BY DEF TransferInv, OldBuffer, Acknowledges, Ended, Failed
  <2>2. seq[h] \in Blocks /\ k \in Blocks
    BY <2>1, TftpAssumption DEF TypeInv, TypeOK, Position, Blocks
  <2> QED
    BY <2>1, <2>2, BlockNumbersDistinct DEF Blocks
<1> QED
  BY <1>1, TransferInvariant, PTL

-----------------------------------------------------------------------------
(* Refinement: the handlers implement BlockTransfer                        *)

LEMMA RefineInit == Init => Transfer!Init
<1> SUFFICES ASSUME Init PROVE Transfer!Init
  OBVIOUS
<1>1. \A h \in Handlers : Phase(h) = "idle" /\ Confirmed(h) = 0 /\ Delivered(h) = 0
  BY DEF Init, Phase, Confirmed, Delivered, Active
<1> QED
  BY <1>1 DEF Transfer!Init

\* The abstract state of a handler that a step leaves alone.
LEMMA RefineOthers ==
    ASSUME NEW h \in Handlers,
           pc'[h] = pc[h], seq'[h] = seq[h], got'[h] = got[h]
    PROVE  Phase(h)' = Phase(h) /\ Confirmed(h)' = Confirmed(h) /\ Delivered(h)' = Delivered(h)
  BY DEF Phase, Confirmed, Delivered, Active

\* A step of one handler that its abstract state does not show.
LEMMA RefineStutter ==
    ASSUME NEW h \in Handlers,
           Phase(h)' = Phase(h), Confirmed(h)' = Confirmed(h), Delivered(h)' = Delivered(h),
           \A g \in Handlers \ {h} : pc'[g] = pc[g] /\ seq'[g] = seq[g] /\ got'[g] = got[g]
    PROVE  UNCHANGED Transfer!vars
<1>1. \A g \in Handlers : /\ Phase(g)' = Phase(g)
                          /\ Confirmed(g)' = Confirmed(g)
                          /\ Delivered(g)' = Delivered(g)
  BY RefineOthers
<1> QED
  BY <1>1 DEF Transfer!vars

\* A step of one handler changes the abstract state at that handler alone.
LEMMA RefineExcept ==
    ASSUME NEW h \in Handlers,
           \A g \in Handlers \ {h} : pc'[g] = pc[g] /\ seq'[g] = seq[g] /\ got'[g] = got[g]
    PROVE  /\ [g \in Handlers |-> Phase(g)]' =
                [[g \in Handlers |-> Phase(g)] EXCEPT ![h] = Phase(h)']
           /\ [g \in Handlers |-> Confirmed(g)]' =
                [[g \in Handlers |-> Confirmed(g)] EXCEPT ![h] = Confirmed(h)']
           /\ [g \in Handlers |-> Delivered(g)]' =
                [[g \in Handlers |-> Delivered(g)] EXCEPT ![h] = Delivered(h)']
<1>1. \A g \in Handlers \ {h} : /\ Phase(g)' = Phase(g)
                                /\ Confirmed(g)' = Confirmed(g)
                                /\ Delivered(g)' = Delivered(g)
  BY RefineOthers
<1> QED
  BY <1>1

\* Giving up, whatever the reason, is the abstract failure.
LEMMA RefineFail ==
    ASSUME TypeInv, NEW h \in Handlers, NEW outcome \in Failed,
           pc[h] \in Active, pc' = [pc EXCEPT ![h] = outcome], UNCHANGED <<seq, got>>
    PROVE  Transfer!Next
<1>1. \A g \in Handlers \ {h} : pc'[g] = pc[g] /\ seq'[g] = seq[g] /\ got'[g] = got[g]
  OBVIOUS
<1>2. Phase(h) = "running" /\ Phase(h)' = "failed"
  BY DEF Phase, Active, Failed, TypeInv, TypeOK
<1>3. Confirmed(h)' = Confirmed(h) /\ Delivered(h)' = Delivered(h)
  BY DEF Confirmed, Delivered, Active, Failed, TypeInv, TypeOK
<1>4. Transfer!Fail(h)
  BY <1>1, <1>2, <1>3, RefineExcept DEF Transfer!Fail
<1> QED
  BY <1>4 DEF Transfer!Next

\* A write, and a try that does not end the transfer, do not show.
LEMMA RefineRunning ==
    ASSUME TypeInv, NEW h \in Handlers, NEW where \in Active,
           pc[h] \in Active, pc' = [pc EXCEPT ![h] = where], UNCHANGED <<seq, got>>
    PROVE  UNCHANGED Transfer!vars
<1>1. \A g \in Handlers \ {h} : pc'[g] = pc[g] /\ seq'[g] = seq[g] /\ got'[g] = got[g]
  OBVIOUS
<1>2. Phase(h)' = Phase(h) /\ Confirmed(h)' = Confirmed(h) /\ Delivered(h)' = Delivered(h)
  BY DEF Phase, Confirmed, Delivered, Active, TypeInv, TypeOK
<1> QED
  BY <1>1, <1>2, RefineStutter

\* The acknowledgement of the current block is the abstract confirmation.
LEMMA RefineConfirm ==
    ASSUME TypeInv, TransferInv, NEW h \in Handlers,
           pc[h] = "wait", seq[h] \in got[h], NextPacket(h), UNCHANGED got
    PROVE  Transfer!Next
<1>1. \A g \in Handlers \ {h} : pc'[g] = pc[g] /\ seq'[g] = seq[g] /\ got'[g] = got[g]
  BY DEF NextPacket, Quit, TypeInv, TypeOK
<1>2. seq[h] \in Nat \ {0} /\ got[h] \subseteq 1..seq[h]
  BY DEF TypeInv, TypeOK, Position, TransferInv, Window
<1>3. /\ Phase(h) = "running"
      /\ Confirmed(h) = seq[h] - 1
      /\ Delivered(h) = seq[h]
  BY <1>2 DEF Phase, Confirmed, Delivered, Active
<1>4. /\ Phase(h)' = IF seq[h] = NumBlocks THEN "sent" ELSE "running"
      /\ Confirmed(h)' = seq[h]
      /\ Delivered(h)' = seq[h]
  <2>1. CASE seq[h] = NumBlocks /\ Quit(h, "sent")
    BY <1>2, <2>1 DEF Quit, Phase, Confirmed, Delivered, Active, TypeInv, TypeOK
  <2>2. CASE seq[h] # NumBlocks
    <3>1. pc'[h] = "write" /\ seq'[h] = seq[h] + 1 /\ got'[h] = got[h]
      BY <2>2 DEF NextPacket, TypeInv, TypeOK
    <3> QED
      BY <1>2, <2>2, <3>1 DEF Phase, Confirmed, Delivered, Active
  <2> QED
    BY <2>1, <2>2 DEF NextPacket
<1>5. Transfer!Confirm(h)
  <2> DEFINE phase == [g \in Handlers |-> Phase(g)]
             confirmed == [g \in Handlers |-> Confirmed(g)]
             delivered == [g \in Handlers |-> Delivered(g)]
  <2>1. phase[h] = "running" /\ confirmed[h] < delivered[h]
    BY <1>2, <1>3
  <2>2. confirmed' = [confirmed EXCEPT ![h] = @ + 1]
    <3>1. confirmed' = [confirmed EXCEPT ![h] = Confirmed(h)']
      BY <1>1, RefineExcept
    <3>2. Confirmed(h)' = confirmed[h] + 1
      BY <1>2, <1>3, <1>4
    <3> QED
      BY <3>1, <3>2
  <2>3. phase' = IF confirmed[h] + 1 = NumBlocks THEN [phase EXCEPT ![h] = "sent"] ELSE phase
    <3>1. phase' = [phase EXCEPT ![h] = Phase(h)']
      BY <1>1, RefineExcept
    <3>2. confirmed[h] + 1 = seq[h]
      BY <1>2, <1>3
    <3> QED
      BY <1>3, <1>4, <3>1, <3>2
  <2>4. delivered' = delivered
    <3>1. delivered' = [delivered EXCEPT ![h] = Delivered(h)']
      BY <1>1, RefineExcept
    <3>2. Delivered(h)' = delivered[h]
      BY <1>3, <1>4
    <3> QED
      BY <3>1, <3>2
  <2> QED
    BY <2>1, <2>2, <2>3, <2>4 DEF Transfer!Confirm
<1> QED
  BY <1>5 DEF Transfer!Next

\* A block reaching the client is the abstract delivery, unless it has it.
LEMMA RefineDeliver ==
    ASSUME TypeInv, TransferInv, NEW h \in Handlers, NEW k \in toClient[h],
           got' = [got EXCEPT ![h] = @ \union {k}], UNCHANGED <<pc, seq>>
    PROVE  [Transfer!Next]_(Transfer!vars)
<1>1. \A g \in Handlers \ {h} : pc'[g] = pc[g] /\ seq'[g] = seq[g] /\ got'[g] = got[g]
  BY DEF TypeInv, TypeOK
<1>2. got'[h] = got[h] \union {k}
  BY DEF TypeInv, TypeOK
<1>3. seq[h] \in 1..NumBlocks /\ k \in 1..seq[h]
  BY TftpAssumption DEF TypeInv, TypeOK, TransferInv, Window
<1>4. CASE k = seq[h] /\ k \notin got[h]
  <2>1. pc[h] # "sent" /\ pc[h] # "idle"
    BY <1>3, <1>4 DEF TransferInv, Window, TypeInv, Position
  <2>2. Phase(h) \in {"running", "failed"} /\ Phase(h)' = Phase(h)
    BY <2>1 DEF Phase
  <2>3. /\ Confirmed(h) = seq[h] - 1 /\ Confirmed(h)' = seq[h] - 1
        /\ Delivered(h) = seq[h] - 1 /\ Delivered(h)' = seq[h]
    BY <1>2, <1>3, <1>4, <2>1 DEF Confirmed, Delivered
  <2>4. Transfer!Deliver(h)
    <3> DEFINE phase == [g \in Handlers |-> Phase(g)]
               confirmed == [g \in Handlers |-> Confirmed(g)]
               delivered == [g \in Handlers |-> Delivered(g)]
    <3>1. /\ phase[h] \in {"running", "failed"}
          /\ delivered[h] = confirmed[h] /\ delivered[h] < NumBlocks
      <4>1. phase[h] = Phase(h) /\ delivered[h] = seq[h] - 1 /\ confirmed[h] = seq[h] - 1
        BY <2>3
      <4>2. seq[h] - 1 < NumBlocks
        BY <1>3, TftpAssumption
      <4> QED
        BY <2>2, <4>1, <4>2
    <3>2. delivered' = [delivered EXCEPT ![h] = @ + 1]
      <4>1. delivered' = [delivered EXCEPT ![h] = Delivered(h)']
        BY <1>1, RefineExcept
      <4>2. Delivered(h)' = delivered[h] + 1
        BY <1>3, <2>3
      <4> QED
        BY <4>1, <4>2
    <3>3. phase' = phase /\ confirmed' = confirmed
      BY <1>1, <2>2, <2>3, RefineExcept
    <3> QED
      BY <3>1, <3>2, <3>3 DEF Transfer!Deliver
  <2> QED
    BY <2>4 DEF Transfer!Next
<1>5. CASE k # seq[h] \/ k \in got[h]
  <2>1. Phase(h)' = Phase(h) /\ Confirmed(h)' = Confirmed(h) /\ Delivered(h)' = Delivered(h)
    BY <1>2, <1>5 DEF Phase, Confirmed, Delivered
  <2> QED
    BY <1>1, <2>1, RefineStutter
<1> QED
  BY <1>4, <1>5

LEMMA RefineStep ==
    ASSUME NumBlocks <= BlockMod, TypeInv, TransferInv, [Next]_vars
    PROVE  [Transfer!Next]_(Transfer!vars)
<1>1. CASE UNCHANGED <<pc, seq, got>>
  BY <1>1 DEF Transfer!vars, Phase, Confirmed, Delivered
<1>2. ASSUME NEW h \in Handlers, Accept(h) PROVE Transfer!Next
  <2>1. \A g \in Handlers \ {h} : pc'[g] = pc[g] /\ seq'[g] = seq[g] /\ got'[g] = got[g]
    BY <1>2 DEF Accept, TypeInv, TypeOK, clientVars
  <2>2. /\ Phase(h) = "idle" /\ Phase(h)' = "running"
        /\ Confirmed(h)' = Confirmed(h) /\ Delivered(h)' = Delivered(h)
    BY <1>2 DEF Accept, Phase, Confirmed, Delivered, Active, TypeInv, TypeOK, clientVars
  <2>3. Transfer!Start(h)
    BY <2>1, <2>2, RefineExcept DEF Transfer!Start
  <2> QED
    BY <2>3 DEF Transfer!Next
<1>3. ASSUME NEW h \in Handlers, Dial(h) PROVE [Transfer!Next]_(Transfer!vars)
  <2>1. CASE Quit(h, "undialled")
    BY <1>3, <2>1, RefineFail DEF Dial, Quit, Active, Failed, clientVars
  <2>2. CASE NextPacket(h)
    <3>1. pc[h] = "dial" /\ seq[h] = 0 /\ got[h] = {} /\ got' = got
      BY <1>3 DEF Dial, TypeInv, TypeOK, Position, TransferInv, Window, clientVars
    <3>2. pc'[h] = "write" /\ seq'[h] = 1
      BY <2>2, <3>1, TftpAssumption DEF NextPacket, Quit, TypeInv, TypeOK
    <3>3. \A g \in Handlers \ {h} : pc'[g] = pc[g] /\ seq'[g] = seq[g] /\ got'[g] = got[g]
      BY <2>2, <3>1 DEF NextPacket, Quit, TypeInv, TypeOK
    <3>4. Phase(h)' = Phase(h) /\ Confirmed(h)' = Confirmed(h) /\ Delivered(h)' = Delivered(h)
      BY <3>1, <3>2 DEF Phase, Confirmed, Delivered, Active
    <3> QED
      BY <3>3, <3>4, RefineStutter
  <2> QED
    BY <1>3, <2>1, <2>2 DEF Dial
<1>4. ASSUME NEW h \in Handlers, Write(h) PROVE [Transfer!Next]_(Transfer!vars)
  BY <1>4, RefineRunning DEF Write, Active, clientVars
<1>5. ASSUME NEW h \in Handlers, Break(h) PROVE [Transfer!Next]_(Transfer!vars)
  BY <1>5, RefineFail DEF Break, Quit, Active, Failed, clientVars
<1>6. ASSUME NEW h \in Handlers, pc[h] = "wait", Retry(h), UNCHANGED got
      PROVE  [Transfer!Next]_(Transfer!vars)
  BY <1>6, RefineFail, RefineRunning DEF Retry, Active, Failed
<1>7. ASSUME NEW h \in Handlers, NEW d \in toServer[h], Receive(h, d)
      PROVE  [Transfer!Next]_(Transfer!vars)
  <2>1. CASE Acknowledges(buf'[h], seq[h]) /\ NextPacket(h)
    BY <1>7, <2>1, AckedBlockReceived, RefineConfirm DEF Receive, clientVars
  <2>2. CASE Quit(h, "aborted")
    BY <1>7, <2>2, RefineFail DEF Receive, Quit, Active, Failed, clientVars
  <2>3. CASE Retry(h)
    BY <1>7, <2>3, <1>6 DEF Receive, clientVars
  <2> QED
    BY <1>7, <2>1, <2>2, <2>3 DEF Receive
<1>8. ASSUME NEW h \in Handlers, NEW k \in toClient[h], ClientReceive(h, k)
      PROVE  [Transfer!Next]_(Transfer!vars)
  BY <1>8, RefineDeliver DEF ClientReceive, serverVars
<1> QED
  <2>1. CASE \/ StopServing \/ Request \/ ClientGivesUp \/ UNCHANGED vars
             \/ \E h \in Handlers : \E d \in {Err, Junk, Runt} : ClientSends(h, d)
    BY <1>1, <2>1 DEF StopServing, Request, ClientGivesUp, ClientSends,
                      vars, serverVars, clientVars
  <2> QED
    BY <1>2, <1>3, <1>4, <1>5, <1>6, <1>7, <1>8, <2>1 DEF Next, Handle, Timeout, clientVars

\* Whatever the network does, each handler behaves as the abstract transfer
\* says: blocks arrive in order, one is outstanding at most, and success is
\* reported only after the last one was confirmed.
THEOREM RefinesTransfer ==
    ASSUME NumBlocks <= BlockMod
    PROVE  Safety => ImplementsTransfer
<1>1. TypeInv /\ TransferInv /\ [Next]_vars => [Transfer!Next]_(Transfer!vars)
  BY RefineStep
<1> QED
  BY RefineInit, <1>1, TransferInvariant, PTL DEF Safety, ImplementsTransfer, Transfer!Spec
=============================================================================
