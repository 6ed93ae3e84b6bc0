------------------------------ MODULE TftpLink ------------------------------
(***************************************************************************)
(* The TFTP handlers of Tftp.tla over links that deliver every datagram    *)
(* once and in order, as the loopback interface of server_test.go does,    *)
(* with a client that never gives up. The only thing that can go wrong is  *)
(* that an acknowledgement comes later than the handler's read deadline.   *)
(* Each action is an action of Tftp.tla that takes its datagram from a     *)
(* queue; MaxTimeouts bounds how often a deadline passes in a transfer.    *)
(***************************************************************************)
EXTENDS Tftp, Sequences

CONSTANT MaxTimeouts    \* deadlines missed in one transfer, at most

ASSUME LinkAssumption == MaxTimeouts \in Nat

VARIABLES
    dataQ,      \* DATA on its way from each handler
    ackQ,       \* datagrams on their way to each handler
    timeouts,   \* history: deadlines missed by each handler
    writes,     \* history: writes of the block being sent
    file        \* the client's p2: the payloads received, in order of arrival

linkVars == <<dataQ, ackQ, timeouts, writes, file>>
allVars == <<vars, linkVars>>

-----------------------------------------------------------------------------
LinkInit ==
    /\ Init
    /\ dataQ = [h \in Handlers |-> <<>>]
    /\ ackQ = [h \in Handlers |-> <<>>]
    /\ timeouts = [h \in Handlers |-> 0]
    /\ writes = [h \in Handlers |-> 0]
    /\ file = <<>>

LinkRequest == Request /\ UNCHANGED linkVars

LinkAccept(h) == Accept(h) /\ UNCHANGED linkVars

LinkDial(h) == Dial(h) /\ UNCHANGED linkVars

LinkWrite(h) ==
    /\ Write(h)
    /\ dataQ' = [dataQ EXCEPT ![h] = Append(@, seq[h])]
    /\ writes' = [writes EXCEPT ![h] = @ + 1]
    /\ UNCHANGED <<ackQ, timeouts, file>>

LinkTimeout(h) ==
    /\ Timeout(h)
    /\ timeouts[h] < MaxTimeouts
    /\ timeouts' = [timeouts EXCEPT ![h] = @ + 1]
    /\ UNCHANGED <<dataQ, ackQ, writes, file>>

LinkReceive(h) ==
    /\ ackQ[h] # <<>>
    /\ Receive(h, Head(ackQ[h]))
    /\ ackQ' = [ackQ EXCEPT ![h] = Tail(@)]
    /\ writes' = [writes EXCEPT ![h] = IF seq'[h] = seq[h] THEN @ ELSE 0]
    /\ UNCHANGED <<dataQ, timeouts, file>>

\* The test client appends what it reads to p2, whatever its block number and
\* sender, and acknowledges it to that sender.
LinkClientReceive(h) ==
    /\ dataQ[h] # <<>>
    /\ ClientReceive(h, Head(dataQ[h]))
    /\ dataQ' = [dataQ EXCEPT ![h] = Tail(@)]
    /\ ackQ' = [ackQ EXCEPT ![h] = Append(@, Ack(BlockNumber(Head(dataQ[h]))))]
    /\ file' = Append(file, Head(dataQ[h]))
    /\ UNCHANGED <<timeouts, writes>>

\* DATA for a closed socket is dropped; the handler may be told so.
LinkRefuse(h) ==
    /\ client = "closed"
    /\ dataQ[h] # <<>>
    /\ dataQ' = [dataQ EXCEPT ![h] = Tail(@)]
    /\ \/ pc[h] \in {"write", "wait"} /\ Quit(h, "broken")
       \/ UNCHANGED <<pc, seq, tries>>
    /\ UNCHANGED <<serving, requested, client, got, buf, netVars>>
    /\ UNCHANGED <<ackQ, timeouts, writes, file>>

LinkHandle(h) ==
    LinkDial(h) \/ LinkWrite(h) \/ LinkTimeout(h) \/ LinkReceive(h)

LinkNext ==
    \/ LinkRequest
    \/ \E h \in Handlers :
        LinkAccept(h) \/ LinkHandle(h) \/ LinkClientReceive(h) \/ LinkRefuse(h)

\* Serve and the handler are scheduled, a Read that finds a datagram returns it,
\* the link delivers and the client keeps reading.
LinkFairness ==
    \A h \in Handlers :
        /\ WF_allVars(LinkAccept(h))
        /\ WF_allVars(LinkHandle(h))
        /\ WF_allVars(LinkClientReceive(h))

LinkSpec == LinkInit /\ [][LinkNext]_allVars /\ LinkFairness

-----------------------------------------------------------------------------
(* Properties                                                              *)

\* The datagrams of a transfer, on the way in either direction.
InFlight(h) == Len(dataQ[h]) + Len(ackQ[h])

\* Every missed deadline leaves one more datagram circulating, and nothing ever
\* takes it out: a late ACK of one block makes the handler write the next one
\* twice, which is acknowledged twice, and so on to the end of the payload.
DuplicatesNeverDecay ==
    client = "reading" =>
        \A h \in Handlers :
            InFlight(h) = timeouts[h] + (IF pc[h] = "wait" THEN 1 ELSE 0)

\* Only the current block and its predecessor are on the link, so two block
\* numbers are enough to tell an ACK of the current block from an old one, and
\* the 16-bit number may wrap around.
TwoBlockWindow ==
    \A h \in Handlers :
        /\ \A i \in DOMAIN dataQ[h] : dataQ[h][i] \in {seq[h] - 1, seq[h]}
        /\ \A i \in DOMAIN ackQ[h] :
              ackQ[h][i] \in {Ack(BlockNumber(seq[h] - 1)), Ack(BlockNumber(seq[h]))}

\* Why it is so, for every number of blocks: a link carries acknowledgements of
\* the block before the current one, then of the current one, then DATA in the same
\* order, and nothing of the current one is acknowledged before the client has it.
\* (The inductive invariant of TftpLinkProofs.tla.)
OldAck(h) == Ack(BlockNumber(seq[h] - 1))
CurrentAck(h) == Ack(BlockNumber(seq[h]))

QueueTypes ==
    /\ dataQ \in [Handlers -> Seq(Blocks)]
    /\ ackQ \in [Handlers -> Seq(Datagrams)]

InOrder(h) ==
    /\ 1..(seq[h] - 1) \subseteq got[h]
    /\ pc[h] = "sent" => seq[h] \in got[h]
    /\ seq[h] = 0 => dataQ[h] = <<>> /\ ackQ[h] = <<>>
    /\ \A i \in 1..Len(dataQ[h]) :
           /\ dataQ[h][i] \in {seq[h] - 1, seq[h]}
           /\ dataQ[h][i] = seq[h] =>
                  \A j \in i..Len(dataQ[h]) : dataQ[h][j] = seq[h]
    /\ \A i \in 1..Len(ackQ[h]) :
           /\ ackQ[h][i] \in {OldAck(h), CurrentAck(h)}
           /\ ackQ[h][i] = CurrentAck(h) =>
                  /\ seq[h] \in got[h]
                  /\ \A j \in i..Len(ackQ[h]) : ackQ[h][j] = CurrentAck(h)
                  /\ \A j \in 1..Len(dataQ[h]) : dataQ[h][j] = seq[h]

LinkInv == QueueTypes /\ \A h \in Handlers : InOrder(h)

\* What the client has read of one handler is the payload with blocks repeated
\* on the spot: dropping a block whose number is that of the one before it gives
\* a prefix of the payload.
FileIsPayloadWithRepeats ==
    file # <<>> =>
        /\ file[1] = 1
        /\ \A i \in 2..Len(file) : file[i] - file[i - 1] \in {0, 1}

\* Why it is so: the block read last is the current one or its predecessor, and
\* the current one only if nothing older follows it on the link. (The inductive
\* invariant of TftpLinkProofs.tla, together with LinkInv.)
LastRead == IF file = <<>> THEN 0 ELSE file[Len(file)]

FileUpTo(h) ==
    /\ LastRead \in {seq[h] - 1, seq[h]}
    /\ LastRead = seq[h] => \A i \in 1..Len(dataQ[h]) : dataQ[h][i] = seq[h]
    /\ \A i \in 1..Len(ackQ[h]) : ackQ[h][i] = CurrentAck(h) => LastRead = seq[h]

FileInv ==
    /\ file \in Seq(Blocks)
    /\ FileIsPayloadWithRepeats
    /\ \A h \in Handlers : FileUpTo(h)

\* A transfer in which fewer deadlines than Retries are missed, in all blocks
\* together, is never given up as long as the client reads.
LateAcksSurvived ==
    \A h \in Handlers :
        timeouts[h] < Retries => pc[h] # "exhausted"

\* Why it is so: a try is used up by a missed deadline or by an ACK of the block
\* before, and the datagrams that are or become such an ACK are behind each other on
\* the link, no more of them than deadlines were missed before. (The inductive
\* invariant of TftpLinkProofs.tla, together with LinkInv.)
TriesUsed(h) == Retries - tries[h]

AtMostInFlight(h) == InFlight(h) <= timeouts[h] + (IF pc[h] = "wait" THEN 1 ELSE 0)

Budget(h) ==
    seq[h] # 0 =>
        /\ TriesUsed(h) <= timeouts[h]
        /\ \A i \in 1..Len(ackQ[h]) :
               ackQ[h][i] = OldAck(h) => TriesUsed(h) + i <= timeouts[h]
        /\ \A i \in 1..Len(dataQ[h]) :
               dataQ[h][i] = seq[h] - 1 => TriesUsed(h) + Len(ackQ[h]) + i <= timeouts[h]

BudgetInv ==
    /\ timeouts \in [Handlers -> Nat]
    /\ \A h \in Handlers :
          /\ AtMostInFlight(h)
          /\ Budget(h)
          /\ pc[h] = "exhausted" => tries[h] = 0

\* Server.Retries bounds the writes of a block, the first one included; its comment
\* ("retries after a transmission failure") would allow one more.
RetriesAreWrites ==
    \A h \in Handlers : pc[h] = "exhausted" => writes[h] = Retries

WritesInv ==
    /\ writes \in [Handlers -> Nat]
    /\ RetriesAreWrites
    /\ \A h \in Handlers :
          /\ seq[h] = 0 => writes[h] = 0
          /\ pc[h] = "write" => writes[h] = TriesUsed(h)
          /\ pc[h] = "wait" => writes[h] = TriesUsed(h) + 1

\* With fewer missed deadlines than Retries and a client that never closes early
\* the transfer ends, with the whole payload at the client.
TransferCompletes ==
    \A h \in Handlers : pc[h] \in {"write", "wait"} ~> got[h] = Blocks
=============================================================================
