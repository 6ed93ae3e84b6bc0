-------------------------------- MODULE Tftp --------------------------------
(***************************************************************************)
(* The read-only TFTP server of ch06/tftp: Serve accepts read requests and *)
(* runs a handler goroutine for each; a handler sends the payload block by *)
(* block over its own UDP socket and waits for each acknowledgement.       *)
(*                                                                         *)
(* UDP loses, duplicates and reorders.  What has been sent is therefore a  *)
(* set that only grows: a datagram of it may be received any number of     *)
(* times, at any later moment, or never.                                   *)
(*                                                                         *)
(* A block is its position in the payload, 1..NumBlocks; only the last one *)
(* is short, and it may be empty.  Its number on the wire is a uint16      *)
(* (BlockMod = 65536 in the code).                                         *)
(***************************************************************************)
EXTENDS Integers

CONSTANTS
    Handlers,   \* the handler goroutines that may be started
    NumBlocks,  \* DATA packets the payload takes
    BlockMod,   \* block numbers on the wire are taken modulo this
    Retries     \* Server.Retries, after Serve has replaced 0 by 10

ASSUME TftpAssumption ==
    /\ NumBlocks \in Nat \ {0}
    /\ BlockMod \in Nat \ {0, 1}
    /\ Retries \in Nat \ {0}

VARIABLES
    serving,    \* Serve is still in its read loop
    requested,  \* the client has sent a read request
    pc,         \* where each handler is, or how it ended
    seq,        \* blocks the handler has marshalled: the payload's position
    tries,      \* i, the writes left for the current block
    buf,        \* the datagram the handler's buffer holds
    toClient,   \* DATA written by each handler
    toServer,   \* datagrams sent to each handler
    client,     \* the client's socket
    got         \* history: blocks of each handler that the client received

serverVars == <<serving, pc, seq, tries, buf>>
netVars == <<toClient, toServer>>
clientVars == <<requested, client, got>>
vars == <<serverVars, netVars, clientVars>>

-----------------------------------------------------------------------------
(* Packets                                                                 *)

Blocks == 1..NumBlocks

\* Operators named after another one of this module are that one with a mistake
\* in it; the specification does not use them. They show what each property
\* would catch.
BlockNumberStuck(k) == 1

\* Data.Block after the k-th call of MarshalBinary.
BlockNumber(k) == k % BlockMod

\* What a datagram to a handler can be: an ACK of a block number, an ERROR,
\* anything that unmarshals to neither, or one too short to overwrite what the
\* handler reads of its buffer.
Datagrams == [type : {"ack", "err", "junk", "runt"}, block : 0..(BlockMod - 1)]

Ack(b) == [type |-> "ack", block |-> b]
Err  == [type |-> "err", block |-> 0]
Junk == [type |-> "junk", block |-> 0]
Runt == [type |-> "runt", block |-> 0]

Active == {"dial", "write", "wait"}
Failed == {"undialled", "broken", "aborted", "exhausted"}
Ended  == Failed \union {"sent"}

-----------------------------------------------------------------------------
Init ==
    /\ serving = TRUE
    /\ requested = FALSE
    /\ pc = [h \in Handlers |-> "idle"]
    /\ seq = [h \in Handlers |-> 0]
    /\ tries = [h \in Handlers |-> 0]
    /\ buf = [h \in Handlers |-> Junk]      \* zeroed: opcode 0
    /\ toClient = [h \in Handlers |-> {}]
    /\ toServer = [h \in Handlers |-> {}]
    /\ client = "reading"
    /\ got = [h \in Handlers |-> {}]

-----------------------------------------------------------------------------
(* Serve                                                                   *)

\* A valid read request is read and a handler started for it. Nothing remembers
\* the requests: a duplicate starts another handler. (An invalid request
\* changes nothing.)
Accept(h) ==
    /\ serving /\ requested
    /\ pc[h] = "idle"
    /\ pc' = [pc EXCEPT ![h] = "dial"]
    /\ UNCHANGED <<serving, seq, tries, buf, netVars, clientVars>>

\* ReadFrom fails once the connection is closed: Serve returns and does not
\* wait for the handlers.
StopServing ==
    /\ serving
    /\ serving' = FALSE
    /\ UNCHANGED <<pc, seq, tries, buf, netVars, clientVars>>

-----------------------------------------------------------------------------
(* handle                                                                  *)

Quit(h, outcome) ==
    /\ pc' = [pc EXCEPT ![h] = outcome]
    /\ UNCHANGED <<seq, tries>>

NextPacketForgetsLast(h) ==
    /\ pc' = [pc EXCEPT ![h] = "write"]
    /\ seq' = [seq EXCEPT ![h] = @ + 1]
    /\ tries' = [tries EXCEPT ![h] = Retries]

NextPacketKeepsTries(h) ==
    \/ seq[h] = NumBlocks /\ Quit(h, "sent")
    \/ /\ seq[h] # NumBlocks
       /\ pc' = [pc EXCEPT ![h] = "write"]
       /\ seq' = [seq EXCEPT ![h] = @ + 1]
       /\ tries' = [tries EXCEPT ![h] = IF seq[h] = 0 THEN Retries ELSE @]

NextPacketMarshalsTwice(h) ==
    \/ seq[h] = NumBlocks /\ Quit(h, "sent")
    \/ /\ seq[h] # NumBlocks
       /\ pc' = [pc EXCEPT ![h] = "write"]
       /\ seq' = [seq EXCEPT ![h] = IF @ + 2 > NumBlocks THEN NumBlocks ELSE @ + 2]
       /\ tries' = [tries EXCEPT ![h] = Retries]

\* The condition of the NEXTPACKET loop (the last write was a full datagram)
\* and, when it holds, the next block marshalled and the RETRY loop entered.
NextPacket(h) ==
    \/ seq[h] = NumBlocks /\ Quit(h, "sent")
    \/ /\ seq[h] # NumBlocks
       /\ pc' = [pc EXCEPT ![h] = "write"]
       /\ seq' = [seq EXCEPT ![h] = @ + 1]
       /\ tries' = [tries EXCEPT ![h] = Retries]

RetryUncounted(h) ==
    /\ pc' = [pc EXCEPT ![h] = "write"]
    /\ UNCHANGED <<seq, tries>>

\* i-- and the condition of the RETRY loop.
Retry(h) ==
    /\ pc' = [pc EXCEPT ![h] = IF tries[h] > 1 THEN "write" ELSE "exhausted"]
    /\ tries' = [tries EXCEPT ![h] = @ - 1]
    /\ UNCHANGED seq

Dial(h) ==
    /\ pc[h] = "dial"
    /\ NextPacket(h) \/ Quit(h, "undialled")
    /\ UNCHANGED <<serving, buf, netVars, clientVars>>

WriteUnconfirmed(h) ==
    /\ pc[h] = "write"
    /\ toClient' = [toClient EXCEPT ![h] = @ \union {seq[h]}]
    /\ pc' = [pc EXCEPT ![h] = IF seq[h] = NumBlocks THEN "sent" ELSE "wait"]
    /\ UNCHANGED <<serving, seq, tries, buf, toServer, clientVars>>

\* conn.Write of the current block, and the read deadline.
Write(h) ==
    /\ pc[h] = "write"
    /\ toClient' = [toClient EXCEPT ![h] = @ \union {seq[h]}]
    /\ pc' = [pc EXCEPT ![h] = "wait"]
    /\ UNCHANGED <<serving, seq, tries, buf, toServer, clientVars>>

\* A write or a read fails with something else than a timeout, for instance
\* because the client's port is closed.
Break(h) ==
    /\ pc[h] \in {"write", "wait"}
    /\ Quit(h, "broken")
    /\ UNCHANGED <<serving, buf, netVars, clientVars>>

TimeoutAsAck(h) ==
    /\ pc[h] = "wait"
    /\ NextPacket(h)
    /\ UNCHANGED <<serving, buf, netVars, clientVars>>

\* The read deadline passes without a datagram.
Timeout(h) ==
    /\ pc[h] = "wait"
    /\ Retry(h)
    /\ UNCHANGED <<serving, buf, netVars, clientVars>>

\* conn.Read into the one buffer of the handler. The length read is dropped, so
\* after a runt the buffer still says what the datagram before it said.
Contents(h, d) == IF d = Runt THEN buf[h] ELSE d

AcknowledgesAny(d, k) == d.type = "ack"

AcknowledgesNext(d, k) == d.type = "ack" /\ d.block = BlockNumber(k + 1)

\* The comparison of an ACK's number with that of the current DATA.
Acknowledges(d, k) == d.type = "ack" /\ d.block = BlockNumber(k)

\* conn.Read returns datagram d: the acknowledgement of the current block, an
\* ERROR, or anything else, which uses up a try and sends the block again.
Receive(h, d) ==
    /\ pc[h] = "wait"
    /\ d \in toServer[h]
    /\ buf' = [buf EXCEPT ![h] = Contents(h, d)]
    /\ \/ Acknowledges(buf'[h], seq[h]) /\ NextPacket(h)
       \/ buf'[h].type = "err" /\ Quit(h, "aborted")
       \/ /\ ~Acknowledges(buf'[h], seq[h])
          /\ buf'[h].type # "err"
          /\ Retry(h)
    /\ UNCHANGED <<serving, netVars, clientVars>>

-----------------------------------------------------------------------------
(* The client: it acknowledges each DATA to the handler it came from and    *)
(* stops after a short one, or when its own deadline passes.                *)

Request ==
    /\ ~requested
    /\ requested' = TRUE
    /\ UNCHANGED <<serverVars, netVars, client, got>>

ClientReceive(h, k) ==
    /\ client = "reading"
    /\ k \in toClient[h]
    /\ got' = [got EXCEPT ![h] = @ \union {k}]
    /\ toServer' = [toServer EXCEPT ![h] = @ \union {Ack(BlockNumber(k))}]
    /\ client' = IF k = NumBlocks THEN "closed" ELSE "reading"
    /\ UNCHANGED <<serverVars, requested, toClient>>

ClientGivesUp ==
    /\ requested
    /\ client = "reading"
    /\ client' = "closed"
    /\ UNCHANGED <<serverVars, netVars, requested, got>>

\* A client that knows the handler's address sends an ERROR or nonsense.
ClientSends(h, d) ==
    /\ client = "reading"
    /\ toClient[h] # {}
    /\ d \in {Err, Junk, Runt}
    /\ toServer' = [toServer EXCEPT ![h] = @ \union {d}]
    /\ UNCHANGED <<serverVars, clientVars, toClient>>

-----------------------------------------------------------------------------
\* One step of the goroutine.
Handle(h) ==
    \/ Dial(h)
    \/ Write(h)
    \/ Break(h)
    \/ Timeout(h)
    \/ \E d \in toServer[h] : Receive(h, d)

Next ==
    \/ StopServing \/ Request \/ ClientGivesUp
    \/ \E h \in Handlers :
        \/ Accept(h)
        \/ Handle(h)
        \/ \E k \in toClient[h] : ClientReceive(h, k)
        \/ \E d \in {Err, Junk, Runt} : ClientSends(h, d)

\* A goroutine that can run is run, and a Read returns by its deadline.
Fairness == \A h \in Handlers : WF_vars(Handle(h))

Safety == Init /\ [][Next]_vars

Spec == Safety /\ Fairness

-----------------------------------------------------------------------------
(* Properties                                                              *)

\* Every variable has its type; a handler never marshals past the payload's end.
TypeOK ==
    /\ serving \in BOOLEAN
    /\ requested \in BOOLEAN
    /\ pc \in [Handlers -> Active \union Ended \union {"idle"}]
    /\ seq \in [Handlers -> 0..NumBlocks]
    /\ tries \in [Handlers -> 0..Retries]
    /\ buf \in [Handlers -> Datagrams]
    /\ toClient \in [Handlers -> SUBSET Blocks]
    /\ toServer \in [Handlers -> SUBSET Datagrams]
    /\ client \in {"reading", "closed"}
    /\ got \in [Handlers -> SUBSET Blocks]

\* A handler that logs "sent N blocks" has had every block of the payload
\* received by the client, whatever was lost, repeated or late.
SentMeansDelivered ==
    \A h \in Handlers : pc[h] = "sent" => got[h] = Blocks

\* What the client has of a handler is a prefix of the payload without a hole,
\* and the handler is at most one block ahead of it: no block is sent before
\* its predecessor has arrived.
OneBlockAhead ==
    \A h \in Handlers : got[h] \in {1..seq[h], 1..(seq[h] - 1)}

\* The buffer is never cleared between blocks, so it may hold an old ACK. That
\* ACK never counts for the block being waited for: a datagram too short to
\* overwrite it cannot acknowledge a block nobody received.
StaleBufferHarmless ==
    \A h \in Handlers :
        pc[h] \in {"write", "wait"} => ~Acknowledges(buf[h], seq[h])

\* Every handler ends: the payload is finite and each block has a budget of
\* writes, so a silent, babbling or vanished client cannot keep it running.
HandlersEnd ==
    \A h \in Handlers : pc[h] \in Active ~> pc[h] \in Ended

-----------------------------------------------------------------------------
(* The inductive invariant behind them (TftpProofs.tla)                    *)

\* How far a handler is and how many writes it has left agree with its pc.
Position(h) ==
    /\ pc[h] \in {"idle", "dial", "undialled"} <=> seq[h] = 0
    /\ pc[h] \in {"write", "wait"} => tries[h] > 0
    /\ pc[h] = "sent" => seq[h] = NumBlocks

TypeInv == TypeOK /\ \A h \in Handlers : Position(h)

\* The client has only what was written, and all but the current block.
Window(h) ==
    /\ toClient[h] \subseteq 1..seq[h]
    /\ got[h] \subseteq toClient[h]
    /\ 1..(seq[h] - 1) \subseteq got[h]
    /\ pc[h] = "sent" => seq[h] \in got[h]

\* Only a block that was received is ever acknowledged.
AckOrigin(h) ==
    \A d \in toServer[h] :
        d.type = "ack" => \E k \in got[h] : d.block = BlockNumber(k)

\* An ACK left in the buffer is that of an earlier block.
OldBuffer(h) ==
    pc[h] \notin Ended /\ buf[h].type = "ack" =>
        \E k \in 1..(seq[h] - 1) : buf[h].block = BlockNumber(k)

TransferInv == \A h \in Handlers : Window(h) /\ AckOrigin(h) /\ OldBuffer(h)

-----------------------------------------------------------------------------
\* The handlers implement the abstract transfer: seq counts the block being
\* sent as not yet confirmed.
Phase(h) == CASE pc[h] = "idle" -> "idle"
              [] pc[h] \in Active -> "running"
              [] pc[h] = "sent" -> "sent"
              [] OTHER -> "failed"

Confirmed(h) == IF pc[h] = "sent" \/ seq[h] = 0 THEN seq[h] ELSE seq[h] - 1

Delivered(h) == IF seq[h] \in got[h] THEN seq[h] ELSE Confirmed(h)

Transfer == INSTANCE BlockTransfer WITH
    phase <- [h \in Handlers |-> Phase(h)],
    delivered <- [h \in Handlers |-> Delivered(h)],
    confirmed <- [h \in Handlers |-> Confirmed(h)]

\* Every behaviour of the handlers is one of the abstract transfer: in-order
\* delivery, at most one unconfirmed block, success only when all arrived.
ImplementsTransfer == Transfer!Spec
=============================================================================
