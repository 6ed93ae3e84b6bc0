--------------------------- MODULE BlockTransfer ---------------------------
(***************************************************************************)
(* What one read request promises (ch06/tftp), whatever the network does:  *)
(* the blocks of the payload reach the client in order, the server never   *)
(* runs more than one block ahead of what it knows to be delivered, and it *)
(* reports success only once the client has every block.                   *)
(* Tftp.tla implements this specification for every handler at once.       *)
(***************************************************************************)
EXTENDS Naturals

CONSTANTS
    Handlers,   \* the transfers
    NumBlocks   \* blocks in the payload

VARIABLES
    phase,      \* what the server thinks of each transfer
    delivered,  \* blocks the client has, always the first ones
    confirmed   \* blocks the server knows the client has

vars == <<phase, delivered, confirmed>>

Init ==
    /\ phase = [h \in Handlers |-> "idle"]
    /\ delivered = [h \in Handlers |-> 0]
    /\ confirmed = [h \in Handlers |-> 0]

Start(h) ==
    /\ phase[h] = "idle"
    /\ phase' = [phase EXCEPT ![h] = "running"]
    /\ UNCHANGED <<delivered, confirmed>>

\* A block arrives. It may still arrive after the server has given up on it.
Deliver(h) ==
    /\ phase[h] \in {"running", "failed"}
    /\ delivered[h] = confirmed[h]
    /\ delivered[h] < NumBlocks
    /\ delivered' = [delivered EXCEPT ![h] = @ + 1]
    /\ UNCHANGED <<phase, confirmed>>

\* The server learns that a block arrived; after the last one it is done.
Confirm(h) ==
    /\ phase[h] = "running"
    /\ confirmed[h] < delivered[h]
    /\ confirmed' = [confirmed EXCEPT ![h] = @ + 1]
    /\ phase' = IF confirmed[h] + 1 = NumBlocks
                THEN [phase EXCEPT ![h] = "sent"]
                ELSE phase
    /\ UNCHANGED delivered

Fail(h) ==
    /\ phase[h] = "running"
    /\ phase' = [phase EXCEPT ![h] = "failed"]
    /\ UNCHANGED <<delivered, confirmed>>

Next == \E h \in Handlers : Start(h) \/ Deliver(h) \/ Confirm(h) \/ Fail(h)

Spec == Init /\ [][Next]_vars
=============================================================================
