--------------------------- MODULE OrderedStreams ---------------------------
(***************************************************************************)
(* Two nodes that send each other units: what one of them receives is the  *)
(* beginning of what the other one sent, in order and each unit once. How  *)
(* a stream ends is left out here; DirectConnection adds it. The k-th unit *)
(* a node sends is the number k.                                           *)
(***************************************************************************)
EXTENDS Naturals, Sequences

VARIABLES
    sent,   \* how many units each node has sent
    got     \* the units each node has received, in order

vars == <<sent, got>>

Nodes == {"source", "destination"}
Other(n) == IF n = "source" THEN "destination" ELSE "source"

Init ==
    /\ sent = [n \in Nodes |-> 0]
    /\ got = [n \in Nodes |-> <<>>]

Send(n) ==
    /\ sent' = [sent EXCEPT ![n] = @ + 1]
    /\ UNCHANGED got

Deliver(n) ==
    /\ Len(got[n]) < sent[Other(n)]
    /\ got' = [got EXCEPT ![n] = Append(@, Len(@) + 1)]
    /\ UNCHANGED sent

Next == \E n \in Nodes : Send(n) \/ Deliver(n)

Spec == Init /\ [][Next]_vars
=============================================================================
