-------------------------- MODULE DirectConnection --------------------------
(***************************************************************************)
(* Two nodes with a TCP connection between them, the connection that       *)
(* proxyConn says it stands for (ch04/proxy_conn.go). It carries two       *)
(* ordered streams, and each of them has an end: a node that has sent all  *)
(* it wants finishes its stream and goes on receiving, and the other one   *)
(* reads the end of the stream after the last unit.                        *)
(***************************************************************************)
EXTENDS Naturals, Sequences

VARIABLES
    sent,   \* how many units each node has sent
    got,    \* the units each node has received, in order
    state,  \* of each node: "open", "finished" sending, or "closed"
    ended   \* what a node has read after the last unit: "no" (nothing), "eof", "error"

vars == <<sent, got, state, ended>>

Streams == INSTANCE OrderedStreams

Nodes == Streams!Nodes
Other(n) == Streams!Other(n)

Init ==
    /\ Streams!Init
    /\ state = [n \in Nodes |-> "open"]
    /\ ended = [n \in Nodes |-> "no"]

Send(n) ==
    /\ state[n] = "open"
    /\ Streams!Send(n)
    /\ UNCHANGED <<state, ended>>

Deliver(n) ==
    /\ state[n] # "closed" /\ ended[n] = "no"
    /\ Streams!Deliver(n)
    /\ UNCHANGED <<state, ended>>

\* CloseWrite, or Close.
Finish(n, s) ==
    /\ state[n] # "closed"
    /\ state' = [state EXCEPT ![n] = s]
    /\ UNCHANGED <<sent, got, ended>>

\* The end of the stream comes after all of it, and only when the other node has
\* finished. What a node leaves behind that closes altogether is left open.
End(n) ==
    /\ state[n] # "closed" /\ ended[n] = "no"
    /\ \/ state[Other(n)] = "finished" /\ Len(got[n]) = sent[Other(n)]
       \/ state[Other(n)] = "closed"
    /\ ended' = [ended EXCEPT ![n] = "eof"]
    /\ UNCHANGED <<sent, got, state>>

\* A connection may break at any time, and says so.
Break(n) ==
    /\ ended[n] = "no"
    /\ ended' = [ended EXCEPT ![n] = "error"]
    /\ UNCHANGED <<sent, got, state>>

Next ==
    \E n \in Nodes :
        \/ Send(n) \/ Deliver(n)
        \/ Finish(n, "finished") \/ Finish(n, "closed")
        \/ End(n) \/ Break(n)

Spec == Init /\ [][Next]_vars
=============================================================================
