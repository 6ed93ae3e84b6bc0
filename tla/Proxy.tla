-------------------------------- MODULE Proxy --------------------------------
(***************************************************************************)
(* proxyConn (ch04/proxy_conn.go) between a source and a destination node. *)
(* It dials both, copies from the source to the destination itself and     *)
(* has a goroutine copy the replies; when its own copy ends it returns,    *)
(* which closes both connections whatever the goroutine is doing.          *)
(*                                                                         *)
(* The nodes are programs of their own: they send, receive, finish sending *)
(* or close when they like. A connection is TCP: each direction holds a    *)
(* bounded number of units, a node that closes leaves the end of its       *)
(* stream or, if it had not read everything, a reset; so does the proxy.   *)
(* A unit is what one Read of io.Copy returns; the k-th one a node sends   *)
(* is the number k.                                                        *)
(***************************************************************************)
EXTENDS Naturals, Sequences

CONSTANTS
    Capacity,   \* units a connection buffers in each direction
    MaxSent     \* bound: units each node ever sends

ASSUME ProxyAssumption == Capacity \in Nat \ {0} /\ MaxSent \in Nat

Ends == {"source", "destination"}

\* proxyConn itself runs the copy "forward", its goroutine the copy "reply".
Copies == {"forward", "reply"}
From(d) == IF d = "forward" THEN "source" ELSE "destination"
To(d) == IF d = "forward" THEN "destination" ELSE "source"

VARIABLES
    pc,         \* where proxyConn ("forward") and its goroutine ("reply") are
    held,       \* the unit a copy has read and not yet written, 0 for none
    result,     \* what proxyConn returns: "none" yet, "nil" or "error"
    conn,       \* the proxy's end of each connection
    peer,       \* the node's end of it
    reset,      \* whether a reset by the node has reached the proxy
    inbox,      \* units from the node the proxy has not read
    outbox,     \* units from the proxy the node has not received
    aborted,    \* whether a reset by the proxy has reached the node
    written,    \* units Write has accepted for the node
    sent,       \* units the node has sent
    got,        \* units the node has received
    ended       \* what it has read after the last one: "no" (nothing), "eof", "error"

wires == <<conn, peer, reset, inbox, outbox, aborted>>
nodes == <<sent, got, ended>>
vars == <<pc, held, result, wires, written, nodes>>

Units == 1..MaxSent

TypeOK ==
    /\ pc["forward"] \in {"dial source", "dial destination", "read", "write",
                          "close destination", "close source", "end"}
    /\ pc["reply"] \in {"off", "read", "write", "end"}
    /\ DOMAIN pc = Copies
    /\ held \in [Copies -> 0..MaxSent]
    /\ result \in {"none", "nil", "error"}
    /\ conn \in [Ends -> {"none", "open", "closed"}]
    /\ peer \in [Ends -> {"none", "open", "finished", "closed"}]
    /\ reset \in [Ends -> BOOLEAN]
    /\ inbox \in [Ends -> Seq(Units)]
    /\ outbox \in [Ends -> Seq(Units)]
    /\ written \in [Ends -> 0..MaxSent]
    /\ sent \in [Ends -> 0..MaxSent]
    /\ got \in [Ends -> Seq(Units)]
    /\ aborted \in [Ends -> BOOLEAN]
    /\ ended \in [Ends -> {"no", "eof", "error"}]
    /\ \A e \in Ends : Len(inbox[e]) <= Capacity /\ Len(outbox[e]) <= Capacity

Init ==
    /\ pc = [d \in Copies |-> IF d = "forward" THEN "dial source" ELSE "off"]
    /\ held = [d \in Copies |-> 0]
    /\ result = "none"
    /\ conn = [e \in Ends |-> "none"]
    /\ peer = [e \in Ends |-> "none"]
    /\ reset = [e \in Ends |-> FALSE]
    /\ inbox = [e \in Ends |-> <<>>]
    /\ outbox = [e \in Ends |-> <<>>]
    /\ written = [e \in Ends |-> 0]
    /\ sent = [e \in Ends |-> 0]
    /\ got = [e \in Ends |-> <<>>]
    /\ aborted = [e \in Ends |-> FALSE]
    /\ ended = [e \in Ends |-> "no"]

-----------------------------------------------------------------------------
(* Establishing the connections                                            *)

Established(e) ==
    /\ conn' = [conn EXCEPT ![e] = "open"]
    /\ peer' = [peer EXCEPT ![e] = "open"]
    /\ UNCHANGED <<held, result, reset, inbox, outbox, aborted, written, nodes>>

DialSource ==
    /\ pc["forward"] = "dial source"
    /\ \/ /\ pc' = [pc EXCEPT !["forward"] = "dial destination"]
          /\ Established("source")
       \/ /\ pc' = [pc EXCEPT !["forward"] = "end"]
          /\ result' = "error"
          /\ UNCHANGED <<held, wires, written, nodes>>

\* Both connections are there and the goroutine starts; or the first one is
\* closed again.
DialDestination ==
    /\ pc["forward"] = "dial destination"
    /\ \/ /\ pc' = [d \in Copies |-> "read"]
          /\ Established("destination")
       \/ /\ pc' = [pc EXCEPT !["forward"] = "close source"]
          /\ result' = "error"
          /\ UNCHANGED <<held, wires, written, nodes>>

-----------------------------------------------------------------------------
(* io.Copy: one Read, then one Write, until either fails                   *)

\* An operator named after the one it precedes is that one with a mistake in it,
\* to show what a property would catch; the specification does not use it.
EndCopyAndClose(d, err) ==
    /\ pc' = [pc EXCEPT ![d] = IF d = "forward" THEN "close destination" ELSE "end"]
    /\ held' = [held EXCEPT ![d] = 0]
    /\ result' = IF d = "forward" THEN err ELSE result
    /\ conn' = [e \in Ends |-> "closed"]
    /\ inbox' = [e \in Ends |-> <<>>]
    /\ UNCHANGED <<peer, reset, outbox, aborted, written, nodes>>

\* A copy ends. proxyConn keeps its error and goes on to the deferred calls;
\* the goroutine drops it.
EndCopy(d, err) ==
    /\ pc' = [pc EXCEPT ![d] = IF d = "forward" THEN "close destination" ELSE "end"]
    /\ held' = [held EXCEPT ![d] = 0]
    /\ result' = IF d = "forward" THEN err ELSE result
    /\ UNCHANGED <<wires, written, nodes>>

Read(d) ==
    LET e == From(d)
    IN /\ pc[d] = "read"
       /\ conn[e] = "open"
       /\ inbox[e] # <<>>
       /\ held' = [held EXCEPT ![d] = Head(inbox[e])]
       /\ inbox' = [inbox EXCEPT ![e] = Tail(@)]
       /\ pc' = [pc EXCEPT ![d] = "write"]
       /\ UNCHANGED <<result, conn, peer, reset, outbox, aborted, written, nodes>>

ReadEOFAnyhow(d) ==
    LET e == From(d)
    IN /\ pc[d] = "read"
       /\ conn[e] = "open"
       /\ peer[e] \in {"finished", "closed"}
       /\ EndCopy(d, "nil")

\* The node has sent its last unit and all of them were read: no error.
ReadEOF(d) ==
    LET e == From(d)
    IN /\ pc[d] = "read"
       /\ conn[e] = "open" /\ ~reset[e]
       /\ inbox[e] = <<>>
       /\ peer[e] \in {"finished", "closed"}
       /\ EndCopy(d, "nil")

\* A reset may hide units that came before it.
ReadError(d) ==
    /\ pc[d] = "read"
    /\ conn[From(d)] = "closed" \/ reset[From(d)]
    /\ EndCopy(d, "error")

WriteTwice(d) ==
    LET e == To(d)
    IN /\ pc[d] = "write"
       /\ conn[e] = "open" /\ ~reset[e] /\ peer[e] # "closed"
       /\ Len(outbox[e]) < Capacity
       /\ outbox' = [outbox EXCEPT ![e] = Append(@, held[d])]
       /\ written' = [written EXCEPT ![e] = held[d]]
       /\ \/ held' = [held EXCEPT ![d] = 0] /\ pc' = [pc EXCEPT ![d] = "read"]
          \/ UNCHANGED <<held, pc>>
       /\ UNCHANGED <<result, conn, peer, reset, inbox, aborted, nodes>>

\* Write waits while the buffer is full.
Write(d) ==
    LET e == To(d)
    IN /\ pc[d] = "write"
       /\ conn[e] = "open" /\ ~reset[e] /\ peer[e] # "closed"
       /\ Len(outbox[e]) < Capacity
       /\ outbox' = [outbox EXCEPT ![e] = Append(@, held[d])]
       /\ written' = [written EXCEPT ![e] = @ + 1]
       /\ held' = [held EXCEPT ![d] = 0]
       /\ pc' = [pc EXCEPT ![d] = "read"]
       /\ UNCHANGED <<result, conn, peer, reset, inbox, aborted, nodes>>

\* Write to a node that has closed: accepted and lost. The reset it causes
\* comes back before the next call or later.
WriteLost(d) ==
    LET e == To(d)
    IN /\ pc[d] = "write"
       /\ conn[e] = "open" /\ ~reset[e] /\ peer[e] = "closed"
       /\ \E bounced \in BOOLEAN : reset' = [reset EXCEPT ![e] = bounced]
       /\ written' = [written EXCEPT ![e] = @ + 1]
       /\ held' = [held EXCEPT ![d] = 0]
       /\ pc' = [pc EXCEPT ![d] = "read"]
       /\ UNCHANGED <<result, conn, peer, inbox, outbox, aborted, nodes>>

WriteError(d) ==
    /\ pc[d] = "write"
    /\ conn[To(d)] = "closed" \/ reset[To(d)]
    /\ EndCopy(d, "error")

Copy(d) ==
    \/ Read(d) \/ ReadEOF(d) \/ ReadError(d)
    \/ Write(d) \/ WriteLost(d) \/ WriteError(d)

-----------------------------------------------------------------------------
(* The deferred calls                                                      *)

\* What is left of a stream whose connection was reset: any beginning of it.
Beginnings(s) == {SubSeq(s, 1, n) : n \in 0..Len(s)}

\* The proxy's end is reset: the node may lose what it has not received yet.
Abort(e) ==
    /\ aborted' = [aborted EXCEPT ![e] = TRUE]
    /\ \E s \in Beginnings(outbox[e]) : outbox' = [outbox EXCEPT ![e] = s]

\* Close ends the stream to the node after what was written, or, with units of the
\* node unread, resets the connection.
Close(e) ==
    /\ conn' = [conn EXCEPT ![e] = "closed"]
    /\ inbox' = [inbox EXCEPT ![e] = <<>>]
    /\ \/ inbox[e] = <<>> /\ UNCHANGED <<outbox, aborted>>
       \/ inbox[e] # <<>> /\ Abort(e)
    /\ UNCHANGED <<held, result, peer, reset, written, nodes>>

LeaveDestination ==
    /\ pc["forward"] = "close destination"
    /\ pc' = [pc EXCEPT !["forward"] = "close source"]
    /\ UNCHANGED <<held, result, wires, written, nodes>>

\* The deferred calls run last in, first out.
CloseDestination ==
    /\ pc["forward"] = "close destination"
    /\ pc' = [pc EXCEPT !["forward"] = "close source"]
    /\ Close("destination")

CloseSource ==
    /\ pc["forward"] = "close source"
    /\ pc' = [pc EXCEPT !["forward"] = "end"]
    /\ Close("source")

ProxyConn ==
    \/ DialSource \/ DialDestination
    \/ Copy("forward")
    \/ CloseDestination \/ CloseSource

-----------------------------------------------------------------------------
(* The nodes                                                               *)

\* A node sends. When the proxy has closed, that only brings a reset back, before
\* the node's next call or later.
PeerSend(e) ==
    /\ peer[e] = "open" /\ ended[e] # "error"
    /\ sent[e] < MaxSent
    /\ sent' = [sent EXCEPT ![e] = @ + 1]
    /\ \/ /\ conn[e] = "open" /\ Len(inbox[e]) < Capacity
          /\ inbox' = [inbox EXCEPT ![e] = Append(@, sent[e] + 1)]
          /\ UNCHANGED <<outbox, aborted>>
       \/ /\ conn[e] = "closed"
          /\ Abort(e) \/ UNCHANGED <<outbox, aborted>>
          /\ UNCHANGED inbox
    /\ UNCHANGED <<pc, held, result, conn, peer, reset, written, got, ended>>

PeerReceive(e) ==
    /\ peer[e] \in {"open", "finished"}
    /\ outbox[e] # <<>>
    /\ got' = [got EXCEPT ![e] = Append(@, Head(outbox[e]))]
    /\ outbox' = [outbox EXCEPT ![e] = Tail(@)]
    /\ UNCHANGED <<pc, held, result, conn, peer, reset, inbox, aborted, written, sent,
                   ended>>

\* A Read after the last unit: the end of the stream, or the reset.
PeerReadEnd(e) ==
    /\ peer[e] \in {"open", "finished"} /\ ended[e] = "no"
    /\ conn[e] = "closed" /\ outbox[e] = <<>>
    /\ ended' = [ended EXCEPT ![e] = IF aborted[e] THEN "error" ELSE "eof"]
    /\ UNCHANGED <<pc, held, result, wires, written, sent, got>>

\* CloseWrite: the node has nothing more to send and still receives.
PeerFinish(e) ==
    /\ peer[e] = "open"
    /\ peer' = [peer EXCEPT ![e] = "finished"]
    /\ UNCHANGED <<pc, held, result, conn, reset, inbox, outbox, aborted, written, nodes>>

\* Close, or the end of the node: a reset if it left units unread, or if it
\* asks for one.
PeerClose(e) ==
    /\ peer[e] \in {"open", "finished"}
    /\ peer' = [peer EXCEPT ![e] = "closed"]
    /\ \E abort \in BOOLEAN :
           reset' = [reset EXCEPT ![e] = abort \/ outbox[e] # <<>>]
    /\ outbox' = [outbox EXCEPT ![e] = <<>>]
    /\ UNCHANGED <<pc, held, result, conn, inbox, aborted, written, nodes>>

Peer(e) ==
    \/ PeerSend(e) \/ PeerReceive(e) \/ PeerReadEnd(e)
    \/ PeerFinish(e) \/ PeerClose(e)

Next ==
    \/ ProxyConn
    \/ Copy("reply")
    \/ \E e \in Ends : Peer(e)

\* The two threads of the proxy run; the nodes receive while they are there.
\* Nothing makes a node send, finish or close.
Fairness ==
    /\ WF_vars(ProxyConn)
    /\ WF_vars(Copy("reply"))
    /\ \A e \in Ends : WF_vars(PeerReceive(e))

Spec == Init /\ [][Next]_vars /\ Fairness

-----------------------------------------------------------------------------
(* Properties                                                              *)

\* Each node receives the beginning of what the other sent, in order and each unit
\* once, through failing copies, closes and resets in any interleaving.
Streams == INSTANCE OrderedStreams
KeepsStreamOrder == Streams!Spec

\* What the comment of proxyConn says: two nodes it has connected exchange data "as
\* though they were directly connected". They do not: proxyConn returns when the
\* source has finished sending, and its deferred Close calls show the source the end
\* of a stream that the destination has not ended, in the place of its replies.
Direct == INSTANCE DirectConnection WITH
              state <- [e \in Ends |-> IF peer[e] = "none" THEN "open" ELSE peer[e]],
              ended <- [e \in Ends |-> IF conn["destination"] = "none" THEN "no"
                                                                     ELSE ended[e]]
ActsAsDirectConnection == Direct!Spec

\* What an end of the stream does say. To the destination: that it has all the source
\* sent, when proxyConn returned nil; after an error it may be cut off, but then the
\* source has closed. To the source: no more than that it has finished itself, or that
\* the destination has closed or was never reached.
EndIsTrue ==
    /\ ended["destination"] = "eof" =>
           \/ result = "nil" /\ Len(got["destination"]) = sent["source"]
           \/ result = "error" /\ peer["source"] = "closed"
    /\ ended["source"] # "no" =>
           \/ result = "nil"
           \/ peer["destination"] = "closed" \/ conn["destination"] = "none"

\* Both connections are established and proxyConn has closed neither.
Running == pc["forward"] \in {"read", "write", "close destination"}

\* Units of a copy that are nowhere on their way: neither received, buffered at
\* either connection, nor held by the copy.
Missing(d) ==
    sent[From(d)] - (Len(got[To(d)]) + Len(outbox[To(d)])
                     + Len(inbox[From(d)]) + (IF held[d] = 0 THEN 0 ELSE 1))

\* proxyConn returns nil only after the source ended its stream and every unit of
\* it was written to the destination, and an error of a copy only when a node has
\* closed on it.
ResultIsTrue ==
    /\ result = "nil" =>
           /\ peer["source"] \in {"finished", "closed"}
           /\ written["destination"] = sent["source"]
    /\ result = "error" /\ conn["destination"] # "none" =>
           \E e \in Ends : peer[e] = "closed"

\* The goroutine's replies are lost when proxyConn returns; until it closes the
\* connections, and while neither node has closed, every unit is on its way in
\* both directions, whatever has finished.
LostOnlyAfterClose ==
    Running /\ (\A e \in Ends : peer[e] # "closed") =>
        \A d \in Copies : Missing(d) = 0

(* The inductive invariant behind them (ProxyProofs.tla)                   *)

\* Where proxyConn is says which connections there are.
Phase ==
    /\ conn["source"] = "none" <=> peer["source"] = "none"
    /\ conn["destination"] = "none" <=> peer["destination"] = "none"
    /\ pc["forward"] = "dial source" => conn["source"] = "none"
    /\ pc["forward"] \in {"dial source", "dial destination"} =>
           conn["destination"] = "none"
    /\ pc["forward"] \in {"dial destination", "close source"} => conn["source"] = "open"
    /\ Running => \A e \in Ends : conn[e] = "open"
    /\ pc["reply"] = "off" <=> conn["destination"] = "none"
    /\ \A d \in Copies : pc[d] = "write" <=> held[d] # 0
    /\ \A e \in Ends : reset[e] => peer[e] = "closed"
    /\ \A e \in Ends : peer[e] = "none" => sent[e] = 0
    /\ \A e \in Ends : aborted[e] => conn[e] = "closed"

\* A copy that has not ended: what it takes from its connection still counts.
Copying(d) ==
    pc[d] \in {"dial source", "dial destination", "off", "read", "write"}

\* The last unit the copy has read, when it has not ended.
LastRead(d) == written[To(d)] + (IF held[d] = 0 THEN 0 ELSE 1)

\* The units after the k-th one, as far as the sequence goes.
Follows(s, k) == \A i \in DOMAIN s : s[i] = k + i

\* A stream is one row of consecutive units: those received, those buffered for
\* the receiver, the one the copy holds and those it has not read. It breaks off
\* where a connection was closed, and never continues after a break.
Received(d) == Len(got[To(d)])
Buffered(d) == Len(outbox[To(d)])

Downstream(d) ==
    /\ Follows(got[To(d)], 0)
    /\ Follows(outbox[To(d)], Received(d))
    /\ Received(d) + Buffered(d) <= written[To(d)]
    /\ ~aborted[To(d)] /\ peer[To(d)] # "closed" =>
           Received(d) + Buffered(d) = written[To(d)]

Upstream(d) ==
    /\ held[d] # 0 => held[d] = written[To(d)] + 1
    /\ LastRead(d) <= sent[From(d)]
    /\ Copying(d) =>
           /\ Follows(inbox[From(d)], LastRead(d))
           /\ LastRead(d) + Len(inbox[From(d)]) <= sent[From(d)]
           /\ conn[From(d)] # "closed" =>
                  LastRead(d) + Len(inbox[From(d)]) = sent[From(d)]

\* A copy that has ended although nobody has closed had reached the end of its
\* stream.
Drained(d) ==
    ~Copying(d) /\ Running /\ (\A e \in Ends : peer[e] # "closed") =>
        /\ peer[From(d)] = "finished"
        /\ inbox[From(d)] = <<>>
        /\ written[To(d)] = sent[From(d)]

StreamInv == \A d \in Copies : Downstream(d) /\ Upstream(d) /\ Drained(d)

\* What proxyConn returns is settled when its copy ends.
ResultInv ==
    /\ Copying("forward") <=> result = "none"
    /\ ResultIsTrue

\* A node that has read the end has received all there was, and there comes no more.
EndInv ==
    /\ \A e \in Ends : ended[e] # "no" => conn[e] = "closed" /\ outbox[e] = <<>>
    /\ EndIsTrue

ProxyInv == TypeOK /\ Phase /\ StreamInv /\ ResultInv /\ EndInv

\* proxyConn returns once the source has finished or closed; once a node has
\* closed, the goroutine ends (the comment that it does not leak); and a
\* destination that closes is noticed unless proxyConn waits for a source with
\* nothing to send. All this while the nodes receive what they are sent: one that is
\* there and reads nothing keeps Write waiting.
BothCopiesEnd ==
    /\ peer["source"] \in {"finished", "closed"} ~> pc["forward"] = "end"
    /\ \A e \in Ends :
           peer[e] = "closed" ~>
               (pc["reply"] = "end" \/ (pc["reply"] = "off" /\ pc["forward"] = "end"))
    /\ pc["forward"] = "end" ~> pc["reply"] \in {"off", "end"}
    /\ peer["destination"] = "closed" ~>
           \/ pc["forward"] = "end"
           \/ /\ pc["forward"] = "read"
              /\ peer["source"] = "open" /\ inbox["source"] = <<>>
=============================================================================
