----------------------------- MODULE ProxyProofs -----------------------------
(***************************************************************************)
(* Proofs about Proxy for any capacity of the connections and any number   *)
(* of units sent: the inductive invariant ProxyInv, the safety properties  *)
(* that follow from it, and that both streams keep their order.            *)
(***************************************************************************)
EXTENDS Proxy, TLAPS

-----------------------------------------------------------------------------
(* Copies, connections and rows of units                                   *)

LEMMA Endpoints ==
    /\ \A d \in Copies : From(d) \in Ends /\ To(d) \in Ends /\ From(d) # To(d)
    /\ \A c, d \in Copies : c # d => From(c) = To(d) /\ To(c) = From(d)
    /\ \A e \in Ends : \E d \in Copies : To(d) = e
  BY DEF Copies, Ends, From, To

\* The unit after the last one of a row continues it.
LEMMA RowGrows ==
    ASSUME NEW s \in Seq(Units), NEW k \in Nat, Follows(s, k),
           k + Len(s) + 1 \in Units
    PROVE  LET t == Append(s, k + Len(s) + 1)
           IN t \in Seq(Units) /\ Len(t) = Len(s) + 1 /\ Follows(t, k)
<1> DEFINE x == k + Len(s) + 1
<1>1. Len(s) \in Nat /\ DOMAIN s = 1..Len(s)
  OBVIOUS
<1>2. x \in Units /\ x \in Nat
  BY <1>1
<1>3. \A i \in 1..Len(s) : s[i] = k + i
  BY <1>1 DEF Follows
<1> HIDE DEF x
<1>4. /\ Append(s, x) \in Seq(Units) /\ Len(Append(s, x)) = Len(s) + 1
      /\ DOMAIN Append(s, x) = 1..(Len(s) + 1)
  BY <1>2
<1>5. ASSUME NEW i \in 1..(Len(s) + 1) PROVE Append(s, x)[i] = k + i
  <2>1. CASE i \in 1..Len(s)
    BY <1>2, <1>3, <2>1
  <2>2. CASE i = Len(s) + 1
    <3>1. Append(s, x)[i] = x
      BY <1>1, <1>2, <2>2
    <3> QED
      BY <1>1, <2>2, <3>1 DEF x
  <2> QED
    BY <1>1, <2>1, <2>2
<1>6. Follows(Append(s, x), k)
  BY <1>4, <1>5 DEF Follows
<1> QED
  BY <1>4, <1>6 DEF x

\* Taking the first unit of a row leaves the row after it.
LEMMA RowShrinks ==
    ASSUME NEW s \in Seq(Units), s # <<>>, NEW k \in Nat, Follows(s, k)
    PROVE  /\ Head(s) = k + 1 /\ Head(s) \in Units
           /\ Len(s) \in Nat \ {0}
           /\ Tail(s) \in Seq(Units) /\ Len(Tail(s)) = Len(s) - 1
           /\ Follows(Tail(s), k + 1)
<1>1. /\ Len(s) \in Nat \ {0} /\ DOMAIN s = 1..Len(s)
      /\ Head(s) = s[1] /\ Head(s) \in Units
      /\ Tail(s) \in Seq(Units) /\ Len(Tail(s)) = Len(s) - 1
      /\ DOMAIN Tail(s) = 1..(Len(s) - 1)
      /\ \A i \in 1..(Len(s) - 1) : Tail(s)[i] = s[i + 1]
  OBVIOUS
<1>2. \A i \in 1..Len(s) : s[i] = k + i
  BY <1>1 DEF Follows
<1>3. ASSUME NEW i \in 1..(Len(s) - 1) PROVE Tail(s)[i] = (k + 1) + i
  <2>1. Tail(s)[i] = s[i + 1] /\ i + 1 \in 1..Len(s)
    BY <1>1
  <2> QED
    BY <1>2, <2>1
<1> QED
  BY <1>1, <1>2, <1>3 DEF Follows

\* Any beginning of a row is a row.
LEMMA RowBreaks ==
    ASSUME NEW s \in Seq(Units), NEW k \in Nat, NEW t \in Beginnings(s)
    PROVE  /\ t \in Seq(Units)
           /\ Len(s) \in Nat /\ Len(t) \in Nat /\ Len(t) <= Len(s)
           /\ Follows(s, k) => Follows(t, k)
<1>1. PICK n \in 0..Len(s) : t = SubSeq(s, 1, n)
  BY DEF Beginnings
<1>2. /\ Len(s) \in Nat /\ DOMAIN s = 1..Len(s)
      /\ t \in Seq(Units) /\ Len(t) = n /\ DOMAIN t = 1..n
      /\ \A i \in 1..n : t[i] = s[i]
  BY <1>1
<1> QED
  BY <1>2 DEF Follows

-----------------------------------------------------------------------------
(* Streams: what each kind of step does to one                             *)

\* The types of what a stream is made of.
StreamTypes(d) ==
    /\ got[To(d)] \in Seq(Units)
    /\ outbox[To(d)] \in Seq(Units)
    /\ inbox[From(d)] \in Seq(Units)

StreamSizes(d) ==
    /\ Received(d) \in Nat
    /\ Buffered(d) \in Nat
    /\ Len(inbox[From(d)]) \in Nat
    /\ written[To(d)] \in Nat
    /\ sent[From(d)] \in Nat
    /\ held[d] \in Nat
    /\ LastRead(d) \in Nat

LEMMA TypesOfStream ==
    ASSUME TypeOK, NEW d \in Copies
    PROVE  StreamTypes(d) /\ StreamSizes(d)
<1>1. From(d) \in Ends /\ To(d) \in Ends
  BY Endpoints
<1>2. 0..MaxSent \subseteq Nat
  BY ProxyAssumption
<1>3. StreamTypes(d)
  BY <1>1 DEF TypeOK, StreamTypes
<1>4. Len(got[To(d)]) \in Nat /\ Len(outbox[To(d)]) \in Nat /\ Len(inbox[From(d)]) \in Nat
  BY <1>3 DEF StreamTypes
<1>5. written[To(d)] \in Nat /\ sent[From(d)] \in Nat /\ held[d] \in Nat
  BY <1>1, <1>2 DEF TypeOK
<1>6. LastRead(d) \in Nat
  BY <1>5 DEF LastRead
<1> QED
  BY <1>3, <1>4, <1>5, <1>6 DEF StreamSizes, Received, Buffered

\* Nothing happens downstream of the copy, except that a connection comes up or
\* goes down with all that is buffered left to receive.
LEMMA DownSame ==
    ASSUME NEW d \in Copies, Downstream(d),
           got'[To(d)] = got[To(d)], outbox'[To(d)] = outbox[To(d)],
           written'[To(d)] = written[To(d)],
           aborted[To(d)] => aborted'[To(d)],
           peer[To(d)] = "closed" => peer'[To(d)] = "closed"
    PROVE  Downstream(d)'
  BY DEF Downstream, Received, Buffered

\* A connection goes down and takes the end of what was buffered with it.
LEMMA DownCut ==
    ASSUME NEW d \in Copies, StreamTypes(d), StreamSizes(d), Downstream(d),
           got'[To(d)] = got[To(d)], written'[To(d)] = written[To(d)],
           outbox'[To(d)] \in Beginnings(outbox[To(d)]),
           aborted'[To(d)] \/ peer'[To(d)] = "closed"
    PROVE  Downstream(d)'
<1>1. Received(d)' = Received(d)
  BY DEF Received
<1>2. outbox[To(d)] \in Seq(Units) /\ Received(d) \in Nat
  BY DEF StreamTypes, StreamSizes
<1>3. /\ Buffered(d)' \in Nat /\ Buffered(d)' <= Buffered(d)
      /\ Follows(outbox'[To(d)], Received(d))
  BY <1>2, RowBreaks DEF Downstream, Buffered
<1>4. Received(d) + Buffered(d) <= written[To(d)]
  BY DEF Downstream
<1>5. Received(d) + Buffered(d)' <= written[To(d)]
  BY <1>3, <1>4 DEF StreamSizes
<1> QED
  BY <1>1, <1>3, <1>5 DEF Downstream

\* The receiver takes the first buffered unit.
LEMMA DownReceive ==
    ASSUME NEW d \in Copies, StreamTypes(d), StreamSizes(d), Downstream(d),
           outbox[To(d)] # <<>>,
           got'[To(d)] = Append(got[To(d)], Head(outbox[To(d)])),
           outbox'[To(d)] = Tail(outbox[To(d)]),
           written'[To(d)] = written[To(d)],
           aborted'[To(d)] = aborted[To(d)], peer'[To(d)] = peer[To(d)]
    PROVE  /\ Downstream(d)'
           /\ Head(outbox[To(d)]) = Received(d) + 1
           /\ Received(d) < written[To(d)]
<1>1. /\ outbox[To(d)] \in Seq(Units) /\ got[To(d)] \in Seq(Units)
      /\ Received(d) \in Nat
      /\ Follows(got[To(d)], 0) /\ Follows(outbox[To(d)], Received(d))
  BY DEF StreamTypes, StreamSizes, Downstream
<1>2. /\ Head(outbox[To(d)]) = Received(d) + 1 /\ Received(d) + 1 \in Units
      /\ Buffered(d) > 0 /\ Buffered(d)' = Buffered(d) - 1
      /\ Follows(outbox'[To(d)], Received(d) + 1)
  BY <1>1, RowShrinks DEF Buffered
<1>3. 0 + Len(got[To(d)]) + 1 = Received(d) + 1 /\ 0 \in Nat
  BY <1>1 DEF Received
<1>4. Received(d)' = Received(d) + 1 /\ Follows(got'[To(d)], 0)
  BY <1>1, <1>2, <1>3, RowGrows DEF Received
<1>5. Received(d)' + Buffered(d)' = Received(d) + Buffered(d)
  BY <1>2, <1>4 DEF StreamSizes
<1>6. Received(d) + Buffered(d) <= written[To(d)]
  BY DEF Downstream
<1>7. Downstream(d)'
  BY <1>2, <1>4, <1>5 DEF Downstream
<1>8. Received(d) < written[To(d)]
  BY <1>2, <1>6 DEF StreamSizes
<1> QED
  BY <1>2, <1>7, <1>8

\* The copy writes the unit it holds into the buffer.
LEMMA DownWrite ==
    ASSUME NEW d \in Copies, StreamTypes(d), StreamSizes(d), Downstream(d),
           ~aborted[To(d)], peer[To(d)] # "closed",
           written[To(d)] + 1 \in Units,
           got'[To(d)] = got[To(d)],
           outbox'[To(d)] = Append(outbox[To(d)], written[To(d)] + 1),
           written'[To(d)] = written[To(d)] + 1
    PROVE  Downstream(d)'
<1>1. Received(d)' = Received(d)
  BY DEF Received
<1>2. Received(d) + Buffered(d) = written[To(d)]
  BY DEF Downstream
<1>3. /\ outbox[To(d)] \in Seq(Units) /\ Received(d) \in Nat
      /\ Follows(outbox[To(d)], Received(d))
  BY DEF StreamTypes, StreamSizes, Downstream
<1>4. Buffered(d)' = Buffered(d) + 1 /\ Follows(outbox'[To(d)], Received(d))
  <2>1. /\ Received(d) + Len(outbox[To(d)]) + 1 = written[To(d)] + 1
        /\ Received(d) + Len(outbox[To(d)]) + 1 \in Units
    BY <1>2 DEF Buffered
  <2>2. outbox'[To(d)] = Append(outbox[To(d)], Received(d) + Len(outbox[To(d)]) + 1)
    BY <2>1
  <2> QED
    BY <1>3, <2>1, <2>2, RowGrows DEF Buffered
<1>5. /\ Received(d) + Buffered(d)' = written[To(d)] + 1
      /\ written[To(d)] + 1 <= written[To(d)] + 1
  BY <1>2, <1>4 DEF StreamSizes
<1> QED
  BY <1>1, <1>4, <1>5 DEF Downstream

\* A write to a node that has closed changes only the count.
LEMMA DownLost ==
    ASSUME NEW d \in Copies, StreamSizes(d), Downstream(d),
           got'[To(d)] = got[To(d)], outbox'[To(d)] = outbox[To(d)],
           written'[To(d)] = written[To(d)] + 1,
           peer'[To(d)] = "closed"
    PROVE  Downstream(d)'
<1>1. Received(d)' = Received(d) /\ Buffered(d)' = Buffered(d)
  BY DEF Received, Buffered
<1>2. Received(d) + Buffered(d) <= written[To(d)]
  BY DEF Downstream
<1>3. Received(d) + Buffered(d) <= written[To(d)] + 1
  BY <1>2 DEF StreamSizes
<1> QED
  BY <1>1, <1>3 DEF Downstream

\* Nothing happens upstream of the copy, except that it may end or a connection
\* may come up or go down.
LEMMA UpSame ==
    ASSUME NEW d \in Copies, Upstream(d),
           held'[d] = held[d], inbox'[From(d)] = inbox[From(d)],
           written'[To(d)] = written[To(d)], sent'[From(d)] = sent[From(d)],
           Copying(d)' => Copying(d),
           conn[From(d)] = "closed" => conn'[From(d)] = "closed"
    PROVE  Upstream(d)'
  BY DEF Upstream, LastRead

\* The copy ends and forgets what it held.
LEMMA UpEnd ==
    ASSUME NEW d \in Copies, StreamTypes(d), StreamSizes(d), Upstream(d),
           held'[d] = 0, written'[To(d)] = written[To(d)],
           sent'[From(d)] = sent[From(d)], ~Copying(d)'
    PROVE  Upstream(d)'
<1>1. LastRead(d)' = written[To(d)] /\ LastRead(d)' <= sent[From(d)]
  BY DEF StreamSizes, Upstream, LastRead
<1> QED
  BY <1>1 DEF Upstream

\* The copy takes the next unit of its stream.
LEMMA UpRead ==
    ASSUME NEW d \in Copies, StreamTypes(d), StreamSizes(d), Upstream(d), Copying(d),
           inbox[From(d)] # <<>>, held[d] = 0,
           held'[d] = Head(inbox[From(d)]),
           inbox'[From(d)] = Tail(inbox[From(d)]),
           written'[To(d)] = written[To(d)], sent'[From(d)] = sent[From(d)],
           conn'[From(d)] = conn[From(d)]
    PROVE  Upstream(d)'
<1>1. LastRead(d) = written[To(d)]
  BY DEF LastRead, StreamSizes
<1>2. /\ held'[d] = written[To(d)] + 1
      /\ Len(inbox[From(d)]) > 0
      /\ Len(inbox'[From(d)]) = Len(inbox[From(d)]) - 1
      /\ Follows(inbox'[From(d)], written[To(d)] + 1)
  BY <1>1, RowShrinks DEF StreamTypes, StreamSizes, Upstream
<1>3. LastRead(d)' = written[To(d)] + 1
  BY <1>2 DEF LastRead, StreamSizes
<1>4. /\ written[To(d)] + Len(inbox[From(d)]) <= sent[From(d)]
      /\ conn[From(d)] # "closed" =>
             written[To(d)] + Len(inbox[From(d)]) = sent[From(d)]
  BY <1>1 DEF Upstream
<1>5. /\ (written[To(d)] + 1) + Len(inbox'[From(d)]) = written[To(d)] + Len(inbox[From(d)])
      /\ written[To(d)] + 1 <= sent[From(d)]
  BY <1>2, <1>4 DEF StreamSizes
<1> QED
  BY <1>2, <1>3, <1>4, <1>5 DEF Upstream

\* The copy gets rid of the unit it holds.
LEMMA UpWrite ==
    ASSUME NEW d \in Copies, StreamTypes(d), StreamSizes(d), Upstream(d), held[d] # 0, Copying(d),
           held'[d] = 0, written'[To(d)] = written[To(d)] + 1,
           inbox'[From(d)] = inbox[From(d)], sent'[From(d)] = sent[From(d)],
           conn'[From(d)] = conn[From(d)]
    PROVE  Upstream(d)'
<1>1. LastRead(d)' = LastRead(d)
  BY DEF LastRead, StreamSizes
<1> QED
  BY <1>1 DEF Upstream

\* The proxy closes the connection the copy reads from.
LEMMA UpClosed ==
    ASSUME NEW d \in Copies, StreamTypes(d), StreamSizes(d), Upstream(d),
           held'[d] = held[d], written'[To(d)] = written[To(d)],
           sent'[From(d)] = sent[From(d)],
           inbox'[From(d)] = <<>>, conn'[From(d)] = "closed"
    PROVE  Upstream(d)'
<1>1. LastRead(d)' = LastRead(d) /\ LastRead(d) + 0 <= sent[From(d)]
  BY DEF LastRead, StreamSizes, Upstream
<1>2. Len(<<>>) = 0 /\ Follows(<<>>, LastRead(d))
  BY DEF Follows
<1> QED
  BY <1>1, <1>2 DEF Upstream

\* The node sends a unit, which arrives or, when the proxy has closed, does not.
LEMMA UpSend ==
    ASSUME NEW d \in Copies, StreamTypes(d), StreamSizes(d), Upstream(d),
           sent[From(d)] + 1 \in Units,
           held'[d] = held[d], written'[To(d)] = written[To(d)],
           sent'[From(d)] = sent[From(d)] + 1,
           conn' = conn, Copying(d)' => Copying(d),
           \/ /\ conn[From(d)] = "open"
              /\ inbox'[From(d)] = Append(inbox[From(d)], sent[From(d)] + 1)
           \/ conn[From(d)] = "closed" /\ inbox'[From(d)] = inbox[From(d)]
    PROVE  Upstream(d)'
<1>1. LastRead(d)' = LastRead(d) /\ LastRead(d) <= sent[From(d)] + 1
  BY DEF LastRead, StreamSizes, Upstream
<1>2. held'[d] # 0 => held'[d] = written'[To(d)] + 1
  BY DEF Upstream
<1>3. ASSUME Copying(d)
      PROVE  /\ Follows(inbox'[From(d)], LastRead(d))
             /\ LastRead(d) + Len(inbox'[From(d)]) <= sent[From(d)] + 1
             /\ conn[From(d)] # "closed" =>
                    LastRead(d) + Len(inbox'[From(d)]) = sent[From(d)] + 1
  <2>1. CASE /\ conn[From(d)] = "open"
             /\ inbox'[From(d)] = Append(inbox[From(d)], sent[From(d)] + 1)
    <3>1. LastRead(d) + Len(inbox[From(d)]) = sent[From(d)]
      BY <1>3, <2>1 DEF Upstream
    <3>2. /\ Len(inbox'[From(d)]) = Len(inbox[From(d)]) + 1
          /\ Follows(inbox'[From(d)], LastRead(d))
      BY <1>3, <2>1, <3>1, RowGrows DEF StreamTypes, StreamSizes, Upstream
    <3>3. LastRead(d) + Len(inbox'[From(d)]) = sent[From(d)] + 1
      BY <3>1, <3>2 DEF StreamSizes
    <3>4. sent[From(d)] + 1 <= sent[From(d)] + 1
      BY DEF StreamSizes
    <3> QED
      BY <3>2, <3>3, <3>4
  <2>2. CASE conn[From(d)] = "closed" /\ inbox'[From(d)] = inbox[From(d)]
    <3>1. LastRead(d) + Len(inbox[From(d)]) <= sent[From(d)]
      BY <1>3 DEF Upstream
    <3>2. LastRead(d) + Len(inbox[From(d)]) <= sent[From(d)] + 1
      BY <3>1 DEF StreamSizes
    <3> QED
      BY <1>3, <2>2, <3>2 DEF Upstream
  <2> QED
    BY <2>1, <2>2
<1> QED
  BY <1>1, <1>2, <1>3 DEF Upstream
-----------------------------------------------------------------------------
(* Types                                                                   *)

LEMMA UnitTypes ==
    ASSUME ProxyInv, NEW d \in Copies
    PROVE  /\ held[d] # 0 =>
                  /\ held[d] = written[To(d)] + 1 /\ held[d] \in Units
                  /\ written[To(d)] + 1 \in 0..MaxSent
           /\ pc[d] = "write" => held[d] # 0
           /\ pc[d] = "read" => held[d] = 0
<1>1. held[d] # 0 => held[d] \in Units
  <2>1. held[d] \in 0..MaxSent
    BY DEF ProxyInv, TypeOK
  <2> QED
    BY <2>1, ProxyAssumption DEF Units
<1>2. held[d] # 0 => held[d] = written[To(d)] + 1
  BY DEF ProxyInv, StreamInv, Upstream
<1>3. pc[d] = "write" <=> held[d] # 0
  BY DEF ProxyInv, Phase
<1>4. Units \subseteq 0..MaxSent
  BY ProxyAssumption DEF Units
<1> QED
  BY <1>1, <1>2, <1>3, <1>4

LEMMA EstablishedType ==
    ASSUME TypeOK, NEW e \in Ends, Established(e)
    PROVE  /\ held' = held /\ result' = result /\ reset' = reset
           /\ inbox' = inbox /\ outbox' = outbox
           /\ written' = written /\ sent' = sent /\ got' = got
           /\ aborted' = aborted /\ ended' = ended
           /\ conn' \in [Ends -> {"none", "open", "closed"}]
           /\ peer' \in [Ends -> {"none", "open", "finished", "closed"}]
  BY DEF TypeOK, Established, nodes

LEMMA EndCopyType ==
    ASSUME TypeOK, NEW d \in Copies, pc[d] \in {"read", "write"},
           NEW err \in {"nil", "error"}, EndCopy(d, err)
    PROVE  TypeOK'
<1>1. 0 \in 0..MaxSent
  BY ProxyAssumption
<1> QED
  BY <1>1 DEF TypeOK, EndCopy, wires, nodes, Copies

LEMMA CloseType ==
    ASSUME TypeOK, NEW e \in Ends, Close(e)
    PROVE  /\ held' = held /\ result' = result /\ peer' = peer /\ reset' = reset
           /\ written' = written /\ sent' = sent /\ got' = got /\ ended' = ended
           /\ aborted' \in [Ends -> BOOLEAN]
           /\ conn' \in [Ends -> {"none", "open", "closed"}]
           /\ inbox' \in [Ends -> Seq(Units)]
           /\ outbox' \in [Ends -> Seq(Units)]
           /\ \A f \in Ends : Len(inbox'[f]) <= Capacity /\ Len(outbox'[f]) <= Capacity
           /\ conn' = [conn EXCEPT ![e] = "closed"]
           /\ inbox' = [inbox EXCEPT ![e] = <<>>]
           /\ outbox'[e] \in Beginnings(outbox[e])
           /\ \A f \in Ends \ {e} : outbox'[f] = outbox[f]
           /\ outbox'[e] = outbox[e] \/ aborted'[e]
           /\ \A f \in Ends : aborted[f] => aborted'[f]
           /\ \A f \in Ends \ {e} : aborted'[f] = aborted[f]
<1>0. /\ outbox' = outbox /\ aborted' = aborted
      \/ /\ aborted' = [aborted EXCEPT ![e] = TRUE]
         /\ \E s \in Beginnings(outbox[e]) : outbox' = [outbox EXCEPT ![e] = s]
  BY DEF Close, Abort
<1>1. outbox[e] \in Seq(Units) /\ Len(outbox[e]) <= Capacity
  BY DEF TypeOK
<1>2. outbox[e] \in Beginnings(outbox[e])
  <2>1. outbox[e] = SubSeq(outbox[e], 1, Len(outbox[e])) /\ Len(outbox[e]) \in 0..Len(outbox[e])
    BY <1>1
  <2> QED
    BY <2>1 DEF Beginnings
<1>3. PICK s \in Beginnings(outbox[e]) : outbox' = [outbox EXCEPT ![e] = s]
  BY <1>0, <1>2 DEF TypeOK
<1>4. s \in Seq(Units) /\ Len(s) <= Capacity
  BY <1>1, <1>3, RowBreaks, ProxyAssumption
<1>5. Len(<<>>) <= Capacity /\ <<>> \in Seq(Units)
  BY ProxyAssumption
<1>6. /\ held' = held /\ result' = result /\ peer' = peer /\ reset' = reset
      /\ written' = written /\ sent' = sent /\ got' = got /\ ended' = ended
      /\ conn' = [conn EXCEPT ![e] = "closed"]
      /\ inbox' = [inbox EXCEPT ![e] = <<>>]
  BY DEF Close, nodes
<1>7. /\ conn' \in [Ends -> {"none", "open", "closed"}]
      /\ inbox' \in [Ends -> Seq(Units)]
      /\ outbox' \in [Ends -> Seq(Units)]
  BY <1>3, <1>4, <1>5, <1>6 DEF TypeOK
<1>8. \A f \in Ends : Len(inbox'[f]) <= Capacity /\ Len(outbox'[f]) <= Capacity
  BY <1>3, <1>4, <1>5, <1>6 DEF TypeOK
<1>9. /\ aborted' \in [Ends -> BOOLEAN]
      /\ outbox'[e] = outbox[e] \/ aborted'[e]
      /\ \A f \in Ends : aborted[f] => aborted'[f]
      /\ \A f \in Ends \ {e} : aborted'[f] = aborted[f]
  BY <1>0 DEF TypeOK
<1> QED
  BY <1>3, <1>6, <1>7, <1>8, <1>9 DEF TypeOK

LEMMA TypeStep == ProxyInv /\ [Next]_vars => TypeOK'
<1> SUFFICES ASSUME ProxyInv, [Next]_vars PROVE TypeOK'
  OBVIOUS
<1>0. TypeOK
  BY DEF ProxyInv
<1>1. CASE DialSource
  <2>1. CASE pc' = [pc EXCEPT !["forward"] = "dial destination"] /\ Established("source")
    <3>1. "source" \in Ends /\ "forward" \in Copies /\ "reply" \in Copies
      BY DEF Ends, Copies
    <3> QED
      BY <1>0, <2>1, <3>1, EstablishedType DEF TypeOK
  <2>2. CASE pc' = [pc EXCEPT !["forward"] = "end"] /\ result' = "error"
             /\ UNCHANGED <<held, wires, written, nodes>>
    BY <1>0, <2>2 DEF TypeOK, wires, nodes, Copies
  <2> QED
    BY <1>1, <2>1, <2>2 DEF DialSource
<1>2. CASE DialDestination
  <2>1. CASE pc' = [d \in Copies |-> "read"] /\ Established("destination")
    <3>1. "destination" \in Ends /\ "forward" \in Copies /\ "reply" \in Copies
      BY DEF Ends, Copies
    <3> QED
      BY <1>0, <2>1, <3>1, EstablishedType DEF TypeOK
  <2>2. CASE pc' = [pc EXCEPT !["forward"] = "close source"] /\ result' = "error"
             /\ UNCHANGED <<held, wires, written, nodes>>
    BY <1>0, <2>2 DEF TypeOK, wires, nodes, Copies
  <2> QED
    BY <1>2, <2>1, <2>2 DEF DialDestination
<1>3. ASSUME NEW d \in Copies, Read(d) PROVE TypeOK'
  <2>1. From(d) \in Ends
    BY Endpoints
  <2>2. inbox[From(d)] \in Seq(Units) /\ inbox[From(d)] # <<>>
    BY <1>0, <1>3, <2>1 DEF TypeOK, Read
  <2>3. /\ Head(inbox[From(d)]) \in 0..MaxSent
        /\ Tail(inbox[From(d)]) \in Seq(Units)
        /\ Len(Tail(inbox[From(d)])) <= Capacity
    <3>1. Head(inbox[From(d)]) \in Units /\ Units \subseteq 0..MaxSent
      BY <2>2, ProxyAssumption DEF Units
    <3>2. Len(inbox[From(d)]) <= Capacity
      BY <1>0, <2>1 DEF TypeOK
    <3>3. /\ Tail(inbox[From(d)]) \in Seq(Units)
          /\ Len(Tail(inbox[From(d)])) = Len(inbox[From(d)]) - 1
          /\ Len(inbox[From(d)]) \in Nat
      BY <2>2
    <3>4. Len(Tail(inbox[From(d)])) <= Capacity
      BY <3>2, <3>3, ProxyAssumption
    <3> QED
      BY <3>1, <3>3, <3>4
  <2>4. /\ held' = [held EXCEPT ![d] = Head(inbox[From(d)])]
        /\ inbox' = [inbox EXCEPT ![From(d)] = Tail(inbox[From(d)])]
        /\ pc' = [pc EXCEPT ![d] = "write"]
        /\ UNCHANGED <<result, conn, peer, reset, outbox, aborted, written, sent, got, ended>>
    BY <1>0, <1>3, <2>1 DEF Read, nodes, TypeOK
  <2> QED
    BY <1>0, <2>1, <2>3, <2>4 DEF TypeOK, Copies
<1>4. ASSUME NEW d \in Copies, ReadEOF(d) \/ ReadError(d) \/ WriteError(d) PROVE TypeOK'
  BY <1>0, <1>4, EndCopyType DEF ReadEOF, ReadError, WriteError
<1>5. ASSUME NEW d \in Copies, Write(d) PROVE TypeOK'
  <2>1. To(d) \in Ends
    BY Endpoints
  <2>2. held[d] \in Units /\ written[To(d)] + 1 \in 0..MaxSent /\ 0 \in 0..MaxSent
    BY <1>5, UnitTypes, ProxyAssumption DEF Write
  <2>3. /\ Append(outbox[To(d)], held[d]) \in Seq(Units)
        /\ Len(Append(outbox[To(d)], held[d])) <= Capacity
    <3>1. outbox[To(d)] \in Seq(Units) /\ Len(outbox[To(d)]) < Capacity
      BY <1>0, <1>5, <2>1 DEF Write, TypeOK
    <3>2. Len(Append(outbox[To(d)], held[d])) = Len(outbox[To(d)]) + 1
      BY <2>2, <3>1
    <3>3. Len(outbox[To(d)]) \in Nat
      BY <3>1
    <3> QED
      BY <2>2, <3>1, <3>2, <3>3, ProxyAssumption
  <2>4. /\ outbox' = [outbox EXCEPT ![To(d)] = Append(outbox[To(d)], held[d])]
        /\ written' = [written EXCEPT ![To(d)] = written[To(d)] + 1]
        /\ held' = [held EXCEPT ![d] = 0]
        /\ pc' = [pc EXCEPT ![d] = "read"]
        /\ UNCHANGED <<result, conn, peer, reset, inbox, aborted, sent, got, ended>>
    BY <1>0, <1>5, <2>1 DEF Write, nodes, TypeOK
  <2> QED
    BY <1>0, <2>1, <2>2, <2>3, <2>4 DEF TypeOK, Copies
<1>6. ASSUME NEW d \in Copies, WriteLost(d) PROVE TypeOK'
  <2>1. To(d) \in Ends
    BY Endpoints
  <2>2. written[To(d)] + 1 \in 0..MaxSent /\ 0 \in 0..MaxSent
    BY <1>6, UnitTypes, ProxyAssumption DEF WriteLost
  <2>3. /\ \E bounced \in BOOLEAN : reset' = [reset EXCEPT ![To(d)] = bounced]
        /\ written' = [written EXCEPT ![To(d)] = written[To(d)] + 1]
        /\ held' = [held EXCEPT ![d] = 0]
        /\ pc' = [pc EXCEPT ![d] = "read"]
        /\ UNCHANGED <<result, conn, peer, inbox, outbox, aborted, sent, got, ended>>
    BY <1>0, <1>6, <2>1 DEF WriteLost, nodes, TypeOK
  <2>4. reset' \in [Ends -> BOOLEAN] /\ aborted' \in [Ends -> BOOLEAN]
    BY <1>0, <2>3 DEF TypeOK
  <2>5. /\ written' \in [Ends -> 0..MaxSent] /\ held' \in [Copies -> 0..MaxSent]
        /\ sent' \in [Ends -> 0..MaxSent]
    BY <1>0, <2>1, <2>2, <2>3 DEF TypeOK
  <2>6. /\ pc'["forward"] \in {"dial source", "dial destination", "read", "write",
                               "close destination", "close source", "end"}
        /\ pc'["reply"] \in {"off", "read", "write", "end"}
        /\ DOMAIN pc' = Copies
    BY <1>0, <2>3 DEF TypeOK, Copies
  <2> QED
    BY <1>0, <2>3, <2>4, <2>5, <2>6 DEF TypeOK
<1>7. CASE CloseDestination
  <2>1. Close("destination") /\ "destination" \in Ends
        /\ pc' = [pc EXCEPT !["forward"] = "close source"]
    BY <1>7 DEF CloseDestination, Ends
  <2>2. /\ pc'["forward"] \in {"dial source", "dial destination", "read", "write",
                               "close destination", "close source", "end"}
        /\ pc'["reply"] \in {"off", "read", "write", "end"}
        /\ DOMAIN pc' = Copies
    BY <1>0, <2>1 DEF TypeOK, Copies
  <2>3. /\ conn' \in [Ends -> {"none", "open", "closed"}]
        /\ inbox' \in [Ends -> Seq(Units)] /\ outbox' \in [Ends -> Seq(Units)]
        /\ \A f \in Ends : Len(inbox'[f]) <= Capacity /\ Len(outbox'[f]) <= Capacity
    BY <1>0, <2>1, CloseType
  <2>4. /\ aborted' \in [Ends -> BOOLEAN]
        /\ UNCHANGED <<held, result, peer, reset, written, sent, got, ended>>
    BY <1>0, <2>1, CloseType
  <2> QED
    BY <1>0, <2>2, <2>3, <2>4 DEF TypeOK
<1>8. CASE CloseSource
  <2>1. Close("source") /\ "source" \in Ends
        /\ pc' = [pc EXCEPT !["forward"] = "end"]
    BY <1>8 DEF CloseSource, Ends
  <2>2. /\ pc'["forward"] \in {"dial source", "dial destination", "read", "write",
                               "close destination", "close source", "end"}
        /\ pc'["reply"] \in {"off", "read", "write", "end"}
        /\ DOMAIN pc' = Copies
    BY <1>0, <2>1 DEF TypeOK, Copies
  <2>3. /\ conn' \in [Ends -> {"none", "open", "closed"}]
        /\ inbox' \in [Ends -> Seq(Units)] /\ outbox' \in [Ends -> Seq(Units)]
        /\ \A f \in Ends : Len(inbox'[f]) <= Capacity /\ Len(outbox'[f]) <= Capacity
    BY <1>0, <2>1, CloseType
  <2>4. /\ aborted' \in [Ends -> BOOLEAN]
        /\ UNCHANGED <<held, result, peer, reset, written, sent, got, ended>>
    BY <1>0, <2>1, CloseType
  <2> QED
    BY <1>0, <2>2, <2>3, <2>4 DEF TypeOK
<1>9. ASSUME NEW e \in Ends, PeerSend(e) PROVE TypeOK'
  <2>1. sent[e] + 1 \in 0..MaxSent /\ sent[e] + 1 \in Units
    <3>1. sent[e] \in 0..MaxSent /\ sent[e] < MaxSent
      BY <1>0, <1>9 DEF TypeOK, PeerSend
    <3> QED
      BY <3>1, ProxyAssumption DEF Units
  <2>5. /\ UNCHANGED <<pc, held, result, conn, peer, reset, written, got, ended>>
        /\ sent' \in [Ends -> 0..MaxSent]
    BY <1>0, <1>9, <2>1 DEF TypeOK, PeerSend
  <2>6. aborted' \in [Ends -> BOOLEAN]
    <3>1. aborted' = aborted \/ aborted' = [aborted EXCEPT ![e] = TRUE]
      BY <1>9 DEF PeerSend, Abort
    <3> QED
      BY <1>0, <3>1 DEF TypeOK
  <2>2. CASE conn[e] = "open" /\ Len(inbox[e]) < Capacity
             /\ inbox' = [inbox EXCEPT ![e] = Append(@, sent[e] + 1)]
             /\ UNCHANGED <<outbox, aborted>>
    <3>0. inbox[e] \in Seq(Units)
      BY <1>0 DEF TypeOK
    <3>1. inbox[e] \in Seq(Units) /\ Len(inbox[e]) \in Nat
      BY <3>0
    <3>2. /\ Append(inbox[e], sent[e] + 1) \in Seq(Units)
          /\ Len(Append(inbox[e], sent[e] + 1)) = Len(inbox[e]) + 1
      BY <2>1, <3>1
    <3>3. Len(Append(inbox[e], sent[e] + 1)) <= Capacity
      BY <2>2, <3>1, <3>2, ProxyAssumption
    <3> QED
      BY <1>0, <2>2, <2>5, <2>6, <3>2, <3>3 DEF TypeOK
  <2>4. CASE inbox' = inbox /\ UNCHANGED <<outbox, aborted>>
    BY <1>0, <2>4, <2>5, <2>6 DEF TypeOK
  <2>3. CASE inbox' = inbox /\ Abort(e)
    <3>1. PICK s \in Beginnings(outbox[e]) : outbox' = [outbox EXCEPT ![e] = s]
      BY <2>3 DEF Abort
    <3>2. outbox[e] \in Seq(Units) /\ Len(outbox[e]) <= Capacity
      BY <1>0 DEF TypeOK
    <3>3. s \in Seq(Units) /\ Len(s) <= Capacity
      BY <3>1, <3>2, RowBreaks, ProxyAssumption
    <3> QED
      BY <1>0, <2>3, <2>5, <2>6, <3>1, <3>3 DEF TypeOK
  <2> QED
    BY <1>9, <2>2, <2>3, <2>4 DEF PeerSend
<1>10. ASSUME NEW e \in Ends, PeerReceive(e) PROVE TypeOK'
  <2>1. outbox[e] \in Seq(Units) /\ outbox[e] # <<>> /\ got[e] \in Seq(Units)
        /\ Len(outbox[e]) <= Capacity
    BY <1>0, <1>10 DEF TypeOK, PeerReceive
  <2>2. /\ Head(outbox[e]) \in Units /\ Tail(outbox[e]) \in Seq(Units)
        /\ Len(Tail(outbox[e])) = Len(outbox[e]) - 1 /\ Len(outbox[e]) \in Nat
    BY <2>1
  <2>3. Append(got[e], Head(outbox[e])) \in Seq(Units) /\ Len(Tail(outbox[e])) <= Capacity
    BY <2>1, <2>2, ProxyAssumption
  <2> QED
    BY <1>0, <1>10, <2>2, <2>3 DEF TypeOK, PeerReceive
<1>11. ASSUME NEW e \in Ends, PeerFinish(e) PROVE TypeOK'
  BY <1>0, <1>11 DEF TypeOK, PeerFinish, nodes
<1>12. ASSUME NEW e \in Ends, PeerClose(e) PROVE TypeOK'
  <2>1. Len(<<>>) <= Capacity /\ <<>> \in Seq(Units)
    BY ProxyAssumption
  <2>2. \E b \in BOOLEAN : reset' = [reset EXCEPT ![e] = b]
    BY <1>12 DEF PeerClose
  <2> QED
    BY <1>0, <1>12, <2>1, <2>2 DEF TypeOK, PeerClose, nodes
<1>13. CASE UNCHANGED vars
  BY <1>0, <1>13 DEF TypeOK, vars, wires, nodes
<1>14. ASSUME NEW e \in Ends, PeerReadEnd(e) PROVE TypeOK'
  BY <1>0, <1>14 DEF TypeOK, PeerReadEnd, wires
<1> QED
  BY <1>1, <1>2, <1>3, <1>4, <1>5, <1>6, <1>7, <1>8, <1>9, <1>10, <1>11, <1>12, <1>13, <1>14
  DEF Next, ProxyConn, Copy, Peer, Copies

-----------------------------------------------------------------------------
(* Phases                                                                  *)

LEMMA EndCopyPhase ==
    ASSUME TypeOK, Phase, NEW d \in Copies, pc[d] \in {"read", "write"},
           NEW err \in {"nil", "error"}, EndCopy(d, err)
    PROVE  Phase'
<1>1. /\ pc' = [pc EXCEPT ![d] = IF d = "forward" THEN "close destination" ELSE "end"]
      /\ held' = [held EXCEPT ![d] = 0]
      /\ UNCHANGED <<conn, peer, reset, aborted, sent>>
  BY DEF EndCopy, wires, nodes
<1> QED
  BY <1>1 DEF Phase, TypeOK, Running, Copies, Ends

LEMMA PhaseStep == ProxyInv /\ [Next]_vars => Phase'
<1> SUFFICES ASSUME ProxyInv, [Next]_vars PROVE Phase'
  OBVIOUS
<1>0. TypeOK /\ Phase
  BY DEF ProxyInv
<1>1. CASE DialSource
  BY <1>0, <1>1
  DEF DialSource, Established, wires, nodes, TypeOK, Phase, Running, Ends, Copies
<1>2. CASE DialDestination
  <2>1. CASE pc' = [d \in Copies |-> "read"] /\ Established("destination")
    BY <1>0, <1>2, <2>1
    DEF DialDestination, Established, nodes, TypeOK, Phase, Running, Ends, Copies
  <2>2. CASE pc' = [pc EXCEPT !["forward"] = "close source"]
             /\ UNCHANGED <<held, wires, written, nodes>>
    BY <1>0, <1>2, <2>2 DEF DialDestination, wires, nodes, TypeOK, Phase, Running, Ends, Copies
  <2> QED
    BY <1>2, <2>1, <2>2 DEF DialDestination
<1>3. ASSUME NEW d \in Copies, Read(d) PROVE Phase'
  <2>1. Head(inbox[From(d)]) # 0
    <3>1. inbox[From(d)] \in Seq(Units) /\ inbox[From(d)] # <<>>
      BY <1>0, <1>3, Endpoints DEF TypeOK, Read
    <3>2. Head(inbox[From(d)]) \in Units
      BY <3>1
    <3> QED
      BY <3>2 DEF Units
  <2> QED
    BY <1>0, <1>3, <2>1 DEF Read, nodes, TypeOK, Phase, Running, Ends, Copies
<1>4. ASSUME NEW d \in Copies, ReadEOF(d) \/ ReadError(d) \/ WriteError(d) PROVE Phase'
  BY <1>0, <1>4, EndCopyPhase DEF ReadEOF, ReadError, WriteError
<1>5. ASSUME NEW d \in Copies, Write(d) PROVE Phase'
  BY <1>0, <1>5 DEF Write, nodes, TypeOK, Phase, Running, Ends, Copies
<1>6. ASSUME NEW d \in Copies, WriteLost(d) PROVE Phase'
  BY <1>0, <1>6, Endpoints
  DEF WriteLost, nodes, TypeOK, Phase, Running, Ends, Copies
<1>7. CASE CloseDestination
  BY <1>0, <1>7
  DEF CloseDestination, Close, Abort, nodes, TypeOK, Phase, Running, Ends, Copies
<1>8. CASE CloseSource
  BY <1>0, <1>8
  DEF CloseSource, Close, Abort, nodes, TypeOK, Phase, Running, Ends, Copies
<1>9. ASSUME NEW e \in Ends, PeerSend(e) PROVE Phase'
  BY <1>0, <1>9 DEF PeerSend, Abort, TypeOK, Phase, Running, Ends, Copies
<1>10. ASSUME NEW e \in Ends, PeerReceive(e) PROVE Phase'
  BY <1>0, <1>10 DEF PeerReceive, TypeOK, Phase, Running, Ends, Copies
<1>11. ASSUME NEW e \in Ends, PeerFinish(e) PROVE Phase'
  BY <1>0, <1>11 DEF PeerFinish, nodes, TypeOK, Phase, Running, Ends, Copies
<1>12. ASSUME NEW e \in Ends, PeerClose(e) PROVE Phase'
  BY <1>0, <1>12 DEF PeerClose, nodes, TypeOK, Phase, Running, Ends, Copies
<1>13. CASE UNCHANGED vars
  BY <1>0, <1>13 DEF vars, wires, nodes, Phase, Running
<1>14. ASSUME NEW e \in Ends, PeerReadEnd(e) PROVE Phase'
  BY <1>0, <1>14 DEF PeerReadEnd, wires, Phase, Running
<1> QED
  BY <1>1, <1>2, <1>3, <1>4, <1>5, <1>6, <1>7, <1>8, <1>9, <1>10, <1>11, <1>12, <1>13, <1>14
  DEF Next, ProxyConn, Copy, Peer, Copies

-----------------------------------------------------------------------------
(* Streams in every step                                                   *)

LEMMA OtherCopy ==
    ASSUME NEW c \in Copies, NEW d \in Copies, c # d
    PROVE  To(c) # To(d) /\ From(c) # From(d)
  BY DEF Copies, From, To

LEMMA DialKeeps ==
    ASSUME ProxyInv, DialSource \/ DialDestination
    PROVE  /\ UNCHANGED <<held, inbox, outbox, aborted, written, sent, got, ended>>
           /\ \A e \in Ends : conn[e] = "closed" => conn'[e] = "closed"
           /\ \A e \in Ends : peer[e] = "closed" => peer'[e] = "closed"
           /\ \A d \in Copies : Copying(d)
  BY DEF ProxyInv, TypeOK, Phase, DialSource, DialDestination, Established,
         wires, nodes, Copying, Copies, Ends

LEMMA EndCopyKeeps ==
    ASSUME ProxyInv, NEW c \in Copies,
           ReadEOF(c) \/ ReadError(c) \/ WriteError(c)
    PROVE  /\ UNCHANGED <<conn, peer, inbox, outbox, aborted, written, sent, got, reset, ended>>
           /\ held' = [held EXCEPT ![c] = 0]
           /\ pc' = [pc EXCEPT ![c] = IF c = "forward" THEN "close destination" ELSE "end"]
           /\ held'[c] = 0 /\ ~Copying(c)' /\ Copying(c)
           /\ \A d \in Copies \ {c} : held'[d] = held[d] /\ pc'[d] = pc[d]
  BY DEF ProxyInv, TypeOK, ReadEOF, ReadError, WriteError, EndCopy, wires, nodes, Copying, Copies

LEMMA CloseKeeps ==
    ASSUME ProxyInv, NEW e \in Ends,
           \/ CloseDestination /\ e = "destination"
           \/ CloseSource /\ e = "source"
    PROVE  /\ UNCHANGED <<held, result, peer, written, sent, got, ended>>
           /\ conn'[e] = "closed" /\ inbox'[e] = <<>>
           /\ outbox'[e] \in Beginnings(outbox[e])
           /\ outbox'[e] = outbox[e] \/ aborted'[e]
           /\ \A f \in Ends : aborted[f] => aborted'[f]
           /\ \A f \in Ends \ {e} :
                 conn'[f] = conn[f] /\ inbox'[f] = inbox[f] /\ outbox'[f] = outbox[f]
           /\ \A d \in Copies : Copying(d)' => Copying(d)
<1>1. Close(e) /\ TypeOK
  BY DEF CloseDestination, CloseSource, ProxyInv
<1>2. /\ UNCHANGED <<held, result, peer, written, sent, got, ended>>
      /\ conn' = [conn EXCEPT ![e] = "closed"]
      /\ inbox' = [inbox EXCEPT ![e] = <<>>]
      /\ outbox'[e] \in Beginnings(outbox[e])
      /\ \A f \in Ends \ {e} : outbox'[f] = outbox[f]
      /\ outbox'[e] = outbox[e] \/ aborted'[e]
      /\ \A f \in Ends : aborted[f] => aborted'[f]
  BY <1>1, CloseType
<1>3. \A d \in Copies : Copying(d)' => Copying(d)
  BY <1>1 DEF CloseDestination, CloseSource, TypeOK, Copying, Copies
<1> QED
  BY <1>1, <1>2, <1>3 DEF TypeOK

LEMMA WriteKeeps ==
    ASSUME ProxyInv, NEW c \in Copies, Write(c) \/ WriteLost(c)
    PROVE  /\ UNCHANGED <<result, conn, peer, inbox, aborted, sent, got, ended>>
           /\ held[c] # 0 /\ held'[c] = 0
           /\ held[c] = written[To(c)] + 1 /\ held[c] \in Units
           /\ written'[To(c)] = written[To(c)] + 1
           /\ \A e \in Ends \ {To(c)} :
                 written'[e] = written[e] /\ outbox'[e] = outbox[e]
           /\ \A d \in Copies \ {c} : held'[d] = held[d]
           /\ \A d \in Copies \ {c} : pc'[d] = pc[d]
           /\ conn[To(c)] = "open" /\ Copying(c)
           /\ pc'[c] = "read"
<1>1. held[c] # 0 /\ held[c] = written[To(c)] + 1 /\ held[c] \in Units
  BY UnitTypes DEF Write, WriteLost
<1>2. TypeOK /\ To(c) \in Ends
  BY Endpoints DEF ProxyInv
<1>3. /\ UNCHANGED <<result, conn, peer, inbox, aborted, sent, got, ended>>
      /\ held' = [held EXCEPT ![c] = 0]
      /\ written' = [written EXCEPT ![To(c)] = written[To(c)] + 1]
      /\ outbox' = outbox \/ outbox' = [outbox EXCEPT ![To(c)] = Append(outbox[To(c)], held[c])]
      /\ pc' = [pc EXCEPT ![c] = "read"] /\ pc[c] = "write" /\ conn[To(c)] = "open"
  BY <1>2 DEF Write, WriteLost, nodes, TypeOK
<1> QED
  BY <1>1, <1>2, <1>3 DEF TypeOK, Copying

LEMMA DownStep ==
    ASSUME ProxyInv, [Next]_vars, NEW d \in Copies
    PROVE  Downstream(d)'
<1>0. /\ TypeOK /\ Phase /\ Downstream(d) /\ StreamTypes(d) /\ StreamSizes(d)
      /\ To(d) \in Ends /\ From(d) \in Ends
  BY TypesOfStream, Endpoints DEF ProxyInv, StreamInv
<1>1. CASE DialSource \/ DialDestination
  BY <1>0, <1>1, DialKeeps, DownSame
<1>2. ASSUME NEW c \in Copies, Read(c) PROVE Downstream(d)'
  BY <1>0, <1>2, DownSame DEF Read, nodes
<1>3. ASSUME NEW c \in Copies, ReadEOF(c) \/ ReadError(c) \/ WriteError(c)
      PROVE  Downstream(d)'
  BY <1>0, <1>3, EndCopyKeeps, DownSame
<1>4. ASSUME NEW c \in Copies, Write(c) PROVE Downstream(d)'
  <2>1. CASE c # d
    <3>1. To(d) \in Ends \ {To(c)}
      BY <1>0, <2>1, OtherCopy
    <3> QED
      BY <1>0, <1>4, <3>1, WriteKeeps, DownSame
  <2>2. CASE c = d
    <3>1. /\ written[To(d)] + 1 \in Units /\ written'[To(d)] = written[To(d)] + 1
          /\ held[d] = written[To(d)] + 1
          /\ got'[To(d)] = got[To(d)]
      BY <1>4, <2>2, WriteKeeps
    <3>2. outbox'[To(d)] = Append(outbox[To(d)], written[To(d)] + 1)
      BY <1>0, <1>4, <2>2, <3>1 DEF Write, TypeOK
    <3>3. ~aborted[To(d)] /\ peer[To(d)] # "closed"
      BY <1>0, <1>4, <2>2 DEF Write, Phase
    <3> QED
      BY <1>0, <3>1, <3>2, <3>3, DownWrite
  <2> QED
    BY <2>1, <2>2
<1>5. ASSUME NEW c \in Copies, WriteLost(c) PROVE Downstream(d)'
  <2>1. CASE c # d
    <3>1. To(d) \in Ends \ {To(c)}
      BY <1>0, <2>1, OtherCopy
    <3> QED
      BY <1>0, <1>5, <3>1, WriteKeeps, DownSame
  <2>2. CASE c = d
    <3>1. /\ written'[To(d)] = written[To(d)] + 1 /\ got'[To(d)] = got[To(d)]
          /\ peer' = peer
      BY <1>5, <2>2, WriteKeeps
    <3>2. outbox'[To(d)] = outbox[To(d)] /\ peer[To(d)] = "closed"
      BY <1>5, <2>2 DEF WriteLost
    <3> QED
      BY <1>0, <3>1, <3>2, DownLost
  <2> QED
    BY <2>1, <2>2
<1>6. ASSUME NEW e \in Ends,
             \/ CloseDestination /\ e = "destination"
             \/ CloseSource /\ e = "source"
      PROVE  Downstream(d)'
  <2>1. CASE To(d) = e
    <3>1. CASE aborted'[e]
      BY <1>0, <1>6, <2>1, <3>1, CloseKeeps, DownCut
    <3>2. CASE ~aborted'[e]
      BY <1>0, <1>6, <2>1, <3>2, CloseKeeps, DownSame
    <3> QED
      BY <3>1, <3>2
  <2>2. CASE To(d) # e
    BY <1>0, <1>6, <2>2, CloseKeeps, DownSame
  <2> QED
    BY <2>1, <2>2
<1>7. ASSUME NEW e \in Ends, PeerSend(e) PROVE Downstream(d)'
  <2>0. aborted[To(d)] => aborted'[To(d)]
    BY <1>0, <1>7 DEF PeerSend, Abort, TypeOK
  <2>1. CASE outbox'[To(d)] = outbox[To(d)]
    BY <1>0, <1>7, <2>0, <2>1, DownSame DEF PeerSend
  <2>2. CASE outbox'[To(d)] # outbox[To(d)]
    <3>1. /\ To(d) = e /\ aborted'[e]
          /\ outbox'[To(d)] \in Beginnings(outbox[To(d)])
          /\ UNCHANGED <<got, written>>
      BY <1>0, <1>7, <2>2 DEF PeerSend, Abort, TypeOK
    <3> QED
      BY <1>0, <3>1, DownCut
  <2> QED
    BY <2>1, <2>2
<1>8. ASSUME NEW e \in Ends, PeerReceive(e) PROVE Downstream(d)'
  <2>1. CASE To(d) = e
    <3>1. /\ outbox[To(d)] # <<>>
          /\ got'[To(d)] = Append(got[To(d)], Head(outbox[To(d)]))
          /\ outbox'[To(d)] = Tail(outbox[To(d)])
          /\ UNCHANGED <<written, aborted, peer>>
      BY <1>0, <1>8, <2>1 DEF PeerReceive, TypeOK
    <3> QED
      BY <1>0, <3>1, DownReceive
  <2>2. CASE To(d) # e
    BY <1>0, <1>8, <2>2, DownSame DEF PeerReceive, TypeOK
  <2> QED
    BY <2>1, <2>2
<1>9. ASSUME NEW e \in Ends, PeerFinish(e) PROVE Downstream(d)'
  BY <1>0, <1>9, DownSame DEF PeerFinish, nodes, TypeOK
<1>10. ASSUME NEW e \in Ends, PeerClose(e) PROVE Downstream(d)'
  <2>1. CASE To(d) = e
    <3>1. <<>> \in Beginnings(outbox[To(d)])
      <4>1. outbox[To(d)] \in Seq(Units)
        BY <1>0 DEF TypeOK
      <4>2. 0 \in 0..Len(outbox[To(d)]) /\ SubSeq(outbox[To(d)], 1, 0) = <<>>
        BY <4>1
      <4> QED
        BY <4>2 DEF Beginnings
    <3>2. /\ outbox'[To(d)] = <<>> /\ peer'[To(d)] = "closed"
          /\ UNCHANGED <<got, written>>
      BY <1>0, <1>10, <2>1 DEF PeerClose, nodes, TypeOK
    <3> QED
      BY <1>0, <3>1, <3>2, DownCut
  <2>2. CASE To(d) # e
    BY <1>0, <1>10, <2>2, DownSame DEF PeerClose, nodes, TypeOK
  <2> QED
    BY <2>1, <2>2
<1>11. CASE UNCHANGED vars
  BY <1>0, <1>11, DownSame DEF vars, wires, nodes
<1>12. ASSUME NEW e \in Ends, PeerReadEnd(e) PROVE Downstream(d)'
  BY <1>0, <1>12, DownSame DEF PeerReadEnd, wires
<1> QED
  BY <1>1, <1>2, <1>3, <1>4, <1>5, <1>6, <1>7, <1>8, <1>9, <1>10, <1>11, <1>12
  DEF Next, ProxyConn, Copy, Peer, Copies, Ends

LEMMA UpStep ==
    ASSUME ProxyInv, [Next]_vars, NEW d \in Copies
    PROVE  Upstream(d)'
<1>0. /\ TypeOK /\ Phase /\ Upstream(d) /\ StreamTypes(d) /\ StreamSizes(d)
      /\ To(d) \in Ends /\ From(d) \in Ends
  BY TypesOfStream, Endpoints DEF ProxyInv, StreamInv
<1>1. CASE DialSource \/ DialDestination
  BY <1>0, <1>1, DialKeeps, UpSame
<1>2. ASSUME NEW c \in Copies, Read(c) PROVE Upstream(d)'
  <2>1. CASE c # d
    <3>1. From(d) # From(c)
      BY <2>1, OtherCopy
    <3> QED
      BY <1>0, <1>2, <2>1, <3>1, UpSame DEF Read, nodes, TypeOK, Copying
  <2>2. CASE c = d
    <3>1. /\ Copying(d) /\ held[d] = 0 /\ inbox[From(d)] # <<>>
          /\ held'[d] = Head(inbox[From(d)])
          /\ inbox'[From(d)] = Tail(inbox[From(d)])
          /\ UNCHANGED <<written, sent, conn>>
      BY <1>0, <1>2, <2>2, UnitTypes DEF Read, nodes, TypeOK, Copying
    <3> QED
      BY <1>0, <3>1, UpRead
  <2> QED
    BY <2>1, <2>2
<1>3. ASSUME NEW c \in Copies, ReadEOF(c) \/ ReadError(c) \/ WriteError(c)
      PROVE  Upstream(d)'
  <2>1. CASE c # d
    BY <1>0, <1>3, <2>1, EndCopyKeeps, UpSame DEF Copying
  <2>2. CASE c = d
    BY <1>0, <1>3, <2>2, EndCopyKeeps, UpEnd
  <2> QED
    BY <2>1, <2>2
<1>4. ASSUME NEW c \in Copies, Write(c) \/ WriteLost(c) PROVE Upstream(d)'
  <2>1. CASE c # d
    <3>1. To(d) \in Ends \ {To(c)}
      BY <1>0, <2>1, OtherCopy
    <3>2. /\ held'[d] = held[d] /\ inbox' = inbox /\ sent' = sent /\ conn' = conn
          /\ written'[To(d)] = written[To(d)] /\ pc'[d] = pc[d]
      BY <1>4, <2>1, <3>1, WriteKeeps
    <3> QED
      BY <1>0, <3>2, UpSame DEF Copying
  <2>2. CASE c = d
    BY <1>0, <1>4, <2>2, WriteKeeps, UpWrite
  <2> QED
    BY <2>1, <2>2
<1>5. ASSUME NEW e \in Ends,
             \/ CloseDestination /\ e = "destination"
             \/ CloseSource /\ e = "source"
      PROVE  Upstream(d)'
  <2>1. CASE From(d) = e
    BY <1>0, <1>5, <2>1, CloseKeeps, UpClosed
  <2>2. CASE From(d) # e
    BY <1>0, <1>5, <2>2, CloseKeeps, UpSame
  <2> QED
    BY <2>1, <2>2
<1>6. ASSUME NEW e \in Ends, PeerSend(e) PROVE Upstream(d)'
  <2>1. CASE From(d) # e
    BY <1>0, <1>6, <2>1, UpSame DEF PeerSend, TypeOK, Copying
  <2>2. CASE From(d) = e
    <3>1. sent[e] + 1 \in Units
      <4>1. sent[e] \in 0..MaxSent /\ sent[e] < MaxSent
        BY <1>0, <1>6 DEF TypeOK, PeerSend
      <4> QED
        BY <4>1, ProxyAssumption DEF Units
    <3>2. /\ UNCHANGED <<pc, held, written, conn>>
          /\ sent'[e] = sent[e] + 1
          /\ \/ conn[e] = "open" /\ inbox'[e] = Append(inbox[e], sent[e] + 1)
             \/ conn[e] = "closed" /\ inbox'[e] = inbox[e]
      BY <1>0, <1>6 DEF PeerSend, TypeOK
    <3> QED
      BY <1>0, <2>2, <3>1, <3>2, UpSend DEF Copying
  <2> QED
    BY <2>1, <2>2
<1>7. ASSUME NEW e \in Ends,
             PeerReceive(e) \/ PeerReadEnd(e) \/ PeerFinish(e) \/ PeerClose(e)
      PROVE  Upstream(d)'
  BY <1>0, <1>7, UpSame DEF PeerReceive, PeerReadEnd, PeerFinish, PeerClose, wires, nodes, Copying
<1>8. CASE UNCHANGED vars
  BY <1>0, <1>8, UpSame DEF vars, wires, nodes, Copying
<1> QED
  BY <1>1, <1>2, <1>3, <1>4, <1>5, <1>6, <1>7, <1>8
  DEF Next, ProxyConn, Copy, Peer, Copies, Ends

\* A copy that has ended by itself had reached the end of its stream, and no
\* step adds to that stream: its node has finished and nobody reads or writes it.
LEMMA DrainedStep ==
    ASSUME ProxyInv, [Next]_vars, NEW d \in Copies
    PROVE  Drained(d)'
<1>0. /\ TypeOK /\ Phase /\ Upstream(d) /\ Drained(d) /\ StreamSizes(d)
      /\ To(d) \in Ends /\ From(d) \in Ends
  BY TypesOfStream, Endpoints DEF ProxyInv, StreamInv
<1> SUFFICES ASSUME ~Copying(d)', Running', \A e \in Ends : peer'[e] # "closed"
             PROVE  /\ peer'[From(d)] = "finished"
                    /\ inbox'[From(d)] = <<>>
                    /\ written'[To(d)] = sent'[From(d)]
  BY DEF Drained
<1>1. ASSUME ~Copying(d), Running, \A e \in Ends : peer[e] # "closed"
      PROVE  /\ peer[From(d)] = "finished"
             /\ inbox[From(d)] = <<>>
             /\ written[To(d)] = sent[From(d)]
  BY <1>0, <1>1 DEF Drained
<1>2. CASE DialSource \/ DialDestination
  BY <1>0, <1>2
  DEF DialSource, DialDestination, Phase, TypeOK, Copying, Running, Copies
<1>3. ASSUME NEW c \in Copies, Read(c)
      PROVE  /\ peer'[From(d)] = "finished" /\ inbox'[From(d)] = <<>>
             /\ written'[To(d)] = sent'[From(d)]
  <2>1. c # d /\ pc'[d] = pc[d] /\ Running
    BY <1>0, <1>3 DEF Read, TypeOK, Copying, Running, Copies
  <2>2. From(c) # From(d)
    BY <2>1, OtherCopy
  <2> QED
    BY <1>0, <1>1, <1>3, <2>1, <2>2 DEF Read, nodes, TypeOK, Copying
<1>4. ASSUME NEW c \in Copies, ReadEOF(c) \/ ReadError(c) \/ WriteError(c)
      PROVE  /\ peer'[From(d)] = "finished" /\ inbox'[From(d)] = <<>>
             /\ written'[To(d)] = sent'[From(d)]
  <2>1. /\ UNCHANGED <<conn, peer, inbox, written, sent, reset>> /\ Running
        /\ c # d => pc'[d] = pc[d]
    BY <1>0, <1>4, EndCopyKeeps
    DEF ReadEOF, ReadError, WriteError, TypeOK, Running, Copies
  <2>2. CASE c # d
    BY <1>1, <2>1, <2>2 DEF Copying
  <2>3. CASE c = d
    <3>1. \A e \in Ends : conn[e] = "open" /\ ~reset[e]
      BY <1>0, <2>1 DEF Phase
    <3>2. ReadEOF(d)
      BY <1>0, <1>4, <2>3, <3>1 DEF ReadError, WriteError
    <3>3. held[d] = 0 /\ Copying(d) /\ inbox[From(d)] = <<>>
      BY <3>2, UnitTypes DEF ReadEOF, Copying
    <3>4. LastRead(d) = written[To(d)]
      BY <1>0, <3>3 DEF LastRead, StreamSizes
    <3>5. LastRead(d) + 0 = sent[From(d)]
      BY <1>0, <3>1, <3>3 DEF Upstream
    <3>6. written[To(d)] = sent[From(d)]
      BY <1>0, <3>4, <3>5 DEF StreamSizes
    <3> QED
      BY <1>0, <2>1, <3>2, <3>3, <3>6 DEF ReadEOF
  <2> QED
    BY <2>2, <2>3
<1>5. ASSUME NEW c \in Copies, Write(c) \/ WriteLost(c)
      PROVE  /\ peer'[From(d)] = "finished" /\ inbox'[From(d)] = <<>>
             /\ written'[To(d)] = sent'[From(d)]
  <2>1. c # d /\ pc'[d] = pc[d]
    BY <1>5, WriteKeeps DEF Copying
  <2>2. To(d) \in Ends \ {To(c)}
    BY <1>0, <2>1, OtherCopy
  <2>3. Running
    BY <1>0, <1>5, WriteKeeps DEF Write, WriteLost, TypeOK, Running, Copies
  <2>4. /\ UNCHANGED <<conn, peer, inbox, sent>>
        /\ written'[To(d)] = written[To(d)]
    BY <1>5, <2>2, WriteKeeps
  <2> QED
    BY <1>1, <2>1, <2>3, <2>4 DEF Copying
<1>6. CASE CloseDestination \/ CloseSource
  BY <1>0, <1>6 DEF CloseDestination, CloseSource, TypeOK, Running, Copies
<1>7. ASSUME NEW e \in Ends, Peer(e)
      PROVE  /\ peer'[From(d)] = "finished" /\ inbox'[From(d)] = <<>>
             /\ written'[To(d)] = sent'[From(d)]
  <2>1. pc' = pc /\ written' = written
    BY <1>7 DEF Peer, PeerSend, PeerReceive, PeerReadEnd, PeerFinish, PeerClose, wires, nodes
  <2>2. \A f \in Ends : peer[f] # "closed"
    BY <1>0, <1>7 DEF Peer, PeerSend, PeerReceive, PeerReadEnd, PeerFinish, PeerClose, wires, TypeOK
  <2>3. /\ peer[From(d)] = "finished" /\ inbox[From(d)] = <<>>
        /\ written[To(d)] = sent[From(d)]
    BY <1>1, <2>1, <2>2 DEF Copying, Running
  <2> QED
    BY <1>0, <1>7, <2>1, <2>3
    DEF Peer, PeerSend, PeerReceive, PeerReadEnd, PeerFinish, PeerClose, wires, nodes, TypeOK
<1>8. CASE UNCHANGED vars
  BY <1>1, <1>8 DEF vars, wires, nodes, Copying, Running
<1> QED
  BY <1>2, <1>3, <1>4, <1>5, <1>6, <1>7, <1>8 DEF Next, ProxyConn, Copy, Copies

-----------------------------------------------------------------------------
(* What proxyConn returns                                                  *)

\* The error of a copy, while both connections are there, comes from a node.
LEMMA ErrorBlames ==
    ASSUME ProxyInv, ReadError("forward") \/ WriteError("forward")
    PROVE  \E e \in Ends : peer[e] = "closed"
<1>1. "forward" \in Copies /\ From("forward") \in Ends /\ To("forward") \in Ends
  BY DEF Copies, Ends, From, To
<1>2. \A e \in Ends : conn[e] = "open"
  BY DEF ProxyInv, Phase, Running, ReadError, WriteError
<1>3. \E e \in Ends : reset[e]
  BY <1>1, <1>2 DEF ReadError, WriteError
<1> QED
  BY <1>3 DEF ProxyInv, Phase

\* The result is set only by the copy that proxyConn runs itself, and by failing
\* to dial.
LEMMA ResultStep == ProxyInv /\ [Next]_vars => ResultInv'
<1> SUFFICES ASSUME ProxyInv, [Next]_vars PROVE ResultInv'
  OBVIOUS
<1>0. /\ TypeOK /\ Phase /\ ResultInv
      /\ "forward" \in Copies /\ "reply" \in Copies
      /\ From("forward") = "source" /\ To("forward") = "destination"
      /\ "source" \in Ends /\ "destination" \in Ends
      /\ Upstream("forward") /\ StreamSizes("forward")
  BY TypesOfStream DEF ProxyInv, StreamInv, Copies, Ends, From, To
<1>1. CASE DialSource
  <2>1. CASE pc' = [pc EXCEPT !["forward"] = "dial destination"] /\ Established("source")
    BY <1>0, <1>1, <2>1
    DEF DialSource, Established, ResultInv, ResultIsTrue, Copying, TypeOK
  <2>2. CASE pc' = [pc EXCEPT !["forward"] = "end"] /\ result' = "error" /\ UNCHANGED wires
    BY <1>0, <1>1, <2>2
    DEF DialSource, wires, ResultInv, ResultIsTrue, Copying, TypeOK, Phase
  <2> QED
    BY <1>1, <2>1, <2>2 DEF DialSource
<1>2. CASE DialDestination
  <2>1. CASE pc' = [c \in Copies |-> "read"] /\ Established("destination")
    BY <1>0, <1>2, <2>1
    DEF DialDestination, Established, ResultInv, ResultIsTrue, Copying, TypeOK
  <2>2. CASE pc' = [pc EXCEPT !["forward"] = "close source"] /\ result' = "error"
             /\ UNCHANGED wires
    BY <1>0, <1>2, <2>2
    DEF DialDestination, wires, ResultInv, ResultIsTrue, Copying, TypeOK, Phase
  <2> QED
    BY <1>2, <2>1, <2>2 DEF DialDestination
<1>3. ASSUME NEW c \in Copies, Read(c) PROVE ResultInv'
  <2>1. /\ UNCHANGED <<result, conn, peer, written, sent>>
        /\ Copying("forward")' <=> Copying("forward")
    BY <1>0, <1>3 DEF Read, nodes, TypeOK, Copying
  <2> QED
    BY <1>0, <2>1 DEF ResultInv, ResultIsTrue
<1>4. ASSUME ReadEOF("forward") PROVE ResultInv'
  <2>1. /\ result' = "nil" /\ ~Copying("forward")'
        /\ UNCHANGED <<peer, written, sent>>
    BY <1>0, <1>4 DEF ReadEOF, EndCopy, wires, nodes, TypeOK, Copying
  <2>2. /\ held["forward"] = 0 /\ Copying("forward") /\ inbox["source"] = <<>>
        /\ conn["source"] # "closed" /\ peer["source"] \in {"finished", "closed"}
    BY <1>0, <1>4, UnitTypes DEF ReadEOF, Copying
  <2>3. LastRead("forward") = written["destination"]
    BY <1>0, <2>2 DEF LastRead, StreamSizes
  <2>4. LastRead("forward") + 0 = sent["source"]
    BY <1>0, <2>2 DEF Upstream
  <2>5. written["destination"] = sent["source"]
    BY <1>0, <2>3, <2>4 DEF StreamSizes
  <2> QED
    BY <2>1, <2>2, <2>5 DEF ResultInv, ResultIsTrue
<1>5. ASSUME ReadError("forward") \/ WriteError("forward") PROVE ResultInv'
  <2>1. /\ result' = "error" /\ ~Copying("forward")' /\ peer' = peer
    BY <1>0, <1>5 DEF ReadError, WriteError, EndCopy, wires, TypeOK, Copying
  <2> QED
    BY <1>5, <2>1, ErrorBlames DEF ResultInv, ResultIsTrue
<1>6. ASSUME ReadEOF("reply") \/ ReadError("reply") \/ WriteError("reply") PROVE ResultInv'
  <2>1. /\ UNCHANGED <<result, conn, peer, written, sent>>
        /\ pc'["forward"] = pc["forward"]
    BY <1>0, <1>6 DEF ReadEOF, ReadError, WriteError, EndCopy, wires, nodes, TypeOK
  <2> QED
    BY <1>0, <2>1 DEF ResultInv, ResultIsTrue, Copying
<1>7. ASSUME NEW c \in Copies, Write(c) \/ WriteLost(c) PROVE ResultInv'
  <2>1. /\ UNCHANGED <<result, conn, peer, sent>>
        /\ Copying("forward")' <=> Copying("forward")
        /\ c = "forward" => Copying("forward")
    BY <1>0, <1>7 DEF Write, WriteLost, nodes, TypeOK, Copying
  <2>2. c # "forward" => written'["destination"] = written["destination"]
    BY <1>0, <1>7, WriteKeeps DEF Copies, To, Ends
  <2> QED
    BY <1>0, <2>1, <2>2 DEF ResultInv, ResultIsTrue
<1>8. CASE CloseDestination \/ CloseSource
  <2>1. /\ UNCHANGED <<result, peer, written, sent>>
        /\ conn["destination"] = "none" => conn'["destination"] = "none"
        /\ ~Copying("forward") /\ ~Copying("forward")'
    BY <1>0, <1>8 DEF CloseDestination, CloseSource, Close, nodes, TypeOK, Copying, Phase, Running
  <2> QED
    BY <1>0, <2>1 DEF ResultInv, ResultIsTrue
<1>9. ASSUME NEW e \in Ends, Peer(e) PROVE ResultInv'
  <2>1. /\ UNCHANGED <<pc, result, conn, written>>
        /\ \A f \in Ends : peer[f] = "closed" => peer'[f] = "closed"
        /\ peer["source"] \in {"finished", "closed"} =>
               peer'["source"] \in {"finished", "closed"} /\ sent'["source"] = sent["source"]
    BY <1>0, <1>9 DEF Peer, PeerSend, PeerReceive, PeerReadEnd, PeerFinish, PeerClose, wires, nodes, TypeOK
  <2> QED
    BY <1>0, <2>1 DEF ResultInv, ResultIsTrue, Copying
<1>10. CASE UNCHANGED vars
  BY <1>0, <1>10 DEF vars, wires, nodes, ResultInv, ResultIsTrue, Copying
<1> QED
  BY <1>1, <1>2, <1>3, <1>4, <1>5, <1>6, <1>7, <1>8, <1>9, <1>10
  DEF Next, ProxyConn, Copy, Copies

-----------------------------------------------------------------------------
(* What the end of a stream says                                           *)

\* Once proxyConn has closed a connection nothing that the result depends on moves.
LEMMA ClosedIsSettled ==
    ASSUME ProxyInv, NEW e \in Ends, conn[e] = "closed"
    PROVE  ~Copying("forward") /\ result # "none"
<1>1. ~Copying("forward")
  BY DEF ProxyInv, TypeOK, Phase, Running, Copying, Ends
<1> QED
  BY <1>1 DEF ProxyInv, ResultInv

\* Both conjuncts of EndIsTrue speak of a node whose connection is closed: no step but
\* its own reading changes what they say.
LEMMA EndKept ==
    ASSUME ProxyInv, EndInv,
           ended' = ended,
           \A e \in Ends : conn[e] = "closed" => conn'[e] = "closed",
           \A e \in Ends : ended[e] # "no" => outbox'[e] = <<>> /\ got'[e] = got[e],
           result # "none" => result' = result,
           \A e \in Ends : peer[e] = "closed" => peer'[e] = "closed",
           peer["source"] \in {"finished", "closed"} => sent'["source"] = sent["source"],
           conn["destination"] = "none" /\ result # "none" => conn'["destination"] = "none"
    PROVE  EndInv'
<1>1. "source" \in Ends /\ "destination" \in Ends
  BY DEF Ends
<1>2. \A e \in Ends : ended[e] # "no" => conn[e] = "closed" /\ outbox[e] = <<>>
  BY DEF EndInv
<1>3. \A e \in Ends : ended[e] # "no" => result' = result /\ result # "none"
  BY <1>2, ClosedIsSettled
<1>4. result = "nil" => peer["source"] \in {"finished", "closed"}
  BY DEF ProxyInv, ResultInv, ResultIsTrue
<1>5. \A e \in Ends : ended'[e] # "no" => conn'[e] = "closed" /\ outbox'[e] = <<>>
  BY <1>2
<1>6. ended'["destination"] = "eof" =>
           \/ result' = "nil" /\ Len(got'["destination"]) = sent'["source"]
           \/ result' = "error" /\ peer'["source"] = "closed"
  BY <1>1, <1>3, <1>4 DEF EndInv, EndIsTrue
<1>7. ended'["source"] # "no" =>
           \/ result' = "nil"
           \/ peer'["destination"] = "closed" \/ conn'["destination"] = "none"
  BY <1>1, <1>3 DEF EndInv, EndIsTrue
<1> QED
  BY <1>5, <1>6, <1>7 DEF EndInv, EndIsTrue

\* The node reads the end: what proxyConn returned says how much it has.
LEMMA EndRead ==
    ASSUME ProxyInv, NEW e \in Ends, PeerReadEnd(e)
    PROVE  EndInv'
<1>0. /\ TypeOK /\ Phase /\ ResultIsTrue /\ EndInv
      /\ "source" \in Ends /\ "destination" \in Ends
      /\ "forward" \in Copies
      /\ From("forward") = "source" /\ To("forward") = "destination"
      /\ Downstream("forward") /\ StreamSizes("forward")
  BY TypesOfStream DEF ProxyInv, StreamInv, ResultInv, Copies, Ends, From, To
<1>1. /\ UNCHANGED <<result, conn, peer, outbox, written, sent, got>>
      /\ conn[e] = "closed" /\ outbox[e] = <<>> /\ peer[e] \in {"open", "finished"}
      /\ ended' = [ended EXCEPT ![e] = IF aborted[e] THEN "error" ELSE "eof"]
  BY DEF PeerReadEnd, wires
<1>2. \A f \in Ends \ {e} : ended'[f] = ended[f]
  BY <1>0, <1>1 DEF TypeOK
<1>3. result \in {"nil", "error"}
  BY <1>0, <1>1, ClosedIsSettled DEF TypeOK
<1>4. \A f \in Ends : ended'[f] # "no" => conn'[f] = "closed" /\ outbox'[f] = <<>>
  BY <1>0, <1>1, <1>2 DEF EndInv
<1>5. ASSUME ended'["destination"] = "eof"
      PROVE  \/ result' = "nil" /\ Len(got'["destination"]) = sent'["source"]
             \/ result' = "error" /\ peer'["source"] = "closed"
  <2>1. CASE e # "destination"
    BY <1>0, <1>1, <1>2, <1>5, <2>1 DEF EndInv, EndIsTrue
  <2>2. CASE e = "destination" /\ result = "error"
    <3>1. \E f \in Ends : peer[f] = "closed"
      BY <1>0, <1>1, <2>2 DEF ResultIsTrue
    <3> QED
      BY <1>1, <2>2, <3>1 DEF Ends
  <2>3. CASE e = "destination" /\ result = "nil"
    <3>1. ~aborted["destination"]
      BY <1>0, <1>1, <1>5, <2>3 DEF TypeOK
    <3>2. Received("forward") + Buffered("forward") = written["destination"]
      BY <1>0, <1>1, <2>3, <3>1 DEF Downstream
    <3>3. Buffered("forward") = 0
      BY <1>0, <1>1, <2>3 DEF Buffered
    <3>4. Received("forward") = written["destination"]
      BY <1>0, <3>2, <3>3 DEF StreamSizes
    <3>5. written["destination"] = sent["source"]
      BY <1>0, <2>3 DEF ResultIsTrue
    <3> QED
      BY <1>0, <1>1, <2>3, <3>4, <3>5 DEF Received
  <2> QED
    BY <1>3, <2>1, <2>2, <2>3
<1>6. ASSUME ended'["source"] # "no"
      PROVE  \/ result' = "nil"
             \/ peer'["destination"] = "closed" \/ conn'["destination"] = "none"
  <2>1. CASE e # "source"
    BY <1>0, <1>1, <1>2, <1>6, <2>1 DEF EndInv, EndIsTrue
  <2>2. CASE e = "source" /\ result = "error" /\ conn["destination"] # "none"
    <3>1. \E f \in Ends : peer[f] = "closed"
      BY <1>0, <2>2 DEF ResultIsTrue
    <3> QED
      BY <1>1, <2>2, <3>1 DEF Ends
  <2> QED
    BY <1>1, <1>3, <2>1, <2>2
<1> QED
  BY <1>4, <1>5, <1>6 DEF EndInv, EndIsTrue

LEMMA EndStep == ProxyInv /\ [Next]_vars => EndInv'
<1> SUFFICES ASSUME ProxyInv, [Next]_vars PROVE EndInv'
  OBVIOUS
<1>0. /\ TypeOK /\ Phase /\ ResultInv /\ EndInv
      /\ \A e \in Ends : ended[e] # "no" => conn[e] = "closed" /\ outbox[e] = <<>>
      /\ "source" \in Ends /\ "destination" \in Ends
  BY DEF ProxyInv, EndInv, Ends
<1>1. CASE DialSource \/ DialDestination
  <2>1. result = "none"
    BY <1>0, <1>1 DEF DialSource, DialDestination, ResultInv, Copying
  <2> QED
    BY <1>0, <1>1, <2>1, DialKeeps, EndKept
<1>2. ASSUME NEW d \in Copies, Read(d) PROVE EndInv'
  BY <1>0, <1>2, EndKept DEF Read, nodes
<1>3. ASSUME NEW d \in Copies, ReadEOF(d) \/ ReadError(d) \/ WriteError(d) PROVE EndInv'
  <2>1. result # "none" => result' = result
    BY <1>0, <1>3 DEF ReadEOF, ReadError, WriteError, EndCopy, ResultInv, Copying
  <2> QED
    BY <1>0, <1>3, <2>1, EndCopyKeeps, EndKept
<1>4. ASSUME NEW d \in Copies, Write(d) \/ WriteLost(d) PROVE EndInv'
  <2>1. conn[To(d)] = "open" /\ To(d) \in Ends
    BY <1>4, WriteKeeps, Endpoints
  <2>2. \A e \in Ends : ended[e] # "no" => outbox'[e] = <<>>
    BY <1>0, <1>4, <2>1, WriteKeeps
  <2> QED
    BY <1>0, <1>4, <2>2, WriteKeeps, EndKept
<1>5. ASSUME NEW e \in Ends,
             \/ CloseDestination /\ e = "destination"
             \/ CloseSource /\ e = "source"
      PROVE  EndInv'
  <2>1. ended[e] = "no"
    BY <1>0, <1>5 DEF CloseDestination, CloseSource, Phase, Running
  <2>2. \A f \in Ends : ended[f] # "no" => outbox'[f] = <<>>
    BY <1>0, <1>5, <2>1, CloseKeeps
  <2>3. conn["destination"] = "none" => conn'["destination"] = "none"
    BY <1>0, <1>5, CloseKeeps DEF CloseDestination, Phase, Running
  <2> QED
    BY <1>0, <1>5, <2>2, <2>3, CloseKeeps, EndKept
<1>6. ASSUME NEW e \in Ends, PeerSend(e) PROVE EndInv'
  <2>1. /\ UNCHANGED <<ended, conn, result, peer, got>>
        /\ peer["source"] # "open" => sent'["source"] = sent["source"]
    BY <1>0, <1>6 DEF PeerSend, TypeOK
  <2>2. \A f \in Ends : ended[f] # "no" => outbox'[f] = <<>>
    <3>1. CASE outbox' = outbox
      BY <1>0, <3>1
    <3>2. CASE Abort(e)
      <4>1. PICK s \in Beginnings(outbox[e]) : outbox' = [outbox EXCEPT ![e] = s]
        BY <3>2 DEF Abort
      <4>2. outbox[e] = <<>> => s = <<>>
        <5>1. outbox[e] \in Seq(Units)
          BY <1>0 DEF TypeOK
        <5>2. Len(s) \in Nat /\ Len(s) <= Len(outbox[e]) /\ s \in Seq(Units)
          BY <4>1, <5>1, RowBreaks
        <5>3. Len(<<>>) = 0
          OBVIOUS
        <5> QED
          BY <5>2, <5>3
      <4> QED
        BY <1>0, <4>1, <4>2 DEF TypeOK
    <3> QED
      BY <1>6, <3>1, <3>2 DEF PeerSend
  <2> QED
    BY <1>0, <2>1, <2>2, EndKept
<1>7. ASSUME NEW e \in Ends, PeerReceive(e) PROVE EndInv'
  <2>1. ended[e] = "no"
    BY <1>0, <1>7 DEF PeerReceive
  <2>2. /\ UNCHANGED <<ended, conn, result, peer, sent>>
        /\ \A f \in Ends \ {e} : outbox'[f] = outbox[f] /\ got'[f] = got[f]
    BY <1>0, <1>7 DEF PeerReceive, TypeOK
  <2> QED
    BY <1>0, <2>1, <2>2, EndKept
<1>8. ASSUME NEW e \in Ends, PeerReadEnd(e) PROVE EndInv'
  BY <1>8, EndRead
<1>9. ASSUME NEW e \in Ends, PeerFinish(e) \/ PeerClose(e) PROVE EndInv'
  <2>1. /\ UNCHANGED <<ended, conn, result, sent, got>>
        /\ \A f \in Ends : peer[f] = "closed" => peer'[f] = "closed"
        /\ \A f \in Ends : outbox'[f] = outbox[f] \/ outbox'[f] = <<>>
    BY <1>0, <1>9 DEF PeerFinish, PeerClose, nodes, TypeOK
  <2> QED
    BY <1>0, <2>1, EndKept
<1>10. CASE UNCHANGED vars
  BY <1>0, <1>10, EndKept DEF vars, wires, nodes
<1> QED
  BY <1>1, <1>2, <1>3, <1>4, <1>5, <1>6, <1>7, <1>8, <1>9, <1>10
  DEF Next, ProxyConn, Copy, Peer, Copies, Ends

-----------------------------------------------------------------------------
(* The theorems                                                            *)

LEMMA ProxyInit == Init => ProxyInv
<1> SUFFICES ASSUME Init PROVE ProxyInv
  OBVIOUS
<1>1. TypeOK
  <2>1. 0 \in 0..MaxSent /\ <<>> \in Seq(Units) /\ Len(<<>>) <= Capacity
    BY ProxyAssumption
  <2> QED
    BY <2>1 DEF Init, TypeOK, Copies, Ends
<1>2. Phase
  BY DEF Init, Phase, Running, Copies, Ends
<1>3. ASSUME NEW d \in Copies PROVE Downstream(d) /\ Upstream(d) /\ Drained(d)
  <2>1. From(d) \in Ends /\ To(d) \in Ends
    BY Endpoints
  <2>2. got[To(d)] = <<>> /\ outbox[To(d)] = <<>> /\ inbox[From(d)] = <<>>
    BY <2>1 DEF Init
  <2>3. written[To(d)] = 0 /\ sent[From(d)] = 0 /\ held[d] = 0
    BY <2>1 DEF Init
  <2>4. pc[d] \in {"dial source", "off"}
    BY DEF Init
  <2>5. Len(<<>>) = 0 /\ \A k \in Nat : Follows(<<>>, k)
    BY DEF Follows
  <2>6. Downstream(d)
    <3>1. Received(d) = 0 /\ Buffered(d) = 0
      BY <2>2, <2>5 DEF Received, Buffered
    <3>2. Follows(got[To(d)], 0) /\ Follows(outbox[To(d)], 0)
      BY <2>2, <2>5
    <3> QED
      BY <2>3, <3>1, <3>2 DEF Downstream
  <2>7. Upstream(d)
    <3>1. LastRead(d) = 0
      BY <2>3 DEF LastRead
    <3>2. Len(inbox[From(d)]) = 0
      BY <2>2, <2>5
    <3>3. Follows(inbox[From(d)], 0)
      BY <2>2, <2>5
    <3> QED
      BY <2>3, <3>1, <3>2, <3>3 DEF Upstream
  <2>8. Drained(d)
    BY <2>4 DEF Drained, Copying
  <2> QED
    BY <2>6, <2>7, <2>8
<1>4. ResultInv
  BY DEF Init, ResultInv, ResultIsTrue, Copying, Copies, Ends
<1>5. EndInv
  BY DEF Init, EndInv, EndIsTrue, Ends
<1> QED
  BY <1>1, <1>2, <1>3, <1>4, <1>5 DEF ProxyInv, StreamInv

LEMMA ProxyStep == ProxyInv /\ [Next]_vars => ProxyInv'
<1> SUFFICES ASSUME ProxyInv, [Next]_vars PROVE ProxyInv'
  OBVIOUS
<1> QED
  BY TypeStep, PhaseStep, DownStep, UpStep, DrainedStep, ResultStep, EndStep
  DEF ProxyInv, StreamInv

\* The inductive invariant: phases, types, both streams, the result and their ends.
THEOREM ProxyInvariant == Spec => []ProxyInv
<1> QED
  BY ProxyInit, ProxyStep, PTL DEF Spec

\* Type correctness; no connection ever buffers more than its capacity.
THEOREM ProxyTypes == Spec => []TypeOK
<1>1. ProxyInv => TypeOK
  BY DEF ProxyInv
<1> QED
  BY <1>1, ProxyInvariant, PTL

\* What proxyConn returns is true: nil means that the whole stream was written,
\* an error that a node has closed.
THEOREM ResultSound == Spec => []ResultIsTrue
<1>1. ProxyInv => ResultIsTrue
  BY DEF ProxyInv, ResultInv
<1> QED
  BY <1>1, ProxyInvariant, PTL

\* Until proxyConn closes the connections, and while no node has closed, every
\* unit is on its way.
THEOREM NothingLostBeforeClose == Spec => []LostOnlyAfterClose
<1>1. ProxyInv => LostOnlyAfterClose
  <2> SUFFICES ASSUME ProxyInv, Running, \A e \in Ends : peer[e] # "closed",
                      NEW d \in Copies
               PROVE  Missing(d) = 0
    BY DEF LostOnlyAfterClose
  <2>1. /\ Downstream(d) /\ Upstream(d) /\ Drained(d) /\ StreamSizes(d)
        /\ To(d) \in Ends /\ From(d) \in Ends
    BY TypesOfStream, Endpoints DEF ProxyInv, StreamInv
  <2>2. conn[To(d)] = "open" /\ conn[From(d)] = "open"
    BY <2>1 DEF ProxyInv, Phase
  <2>3. Received(d) + Buffered(d) = written[To(d)]
    BY <2>1, <2>2 DEF Downstream, ProxyInv, Phase
  <2> DEFINE h == IF held[d] = 0 THEN 0 ELSE 1
             n == Len(inbox[From(d)])
  <2>4. LastRead(d) = written[To(d)] + h /\ h \in Nat /\ n \in Nat
    BY <2>1 DEF LastRead, StreamSizes
  <2>5. written[To(d)] + h + n = sent[From(d)]
    <3>1. CASE Copying(d)
      <4>1. LastRead(d) + n = sent[From(d)]
        BY <2>1, <2>2, <3>1 DEF Upstream
      <4> QED
        BY <2>4, <4>1
    <3>2. CASE ~Copying(d)
      <4>1. inbox[From(d)] = <<>> /\ written[To(d)] = sent[From(d)]
        BY <2>1, <3>2 DEF Drained
      <4>2. held[d] = 0
        BY <3>2 DEF ProxyInv, Phase, Copying
      <4>3. n = 0 /\ h = 0
        BY <4>1, <4>2
      <4> QED
        BY <2>1, <4>1, <4>3 DEF StreamSizes
    <3> QED
      BY <3>1, <3>2
  <2>6. Missing(d) = sent[From(d)] - (Received(d) + Buffered(d) + n + h)
    BY DEF Missing, Received, Buffered
  <2> HIDE DEF h, n
  <2> QED
    BY <2>1, <2>3, <2>4, <2>5, <2>6 DEF StreamSizes
<1> QED
  BY <1>1, ProxyInvariant, PTL

\* A node that reads the end of its stream is told the truth as far as it goes: the
\* destination has everything if proxyConn returned nil, the source has an end only if
\* it finished itself or there is no destination any more.
THEOREM EndsAreTrue == Spec => []EndIsTrue
<1>1. ProxyInv => EndIsTrue
  BY DEF ProxyInv, EndInv
<1> QED
  BY <1>1, ProxyInvariant, PTL

LEMMA OrderStep == ProxyInv /\ [Next]_vars => [Streams!Next]_(Streams!vars)
<1> SUFFICES ASSUME ProxyInv, [Next]_vars PROVE [Streams!Next]_(Streams!vars)
  OBVIOUS
<1>1. ASSUME NEW e \in Ends, PeerSend(e) PROVE Streams!Next
  BY <1>1 DEF PeerSend, Streams!Next, Streams!Send, Streams!Nodes, Ends
<1>2. ASSUME NEW e \in Ends, PeerReceive(e) PROVE Streams!Next
  <2>1. PICK d \in Copies : To(d) = e
    BY Endpoints
  <2>2. From(d) = Streams!Other(e) /\ e \in Streams!Nodes
    BY <2>1 DEF From, To, Copies, Streams!Other, Streams!Nodes, Ends
  <2>3. /\ TypeOK /\ Downstream(d) /\ Upstream(d) /\ StreamTypes(d) /\ StreamSizes(d)
    BY TypesOfStream DEF ProxyInv, StreamInv
  <2>4. /\ outbox[e] # <<>> /\ sent' = sent
        /\ got' = [got EXCEPT ![e] = Append(got[e], Head(outbox[e]))]
        /\ outbox' = [outbox EXCEPT ![e] = Tail(outbox[e])]
        /\ UNCHANGED <<written, aborted, peer>>
    BY <1>2, <2>3 DEF PeerReceive, TypeOK
  <2>5. Head(outbox[e]) = Len(got[e]) + 1 /\ Received(d) < written[e]
    <3>1. /\ got'[To(d)] = Append(got[To(d)], Head(outbox[To(d)]))
          /\ outbox'[To(d)] = Tail(outbox[To(d)])
          /\ written'[To(d)] = written[To(d)] /\ outbox[To(d)] # <<>>
          /\ aborted'[To(d)] = aborted[To(d)] /\ peer'[To(d)] = peer[To(d)]
      BY <2>1, <2>3, <2>4 DEF TypeOK
    <3>2. Head(outbox[To(d)]) = Received(d) + 1 /\ Received(d) < written[To(d)]
      BY <2>3, <3>1, DownReceive
    <3> QED
      BY <2>1, <3>2 DEF Received
  <2>6. written[e] <= LastRead(d) /\ LastRead(d) <= sent[Streams!Other(e)]
    BY <2>1, <2>2, <2>3 DEF LastRead, StreamSizes, Upstream
  <2>7. Received(d) < sent[Streams!Other(e)]
    BY <2>1, <2>2, <2>3, <2>5, <2>6 DEF StreamSizes
  <2>8. Streams!Deliver(e)
    BY <2>1, <2>4, <2>5, <2>7 DEF Streams!Deliver, Received
  <2> QED
    BY <2>2, <2>8 DEF Streams!Next
<1>3. ASSUME NEW e \in Ends, PeerReadEnd(e) \/ PeerFinish(e) \/ PeerClose(e)
      PROVE  UNCHANGED Streams!vars
  BY <1>3 DEF PeerReadEnd, PeerFinish, PeerClose, nodes, Streams!vars
<1>4. ASSUME NEW d \in Copies, Copy(d) PROVE UNCHANGED Streams!vars
  BY <1>4
  DEF Copy, Read, ReadEOF, ReadError, Write, WriteLost, WriteError, EndCopy, nodes, Streams!vars
<1>5. CASE DialSource \/ DialDestination \/ CloseDestination \/ CloseSource
  BY <1>5
  DEF DialSource, DialDestination, Established, CloseDestination, CloseSource, Close,
      nodes, Streams!vars
<1>6. CASE UNCHANGED vars
  BY <1>6 DEF vars, nodes, Streams!vars
<1> QED
  BY <1>1, <1>2, <1>3, <1>4, <1>5, <1>6 DEF Next, ProxyConn, Peer, Copies

\* Through the proxy each node receives a beginning of what the other sent, in order
\* and each unit once.
THEOREM StreamsStayInOrder == Spec => KeepsStreamOrder
<1>1. Init => Streams!Init
  BY DEF Init, Streams!Init, Streams!Nodes, Ends
<1> QED
  BY <1>1, OrderStep, ProxyInvariant, PTL DEF Spec, KeepsStreamOrder, Streams!Spec
=============================================================================
