------------------------------ MODULE TlvProofs ------------------------------
(***************************************************************************)
(* What decode makes of the stream, for any bytes, any number and length   *)
(* of messages and any MaxPayloadSize: the types, that it stays in step as *)
(* long as every Read is filled, and the reasons for which it stops.       *)
(***************************************************************************)
EXTENDS Tlv, SequenceTheorems, TLAPS

-----------------------------------------------------------------------------
(* What a message becomes                                                  *)

LEMMA MessageTypes ==
    ASSUME NEW m \in Messages
    PROVE  /\ m.typ \in Types /\ m.typ \in Nat
           /\ m.value \in Seq(Byte) /\ Len(m.value) \in 0..MaxLength /\ Len(m.value) \in Nat
           /\ DOMAIN m.value = 1..Len(m.value)
<1>1. m.typ \in Types /\ m.value \in BoundedSeq(Byte, MaxLength)
  BY DEF Messages
<1>2. PICK n \in 0..MaxLength : m.value \in [1..n -> Byte]
  BY <1>1 DEF BoundedSeq, SeqOf
<1>3. n \in Nat /\ m.value \in Seq(Byte) /\ Len(m.value) = n
  BY <1>2, TlvAssumption
<1> QED
  BY <1>1, <1>2, <1>3 DEF Types, BinaryType, StringType

LEMMA ElementIsNat == Element \subseteq Nat
  BY TlvAssumption DEF Element, Types, BinaryType, StringType

LEMMA EncodeProperties ==
    ASSUME NEW m \in Messages
    PROVE  /\ Encode(m) \in Seq(Element)
           /\ Len(Encode(m)) = 2 + Len(m.value)
           /\ Encode(m)[1] = m.typ
           /\ Encode(m)[2] = Len(m.value)
           /\ \A k \in 1..Len(m.value) : Encode(m)[2 + k] = m.value[k]
<1> DEFINE h == <<m.typ, Len(m.value)>>
<1>1. /\ m.typ \in Types /\ m.value \in Seq(Byte)
      /\ Len(m.value) \in 0..MaxLength /\ Len(m.value) \in Nat
  BY MessageTypes
<1>2. h \in Seq(Element) /\ Len(h) = 2 /\ h[1] = m.typ /\ h[2] = Len(m.value)
  BY <1>1 DEF Element
<1>3. m.value \in Seq(Element)
  BY <1>1 DEF Element
<1> HIDE DEF h
<1>4. /\ h \o m.value \in Seq(Element)
      /\ Len(h \o m.value) = Len(h) + Len(m.value)
      /\ \A i \in 1..(Len(h) + Len(m.value)) :
             (h \o m.value)[i] = IF i <= Len(h) THEN h[i] ELSE m.value[i - Len(h)]
  BY <1>2, <1>3, ConcatProperties
<1>5. Encode(m) = h \o m.value
  BY DEF Encode, h
<1>6. /\ Len(h \o m.value) = 2 + Len(m.value)
      /\ (h \o m.value)[1] = h[1] /\ (h \o m.value)[2] = h[2]
  BY <1>1, <1>2, <1>4
<1>7. ASSUME NEW k \in 1..Len(m.value)
      PROVE  (h \o m.value)[2 + k] = m.value[k]
  BY <1>1, <1>2, <1>4
<1> QED
  BY <1>2, <1>4, <1>5, <1>6, <1>7

LEMMA ConcatAt ==
    ASSUME NEW T, NEW s \in Seq(T), NEW e \in Seq(T),
           NEW a \in Nat, a = Len(s), NEW b \in Nat, b = Len(e)
    PROVE  /\ s \o e \in Seq(T) /\ Len(s \o e) = a + b
           /\ \A i \in 1..a : (s \o e)[i] = s[i]
           /\ \A i \in 1..b : (s \o e)[a + i] = e[i]
<1> DEFINE t == s \o e
<1>1. /\ t \in Seq(T) /\ Len(t) = Len(s) + Len(e)
      /\ \A i \in 1..(Len(s) + Len(e)) : t[i] = IF i <= Len(s) THEN s[i] ELSE e[i - Len(s)]
  BY ConcatProperties
<1> HIDE DEF t
<1>2. Len(t) = a + b /\ \A i \in 1..(a + b) : t[i] = IF i <= a THEN s[i] ELSE e[i - a]
  BY <1>1
<1>3. ASSUME NEW i \in 1..a
      PROVE  t[i] = s[i]
  BY <1>2
<1>4. ASSUME NEW i \in 1..b
      PROVE  t[a + i] = e[i]
  <2>1. a + i \in 1..(a + b) /\ ~(a + i <= a) /\ (a + i) - a = i
    OBVIOUS
  <2> QED
    BY <1>2, <2>1
<1> QED
  BY <1>1, <1>2, <1>3, <1>4 DEF t

\* A message is found where it is put, and stays there when more follow.
LEMMA LaidAfter ==
    ASSUME NEW m \in Messages, NEW s \in Seq(Element), NEW e \in Seq(Element), e = Encode(m)
    PROVE  /\ s \o e \in Seq(Element)
           /\ Len(s \o e) = Len(s) + 2 + Len(m.value)
           /\ Laid(m, s \o e, Len(s))
<1> DEFINE t == s \o e
<1>1. PICK z \in Nat : z = Len(m.value)
  BY MessageTypes
<1>2. /\ Len(e) = 2 + z
      /\ e[1] = m.typ /\ e[2] = z
      /\ \A k \in 1..z : e[2 + k] = m.value[k]
  BY <1>1, EncodeProperties
<1>3. DOMAIN m.value = 1..z
  BY <1>1, MessageTypes
<1>4. PICK a \in Nat : a = Len(s)
  OBVIOUS
<1>5. t \in Seq(Element) /\ Len(t) = a + (2 + z) /\ \A i \in 1..(2 + z) : t[a + i] = e[i]
  <2>1. PICK b \in Nat : b = 2 + z
    OBVIOUS
  <2>2. b = Len(e)
    BY <1>2, <2>1
  <2>3. t \in Seq(Element) /\ Len(t) = a + b /\ \A i \in 1..b : t[a + i] = e[i]
    BY <1>4, <2>2, ConcatAt
  <2> HIDE DEF t
  <2> QED
    BY <2>1, <2>3
<1> HIDE DEF t
<1>6. t[a + 1] = e[1] /\ t[a + 2] = e[2]
  BY <1>5
<1>7. ASSUME NEW k \in 1..z
      PROVE  t[a + 2 + k] = m.value[k]
  <2>1. 2 + k \in 1..(2 + z) /\ a + 2 + k = a + (2 + k)
    OBVIOUS
  <2>2. t[a + 2 + k] = e[2 + k]
    BY <1>5, <2>1
  <2> QED
    BY <1>2, <2>2
<1>8. Len(t) = a + 2 + z
  BY <1>5
<1>9. Laid(m, t, a)
  <2>1. a + 2 + z <= Len(t)
    BY <1>8
  <2>2. t[a + 1] = m.typ /\ t[a + 2] = z
    BY <1>2, <1>6
  <2> QED
    BY <1>1, <1>3, <1>7, <2>1, <2>2 DEF Laid
<1> QED
  BY <1>1, <1>4, <1>5, <1>8, <1>9 DEF t

LEMMA LaidAtEnd ==
    ASSUME NEW m \in Messages, NEW s \in Seq(Element)
    PROVE  /\ s \o Encode(m) \in Seq(Element)
           /\ Len(s \o Encode(m)) = Len(s) + 2 + Len(m.value)
           /\ Laid(m, s \o Encode(m), Len(s))
  BY EncodeProperties, LaidAfter

LEMMA LaidStays ==
    ASSUME NEW m \in Messages, NEW s \in Seq(Element), NEW e \in Seq(Element),
           NEW n \in Nat, Laid(m, s, n)
    PROVE  Laid(m, s \o e, n)
<1> DEFINE t == s \o e
<1>1. PICK z \in Nat : z = Len(m.value)
  BY MessageTypes
<1>2. DOMAIN m.value = 1..z
  BY <1>1, MessageTypes
<1>3. PICK a \in Nat, b \in Nat : a = Len(s) /\ b = Len(e)
  OBVIOUS
<1>4. Len(t) = a + b /\ \A i \in 1..a : t[i] = s[i]
  BY <1>3, ConcatAt
<1> HIDE DEF t
<1>5. n + 2 + z <= a
  BY <1>1, <1>3 DEF Laid
<1>6. n + 1 \in 1..a /\ n + 2 \in 1..a /\ n + 2 + z <= a + b
  BY <1>5
<1>7. \A k \in 1..z : n + 2 + k \in 1..a
  BY <1>5
<1> QED
  BY <1>1, <1>2, <1>4, <1>6, <1>7 DEF Laid, t

\* A value that was filled is the value of the message.
LEMMA FilledIsValue ==
    ASSUME NEW m \in Messages, NEW s \in Seq(Element), NEW n \in Nat, Laid(m, s, n)
    PROVE  Padded(SubSeq(s, n + 2 + 1, n + 2 + Len(m.value)), Len(m.value)) = m.value
<1> DEFINE z == Len(m.value)
           b == SubSeq(s, n + 2 + 1, n + 2 + z)
<1>1. m.value \in Seq(Byte) /\ z \in Nat /\ DOMAIN m.value = 1..z /\ n + 2 + z <= Len(s)
  BY MessageTypes DEF Laid
<1>2. \A k \in 1..z : s[n + 2 + k] = m.value[k]
  BY <1>1 DEF Laid
<1> HIDE DEF z
<1>3. Len(b) = z /\ DOMAIN b = 1..z /\ \A k \in 1..z : b[k] = s[n + 2 + k]
  BY <1>1
<1> HIDE DEF b
<1>4. Padded(b, z) = [k \in 1..z |-> m.value[k]]
  BY <1>2, <1>3 DEF Padded
<1>5. m.value = [k \in 1..z |-> m.value[k]]
  BY <1>1
<1> QED
  BY <1>4, <1>5 DEF b, z

-----------------------------------------------------------------------------
(* The stream                                                              *)

LEMMA StreamFacts ==
    ASSUME TypeOK, StreamInv, NEW i \in DOMAIN messages
    PROVE  /\ messages[i] \in Messages /\ i \in Nat /\ Laid(messages[i], stream, starts[i])
           /\ i \in DOMAIN starts /\ i + 1 \in DOMAIN starts
           /\ starts[i] \in Nat /\ starts[i + 1] \in Nat
           /\ starts[i + 1] = starts[i] + 2 + Len(messages[i].value)
<1>1. messages \in Seq(Messages) /\ starts \in Seq(Nat) /\ Len(starts) = Len(messages) + 1
  BY DEF TypeOK, StreamInv
<1>2. i \in 1..Len(messages) /\ DOMAIN starts = 1..(Len(messages) + 1) /\ Len(messages) \in Nat
  BY <1>1
<1>3. i \in DOMAIN starts /\ i + 1 \in DOMAIN starts
  BY <1>2
<1> QED
  BY <1>1, <1>2, <1>3 DEF StreamInv, MessageAt

LEMMA WriteToTypes ==
    ASSUME TypeOK, NEW m \in Messages, WriteTo(m)
    PROVE  TypeOK'
<1>1. /\ messages \in Seq(Messages) /\ stream \in Seq(Element) /\ starts \in Seq(Nat)
      /\ Len(messages) < MaxMessages /\ arrived \in 0..Len(stream)
  BY DEF TypeOK, WriteTo
<1>2. messages' \in Seq(Messages) /\ Len(messages') <= MaxMessages
  BY <1>1, TlvAssumption DEF WriteTo
<1>3. /\ stream' \in Seq(Element) /\ Len(stream') = Len(stream) + 2 + Len(m.value)
      /\ Len(m.value) \in Nat
  BY <1>1, LaidAtEnd, MessageTypes DEF WriteTo
<1>4. Len(stream') \in Nat
  BY <1>3, LenProperties
<1>5. starts' \in Seq(Nat)
  BY <1>1, <1>4, AppendProperties DEF WriteTo
<1>6. PICK l \in Nat, z \in Nat : l = Len(stream) /\ z = Len(m.value)
  BY <1>1, <1>3
<1>7. Len(stream') = l + 2 + z /\ arrived' = arrived /\ arrived \in 0..l
  BY <1>1, <1>3, <1>6 DEF WriteTo
<1>8. \A a \in 0..l : a \in 0..(l + 2 + z)
  OBVIOUS
<1>9. arrived' \in 0..Len(stream')
  BY <1>7, <1>8
<1>10. pos \in 0..arrived => pos \in 0..arrived'
  BY DEF WriteTo
<1> QED
  BY <1>2, <1>3, <1>5, <1>9, <1>10 DEF WriteTo, TypeOK

\* What was written before is not moved, and what is written now is at the end.
LEMMA WriteToStream ==
    ASSUME TypeOK, StreamInv, NEW m \in Messages, WriteTo(m)
    PROVE  /\ StreamInv'
           /\ \A i \in DOMAIN messages : i \in DOMAIN messages' /\ messages'[i] = messages[i]
           /\ \A i \in DOMAIN starts : starts'[i] = starts[i]
           /\ \A i \in DOMAIN stream : stream'[i] = stream[i]
<1>1. /\ messages \in Seq(Messages) /\ stream \in Seq(Element) /\ starts \in Seq(Nat)
      /\ Len(starts) = Len(messages) + 1
      /\ messages' = Append(messages, m) /\ stream' = stream \o Encode(m)
      /\ starts' = Append(starts, Len(stream'))
  BY DEF TypeOK, StreamInv, WriteTo
<1>2. /\ stream' \in Seq(Element) /\ Len(stream') = Len(stream) + 2 + Len(m.value)
      /\ Laid(m, stream', Len(stream))
  BY <1>1, LaidAtEnd
<1>3. PICK n \in Nat, l \in Nat, z \in Nat : n = Len(messages) /\ l = Len(stream) /\ z = Len(m.value)
  BY <1>1, MessageTypes
<1>4. Encode(m) \in Seq(Element)
  BY EncodeProperties
<1>5. /\ messages' \in Seq(Messages) /\ Len(messages') = n + 1 /\ messages'[n + 1] = m
      /\ \A i \in 1..n : messages'[i] = messages[i]
  BY <1>1, <1>3, AppendProperties
<1>6. /\ Len(starts') = n + 2 /\ starts'[n + 2] = Len(stream')
      /\ \A i \in 1..(n + 1) : starts'[i] = starts[i]
  <2>1. Len(stream') \in Nat
    BY <1>2, LenProperties
  <2>2. /\ Len(starts') = Len(starts) + 1 /\ starts'[Len(starts) + 1] = Len(stream')
        /\ \A i \in 1..Len(starts) : starts'[i] = starts[i]
    BY <1>1, <2>1, AppendProperties
  <2>3. Len(starts) = n + 1
    BY <1>1, <1>3
  <2> QED
    BY <2>2, <2>3
<1>7. Len(stream') = l + 2 + z
  BY <1>2, <1>3
<1>8. \A i \in 1..l : stream'[i] = stream[i]
  <2>1. PICK e \in Nat : e = Len(Encode(m))
    BY <1>4
  <2> QED
    BY <1>1, <1>3, <1>4, <2>1, ConcatAt
<1>9. ASSUME NEW i \in 1..(n + 1)
      PROVE  MessageAt(i)'
  <2>1. CASE i = n + 1
    <3>1. starts'[i] = l /\ messages'[i] = m
      BY <1>3, <1>5, <1>6, <2>1 DEF StreamInv
    <3>2. i + 1 = n + 2
      BY <2>1
    <3>3. starts'[i + 1] = l + 2 + z
      BY <1>6, <1>7, <3>2
    <3>4. Laid(m, stream', l)
      BY <1>2, <1>3
    <3> QED
      BY <1>3, <3>1, <3>3, <3>4 DEF MessageAt
  <2>2. CASE i \in 1..n
    <3>1. i \in DOMAIN messages /\ i \in 1..(n + 1) /\ i + 1 \in 1..(n + 1)
      BY <1>1, <1>3, <2>2
    <3>2. /\ messages[i] \in Messages /\ Laid(messages[i], stream, starts[i])
          /\ starts[i] \in Nat
          /\ starts[i + 1] = starts[i] + 2 + Len(messages[i].value)
      BY <3>1, StreamFacts
    <3>3. starts'[i] = starts[i] /\ starts'[i + 1] = starts[i + 1] /\ messages'[i] = messages[i]
      BY <1>5, <1>6, <2>2, <3>1
    <3>4. Laid(messages[i], stream', starts[i])
      BY <1>1, <1>4, <3>2, LaidStays
    <3> QED
      BY <3>2, <3>3, <3>4 DEF MessageAt
  <2> QED
    BY <2>1, <2>2
<1>10. StreamInv'
  <2>1. Len(starts') = Len(messages') + 1 /\ starts'[Len(messages') + 1] = Len(stream')
    BY <1>5, <1>6
  <2>2. starts'[1] = 0
    BY <1>6 DEF StreamInv
  <2>3. DOMAIN messages' = 1..(n + 1)
    BY <1>5
  <2> QED
    BY <1>9, <2>1, <2>2, <2>3 DEF StreamInv
<1>11. DOMAIN messages = 1..n /\ DOMAIN messages' = 1..(n + 1) /\ DOMAIN starts = 1..(n + 1)
       /\ DOMAIN stream = 1..l
  BY <1>1, <1>3, <1>5
<1> QED
  BY <1>3, <1>5, <1>6, <1>8, <1>10, <1>11

-----------------------------------------------------------------------------
(* Types and headers                                                       *)

\* What is there to read.
LEMMA Readable ==
    ASSUME TypeOK
    PROVE  /\ pos \in Nat /\ arrived \in Nat /\ size \in Nat /\ pos <= arrived
           /\ Available \in Nat /\ Available = arrived - pos
           /\ \A i \in Nat : i < Available => stream[pos + i + 1] \in Element
           /\ Available > 0 => stream[pos + 1] \in Nat /\ pos + 1 \in 0..arrived
<1>1. PICK l \in Nat : l = Len(stream) /\ arrived \in 0..l
  BY DEF TypeOK
<1>2. /\ pos \in Nat /\ arrived \in Nat /\ size \in Nat /\ pos <= arrived
      /\ Available \in Nat /\ Available = arrived - pos
  BY <1>1 DEF TypeOK, Available
<1>3. \A k \in 1..l : stream[k] \in Element
  BY <1>1 DEF TypeOK
<1>4. ASSUME NEW i \in Nat, i < Available
      PROVE  pos + i + 1 \in 1..l
  BY <1>1, <1>2, <1>4
<1>5. Available > 0 => pos + 1 \in 1..l /\ pos + 1 \in 0..arrived
  BY <1>1, <1>2
<1>6. Available > 0 => stream[pos + 1] \in Nat
  BY <1>3, <1>5, ElementIsNat
<1> QED
  BY <1>2, <1>3, <1>4, <1>5, <1>6

LEMMA PayloadTypes ==
    ASSUME TypeOK, HeaderInv, ReadPayload
    PROVE  /\ pos' \in 0..arrived /\ short' \in BOOLEAN
           /\ out' \in Seq([typ : Types, value : BoundedSeq(Element, MaxPayloadSize)])
<1> DEFINE n == IF Available < size THEN Available ELSE size
           b == SubSeq(stream, pos + 1, pos + n)
           v == Padded(b, size)
           T == [typ : Types, value : BoundedSeq(Element, MaxPayloadSize)]
<1>1. /\ pos' = pos + n /\ out' = Append(out, [typ |-> typ, value |-> v])
      /\ short' = (short \/ n < size)
      /\ typ \in Types /\ size \in 0..MaxPayloadSize
  BY DEF ReadPayload, HeaderInv
<1>2. n \in Nat /\ n <= Available /\ n <= size /\ pos + n \in 0..arrived
  BY Readable
<1>3. \A i \in DOMAIN b : b[i] \in Element
  <2>1. stream \in Seq(Element) /\ pos + 1 \in 1..(Len(stream) + 1) /\ pos + n \in 0..Len(stream)
    BY <1>2, Readable DEF TypeOK
  <2> HIDE DEF n
  <2>2. b \in Seq(Element)
    BY <2>1, SubSeqProperties
  <2> QED
    BY <2>2
<1> HIDE DEF n, b
<1>4. v \in [1..size -> Element]
  BY <1>3, TlvAssumption DEF Padded, Element
<1> HIDE DEF v
<1>5. v \in BoundedSeq(Element, MaxPayloadSize)
  BY <1>1, <1>4 DEF BoundedSeq, SeqOf
<1>6. [typ |-> typ, value |-> v] \in T
  BY <1>1, <1>5
<1> HIDE DEF T
<1>7. out \in Seq(T)
  BY DEF TypeOK, T
<1>8. out' \in Seq(T)
  BY <1>1, <1>6, <1>7, AppendProperties
<1>9. short' \in BOOLEAN
  BY <1>1 DEF TypeOK
<1> QED
  BY <1>1, <1>2, <1>8, <1>9 DEF T

LEMMA TypesStep ==
    ASSUME TypeOK, HeaderInv, [Next]_vars
    PROVE  TypeOK' /\ HeaderInv'
<1> USE DEF streamVars
<1>1. ASSUME NEW m \in Messages, WriteTo(m)
      PROVE  TypeOK' /\ HeaderInv'
  BY <1>1, WriteToTypes DEF WriteTo, HeaderInv
<1>2. CASE Arrive
  <2>1. /\ arrived' = arrived + 1 /\ arrived < Len(stream)
        /\ UNCHANGED <<messages, stream, starts, closed, pos, pc, typ, size, out, short>>
    BY <1>2 DEF Arrive
  <2>2. arrived' \in 0..Len(stream) /\ pos \in 0..arrived'
    <3>1. PICK l \in Nat : l = Len(stream)
      BY DEF TypeOK
    <3> QED
      BY <2>1, <3>1, Readable
  <2> QED
    BY <2>1, <2>2 DEF TypeOK, HeaderInv
<1>3. CASE Close
  BY <1>3 DEF Close, TypeOK, HeaderInv
<1>4. CASE ReadType
  <2>1. typ' \in Nat /\ pos' \in 0..arrived
    BY <1>4, Readable DEF ReadType
  <2> QED
    BY <1>4, <2>1 DEF ReadType, TypeOK, HeaderInv
<1>5. CASE ReadSize
  <2>1. size' \in Nat /\ pos' \in 0..arrived
    BY <1>5, Readable DEF ReadSize
  <2>2. pc' = "payload" => size' \in 0..MaxPayloadSize
    BY <1>5, <2>1, TlvAssumption DEF ReadSize, SizeAccepted
  <2> QED
    BY <1>5, <2>1, <2>2 DEF ReadSize, TypeOK, HeaderInv
<1>6. CASE ReadPayload
  BY <1>6, PayloadTypes DEF ReadPayload, TypeOK, HeaderInv
<1>7. CASE ReadEOF
  BY <1>7 DEF ReadEOF, TypeOK, HeaderInv
<1>8. CASE UNCHANGED vars
  BY <1>8 DEF vars, TypeOK, HeaderInv
<1> QED
  BY <1>1, <1>2, <1>3, <1>4, <1>5, <1>6, <1>7, <1>8 DEF Next, Decode

LEMMA StreamStep ==
    ASSUME TypeOK, StreamInv, [Next]_vars
    PROVE  StreamInv'
<1>1. CASE UNCHANGED <<messages, stream, starts>>
  BY <1>1 DEF StreamInv, MessageAt
<1>2. CASE \E m \in Messages : WriteTo(m)
  BY <1>2, WriteToStream
<1> QED
  BY <1>1, <1>2 DEF Next, Arrive, Close, Decode, ReadType, ReadSize, ReadPayload, ReadEOF,
     streamVars, vars

-----------------------------------------------------------------------------
(* Where decode is                                                         *)

\* The number of the next message, and where it would start.
LEMMA NextMessage ==
    ASSUME TypeOK, StreamInv, StepInv, ~short
    PROVE  /\ Len(out) \in Nat /\ Len(out) + 1 \in Nat
           /\ Len(out) + 1 \in DOMAIN starts
           /\ starts[Len(out) + 1] \in Nat
           /\ Len(out) + 1 \in DOMAIN messages <=> Len(out) < Len(messages)
           /\ Len(out) + 1 \notin DOMAIN messages => starts[Len(out) + 1] = Len(stream)
<1>1. /\ Len(out) \in Nat /\ Len(messages) \in Nat /\ Len(out) <= Len(messages)
      /\ Len(starts) = Len(messages) + 1 /\ starts[Len(messages) + 1] = Len(stream)
      /\ DOMAIN messages = 1..Len(messages) /\ DOMAIN starts = 1..Len(starts)
      /\ starts \in Seq(Nat)
  BY DEF TypeOK, StreamInv, StepInv
<1>2. Len(out) + 1 \in 1..(Len(messages) + 1)
  BY <1>1
<1>3. starts[Len(out) + 1] \in Nat
  BY <1>1, <1>2
<1>4. Len(out) + 1 \in DOMAIN messages <=> Len(out) < Len(messages)
  BY <1>1
<1>5. Len(out) + 1 \notin DOMAIN messages => Len(out) = Len(messages)
  BY <1>1, <1>4
<1> QED
  BY <1>1, <1>2, <1>3, <1>4, <1>5

LEMMA StepWriteTo ==
    ASSUME TypeOK, StreamInv, StepInv, NEW m \in Messages, WriteTo(m)
    PROVE  StepInv'
<1> SUFFICES ASSUME ~short
             PROVE  StepInv'
  BY DEF WriteTo, StepInv
<1> DEFINE i == Len(out) + 1
<1>1. /\ ~closed /\ UNCHANGED <<arrived, closed, pos, pc, typ, size, out, short>>
  BY DEF WriteTo
<1>2. /\ \A k \in DOMAIN messages : k \in DOMAIN messages' /\ messages'[k] = messages[k]
      /\ \A k \in DOMAIN starts : starts'[k] = starts[k]
  BY WriteToStream
<1>3. i \in DOMAIN starts /\ Len(out) \in Nat /\ (i \in DOMAIN messages <=> Len(out) < Len(messages))
  BY NextMessage
<1>4. /\ pc # "unknown" /\ pc # "eof"
      /\ Len(out) <= Len(messages) /\ \A k \in DOMAIN out : out[k] = messages[k]
      /\ pc = "type" => pos = starts[i]
      /\ pc \in {"size", "payload", "refused"} => i \in DOMAIN messages
      /\ pc = "size" => pos = starts[i] + 1 /\ typ = messages[i].typ
      /\ pc = "payload" => pos = starts[i] + 2 /\ typ = messages[i].typ
                           /\ size = Len(messages[i].value)
      /\ pc = "refused" => Len(messages[i].value) > MaxPayloadSize
  BY <1>1 DEF StepInv
<1>5. \A k \in DOMAIN out : k \in DOMAIN messages
  <2>1. Len(messages) \in Nat /\ DOMAIN messages = 1..Len(messages) /\ DOMAIN out = 1..Len(out)
    BY DEF TypeOK
  <2> QED
    BY <1>3, <1>4, <2>1
<1>6. Len(out) <= Len(messages')
  <2>1. Len(messages) \in Nat /\ Len(messages') = Len(messages) + 1
    BY AppendProperties DEF TypeOK, WriteTo
  <2> QED
    BY <1>3, <1>4, <2>1
<1> HIDE DEF i
<1>7. \A k \in DOMAIN out : out[k] = messages'[k]
  BY <1>2, <1>4, <1>5
<1>8. starts'[i] = starts[i] /\ (i \in DOMAIN messages => i \in DOMAIN messages' /\ messages'[i] = messages[i])
  BY <1>2, <1>3
<1> QED
  BY <1>1, <1>4, <1>6, <1>7, <1>8 DEF StepInv, i

LEMMA StepReadType ==
    ASSUME TypeOK, StreamInv, StepInv, ReadType
    PROVE  StepInv'
<1> SUFFICES ASSUME ~short
             PROVE  StepInv'
  BY DEF ReadType, StepInv
<1> DEFINE i == Len(out) + 1
<1>1. /\ pc = "type" /\ Available > 0 /\ pos' = pos + 1 /\ typ' = stream[pos + 1]
      /\ pc' = IF typ' \in Types THEN "size" ELSE "unknown"
      /\ UNCHANGED <<messages, stream, starts, arrived, closed, size, out, short>>
  BY DEF ReadType, streamVars
<1>2. pos = starts[i] /\ Len(out) <= Len(messages) /\ \A k \in DOMAIN out : out[k] = messages[k]
  BY <1>1 DEF StepInv
<1>3. i \in DOMAIN messages
  <2>1. pos < Len(stream)
    <3>1. PICK l \in Nat : l = Len(stream) /\ arrived \in 0..l
      BY DEF TypeOK
    <3> QED
      BY <1>1, <3>1, Readable
  <2>2. i \notin DOMAIN messages => pos = Len(stream)
    BY <1>2, NextMessage
  <2> QED
    BY <2>1, <2>2, Readable
<1>4. Laid(messages[i], stream, starts[i]) /\ messages[i] \in Messages
  BY <1>3, StreamFacts
<1> HIDE DEF i
<1>5. typ' = messages[i].typ /\ typ' \in Types
  BY <1>1, <1>2, <1>4, MessageTypes DEF Laid
<1> QED
  BY <1>1, <1>2, <1>3, <1>5 DEF StepInv, i

LEMMA StepReadSize ==
    ASSUME TypeOK, StreamInv, StepInv, ReadSize
    PROVE  StepInv'
<1> SUFFICES ASSUME ~short
             PROVE  StepInv'
  BY DEF ReadSize, StepInv
<1> DEFINE i == Len(out) + 1
<1>1. /\ pc = "size" /\ pos' = pos + 1 /\ size' = stream[pos + 1]
      /\ pc' = IF SizeAccepted(size') THEN "payload" ELSE "refused"
      /\ UNCHANGED <<messages, stream, starts, arrived, closed, typ, out, short>>
  BY DEF ReadSize, streamVars
<1>2. /\ pos = starts[i] + 1 /\ i \in DOMAIN messages /\ typ = messages[i].typ
      /\ Len(out) <= Len(messages) /\ \A k \in DOMAIN out : out[k] = messages[k]
  BY <1>1 DEF StepInv
<1>3. /\ Laid(messages[i], stream, starts[i]) /\ messages[i] \in Messages /\ starts[i] \in Nat
  BY <1>2, StreamFacts
<1> HIDE DEF i
<1>4. pos + 1 = starts[i] + 2 /\ pos' = starts[i] + 2
  BY <1>1, <1>2, <1>3
<1>5. size' = Len(messages[i].value)
  BY <1>1, <1>3, <1>4 DEF Laid
<1>6. pc' = "refused" => Len(messages[i].value) > MaxPayloadSize
  <2>1. PICK z \in Nat : z = Len(messages[i].value)
    BY <1>3, MessageTypes
  <2> QED
    BY <1>1, <1>5, <2>1, TlvAssumption DEF SizeAccepted
<1> QED
  BY <1>1, <1>2, <1>4, <1>5, <1>6 DEF StepInv, i

LEMMA StepReadPayload ==
    ASSUME TypeOK, StreamInv, StepInv, ReadPayload
    PROVE  StepInv'
<1> DEFINE i == Len(out) + 1
           n == IF Available < size THEN Available ELSE size
           v == Padded(SubSeq(stream, pos + 1, pos + n), size)
<1>1. /\ pc = "payload" /\ pos' = pos + n /\ out' = Append(out, [typ |-> typ, value |-> v])
      /\ short' = (short \/ n < size) /\ pc' = "type"
      /\ UNCHANGED <<messages, stream, starts, arrived, closed, typ, size>>
  BY DEF ReadPayload, streamVars
<1> SUFFICES ASSUME ~short'
             PROVE  StepInv'
  BY DEF StepInv
<1>2. ~short /\ n = size
  BY <1>1, Readable
<1>3. /\ pos = starts[i] + 2 /\ typ = messages[i].typ /\ size = Len(messages[i].value)
      /\ i \in DOMAIN messages
      /\ Len(out) <= Len(messages) /\ \A k \in DOMAIN out : out[k] = messages[k]
  BY <1>1, <1>2 DEF StepInv
<1>4. /\ messages[i] \in Messages /\ Laid(messages[i], stream, starts[i]) /\ starts[i] \in Nat
      /\ starts[i + 1] = starts[i] + 2 + Len(messages[i].value)
  BY <1>3, StreamFacts
<1>5. v = messages[i].value
  <2>1. stream \in Seq(Element)
    BY DEF TypeOK
  <2> HIDE DEF i, n
  <2> QED
    BY <1>2, <1>3, <1>4, <2>1, FilledIsValue
<1>6. [typ |-> typ, value |-> v] = messages[i]
  <2> HIDE DEF v, i
  <2> QED
    BY <1>3, <1>4, <1>5 DEF Messages
<1>7. pos' = starts[i + 1]
  <2> HIDE DEF i, n
  <2> QED
    BY <1>1, <1>2, <1>3, <1>4
<1> HIDE DEF v, n
<1>8. /\ Len(out') = i /\ out'[i] = messages[i] /\ \A k \in DOMAIN out : out'[k] = out[k]
      /\ DOMAIN out' = 1..i /\ DOMAIN out = 1..(i - 1)
  <2>1. out \in Seq([typ : Types, value : BoundedSeq(Element, MaxPayloadSize)])
    BY DEF TypeOK
  <2>2. Len(out) \in Nat /\ Len(out') = Len(out) + 1 /\ DOMAIN out' = 1..(Len(out) + 1)
    BY <1>1, <2>1
  <2> QED
    BY <1>1, <1>6, <2>1, <2>2
<1>9. i \in Nat /\ i <= Len(messages)
  <2>1. messages \in Seq(Messages)
    BY DEF TypeOK
  <2> QED
    BY <1>3, <2>1
<1>10. \A k \in DOMAIN out' : out'[k] = messages[k]
  <2> HIDE DEF i
  <2>1. \A k \in 1..i : k = i \/ k \in 1..(i - 1)
    BY <1>9
  <2> QED
    BY <1>3, <1>8, <2>1
<1> HIDE DEF i
<1> QED
  BY <1>1, <1>7, <1>8, <1>9, <1>10 DEF StepInv

LEMMA StepReadEOF ==
    ASSUME TypeOK, StreamInv, StepInv, ReadEOF
    PROVE  StepInv'
<1> SUFFICES ASSUME ~short
             PROVE  StepInv'
  BY DEF ReadEOF, StepInv
<1> DEFINE i == Len(out) + 1
<1>1. /\ pc \in {"type", "size"} \/ (pc = "payload" /\ size > 0)
      /\ Available = 0 /\ closed /\ pc' = "eof"
      /\ UNCHANGED <<messages, stream, starts, arrived, closed, pos, typ, size, out, short>>
  BY DEF ReadEOF, streamVars
<1>2. /\ Len(out) <= Len(messages) /\ \A k \in DOMAIN out : out[k] = messages[k]
      /\ pc = "type" => pos = starts[i]
      /\ pc = "size" => pos = starts[i] + 1
      /\ pc = "payload" => pos = starts[i] + 2 /\ size = Len(messages[i].value)
  BY DEF StepInv
<1>3. arrived = pos
  BY <1>1, Readable
<1>4. ASSUME i \in DOMAIN messages
      PROVE  arrived < starts[i + 1]
  <2>1. /\ messages[i] \in Messages /\ starts[i] \in Nat
        /\ starts[i + 1] = starts[i] + 2 + Len(messages[i].value)
    BY <1>4, StreamFacts
  <2> HIDE DEF i
  <2>2. PICK p \in Nat, z \in Nat : p = starts[i] /\ z = Len(messages[i].value)
    BY <2>1, MessageTypes
  <2>3. starts[i + 1] = p + 2 + z
    BY <2>1, <2>2
  <2>4. pos = p \/ pos = p + 1 \/ (pos = p + 2 /\ z > 0)
    BY <1>1, <1>2, <2>2 DEF i
  <2>5. pos < p + 2 + z
    BY <2>4
  <2> QED
    BY <1>3, <2>3, <2>5
<1> QED
  BY <1>1, <1>2, <1>4 DEF StepInv

LEMMA StepStep ==
    ASSUME TypeOK, StreamInv, StepInv, [Next]_vars
    PROVE  StepInv'
<1>1. CASE Arrive \/ Close
  BY <1>1 DEF Arrive, Close, StepInv
<1>2. CASE UNCHANGED vars
  BY <1>2 DEF vars, streamVars, StepInv
<1> QED
  BY <1>1, <1>2, StepWriteTo, StepReadType, StepReadSize, StepReadPayload, StepReadEOF
     DEF Next, Decode

-----------------------------------------------------------------------------
(* What holds always                                                       *)

\* The inductive invariant: the stream is the messages one after another, and as
\* long as every Read was filled decode is at the place of the next one that its
\* pc says.
THEOREM TlvInvariant == Spec => []TlvInv
<1>1. Init => TlvInv
  <2> SUFFICES ASSUME Init
               PROVE  TlvInv
    OBVIOUS
  <2>1. TypeOK
    <3>1. /\ messages = <<>> /\ stream = <<>> /\ starts = <<0>> /\ out = <<>>
          /\ arrived = 0 /\ pos = 0 /\ typ = 0 /\ size = 0
          /\ closed = FALSE /\ pc = "type" /\ short = FALSE
      BY DEF Init
    <3>2. /\ messages \in Seq(Messages) /\ stream \in Seq(Element)
          /\ out \in Seq([typ : Types, value : BoundedSeq(Element, MaxPayloadSize)])
          /\ Len(messages) = 0 /\ Len(stream) = 0
      BY <3>1
    <3>3. starts \in Seq(Nat)
      BY <3>1
    <3>4. Len(messages) <= MaxMessages
      BY <3>2, TlvAssumption
    <3>5. arrived \in 0..Len(stream) /\ pos \in 0..arrived /\ typ \in Nat /\ size \in Nat
      BY <3>1, <3>2
    <3> QED
      BY <3>1, <3>2, <3>3, <3>4, <3>5 DEF TypeOK
  <2>2. StreamInv
    BY DEF Init, StreamInv
  <2>3. HeaderInv /\ StepInv
    BY DEF Init, HeaderInv, StepInv
  <2> QED
    BY <2>1, <2>2, <2>3 DEF TlvInv
<1>2. ASSUME TlvInv, [Next]_vars
      PROVE  TlvInv'
  BY <1>2, TypesStep, StreamStep, StepStep DEF TlvInv
<1> QED
  BY <1>1, <1>2, PTL DEF Spec

\* No value decode returns is larger than MaxPayloadSize, even after it has lost
\* the boundaries of the messages.
THEOREM TlvTypes == Spec => []TypeOK
<1>1. TlvInv => TypeOK
  BY DEF TlvInv
<1> QED
  BY TlvInvariant, <1>1, PTL

\* Filled Reads keep decode in step with WriteTo.
THEOREM FilledReadsKeepInSync == Spec => []InSyncUntilShortRead
<1>1. ASSUME TlvInv
      PROVE  InSyncUntilShortRead
  <2> SUFFICES ASSUME ~short
               PROVE  IsPrefix(out, messages) /\ (pc = "type" => pos = starts[Len(out) + 1])
    BY DEF InSyncUntilShortRead
  <2>1. /\ Len(out) <= Len(messages) /\ \A k \in DOMAIN out : out[k] = messages[k]
        /\ pc = "type" => pos = starts[Len(out) + 1]
    BY <1>1 DEF TlvInv, StepInv
  <2>2. /\ out \in Seq([typ : Types, value : BoundedSeq(Element, MaxPayloadSize)])
        /\ messages \in Seq(Messages)
    BY <1>1 DEF TlvInv, TypeOK
  <2>3. SubSeq(out, 1, Len(out)) = SubSeq(messages, 1, Len(out))
    BY <2>1, <2>2
  <2> QED
    BY <2>1, <2>3 DEF IsPrefix
<1> QED
  BY TlvInvariant, <1>1, PTL

\* And decode then stops for a good reason only.
THEOREM DecodeStopsForAReason == Spec => []StopsForAReason
<1>1. ASSUME TlvInv
      PROVE  StopsForAReason
  <2> SUFFICES ASSUME ~short
               PROVE  StopsForAReason
    BY DEF StopsForAReason
  <2> DEFINE i == Len(out) + 1
  <2>1. /\ pc # "unknown" /\ (pc = "refused" => i \in DOMAIN messages)
        /\ pc = "refused" => Len(messages[i].value) > MaxPayloadSize
        /\ pc = "eof" => (i \in DOMAIN messages => arrived < starts[i + 1])
    BY <1>1 DEF TlvInv, StepInv
  <2>2. (i \in DOMAIN messages <=> Len(out) < Len(messages)) /\ Len(out) \in Nat
    BY <1>1, NextMessage DEF TlvInv
  <2>3. i + 1 = Len(out) + 2
    BY <2>2
  <2> QED
    BY <2>1, <2>2, <2>3 DEF StopsForAReason
<1> QED
  BY TlvInvariant, <1>1, PTL
=============================================================================
