-------------------------------- MODULE Tlv --------------------------------
(***************************************************************************)
(* The type-length-value messages of ch04/types.go on a TCP connection:    *)
(* WriteTo puts one message after another into the stream, decode is       *)
(* called again and again on the other end, as in types_test.go. TCP keeps *)
(* the bytes and their order and nothing else: how many have arrived when  *)
(* a Read is called is up to the network, and the connection may end after *)
(* any of them.                                                            *)
(*                                                                         *)
(* The 4 bytes of a size, always read together, are one element here.      *)
(***************************************************************************)
EXTENDS Naturals, Sequences, SequencesExt

CONSTANTS
    Byte,               \* values of a byte
    MaxPayloadSize,     \* sizes above are refused
    MaxMessages,        \* bound: messages written
    MaxLength           \* bound: length of a message's value

BinaryType == 1
StringType == 2
Types == {BinaryType, StringType}

ASSUME TlvAssumption ==
    /\ Byte \subseteq Nat /\ 0 \in Byte
    /\ MaxPayloadSize \in Nat
    /\ MaxMessages \in Nat
    /\ MaxLength \in Nat

VARIABLES
    messages,   \* what the sender has written, one WriteTo each
    stream,     \* the elements that makes
    starts,     \* history: the length of the stream before each message, and after all
    arrived,    \* elements of the stream that the receiver can read
    closed,     \* nothing more will arrive
    pos,        \* elements read
    pc,         \* where decode is, or how the last one ended
    typ, size,  \* the header being decoded
    out,        \* the payloads decode returned
    short       \* history: a Read returned fewer bytes than asked for

streamVars == <<messages, stream, starts, arrived, closed>>
vars == <<streamVars, pos, pc, typ, size, out, short>>

-----------------------------------------------------------------------------
(* WriteTo                                                                 *)

Messages == [typ : Types, value : BoundedSeq(Byte, MaxLength)]

\* EncodeWhole, and each operator below named after the one it precedes, is that
\* one with a mistake in it, to show what a property would catch; the
\* specification does not use them.
EncodeWhole(m) == <<m.typ, Len(m.value) + 1>> \o m.value

\* Binary.WriteTo and String.WriteTo: a type, a size and the value. The sender
\* does not check the size.
Encode(m) == <<m.typ, Len(m.value)>> \o m.value

\* What an element of the stream can be.
Element == Byte \union Types \union 0..MaxLength

-----------------------------------------------------------------------------
Init ==
    /\ messages = <<>>
    /\ stream = <<>>
    /\ starts = <<0>>
    /\ arrived = 0
    /\ closed = FALSE
    /\ pos = 0
    /\ pc = "type"
    /\ typ = 0
    /\ size = 0
    /\ out = <<>>
    /\ short = FALSE

WriteTo(m) ==
    /\ ~closed
    /\ Len(messages) < MaxMessages
    /\ messages' = Append(messages, m)
    /\ stream' = stream \o Encode(m)
    /\ starts' = Append(starts, Len(stream'))
    /\ UNCHANGED <<arrived, closed, pos, pc, typ, size, out, short>>

Arrive ==
    /\ ~closed
    /\ arrived < Len(stream)
    /\ arrived' = arrived + 1
    /\ UNCHANGED <<messages, stream, starts, closed, pos, pc, typ, size, out, short>>

\* The sender closes the connection, in the middle of a message if it fails.
Close ==
    /\ ~closed
    /\ closed' = TRUE
    /\ UNCHANGED <<messages, stream, starts, arrived, pos, pc, typ, size, out, short>>

-----------------------------------------------------------------------------
(* decode, and the ReadFrom method it calls                                *)

Available == arrived - pos

ReadType ==
    /\ pc = "type"
    /\ Available > 0
    /\ pos' = pos + 1
    /\ typ' = stream[pos + 1]
    /\ pc' = IF typ' \in Types THEN "size" ELSE "unknown"
    /\ UNCHANGED <<streamVars, size, out, short>>

SizeUnchecked(s) == TRUE

SizeAcceptedBelow(s) == s < MaxPayloadSize

SizeAccepted(s) == s <= MaxPayloadSize

ReadSize ==
    /\ pc = "size"
    /\ Available > 0
    /\ pos' = pos + 1
    /\ size' = stream[pos + 1]
    /\ pc' = IF SizeAccepted(size') THEN "payload" ELSE "refused"
    /\ UNCHANGED <<streamVars, typ, out, short>>

\* The rest of a value that a Read did not fill: the zeros make put there.
Padded(bytes, n) == [i \in 1..n |-> IF i \in DOMAIN bytes THEN bytes[i] ELSE 0]

\* One Read into the size bytes allocated for the value: it returns as soon as
\* there is something, and decode takes that for the value. A Read of no bytes
\* returns at once.
ReadPayload ==
    /\ pc = "payload"
    /\ size = 0 \/ Available > 0
    /\ LET n == IF Available < size THEN Available ELSE size
       IN /\ pos' = pos + n
          /\ out' = Append(out, [typ |-> typ,
                                 value |-> Padded(SubSeq(stream, pos + 1, pos + n), size)])
          /\ short' = (short \/ n < size)
    /\ pc' = "type"
    /\ UNCHANGED <<streamVars, typ, size>>

ReadEOFRetried ==
    /\ pc = "type"
    /\ Available = 0
    /\ closed
    /\ pc' = "eof"
    /\ UNCHANGED <<streamVars, pos, typ, size, out, short>>

\* A Read at the end of the stream. It is the same io.EOF between two messages,
\* before the size and before the value.
ReadEOF ==
    /\ pc \in {"type", "size"} \/ (pc = "payload" /\ size > 0)
    /\ Available = 0
    /\ closed
    /\ pc' = "eof"
    /\ UNCHANGED <<streamVars, pos, typ, size, out, short>>

Decode == ReadType \/ ReadSize \/ ReadPayload \/ ReadEOF

Next == (\E m \in Messages : WriteTo(m)) \/ Arrive \/ Close \/ Decode

\* The receiver keeps calling decode; the sender closes in the end.
Spec == Init /\ [][Next]_vars /\ WF_vars(Decode) /\ WF_vars(Close)

-----------------------------------------------------------------------------
(* Properties                                                              *)

\* Every variable has its type, and no value is larger than MaxPayloadSize,
\* even when the bytes of a value are taken for a header.
TypeOK ==
    /\ messages \in Seq(Messages) /\ Len(messages) <= MaxMessages
    /\ stream \in Seq(Element)
    /\ starts \in Seq(Nat)
    /\ arrived \in 0..Len(stream)
    /\ closed \in BOOLEAN
    /\ pos \in 0..arrived
    /\ pc \in {"type", "size", "payload", "eof", "unknown", "refused"}
    /\ typ \in Nat /\ size \in Nat
    /\ out \in Seq([typ : Types, value : BoundedSeq(Element, MaxPayloadSize)])
    /\ short \in BOOLEAN

\* As long as every Read was filled, decode has returned the messages that were
\* written, in order, and the next read starts at the boundary of a message.
InSyncUntilShortRead ==
    ~short =>
        /\ IsPrefix(out, messages)
        /\ pc = "type" => pos = starts[Len(out) + 1]

\* As long as every Read was filled, decode stops for a good reason only: it
\* reports the end although more was written only if the next message was cut
\* off, it refuses only a message that is too large, and knows every type.
StopsForAReason ==
    ~short =>
        /\ pc = "eof" /\ Len(out) < Len(messages) => arrived < starts[Len(out) + 2]
        /\ pc = "refused" =>
              /\ Len(out) < Len(messages)
              /\ Len(messages[Len(out) + 1].value) > MaxPayloadSize
        /\ pc # "unknown"

\* The invariants above are not inductive; these are (TlvProofs). What the stream
\* is made of, message by message.
Laid(m, s, n) ==
    /\ n + 2 + Len(m.value) <= Len(s)
    /\ s[n + 1] = m.typ
    /\ s[n + 2] = Len(m.value)
    /\ \A k \in DOMAIN m.value : s[n + 2 + k] = m.value[k]

MessageAt(i) ==
    /\ Laid(messages[i], stream, starts[i])
    /\ starts[i + 1] = starts[i] + 2 + Len(messages[i].value)

StreamInv ==
    /\ Len(starts) = Len(messages) + 1
    /\ starts[1] = 0
    /\ starts[Len(messages) + 1] = Len(stream)
    /\ \A i \in DOMAIN messages : MessageAt(i)

\* A header being decoded is one decode knows and accepts.
HeaderInv ==
    /\ pc \in {"size", "payload"} => typ \in Types
    /\ pc = "payload" => size \in 0..MaxPayloadSize

\* Where decode is within the next message, as long as every Read was filled.
StepInv ==
    LET i == Len(out) + 1
        m == messages[i]
    IN ~short =>
        /\ pc # "unknown"
        /\ Len(out) <= Len(messages) /\ \A k \in DOMAIN out : out[k] = messages[k]
        /\ pc = "type" => pos = starts[i]
        /\ pc \in {"size", "payload", "refused"} => i \in DOMAIN messages
        /\ pc = "size" => pos = starts[i] + 1 /\ typ = m.typ
        /\ pc = "payload" => pos = starts[i] + 2 /\ typ = m.typ /\ size = Len(m.value)
        /\ pc = "refused" => Len(m.value) > MaxPayloadSize
        /\ pc = "eof" => closed /\ (i \in DOMAIN messages => arrived < starts[i + 1])

TlvInv == TypeOK /\ StreamInv /\ HeaderInv /\ StepInv

\* Whatever the bytes are taken for, the receiver is never left waiting after
\* the sender has closed: decode returns an end or an error.
DecodingEnds == <>(pc \in {"eof", "unknown", "refused"})

\* "expected" and "actual" of types_test.go: the i-th payload decoded is the
\* i-th payload written.
DecodedIsSent ==
    \A i \in DOMAIN out : i \in DOMAIN messages /\ out[i] = messages[i]
=============================================================================
