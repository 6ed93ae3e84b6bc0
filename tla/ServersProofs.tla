---------------------------- MODULE ServersProofs ----------------------------
(***************************************************************************)
(* What the network services keep to, for any clients, any services among  *)
(* Kinds, any buffer capacity and any number of units: the types, echoes   *)
(* that are the client's own data, the decision about a peer and what is   *)
(* reported about the start and the end.                                   *)
(***************************************************************************)
EXTENDS Servers, SequenceTheorems, TLAPS

-----------------------------------------------------------------------------
(* The steps, by what they do to the connections                           *)

\* The step does not begin or end an answer of a receive loop, nor start it again.
Settled ==
    /\ UNCHANGED <<loop, cur>> \/ (loop # "write" /\ loop' # "write")
    /\ Kind \in Datagrams /\ loop = "end" => loop' = "end"

\* Starts, ends, notices, decisions.
Quiet ==
    /\ Settled /\ UNCHANGED <<service, wires, peer, sent, got, copies>>
    /\ told' \in [Clients -> {"nothing", "welcome", "denied"}]
    /\ sock' = "closed" <=> sock = "closed"

\* Connections of a service that has some are closed.
Closes ==
    /\ Settled /\ Kind \notin Datagrams
    /\ \E S : CloseConns(S)
    /\ told' \in [Clients -> {"nothing", "welcome", "denied"}]
    /\ UNCHANGED <<peer, sent, got, copies>>

\* A connection is accepted, by a service that has a handler for it or not.
Accepts ==
    \E c \in Clients :
        /\ Settled /\ Kind \notin Datagrams
        /\ conn[c] = "queued"
        /\ conn' = [conn EXCEPT ![c] = "open"]
        /\ \/ handler' = handler
           \/ handler[c] # "write" /\ handler' = [handler EXCEPT ![c] = "read"]
        /\ UNCHANGED <<held, wires, clients>>

\* The socket of a datagram service is closed with what nobody has read.
Drops ==
    /\ Kind \in Datagrams /\ sock' = "closed"
    /\ inbox' = [c \in Clients |-> <<>>]
    /\ UNCHANGED <<loop, cur, service, outbox, clients>>

\* The receive loop ends without an answer.
GivesUp ==
    /\ Kind \in Datagrams /\ loop \in {"read", "write"} /\ UNCHANGED <<sock, wires>>
    /\ EndReceiving

Handles(c) == Kind \notin Datagrams /\ (Read(c) \/ Write(c))

Steps ==
    \/ Quiet \/ Closes \/ Accepts \/ Drops \/ GivesUp \/ WriteTo
    \/ \E c \in Clients : Handles(c) \/ ReadFrom(c) \/ Client(c)

\* What a connected client does is seen in Steps as such, and so is a handler's
\* Read and Write.
LEMMA ServeSteps ==
    ASSUME TypeOK, LoopInv, NEW c \in Clients, Serve(c), Kind \notin Datagrams
    PROVE  Steps /\ setup' = setup
<1>1. CASE Read(c)
  BY <1>1 DEF Steps, Handles, Read, ReadInto
<1>2. CASE Write(c)
  BY <1>2 DEF Steps, Handles, Write
<1>3. CASE ReadFails(c) \/ WriteFails(c)
  <2>1. Settled /\ told' = told /\ CloseConns({c}) /\ setup' = setup /\ UNCHANGED <<peer, sent, got, copies>>
    BY <1>3 DEF ReadFails, WriteFails, Settled, life, clients
  <2> QED
    BY <2>1 DEF Steps, Closes, TypeOK, ConnOK
<1> QED
  BY <1>1, <1>2, <1>3 DEF Serve

\* A step of closing, by any of those who do it.
LEMMA ClosingSteps ==
    ASSUME TypeOK, NEW S, CloseConns(S), Kind \notin Datagrams, Settled,
           UNCHANGED <<setup, clients>>
    PROVE  Steps
  BY DEF Steps, Closes, TypeOK, ConnOK, clients

\* A step that leaves the connections alone.
LEMMA QuietSteps ==
    ASSUME TypeOK, Settled, UNCHANGED <<service, wires, clients>>,
           sock' = "closed" <=> sock = "closed"
    PROVE  Steps
  BY DEF Steps, Quiet, TypeOK, ConnOK, clients

\* The steps of the loops of the stream services.
LEMMA StreamSteps ==
    ASSUME TypeOK, LoopInv, StreamingEchoServer \/ ListenAndServeTLS \/ AcceptFails
    PROVE  Steps /\ setup' = setup
<1> USE DEF service, wires, clients, Settled, Only, Streams, Datagrams
<1>1. ASSUME NEW l \in {"accept", "load"}, Bind(l), loop = "start"
      PROVE  Steps /\ setup' = setup
  <2>1. sock # "closed" /\ sock' = "bound" /\ setup' = setup /\ loop' = l /\ UNCHANGED <<service, wires, clients>>
    BY <1>1 DEF Bind, LoopInv, PlaceInv, AbsentInv
  <2> QED
    BY <1>1, <2>1, QuietSteps
<1>2. ASSUME BindFails, loop = "start"
      PROVE  Steps /\ setup' = setup
  BY <1>2, QuietSteps DEF BindFails
<1>3. ASSUME LoadKeyPair
      PROVE  Steps /\ setup' = setup
  BY <1>3, QuietSteps DEF LoadKeyPair, LoadsKeyPair, LoadFails
<1>4. ASSUME AcceptClosed \/ AcceptFails
      PROVE  Steps /\ setup' = setup
  BY <1>4, QuietSteps DEF AcceptClosed, AcceptFails, EndAccepting
<1>5. ASSUME NEW c \in Clients, Accept(c)
      PROVE  Steps /\ setup' = setup
  BY <1>5 DEF Accept, Steps, Accepts, life, LoopInv, PlaceInv, AbsentInv
<1> QED
  BY <1>1, <1>2, <1>3, <1>4, <1>5
     DEF StreamingEchoServer, StartStream, ListenAndServeTLS, Listen, AcceptLoop

\* The steps of the receive loops and of their watchers.
LEMMA DatagramSteps ==
    ASSUME TypeOK, LoopInv,
           EchoServerUDP \/ DatagramEchoServer \/ CloseUDP \/ CloseUnixgram \/ WriteToRefused
    PROVE  Steps /\ setup' = setup
<1> USE DEF service, wires, clients, Settled, Only, Datagrams
<1>1. ASSUME Bind("read"), loop = "start"
      PROVE  Steps /\ setup' = setup
  <2>1. sock # "closed" /\ sock' = "bound" /\ setup' = setup /\ loop' = "read" /\ UNCHANGED <<service, wires, clients>>
    BY <1>1 DEF Bind, LoopInv, PlaceInv, AbsentInv
  <2> QED
    BY <1>1, <2>1, QuietSteps
<1>2. ASSUME BindFails, loop = "start"
      PROVE  Steps /\ setup' = setup
  BY <1>2, QuietSteps DEF BindFails
<1>3. ASSUME NEW c \in Clients, ReadFrom(c)
      PROVE  Steps /\ setup' = setup
  BY <1>3 DEF ReadFrom, Steps
<1>4. ASSUME ReadFromClosed \/ WriteToFails \/ WriteToRefused
      PROVE  Steps /\ setup' = setup
  BY <1>4 DEF ReadFromClosed, WriteToFails, WriteToRefused, Steps, GivesUp, EndReceiving
<1>5. ASSUME WriteTo
      PROVE  Steps /\ setup' = setup
  BY <1>5 DEF WriteTo, Steps
<1>6. ASSUME CloseUDP \/ CloseUnixgram
      PROVE  Steps /\ setup' = setup
  BY <1>6 DEF CloseUDP, CloseUnixgram, Steps, Drops
<1> QED
  BY <1>1, <1>2, <1>3, <1>4, <1>5, <1>6
     DEF EchoServerUDP, DatagramEchoServer, StartUDP, StartUnixgram, ReceiveLoop

\* The steps of the peer credentials service.
LEMMA CredsSteps ==
    ASSUME TypeOK, LoopInv,
           CredsMain \/ CloseOnSignal \/ InterruptCreds \/ AcceptUnixFails
    PROVE  Steps /\ setup' = setup
<1> USE DEF service, wires, clients, Settled, Datagrams, Creds, LoopInv, PlaceInv, AbsentInv
<1>1. ASSUME ListenUnix
      PROVE  Steps /\ setup' = setup
  BY <1>1, ClosingSteps, QuietSteps DEF ListenUnix, ProcessEnds
<1>2. ASSUME Notify \/ Check
      PROVE  Steps /\ setup' = setup
  BY <1>2, QuietSteps DEF Notify, Check
<1>3. ASSUME CloseOnSignal
      PROVE  Steps /\ setup' = setup
  BY <1>3, ClosingSteps DEF CloseOnSignal, CloseListener
<1>4. ASSUME NEW c \in Clients, AcceptUnix(c)
      PROVE  Steps /\ setup' = setup
  BY <1>4 DEF AcceptUnix, Steps, Accepts
<1>5. ASSUME AcceptUnixClosed \/ AcceptUnixFails
      PROVE  Steps /\ setup' = setup
  BY <1>5, ClosingSteps DEF AcceptUnixClosed, AcceptUnixFails, ProcessEnds
<1>6. ASSUME Welcome
      PROVE  Steps /\ setup' = setup
  BY <1>6 DEF Welcome, Steps, Quiet, TypeOK, ConnOK
<1>7. ASSUME Deny
      PROVE  Steps /\ setup' = setup
  BY <1>7 DEF Deny, Steps, Closes, TypeOK, ConnOK
<1>8. ASSUME InterruptCreds
      PROVE  Steps /\ setup' = setup
  BY <1>8, ClosingSteps, QuietSteps DEF InterruptCreds, ProcessEnds
<1> QED
  BY <1>1, <1>2, <1>3, <1>4, <1>5, <1>6, <1>7, <1>8 DEF CredsMain

\* The steps of the HTTP servers.
LEMMA HttpSteps ==
    ASSUME TypeOK, LoopInv, Run \/ NotifyHttp \/ CloseServer \/ InterruptHttp
    PROVE  Steps /\ setup' = setup
<1> USE DEF service, wires, clients, Settled, Datagrams, Http, LoopInv, PlaceInv, AbsentInv
<1>1. ASSUME ListenAfterClose \/ ListenFails \/ ServerClosed
      PROVE  Steps /\ setup' = setup
  BY <1>1, ClosingSteps DEF ListenAfterClose, ListenFails, ServerClosed, ProcessEnds
<1>2. ASSUME ListenAndServe \/ NotifyHttp
      PROVE  Steps /\ setup' = setup
  BY <1>2, QuietSteps DEF ListenAndServe, NotifyHttp
<1>3. ASSUME NEW c \in Clients, AcceptHttp(c)
      PROVE  Steps /\ setup' = setup
  BY <1>3 DEF AcceptHttp, Steps, Accepts, life
<1>4. ASSUME CloseServer
      PROVE  Steps /\ setup' = setup
  BY <1>4, ClosingSteps DEF CloseServer
<1>5. ASSUME InterruptHttp
      PROVE  Steps /\ setup' = setup
  BY <1>5, ClosingSteps, QuietSteps DEF InterruptHttp, ProcessEnds
<1> QED
  BY <1>1, <1>2, <1>3, <1>4, <1>5 DEF Run

\* The steps that belong to one connection, and the rest.
LEMMA HandlerSteps ==
    ASSUME TypeOK, LoopInv, NEW c \in Clients, Handler(c) \/ Idle(c) \/ Timeout(c)
    PROVE  Steps /\ setup' = setup
<1> USE DEF clients, life, Settled, Only, Datagrams, Http
<1>1. ASSUME Serve(c), Kind \notin Datagrams
      PROVE  Steps /\ setup' = setup
  BY <1>1, ServeSteps
<1>2. ASSUME NotTLS(c) \/ Idle(c) \/ Timeout(c), Kind \notin Datagrams
      PROVE  Steps /\ setup' = setup
  BY <1>2, ClosingSteps DEF NotTLS, Idle, Timeout
<1> QED
  BY <1>1, <1>2 DEF Handler, StreamConn, TlsConn, HttpConn, Idle, Timeout

LEMMA OtherSteps ==
    ASSUME TypeOK, LoopInv,
           \/ CloseOnDone \/ Remove \/ Ready \/ Cancel
           \/ \E c \in Clients : Client(c)
           \/ UNCHANGED vars
    PROVE  Steps /\ setup' = setup
<1> USE DEF service, wires, clients, Settled, life, readiness
<1>1. CASE CloseOnDone
  BY <1>1, ClosingSteps DEF CloseOnDone, CloseListener, Only, Streams, Datagrams
<1>2. CASE Remove \/ Ready \/ Cancel \/ UNCHANGED vars
  BY <1>2, QuietSteps DEF Remove, Ready, Cancel, vars
<1>3. CASE \E c \in Clients : Client(c)
  <2>1. setup' = setup
    BY <1>3 DEF Client, Connect, Send, Receive, Finish, Leave, Lose, Duplicate
  <2> QED
    BY <1>3, <2>1 DEF Steps
<1> QED
  BY <1>1, <1>2, <1>3

\* Every step is one of Steps, and the service stays what it is.
LEMMA StepsOfNext ==
    ASSUME TypeOK, LoopInv, [Next]_vars
    PROVE  Steps /\ setup' = setup
  BY StreamSteps, DatagramSteps, CredsSteps, HttpSteps, HandlerSteps, OtherSteps
     DEF Next, Loop, Watcher, Environment

-----------------------------------------------------------------------------
(* Types                                                                   *)

LEMMA MembershipIsBoolean ==
    ASSUME NEW b, NEW x, NEW S, b = (x \in S)
    PROVE  b \in BOOLEAN
  OBVIOUS

LEMMA BindTypes ==
    ASSUME LifeOK, NEW l \in {"accept", "load", "read"}, Bind(l), result' = result \/ result' = "address"
    PROVE  LifeOK'
<1>1. file' = (Kind \in HasFile)
  BY DEF Bind
<1>2. file' \in BOOLEAN
  BY <1>1, MembershipIsBoolean
<1>3. /\ sock' = "bound" /\ watcher' = (IF ctx = "nil" THEN "off" ELSE "waiting") /\ loop' = l
      /\ UNCHANGED <<setup, ctx, cur, ready, waiter>>
  BY DEF Bind, readiness
<1> QED
  BY <1>2, <1>3 DEF LifeOK

\* The loops, watchers and reports have their types, whoever takes the step.
LEMMA LifeTypes ==
    ASSUME TypeOK, LoopInv, [Next]_vars
    PROVE  LifeOK'
<1> USE DEF LifeOK
<1>0. LifeOK
  BY DEF TypeOK
<1>1. CASE StreamingEchoServer \/ ListenAndServeTLS \/ AcceptFails
  <2>1. CASE StartStream \/ Listen
    BY <1>0, <2>1, BindTypes DEF StartStream, Listen, BindFails, readiness
  <2>2. CASE LoadKeyPair
    BY <1>0, <2>2 DEF LoadKeyPair, LoadsKeyPair, LoadFails, CloseReady
  <2>3. CASE AcceptClosed \/ AcceptFails
    BY <1>0, <2>3 DEF AcceptClosed, AcceptFails, EndAccepting, readiness
  <2>4. ASSUME NEW c \in Clients, Accept(c)
        PROVE  LifeOK'
    BY <1>0, <2>4 DEF Accept, life, readiness
  <2> QED
    BY <1>1, <2>1, <2>2, <2>3, <2>4
       DEF StreamingEchoServer, ListenAndServeTLS, AcceptLoop
<1>2. CASE EchoServerUDP \/ DatagramEchoServer \/ CloseUDP \/ CloseUnixgram \/ WriteToRefused
  <2>1. CASE StartUDP \/ StartUnixgram
    BY <1>0, <2>1, BindTypes DEF StartUDP, StartUnixgram, BindFails, readiness
  <2>2. ASSUME NEW c \in Clients, ReadFrom(c)
        PROVE  LifeOK'
    <3>1. cur' = c /\ loop' = "write"
      BY <2>2 DEF ReadFrom
    <3>2. UNCHANGED <<setup, ctx, sock, file, watcher, result, ready, waiter>>
      BY <2>2 DEF ReadFrom, readiness
    <3> QED
      BY <1>0, <3>1, <3>2
  <2>3. CASE ReadFromClosed \/ WriteTo \/ WriteToFails \/ WriteToRefused
    BY <1>0, <2>3 DEF ReadFromClosed, WriteTo, WriteToFails, WriteToRefused,
       EndReceiving, readiness
  <2>4. CASE CloseUDP \/ CloseUnixgram
    BY <1>0, <2>4 DEF CloseUDP, CloseUnixgram, readiness
  <2> QED
    BY <1>2, <2>1, <2>2, <2>3, <2>4 DEF EchoServerUDP, DatagramEchoServer, ReceiveLoop
<1>3. CASE CredsMain \/ CloseOnSignal \/ InterruptCreds \/ AcceptUnixFails
  <2>1. CASE ListenUnix \/ Notify
    BY <1>0, <2>1 DEF ListenUnix, Notify, ProcessEnds, readiness
  <2>2. ASSUME NEW c \in Clients, AcceptUnix(c)
        PROVE  LifeOK'
    BY <1>0, <2>2 DEF AcceptUnix, readiness
  <2>3. CASE Check \/ Welcome \/ Deny
    BY <1>0, <2>3 DEF Check, Welcome, Deny, readiness
  <2>4. CASE AcceptUnixClosed \/ AcceptUnixFails \/ CloseOnSignal \/ InterruptCreds
    BY <1>0, <2>4 DEF AcceptUnixClosed, AcceptUnixFails, CloseOnSignal, InterruptCreds,
       ProcessEnds, CloseListener, readiness
  <2> QED
    BY <1>3, <2>1, <2>2, <2>3, <2>4 DEF CredsMain
<1>4. CASE Run \/ NotifyHttp \/ CloseServer \/ InterruptHttp
  BY <1>0, <1>4 DEF Run, ListenAfterClose, ListenFails, ListenAndServe, ServerClosed, AcceptHttp,
     NotifyHttp, CloseServer, InterruptHttp, ProcessEnds, life, readiness
<1>5. ASSUME NEW c \in Clients, Handler(c) \/ Idle(c) \/ Timeout(c) \/ Client(c)
      PROVE  LifeOK'
  BY <1>0, <1>5 DEF Handler, StreamConn, TlsConn, HttpConn, Serve, Read, ReadInto, ReadFails,
     Write, WriteFails, NotTLS, Idle, Timeout, Client, Connect, Send, Receive, Finish, Leave,
     Lose, Duplicate, life, readiness
<1>6. CASE CloseOnDone \/ Remove \/ Ready \/ Cancel \/ UNCHANGED vars
  BY <1>0, <1>6 DEF CloseOnDone, Remove, Ready, Cancel, CloseListener, vars, life, readiness
<1> QED
  BY <1>1, <1>2, <1>3, <1>4, <1>5, <1>6 DEF Next, Loop, Watcher, Environment

\* What closing connections does to each of them.
LEMMA Closed ==
    ASSUME ConnOK, NEW S, CloseConns(S)
    PROVE  /\ conn' \in [Clients -> {"none", "queued", "open", "closed"}]
           /\ handler' \in [Clients -> {"off", "read", "write", "end"}]
           /\ held' \in [Clients -> {Nothing} \union Units]
           /\ inbox' \in [Clients -> Seq(Units)] /\ outbox' \in [Clients -> Seq(Units)]
           /\ \A c \in Clients :
                  /\ c \in S => /\ conn'[c] = "closed" /\ held'[c] = Nothing /\ inbox'[c] = <<>>
                                /\ handler'[c] = IF handler[c] = "off" THEN "off" ELSE "end"
                  /\ c \notin S => /\ conn'[c] = conn[c] /\ held'[c] = held[c]
                                   /\ handler'[c] = handler[c]
                                   /\ inbox'[c] = inbox[c] /\ outbox'[c] = outbox[c]
                  /\ Len(outbox'[c]) <= Len(outbox[c])
                  /\ \A i \in 1..Len(outbox'[c]) : outbox'[c][i] = outbox[c][i]
<1>1. conn' \in [Clients -> {"none", "queued", "open", "closed"}]
  BY DEF CloseConns, ConnOK
<1>2. handler' \in [Clients -> {"off", "read", "write", "end"}]
  BY DEF CloseConns, ConnOK
<1>3. held' \in [Clients -> {Nothing} \union Units]
  BY DEF CloseConns, ConnOK
<1>4. inbox' \in [Clients -> Seq(Units)]
  BY DEF CloseConns, ConnOK
<1>5. PICK kept \in [Clients -> 0..Capacity] :
          /\ \A c \in Clients :
                 /\ kept[c] <= Len(outbox[c])
                 /\ c \notin S \/ inbox[c] = <<>> => kept[c] = Len(outbox[c])
          /\ outbox' = [c \in Clients |-> SubSeq(outbox[c], 1, kept[c])]
  BY DEF CloseConns
<1>6. ASSUME NEW c \in Clients
      PROVE  /\ SubSeq(outbox[c], 1, kept[c]) \in Seq(Units)
             /\ Len(SubSeq(outbox[c], 1, kept[c])) = kept[c]
             /\ \A i \in 1..kept[c] : SubSeq(outbox[c], 1, kept[c])[i] = outbox[c][i]
             /\ c \notin S => SubSeq(outbox[c], 1, kept[c]) = outbox[c]
  <2>1. outbox[c] \in Seq(Units) /\ kept[c] \in Nat /\ kept[c] <= Len(outbox[c])
        /\ (c \notin S => kept[c] = Len(outbox[c]))
    BY <1>5, SocketsAssumption DEF ConnOK
  <2>2. \A i \in 1..kept[c] : outbox[c][i] \in Units
    BY <2>1
  <2>3. /\ SubSeq(outbox[c], 1, kept[c]) \in Seq(Units)
        /\ Len(SubSeq(outbox[c], 1, kept[c])) = kept[c]
        /\ \A i \in 1..kept[c] : SubSeq(outbox[c], 1, kept[c])[i] = outbox[c][i]
    BY <2>1, <2>2, SubSeqProperties
  <2> QED
    BY <2>1, <2>3, SubSeqFull
<1>7. outbox' \in [Clients -> Seq(Units)]
  BY <1>5, <1>6
<1> QED
  BY <1>1, <1>2, <1>3, <1>4, <1>5, <1>6, <1>7 DEF CloseConns, ConnOK

\* What a step leaves as it is keeps its types, as does what it closes.
LEMMA QuietTypes ==
    ASSUME TypeOK, LoopInv, Quiet, setup' = setup
    PROVE  ConnOK'
  BY DEF TypeOK, ConnOK, Quiet, Settled, Units, service, wires, LoopInv, PlaceInv, AbsentInv

LEMMA ClosesTypes ==
    ASSUME TypeOK, LoopInv, Closes, setup' = setup
    PROVE  ConnOK'
<1>1. PICK S : CloseConns(S)
  BY DEF Closes
<1>2. Units' = Units
  BY DEF Units
<1>3. ASSUME NEW c \in Clients
      PROVE  /\ Len(inbox'[c]) <= Capacity /\ Len(outbox'[c]) <= Capacity
             /\ held'[c] # Nothing <=> handler'[c] = "write" \/ (loop' = "write" /\ cur' = c)
  <2>1. loop # "write" /\ loop' # "write"
    BY DEF Closes, Settled, LoopInv, PlaceInv, AbsentInv
  <2>2. Len(inbox'[c]) <= Capacity
    BY <1>1, Closed, SocketsAssumption DEF TypeOK, ConnOK
  <2>3. Len(outbox'[c]) <= Capacity
    <3>1. Len(outbox[c]) \in Nat /\ Len(outbox'[c]) \in Nat
      BY <1>1, Closed DEF TypeOK, ConnOK
    <3> QED
      BY <1>1, <3>1, Closed, SocketsAssumption DEF TypeOK, ConnOK
  <2>4. held[c] # Nothing <=> handler[c] = "write"
    BY <2>1 DEF TypeOK, ConnOK
  <2>5. \/ held'[c] = Nothing /\ handler'[c] # "write"
        \/ held'[c] = held[c] /\ handler'[c] = handler[c]
    BY <1>1, Closed DEF TypeOK
  <2> QED
    BY <2>1, <2>2, <2>3, <2>4, <2>5
<1> QED
  BY <1>1, <1>2, <1>3, Closed DEF TypeOK, ConnOK, Closes

LEMMA AcceptsTypes ==
    ASSUME TypeOK, LoopInv, Accepts, setup' = setup
    PROVE  ConnOK'
<1>1. Units' = Units
  BY DEF Units
<1>2. PICK c \in Clients :
          /\ Settled /\ Kind \notin Datagrams
          /\ conn' = [conn EXCEPT ![c] = "open"]
          /\ handler' = handler \/ (handler[c] # "write" /\ handler' = [handler EXCEPT ![c] = "read"])
  BY DEF Accepts
<1>3. loop # "write" /\ loop' # "write"
  BY <1>2 DEF Settled, LoopInv, PlaceInv, AbsentInv
<1>4. UNCHANGED <<held, inbox, outbox, peer, told, sent, got, copies>>
  BY DEF Accepts, wires, clients
<1>5. conn' \in [Clients -> {"none", "queued", "open", "closed"}]
  BY <1>2 DEF TypeOK, ConnOK
<1>6. /\ handler' \in [Clients -> {"off", "read", "write", "end"}]
      /\ \A d \in Clients : handler'[d] = "write" <=> handler[d] = "write"
  BY <1>2 DEF TypeOK, ConnOK
<1> QED
  BY <1>1, <1>3, <1>4, <1>5, <1>6 DEF TypeOK, ConnOK

LEMMA DropsTypes ==
    ASSUME TypeOK, LoopInv, Drops, setup' = setup
    PROVE  ConnOK'
<1>1. Units' = Units
  BY DEF Units
<1>2. inbox' \in [Clients -> Seq(Units)] /\ \A c \in Clients : Len(inbox'[c]) <= Capacity
  BY SocketsAssumption DEF Drops
<1> QED
  BY <1>1, <1>2 DEF TypeOK, ConnOK, Drops, service, clients

\* A datagram service has no handler, so only the loop holds a unit.
LEMMA NobodyHolds ==
    ASSUME TypeOK, LoopInv, Kind \in Datagrams, held' = [c \in Clients |-> Nothing],
           handler' = handler, loop' # "write"
    PROVE  /\ held' \in [Clients -> {Nothing} \union Units]
           /\ \A c \in Clients :
                  held'[c] # Nothing <=> handler'[c] = "write" \/ (loop' = "write" /\ cur' = c)
  BY DEF TypeOK, ConnOK, LoopInv, PlaceInv, AbsentInv

LEMMA GivesUpTypes ==
    ASSUME TypeOK, LoopInv, GivesUp, setup' = setup
    PROVE  ConnOK'
<1>1. Units' = Units
  BY DEF Units
<1>2. /\ held' = [c \in Clients |-> Nothing] /\ handler' = handler /\ loop' # "write"
      /\ Kind \in Datagrams
  BY DEF GivesUp, EndReceiving
<1> QED
  BY <1>1, <1>2, NobodyHolds DEF TypeOK, ConnOK, GivesUp, EndReceiving, wires, clients

LEMMA WriteToTypes ==
    ASSUME TypeOK, LoopInv, WriteTo, setup' = setup
    PROVE  ConnOK'
<1>1. Units' = Units
  BY DEF Units
<1>2. /\ held' = [c \in Clients |-> Nothing] /\ handler' = handler /\ loop' # "write"
      /\ Kind \in Datagrams /\ cur \in Clients
  BY DEF WriteTo, LoopInv, PlaceInv, AbsentInv, Only
<1>3. held[cur] \in Units
  BY <1>2 DEF WriteTo, TypeOK, ConnOK
<1>4. outbox' \in [Clients -> Seq(Units)] /\ \A c \in Clients : Len(outbox'[c]) <= Capacity
  <2>1. CASE UNCHANGED outbox
    BY <2>1 DEF TypeOK, ConnOK
  <2>2. CASE Len(outbox[cur]) < Capacity /\ outbox' = [outbox EXCEPT ![cur] = Append(@, held[cur])]
    <3>1. Append(outbox[cur], held[cur]) \in Seq(Units)
          /\ Len(Append(outbox[cur], held[cur])) = Len(outbox[cur]) + 1
      BY <1>2, <1>3, AppendProperties DEF TypeOK, ConnOK
    <3> QED
      BY <1>2, <2>2, <3>1, SocketsAssumption DEF TypeOK, ConnOK
  <2> QED
    BY <2>1, <2>2 DEF WriteTo
<1> QED
  BY <1>1, <1>2, <1>4, NobodyHolds DEF TypeOK, ConnOK, WriteTo, clients

\* What Read takes out of the inbox.
LEMMA Taken ==
    ASSUME ConnOK, NEW c \in Clients, inbox[c] # <<>>
    PROVE  /\ Head(inbox[c]) \in Units /\ Head(inbox[c]) = inbox[c][1]
           /\ Tail(inbox[c]) \in Seq(Units) /\ Len(Tail(inbox[c])) = Len(inbox[c]) - 1
           /\ \A i \in 1..Len(Tail(inbox[c])) : Tail(inbox[c])[i] = inbox[c][i + 1]
           /\ Len(inbox[c]) >= 1
<1>1. inbox[c] \in Seq(Units)
  BY DEF ConnOK
<1>2. Len(inbox[c]) >= 1
  BY <1>1
<1> QED
  BY <1>1, <1>2, HeadTailProperties

\* A unit is not Nothing.
LEMMA UnitIsSomething == ASSUME NEW u \in Units PROVE u # Nothing
  BY DEF Units, Nothing

LEMMA HandlesTypes ==
    ASSUME TypeOK, LoopInv, NEW c \in Clients, Handles(c), setup' = setup
    PROVE  ConnOK'
<1>1. Units' = Units /\ loop # "write"
  BY DEF Units, Handles, LoopInv, PlaceInv, AbsentInv
<1>2. CASE Read(c)
  <2>1. /\ held' = [b \in Clients |-> IF b \in {c} THEN Head(inbox[c]) ELSE held[b]]
        /\ inbox' = [inbox EXCEPT ![c] = Tail(@)]
        /\ handler' = [handler EXCEPT ![c] = "write"]
        /\ inbox[c] # <<>>
        /\ UNCHANGED <<loop, cur, conn, outbox, peer, told, sent, got, copies>>
    BY <1>2 DEF Read, ReadInto, life, clients
  <2>2. Head(inbox[c]) \in Units /\ Tail(inbox[c]) \in Seq(Units)
        /\ Len(Tail(inbox[c])) <= Capacity
    BY <2>1, Taken, SocketsAssumption DEF TypeOK, ConnOK
  <2>3. held' \in [Clients -> {Nothing} \union Units] /\ held'[c] # Nothing
    BY <2>1, <2>2, UnitIsSomething DEF TypeOK, ConnOK
  <2>4. /\ inbox' \in [Clients -> Seq(Units)]
        /\ \A b \in Clients : Len(inbox'[b]) <= Capacity
    BY <2>1, <2>2 DEF TypeOK, ConnOK
  <2>5. \A b \in Clients : held'[b] # Nothing <=> handler'[b] = "write"
    BY <1>1, <2>1, <2>3 DEF TypeOK, ConnOK
  <2>6. handler' \in [Clients -> {"off", "read", "write", "end"}]
    BY <2>1 DEF TypeOK, ConnOK
  <2> QED
    BY <1>1, <2>1, <2>3, <2>4, <2>5, <2>6 DEF TypeOK, ConnOK
<1>3. CASE Write(c)
  <2>1. /\ held' = [held EXCEPT ![c] = Nothing]
        /\ handler' = [handler EXCEPT ![c] = "read"] /\ handler[c] = "write"
        /\ UNCHANGED <<loop, cur, conn, inbox, peer, told, sent, got, copies>>
    BY <1>3 DEF Write, life, clients
  <2>2. held[c] \in Units
    BY <2>1 DEF TypeOK, ConnOK
  <2>3. outbox' \in [Clients -> Seq(Units)] /\ \A b \in Clients : Len(outbox'[b]) <= Capacity
    <3>1. CASE UNCHANGED outbox
      BY <3>1 DEF TypeOK, ConnOK
    <3>2. CASE Len(outbox[c]) < Capacity /\ outbox' = [outbox EXCEPT ![c] = Append(@, held[c])]
      <4>1. Append(outbox[c], held[c]) \in Seq(Units)
            /\ Len(Append(outbox[c], held[c])) = Len(outbox[c]) + 1
        BY <2>2, AppendProperties DEF TypeOK, ConnOK
      <4> QED
        BY <3>2, <4>1, SocketsAssumption DEF TypeOK, ConnOK
    <3> QED
      BY <1>3, <3>1, <3>2 DEF Write
  <2>4. held' \in [Clients -> {Nothing} \union Units]
        /\ handler' \in [Clients -> {"off", "read", "write", "end"}]
    BY <2>1 DEF TypeOK, ConnOK
  <2>5. \A b \in Clients : held'[b] # Nothing <=> handler'[b] = "write"
    BY <1>1, <2>1 DEF TypeOK, ConnOK
  <2> QED
    BY <1>1, <2>1, <2>3, <2>4, <2>5 DEF TypeOK, ConnOK
<1> QED
  BY <1>2, <1>3 DEF Handles

\* A sequence without its i-th element.
Cut(s, i) == SubSeq(s, 1, i - 1) \o SubSeq(s, i + 1, Len(s))

LEMMA CutProperties ==
    ASSUME NEW T, NEW s \in Seq(T), NEW i \in 1..Len(s)
    PROVE  /\ Cut(s, i) \in Seq(T) /\ Len(Cut(s, i)) = Len(s) - 1
           /\ \A j \in 1..(Len(s) - 1) :
                  Cut(s, i)[j] = IF j < i THEN s[j] ELSE s[j + 1]
<1> DEFINE a == SubSeq(s, 1, i - 1)
           b == SubSeq(s, i + 1, Len(s))
<1>1. /\ a \in Seq(T) /\ Len(a) = i - 1 /\ \A j \in 1..(i - 1) : a[j] = s[j]
  <2>1. \A j \in 1..(i - 1) : s[j] \in T
    OBVIOUS
  <2> QED
    BY <2>1, SubSeqProperties
<1>2. /\ b \in Seq(T) /\ Len(b) = Len(s) - i
      /\ \A j \in 1..(Len(s) - i) : b[j] = s[j + i]
  <2>1. \A j \in (i + 1)..Len(s) : s[j] \in T
    OBVIOUS
  <2>2. /\ b \in Seq(T) /\ Len(b) = IF i + 1 <= Len(s) THEN Len(s) - (i + 1) + 1 ELSE 0
        /\ \A j \in 1..(Len(s) - (i + 1) + 1) : b[j] = s[(i + 1) + j - 1]
    BY <2>1, SubSeqProperties
  <2> QED
    BY <2>2
<1> HIDE DEF a, b
<1>3. /\ a \o b \in Seq(T) /\ Len(a \o b) = Len(a) + Len(b)
      /\ \A j \in 1..(Len(a) + Len(b)) :
             (a \o b)[j] = IF j <= Len(a) THEN a[j] ELSE b[j - Len(a)]
  BY <1>1, <1>2, ConcatProperties
<1>4. Cut(s, i) = a \o b
  BY DEF Cut, a, b
<1>5. ASSUME NEW j \in 1..(Len(s) - 1)
      PROVE  (a \o b)[j] = IF j < i THEN s[j] ELSE s[j + 1]
  <2>1. (a \o b)[j] = IF j <= i - 1 THEN a[j] ELSE b[j - (i - 1)]
    BY <1>1, <1>2, <1>3
  <2>2. CASE j < i
    BY <1>1, <2>1, <2>2
  <2>3. CASE ~(j < i)
    <3>1. j - (i - 1) \in 1..(Len(s) - i) /\ (j - (i - 1)) + i = j + 1
      BY <2>3
    <3>2. b[j - (i - 1)] = s[(j - (i - 1)) + i]
      BY <1>2, <3>1, Zenon
    <3>3. (a \o b)[j] = b[j - (i - 1)]
      BY <2>1, <2>3
    <3>4. (a \o b)[j] = s[j + 1]
      BY <3>1, <3>2, <3>3, Zenon
    <3> QED
      BY <2>3, <3>4, Zenon
  <2> QED
    BY <2>2, <2>3
<1>6. Cut(s, i) \in Seq(T) /\ Len(Cut(s, i)) = Len(s) - 1
  <2>1. Len(a) + Len(b) = Len(s) - 1
    BY <1>1, <1>2
  <2>2. a \o b \in Seq(T) /\ Len(a \o b) = Len(s) - 1
    BY <1>3, <2>1
  <2> QED
    BY <1>4, <2>2
<1> QED
  BY <1>4, <1>5, <1>6

LEMMA ReadFromTypes ==
    ASSUME TypeOK, LoopInv, NEW c \in Clients, ReadFrom(c), setup' = setup
    PROVE  ConnOK'
<1>1. Units' = Units /\ loop = "read" /\ loop' = "write" /\ cur' = c /\ Kind \in Datagrams
  BY DEF Units, ReadFrom, Only
<1>2. PICK i \in DOMAIN inbox[c] :
          /\ held' = [held EXCEPT ![c] = inbox[c][i]]
          /\ inbox' = [inbox EXCEPT ![c] = SubSeq(@, 1, i - 1) \o SubSeq(@, i + 1, Len(@))]
  BY DEF ReadFrom
<1>3. inbox[c] \in Seq(Units) /\ i \in 1..Len(inbox[c]) /\ inbox[c][i] \in Units
  BY <1>2 DEF TypeOK, ConnOK
<1>4. inbox' = [inbox EXCEPT ![c] = Cut(inbox[c], i)]
  BY <1>2 DEF Cut
<1>5. Cut(inbox[c], i) \in Seq(Units) /\ Len(Cut(inbox[c], i)) = Len(inbox[c]) - 1
  BY <1>3, CutProperties
<1>6. inbox' \in [Clients -> Seq(Units)] /\ \A b \in Clients : Len(inbox'[b]) <= Capacity
  BY <1>3, <1>4, <1>5, SocketsAssumption DEF TypeOK, ConnOK
<1>7. held' \in [Clients -> {Nothing} \union Units] /\ held'[c] # Nothing
  BY <1>2, <1>3, UnitIsSomething DEF TypeOK, ConnOK
<1>8. \A b \in Clients : handler[b] # "write"
  BY <1>1 DEF LoopInv, PlaceInv, AbsentInv
<1>9. UNCHANGED <<conn, handler, outbox, peer, told, sent, got, copies>>
  BY DEF ReadFrom, clients
<1>10. \A b \in Clients :
          held'[b] # Nothing <=> handler'[b] = "write" \/ (loop' = "write" /\ cur' = b)
  BY <1>1, <1>2, <1>7, <1>8, <1>9 DEF TypeOK, ConnOK
<1> QED
  BY <1>1, <1>6, <1>7, <1>9, <1>10 DEF TypeOK, ConnOK

LEMMA ClientTypes ==
    ASSUME TypeOK, LoopInv, NEW c \in Clients, Client(c), setup' = setup
    PROVE  ConnOK'
<1>1. Units' = Units
  BY DEF Units
<1> USE DEF life, readiness, service, wires
<1>2. CASE Connect(c)
  BY <1>1, <1>2 DEF Connect, TypeOK, ConnOK
<1>3. CASE Send(c)
  <2>1. /\ inbox' = [inbox EXCEPT ![c] = Append(@, <<c, sent[c] + 1>>)]
        /\ sent' = [sent EXCEPT ![c] = @ + 1] /\ sent[c] < setup.units
        /\ Len(inbox[c]) < Capacity
        /\ UNCHANGED <<loop, cur, conn, handler, held, outbox, peer, told, got, copies>>
    BY <1>3 DEF Send
  <2>2. setup.units \in Nat /\ sent[c] + 1 \in 1..setup.units
    BY <2>1, SocketsAssumption DEF TypeOK, LifeOK, ConnOK
  <2>3. <<c, sent[c] + 1>> \in Units
    BY <2>2 DEF Units
  <2>4. Append(inbox[c], <<c, sent[c] + 1>>) \in Seq(Units)
        /\ Len(Append(inbox[c], <<c, sent[c] + 1>>)) = Len(inbox[c]) + 1
    BY <2>3, AppendProperties DEF TypeOK, ConnOK
  <2>5. inbox' \in [Clients -> Seq(Units)] /\ \A b \in Clients : Len(inbox'[b]) <= Capacity
    BY <2>1, <2>4, SocketsAssumption DEF TypeOK, ConnOK
  <2>6. sent' \in [Clients -> 0..setup'.units]
    BY <2>1, <2>2 DEF TypeOK, ConnOK
  <2> QED
    BY <1>1, <2>1, <2>5, <2>6 DEF TypeOK, ConnOK
<1>4. CASE Receive(c)
  <2>1. /\ outbox' = [outbox EXCEPT ![c] = Tail(@)] /\ outbox[c] # <<>>
        /\ got' = [got EXCEPT ![c] = Append(@, Head(outbox[c]))]
        /\ UNCHANGED <<loop, cur, conn, handler, held, inbox, peer, told, sent, copies>>
    BY <1>4 DEF Receive
  <2>2. /\ Tail(outbox[c]) \in Seq(Units) /\ Head(outbox[c]) \in Units
        /\ Len(Tail(outbox[c])) <= Capacity
    BY <2>1, HeadTailProperties, SocketsAssumption DEF TypeOK, ConnOK
  <2>3. outbox' \in [Clients -> Seq(Units)] /\ \A b \in Clients : Len(outbox'[b]) <= Capacity
    BY <2>1, <2>2 DEF TypeOK, ConnOK
  <2>4. Append(got[c], Head(outbox[c])) \in Seq(Units)
    BY <2>2, AppendProperties DEF TypeOK, ConnOK
  <2>5. got' \in [Clients -> Seq(Units)]
    BY <2>1, <2>4 DEF TypeOK, ConnOK
  <2> QED
    BY <1>1, <2>1, <2>3, <2>5 DEF TypeOK, ConnOK
<1>5. CASE Finish(c)
  BY <1>1, <1>5 DEF Finish, TypeOK, ConnOK
<1>6. CASE Leave(c)
  BY <1>1, <1>6, SocketsAssumption DEF Leave, TypeOK, ConnOK
<1>7. CASE Lose(c)
  <2>1. CASE inbox[c] # <<>> /\ inbox' = [inbox EXCEPT ![c] = Tail(@)] /\ UNCHANGED outbox
    <3>1. Tail(inbox[c]) \in Seq(Units) /\ Len(Tail(inbox[c])) <= Capacity
      BY <2>1, Taken, SocketsAssumption DEF TypeOK, ConnOK
    <3> QED
      BY <1>1, <1>7, <2>1, <3>1 DEF Lose, TypeOK, ConnOK, clients
  <2>2. CASE outbox[c] # <<>> /\ outbox' = [outbox EXCEPT ![c] = Tail(@)] /\ UNCHANGED inbox
    <3>1. Tail(outbox[c]) \in Seq(Units) /\ Len(Tail(outbox[c])) <= Capacity
      BY <2>2, HeadTailProperties, SocketsAssumption DEF TypeOK, ConnOK
    <3> QED
      BY <1>1, <1>7, <2>2, <3>1 DEF Lose, TypeOK, ConnOK, clients
  <2> QED
    BY <1>7, <2>1, <2>2 DEF Lose
<1>8. CASE Duplicate(c)
  <2>1. copies' \in [Clients -> 0..MaxCopies]
    <3>1. copies[c] \in 0..MaxCopies /\ copies[c] < MaxCopies /\ MaxCopies \in Nat
      BY <1>8, SocketsAssumption DEF Duplicate, TypeOK, ConnOK
    <3>2. copies[c] + 1 \in 0..MaxCopies /\ copies' = [copies EXCEPT ![c] = copies[c] + 1]
      BY <1>8, <3>1 DEF Duplicate
    <3> QED
      BY <3>2 DEF TypeOK, ConnOK
  <2>2. UNCHANGED <<loop, cur, conn, handler, held, peer, told, sent, got>>
    BY <1>8 DEF Duplicate
  <2>3. ASSUME NEW u \in Units, Len(inbox[c]) < Capacity, UNCHANGED outbox,
               inbox' = [inbox EXCEPT ![c] = Append(@, u)]
        PROVE  ConnOK'
    <3>1. Append(inbox[c], u) \in Seq(Units) /\ Len(Append(inbox[c], u)) = Len(inbox[c]) + 1
      BY AppendProperties DEF TypeOK, ConnOK
    <3>2. inbox' \in [Clients -> Seq(Units)] /\ \A b \in Clients : Len(inbox'[b]) <= Capacity
      BY <2>3, <3>1, SocketsAssumption DEF TypeOK, ConnOK
    <3> QED
      BY <1>1, <2>1, <2>2, <2>3, <3>2 DEF TypeOK, ConnOK
  <2>4. ASSUME NEW u \in Units, Len(outbox[c]) < Capacity, UNCHANGED inbox,
               outbox' = [outbox EXCEPT ![c] = Append(@, u)]
        PROVE  ConnOK'
    <3>1. Append(outbox[c], u) \in Seq(Units) /\ Len(Append(outbox[c], u)) = Len(outbox[c]) + 1
      BY AppendProperties DEF TypeOK, ConnOK
    <3>2. outbox' \in [Clients -> Seq(Units)] /\ \A b \in Clients : Len(outbox'[b]) <= Capacity
      BY <2>4, <3>1, SocketsAssumption DEF TypeOK, ConnOK
    <3> QED
      BY <1>1, <2>1, <2>2, <2>4, <3>2 DEF TypeOK, ConnOK
  <2>5. \A k \in 1..sent[c] : <<c, k>> \in Units
    <3>1. setup.units \in Nat /\ sent[c] \in 0..setup.units
      BY SocketsAssumption DEF TypeOK, LifeOK, ConnOK
    <3> QED
      BY <3>1 DEF Units
  <2>6. \A echoed \in {outbox[c], got[c]} : \A i \in DOMAIN echoed : echoed[i] \in Units
    <3>1. outbox[c] \in Seq(Units) /\ got[c] \in Seq(Units)
      BY DEF TypeOK, ConnOK
    <3> QED
      BY <3>1
  <2>7. CASE \E k \in 1..sent[c] : inbox' = [inbox EXCEPT ![c] = Append(@, <<c, k>>)]
    BY <1>8, <2>3, <2>4, <2>5, <2>6, <2>7 DEF Duplicate
  <2> QED
    BY <1>8, <2>3, <2>4, <2>5, <2>6, <2>7 DEF Duplicate
<1> QED
  BY <1>2, <1>3, <1>4, <1>5, <1>6, <1>7, <1>8 DEF Client

\* Every step keeps the types.
LEMMA TypesStep ==
    ASSUME TypeOK, LoopInv, [Next]_vars
    PROVE  TypeOK'
<1>1. setup' = setup /\ Steps
  BY StepsOfNext
<1>2. ConnOK'
  BY <1>1, QuietTypes, ClosesTypes, AcceptsTypes, DropsTypes, GivesUpTypes, WriteToTypes,
     HandlesTypes, ReadFromTypes, ClientTypes DEF Steps
<1> QED
  BY <1>2, LifeTypes DEF TypeOK

-----------------------------------------------------------------------------
(* Where the loop is, and who is absent                                    *)

LEMMA PlaceStep ==
    ASSUME TypeOK, LoopInv, [Next]_vars
    PROVE  PlaceInv'
<1> USE DEF PlaceInv, Kind, Creds, Http, Only
<1>0. PlaceInv /\ LifeOK
  BY DEF TypeOK, LoopInv
<1>1. CASE StreamingEchoServer \/ ListenAndServeTLS \/ AcceptFails
  <2>1. CASE StartStream \/ Listen
    BY <1>0, <2>1 DEF StartStream, Listen, Bind, BindFails
  <2>2. CASE LoadKeyPair
    BY <1>0, <2>2 DEF LoadKeyPair, LoadsKeyPair, LoadFails
  <2>3. CASE AcceptClosed \/ AcceptFails
    BY <1>0, <2>3 DEF AcceptClosed, AcceptFails, EndAccepting
  <2>4. ASSUME NEW c \in Clients, Accept(c)
        PROVE  PlaceInv'
    BY <1>0, <2>4 DEF Accept, life
  <2> QED
    BY <1>1, <2>1, <2>2, <2>3, <2>4
       DEF StreamingEchoServer, ListenAndServeTLS, AcceptLoop
<1>2. CASE EchoServerUDP \/ DatagramEchoServer \/ CloseUDP \/ CloseUnixgram \/ WriteToRefused
  <2>1. CASE StartUDP \/ StartUnixgram
    BY <1>0, <2>1 DEF StartUDP, StartUnixgram, Bind, BindFails
  <2>2. ASSUME NEW c \in Clients, ReadFrom(c)
        PROVE  PlaceInv'
    <3>1. cur' = c /\ loop' = "write" /\ Kind \in Datagrams /\ setup' = setup
      BY <2>2 DEF ReadFrom
    <3> QED
      BY <3>1
  <2>3. CASE ReadFromClosed \/ WriteTo \/ WriteToFails \/ WriteToRefused
    BY <1>0, <2>3 DEF ReadFromClosed, WriteTo, WriteToFails, WriteToRefused,
       EndReceiving
  <2>4. CASE CloseUDP \/ CloseUnixgram
    BY <1>0, <2>4 DEF CloseUDP, CloseUnixgram
  <2> QED
    BY <1>2, <2>1, <2>2, <2>3, <2>4 DEF EchoServerUDP, DatagramEchoServer, ReceiveLoop
<1>3. CASE CredsMain \/ CloseOnSignal \/ InterruptCreds \/ AcceptUnixFails
  <2>1. CASE ListenUnix \/ Notify
    BY <1>0, <2>1 DEF ListenUnix, Notify, ProcessEnds
  <2>2. ASSUME NEW c \in Clients, AcceptUnix(c)
        PROVE  PlaceInv'
    BY <1>0, <2>2 DEF AcceptUnix
  <2>3. CASE Check \/ Welcome \/ Deny
    BY <1>0, <2>3 DEF Check, Welcome, Deny
  <2>4. CASE AcceptUnixClosed \/ AcceptUnixFails \/ CloseOnSignal \/ InterruptCreds
    BY <1>0, <2>4 DEF AcceptUnixClosed, AcceptUnixFails, CloseOnSignal, InterruptCreds,
       ProcessEnds, CloseListener
  <2> QED
    BY <1>3, <2>1, <2>2, <2>3, <2>4 DEF CredsMain
<1>4. CASE Run \/ NotifyHttp \/ CloseServer \/ InterruptHttp
  BY <1>0, <1>4 DEF Run, ListenAfterClose, ListenFails, ListenAndServe, ServerClosed, AcceptHttp,
     NotifyHttp, CloseServer, InterruptHttp, ProcessEnds, life
<1>5. ASSUME NEW c \in Clients, Handler(c) \/ Idle(c) \/ Timeout(c) \/ Client(c)
      PROVE  PlaceInv'
  <2>1. UNCHANGED <<setup, life>>
    BY <1>5 DEF Handler, StreamConn, TlsConn, HttpConn, Serve, Read, ReadInto, ReadFails,
       Write, WriteFails, NotTLS, Idle, Timeout, Client, Connect, Send, Receive, Finish, Leave,
       Lose, Duplicate
  <2> QED
    BY <1>0, <2>1 DEF life
<1>6. CASE CloseOnDone \/ Remove \/ Ready \/ Cancel \/ UNCHANGED vars
  BY <1>0, <1>6 DEF CloseOnDone, Streams, Remove, Ready, Cancel, CloseListener, vars, life
<1> QED
  BY <1>1, <1>2, <1>3, <1>4, <1>5, <1>6 DEF Next, Loop, Watcher, Environment

\* A service that has had a socket is never again one that has none yet.
LEMMA SocketStep ==
    ASSUME TypeOK, LoopInv, [Next]_vars
    PROVE  sock' = sock \/ sock' \in {"bound", "closed"}
<1> USE DEF life
<1>1. CASE StreamingEchoServer \/ ListenAndServeTLS \/ AcceptFails
  BY <1>1 DEF StreamingEchoServer, StartStream, ListenAndServeTLS, Listen, Bind, BindFails,
     LoadKeyPair, AcceptLoop, AcceptClosed, AcceptFails, EndAccepting, Accept
<1>2. CASE EchoServerUDP \/ DatagramEchoServer \/ CloseUDP \/ CloseUnixgram \/ WriteToRefused
  BY <1>2 DEF EchoServerUDP, DatagramEchoServer, StartUDP, StartUnixgram, Bind, BindFails,
     ReceiveLoop, ReadFrom, ReadFromClosed, WriteTo, WriteToFails, WriteToRefused,
       EndReceiving, CloseUDP,
     CloseUnixgram
<1>3. CASE CredsMain \/ CloseOnSignal \/ InterruptCreds \/ AcceptUnixFails
  BY <1>3 DEF CredsMain, ListenUnix, Notify, AcceptUnix, AcceptUnixClosed, Check, Welcome,
     Deny, CloseOnSignal, InterruptCreds, AcceptUnixFails, ProcessEnds, CloseListener
<1>4. CASE Run \/ NotifyHttp \/ CloseServer \/ InterruptHttp
  BY <1>4 DEF Run, ListenAfterClose, ListenFails, ListenAndServe, ServerClosed, AcceptHttp,
     NotifyHttp, CloseServer, InterruptHttp, ProcessEnds
<1>5. ASSUME NEW c \in Clients, Handler(c) \/ Idle(c) \/ Timeout(c) \/ Client(c)
      PROVE  sock' = sock
  BY <1>5 DEF Handler, StreamConn, TlsConn, HttpConn, Serve, Read, ReadInto, ReadFails,
     Write, WriteFails, NotTLS, Idle, Timeout, Client, Connect, Send, Receive, Finish, Leave,
     Lose, Duplicate
<1>6. CASE CloseOnDone \/ Remove \/ Ready \/ Cancel \/ UNCHANGED vars
  BY <1>6 DEF CloseOnDone, Remove, Ready, Cancel, CloseListener, vars
<1> QED
  BY <1>1, <1>2, <1>3, <1>4, <1>5, <1>6 DEF Next, Loop, Watcher, Environment

LEMMA AbsentStep ==
    ASSUME TypeOK, LoopInv, [Next]_vars
    PROVE  AbsentInv'
<1> SUFFICES ASSUME NEW c \in Clients
             PROVE  /\ Kind' \in Datagrams => handler'[c] = "off" /\ (sock' = "closed" => inbox'[c] = <<>>)
                    /\ sock' = "none" => peer'[c] = "none"
                    /\ conn'[c] = "queued" => peer'[c] # "none" /\ handler'[c] = "off"
                    /\ peer'[c] = "none" =>
                          /\ inbox'[c] = <<>> /\ outbox'[c] = <<>> /\ got'[c] = <<>>
                          /\ held'[c] = Nothing /\ sent'[c] = 0 /\ handler'[c] = "off"
  BY DEF AbsentInv
<1>1. /\ Kind \in Datagrams => handler[c] = "off" /\ (sock = "closed" => inbox[c] = <<>>)
      /\ sock = "none" => peer[c] = "none"
      /\ conn[c] = "queued" => peer[c] # "none" /\ handler[c] = "off"
      /\ peer[c] = "none" =>
            /\ inbox[c] = <<>> /\ outbox[c] = <<>> /\ got[c] = <<>>
            /\ held[c] = Nothing /\ sent[c] = 0 /\ handler[c] = "off"
  BY DEF LoopInv, AbsentInv
<1>2. setup' = setup /\ Kind' = Kind /\ Steps /\ (sock' = sock \/ sock' \in {"bound", "closed"})
  BY StepsOfNext, SocketStep DEF Kind
<1> USE DEF service, wires, clients
<1>3. CASE Quiet
  BY <1>1, <1>2, <1>3 DEF Quiet
<1>4. CASE Closes
  <2>1. PICK S : CloseConns(S)
    BY <1>4 DEF Closes
  <2>2. outbox[c] = <<>> => outbox'[c] = <<>>
    <3>1. outbox'[c] \in Seq(Units) /\ Len(outbox'[c]) <= Len(outbox[c])
      BY <2>1, Closed DEF TypeOK
    <3> QED
      BY <3>1
  <2> QED
    BY <1>1, <1>2, <1>4, <2>1, <2>2, Closed DEF TypeOK, Closes
<1>5. CASE Accepts
  BY <1>1, <1>2, <1>5 DEF Accepts, TypeOK, ConnOK
<1>6. CASE Drops \/ GivesUp
  BY <1>1, <1>2, <1>6 DEF Drops, GivesUp, EndReceiving
<1>7. CASE WriteTo
  <2>1. cur \in Clients /\ held[cur] # Nothing
    BY <1>7 DEF WriteTo, LoopInv, PlaceInv, TypeOK, ConnOK
  <2>2. peer[c] = "none" => cur # c
    BY <1>1, <2>1
  <2>3. cur # c => outbox'[c] = outbox[c]
    BY <1>7, <2>1 DEF WriteTo, TypeOK, ConnOK
  <2> QED
    BY <1>1, <1>2, <1>7, <2>2, <2>3 DEF WriteTo
<1>8. ASSUME NEW d \in Clients, Handles(d)
      PROVE  /\ Kind' \notin Datagrams /\ UNCHANGED <<sock, conn, peer, got, sent>>
             /\ handler[d] # "off" /\ (c # d => UNCHANGED <<handler[c], held[c], inbox[c], outbox[c]>>)
  BY <1>2, <1>8 DEF Handles, Read, ReadInto, Write, TypeOK, ConnOK, life
<1>9. ASSUME NEW d \in Clients, ReadFrom(d)
      PROVE  /\ UNCHANGED <<sock, conn, handler, outbox, clients>>
             /\ inbox[d] # <<>> /\ (c # d => UNCHANGED <<held[c], inbox[c]>>)
  BY <1>9 DEF ReadFrom, TypeOK, ConnOK
<1>10. ASSUME NEW d \in Clients, Client(d)
       PROVE  /\ Kind' \in Datagrams => handler'[c] = "off" /\ (sock' = "closed" => inbox'[c] = <<>>)
              /\ sock' = "none" => peer'[c] = "none"
              /\ conn'[c] = "queued" => peer'[c] # "none" /\ handler'[c] = "off"
              /\ peer'[c] = "none" =>
                    /\ inbox'[c] = <<>> /\ outbox'[c] = <<>> /\ got'[c] = <<>>
                    /\ held'[c] = Nothing /\ sent'[c] = 0 /\ handler'[c] = "off"
  <2>1. CASE Connect(d)
    BY <1>1, <1>2, <2>1 DEF Connect, life, TypeOK, ConnOK
  <2>2. CASE Send(d)
    BY <1>1, <1>2, <2>2 DEF Send, Reachable, Only, life, TypeOK, ConnOK
  <2>3. CASE Receive(d)
    BY <1>1, <1>2, <2>3 DEF Receive, life, TypeOK, ConnOK
  <2>4. CASE Finish(d) \/ Leave(d)
    BY <1>1, <1>2, <2>4 DEF Finish, Leave, life, TypeOK, ConnOK
  <2>5. CASE Lose(d)
    BY <1>1, <1>2, <2>5 DEF Lose, life, TypeOK, ConnOK
  <2>6. CASE Duplicate(d)
    <3>1. UNCHANGED <<sock, conn, handler, held, peer, sent, got>>
      BY <2>6 DEF Duplicate, life
    <3>2. CASE c # d
      <4>1. inbox'[c] = inbox[c] /\ outbox'[c] = outbox[c]
        BY <2>6, <3>2 DEF Duplicate, TypeOK, ConnOK
      <4> QED
        BY <1>1, <1>2, <3>1, <4>1
    <3>3. CASE c = d
      <4>1. /\ peer[c] # "none"
            /\ sock = "closed" => inbox'[c] = inbox[c]
        <5>1. peer[c] = "none" => 1..sent[c] = {}
          BY <1>1
        <5> QED
          BY <2>6, <3>3, <5>1 DEF Duplicate
      <4> QED
        BY <1>1, <1>2, <3>1, <4>1
    <3> QED
      BY <3>2, <3>3
  <2> QED
    BY <1>10, <2>1, <2>2, <2>3, <2>4, <2>5, <2>6 DEF Client
<1> QED
  BY <1>1, <1>2, <1>3, <1>4, <1>5, <1>6, <1>7, <1>8, <1>9, <1>10 DEF Steps

-----------------------------------------------------------------------------
(* Streams and Unix datagrams: everything in a row                         *)

\* Consecutive numbers: of a beginning, with one more, without the first.
LEMMA NumberedPrefix ==
    ASSUME NEW T, NEW s \in Seq(T), NEW r \in Seq(T), NEW c, NEW n \in Nat,
           Numbered(s, c, n), Len(r) <= Len(s), \A i \in 1..Len(r) : r[i] = s[i]
    PROVE  Numbered(r, c, n)
  BY DEF Numbered

LEMMA NumberedAppend ==
    ASSUME NEW T, NEW s \in Seq(T), NEW c, NEW n \in Nat, NEW u \in T,
           Numbered(s, c, n), u = <<c, n + Len(s) + 1>>
    PROVE  Numbered(Append(s, u), c, n)
<1>1. /\ Append(s, u) \in Seq(T) /\ Len(Append(s, u)) = Len(s) + 1
      /\ \A i \in 1..Len(s) : Append(s, u)[i] = s[i]
      /\ Append(s, u)[Len(s) + 1] = u
  BY AppendProperties
<1>2. Len(s) \in Nat
  OBVIOUS
<1>3. ASSUME NEW i \in 1..(Len(s) + 1)
      PROVE  Append(s, u)[i] = <<c, n + i>>
  <2>1. CASE i \in 1..Len(s)
    BY <1>1, <2>1 DEF Numbered
  <2>2. CASE i = Len(s) + 1
    <3>1. n + Len(s) + 1 = n + i
      BY <2>2
    <3> QED
      BY <1>1, <2>2, <3>1
  <2> QED
    BY <1>2, <2>1, <2>2
<1>4. DOMAIN Append(s, u) = 1..(Len(s) + 1)
  BY <1>1
<1> QED
  BY <1>3, <1>4 DEF Numbered

LEMMA NumberedRest ==
    ASSUME NEW T, NEW s \in Seq(T), NEW r \in Seq(T), NEW c, NEW n \in Nat, s # <<>>,
           Numbered(s, c, n), Len(r) = Len(s) - 1, \A i \in 1..Len(r) : r[i] = s[i + 1]
    PROVE  s[1] = <<c, n + 1>> /\ Numbered(r, c, n + 1)
<1>1. Len(s) \in Nat /\ Len(s) >= 1 /\ DOMAIN s = 1..Len(s)
  OBVIOUS
<1>2. ASSUME NEW i \in 1..Len(s)
      PROVE  s[i] = <<c, n + i>>
  BY <1>1 DEF Numbered
<1>3. ASSUME NEW i \in 1..Len(r)
      PROVE  r[i] = <<c, (n + 1) + i>>
  <2>1. i + 1 \in 1..Len(s) /\ n + (i + 1) = (n + 1) + i
    BY <1>1
  <2>2. s[i + 1] = <<c, n + (i + 1)>>
    BY <1>2, <2>1
  <2> QED
    BY <2>1, <2>2
<1>4. s[1] = <<c, n + 1>>
  <2>1. 1 \in 1..Len(s)
    BY <1>1
  <2> QED
    BY <1>2, <2>1
<1>5. Numbered(r, c, n + 1)
  <2>1. DOMAIN r = 1..Len(r)
    OBVIOUS
  <2>2. \A i \in 1..Len(r) : r[i] = <<c, (n + 1) + i>>
    BY <1>3
  <2> QED
    BY <2>1, <2>2 DEF Numbered
<1> QED
  BY <1>4, <1>5

LEMMA NumberedEmpty == ASSUME NEW c, NEW n PROVE Numbered(<<>>, c, n)
  BY DEF Numbered

\* A row that nobody touches stays one, whatever happens to the socket.
LEMMA RowStays ==
    ASSUME NEW c \in Clients, InRow(c),
           UNCHANGED <<got[c], outbox[c], held[c], inbox[c], sent[c]>>,
           Served(c)' => Served(c), Reachable(c)' => Reachable(c)
    PROVE  InRow(c)'
  BY DEF InRow, Holding

\* Closing a connection cuts the row; of a connection that stays open, nothing.
LEMMA RowCloses ==
    ASSUME TypeOK, TypeOK', LoopInv, Closes, setup' = setup, NEW c \in Clients, InRow(c)
    PROVE  InRow(c)'
<1>1. PICK S : CloseConns(S)
  BY DEF Closes
<1>2. UNCHANGED <<setup, peer, sent, got, copies>> /\ Kind' = Kind /\ Kind \notin Datagrams
  BY DEF Closes, Kind
<1>3. /\ outbox'[c] \in Seq(Units) /\ outbox[c] \in Seq(Units) /\ got[c] \in Seq(Units)
      /\ Len(outbox'[c]) <= Len(outbox[c])
      /\ \A i \in 1..Len(outbox'[c]) : outbox'[c][i] = outbox[c][i]
  BY <1>1, Closed DEF TypeOK, ConnOK
<1>4. Numbered(outbox'[c], c, Len(got'[c]))
  <2>1. Numbered(outbox[c], c, Len(got[c])) /\ got'[c] = got[c] /\ Len(got[c]) \in Nat
    BY <1>2, <1>3 DEF InRow, Holding
  <2> QED
    BY <1>3, <2>1, NumberedPrefix
<1>5. CASE c \in S
  <2>1. conn'[c] = "closed" /\ held'[c] = Nothing /\ inbox'[c] = <<>>
    BY <1>1, <1>5, Closed DEF TypeOK
  <2>2. ~Reachable(c)'
    BY <1>2, <2>1 DEF Reachable, Only
  <2> QED
    <3>1. \A n : Numbered(inbox'[c], c, n)
      BY <2>1, NumberedEmpty
    <3>2. Numbered(got'[c], c, 0)
      BY <1>2 DEF InRow, Holding
    <3>3. Numbered(outbox'[c], c, Len(got'[c]))
      BY <1>4
    <3> HIDE DEF Numbered, Reachable
    <3> QED
      BY <2>1, <2>2, <3>1, <3>2, <3>3, Zenon DEF InRow
<1>6. CASE c \notin S
  <2>1. UNCHANGED <<conn[c], held[c], inbox[c], outbox[c]>>
    BY <1>1, <1>6, Closed DEF TypeOK
  <2>2. Reachable(c)' <=> Reachable(c)
    BY <1>2, <2>1 DEF Reachable, Only
  <2>3. Served(c)' => Served(c)
    BY <1>2 DEF Served, Only
  <2> QED
    BY <1>2, <2>1, <2>2, <2>3, RowStays
<1> QED
  BY <1>5, <1>6

\* Nobody is served again who was not: a client that left, or whose receive loop has
\* ended.
LEMMA ServedStays ==
    ASSUME TypeOK, LoopInv, Steps, setup' = setup, NEW c \in Clients
    PROVE  Served(c)' => Served(c)
<1>1. Kind' = Kind
  BY DEF Kind
<1>2. peer[c] = "closed" => peer'[c] = "closed"
  <2>1. ASSUME NEW d \in Clients, Client(d)
        PROVE  peer[c] = "closed" => peer'[c] = "closed"
    BY <2>1 DEF Client, Connect, Send, Receive, Finish, Leave, Lose, Duplicate, clients,
       TypeOK, ConnOK
  <2>2. ASSUME ~(\E d \in Clients : Client(d))
        PROVE  peer' = peer
    BY <2>2 DEF Steps, Quiet, Closes, Accepts, Drops, GivesUp, EndReceiving, WriteTo,
       Handles, Read, ReadInto, Write, ReadFrom, clients
  <2> QED
    BY <2>1, <2>2
<1>3. Kind \in Datagrams /\ loop = "end" => loop' = "end"
  BY DEF Steps, Quiet, Settled, Closes, Accepts, Drops, GivesUp, WriteTo, Handles, ReadFrom,
     Client, Connect, Send, Receive, Finish, Leave, Lose, Duplicate, life
<1> QED
  BY <1>1, <1>2, <1>3 DEF Served, Only

\* The answer of a handler or a receive loop goes to the end of what is on its way
\* back.
LEMMA RowAnswers ==
    ASSUME TypeOK, TypeOK', NEW c \in Clients, InRow(c), held[c] # Nothing, Served(c),
           outbox'[c] = Append(outbox[c], held[c]), held'[c] = Nothing,
           UNCHANGED <<got[c], inbox[c], sent[c]>>, Reachable(c)' => Reachable(c)
    PROVE  InRow(c)'
<1>1. outbox[c] \in Seq(Units) /\ got[c] \in Seq(Units) /\ held[c] \in Units
  BY DEF TypeOK, ConnOK
<1>2. held[c] = <<c, Len(got[c]) + Len(outbox[c]) + 1>>
  BY DEF InRow, Holding
<1>3. /\ Len(outbox'[c]) = Len(outbox[c]) + 1 /\ outbox'[c] \in Seq(Units)
      /\ \A i \in 1..Len(outbox[c]) : outbox'[c][i] = outbox[c][i]
      /\ outbox'[c][Len(outbox[c]) + 1] = held[c]
  BY <1>1, AppendProperties
<1>4. Numbered(outbox'[c], c, Len(got[c]))
  <2>1. Numbered(outbox[c], c, Len(got[c])) /\ Len(got[c]) \in Nat
    BY <1>1 DEF InRow, Holding
  <2> QED
    BY <1>1, <1>2, <2>1, NumberedAppend
<1>5. Len(got[c]) + Len(outbox'[c]) + 0 = Len(got[c]) + Len(outbox[c]) + 1
  BY <1>1, <1>3 DEF TypeOK, ConnOK
<1> QED
  BY <1>4, <1>5 DEF InRow, Holding, TypeOK, ConnOK

\* Taking the first unit that is waiting leaves the rest in its place.
LEMMA RowReads ==
    ASSUME TypeOK, TypeOK', NEW c \in Clients, InRow(c), held[c] = Nothing, inbox[c] # <<>>,
           held'[c] = inbox[c][1],
           inbox'[c] \in Seq(Units), Len(inbox'[c]) = Len(inbox[c]) - 1,
           \A i \in 1..Len(inbox'[c]) : inbox'[c][i] = inbox[c][i + 1],
           UNCHANGED <<got[c], outbox[c], sent[c]>>,
           Served(c)' => Served(c), Reachable(c)' => Reachable(c)
    PROVE  InRow(c)'
<1> DEFINE back == Len(got[c]) + Len(outbox[c])
<1>1. back \in Nat /\ inbox[c] \in Seq(Units) /\ Len(inbox[c]) \in Nat \ {0}
  BY DEF TypeOK, ConnOK
<1>2. held'[c] # Nothing
  <2>1. inbox[c][1] \in Units
    BY <1>1
  <2> QED
    BY <2>1, UnitIsSomething
<1>3. CASE ~Served(c)
  BY <1>3 DEF InRow, Holding
<1>4. CASE Served(c)
  <2>1. Numbered(inbox[c], c, back)
    BY <1>1, <1>4 DEF InRow, Holding, TypeOK, ConnOK
  <2>2. inbox[c][1] = <<c, back + 1>> /\ Numbered(inbox'[c], c, back + 1)
    BY <1>1, <2>1, NumberedRest
  <2>3. Reachable(c)' => sent'[c] = (back + 1) + Len(inbox'[c])
    BY <1>1, <1>4 DEF InRow, Holding, TypeOK, ConnOK
  <2> QED
    BY <1>2, <2>2, <2>3 DEF InRow, Holding, TypeOK, ConnOK
<1> QED
  BY <1>3, <1>4

\* Receiving moves the first unit from the way back to the end of what the client
\* has.
LEMMA RowReceives ==
    ASSUME TypeOK, TypeOK', NEW c \in Clients, InRow(c), outbox[c] # <<>>,
           got'[c] = Append(got[c], Head(outbox[c])), outbox'[c] = Tail(outbox[c]),
           UNCHANGED <<held[c], inbox[c], sent[c]>>,
           Served(c)' => Served(c), Reachable(c)' => Reachable(c)
    PROVE  InRow(c)'
<1>1. /\ outbox[c] \in Seq(Units) /\ got[c] \in Seq(Units)
      /\ Len(got[c]) \in Nat /\ Len(outbox[c]) \in Nat
  BY DEF TypeOK, ConnOK
<1>2. Numbered(outbox[c], c, Len(got[c])) /\ Numbered(got[c], c, 0)
  BY DEF InRow, Holding
<1>3. /\ Head(outbox[c]) = outbox[c][1] /\ Head(outbox[c]) \in Units
      /\ Tail(outbox[c]) \in Seq(Units) /\ Len(Tail(outbox[c])) = Len(outbox[c]) - 1
      /\ \A i \in 1..Len(Tail(outbox[c])) : Tail(outbox[c])[i] = outbox[c][i + 1]
  BY <1>1, HeadTailProperties
<1>4. /\ outbox[c][1] = <<c, Len(got[c]) + 1>>
      /\ Numbered(Tail(outbox[c]), c, Len(got[c]) + 1)
  BY <1>1, <1>2, <1>3, NumberedRest
<1>5. Head(outbox[c]) = <<c, 0 + Len(got[c]) + 1>>
  BY <1>1, <1>3, <1>4
<1>6. Numbered(Append(got[c], Head(outbox[c])), c, 0)
  BY <1>1, <1>2, <1>3, <1>5, NumberedAppend
<1>7. Len(Append(got[c], Head(outbox[c]))) = Len(got[c]) + 1
  BY <1>1, <1>3, AppendProperties
<1>8. Numbered(got'[c], c, 0) /\ Numbered(outbox'[c], c, Len(got'[c]))
  BY <1>4, <1>6, <1>7
<1>9. Len(got'[c]) + Len(outbox'[c]) = Len(got[c]) + Len(outbox[c])
  <2>1. Len(got'[c]) = Len(got[c]) + 1 /\ Len(outbox'[c]) = Len(outbox[c]) - 1
    BY <1>3, <1>7
  <2> QED
    BY <1>1, <2>1 DEF TypeOK, ConnOK
<1> QED
  BY <1>8, <1>9 DEF InRow, Holding, TypeOK, ConnOK

\* A client sends the next number.
LEMMA RowSends ==
    ASSUME TypeOK, TypeOK', NEW c \in Clients, InRow(c), Reachable(c), Served(c)' => Served(c),
           inbox'[c] = Append(inbox[c], <<c, sent[c] + 1>>), sent'[c] = sent[c] + 1,
           UNCHANGED <<got[c], outbox[c], held[c]>>
    PROVE  InRow(c)'
<1>0. CASE ~Served(c)'
  BY <1>0 DEF InRow, Holding
<1> SUFFICES ASSUME Served(c)
             PROVE  InRow(c)'
  BY <1>0
<1> DEFINE read == Len(got[c]) + Len(outbox[c]) + (IF held[c] = Nothing THEN 0 ELSE 1)
           u == <<c, sent[c] + 1>>
<1>1. inbox[c] \in Seq(Clients \X Nat) /\ u \in Clients \X Nat
  <2>1. inbox[c] \in Seq(Units) /\ sent[c] \in Nat
    BY SocketsAssumption DEF TypeOK, ConnOK, LifeOK
  <2>2. \A i \in 1..Len(inbox[c]) : inbox[c][i] \in Clients \X Nat
    BY <2>1 DEF Units
  <2>3. inbox[c] \in Seq(Clients \X Nat)
    BY <2>1, <2>2
  <2>4. u \in Clients \X Nat
    BY <2>1
  <2> QED
    BY <2>3, <2>4
<1>2. read \in Nat
  BY DEF TypeOK, ConnOK
<1>3. Numbered(inbox[c], c, read) /\ sent[c] = read + Len(inbox[c])
  BY DEF InRow, Holding
<1>4. u = <<c, read + Len(inbox[c]) + 1>>
  BY <1>3
<1> HIDE DEF read, u
<1>5. Numbered(Append(inbox[c], u), c, read)
  BY <1>1, <1>2, <1>3, <1>4, NumberedAppend
<1>6. Len(Append(inbox[c], u)) = Len(inbox[c]) + 1
  BY <1>1, AppendProperties
<1>7. sent'[c] = read + Len(inbox'[c])
  <2>1. Len(inbox'[c]) = Len(inbox[c]) + 1 /\ Len(inbox[c]) \in Nat
    BY <1>1, <1>6 DEF u
  <2> QED
    BY <1>2, <1>3, <2>1 DEF TypeOK, ConnOK
<1>8. Numbered(inbox'[c], c, read)
  BY <1>5 DEF u
<1> QED
  BY <1>7, <1>8 DEF InRow, Holding, read, TypeOK, ConnOK

\* The row of every client survives every step.
LEMMA RowStep ==
    ASSUME TypeOK, LoopInv, TypeOK', LoopInv', RowInv, [Next]_vars
    PROVE  RowInv'
<1>1. /\ setup' = setup /\ Kind' = Kind /\ Steps
      /\ sock' = sock \/ sock' \in {"bound", "closed"}
  BY StepsOfNext, SocketStep DEF Kind
<1> SUFFICES ASSUME NEW c \in Clients, Kind # "udp"
             PROVE  InRow(c)'
  BY <1>1 DEF RowInv
<1>2. InRow(c) /\ (Served(c)' => Served(c))
  BY <1>1, ServedStays DEF RowInv
<1> USE DEF service, wires, clients
<1>3. CASE Quiet
  <2>1. UNCHANGED <<got[c], outbox[c], held[c], inbox[c], sent[c], conn[c]>>
    BY <1>3 DEF Quiet
  <2>2. CASE Reachable(c)' => Reachable(c)
    BY <1>2, <2>1, <2>2, RowStays
  <2>3. CASE Reachable(c)' /\ ~Reachable(c)
    <3>1. sock = "none"
      BY <1>1, <1>3, <2>1, <2>3 DEF Reachable, Only, Quiet, TypeOK, LifeOK
    <3>2. /\ inbox[c] = <<>> /\ outbox[c] = <<>> /\ got[c] = <<>>
          /\ held[c] = Nothing /\ sent[c] = 0
      BY <3>1 DEF LoopInv, AbsentInv
    <3>3. /\ inbox'[c] = <<>> /\ outbox'[c] = <<>> /\ got'[c] = <<>>
          /\ held'[c] = Nothing /\ sent'[c] = 0
      BY <2>1, <3>2
    <3> QED
      BY <3>3, NumberedEmpty DEF InRow, Holding
  <2> QED
    BY <2>2, <2>3
<1>4. CASE Closes
  BY <1>1, <1>2, <1>4, RowCloses
<1>5. CASE Accepts
  <2>1. UNCHANGED <<got[c], outbox[c], held[c], inbox[c], sent[c]>>
    BY <1>5 DEF Accepts
  <2>2. Reachable(c)' => Reachable(c)
    BY <1>1, <1>5 DEF Accepts, Reachable, Only, TypeOK, ConnOK
  <2> QED
    BY <1>2, <2>1, <2>2, RowStays
<1>6. CASE Drops
  <2>1. /\ inbox'[c] = <<>> /\ ~Reachable(c)'
        /\ UNCHANGED <<got[c], outbox[c], held[c], sent[c]>>
    BY <1>1, <1>6 DEF Drops, Reachable, Only
  <2> QED
    BY <1>2, <2>1, NumberedEmpty DEF InRow, Holding
<1>7. CASE GivesUp
  <2>1. ~Served(c)' /\ UNCHANGED <<got[c], outbox[c]>>
    BY <1>1, <1>7 DEF GivesUp, EndReceiving, Served, Only
  <2> QED
    BY <1>2, <2>1 DEF InRow
<1>8. CASE WriteTo
  <2>1. /\ cur \in Clients /\ peer[cur] # "closed" /\ held[cur] # Nothing
        /\ outbox' = [outbox EXCEPT ![cur] = Append(@, held[cur])]
    BY <1>8 DEF WriteTo, Only, LoopInv, PlaceInv, TypeOK, ConnOK
  <2>2. /\ held'[c] = Nothing /\ UNCHANGED <<got[c], inbox[c], sent[c]>>
        /\ Reachable(c)' => Reachable(c)
    BY <1>1, <1>8 DEF WriteTo, Reachable, Only
  <2>3. CASE cur = c
    <3>1. outbox'[c] = Append(outbox[c], held[c]) /\ Served(c)
      BY <1>8, <2>1, <2>3 DEF TypeOK, ConnOK, WriteTo, Served
    <3> QED
      BY <1>2, <2>1, <2>2, <2>3, <3>1, RowAnswers
  <2>4. CASE cur # c
    <3>1. outbox'[c] = outbox[c] /\ held[c] = Nothing
      BY <1>8, <2>1, <2>4 DEF WriteTo, Only, TypeOK, ConnOK, LoopInv, AbsentInv
    <3> QED
      BY <1>2, <2>2, <3>1, RowStays
  <2> QED
    BY <2>3, <2>4
<1>9. ASSUME NEW d \in Clients, Handles(d)
      PROVE  InRow(c)'
  <2>1. UNCHANGED <<got, sent, peer, conn>> /\ (Reachable(c)' => Reachable(c))
    BY <1>1, <1>9 DEF Handles, Read, ReadInto, Write, Reachable, Only, life
  <2>2. CASE c # d
    <3>1. UNCHANGED <<outbox[c], held[c], inbox[c]>>
      BY <1>9, <2>2 DEF Handles, Read, ReadInto, Write, TypeOK, ConnOK
    <3> QED
      BY <1>2, <2>1, <3>1, RowStays
  <2>3. CASE Read(c)
    <3>1. /\ inbox[c] # <<>> /\ handler[c] = "read" /\ outbox' = outbox
          /\ held'[c] = Head(inbox[c]) /\ inbox'[c] = Tail(inbox[c])
      BY <2>3 DEF Read, ReadInto, TypeOK, ConnOK
    <3>2. held[c] = Nothing
      BY <1>9, <3>1 DEF Handles, LoopInv, PlaceInv, TypeOK, ConnOK
    <3>3. /\ held'[c] = inbox[c][1] /\ inbox'[c] \in Seq(Units)
          /\ Len(inbox'[c]) = Len(inbox[c]) - 1
          /\ \A i \in 1..Len(inbox'[c]) : inbox'[c][i] = inbox[c][i + 1]
      BY <3>1, Taken DEF TypeOK
    <3> QED
      BY <1>2, <2>1, <3>1, <3>2, <3>3, RowReads
  <2>4. CASE Write(c)
    <3>1. /\ held'[c] = Nothing /\ held[c] # Nothing /\ inbox' = inbox
      BY <2>4 DEF Write, TypeOK, ConnOK
    <3>2. CASE peer[c] = "closed"
      <4>1. outbox' = outbox
        BY <2>4, <3>2 DEF Write
      <4>2. ~Served(c)'
        BY <1>2, <3>2 DEF Served
      <4> QED
        BY <1>2, <2>1, <4>1, <4>2 DEF InRow, Holding
    <3>3. CASE peer[c] # "closed"
      <4>1. outbox'[c] = Append(outbox[c], held[c]) /\ Served(c)
        BY <1>9, <2>4, <3>3 DEF Handles, Write, TypeOK, ConnOK, Served, Only
      <4> QED
        BY <1>2, <2>1, <3>1, <3>3, <4>1, RowAnswers
    <3> QED
      BY <3>2, <3>3
  <2> QED
    BY <1>9, <2>2, <2>3, <2>4 DEF Handles
<1>10. ASSUME NEW d \in Clients, ReadFrom(d)
       PROVE  InRow(c)'
  <2>1. /\ UNCHANGED <<got, sent, peer, outbox>> /\ (Reachable(c)' => Reachable(c))
        /\ loop = "read" /\ Kind \in Datagrams
    BY <1>1, <1>10 DEF ReadFrom, Reachable, Only
  <2>2. CASE c # d
    <3>1. UNCHANGED <<held[c], inbox[c]>>
      BY <1>10, <2>2 DEF ReadFrom, TypeOK, ConnOK
    <3> QED
      BY <1>2, <2>1, <3>1, RowStays
  <2>3. CASE c = d
    <3>1. /\ 1 \in DOMAIN inbox[c]
          /\ held' = [held EXCEPT ![c] = inbox[c][1]]
          /\ inbox' = [inbox EXCEPT ![c] = Cut(inbox[c], 1)]
      BY <1>10, <2>3 DEF ReadFrom, Only, Cut
    <3>2. inbox[c] \in Seq(Units) /\ inbox[c] # <<>> /\ 1 \in 1..Len(inbox[c])
          /\ Len(inbox[c]) \in Nat
      <4>1. inbox[c] \in Seq(Units)
        BY DEF TypeOK, ConnOK
      <4>2. 1 \in 1..Len(inbox[c]) /\ Len(inbox[c]) \in Nat
        BY <3>1, <4>1, LenProperties
      <4> QED
        BY <4>1, <4>2
    <3>3. /\ Cut(inbox[c], 1) \in Seq(Units) /\ Len(Cut(inbox[c], 1)) = Len(inbox[c]) - 1
          /\ \A j \in 1..(Len(inbox[c]) - 1) :
                 Cut(inbox[c], 1)[j] = IF j < 1 THEN inbox[c][j] ELSE inbox[c][j + 1]
      BY <3>2, CutProperties
    <3>4. /\ held'[c] = inbox[c][1] /\ inbox'[c] = Cut(inbox[c], 1)
      BY <3>1 DEF TypeOK, ConnOK
    <3>5. \A j \in 1..Len(inbox'[c]) : inbox'[c][j] = inbox[c][j + 1]
      BY <3>3, <3>4
    <3>6. held[c] = Nothing
      BY <2>1 DEF LoopInv, AbsentInv, TypeOK, ConnOK
    <3> QED
      BY <1>2, <2>1, <3>2, <3>3, <3>4, <3>5, <3>6, RowReads
  <2> QED
    BY <2>2, <2>3
<1>11. ASSUME NEW d \in Clients, Client(d)
       PROVE  InRow(c)'
  <2>1. CASE Connect(d)
    <3>1. CASE c # d
      <4>1. UNCHANGED <<got[c], outbox[c], held[c], inbox[c], sent[c], conn[c], sock>>
        BY <2>1, <3>1 DEF Connect, life, TypeOK, ConnOK
      <4>2. Reachable(c)' => Reachable(c)
        BY <1>1, <4>1 DEF Reachable, Only
      <4> QED
        BY <1>2, <4>1, <4>2, RowStays
    <3>2. CASE c = d
      <4>1. peer[c] = "none" /\ UNCHANGED <<got, outbox, held, inbox, sent>>
        BY <2>1, <3>2 DEF Connect
      <4>2. /\ inbox'[c] = <<>> /\ outbox'[c] = <<>> /\ got'[c] = <<>>
            /\ held'[c] = Nothing /\ sent'[c] = 0
        BY <4>1 DEF LoopInv, AbsentInv
      <4> QED
        BY <4>2, NumberedEmpty DEF InRow, Holding
    <3> QED
      BY <3>1, <3>2
  <2>2. CASE Send(d)
    <3>1. Reachable(c)' <=> Reachable(c)
      BY <1>1, <2>2 DEF Send, Reachable, Only, life
    <3>2. CASE c # d
      <4>1. UNCHANGED <<got[c], outbox[c], held[c], inbox[c], sent[c]>>
        BY <2>2, <3>2 DEF Send, TypeOK, ConnOK
      <4> QED
        BY <1>2, <3>1, <4>1, RowStays
    <3>3. CASE c = d
      <4>1. /\ Reachable(c)
            /\ inbox'[c] = Append(inbox[c], <<c, sent[c] + 1>>) /\ sent'[c] = sent[c] + 1
            /\ UNCHANGED <<got[c], outbox[c], held[c]>>
        BY <2>2, <3>3 DEF Send, TypeOK, ConnOK
      <4> QED
        BY <1>2, <4>1, RowSends
    <3> QED
      BY <3>2, <3>3
  <2>3. CASE Receive(d)
    <3>1. Reachable(c)' <=> Reachable(c)
      BY <1>1, <2>3 DEF Receive, Reachable, Only, life
    <3>2. CASE c # d
      <4>1. UNCHANGED <<got[c], outbox[c], held[c], inbox[c], sent[c]>>
        BY <2>3, <3>2 DEF Receive, TypeOK, ConnOK
      <4> QED
        BY <1>2, <3>1, <4>1, RowStays
    <3>3. CASE c = d
      <4>1. /\ outbox[c] # <<>> /\ outbox'[c] = Tail(outbox[c])
            /\ got'[c] = Append(got[c], Head(outbox[c]))
            /\ UNCHANGED <<held[c], inbox[c], sent[c]>>
        BY <2>3, <3>3 DEF Receive, TypeOK, ConnOK
      <4> QED
        BY <1>2, <3>1, <4>1, RowReceives
    <3> QED
      BY <3>2, <3>3
  <2>4. CASE Finish(d) \/ Leave(d)
    <3>1. Reachable(c)' <=> Reachable(c)
      BY <1>1, <2>4 DEF Finish, Leave, Reachable, Only, life
    <3>2. UNCHANGED <<got[c], held[c], inbox[c], sent[c]>>
      BY <2>4 DEF Finish, Leave
    <3>3. CASE outbox'[c] = outbox[c]
      BY <1>2, <3>1, <3>2, <3>3, RowStays
    <3>4. CASE outbox'[c] # outbox[c]
      <4>1. outbox'[c] = <<>> /\ peer'[c] = "closed"
        BY <2>4, <3>4 DEF Finish, Leave, TypeOK, ConnOK
      <4> QED
        BY <1>2, <3>2, <4>1, NumberedEmpty DEF InRow, Served
    <3> QED
      BY <3>3, <3>4
  <2>5. CASE Lose(d) \/ Duplicate(d)
    BY <2>5 DEF Lose, Duplicate, Only
  <2> QED
    BY <1>11, <2>1, <2>2, <2>3, <2>4, <2>5 DEF Client
<1> QED
  BY <1>1, <1>3, <1>4, <1>5, <1>6, <1>7, <1>8, <1>9, <1>10, <1>11 DEF Steps

-----------------------------------------------------------------------------
(* UDP: no more datagrams than have been sent and repeated                 *)

LEMMA WithinAppend ==
    ASSUME NEW T, NEW s \in Seq(T), NEW u \in T, NEW X, Within(s, X), u \in X
    PROVE  Within(Append(s, u), X) /\ Len(Append(s, u)) = Len(s) + 1
<1>1. /\ DOMAIN s = 1..Len(s) /\ Len(s) \in Nat /\ Len(Append(s, u)) = Len(s) + 1
      /\ DOMAIN Append(s, u) = 1..(Len(s) + 1)
      /\ \A i \in 1..Len(s) : Append(s, u)[i] = s[i]
      /\ Append(s, u)[Len(s) + 1] = u
  BY AppendProperties
<1>2. \A i \in 1..(Len(s) + 1) : i \in 1..Len(s) \/ i = Len(s) + 1
  BY <1>1
<1> QED
  BY <1>1, <1>2 DEF Within

\* A sequence without one of its elements.
LEMMA WithinCut ==
    ASSUME NEW T, NEW s \in Seq(T), NEW i \in 1..Len(s), NEW X, Within(s, X)
    PROVE  Within(Cut(s, i), X) /\ s[i] \in X /\ Len(Cut(s, i)) = Len(s) - 1
<1>1. /\ Cut(s, i) \in Seq(T) /\ Len(Cut(s, i)) = Len(s) - 1
      /\ \A j \in 1..(Len(s) - 1) : Cut(s, i)[j] = IF j < i THEN s[j] ELSE s[j + 1]
  BY CutProperties
<1>2. Len(s) \in Nat /\ DOMAIN s = 1..Len(s)
  BY LenProperties
<1>3. DOMAIN Cut(s, i) = 1..(Len(s) - 1)
  BY <1>1, LenProperties
<1>4. ASSUME NEW j \in 1..(Len(s) - 1)
      PROVE  Cut(s, i)[j] \in X
  <2>1. j \in DOMAIN s /\ j + 1 \in DOMAIN s
    BY <1>2
  <2> QED
    BY <1>1, <2>1 DEF Within
<1> QED
  BY <1>1, <1>2, <1>3, <1>4 DEF Within

LEMMA WithinTail ==
    ASSUME NEW T, NEW s \in Seq(T), s # <<>>, NEW X, Within(s, X)
    PROVE  /\ Within(Tail(s), X) /\ Head(s) \in X
           /\ Len(Tail(s)) = Len(s) - 1 /\ Len(s) >= 1
<1>1. /\ Head(s) = s[1] /\ Len(s) \in Nat /\ Len(s) >= 1 /\ DOMAIN s = 1..Len(s)
      /\ Tail(s) \in Seq(T) /\ Len(Tail(s)) = Len(s) - 1
      /\ \A i \in 1..Len(Tail(s)) : Tail(s)[i] = s[i + 1]
  BY HeadTailProperties
<1>2. DOMAIN Tail(s) = 1..(Len(s) - 1)
  BY <1>1, LenProperties
<1>3. \A i \in 1..(Len(s) - 1) : i + 1 \in DOMAIN s
  BY <1>1
<1>4. 1 \in DOMAIN s
  BY <1>1
<1> QED
  BY <1>1, <1>2, <1>3, <1>4 DEF Within

LEMMA WithinMore ==
    ASSUME NEW s, NEW X, NEW Y, Within(s, X), X \subseteq Y
    PROVE  Within(s, Y)
  BY DEF Within

LEMMA WithinEmpty == ASSUME NEW X PROVE Within(<<>>, X)
  BY DEF Within

\* The numbers that the count is about.
LEMMA Sizes ==
    ASSUME TypeOK, NEW c \in Clients
    PROVE  /\ Len(inbox[c]) \in Nat /\ Len(outbox[c]) \in Nat /\ Len(got[c]) \in Nat
           /\ Holding(c) \in Nat /\ sent[c] \in Nat /\ copies[c] \in Nat
           /\ inbox[c] \in Seq(Units) /\ outbox[c] \in Seq(Units) /\ got[c] \in Seq(Units)
<1>1. setup.units \in Nat /\ MaxCopies \in Nat
  BY SocketsAssumption DEF TypeOK, LifeOK
<1> QED
  BY <1>1 DEF TypeOK, ConnOK, Holding

\* Losing something from any place, or nothing.
LEMMA CountedLess ==
    ASSUME TypeOK, TypeOK', NEW c \in Clients, Counted(c),
           UNCHANGED <<sent[c], copies[c], got[c]>>,
           Within(inbox'[c], SentBy(c)), Len(inbox'[c]) <= Len(inbox[c]),
           Within(outbox'[c], SentBy(c)), Len(outbox'[c]) <= Len(outbox[c]),
           held'[c] = held[c] \/ held'[c] = Nothing
    PROVE  Counted(c)'
<1> DEFINE i0 == Len(inbox[c])
           h0 == Holding(c)
           o0 == Len(outbox[c])
           g0 == Len(got[c])
           n0 == sent[c] + copies[c]
           i1 == Len(inbox'[c])
           h1 == Holding(c)'
           o1 == Len(outbox'[c])
<1>1. SentBy(c)' = SentBy(c) /\ h1 <= h0 /\ h1 \in Nat
  BY DEF SentBy, Holding
<1>2. i1 \in Nat /\ o1 \in Nat
  BY DEF TypeOK, ConnOK
<1>3. /\ i0 + h0 + o0 + g0 <= n0 /\ i1 <= i0 /\ o1 <= o0
      /\ i0 \in Nat /\ h0 \in Nat /\ o0 \in Nat /\ g0 \in Nat /\ n0 \in Nat
  BY Sizes DEF Counted
<1> HIDE DEF i0, h0, o0, g0, n0, i1, h1, o1
<1>4. i1 + h1 + o1 + g0 <= n0
  BY <1>1, <1>2, <1>3
<1>5. Len(inbox'[c]) + Holding(c)' + Len(outbox'[c]) + Len(got'[c]) <= sent'[c] + copies'[c]
  BY <1>4 DEF i1, h1, o1, g0, n0
<1> QED
  BY <1>1, <1>5 DEF Counted

\* A datagram goes from one place to the next.
LEMMA CountedReads ==
    ASSUME TypeOK, NEW c \in Clients, Counted(c), NEW i \in DOMAIN inbox[c],
           held'[c] = inbox[c][i], inbox'[c] = Cut(inbox[c], i), held[c] = Nothing,
           UNCHANGED <<outbox[c], got[c], sent[c], copies[c]>>
    PROVE  Counted(c)'
<1> DEFINE i0 == Len(inbox[c])
           h0 == Holding(c)
           o0 == Len(outbox[c])
           g0 == Len(got[c])
           n0 == sent[c] + copies[c]
<1>1. i \in 1..Len(inbox[c])
  BY Sizes
<1>2. /\ Within(inbox'[c], SentBy(c)) /\ held'[c] \in SentBy(c)
      /\ Len(inbox'[c]) = Len(inbox[c]) - 1
  BY <1>1, Sizes, WithinCut DEF Counted
<1>3. SentBy(c)' = SentBy(c) /\ Holding(c) = 0 /\ Holding(c)' = 1
  <2>1. inbox[c][i] \in Units
    BY <1>1, Sizes
  <2>2. held'[c] # Nothing
    BY <2>1, UnitIsSomething
  <2> QED
    BY <2>2 DEF SentBy, Holding
<1>4. /\ i0 + h0 + o0 + g0 <= n0
      /\ i0 \in Nat /\ h0 \in Nat /\ o0 \in Nat /\ g0 \in Nat /\ n0 \in Nat
  BY Sizes DEF Counted
<1> HIDE DEF i0, h0, o0, g0, n0
<1>5. (i0 - 1) + 1 + o0 + g0 <= n0
  <2>1. h0 = 0
    BY <1>3 DEF h0
  <2> QED
    BY <1>4, <2>1
<1>6. Len(inbox'[c]) + Holding(c)' + Len(outbox'[c]) + Len(got'[c]) <= sent'[c] + copies'[c]
  BY <1>2, <1>3, <1>5 DEF i0, o0, g0, n0
<1> QED
  BY <1>2, <1>3, <1>6 DEF Counted

LEMMA CountedAnswers ==
    ASSUME TypeOK, NEW c \in Clients, Counted(c), held[c] # Nothing,
           outbox'[c] = Append(outbox[c], held[c]), held'[c] = Nothing,
           UNCHANGED <<inbox[c], got[c], sent[c], copies[c]>>
    PROVE  Counted(c)'
<1> DEFINE i0 == Len(inbox[c])
           h0 == Holding(c)
           o0 == Len(outbox[c])
           g0 == Len(got[c])
           n0 == sent[c] + copies[c]
<1>1. held[c] \in Units /\ held[c] \in SentBy(c)
  BY DEF TypeOK, ConnOK, Counted
<1>2. Within(outbox'[c], SentBy(c)) /\ Len(outbox'[c]) = Len(outbox[c]) + 1
  BY <1>1, Sizes, WithinAppend DEF Counted
<1>3. SentBy(c)' = SentBy(c) /\ Holding(c) = 1 /\ Holding(c)' = 0
  BY DEF SentBy, Holding
<1>4. /\ i0 + h0 + o0 + g0 <= n0
      /\ i0 \in Nat /\ h0 \in Nat /\ o0 \in Nat /\ g0 \in Nat /\ n0 \in Nat
  BY Sizes DEF Counted
<1> HIDE DEF i0, h0, o0, g0, n0
<1>5. i0 + 0 + (o0 + 1) + g0 <= n0
  <2>1. h0 = 1
    BY <1>3 DEF h0
  <2> QED
    BY <1>4, <2>1
<1>6. Len(inbox'[c]) + Holding(c)' + Len(outbox'[c]) + Len(got'[c]) <= sent'[c] + copies'[c]
  BY <1>2, <1>3, <1>5 DEF i0, o0, g0, n0
<1> QED
  BY <1>1, <1>2, <1>3, <1>6 DEF Counted

LEMMA CountedReceives ==
    ASSUME TypeOK, NEW c \in Clients, Counted(c), outbox[c] # <<>>,
           got'[c] = Append(got[c], Head(outbox[c])), outbox'[c] = Tail(outbox[c]),
           UNCHANGED <<inbox[c], held[c], sent[c], copies[c]>>
    PROVE  Counted(c)'
<1> DEFINE i0 == Len(inbox[c])
           h0 == Holding(c)
           o0 == Len(outbox[c])
           g0 == Len(got[c])
           n0 == sent[c] + copies[c]
<1>1. /\ Within(outbox'[c], SentBy(c)) /\ Head(outbox[c]) \in SentBy(c)
      /\ Len(outbox'[c]) = Len(outbox[c]) - 1 /\ Len(outbox[c]) >= 1
  BY Sizes, WithinTail DEF Counted
<1>2. Head(outbox[c]) \in Units
  BY Sizes, HeadTailProperties
<1>3. Within(got'[c], SentBy(c)) /\ Len(got'[c]) = Len(got[c]) + 1
  BY <1>1, <1>2, Sizes, WithinAppend DEF Counted
<1>4. SentBy(c)' = SentBy(c) /\ Holding(c)' = Holding(c)
  BY DEF SentBy, Holding
<1>5. /\ i0 + h0 + o0 + g0 <= n0
      /\ i0 \in Nat /\ h0 \in Nat /\ o0 \in Nat /\ g0 \in Nat /\ n0 \in Nat
  BY Sizes DEF Counted
<1> HIDE DEF i0, h0, o0, g0, n0
<1>6. i0 + h0 + (o0 - 1) + (g0 + 1) <= n0
  BY <1>5
<1>7. Len(inbox'[c]) + Holding(c)' + Len(outbox'[c]) + Len(got'[c]) <= sent'[c] + copies'[c]
  BY <1>1, <1>3, <1>4, <1>6 DEF i0, h0, o0, g0, n0
<1> QED
  BY <1>1, <1>3, <1>4, <1>7 DEF Counted

\* A client sends one more.
LEMMA CountedSends ==
    ASSUME TypeOK, NEW c \in Clients, Counted(c), sent[c] < setup.units,
           inbox'[c] = Append(inbox[c], <<c, sent[c] + 1>>), sent'[c] = sent[c] + 1,
           UNCHANGED <<outbox[c], held[c], got[c], copies[c]>>
    PROVE  Counted(c)'
<1> DEFINE i0 == Len(inbox[c])
           h0 == Holding(c)
           o0 == Len(outbox[c])
           g0 == Len(got[c])
           n0 == sent[c] + copies[c]
<1> DEFINE u == <<c, sent[c] + 1>>
<1>1. setup.units \in Nat /\ sent[c] \in Nat /\ sent[c] + 1 \in 1..setup.units
  BY SocketsAssumption DEF TypeOK, LifeOK, ConnOK
<1>2. u \in Units /\ u \in SentBy(c)' /\ SentBy(c) \subseteq SentBy(c)'
  BY <1>1 DEF Units, SentBy
<1> HIDE DEF u
<1>3. /\ Within(inbox[c], SentBy(c)') /\ Within(outbox'[c], SentBy(c)')
      /\ Within(got'[c], SentBy(c)') /\ held'[c] \in SentBy(c)' \union {Nothing}
  BY <1>2, WithinMore DEF Counted
<1>4. inbox'[c] = Append(inbox[c], u)
  BY DEF u
<1>5. Within(inbox'[c], SentBy(c)') /\ Len(inbox'[c]) = Len(inbox[c]) + 1
  BY <1>2, <1>3, <1>4, Sizes, WithinAppend
<1>6. /\ i0 + h0 + o0 + g0 <= n0
      /\ i0 \in Nat /\ h0 \in Nat /\ o0 \in Nat /\ g0 \in Nat /\ n0 \in Nat
  BY Sizes DEF Counted
<1>7. Holding(c)' = h0 /\ sent'[c] + copies'[c] = n0 + 1
  BY Sizes DEF Holding
<1> HIDE DEF i0, h0, o0, g0, n0
<1>8. (i0 + 1) + h0 + o0 + g0 <= n0 + 1
  BY <1>6
<1>9. Len(inbox'[c]) + Holding(c)' + Len(outbox'[c]) + Len(got'[c]) <= sent'[c] + copies'[c]
  BY <1>5, <1>7, <1>8 DEF i0, o0, g0
<1> QED
  BY <1>3, <1>5, <1>9 DEF Counted

\* The network repeats one, there or back.
LEMMA CountedRepeats ==
    ASSUME TypeOK, NEW c \in Clients, Counted(c), NEW u \in SentBy(c),
           copies'[c] = copies[c] + 1, UNCHANGED <<held[c], got[c], sent[c]>>,
           \/ inbox'[c] = Append(inbox[c], u) /\ outbox'[c] = outbox[c]
           \/ outbox'[c] = Append(outbox[c], u) /\ inbox'[c] = inbox[c]
    PROVE  Counted(c)'
<1> DEFINE i0 == Len(inbox[c])
           h0 == Holding(c)
           o0 == Len(outbox[c])
           g0 == Len(got[c])
           n0 == sent[c] + copies[c]
<1>1. u \in Units
  <2>1. setup.units \in Nat /\ sent[c] \in 0..setup.units
    BY SocketsAssumption DEF TypeOK, LifeOK, ConnOK
  <2> QED
    BY <2>1 DEF SentBy, Units
<1>2. SentBy(c)' = SentBy(c) /\ Holding(c)' = Holding(c)
  BY DEF SentBy, Holding
<1>3. /\ i0 + h0 + o0 + g0 <= n0
      /\ i0 \in Nat /\ h0 \in Nat /\ o0 \in Nat /\ g0 \in Nat /\ n0 \in Nat
  BY Sizes DEF Counted
<1>4. sent'[c] + copies'[c] = n0 + 1
  BY Sizes
<1> HIDE DEF i0, h0, o0, g0, n0
<1>5. CASE inbox'[c] = Append(inbox[c], u) /\ outbox'[c] = outbox[c]
  <2>1. Within(inbox'[c], SentBy(c)) /\ Len(inbox'[c]) = Len(inbox[c]) + 1
    BY <1>1, <1>5, Sizes, WithinAppend DEF Counted
  <2>2. (i0 + 1) + h0 + o0 + g0 <= n0 + 1
    BY <1>3
  <2>3. Len(inbox'[c]) + Holding(c)' + Len(outbox'[c]) + Len(got'[c]) <= sent'[c] + copies'[c]
    BY <1>2, <1>4, <1>5, <2>1, <2>2 DEF i0, h0, o0, g0
  <2> QED
    BY <1>2, <1>5, <2>1, <2>3 DEF Counted
<1>6. CASE outbox'[c] = Append(outbox[c], u) /\ inbox'[c] = inbox[c]
  <2>1. Within(outbox'[c], SentBy(c)) /\ Len(outbox'[c]) = Len(outbox[c]) + 1
    BY <1>1, <1>6, Sizes, WithinAppend DEF Counted
  <2>2. i0 + h0 + (o0 + 1) + g0 <= n0 + 1
    BY <1>3
  <2>3. Len(inbox'[c]) + Holding(c)' + Len(outbox'[c]) + Len(got'[c]) <= sent'[c] + copies'[c]
    BY <1>2, <1>4, <1>6, <2>1, <2>2 DEF i0, h0, o0, g0
  <2> QED
    BY <1>2, <1>6, <2>1, <2>3 DEF Counted
<1> QED
  BY <1>5, <1>6

\* The count holds for every client after every step.
LEMMA UdpStep ==
    ASSUME TypeOK, LoopInv, TypeOK', UdpInv, [Next]_vars
    PROVE  UdpInv'
<1>1. setup' = setup /\ Kind' = Kind /\ Steps
  BY StepsOfNext DEF Kind
<1> SUFFICES ASSUME NEW c \in Clients, Kind = "udp"
             PROVE  Counted(c)'
  BY <1>1 DEF UdpInv
<1>2. Counted(c) /\ Kind \in Datagrams
  BY DEF UdpInv, Datagrams
<1>3. /\ Within(inbox[c], SentBy(c)) /\ Within(outbox[c], SentBy(c))
      /\ Len(inbox[c]) <= Len(inbox[c]) /\ Len(outbox[c]) <= Len(outbox[c])
      /\ Within(<<>>, SentBy(c)) /\ Len(<<>>) <= Len(inbox[c]) /\ Len(<<>>) <= Len(outbox[c])
  <2>1. \A n \in Nat : n <= n /\ 0 <= n
    OBVIOUS
  <2> QED
    BY <1>2, <2>1, Sizes, WithinEmpty DEF Counted
<1> USE DEF service, wires, clients
<1>4. CASE Quiet
  BY <1>2, <1>3, <1>4, CountedLess DEF Quiet
<1>5. CASE Drops
  <2>1. inbox'[c] = <<>> /\ UNCHANGED <<outbox[c], got[c], held[c], sent[c], copies[c]>>
    BY <1>5 DEF Drops
  <2> QED
    BY <1>2, <1>3, <2>1, CountedLess
<1>6. CASE GivesUp
  <2>1. /\ held'[c] = Nothing
        /\ UNCHANGED <<inbox[c], outbox[c], got[c], sent[c], copies[c]>>
    BY <1>6 DEF GivesUp, EndReceiving
  <2> QED
    BY <1>2, <1>3, <2>1, CountedLess
<1>7. CASE WriteTo
  <2>1. /\ held'[c] = Nothing /\ UNCHANGED <<inbox[c], got[c], sent[c], copies[c]>>
        /\ cur \in Clients /\ held[cur] # Nothing
    BY <1>7 DEF WriteTo, LoopInv, PlaceInv, TypeOK, ConnOK
  <2>2. CASE outbox'[c] = outbox[c]
    BY <1>2, <1>3, <2>1, <2>2, CountedLess
  <2>3. CASE outbox'[c] # outbox[c]
    <3>1. c = cur /\ outbox'[c] = Append(outbox[c], held[c])
      BY <1>7, <2>1, <2>3 DEF WriteTo, TypeOK, ConnOK
    <3> QED
      BY <1>2, <2>1, <3>1, CountedAnswers
  <2> QED
    BY <2>2, <2>3
<1>8. ASSUME NEW d \in Clients, ReadFrom(d)
      PROVE  Counted(c)'
  <2>1. UNCHANGED <<outbox[c], got[c], sent[c], copies[c]>> /\ loop = "read"
    BY <1>8 DEF ReadFrom
  <2>2. CASE c # d
    <3>1. UNCHANGED <<held[c], inbox[c]>>
      BY <1>8, <2>2 DEF ReadFrom, TypeOK, ConnOK
    <3> QED
      BY <1>2, <1>3, <2>1, <3>1, CountedLess
  <2>3. CASE c = d
    <3>1. PICK i \in DOMAIN inbox[c] :
              /\ held' = [held EXCEPT ![c] = inbox[c][i]]
              /\ inbox' = [inbox EXCEPT ![c] = Cut(inbox[c], i)]
      BY <1>8, <2>3 DEF ReadFrom, Cut
    <3>2. held'[c] = inbox[c][i] /\ inbox'[c] = Cut(inbox[c], i)
      BY <3>1 DEF TypeOK, ConnOK
    <3>3. held[c] = Nothing
      BY <1>2, <2>1 DEF LoopInv, AbsentInv, TypeOK, ConnOK
    <3> QED
      BY <1>2, <2>1, <3>2, <3>3, CountedReads
  <2> QED
    BY <2>2, <2>3
<1>9. ASSUME NEW d \in Clients, Client(d)
      PROVE  Counted(c)'
  <2>1. held'[c] = held[c]
    <3>1. ASSUME Connect(d) \/ Send(d) \/ Receive(d)
          PROVE  held' = held
      BY <3>1 DEF Connect, Send, Receive, service
    <3>2. ASSUME Finish(d) \/ Leave(d) \/ Lose(d)
          PROVE  held' = held
      BY <3>2 DEF Finish, Leave, Lose, service
    <3>3. ASSUME Duplicate(d)
          PROVE  held' = held
      BY <3>3 DEF Duplicate, service
    <3> QED
      BY <1>9, <3>1, <3>2, <3>3 DEF Client
  <2>2. CASE UNCHANGED <<inbox[c], outbox[c], got[c], sent[c], copies[c]>>
    BY <1>2, <1>3, <2>1, <2>2, CountedLess
  <2>3. CASE c # d
    <3>1. ASSUME Connect(d) \/ Send(d) \/ Finish(d)
          PROVE  UNCHANGED <<inbox[c], outbox[c], got[c], sent[c], copies[c]>>
      <4>1. ASSUME Connect(d) \/ Finish(d)
            PROVE  UNCHANGED <<inbox[c], outbox[c], got[c], sent[c], copies[c]>>
        BY <4>1 DEF Connect, Finish
      <4>2. ASSUME Send(d)
            PROVE  UNCHANGED <<inbox[c], outbox[c], got[c], sent[c], copies[c]>>
        <5>1. UNCHANGED <<outbox, got, copies>>
          BY <4>2 DEF Send
        <5>2. inbox'[c] = inbox[c] /\ sent'[c] = sent[c]
          BY <2>3, <4>2 DEF Send, TypeOK, ConnOK
        <5> QED
          BY <5>1, <5>2
      <4> QED
        BY <3>1, <4>1, <4>2
    <3>2. ASSUME Receive(d) \/ Leave(d)
          PROVE  UNCHANGED <<inbox[c], outbox[c], got[c], sent[c], copies[c]>>
      BY <2>3, <3>2 DEF Receive, Leave, TypeOK, ConnOK
    <3>3. ASSUME Lose(d)
          PROVE  UNCHANGED <<inbox[c], outbox[c], got[c], sent[c], copies[c]>>
      BY <2>3, <3>3 DEF Lose, TypeOK, ConnOK
    <3>4. ASSUME Duplicate(d)
          PROVE  UNCHANGED <<inbox[c], outbox[c], got[c], sent[c], copies[c]>>
      <4>1. UNCHANGED <<got, sent>> /\ copies'[c] = copies[c]
        BY <2>3, <3>4 DEF Duplicate, TypeOK, ConnOK
      <4>2. inbox'[c] = inbox[c]
        <5>1. CASE UNCHANGED inbox
          BY <5>1
        <5>2. CASE \E k \in 1..sent[d] : inbox' = [inbox EXCEPT ![d] = Append(@, <<d, k>>)]
          BY <2>3, <5>2 DEF TypeOK, ConnOK
        <5> QED
          BY <3>4, <5>1, <5>2 DEF Duplicate
      <4>3. outbox'[c] = outbox[c]
        <5>1. CASE UNCHANGED outbox
          BY <5>1
        <5>2. CASE \E echoed \in {outbox[d], got[d]} : \E i \in DOMAIN echoed :
                       outbox' = [outbox EXCEPT ![d] = Append(@, echoed[i])]
          BY <2>3, <5>2 DEF TypeOK, ConnOK
        <5> QED
          BY <3>4, <5>1, <5>2 DEF Duplicate
      <4> QED
        BY <4>1, <4>2, <4>3
    <3>5. UNCHANGED <<inbox[c], outbox[c], got[c], sent[c], copies[c]>>
      BY <1>9, <3>1, <3>2, <3>3, <3>4 DEF Client
    <3> QED
      BY <2>2, <3>5
  <2>4. CASE c = d /\ (Connect(c) \/ Finish(c))
    BY <2>2, <2>4 DEF Connect, Finish
  <2>5. CASE c = d /\ Send(c)
    <3>1. /\ sent[c] < setup.units /\ sent'[c] = sent[c] + 1
          /\ inbox'[c] = Append(inbox[c], <<c, sent[c] + 1>>)
          /\ UNCHANGED <<outbox[c], held[c], got[c], copies[c]>>
      BY <2>5 DEF Send, TypeOK, ConnOK
    <3> QED
      BY <1>2, <3>1, CountedSends
  <2>6. CASE c = d /\ Receive(c)
    <3>1. /\ outbox[c] # <<>> /\ outbox'[c] = Tail(outbox[c])
          /\ got'[c] = Append(got[c], Head(outbox[c]))
          /\ UNCHANGED <<inbox[c], held[c], sent[c], copies[c]>>
      BY <2>6 DEF Receive, TypeOK, ConnOK
    <3> QED
      BY <1>2, <3>1, CountedReceives
  <2>7. CASE c = d /\ Leave(c)
    <3>1. outbox'[c] = <<>> /\ UNCHANGED <<inbox[c], got[c], sent[c], copies[c]>>
      BY <2>7 DEF Leave, TypeOK, ConnOK
    <3> QED
      BY <1>2, <1>3, <2>1, <3>1, CountedLess
  <2>8. CASE c = d /\ Lose(c)
    <3>1. UNCHANGED <<got[c], sent[c], copies[c]>>
      BY <2>8 DEF Lose
    <3>2. \A n \in Nat : n - 1 <= n
      OBVIOUS
    <3>3. CASE inbox[c] # <<>> /\ inbox'[c] = Tail(inbox[c]) /\ outbox'[c] = outbox[c]
      <4>1. Within(inbox'[c], SentBy(c)) /\ Len(inbox'[c]) = Len(inbox[c]) - 1
        BY <1>3, <3>3, Sizes, WithinTail
      <4>2. Len(inbox'[c]) <= Len(inbox[c])
        BY <3>2, <4>1, Sizes
      <4> QED
        BY <1>2, <1>3, <2>1, <3>1, <3>3, <4>1, <4>2, CountedLess
    <3>4. CASE outbox[c] # <<>> /\ outbox'[c] = Tail(outbox[c]) /\ inbox'[c] = inbox[c]
      <4>1. Within(outbox'[c], SentBy(c)) /\ Len(outbox'[c]) = Len(outbox[c]) - 1
        BY <1>3, <3>4, Sizes, WithinTail
      <4>2. Len(outbox'[c]) <= Len(outbox[c])
        BY <3>2, <4>1, Sizes
      <4> QED
        BY <1>2, <1>3, <2>1, <3>1, <3>4, <4>1, <4>2, CountedLess
    <3> QED
      BY <2>8, <3>3, <3>4 DEF Lose, TypeOK, ConnOK
  <2>9. CASE c = d /\ Duplicate(c)
    <3>1. copies'[c] = copies[c] + 1 /\ UNCHANGED <<held[c], got[c], sent[c]>>
      BY <2>9 DEF Duplicate, TypeOK, ConnOK
    <3>2. \E u \in SentBy(c) :
              \/ inbox'[c] = Append(inbox[c], u) /\ outbox'[c] = outbox[c]
              \/ outbox'[c] = Append(outbox[c], u) /\ inbox'[c] = inbox[c]
      <4>1. CASE /\ \E k \in 1..sent[c] : inbox' = [inbox EXCEPT ![c] = Append(@, <<c, k>>)]
                 /\ UNCHANGED outbox
        <5>1. PICK k \in 1..sent[c] : inbox' = [inbox EXCEPT ![c] = Append(@, <<c, k>>)]
          BY <4>1
        <5>2. <<c, k>> \in SentBy(c)
          BY DEF SentBy
        <5>3. inbox'[c] = Append(inbox[c], <<c, k>>)
          BY <5>1 DEF TypeOK, ConnOK
        <5> QED
          BY <4>1, <5>2, <5>3
      <4>2. CASE /\ \E echoed \in {outbox[c], got[c]} : \E i \in DOMAIN echoed :
                        outbox' = [outbox EXCEPT ![c] = Append(@, echoed[i])]
                 /\ UNCHANGED inbox
        <5>1. PICK echoed \in {outbox[c], got[c]} : \E i \in DOMAIN echoed :
                  outbox' = [outbox EXCEPT ![c] = Append(@, echoed[i])]
          BY <4>2
        <5>2. PICK i \in DOMAIN echoed :
                  outbox' = [outbox EXCEPT ![c] = Append(@, echoed[i])]
          BY <5>1
        <5>3. echoed[i] \in SentBy(c)
          BY <1>2 DEF Counted, Within
        <5> QED
          BY <4>2, <5>2, <5>3 DEF TypeOK, ConnOK
      <4> QED
        BY <2>9, <4>1, <4>2 DEF Duplicate
    <3> QED
      BY <1>2, <3>1, <3>2, CountedRepeats
  <2> QED
    BY <1>9, <2>3, <2>4, <2>5, <2>6, <2>7, <2>8, <2>9 DEF Client
<1> QED
  BY <1>1, <1>2, <1>4, <1>5, <1>6, <1>7, <1>8, <1>9
     DEF Steps, Closes, Accepts, Handles

-----------------------------------------------------------------------------
(* The peer credentials service                                            *)

\* Closing connections, or all of them at the end, does not admit anybody.
LEMMA CredsCloses ==
    ASSUME TypeOK, CredsInv, NEW S, CloseConns(S), UNCHANGED <<setup, peer, told>>,
           \/ UNCHANGED <<loop, cur>>
           \/ loop' = "exit" /\ S = Connected
    PROVE  CredsInv'
<1>1. Groups' = Groups /\ Creds' = Creds
  BY DEF Groups, Creds, Kind
<1> SUFFICES ASSUME Creds
             PROVE  CredsInv'
  BY <1>1 DEF CredsInv
<1>2. ASSUME NEW c \in Clients
      PROVE  conn'[c] = "closed" \/ (conn'[c] = conn[c] /\ c \notin S)
  BY Closed DEF TypeOK
<1>3. CASE UNCHANGED <<loop, cur>>
  BY <1>1, <1>2, <1>3 DEF CredsInv, KeepsOnlyAllowed, Creds
<1>4. CASE loop' = "exit" /\ S = Connected
  <2>1. \A c \in Clients : conn'[c] # "open"
    BY <1>2, <1>4 DEF Connected
  <2> QED
    BY <1>1, <1>2, <1>4, <2>1 DEF CredsInv, KeepsOnlyAllowed, Creds
<1> QED
  BY <1>3, <1>4

\* A step of the service itself.
LEMMA CredsMainStep ==
    ASSUME TypeOK, LoopInv, CredsInv, Creds,
           CredsMain \/ CloseOnSignal \/ InterruptCreds \/ AcceptUnixFails
    PROVE  CredsInv'
<1>1. setup' = setup
  BY CredsSteps
<1>2. Groups' = Groups /\ Creds' = Creds
  BY <1>1 DEF Groups, Creds, Kind
<1> USE DEF service, wires, clients
<1>3. ASSUME UNCHANGED <<conn, peer, told>>,
             loop' \notin {"check", "welcome", "deny"}, loop \notin {"check", "welcome", "deny"}
      PROVE  CredsInv'
  BY <1>2, <1>3 DEF CredsInv, KeepsOnlyAllowed, Creds
<1>4. CASE ListenUnix
  BY <1>3, <1>4, CredsCloses DEF ListenUnix, ProcessEnds
<1>5. CASE Notify
  BY <1>3, <1>5 DEF Notify
<1>6. CASE CloseOnSignal
  BY <1>6, CredsCloses DEF CloseOnSignal, CloseListener
<1>7. CASE AcceptUnixClosed \/ AcceptUnixFails
  BY <1>7, CredsCloses DEF AcceptUnixClosed, AcceptUnixFails, ProcessEnds
<1>8. ASSUME NEW c \in Clients, AcceptUnix(c)
      PROVE  CredsInv'
  <2>1. /\ conn[c] = "queued" /\ conn' = [conn EXCEPT ![c] = "open"]
        /\ cur' = c /\ loop' = "check" /\ loop = "accept" /\ UNCHANGED <<peer, told>>
    BY <1>8 DEF AcceptUnix
  <2>2. peer[c] # "none"
    BY <2>1 DEF LoopInv, AbsentInv
  <2>3. \A d \in Clients : d # c => conn'[d] = conn[d]
    BY <2>1 DEF TypeOK, ConnOK
  <2> QED
    BY <1>2, <2>1, <2>2, <2>3 DEF CredsInv, KeepsOnlyAllowed, Creds
<1>9. CASE Check
  <2>1. UNCHANGED <<cur, conn, peer, told>> /\ loop = "check" /\ loop' \in {"welcome", "deny"}
    BY <1>9 DEF Check
  <2>2. loop' = "welcome" => Gids[cur] \intersect Groups # {}
    BY <1>9 DEF Check, Allowed
  <2> QED
    BY <1>2, <2>1, <2>2 DEF CredsInv, KeepsOnlyAllowed, Creds
<1>10. CASE Welcome
  <2>1. /\ loop = "welcome" /\ cur \in Clients /\ Gids[cur] \intersect Groups # {}
        /\ peer[cur] # "none" /\ UNCHANGED <<conn, peer>>
    BY <1>10 DEF Welcome, LoopInv, PlaceInv, CredsInv, Creds
  <2>2. CASE loop' = "deny" /\ UNCHANGED <<told, cur>>
    BY <1>2, <2>1, <2>2 DEF CredsInv, KeepsOnlyAllowed, Creds
  <2>3. CASE peer[cur] # "closed" /\ told' = [told EXCEPT ![cur] = "welcome"] /\ loop' = "accept"
    <3>1. told'[cur] = "welcome" /\ \A d \in Clients : d # cur => told'[d] = told[d]
      BY <2>1, <2>3 DEF TypeOK, ConnOK
    <3> QED
      BY <1>2, <2>1, <2>3, <3>1 DEF CredsInv, KeepsOnlyAllowed, Creds
  <2> QED
    BY <1>10, <2>2, <2>3 DEF Welcome
<1>11. CASE Deny
  <2>1. /\ loop = "deny" /\ cur \in Clients /\ peer[cur] # "none" /\ peer' = peer
        /\ loop' = "accept" /\ CloseConns({cur})
        /\ told' = [told EXCEPT ![cur] = IF peer[cur] = "closed" THEN @ ELSE "denied"]
    BY <1>11 DEF Deny, LoopInv, PlaceInv, CredsInv, Creds
  <2>2. conn'[cur] = "closed" /\ \A d \in Clients : d # cur => conn'[d] = conn[d]
    BY <2>1, Closed DEF TypeOK
  <2>3. /\ told'[cur] \in {told[cur], "denied"}
        /\ \A d \in Clients : d # cur => told'[d] = told[d]
    BY <2>1 DEF TypeOK, ConnOK
  <2> QED
    BY <1>2, <2>1, <2>2, <2>3 DEF CredsInv, KeepsOnlyAllowed, Creds
<1>12. CASE InterruptCreds
  <2>1. CASE ProcessEnds("killed") /\ UNCHANGED cur
    BY <1>12, <2>1, CredsCloses DEF InterruptCreds, ProcessEnds
  <2>2. CASE UNCHANGED <<sock, file, watcher, loop, cur, result, service, wires>>
    BY <1>2, <1>12, <2>2 DEF InterruptCreds, CredsInv, KeepsOnlyAllowed, Creds
  <2> QED
    BY <1>12, <2>1, <2>2 DEF InterruptCreds
<1> QED
  BY <1>4, <1>5, <1>6, <1>7, <1>8, <1>9, <1>10, <1>11, <1>12 DEF CredsMain

\* The other actions belong to other services, or to the peers.
LEMMA CredsStep ==
    ASSUME TypeOK, LoopInv, CredsInv, [Next]_vars
    PROVE  CredsInv'
<1>1. setup' = setup
  BY StepsOfNext
<1>2. Groups' = Groups /\ Creds' = Creds
  BY <1>1 DEF Groups, Creds, Kind
<1> SUFFICES ASSUME Creds
             PROVE  CredsInv'
  BY <1>2 DEF CredsInv
<1>3. CASE CredsMain \/ CloseOnSignal \/ InterruptCreds \/ AcceptUnixFails
  BY <1>3, CredsMainStep
<1>4. CASE Remove \/ Ready \/ UNCHANGED vars
  BY <1>2, <1>4 DEF Remove, Ready, vars, life, service, clients, CredsInv, KeepsOnlyAllowed, Creds
<1>5. ASSUME NEW c \in Clients, Client(c)
      PROVE  CredsInv'
  <2>1. UNCHANGED <<loop, cur, told>>
    BY <1>5 DEF Client, Connect, Send, Receive, Finish, Leave, Lose, Duplicate, life, clients
  <2>2. /\ \A d \in Clients : peer[d] # "none" => peer'[d] # "none"
        /\ \A d \in Clients : conn'[d] = conn[d] \/ (peer[d] = "none" /\ conn'[d] = "queued")
    BY <1>5 DEF Client, Connect, Send, Receive, Finish, Leave, Lose, Duplicate, service, clients, TypeOK, ConnOK
  <2>3. loop \in {"check", "welcome", "deny"} => cur \in Clients
    BY DEF LoopInv, PlaceInv
  <2> QED
    BY <1>2, <2>1, <2>2, <2>3 DEF CredsInv, KeepsOnlyAllowed, Creds
<1>6. ~(StreamingEchoServer \/ ListenAndServeTLS \/ EchoServerUDP \/ DatagramEchoServer \/ Run)
  BY DEF Creds, StreamingEchoServer, StartStream, ListenAndServeTLS, Listen, LoadKeyPair,
     EchoServerUDP, StartUDP, DatagramEchoServer, StartUnixgram, Run, ListenAfterClose,
     ListenFails, ListenAndServe, ServerClosed, AcceptHttp, Only, Http
<1>7. ~(CloseOnDone \/ CloseUDP \/ CloseUnixgram \/ NotifyHttp \/ CloseServer
          \/ Cancel \/ InterruptHttp \/ AcceptFails \/ WriteToRefused)
  BY DEF Creds, CloseOnDone, CloseUDP, CloseUnixgram, NotifyHttp, CloseServer, Cancel,
     InterruptHttp, AcceptFails, WriteToRefused, Only, Http, Streams, Datagrams
<1>8. \A c \in Clients : ~(Handler(c) \/ Idle(c) \/ Timeout(c))
  BY DEF Creds, Handler, StreamConn, TlsConn, HttpConn, Idle, Timeout, Only, Http
<1> QED
  BY <1>3, <1>4, <1>5, <1>6, <1>7, <1>8 DEF Next, Loop, Watcher, Environment

-----------------------------------------------------------------------------
(* Reports                                                                 *)

\* What the connections do is not in a report.
LEMMA ReportSame ==
    ASSUME ReportInv, UNCHANGED <<setup, ctx, sock, watcher, loop, result, ready, waiter>>
    PROVE  ReportInv'
  BY DEF ReportInv, ReportsAreTrue, Kind, Http

LEMMA ReportStep ==
    ASSUME TypeOK, LoopInv, ReportInv, [Next]_vars
    PROVE  ReportInv'
<1>1. setup' = setup /\ Kind' = Kind /\ (sock # "none" => sock' # "none")
  BY StepsOfNext, SocketStep DEF Kind
<1>2. LifeOK /\ PlaceInv /\ Kind \in Kinds /\ (Kind = "tls" => setup.channel \in BOOLEAN)
  BY SocketsAssumption DEF TypeOK, LifeOK, LoopInv, Kind
<1> USE DEF ReportInv, ReportsAreTrue, Http, Creds, Only, Kinds, LifeOK, PlaceInv, readiness
<1>3. CASE StreamingEchoServer \/ ListenAndServeTLS \/ AcceptFails
  <2> USE DEF Streams
  <2>1. CASE StartStream \/ Listen
    BY <1>1, <1>2, <2>1 DEF StartStream, Listen, Bind, BindFails
  <2>2. CASE LoadKeyPair
    BY <1>1, <1>2, <2>2 DEF LoadKeyPair, LoadsKeyPair, LoadFails, CloseReady
  <2>3. CASE AcceptClosed \/ AcceptFails
    BY <1>1, <1>2, <2>3 DEF AcceptClosed, AcceptFails, EndAccepting
  <2>4. ASSUME NEW c \in Clients, Accept(c)
        PROVE  ReportInv'
    BY <2>4, ReportSame DEF Accept, life
  <2> QED
    BY <1>3, <2>1, <2>2, <2>3, <2>4
       DEF StreamingEchoServer, ListenAndServeTLS, AcceptLoop
<1>4. CASE EchoServerUDP \/ DatagramEchoServer \/ CloseUDP \/ CloseUnixgram \/ WriteToRefused
  <2> USE DEF Datagrams
  <2>1. CASE StartUDP \/ StartUnixgram
    BY <1>1, <1>2, <2>1 DEF StartUDP, StartUnixgram, Bind, BindFails
  <2>2. CASE (\E c \in Clients : ReadFrom(c)) \/ ReadFromClosed \/ WriteTo \/ WriteToFails \/ WriteToRefused
    <3>1. /\ Kind \in Datagrams /\ UNCHANGED <<ctx, sock, watcher, result, ready, waiter>>
      BY <2>2 DEF ReadFrom, ReadFromClosed, WriteTo, WriteToFails, WriteToRefused,
       EndReceiving
    <3> QED
      BY <1>1, <1>2, <3>1
  <2>3. CASE CloseUDP \/ CloseUnixgram
    BY <1>1, <1>2, <2>3 DEF CloseUDP, CloseUnixgram
  <2> QED
    BY <1>4, <2>1, <2>2, <2>3 DEF EchoServerUDP, DatagramEchoServer, ReceiveLoop
<1>5. CASE CredsMain \/ CloseOnSignal \/ InterruptCreds \/ AcceptUnixFails
  <2>1. ASSUME Creds, result' \in {result, "nil", "error", "failed", "killed"}, UNCHANGED <<ready, waiter>>
        PROVE  ReportInv'
    BY <1>1, <1>2, <2>1
  <2>2. CASE ListenUnix \/ Notify \/ \E c \in Clients : AcceptUnix(c)
    BY <2>1, <2>2 DEF ListenUnix, Notify, AcceptUnix, ProcessEnds
  <2>3. CASE Check \/ Welcome \/ Deny
    BY <1>2, <2>1, <2>3 DEF Check, Welcome, Deny
  <2>4. CASE AcceptUnixClosed \/ AcceptUnixFails \/ CloseOnSignal \/ InterruptCreds
    BY <2>1, <2>4 DEF AcceptUnixClosed, AcceptUnixFails, CloseOnSignal, InterruptCreds,
       ProcessEnds, CloseListener
  <2> QED
    BY <1>5, <2>2, <2>3, <2>4 DEF CredsMain
<1>6. CASE Run \/ NotifyHttp \/ CloseServer \/ InterruptHttp
  <2>1. CASE ListenAfterClose \/ ListenFails \/ ListenAndServe \/ ServerClosed
    BY <1>1, <1>2, <2>1 DEF ListenAfterClose, ListenFails, ListenAndServe, ServerClosed, ProcessEnds
  <2>2. CASE NotifyHttp \/ CloseServer \/ InterruptHttp
    BY <1>1, <1>2, <2>2 DEF NotifyHttp, CloseServer, InterruptHttp, ProcessEnds
  <2>3. ASSUME NEW c \in Clients, AcceptHttp(c)
        PROVE  ReportInv'
    BY <2>3, ReportSame DEF AcceptHttp, life
  <2> QED
    BY <1>6, <2>1, <2>2, <2>3 DEF Run
<1>7. ASSUME NEW c \in Clients, Handler(c) \/ Idle(c) \/ Timeout(c) \/ Client(c)
      PROVE  ReportInv'
  <2>1. UNCHANGED <<setup, life, readiness>>
    BY <1>7 DEF Handler, StreamConn, TlsConn, HttpConn, Serve, Read, ReadInto, ReadFails,
       Write, WriteFails, NotTLS, Idle, Timeout, Client, Connect, Send, Receive, Finish, Leave,
       Lose, Duplicate
  <2> QED
    BY <2>1, ReportSame DEF life
<1>8. CASE CloseOnDone \/ Remove \/ Ready \/ Cancel \/ UNCHANGED vars
  <2> USE DEF life
  <2>1. CASE CloseOnDone
    BY <1>1, <1>2, <2>1 DEF CloseOnDone, Streams, CloseListener
  <2>2. CASE Remove
    BY <1>1, <1>2, <2>2 DEF Remove
  <2>3. CASE Ready
    BY <1>1, <1>2, <2>3 DEF Ready
  <2>4. CASE Cancel
    BY <1>1, <1>2, <2>4 DEF Cancel, Streams, Datagrams
  <2>5. CASE UNCHANGED vars
    BY <2>5, ReportSame DEF vars
  <2> QED
    BY <1>8, <2>1, <2>2, <2>3, <2>4, <2>5
<1> QED
  BY <1>3, <1>4, <1>5, <1>6, <1>7, <1>8 DEF Next, Loop, Watcher, Environment

-----------------------------------------------------------------------------
(* The services keep to all of it                                          *)

LEMMA FreshConns ==
    ASSUME Fresh, setup \in Setups
    PROVE  ConnOK /\ AbsentInv /\ RowInv /\ UdpInv
<1>1. \A c \in Clients :
          /\ conn[c] = "none" /\ handler[c] = "off" /\ held[c] = Nothing /\ peer[c] = "none"
          /\ inbox[c] = <<>> /\ outbox[c] = <<>> /\ got[c] = <<>>
          /\ told[c] = "nothing" /\ sent[c] = 0 /\ copies[c] = 0
  BY DEF Fresh
<1>2. setup.units \in Nat /\ Capacity \in Nat /\ MaxCopies \in Nat
  BY SocketsAssumption
<1>3. <<>> \in Seq(Units) /\ Len(<<>>) = 0
  OBVIOUS
<1>4. ConnOK
  BY <1>1, <1>2, <1>3 DEF Fresh, ConnOK
<1>5. AbsentInv
  BY <1>1 DEF Fresh, AbsentInv
<1>6. RowInv
  <2>1. ASSUME NEW c \in Clients
        PROVE  InRow(c)
    <3>1. Numbered(got[c], c, 0) /\ Numbered(outbox[c], c, 0) /\ Numbered(inbox[c], c, 0)
      BY <1>1, NumberedEmpty
    <3>2. Len(got[c]) = 0 /\ Len(outbox[c]) = 0 /\ Len(inbox[c]) = 0
      BY <1>1
    <3> HIDE DEF Numbered
    <3> QED
      BY <1>1, <3>1, <3>2 DEF InRow, Holding
  <2> QED
    BY <2>1 DEF RowInv
<1>7. UdpInv
  <2>1. ASSUME NEW c \in Clients
        PROVE  Counted(c)
    <3>1. Within(inbox[c], SentBy(c)) /\ Within(outbox[c], SentBy(c)) /\ Within(got[c], SentBy(c))
      BY <1>1, WithinEmpty
    <3>2. Len(inbox[c]) = 0 /\ Len(outbox[c]) = 0 /\ Len(got[c]) = 0 /\ Holding(c) = 0
      BY <1>1 DEF Holding
    <3>3. 0 + 0 + 0 + 0 <= 0 + 0
      OBVIOUS
    <3> QED
      BY <1>1, <3>1, <3>2, <3>3 DEF Counted
  <2> QED
    BY <2>1 DEF UdpInv
<1> QED
  BY <1>4, <1>5, <1>6, <1>7

LEMMA ServersInit == Init => ServersInv
<1> SUFFICES ASSUME Init
             PROVE  ServersInv
  OBVIOUS
<1>1. Fresh /\ setup \in Setups
  BY DEF Init
<1>2. ConnOK /\ AbsentInv /\ RowInv /\ UdpInv
  BY <1>1, FreshConns
<1>3. LifeOK /\ PlaceInv
  BY DEF Init, InitialContext, Fresh, LifeOK, PlaceInv, Http, Creds, Kind, Datagrams
<1>4. CredsInv
  BY <1>1 DEF CredsInv, KeepsOnlyAllowed, Fresh
<1>5. ReportInv
  BY <1>1, SocketsAssumption DEF Init, Fresh, ReportInv, ReportsAreTrue, Http, Kind
<1> QED
  BY <1>2, <1>3, <1>4, <1>5 DEF ServersInv, TypeOK, LoopInv

\* The inductive invariant: every conjunct is kept with the help of the types and of
\* where the loop is.
THEOREM ServersInvariant == Spec => []ServersInv
<1>1. ASSUME ServersInv, [Next]_vars
      PROVE  ServersInv'
  <2>1. TypeOK /\ LoopInv /\ RowInv /\ UdpInv /\ CredsInv /\ ReportInv
    BY <1>1 DEF ServersInv
  <2>2. TypeOK'
    BY <1>1, <2>1, TypesStep
  <2>3. LoopInv'
    BY <1>1, <2>1, PlaceStep, AbsentStep DEF LoopInv
  <2>4. RowInv' /\ UdpInv'
    BY <1>1, <2>1, <2>2, <2>3, RowStep, UdpStep
  <2>5. CredsInv' /\ ReportInv'
    BY <1>1, <2>1, CredsStep, ReportStep
  <2> QED
    BY <2>2, <2>3, <2>4, <2>5 DEF ServersInv
<1> QED
  BY ServersInit, <1>1, PTL DEF Spec

\* A receive loop deals with one client and a handler with its own, each with one
\* unit, exactly between reading and writing it; no buffer exceeds its capacity.
THEOREM ServersTypes == Spec => []TypeOK
<1>1. ServersInv => TypeOK
  BY DEF ServersInv
<1> QED
  BY ServersInvariant, <1>1, PTL

\* Two sequences after each other, element by element.
LEMMA Concatenated ==
    ASSUME NEW T, NEW s \in Seq(T), NEW t \in Seq(T)
    PROVE  /\ DOMAIN (s \o t) = 1..(Len(s) + Len(t))
           /\ \A i \in 1..(Len(s) + Len(t)) :
                  IF i <= Len(s) THEN i \in DOMAIN s /\ (s \o t)[i] = s[i]
                  ELSE i - Len(s) \in DOMAIN t /\ (s \o t)[i] = t[i - Len(s)]
<1>1. s \o t \in Seq(T) /\ Len(s \o t) = Len(s) + Len(t)
  BY ConcatProperties
<1>2. \A i \in 1..(Len(s) + Len(t)) : (s \o t)[i] = IF i <= Len(s) THEN s[i] ELSE t[i - Len(s)]
  BY ConcatProperties
<1>3. Len(s) \in Nat /\ Len(t) \in Nat /\ DOMAIN s = 1..Len(s) /\ DOMAIN t = 1..Len(t)
  BY LenProperties
<1>4. DOMAIN (s \o t) = 1..(Len(s) + Len(t))
  BY <1>1, LenProperties
<1>5. ASSUME NEW i \in 1..(Len(s) + Len(t))
      PROVE  IF i <= Len(s) THEN i \in DOMAIN s ELSE i - Len(s) \in DOMAIN t
  BY <1>3
<1> QED
  BY <1>2, <1>4, <1>5

LEMMA ConcatDomain ==
    ASSUME NEW T, NEW s \in Seq(T), NEW t \in Seq(T)
    PROVE  \E n \in Nat : DOMAIN (s \o t) = 1..n
<1>1. s \o t \in Seq(T)
  BY ConcatProperties
<1> QED
  BY <1>1, LenProperties

LEMMA NumberedConcat ==
    ASSUME NEW T, NEW s \in Seq(T), NEW t \in Seq(T), NEW c,
           Numbered(s, c, 0), Numbered(t, c, Len(s))
    PROVE  Numbered(s \o t, c, 0)
<1> SUFFICES ASSUME NEW i \in 1..(Len(s) + Len(t))
             PROVE  (s \o t)[i] = <<c, 0 + i>>
  BY Concatenated DEF Numbered
<1>1. Len(s) \in Nat /\ Len(t) \in Nat
  BY LenProperties
<1>2. CASE i <= Len(s)
  <2>1. i \in DOMAIN s /\ (s \o t)[i] = s[i]
    BY <1>2, Concatenated
  <2> QED
    BY <2>1 DEF Numbered
<1>3. CASE ~(i <= Len(s))
  <2>1. i - Len(s) \in DOMAIN t /\ (s \o t)[i] = t[i - Len(s)]
    BY <1>3, Concatenated
  <2>2. Len(s) + (i - Len(s)) = 0 + i
    BY <1>1
  <2> QED
    BY <2>1, <2>2 DEF Numbered
<1> QED
  BY <1>2, <1>3

LEMMA NumberedFromOne ==
    ASSUME NEW s, NEW n \in Nat, DOMAIN s = 1..n, NEW c, Numbered(s, c, 0)
    PROVE  \A i \in DOMAIN s : s[i] = <<c, i>>
<1> SUFFICES ASSUME NEW i \in 1..n
             PROVE  s[i] = <<c, i>>
  OBVIOUS
<1>1. s[i] = <<c, 0 + i>>
  BY DEF Numbered
<1>2. 0 + i = i
  OBVIOUS
<1> QED
  BY <1>1, <1>2

LEMMA WithinConcat ==
    ASSUME NEW T, NEW s \in Seq(T), NEW t \in Seq(T), NEW X, Within(s, X), Within(t, X)
    PROVE  Within(s \o t, X) /\ Len(s \o t) = Len(s) + Len(t)
<1>1. ASSUME NEW i \in DOMAIN (s \o t)
      PROVE  (s \o t)[i] \in X
  <2>1. CASE i <= Len(s)
    BY <2>1, Concatenated DEF Within
  <2>2. CASE ~(i <= Len(s))
    BY <2>2, Concatenated DEF Within
  <2> QED
    BY <2>1, <2>2
<1>2. Len(s \o t) = Len(s) + Len(t)
  BY ConcatProperties
<1> QED
  BY <1>1, <1>2 DEF Within

\* What a client has received and what is on the way to it is its own data: in order
\* on a stream and from a Unix datagram socket; over UDP each datagram is one it has
\* sent, and there are no more of them than have arrived at the server or come back
\* twice.
THEOREM EchoesAreOwn == Spec => []EchoesOwnData
<1>1. ASSUME ServersInv
      PROVE  EchoesOwnData
  <2>1. TypeOK /\ RowInv /\ UdpInv
    BY <1>1 DEF ServersInv
  <2> SUFFICES ASSUME NEW c \in Clients
               PROVE  LET echoed == got[c] \o outbox[c]
                      IN IF Kind = "udp"
                         THEN /\ \A i \in DOMAIN echoed :
                                     echoed[i][1] = c /\ echoed[i][2] <= sent[c]
                              /\ Len(echoed) <= sent[c] + copies[c]
                         ELSE \A i \in DOMAIN echoed : echoed[i] = <<c, i>>
    BY DEF EchoesOwnData
  <2>2. got[c] \in Seq(Units) /\ outbox[c] \in Seq(Units) /\ sent[c] \in Nat
    BY <2>1, Sizes
  <2> DEFINE echoed == got[c] \o outbox[c]
  <2>3. CASE Kind = "udp"
    <3>1. Counted(c)
      BY <2>1, <2>3 DEF UdpInv
    <3>2. Within(echoed, SentBy(c)) /\ Len(echoed) = Len(got[c]) + Len(outbox[c])
      BY <2>2, <3>1, WithinConcat DEF Counted
    <3> HIDE DEF echoed
    <3>3. \A u \in SentBy(c) : u[1] = c /\ u[2] <= sent[c]
      BY <2>2 DEF SentBy
    <3>4. \A i \in DOMAIN echoed : echoed[i][1] = c /\ echoed[i][2] <= sent[c]
      BY <3>2, <3>3 DEF Within
    <3>5. Len(got[c]) + Len(outbox[c]) <= sent[c] + copies[c]
      <4>1. Len(inbox[c]) + Holding(c) + Len(outbox[c]) + Len(got[c]) <= sent[c] + copies[c]
        BY <3>1 DEF Counted
      <4>2. \A i \in Nat, h \in Nat, o \in Nat, g \in Nat, s \in Nat, p \in Nat :
                i + h + o + g <= s + p => g + o <= s + p
        OBVIOUS
      <4> QED
        BY <2>1, <4>1, <4>2, Sizes
    <3> QED
      BY <2>3, <3>2, <3>4, <3>5 DEF echoed
  <2>4. CASE Kind # "udp"
    <3>1. Numbered(got[c], c, 0) /\ Numbered(outbox[c], c, Len(got[c]))
      BY <2>1, <2>4 DEF RowInv, InRow
    <3>2. Numbered(echoed, c, 0)
      BY <2>2, <3>1, NumberedConcat
    <3>3. PICK n \in Nat : DOMAIN echoed = 1..n
      BY <2>2, ConcatDomain
    <3> HIDE DEF echoed
    <3>4. \A i \in DOMAIN echoed : echoed[i] = <<c, i>>
      BY <3>2, <3>3, NumberedFromOne
    <3> QED
      BY <2>4, <3>4 DEF echoed
  <2> QED
    BY <2>3, <2>4
<1> QED
  BY ServersInvariant, <1>1, PTL

\* The credentials service keeps the peers of an allowed group, and no other.
THEOREM OnlyAllowedAreKept == Spec => []KeepsOnlyAllowed
<1>1. ServersInv => KeepsOnlyAllowed
  BY DEF ServersInv, CredsInv, KeepsOnlyAllowed, Creds
<1> QED
  BY ServersInvariant, <1>1, PTL

\* Ready, the addresses that are returned and the ends without an error tell the
\* truth.
THEOREM ReportsHold == Spec => []ReportsAreTrue
<1>1. ServersInv => ReportsAreTrue
  BY DEF ServersInv, ReportInv
<1> QED
  BY ServersInvariant, <1>1, PTL
=============================================================================
