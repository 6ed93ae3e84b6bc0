------------------------------- MODULE Sockets -------------------------------
(***************************************************************************)
(* What the network services of this repository share: a socket, a         *)
(* goroutine that waits for a context or a signal to close it, a loop that *)
(* reads it, and clients. A behaviour is about one service, chosen at the  *)
(* start; EchoServers, CredsServer and HttpServers say what each of them   *)
(* does and Servers puts them together.                                    *)
(*                                                                         *)
(* A unit is what one Read returns, one datagram, or one HTTP request;     *)
(* <<c, k>> is the k-th one client c sends.                                *)
(***************************************************************************)
EXTENDS Naturals, Sequences

CONSTANTS
    Clients,
    Setups,     \* the services to look at, each with its configuration and, as
                \* a bound, the units a client of it ever sends
    Capacity,   \* units a client's connection or socket buffers each way
    MaxCopies,  \* bound: datagrams of a client that the network delivers again
    Gids        \* Gids[c]: the groups of the user who runs client c

Kinds == {"tcp", "unix", "udp", "unixgram", "tls", "creds", "files", "backend"}
Datagrams == {"udp", "unixgram"}
HasFile == {"unix", "unixgram", "creds"}

ASSUME SocketsAssumption ==
    /\ Capacity \in Nat \ {0} /\ MaxCopies \in Nat
    /\ \A s \in Setups :
           /\ s.kind \in Kinds /\ s.units \in Nat
           /\ s.kind = "tls" => s.channel \in BOOLEAN

VARIABLES
    setup,      \* the service and its configuration
    ctx,        \* its context or interrupt: "live", "done", or "nil" for none
    sock,       \* its socket: "none" yet, "bound", "closed"
    file,       \* whether the socket's file exists
    watcher,    \* the goroutine that waits for ctx
    loop,       \* where the accept or receive loop, or the start before it, is
    cur,        \* the client the loop is dealing with
    result,     \* what the function that serves returned, or how its process ended
    ready,      \* the channel of Ready: "open", "closed" or "nil"
    waiter,     \* a caller of Ready
    conn,       \* the service's end of each client's connection
    handler,    \* the goroutine of the connection
    held,       \* the unit it has read and not written
    peer,       \* the client's end
    inbox,      \* units from the client not yet read
    outbox,     \* units for the client it has not received
    told,       \* what the peer credentials service wrote to the client
    sent,       \* how many units the client has sent
    got,        \* the units it has received
    copies      \* how many datagrams to or from it the network has repeated

life == <<ctx, sock, file, watcher, loop, cur, result>>
readiness == <<ready, waiter>>
service == <<conn, handler, held>>
wires == <<inbox, outbox>>
clients == <<peer, told, sent, got, copies>>
vars == <<setup, life, readiness, service, wires, clients>>

Kind == setup.kind
Nobody == "nobody"
Nothing == <<>>

\* What clients send and services hold.
Units == Clients \X (1..setup.units)

LifeOK ==
    /\ setup \in Setups
    /\ ctx \in {"live", "done", "nil"}
    /\ sock \in {"none", "bound", "closed"}
    /\ file \in BOOLEAN
    /\ watcher \in {"off", "waiting", "removing", "end"}
    /\ loop \in {"start", "notify", "load", "accept", "check", "welcome", "deny",
                 "read", "write", "end", "exit"}
    /\ cur = Nobody \/ cur \in Clients
    /\ result \in {"none", "address", "error", "nil", "failed", "killed"}
    /\ ready \in {"open", "closed", "nil"}
    /\ waiter \in {"off", "waiting", "returned"}

\* The last part says who is busy: a receive loop with one client, a handler with
\* its own, and with a unit exactly between reading and writing it.
ConnOK ==
    /\ conn \in [Clients -> {"none", "queued", "open", "closed"}]
    /\ handler \in [Clients -> {"off", "read", "write", "end"}]
    /\ held \in [Clients -> {Nothing} \union Units]
    /\ peer \in [Clients -> {"none", "open", "finished", "closed"}]
    /\ inbox \in [Clients -> Seq(Units)] /\ outbox \in [Clients -> Seq(Units)]
    /\ told \in [Clients -> {"nothing", "welcome", "denied"}]
    /\ sent \in [Clients -> 0..setup.units]
    /\ got \in [Clients -> Seq(Units)]
    /\ copies \in [Clients -> 0..MaxCopies]
    /\ \A c \in Clients :
           /\ Len(inbox[c]) <= Capacity /\ Len(outbox[c]) <= Capacity
           /\ held[c] # Nothing <=> handler[c] = "write" \/ (loop = "write" /\ cur = c)

TypeOK == LifeOK /\ ConnOK

Fresh ==
    /\ sock = "none" /\ loop = "start"
    /\ cur = Nobody /\ result = "none"
    /\ conn = [c \in Clients |-> "none"]
    /\ handler = [c \in Clients |-> "off"]
    /\ held = [c \in Clients |-> Nothing]
    /\ peer = [c \in Clients |-> "none"]
    /\ inbox = [c \in Clients |-> <<>>]
    /\ outbox = [c \in Clients |-> <<>>]
    /\ told = [c \in Clients |-> "nothing"]
    /\ sent = [c \in Clients |-> 0]
    /\ got = [c \in Clients |-> <<>>]
    /\ copies = [c \in Clients |-> 0]

Only(kinds) == Kind \in kinds

-----------------------------------------------------------------------------
(* Closing, by whoever does it                                             *)

\* The connections of S are closed. Units their clients sent are not read any
\* more; where there were some, the close is a reset that can cost the client
\* what it has not received.
CloseConns(S) ==
    /\ conn' = [c \in Clients |-> IF c \in S THEN "closed" ELSE conn[c]]
    /\ handler' = [c \in Clients |->
           IF c \in S /\ handler[c] # "off" THEN "end" ELSE handler[c]]
    /\ held' = [c \in Clients |-> IF c \in S THEN Nothing ELSE held[c]]
    /\ inbox' = [c \in Clients |-> IF c \in S THEN <<>> ELSE inbox[c]]
    /\ \E kept \in [Clients -> 0..Capacity] :
           /\ \A c \in Clients :
                  /\ kept[c] <= Len(outbox[c])
                  /\ c \notin S \/ inbox[c] = <<>> => kept[c] = Len(outbox[c])
           /\ outbox' = [c \in Clients |-> SubSeq(outbox[c], 1, kept[c])]

\* Connections nobody has accepted go with the listener.
Queued == {c \in Clients : conn[c] = "queued"}
Connected == {c \in Clients : conn[c] \in {"queued", "open"}}

\* Close of a listener. Go removes the file of a Unix listener with it.
CloseListener ==
    /\ sock' = "closed"
    /\ file' = FALSE
    /\ CloseConns(Queued)

\* The end of a process closes all it has open, but leaves the file.
ProcessEnds(r) ==
    /\ loop' = "exit"
    /\ result' = r
    /\ watcher' = "end"
    /\ sock' = IF sock = "bound" THEN "closed" ELSE sock
    /\ CloseConns(Connected)
    /\ UNCHANGED file

-----------------------------------------------------------------------------
(* One connection of a stream service                                      *)

ReadInto(c, buffers) ==
    /\ handler[c] = "read"
    /\ inbox[c] # <<>>
    /\ held' = [b \in Clients |-> IF b \in buffers THEN Head(inbox[c]) ELSE held[b]]
    /\ inbox' = [inbox EXCEPT ![c] = Tail(@)]
    /\ handler' = [handler EXCEPT ![c] = "write"]
    /\ UNCHANGED <<setup, life, readiness, conn, outbox, clients>>

\* An operator named after the one it precedes is that one with a mistake in it,
\* to show what a property would catch; the specification does not use it.
ReadShared(c) == ReadInto(c, {c} \union {b \in Clients : handler[b] = "write"})

\* Each round of a handler has a buffer of its own.
Read(c) == ReadInto(c, {c})

\* The client has finished and everything was read, or it closed and a reset
\* hides the rest: the deferred Close.
ReadFails(c) ==
    /\ handler[c] = "read"
    /\ \/ peer[c] = "finished" /\ inbox[c] = <<>>
       \/ peer[c] = "closed"
    /\ CloseConns({c})
    /\ UNCHANGED <<setup, life, readiness, clients>>

WriteNeverWaits(c) ==
    /\ handler[c] = "write"
    /\ outbox' = [outbox EXCEPT ![c] = IF peer[c] = "closed" THEN @ ELSE Append(@, held[c])]
    /\ held' = [held EXCEPT ![c] = Nothing]
    /\ handler' = [handler EXCEPT ![c] = "read"]
    /\ UNCHANGED <<setup, life, readiness, conn, inbox, clients>>

\* Write waits while the client does not receive. To a client that has closed it
\* is lost, or fails.
Write(c) ==
    /\ handler[c] = "write"
    /\ \/ /\ peer[c] # "closed" /\ Len(outbox[c]) < Capacity
          /\ outbox' = [outbox EXCEPT ![c] = Append(@, held[c])]
       \/ /\ peer[c] = "closed"
          /\ UNCHANGED outbox
    /\ held' = [held EXCEPT ![c] = Nothing]
    /\ handler' = [handler EXCEPT ![c] = "read"]
    /\ UNCHANGED <<setup, life, readiness, conn, inbox, clients>>

WriteFails(c) ==
    /\ handler[c] = "write" /\ peer[c] = "closed"
    /\ CloseConns({c})
    /\ UNCHANGED <<setup, life, readiness, clients>>

Serve(c) == Read(c) \/ ReadFails(c) \/ Write(c) \/ WriteFails(c)

-----------------------------------------------------------------------------
(* The clients and the network                                             *)

\* The kernel completes a connection whether or not the loop ever accepts it; a
\* datagram client needs a socket of its own only.
Connect(c) ==
    /\ peer[c] = "none" /\ sock = "bound"
    /\ peer' = [peer EXCEPT ![c] = "open"]
    /\ conn' = IF Only(Datagrams) THEN conn ELSE [conn EXCEPT ![c] = "queued"]
    /\ UNCHANGED <<setup, life, readiness, handler, held, wires, told, sent, got,
                   copies>>

\* There is someone to send to.
Reachable(c) ==
    IF Only(Datagrams) THEN sock = "bound" ELSE conn[c] \in {"queued", "open"}

Send(c) ==
    /\ peer[c] = "open" /\ sent[c] < setup.units
    /\ Reachable(c)
    /\ Len(inbox[c]) < Capacity
    /\ sent' = [sent EXCEPT ![c] = @ + 1]
    /\ inbox' = [inbox EXCEPT ![c] = Append(@, <<c, sent[c] + 1>>)]
    /\ UNCHANGED <<setup, life, readiness, service, outbox, peer, told, got, copies>>

Receive(c) ==
    /\ peer[c] \in {"open", "finished"}
    /\ outbox[c] # <<>>
    /\ got' = [got EXCEPT ![c] = Append(@, Head(outbox[c]))]
    /\ outbox' = [outbox EXCEPT ![c] = Tail(@)]
    /\ UNCHANGED <<setup, life, readiness, service, inbox, peer, told, sent, copies>>

\* CloseWrite: the client has sent everything and waits for the answers.
Finish(c) ==
    /\ peer[c] = "open" /\ conn[c] \in {"queued", "open"}
    /\ peer' = [peer EXCEPT ![c] = "finished"]
    /\ UNCHANGED <<setup, life, readiness, service, wires, told, sent, got, copies>>

Leave(c) ==
    /\ peer[c] \in {"open", "finished"}
    /\ peer' = [peer EXCEPT ![c] = "closed"]
    /\ outbox' = [outbox EXCEPT ![c] = <<>>]
    /\ UNCHANGED <<setup, life, readiness, service, inbox, told, sent, got, copies>>

\* UDP datagrams are lost, and also repeated, in either direction; ReadFrom takes
\* them in any order.
Lose(c) ==
    /\ Only({"udp"})
    /\ \/ inbox[c] # <<>> /\ inbox' = [inbox EXCEPT ![c] = Tail(@)] /\ UNCHANGED outbox
       \/ outbox[c] # <<>> /\ outbox' = [outbox EXCEPT ![c] = Tail(@)] /\ UNCHANGED inbox
    /\ UNCHANGED <<setup, life, readiness, service, clients>>

\* The network delivers a datagram once more, to the server or to the client.
Duplicate(c) ==
    /\ Only({"udp"}) /\ copies[c] < MaxCopies
    /\ \/ /\ sock = "bound" /\ Len(inbox[c]) < Capacity
          /\ \E k \in 1..sent[c] : inbox' = [inbox EXCEPT ![c] = Append(@, <<c, k>>)]
          /\ UNCHANGED outbox
       \/ /\ peer[c] = "open" /\ Len(outbox[c]) < Capacity
          /\ \E echoed \in {outbox[c], got[c]} : \E i \in DOMAIN echoed :
                 outbox' = [outbox EXCEPT ![c] = Append(@, echoed[i])]
          /\ UNCHANGED inbox
    /\ copies' = [copies EXCEPT ![c] = @ + 1]
    /\ UNCHANGED <<setup, life, readiness, service, peer, told, sent, got>>

Client(c) ==
    \/ Connect(c) \/ Send(c) \/ Receive(c) \/ Finish(c) \/ Leave(c)
    \/ Lose(c) \/ Duplicate(c)
=============================================================================
