------------------------------- MODULE Servers -------------------------------
(***************************************************************************)
(* The network services together, each with the same clients: Setups says  *)
(* which of them, in which configuration. See Sockets for the state.       *)
(***************************************************************************)
EXTENDS EchoServers, CredsServer, HttpServers

InitialContext(s) ==
    CASE s.kind = "tls" -> IF s.context THEN "live" ELSE "nil"
      [] OTHER -> "live"

\* A file may be left from an earlier process. NewTLSServer makes the channel of
\* Ready; ch10 has asked for its signal before run.
Init ==
    /\ setup \in Setups
    /\ Fresh
    /\ ctx = InitialContext(setup)
    /\ file \in (IF Kind \in HasFile THEN BOOLEAN ELSE {FALSE})
    /\ watcher = IF Kind = "backend" THEN "waiting" ELSE "off"
    /\ ready = IF Kind = "tls" THEN (IF setup.channel THEN "open" ELSE "nil") ELSE "nil"
    /\ waiter = IF Kind = "tls" THEN "waiting" ELSE "off"

Loop ==
    \/ StreamingEchoServer \/ ListenAndServeTLS
    \/ EchoServerUDP \/ DatagramEchoServer
    \/ CredsMain \/ Run

Watcher ==
    \/ CloseOnDone \/ CloseUDP \/ CloseUnixgram \/ Remove
    \/ CloseOnSignal \/ NotifyHttp \/ CloseServer

Handler(c) == StreamConn(c) \/ TlsConn(c) \/ HttpConn(c)

Environment ==
    \/ Cancel \/ InterruptCreds \/ InterruptHttp
    \/ AcceptFails \/ AcceptUnixFails \/ WriteToRefused
    \/ \E c \in Clients : Client(c)

Next ==
    \/ Loop \/ Watcher \/ Ready
    \/ \E c \in Clients : Handler(c) \/ Idle(c) \/ Timeout(c)
    \/ Environment

\* The goroutines run that the properties below are about, and clients of a stream
\* receive while they are there. Nothing makes a client send, finish or leave, a
\* datagram client receive, a context end, or Accept fail. Nothing is said of when a
\* deadline passes, nor of an HTTP handler, which may wait for its client for ever.
Fairness ==
    /\ WF_vars(Loop)
    /\ WF_vars(Watcher)
    /\ WF_vars(Ready)
    /\ \A c \in Clients :
           /\ WF_vars(StreamConn(c))
           /\ WF_vars(Only({"tcp", "unix"}) /\ Receive(c))

Spec == Init /\ [][Next]_vars /\ Fairness

-----------------------------------------------------------------------------
(* Properties                                                              *)

\* What an echo server sends back to a client is what that client sent: on a
\* stream, and from a Unix datagram socket, a beginning of it in order; over UDP
\* perhaps out of order or with holes, but nothing of others and not more datagrams
\* than have arrived: those the client sent and those the network delivered again.
\* The HTTP servers answer a connection's requests in order.
EchoesOwnData ==
    \A c \in Clients :
        LET echoed == got[c] \o outbox[c]
        IN IF Kind = "udp"
           THEN /\ \A i \in DOMAIN echoed :
                       echoed[i][1] = c /\ echoed[i][2] <= sent[c]
                /\ Len(echoed) <= sent[c] + copies[c]
           ELSE \A i \in DOMAIN echoed : echoed[i] = <<c, i>>

\* The credentials service keeps the connection of a peer in an allowed group that
\* was told so, and no other: whoever is not being dealt with was welcomed, or was
\* denied or had gone and is closed. With no group that exists it keeps nobody.
KeepsOnlyAllowed ==
    Kind = "creds" =>
        \A c \in Clients :
            /\ told[c] = "welcome" => Gids[c] \intersect Groups # {}
            /\ told[c] = "denied" => conn[c] = "closed"
            /\ conn[c] = "open" => told[c] = "welcome" \/ c = cur

\* What a caller is told about the start and the end is true: Ready returns once
\* there is a listener and a certificate was found (or at once, when the server has
\* no channel), an address is returned only for a socket, and run of an HTTP server
\* returns nil only after an interrupt.
ReportsAreTrue ==
    /\ waiter = "returned" =>
           \/ ~setup.channel
           \/ sock # "none" /\ loop \in {"accept", "end"} /\ setup.cert # "broken"
    /\ result = "address" => sock # "none"
    /\ Http /\ result = "nil" => ctx = "done"

-----------------------------------------------------------------------------
(* The invariants above are not inductive; these are (ServersProofs).       *)

\* Where the loop is says which service it is, whom it deals with and whether there
\* is a socket.
PlaceInv ==
    /\ loop = "start" => sock = "none" /\ (Http \/ watcher = "off")
    /\ loop = "load" => sock # "none" /\ Kind = "tls"
    /\ loop = "write" => cur \in Clients /\ Kind \in Datagrams
    /\ loop \in {"check", "welcome", "deny"} => cur \in Clients /\ Creds

\* Who has not connected has nothing anywhere; who has not been accepted, no handler;
\* and nothing is left to read at a closed socket.
AbsentInv ==
    \A c \in Clients :
        /\ Kind \in Datagrams => handler[c] = "off" /\ (sock = "closed" => inbox[c] = <<>>)
        /\ sock = "none" => peer[c] = "none"
        /\ conn[c] = "queued" => peer[c] # "none" /\ handler[c] = "off"
        /\ peer[c] = "none" =>
              /\ inbox[c] = <<>> /\ outbox[c] = <<>> /\ got[c] = <<>>
              /\ held[c] = Nothing /\ sent[c] = 0 /\ handler[c] = "off"

LoopInv == PlaceInv /\ AbsentInv

\* The service holds a unit of the client, or none.
Holding(c) == IF held[c] = Nothing THEN 0 ELSE 1

\* The units of a client in the order it sent them: received, on the way back, held
\* by the service, on the way there. The row has no gap while the client is there
\* and can send, and the receive loop of a datagram server has not ended.
Numbered(s, c, n) == \A i \in DOMAIN s : s[i] = <<c, n + i>>

Served(c) == peer[c] # "closed" /\ (Only(Datagrams) => loop # "end")

InRow(c) ==
    LET back == Len(got[c]) + Len(outbox[c])
        read == back + Holding(c)
    IN /\ Numbered(got[c], c, 0)
       /\ Numbered(outbox[c], c, Len(got[c]))
       /\ Served(c) =>
             /\ held[c] # Nothing => held[c] = <<c, back + 1>>
             /\ Numbered(inbox[c], c, read)
             /\ Reachable(c) => sent[c] = read + Len(inbox[c])

RowInv == Kind # "udp" => \A c \in Clients : InRow(c)

\* The datagrams of a client over UDP: each is one it has sent, and there are not more
\* of them than it has sent and the network has repeated.
SentBy(c) == {c} \X (1..sent[c])
Within(s, S) == \A i \in DOMAIN s : s[i] \in S

Counted(c) ==
    /\ Within(inbox[c], SentBy(c)) /\ Within(outbox[c], SentBy(c))
    /\ Within(got[c], SentBy(c)) /\ held[c] \in SentBy(c) \union {Nothing}
    /\ Len(inbox[c]) + Holding(c) + Len(outbox[c]) + Len(got[c]) <= sent[c] + copies[c]

UdpInv == Kind = "udp" => \A c \in Clients : Counted(c)

\* The decision about a peer is still true when it is carried out.
CredsInv ==
    Creds =>
        /\ KeepsOnlyAllowed
        /\ loop = "welcome" => Gids[cur] \intersect Groups # {}
        /\ loop \in {"check", "welcome", "deny"} => peer[cur] # "none"
        /\ \A c \in Clients :
               /\ told[c] # "nothing" => peer[c] # "none"
               /\ conn[c] = "open" /\ told[c] # "welcome" =>
                     loop \in {"check", "welcome", "deny"}

\* What Ready waits for, and what run takes for the end of an HTTP server.
ReportInv ==
    /\ ReportsAreTrue
    /\ waiter # "off" => Kind = "tls" /\ (ready = "nil" => ~setup.channel)
    /\ ready = "closed" =>
           Kind = "tls" /\ sock # "none" /\ loop \in {"accept", "end"} /\ setup.cert # "broken"
    /\ Http /\ (watcher \in {"removing", "end"} \/ sock = "closed") =>
           ctx = "done" \/ loop = "exit"

ServersInv == TypeOK /\ LoopInv /\ RowInv /\ UdpInv /\ CredsInv /\ ReportInv

-----------------------------------------------------------------------------
(* Liveness                                                                *)

\* After a cancellation or an interrupt the loop ends and the socket is given up:
\* also when the loop has already ended on an error, and while a datagram waits for a
\* client that does not read. The file of a socket goes with it. The credentials
\* service promises so for an interrupt, and keeps it when its loop ends because of the
\* closed listener; not when the interrupt comes before Notify and kills it, or Accept
\* fails for another reason first.
Released ==
    ctx = "done" ~>
        /\ loop \in {"end", "exit"}
        /\ sock # "bound"
        /\ watcher = "end" \/ sock = "none"
        /\ \/ Kind \in {"unix", "unixgram"} /\ result = "address"
           \/ Kind = "creds" /\ result = "nil"
           => ~file

\* A cancellation costs no connected client of streamingEchoServer its echo: one
\* that finishes and goes on receiving gets all it sent.
StreamsSurvive ==
    Kind \in {"tcp", "unix"} =>
        \A c \in Clients :
            (conn[c] = "open" /\ peer[c] = "finished")
                ~> (peer[c] = "closed" \/ Len(got[c]) = sent[c])

\* Ready returns unless ListenAndServeTLS has returned an error: whoever looks at
\* both is not left waiting, whoever calls Ready alone may be.
ReadyReturns == waiter = "waiting" ~> waiter = "returned" \/ result = "error"
=============================================================================
