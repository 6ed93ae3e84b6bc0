----------------------------- MODULE EchoServers -----------------------------
(***************************************************************************)
(* The echo servers: echoServerUDP (ch05/echo/echo.go, kind "udp"),        *)
(* streamingEchoServer (ch07/echo/echo.go, kinds "tcp" and "unix"),        *)
(* datagramEchoServer (same file, kind "unixgram"; over UDP it is what     *)
(* echoServerUDP is) and the TLS server (ch11/tls_echo.go, kind "tls").    *)
(*                                                                         *)
(* Their goroutines are loop, watcher (which closes the socket when the    *)
(* context is cancelled) and one handler for each connection.              *)
(***************************************************************************)
EXTENDS Sockets

Streams == {"tcp", "unix", "tls"}

\* The caller's cancel function.
Cancel ==
    /\ Only(Streams \union Datagrams)
    /\ ctx = "live"
    /\ ctx' = "done"
    /\ UNCHANGED <<setup, sock, file, watcher, loop, cur, result, readiness, service,
                   wires, clients>>

\* net.Listen and net.ListenPacket: the address is in use while the file of
\* another socket exists, and for other reasons.
Bind(next) ==
    /\ ~file
    /\ sock' = "bound"
    /\ file' = (Kind \in HasFile)
    /\ watcher' = IF ctx = "nil" THEN "off" ELSE "waiting"
    /\ loop' = next
    /\ UNCHANGED <<setup, ctx, cur, readiness, service, wires, clients>>

BindFails ==
    /\ loop' = "end"
    /\ result' = "error"
    /\ UNCHANGED <<setup, ctx, sock, file, watcher, cur, readiness, service, wires,
                   clients>>

-----------------------------------------------------------------------------
(* streamingEchoServer                                                     *)

StartStream ==
    /\ Only({"tcp", "unix"}) /\ loop = "start"
    /\ \/ Bind("accept") /\ result' = "address"
       \/ BindFails

CloseAllOnDone ==
    /\ Only(Streams)
    /\ watcher = "waiting" /\ ctx = "done"
    /\ watcher' = "end"
    /\ sock' = "closed" /\ file' = FALSE
    /\ CloseConns(Connected)
    /\ UNCHANGED <<setup, ctx, loop, cur, result, readiness, clients>>

\* s.Close: the listener only.
CloseOnDone ==
    /\ Only(Streams)
    /\ watcher = "waiting" /\ ctx = "done"
    /\ watcher' = "end"
    /\ CloseListener
    /\ UNCHANGED <<setup, ctx, loop, cur, result, readiness, clients>>

Accept(c) ==
    /\ Only(Streams) /\ loop = "accept" /\ sock = "bound"
    /\ conn[c] = "queued"
    /\ conn' = [conn EXCEPT ![c] = "open"]
    /\ handler' = [handler EXCEPT ![c] = "read"]
    /\ UNCHANGED <<setup, life, readiness, held, wires, clients>>

\* Accept reports an error: the loop is over. ServeTLS returns it, even when the
\* server was told to stop.
EndAccepting ==
    /\ loop' = "end"
    /\ result' = IF Only({"tls"}) THEN "error" ELSE result
    /\ UNCHANGED <<setup, ctx, sock, file, watcher, cur, readiness, service, wires,
                   clients>>

AcceptClosed == Only(Streams) /\ loop = "accept" /\ sock = "closed" /\ EndAccepting

\* An error of another kind, such as no more file descriptors, has the same effect
\* although the listener is still there.
AcceptFails == Only(Streams) /\ loop = "accept" /\ sock = "bound" /\ EndAccepting

AcceptLoop == AcceptClosed \/ \E c \in Clients : Accept(c)

StreamingEchoServer == StartStream \/ (Only({"tcp", "unix"}) /\ AcceptLoop)

StreamConn(c) == Only({"tcp", "unix"}) /\ Serve(c)

-----------------------------------------------------------------------------
(* The TLS server: ListenAndServeTLS, ServeTLS and Ready                    *)

Listen ==
    /\ Only({"tls"}) /\ loop = "start"
    /\ \/ Bind("load") /\ UNCHANGED result
       \/ BindFails

LeaveReady == UNCHANGED ready

CloseReady == ready' = IF ready = "open" THEN "closed" ELSE ready

LoadsKeyPair ==
    /\ setup.cert \in {"configured", "files"}
    /\ loop' = "accept"
    /\ UNCHANGED result

LoadFails ==
    /\ setup.cert # "configured"
    /\ loop' = "end"
    /\ result' = "error"

ReadyAnyhow ==
    /\ Only({"tls"}) /\ loop = "load"
    /\ LoadsKeyPair \/ LoadFails
    /\ CloseReady
    /\ UNCHANGED <<setup, ctx, sock, file, watcher, cur, waiter, service, wires, clients>>

\* The key pair is loaded unless the configuration has a certificate; after that
\* the server is ready. If it cannot be loaded, ServeTLS returns before ready is
\* closed and leaves the listener as it is.
LoadKeyPair ==
    /\ Only({"tls"}) /\ loop = "load"
    /\ \/ LoadsKeyPair /\ CloseReady
       \/ LoadFails /\ UNCHANGED ready
    /\ UNCHANGED <<setup, ctx, sock, file, watcher, cur, waiter, service, wires, clients>>

\* Ready returns.
Ready ==
    /\ waiter = "waiting"
    /\ ready \in {"closed", "nil"}
    /\ waiter' = "returned"
    /\ UNCHANGED <<setup, life, ready, service, wires, clients>>

\* The first Read makes the handshake, which a client that does not speak TLS
\* fails.
NotTLS(c) ==
    /\ handler[c] = "read" /\ inbox[c] # <<>>
    /\ CloseConns({c})
    /\ UNCHANGED <<setup, life, readiness, clients>>

\* The deadline set at the start of a round passes during its Read or Write. Each
\* round sets a new one: a client that keeps sending keeps its connection.
Idle(c) ==
    /\ Only({"tls"}) /\ setup.maxIdle
    /\ handler[c] \in {"read", "write"}
    /\ CloseConns({c})
    /\ UNCHANGED <<setup, life, readiness, clients>>

TlsConn(c) == Only({"tls"}) /\ (Serve(c) \/ NotTLS(c))

ListenAndServeTLS == Listen \/ LoadKeyPair \/ (Only({"tls"}) /\ AcceptLoop)

-----------------------------------------------------------------------------
(* The datagram servers: one loop, no connections                          *)

StartUDP ==
    /\ Only({"udp"}) /\ loop = "start"
    /\ \/ Bind("read") /\ result' = "address"
       \/ BindFails

StartUnixgram ==
    /\ Only({"unixgram"}) /\ loop = "start"
    /\ \/ Bind("read") /\ result' = "address"
       \/ BindFails

CloseUDP ==
    /\ Only({"udp"})
    /\ watcher = "waiting" /\ ctx = "done"
    /\ sock' = "closed"
    /\ watcher' = "end"
    /\ inbox' = [c \in Clients |-> <<>>]
    /\ UNCHANGED <<setup, ctx, file, loop, cur, result, readiness, service, outbox,
                   clients>>

CloseUnixgramOnly ==
    /\ Only({"unixgram"})
    /\ watcher = "waiting" /\ ctx = "done"
    /\ sock' = "closed"
    /\ watcher' = "end"
    /\ inbox' = [c \in Clients |-> <<>>]
    /\ UNCHANGED <<setup, ctx, file, loop, cur, result, readiness, service, outbox,
                   clients>>

\* Close leaves the file of a datagram socket: os.Remove follows.
CloseUnixgram ==
    /\ Only({"unixgram"})
    /\ watcher = "waiting" /\ ctx = "done"
    /\ sock' = "closed"
    /\ watcher' = "removing"
    /\ inbox' = [c \in Clients |-> <<>>]
    /\ UNCHANGED <<setup, ctx, file, loop, cur, result, readiness, service, outbox,
                   clients>>

Remove ==
    /\ watcher = "removing"
    /\ file' = FALSE
    /\ watcher' = "end"
    /\ UNCHANGED <<setup, ctx, sock, loop, cur, result, readiness, service, wires,
                   clients>>

\* Datagrams of one client overtake each other over UDP only.
ReadFrom(c) ==
    /\ Only(Datagrams) /\ loop = "read" /\ sock = "bound"
    /\ \E i \in DOMAIN inbox[c] :
           /\ i = 1 \/ Only({"udp"})
           /\ held' = [held EXCEPT ![c] = inbox[c][i]]
           /\ inbox' = [inbox EXCEPT ![c] =
                            SubSeq(@, 1, i - 1) \o SubSeq(@, i + 1, Len(@))]
    /\ cur' = c
    /\ loop' = "write"
    /\ UNCHANGED <<setup, ctx, sock, file, watcher, result, readiness, conn, handler,
                   outbox, clients>>

\* The goroutine returns; nobody is told.
EndReceiving ==
    /\ loop' = "end"
    /\ cur' = Nobody
    /\ held' = [c \in Clients |-> Nothing]
    /\ UNCHANGED <<setup, ctx, sock, file, watcher, result, readiness, conn, handler,
                   wires, clients>>

ReadFromClosed == Only(Datagrams) /\ loop = "read" /\ sock = "closed" /\ EndReceiving

\* A Unix socket makes the sender wait while the receiver's buffer is full; UDP
\* drops the datagram, also when the receiver is gone.
WriteTo ==
    /\ Only(Datagrams) /\ loop = "write" /\ sock = "bound"
    /\ \/ /\ peer[cur] # "closed" /\ Len(outbox[cur]) < Capacity
          /\ outbox' = [outbox EXCEPT ![cur] = Append(@, held[cur])]
       \/ Only({"udp"}) /\ UNCHANGED outbox
    /\ loop' = "read"
    /\ cur' = Nobody
    /\ held' = [c \in Clients |-> Nothing]
    /\ UNCHANGED <<setup, ctx, sock, file, watcher, result, readiness, conn, handler,
                   inbox, clients>>

\* WriteTo reports an error: the socket was closed, or the client of a Unix socket
\* has gone.
WriteToFails ==
    /\ Only(Datagrams) /\ loop = "write"
    /\ sock = "closed" \/ (Only({"unixgram"}) /\ peer[cur] = "closed")
    /\ EndReceiving

\* The kernel refuses to send although both are there: the client has bound its
\* socket to no file, the server may not write to the file, there is no buffer.
WriteToRefused ==
    /\ Only(Datagrams) /\ loop = "write" /\ sock = "bound"
    /\ EndReceiving

ReceiveLoop ==
    (\E c \in Clients : ReadFrom(c)) \/ ReadFromClosed \/ WriteTo \/ WriteToFails

\* What the goroutines of the two functions do until they end.
EchoServerUDP == StartUDP \/ (Only({"udp"}) /\ ReceiveLoop)
DatagramEchoServer == StartUnixgram \/ (Only({"unixgram"}) /\ ReceiveLoop)
=============================================================================
