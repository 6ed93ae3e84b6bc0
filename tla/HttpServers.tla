----------------------------- MODULE HttpServers -----------------------------
(***************************************************************************)
(* The life of the two HTTP servers: run of ch09/server.go (kind "files")  *)
(* and of ch10/backend/backend.go (kind "backend"). run serves in its own  *)
(* goroutine while another waits for an interrupt to close the server;     *)
(* whichever comes first, the process ends when run returns. What a        *)
(* request is answered with is left out: a response bears its request's    *)
(* number.                                                                 *)
(*                                                                         *)
(* net/http is modelled as far as run uses it: Close closes the listener   *)
(* and every connection, and serving after Close returns ErrServerClosed.  *)
(***************************************************************************)
EXTENDS Sockets

Http == Kind \in {"files", "backend"}

\* ch09 asks for the signal in the goroutine, ch10 before it calls run.
NotifyHttp ==
    /\ Http /\ watcher = "off"
    /\ watcher' = "waiting"
    /\ UNCHANGED <<setup, ctx, sock, file, loop, cur, result, readiness, service, wires,
                   clients>>

\* srv.Close was called first.
ListenAfterClose ==
    /\ Http /\ loop = "start" /\ watcher = "end"
    /\ ProcessEnds("nil")
    /\ UNCHANGED <<setup, ctx, cur, readiness, clients>>

\* The address cannot be bound or the certificate not be loaded; Close may have
\* come in between.
ListenFails ==
    /\ Http /\ loop = "start"
    /\ ProcessEnds("error")
    /\ UNCHANGED <<setup, ctx, cur, readiness, clients>>

ListenAndServe ==
    /\ Http /\ loop = "start" /\ watcher # "end"
    /\ sock' = "bound"
    /\ loop' = "accept"
    /\ UNCHANGED <<setup, ctx, file, watcher, cur, result, readiness, service, wires,
                   clients>>

AcceptHttp(c) ==
    /\ Http /\ loop = "accept" /\ sock = "bound"
    /\ conn[c] = "queued"
    /\ conn' = [conn EXCEPT ![c] = "open"]
    /\ handler' = [handler EXCEPT ![c] = "read"]
    /\ UNCHANGED <<setup, life, readiness, held, wires, clients>>

\* ErrServerClosed becomes nil.
ServerClosed ==
    /\ Http /\ loop = "accept" /\ sock = "closed"
    /\ ProcessEnds("nil")
    /\ UNCHANGED <<setup, ctx, cur, readiness, clients>>

CloseServer ==
    /\ Http /\ watcher = "waiting" /\ ctx = "done"
    /\ watcher' = "end"
    /\ sock' = IF sock = "bound" THEN "closed" ELSE sock
    /\ CloseConns(Connected)
    /\ UNCHANGED <<setup, ctx, file, loop, cur, result, readiness, clients>>

\* IdleTimeout, before the next request begins, or ReadHeaderTimeout until its header
\* is there. Both start anew with each request.
Timeout(c) ==
    /\ Http /\ handler[c] = "read"
    /\ CloseConns({c})
    /\ UNCHANGED <<setup, life, readiness, clients>>

\* The handler reads the header of a request (Read), then the rest of the request and
\* writes the response (Write), which the client may hold up for ever at both ends:
\* the server sets neither ReadTimeout nor WriteTimeout.
HttpConn(c) == Http /\ Serve(c)

Run ==
    \/ ListenAfterClose \/ ListenFails \/ ListenAndServe
    \/ ServerClosed \/ \E c \in Clients : AcceptHttp(c)

InterruptHttp ==
    /\ Http /\ loop # "exit" /\ ctx = "live"
    /\ ctx' = "done"
    /\ \/ /\ watcher = "off"
          /\ ProcessEnds("killed")
       \/ /\ watcher # "off"
          /\ UNCHANGED <<sock, file, watcher, loop, result, service, wires>>
    /\ UNCHANGED <<setup, cur, readiness, clients>>
=============================================================================
