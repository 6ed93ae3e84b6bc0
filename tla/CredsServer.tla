----------------------------- MODULE CredsServer -----------------------------
(***************************************************************************)
(* The peer credentials service (ch07/creds/creds.go and auth): one loop   *)
(* accepts a connection, asks the kernel who its peer is and keeps the     *)
(* connection or closes it. Nothing handles a connection that is kept. The *)
(* process ends with the loop.                                             *)
(***************************************************************************)
EXTENDS Sockets

Creds == Kind = "creds"

\* parseGroupNames: names that are no group are left out.
Groups == setup.args \intersect setup.known

ListenUnix ==
    /\ Creds /\ loop = "start"
    /\ \/ /\ ~file
          /\ sock' = "bound" /\ file' = TRUE
          /\ loop' = "notify"
          /\ UNCHANGED <<setup, ctx, watcher, cur, result, readiness, service, wires,
                         clients>>
       \/ /\ ProcessEnds("error")
          /\ UNCHANGED <<setup, ctx, cur, readiness, clients>>

\* signal.Notify, and the goroutine that waits for the signal.
Notify ==
    /\ Creds /\ loop = "notify"
    /\ watcher' = "waiting"
    /\ loop' = "accept"
    /\ UNCHANGED <<setup, ctx, sock, file, cur, result, readiness, service, wires,
                   clients>>

CloseOnSignal ==
    /\ Creds /\ watcher = "waiting" /\ ctx = "done"
    /\ watcher' = "end"
    /\ CloseListener
    /\ UNCHANGED <<setup, ctx, loop, cur, result, readiness, clients>>

AcceptUnix(c) ==
    /\ Creds /\ loop = "accept" /\ sock = "bound"
    /\ conn[c] = "queued"
    /\ conn' = [conn EXCEPT ![c] = "open"]
    /\ cur' = c
    /\ loop' = "check"
    /\ UNCHANGED <<setup, ctx, sock, file, watcher, result, readiness, handler, held,
                   wires, clients>>

\* The loop ends and main returns.
AcceptUnixClosed ==
    /\ Creds /\ loop = "accept" /\ sock = "closed"
    /\ ProcessEnds("nil")
    /\ UNCHANGED <<setup, ctx, cur, readiness, clients>>

\* The same with the listener still open: nobody closes it and its file stays.
AcceptUnixFails ==
    /\ Creds /\ loop = "accept" /\ sock = "bound"
    /\ ProcessEnds("failed")
    /\ UNCHANGED <<setup, ctx, cur, readiness, clients>>

\* Allowed: every lookup on the way, of the credentials, of the user and of the
\* user's groups, can fail and then the answer is no.
Allowed(c, looksUp) ==
    /\ Groups # {}
    /\ looksUp
    /\ Gids[c] \intersect Groups # {}

Check ==
    /\ loop = "check"
    /\ \E looksUp \in BOOLEAN :
           loop' = IF Allowed(cur, looksUp) THEN "welcome" ELSE "deny"
    /\ UNCHANGED <<setup, ctx, sock, file, watcher, cur, result, readiness, service,
                   wires, clients>>

\* "Welcome" reaches the peer and the loop goes on; if it cannot be written the
\* peer is treated as one that is not allowed.
Welcome ==
    /\ loop = "welcome"
    /\ \/ /\ peer[cur] # "closed"
          /\ told' = [told EXCEPT ![cur] = "welcome"]
          /\ loop' = "accept" /\ cur' = Nobody
       \/ /\ peer[cur] = "closed"
          /\ loop' = "deny"
          /\ UNCHANGED <<told, cur>>
    /\ UNCHANGED <<setup, ctx, sock, file, watcher, result, readiness, service, wires,
                   peer, sent, got, copies>>

\* An error of this Write is logged; the connection is closed anyhow.
KeepIfUnwritten ==
    /\ loop = "deny"
    /\ told' = [told EXCEPT ![cur] = IF peer[cur] = "closed" THEN @ ELSE "denied"]
    /\ loop' = "accept" /\ cur' = Nobody
    /\ IF peer[cur] = "closed"
       THEN UNCHANGED <<service, wires>>
       ELSE CloseConns({cur})
    /\ UNCHANGED <<setup, ctx, sock, file, watcher, result, readiness, peer, sent, got,
                   copies>>

Deny ==
    /\ loop = "deny"
    /\ told' = [told EXCEPT ![cur] = IF peer[cur] = "closed" THEN @ ELSE "denied"]
    /\ loop' = "accept" /\ cur' = Nobody
    /\ CloseConns({cur})
    /\ UNCHANGED <<setup, ctx, sock, file, watcher, result, readiness, peer, sent, got,
                   copies>>

CredsMain ==
    \/ ListenUnix \/ Notify
    \/ AcceptUnixClosed \/ \E c \in Clients : AcceptUnix(c)
    \/ Check \/ Welcome \/ Deny

\* An interrupt the process has not asked for yet kills it.
InterruptCreds ==
    /\ Creds /\ loop # "exit" /\ ctx = "live"
    /\ ctx' = "done"
    /\ \/ /\ watcher = "off"
          /\ ProcessEnds("killed")
          /\ UNCHANGED <<cur>>
       \/ /\ watcher # "off"
          /\ UNCHANGED <<sock, file, watcher, loop, cur, result, service, wires>>
    /\ UNCHANGED <<setup, readiness, clients>>
=============================================================================
