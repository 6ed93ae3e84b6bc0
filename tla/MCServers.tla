----------------------------- MODULE MCServers -----------------------------
(* Servers on a small instance: every service, the TLS server with and       *)
(* without a deadline, a context, a channel and a certificate that loads,    *)
(* the credentials service with a group one client is in and with none.      *)
EXTENDS Servers, TLC

CONSTANTS c1, c2, staff, wheel, nogroup

MCGids == (c1 :> {staff, wheel}) @@ (c2 :> {wheel})

Tls(cert, maxIdle, context, channel, units) ==
    [kind |-> "tls", cert |-> cert, maxIdle |-> maxIdle, context |-> context,
     channel |-> channel, units |-> units]

MCSetups ==
    [kind : {"tcp", "udp", "unixgram"}, units : {2}]
        \union [kind : {"unix", "files", "backend"}, units : {1}]
        \union [kind : {"creds"}, args : {{staff, nogroup}, {nogroup}},
                known : {{staff, wheel}}, units : {1}]
        \union {Tls("files", TRUE, TRUE, TRUE, 1),
                Tls("files", FALSE, TRUE, TRUE, 1),
                Tls("broken", TRUE, TRUE, TRUE, 1),
                Tls("configured", TRUE, FALSE, FALSE, 1)}
=============================================================================
