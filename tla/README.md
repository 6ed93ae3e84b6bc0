# Verification of *network-programming-with-go*

TLA+ models, model-checking runs and machine-checked proofs of the programs in
this repository. The repository is the companion code of a book: each chapter
directory (`ch03` ... `ch12`) is a small network program or library with tests.
There is no single system; the parts below are independent and are modelled
separately. Each model is translated from the Go source (Go 1.21, protobuf 1.33,
gRPC 1.59, as in `go.mod`).

## 1. Inventory

| part | state | operations and interaction | what makes it correct |
|---|---|---|---|
| **TFTP server** `ch06/tftp/server.go`, `types.go` | the payload; per handler goroutine: position, block number, writes left, one reused receive buffer | `Serve` reads requests and starts `handle` for each; `handle` writes a block, waits for its ACK with a deadline, retries. Client and server share only UDP datagrams | success is reported only after delivery; blocks in order; every handler ends |
| **Pinger** `ch03/ping.go` | interval, timer and its channel | a select loop over cancellation, the reset channel and the timer; writes pings | a ping is always due, never early; it ends when cancelled |
| **TLV messages** `ch04/types.go` | bytes of a TCP stream, position of the decoder | `WriteTo` encodes, `decode`/`ReadFrom` decode, one after another | what is decoded is what was sent; errors are reported |
| **Rosie** `ch12/server/rosie.go`, `ch12/client` | the list of chores behind a mutex | `Add`, `Complete`, `List` from concurrent gRPC calls; a client runs one command, then lists | chore numbers are stable; replies are consistent; no call blocks the others |
| **Housework command** `ch12/cmd`, `ch12/json` | the data file | load, change, truncate, write, load and print; any number of processes share the file | work is not lost silently |
| **TCP proxy** `ch04/proxy_conn.go` | two connections, a copy in each direction and the unit it holds | `proxyConn` dials both nodes, copies one way itself and the other way in a goroutine, and closes both connections when it returns | nothing is lost, repeated or reordered before it closes; its result and the ends of the streams it passes on are true; both copies end |
| **Echo servers** `ch05/echo`, `ch07/echo`, `ch11/tls_echo.go` | a socket and perhaps its file, the context, a goroutine that waits for it, a handler and a buffer per connection; for TLS the channel of `Ready` | bind, accept or receive, echo, cancel; for TLS load the certificate, tell who waits in `Ready`, drop idle connections | clients get back what they sent; a cancellation frees the socket and cuts no connection short; `Ready` tells the truth |
| **Credentials service** `ch07/creds` | listener, signal, the connections it keeps | accepts, looks up the peer's groups, welcomes and keeps it or closes | what is kept was allowed and was told so; it ends on a signal |
| **HTTP servers** `ch09/server.go`, `ch10/backend` | listener, interrupt, connections | `run` serves while a goroutine waits for the interrupt to close the server | a nil result only after an interrupt; it ends after one. A connection is dropped only while it is idle or its header is due |
| handlers and middleware of `ch09`, the tests of `ch03` and `ch04`, small commands, generated code | none of their own | called by `net/http`, or sequential | not modelled, see section 6 |

The hard behaviours: datagrams lost, repeated, reordered or late; deadlines that
race answers; a timer whose expiry races resets and cancellation; partial reads;
replies marshalled outside a mutex; processes sharing a file and killed between
truncating and writing it; a half-closed or reset connection beside one that still
works; a cancellation at any point of starting, accepting and echoing; deadlines that are renewed
every round, or are missing. `PROJECT.json` lists every hazard at its line with the
properties that cover it.

## 2. Modules

| module | models | how |
|---|---|---|
| `BlockTransfer` | what a transfer promises | abstract stop-and-wait delivery: `Start`, `Deliver`, `Confirm`, `Fail` |
| `Tftp` | `Serve`, `handle`, the network, a client | `pc[h]` is the handler's place in the two labelled loops, `seq` the calls of `MarshalBinary`, `tries` the loop variable `i`, `buf` the reused buffer. `Receive` is the whole `Read` and switch. Sent datagrams form a set that only grows, so each may arrive never, once or often, at any time |
| `TftpLink` | the same handlers over loopback | every action is one of `Tftp` that takes its datagram from a FIFO queue; `file` is the buffer `p2` of `server_test.go` |
| `TftpProofs` | | theorems about `Tftp` |
| `TftpLinkProofs` | | theorems about `TftpLink`; their invariants (`LinkInv`, `BudgetInv`, `FileInv`, `WritesInv`) are in `TftpLink`, where TLC can evaluate them |
| `OrderedStreams` | what the proxy keeps | two nodes, and a stream in order in each direction: `Send`, `Deliver`. Neither stream has an end, so any of it may stay undelivered |
| `DirectConnection` | what the proxy says it is (`proxy_conn.go:8`) | the same streams with their ends: a node finishes (`Finish`), the other one reads the end after all that was sent (`End`) or an error (`Break`) |
| `Proxy` | `proxyConn`, its goroutine, the two nodes | `pc` is the place of both threads. `Read`, `Write` and their failures are what `io.Copy` does; `Close` is the deferred `Close`, which becomes a reset if something is unread (`Abort` delivers it). The nodes send, receive, read the end of a stream (`PeerReadEnd`), `CloseWrite` (`PeerFinish`) and close or abort (`PeerClose`) at will |
| `ProxyProofs` | | theorems about `Proxy`; their invariant `ProxyInv` is in `Proxy` |
| `Pinger`, `MCPinger` | `Pinger` and its owner | one action per select case and per blocking receive; the Go 1.21 timer: `Fire` puts a value into `timer.C` that `Stop` and `Reset` leave there |
| `PingerProofs` | | theorems about `Pinger`; their invariant `TimerInv` is in `Pinger` |
| `Tlv` | encoding, TCP, decoding | the stream is a sequence, of which `arrived` elements can be read; `WriteTo` appends a whole message, and the history variable `starts` keeps where it did; `ReadPayload` is the single `Read` of a value, `ReadType` and `ReadSize` are `binary.Read`, which waits until it is filled |
| `TlvProofs` | | theorems about `Tlv`; their invariant `TlvInv` is in `Tlv` |
| `Rosie`, `MCRosie` | server methods, clients, protobuf marshalling | `mu` is the mutex; `List` hands out the slice, then `Size` and `Marshal` go over it chore by chore without the mutex, with the size cache that protobuf keeps in each message |
| `RosieProofs` | | theorems about `Rosie`; their invariant `RosieInv` is in `Rosie` |
| `HouseworkFile`, `MCHouseworkFile` | the commands on the data file | `Load`, the change, `Create` (truncates) and `Write` are separate steps; `Kill` and `WriteFails` may strike between them |
| `HouseworkProofs` | | theorems about `HouseworkFile`; their invariant `HouseworkInv` is in `HouseworkFile` |
| `Sockets` | what the services share: state, clients, one connection, closing | `loop`, `watcher` and `handler[c]` are the places of the goroutines; `setup` is the service and its configuration, chosen at the start. Over UDP the network loses (`Lose`), repeats (`Duplicate`) and reorders (`ReadFrom`) datagrams; `copies[c]` counts those repeated |
| `EchoServers` | `echoServerUDP`, `streamingEchoServer`, `datagramEchoServer`, `ListenAndServeTLS`, `ServeTLS`, `Ready` | `Bind`, `Accept` or `ReadFrom`, the echo, which may also be refused while both sides are there (`WriteToRefused`), `CloseOnDone`; for TLS `LoadKeyPair` closes the channel, `Idle` is the deadline, set anew in every round |
| `CredsServer` | `main` of the credentials service, `auth.Allowed` | `AcceptUnix`, `Check`, `Welcome`, `Deny`; an interrupt before `Notify` kills |
| `HttpServers` | `run` of `ch09` and of `ch10/backend` | start, `CloseServer`, `ServerClosed`, `Timeout` of a connection that is idle or owes a header |
| `Servers`, `MCServers` | all of these with the same clients | `Next` joins the loops, watchers, handlers, clients and failures; the properties are here |
| `ServersProofs` | | theorems about `Servers`; their invariant `ServersInv` is in `Servers` |

Operators named after another one with a suffix (`WriteUnconfirmed`,
`CompleteToggles`, ...) are that operator with a plausible mistake in it. No
specification uses them; replacing the original by one of them must violate the
property `PROJECT.json` pairs it with, which shows that the property can fail.

## 3. Runs

| run | instance | shows |
|---|---|---|
| `tftp` | 2 handlers (a repeated request), 2 blocks, 2 block numbers, 2 writes per block | safety, termination and refinement of `BlockTransfer` over the worst network |
| `tftp_link` | 1 handler, 5 blocks, 2 block numbers, 4 writes per block, at most 3 missed deadlines | the cost of a late ACK: one more datagram circulates for good; numbers that wrap twice are still told apart; the transfer completes |
| `pinger` | intervals -1, 0, 1, 2, default 3, 3 resets | timer discipline and termination without a failed write |
| `pinger_hang` | no reset | **fails**: after a failed write the deferred drain blocks for ever (`ping.go:30`) |
| `tlv` | 2 messages of 0 to 3 bytes, values above 2 refused | decoding is right until the first short `Read`, and always ends |
| `tlv_short_read` | 1 message of up to 2 bytes | **fails**: a value in two segments is decoded wrongly (`types.go:93`, `:149`) |
| `rosie` | 2 clients, 2 chores, numbers 0, 1, 2 and 17 of a 4-bit integer | fresh replies, read-your-writes, stable numbers, progress |
| `rosie_race` | 2 clients, 1 chore | **fails**: a reply can be undecodable (`rosie.go:53`) |
| `proxy` | buffers of 2 units, at most 3 units sent by each node | both streams stay in order (it implements `OrderedStreams`) and lose nothing until `proxyConn` or a node closes; its result is true, and so is an end of the stream that the destination reads; what can keep it from returning |
| `proxy_end` | buffers of 1 unit, at most 1 unit sent by each node | **fails** to implement `DirectConnection`: when the source finishes sending, `proxyConn` closes both connections (`proxy_conn.go:15`, `:21`) and the source reads an ordinary end of the stream in front of replies it never gets, and so it is not "as though connected directly" (`:8`) |
| `servers` | 2 clients, buffers of 1 unit, every service (TLS with and without deadline, context, channel, certificate; credentials with a known group and with none), 1 or 2 units sent by each client, 1 datagram of each repeated | echoes are the client's own, only allowed peers are kept, `Ready` and results are true, every service gives up its socket when told, no stream is cut short and `Ready` returns |
| `housework_file` | 2 users, 2 chores | work done alone survives everything later; a truncated file stays truncated |

*Bounds.* Two handlers are the first number at which one transfer can disturb
another. Two blocks have a first and a last one, and each pair of neighbours in a
longer payload behaves alike; the proofs remove the bound. In `tftp` payloads are no
longer than `BlockMod`, because on a network that may repeat a datagram after 65536
blocks an old ACK *does* acknowledge a new block; `tftp_link` shows that on an
in-order link wrapping is harmless. Durations only matter by their order and sign.
A short read needs a value of two bytes, losing step needs a second message. Three
intervals in `pinger` let one be pending while another is taken and a third waits;
`Horizon` is the longest interval, past which the clock need not count. `Byte` has two
values, so a value's bytes can be taken for a type and for a size.
In `rosie` a slice with two chores can be changed before, between and after the two
being marshalled. `MaxChores` bounds what is added, in `housework_file` together with
work that was lost. In `proxy` three units are one the copy holds and a full buffer on either side
of it, so both copies can wait for each other's nodes and still something is unread
when a connection is closed. In `servers` a buffer of one unit makes a handler wait for
a client that does not read; two clients are the first number at which one's buffer,
connection or error can touch the other, and at which one connection is queued while
another is served; a second unit shows order. `MaxCopies` bounds how many datagrams of a client the
network delivers again: one is enough for an echo more than was sent, and the proof has no bound. In
`proxy_end` one unit each way is enough for a reply behind the end of a stream. `Setups` holds every combination of the
TLS configuration that takes another path.

*Fairness.* `Tftp`: weak fairness of each goroutine's step, which the Go scheduler
gives; a `Read` has a deadline, so it returns. Nothing is assumed of network or
client. `TftpLink`: also that the link delivers and the client reads. `Pinger`: weak
fairness of its steps, of time and of a send that has room; strong fairness of the
cancellation and reset cases, because `select` chooses among ready cases at random.
`Tlv`: the receiver goes on decoding and the sender closes in the end. `Proxy`: both threads run and
the nodes receive while they are there; nothing makes a node send, finish or close.
`Servers`: the loops, the goroutines that wait
for a cancellation, `Ready` and the handlers of `streamingEchoServer` run, and clients of a stream receive
while they are there. Nothing is assumed of deadlines, of the handlers of the TLS and HTTP servers (a client
that keeps sending renews the TLS deadline in every round, and the body and the response of a request have no
deadline at all, so these may stay for ever) and of datagram clients; nothing makes a client send or
leave, a context end, an interrupt come or `Accept` fail. `Rosie`: calls
are scheduled, and strong fairness of `Lock`, because `sync.Mutex` hands over to a
starving waiter.

*Deadlock* checking is off where the program ends (a finished transfer, a returned
`Pinger`, a closed stream, a proxy that returned), in `Rosie`, where clients need not
start, and in `Servers`, which may have no client and no cancellation for ever.

## 4. Proofs

`TftpProofs` proves, for any set of handlers, payload length, block-number width and
number of retries:

* `TypeCorrect`: the types. The invariant `TypeInv` adds `Position`: the position is 0
  exactly before the first block, a writing or waiting handler has a write left, and
  success comes only at the end of the payload. Without the last two a step from
  "wait" could leave the range of `tries` or of `seq`.
* under the assumption that the payload has at most `BlockMod` blocks (so block
  numbers tell blocks apart, lemma `BlockNumbersDistinct`): `CompletionSound`,
  `StopAndWait`, `BufferReuseHarmless` and `RefinesTransfer`, from the inductive
  invariant `TransferInv`. It says that the client has all blocks before the current
  one and nothing beyond it (`Window`), that every ACK on the network was caused by
  a received block (`AckOrigin`), and that an ACK left in the buffer is that of an
  earlier block (`OldBuffer`). An ACK of the current block then proves its arrival,
  which is what advancing and reporting success need. The step case has one lemma
  step per action.
* `RefinesTransfer` maps the position to the blocks confirmed: each step of a handler
  or of the client is `Start`, `Deliver`, `Confirm`, `Fail` or a stutter.

`PingerProofs` proves `PingAlwaysDue`, `DrainNeverBlocks` and `PingsNeverEarly` for any
intervals, any default and any number of resets. `PingDue` alone is not inductive: what
a step out of the loop leaves behind depends on where Pinger is. `TimerInv` says for each
place what the timer and its channel hold - a stopped timer has its value waiting while
Pinger is about to drain it, an armed one never has, after a ping was taken neither is
the case until the write succeeds - and that a waiting value means the interval passed.
`IntervalsArePositive` (the types) is what a negative reset could break: a timer that expires at once, for ever.

`TftpLinkProofs` proves what the proofs about `Tftp` assume away: over a link that keeps
the order and delivers each datagram once (an ACK may still miss the deadline, so blocks are
repeated), `TwoBlockWindow` (theorem `WrapAroundSafe`) and `SentMeansDelivered` (theorem
`LongTransfersComplete`) hold for payloads of any length, with more blocks than block
numbers. The invariant `LinkInv` says what a handler's two queues, read from its end round to its end,
hold: ACKs of the block before the current one, then ACKs of the current one, then
DATA in the same order. So an old ACK is that of the neighbouring block, whose number
differs (lemma `NeighboursDiffer`, which needs two block numbers only).

The rest of `TftpLinkProofs` counts. Each step does one of seven things to a handler
and its link (`Kind`, lemma `StepKinds`), and each of these is looked at once:

* `DuplicatesStay`: a write adds a datagram and begins a wait, a read takes one and ends
  the wait, a missed deadline ends the wait and takes none, and the client moves one from
  one queue to the other. While the client reads this is an equation (lemma `FlightStep`);
  after it has closed datagrams are refused, and it is still a bound (`AtMostInFlight`).
* `LateAcksHarmless`: a try is used up by a missed deadline or an old ACK. Counting old ACKs
  would need induction over a queue; `Budget` says instead of each place in the row of
  ACKs and DATA that an old datagram there will cost no more than was paid for: tries used
  and its place in the row together are at most the deadlines missed. When the window
  moves on all of the row becomes old, and the bound on its length gives it back.
* `FileIsPayload`, for one handler (the loopback repeats no request; two handlers would
  mix their blocks in the client's one buffer): the block read last is the current one or
  its predecessor, and nothing older follows the current one (`FileUpTo`).
* `RetriesBoundWrites`: a block is written `Retries` times in all, so `Retries = 4` allows three
  retries. The comment at `server.go:15` (in English: number of retries when a transmission fails) reads as
  one write more; model and theorem follow the loop at `:105`.

`ProxyProofs` proves, for any capacity and any number of units, all safety properties of
`Proxy` and that it implements `OrderedStreams` (`StreamsStayInOrder`). It does not implement
`DirectConnection`, as run `proxy_end` shows; of the ends of streams `EndsAreTrue` proves what does hold:
where the destination reads one it has all the source sent, or the source closed and `proxyConn` returned an
error. `ResultIsTrue` needs to know what
was written, and that needs to know where every unit is: `ProxyInv` says that each stream
is one row of consecutive numbers - received, buffered for the receiver, held by the
copy, not yet read - which breaks off where a connection was closed and never continues
after a break (`Downstream`, `Upstream`), that a copy which ended without a close had
reached the end of its stream (`Drained`), and which connections exist where
`proxyConn` is (`Phase`). Each action has a lemma; those of a copy are proved once for both
directions.

`ServersProofs` proves, for any clients, groups, capacity, set of setups and number of
units, the types and all safety properties of `Servers`, for the eight services at once. The
invariant `ServersInv` has a part for each question, and the steps of all services are first
sorted by what they do to a connection (closing, accepting, dropping, giving up, reading,
writing, a client's step, or nothing), so each part looks at a few kinds of steps:

* `PlaceInv` and `AbsentInv`: where a loop is says which service it belongs to, and a client
  that is not there has nothing anywhere;
* `RowInv` (all but UDP): the units of a client are one row of consecutive numbers from what it
  has got back through its output buffer and the service's hand to its input buffer, with no gap
  while the client can send. Without the hand `EchoesOwnData` is not inductive, without the
  input buffer the hand is not;
* `UdpInv`: over UDP datagrams are lost, repeated and reordered, so a client's may come back out of order,
  with holes and more than once. What holds is that each of them, wherever it is, is one the client has
  sent, and that there are never more of them than it has sent and the network has repeated: the server
  echoes every arrival once;
* `CredsInv`: what was found out about a peer holds until it is carried out, as groups do not
  change and nothing else closes or welcomes while the loop is between check and answer;
* `ReportInv`: the channel of `Ready` is closed only past a loaded certificate, and an HTTP
  server that ends without an error was told to, whatever the order of signal, close and start.

`TlvProofs` proves the types, `InSyncUntilShortRead` and `StopsForAReason` for any bytes, any
`MaxPayloadSize` and any number and length of messages. `TlvInv` says that the stream is the
messages laid one after another (`StreamInv`) and, while every `Read` was filled, at which
offset of the next one decode is and that what it remembers is that message's header
(`StepInv`). The offsets come from the history variable `starts`: a sum over the messages
would need a recursive definition, about which nothing can be proved here.

`RosieProofs` proves, for any clients, chores, numbers and even integer width, the types,
`ReplyIsFresh`, `ReadYourWrites` and the action property `NumbersStable`. `RosieInv` compares the
copies of a chore: the server's is never behind that in a slice it has returned
(`SliceInv`), a reply lies between the two (`ReplyIsFresh`), and a command's effect is in the
server's list before `List` and in the slice after it (`EffectInv`). The relation is `Extends`,
which the proof shows to be reflexive, transitive and kept by `Add` and `Complete`.

`HouseworkProofs` proves, for any users and chores, the types, `WorkAloneIsKept` and the action
property `TruncatedForGood`. What a process holds in memory decides what it will write
later, so `HouseworkInv` says of every process that has loaded, however long ago, that
its list has the chores of the last work done alone (`MemoryInv`), and of one that is alone so
far that its list is the file's (`AloneInv`).

The inductive invariants were first checked with TLC on small instances. Every safety
property of every passing run is now a theorem, for every value of the constants; so is type
correctness of `Rosie`, `HouseworkFile` and `Proxy`, which their runs leave to the proofs. Only
model-checked: liveness (`HandlersEnd`, `TransferCompletes`, `CancelEndsPinger`, `ResetAccepted`,
`DecodingEnds`, `CommandsEnd`, `BothCopiesEnd`, `Released`, `StreamsSurvive`, `ReadyReturns`), which needs
fairness and `ENABLED` and is outside the prover's reach. The abstract specifications promise safety only.
That `Tftp` implements `BlockTransfer` and `Proxy` implements `OrderedStreams` is proved.
What the failing runs show is a counterexample, which needs no proof.

## 5. Abstractions

* Payloads, file names and messages are abstract values. A TFTP datagram to the server
  is an ACK with a number, an ERROR, something else, or one too short to overwrite
  what the handler reads of its buffer.
* The 4 bytes of a TLV size are one element of the stream, read together.
* A chore marshalled with another size than announced is unreadable: its description
  is cut short by the two bytes of the completed flag.
* One `Read` or `Write` of the data file is one step (lists fit in one buffer), and a
  later write that starts at the beginning of the file hides an earlier one, because
  the JSON decoder takes the first value only. A failed write leaves the file as it
  was after truncation or undecodable.
* `Pinger`'s writer returns from every write; blocking for ever is the writer's fault.
* The order in which Go evaluates the two operands of `return chores, Decode(&chores)`
  is the compiler's; the call comes first.

* A unit of a stream is what one `Read` returns, a datagram fits into the buffer it is
  read into, and an HTTP request with its response is one unit of the connection, but two steps of its
  handler: it has read the header, then waits for the body and for the client to take the response, without a
  bound. A deadline may strike in any round in which the code has set it, and need not strike in any.
  A connection is TCP: bounded each way; closing with something unread is a reset, after which the other
  side may lose any end of what it had not received. A write to a node that has closed is
  accepted and lost, or fails.
* `Released` asks that the credentials service removes its socket's file after an interrupt, as the comment at
  `creds.go:61-66` promises, when its loop ends because of the closed listener. An interrupt between
  `ListenUnix` and `Notify` kills it, and `Accept` may fail for another reason first: then the file stays.
* A TLS handshake is part of the first `Read`. `ListenAndServeTLS` is called once on a
  server (a second call would close `ready` again).
* Of `net/http` only what `run` uses is modelled: `Close` closes the listener and every
  connection, and serving after it returns `ErrServerClosed`.
* `GetsockoptUcred` interrupted by a signal is called again, which is no step of the model.

## 6. Not modelled

Routes, handlers and middleware of `ch09`: each request is answered from the request
alone, the concurrency is in `net/http`; and the Caddy modules that `ch10/main.go` registers.
Start-up code (`tftp.go`, `ch12/server/server.go`), certificate generation, the checksum and
TCP ping commands: sequential input and output, where a model would only repeat the
statements. `ch04/send`: a fragment whose connection is never set. The dial fan-out of
`ch03`, `ch08` and most other tests: demonstrations of the standard library.
Generated protobuf and gRPC code (a fifth of the lines under `src/`).

## 7. Plan

1. An abstract specification for the echo services (a client and its echo, without sockets
   and loops) that `Servers` implements, as `OrderedStreams` is for the proxy, with its
   refinement proved.
2. An abstract list with atomic commands for `Rosie`, and what of it `HouseworkFile` implements
   while commands do not overlap.
