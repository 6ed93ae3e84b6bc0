------------------------------- MODULE Pinger -------------------------------
(***************************************************************************)
(* Pinger of ch03/ping.go, its timer and the goroutine that owns it: the   *)
(* owner of ping_test.go and ping_example_test.go writes intervals to the  *)
(* reset channel (capacity 1), cancels the context and may close the       *)
(* connection that Pinger writes to.                                       *)
(*                                                                         *)
(* The timer is that of Go 1.21 (go.mod): firing puts a value into the     *)
(* channel timer.C, and neither Stop nor Reset takes it out again.         *)
(***************************************************************************)
EXTENDS Integers, Sequences

CONSTANTS
    Durations,          \* intervals the owner writes to the reset channel
    DefaultInterval,    \* defaultPingInterval
    Horizon,            \* bound: no interval is longer
    MaxResets           \* bound: intervals written to the channel

Intervals == {d \in Durations : d > 0} \union {DefaultInterval}

ASSUME PingerAssumption ==
    /\ Durations \subseteq Int
    /\ DefaultInterval \in Nat \ {0}
    /\ Horizon \in Nat /\ \A d \in Intervals : d <= Horizon
    /\ MaxResets \in Nat

VARIABLES
    pc,         \* where Pinger is
    interval,   \* interval
    timer,      \* the timer: none yet, armed, or not (expired or stopped)
    tick,       \* timer.C holds a value
    elapsed,    \* time since the timer was last armed, up to Horizon
    lastWrite,  \* how the last Write ended
    reset,      \* the reset channel
    owner,      \* where the owner is
    resets,     \* intervals the owner has started to write
    cancelled,  \* ctx is done
    open        \* the connection is open

pingerVars == <<pc, interval, timer, tick, elapsed, lastWrite>>
ownerVars == <<owner, resets, cancelled, open>>
vars == <<pingerVars, reset, ownerVars>>

-----------------------------------------------------------------------------
Init ==
    /\ pc = "start"
    /\ interval = 0
    /\ timer = "none"
    /\ tick = FALSE
    /\ elapsed = 0
    /\ lastWrite = "ok"
    /\ reset \in {<<>>} \union {<<d>> : d \in Durations}
    /\ owner = "idle"
    /\ resets = 0
    /\ cancelled = FALSE
    /\ open = TRUE

-----------------------------------------------------------------------------
(* Pinger                                                                  *)

\* NewTimer and Reset, for interval d. Operators named after another one of
\* this module are that one with a mistake in it, to show what each property
\* would catch; the specification does not use them.
Arm(d) ==
    /\ interval' = d
    /\ timer' = "armed"
    /\ elapsed' = 0

\* The select before the loop: its default is taken if neither channel is ready.
StartCancelled ==
    /\ pc = "start" /\ cancelled
    /\ pc' = "returned"
    /\ UNCHANGED <<interval, timer, tick, elapsed, lastWrite, reset, ownerVars>>

Start(d) ==
    /\ pc = "start"
    /\ \/ reset = <<d>> /\ reset' = <<>>
       \/ reset = <<>> /\ ~cancelled /\ d = 0 /\ UNCHANGED reset
    /\ Arm(IF d > 0 THEN d ELSE DefaultInterval)
    /\ pc' = "loop"
    /\ UNCHANGED <<tick, lastWrite, ownerVars>>

SeeCancelAndLoop ==
    /\ pc = "loop" /\ cancelled
    /\ Arm(interval)
    /\ UNCHANGED <<pc, tick, lastWrite, reset, ownerVars>>

SeeCancel ==
    /\ pc = "loop" /\ cancelled
    /\ pc' = "exit"
    /\ UNCHANGED <<interval, timer, tick, elapsed, lastWrite, reset, ownerVars>>

NewIntervalUnchecked(d) == d

\* newInterval replaces the interval only if it is positive.
NewInterval(d) == IF d > 0 THEN d ELSE interval

TakeResetNever(d) == FALSE /\ UNCHANGED vars

TakeResetUndrained(d) ==
    /\ pc = "loop"
    /\ reset = <<d>> /\ reset' = <<>>
    /\ Arm(NewInterval(d))
    /\ UNCHANGED <<pc, tick, lastWrite, ownerVars>>

TakeResetUnarmed(d) ==
    /\ pc = "loop"
    /\ reset = <<d>> /\ reset' = <<>>
    /\ interval' = NewInterval(d)
    /\ timer' = "unarmed"
    /\ tick' = FALSE
    /\ UNCHANGED <<pc, elapsed, lastWrite, ownerVars>>

\* An interval is read from the channel and the timer stopped. If it had expired
\* its channel is drained first; then the timer is armed again.
TakeReset(d) ==
    /\ pc = "loop"
    /\ reset = <<d>> /\ reset' = <<>>
    /\ \/ timer = "armed" /\ Arm(NewInterval(d)) /\ UNCHANGED pc
       \/ /\ timer # "armed"
          /\ pc' = "drain"
          /\ interval' = NewInterval(d)
          /\ UNCHANGED <<timer, elapsed>>
    /\ UNCHANGED <<tick, lastWrite, ownerVars>>

Drain ==
    /\ pc = "drain" /\ tick
    /\ tick' = FALSE
    /\ Arm(interval)
    /\ pc' = "loop"
    /\ UNCHANGED <<lastWrite, reset, ownerVars>>

TakeTick ==
    /\ pc = "loop" /\ tick
    /\ tick' = FALSE
    /\ pc' = "writing"
    /\ UNCHANGED <<interval, timer, elapsed, lastWrite, reset, ownerVars>>

WriteOkUnarmed ==
    /\ pc = "writing" /\ open
    /\ lastWrite' = "ok"
    /\ pc' = "loop"
    /\ UNCHANGED <<interval, timer, elapsed, tick, reset, ownerVars>>

WriteOk ==
    /\ pc = "writing" /\ open
    /\ lastWrite' = "ok"
    /\ Arm(interval)
    /\ pc' = "loop"
    /\ UNCHANGED <<tick, reset, ownerVars>>

WriteFails ==
    /\ pc = "writing" /\ ~open
    /\ lastWrite' = "failed"
    /\ pc' = "exit"
    /\ UNCHANGED <<interval, timer, tick, elapsed, reset, ownerVars>>

\* The deferred function: Stop, and if the timer was not armed wait for a value.
Exit ==
    /\ pc = "exit"
    /\ pc' = IF timer = "armed" THEN "returned" ELSE "exitDrain"
    /\ timer' = "unarmed"
    /\ UNCHANGED <<interval, tick, elapsed, lastWrite, reset, ownerVars>>

ExitDrain ==
    /\ pc = "exitDrain" /\ tick
    /\ tick' = FALSE
    /\ pc' = "returned"
    /\ UNCHANGED <<interval, timer, elapsed, lastWrite, reset, ownerVars>>

Ping ==
    \/ StartCancelled \/ SeeCancel
    \/ \E d \in Durations \union {0} : Start(d) \/ TakeReset(d)
    \/ Drain \/ TakeTick
    \/ WriteOk \/ WriteFails
    \/ Exit \/ ExitDrain

-----------------------------------------------------------------------------
(* The runtime: time passes, and a due timer fires.                        *)

\* Time beyond the longest interval makes no difference.
TimePasses ==
    /\ timer = "armed"
    /\ elapsed < Horizon
    /\ elapsed' = elapsed + 1
    /\ UNCHANGED <<pc, interval, timer, tick, lastWrite, reset, ownerVars>>

Fire ==
    /\ timer = "armed"
    /\ elapsed >= interval
    /\ timer' = "unarmed"
    /\ tick' = TRUE
    /\ UNCHANGED <<pc, interval, elapsed, lastWrite, reset, ownerVars>>

-----------------------------------------------------------------------------
(* The owner: it decides to write an interval, blocks while the channel is  *)
(* full, and cancels in the end. The connection is closed by its peer, by   *)
(* the owner after the cancellation, or never.                             *)

OwnerReset ==
    /\ owner = "idle"
    /\ resets < MaxResets
    /\ owner' = "sending"
    /\ resets' = resets + 1
    /\ UNCHANGED <<pingerVars, reset, cancelled, open>>

OwnerSend(d) ==
    /\ owner = "sending"
    /\ reset = <<>>
    /\ reset' = <<d>>
    /\ owner' = "idle"
    /\ UNCHANGED <<pingerVars, resets, cancelled, open>>

OwnerCancel ==
    /\ owner = "idle"
    /\ owner' = "done"
    /\ cancelled' = TRUE
    /\ UNCHANGED <<pingerVars, reset, resets, open>>

Close ==
    /\ open
    /\ open' = FALSE
    /\ UNCHANGED <<pingerVars, reset, owner, resets, cancelled>>

Next ==
    \/ Ping
    \/ TimePasses \/ Fire
    \/ OwnerReset \/ OwnerCancel \/ Close
    \/ \E d \in Durations : OwnerSend(d)

\* Pinger is scheduled and its writes return; a select does not forever prefer
\* other ready cases to the cancellation (Go chooses at random) or to a reset;
\* time passes and timers fire; a blocked send completes when there is room.
Fairness ==
    /\ WF_vars(Ping)
    /\ SF_vars(SeeCancel)
    /\ SF_vars(\E d \in Durations : TakeReset(d))
    /\ WF_vars(TimePasses) /\ WF_vars(Fire)
    /\ WF_vars(\E d \in Durations : OwnerSend(d))

Spec == Init /\ [][Next]_vars /\ Fairness

-----------------------------------------------------------------------------
(* Properties                                                              *)

\* Every variable has its type; an armed timer's interval is positive, so
\* Pinger never pings in a busy loop.
TypeOK ==
    /\ pc \in {"start", "loop", "drain", "writing", "exit", "exitDrain", "returned"}
    /\ timer \in {"none", "armed", "unarmed"}
    /\ interval \in Intervals \union (IF timer = "none" THEN {0} ELSE {})
    /\ tick \in BOOLEAN
    /\ elapsed \in 0..Horizon
    /\ lastWrite \in {"ok", "failed"}
    /\ reset \in {<<>>} \union {<<d>> : d \in Durations}
    /\ owner \in {"idle", "sending", "done"}
    /\ resets \in 0..MaxResets
    /\ cancelled \in BOOLEAN
    /\ open \in BOOLEAN

\* A ping is written only when the full interval has passed since the last ping
\* or reset: a value that an expired timer left in its channel just before the
\* reset is never taken for the new timer's.
NeverEarly ==
    [][pc = "loop" /\ pc' = "writing" => elapsed >= interval]_vars

\* Whenever Pinger waits in its select a ping is due: the timer is armed or its
\* value is waiting, never both. No sequence of resets and pings loses the timer.
PingDue == pc = "loop" => (timer = "armed") # tick

\* A wait for the value of an expired timer finds it there, unless the value has
\* just been taken for a ping that could not be written.
DrainFindsTick ==
    pc \in {"drain", "exitDrain"} /\ lastWrite = "ok" => tick

\* What makes PingDue, DrainFindsTick and NeverEarly inductive (PingerProofs.tla):
\* the timer and its channel in each place of Pinger.
TimerInv ==
    /\ timer \in {"none", "armed", "unarmed"}
    /\ tick \in BOOLEAN
    /\ timer # "unarmed" => ~tick
    /\ pc = "start" => timer = "none"
    /\ pc \in {"loop", "drain", "writing", "exit", "exitDrain"} => timer # "none"
    /\ pc = "loop" => (timer = "armed" \/ tick)
    /\ pc = "loop" /\ tick => elapsed >= interval
    /\ pc = "drain" => tick
    /\ pc = "writing" => timer = "unarmed" /\ ~tick
    /\ pc = "exit" /\ lastWrite = "ok" => (timer = "armed" \/ tick)
    /\ pc = "exitDrain" => timer = "unarmed"
    /\ pc = "exitDrain" /\ lastWrite = "ok" => tick
    /\ lastWrite # "ok" => pc \in {"exit", "exitDrain", "returned"}

\* After a cancellation Pinger returns, if no write has failed.
CancelEndsPinger == cancelled ~> (pc = "returned" \/ lastWrite = "failed")

\* The owner is not blocked forever on the reset channel, if no write has failed.
ResetAccepted == owner = "sending" ~> (owner # "sending" \/ lastWrite = "failed")

\* "Has the pinger ended after the context was cancelled?" (the example's last
\* step): after a cancellation Pinger returns, whatever happened before.
CancelAlwaysEndsPinger == cancelled ~> pc = "returned"
=============================================================================
