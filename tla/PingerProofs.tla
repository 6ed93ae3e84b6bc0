---------------------------- MODULE PingerProofs ----------------------------
(***************************************************************************)
(* Pinger never loses its timer, never pings early and never waits for a   *)
(* timer value that is not there, unless a write has failed; for any       *)
(* intervals, any default and any number of resets.                        *)
(***************************************************************************)
EXTENDS Pinger, TLAPS

\* Before anything happens there is no timer.
LEMMA TimerInit == Init => TimerInv
  BY DEF Init, TimerInv

\* Arming restores the invariant's part about the loop, once the channel is empty.
LEMMA ArmedLoop ==
  ASSUME NEW d, Arm(d), tick' = FALSE, pc' = "loop", lastWrite' = "ok"
  PROVE  TimerInv'
  BY DEF Arm, TimerInv

\* Each step keeps the timer, its channel and Pinger's place in agreement.
LEMMA TimerStep == TimerInv /\ [Next]_vars => TimerInv'
<1> SUFFICES ASSUME TimerInv, [Next]_vars
             PROVE  TimerInv'
  OBVIOUS
<1>1. CASE StartCancelled
  BY <1>1 DEF StartCancelled, TimerInv
<1>2. ASSUME NEW d \in Durations \union {0}, Start(d)
      PROVE  TimerInv'
  <2>1. tick' = FALSE /\ pc' = "loop" /\ lastWrite' = "ok"
    BY <1>2 DEF Start, TimerInv
  <2>2. QED
    BY <1>2, <2>1, ArmedLoop DEF Start
<1>3. CASE SeeCancel
  BY <1>3 DEF SeeCancel, TimerInv
<1>4. ASSUME NEW d \in Durations \union {0}, TakeReset(d)
      PROVE  TimerInv'
  <2>1. CASE timer = "armed"
    <3>1. tick' = FALSE /\ pc' = "loop" /\ lastWrite' = "ok" /\ Arm(NewInterval(d))
      BY <1>4, <2>1 DEF TakeReset, TimerInv
    <3>2. QED
      BY <3>1, ArmedLoop
  <2>2. CASE timer # "armed"
    BY <1>4, <2>2 DEF TakeReset, TimerInv
  <2>3. QED
    BY <2>1, <2>2
<1>5. CASE Drain
  <2>1. tick' = FALSE /\ pc' = "loop" /\ lastWrite' = "ok" /\ Arm(interval)
    BY <1>5 DEF Drain, TimerInv
  <2>2. QED
    BY <2>1, ArmedLoop
<1>6. CASE TakeTick
  BY <1>6 DEF TakeTick, TimerInv
<1>7. CASE WriteOk
  <2>1. tick' = FALSE /\ pc' = "loop" /\ lastWrite' = "ok" /\ Arm(interval)
    BY <1>7 DEF WriteOk, TimerInv
  <2>2. QED
    BY <2>1, ArmedLoop
<1>8. CASE WriteFails
  BY <1>8 DEF WriteFails, TimerInv
<1>9. CASE Exit
  BY <1>9 DEF Exit, TimerInv
<1>10. CASE ExitDrain
  BY <1>10 DEF ExitDrain, TimerInv
<1>11. CASE TimePasses
  BY <1>11 DEF TimePasses, TimerInv
<1>12. CASE Fire
  BY <1>12 DEF Fire, TimerInv
<1>13. ASSUME UNCHANGED pingerVars
       PROVE  TimerInv'
  BY <1>13 DEF pingerVars, TimerInv
<1>14. QED
  BY <1>1, <1>2, <1>3, <1>4, <1>5, <1>6, <1>7, <1>8, <1>9, <1>10, <1>11, <1>12,
     <1>13
     DEF Next, Ping, vars, OwnerReset, OwnerSend, OwnerCancel, Close

\* The invariant holds throughout every behaviour.
THEOREM TimerInvariant == Spec => []TimerInv
<1>1. QED
  BY TimerInit, TimerStep, PTL DEF Spec

\* Whenever Pinger waits in its select (ping.go:36) a ping is due.
THEOREM PingAlwaysDue == Spec => []PingDue
<1>1. TimerInv => PingDue
  BY DEF TimerInv, PingDue
<1>2. QED
  BY <1>1, TimerInvariant, PTL

\* A receive from timer.C (ping.go:30 and :46) finds a value, unless the last
\* write failed.
THEOREM DrainNeverBlocks == Spec => []DrainFindsTick
<1>1. TimerInv => DrainFindsTick
  BY DEF TimerInv, DrainFindsTick
<1>2. QED
  BY <1>1, TimerInvariant, PTL

\* Pinger writes only when the whole interval has passed since the last ping or
\* reset (ping.go:52).
THEOREM PingsNeverEarly == Spec => NeverEarly
<1>1. TimerInv /\ [Next]_vars =>
        [pc = "loop" /\ pc' = "writing" => elapsed >= interval]_vars
  <2> SUFFICES ASSUME TimerInv, Next, pc = "loop", pc' = "writing"
               PROVE  elapsed >= interval
    BY DEF vars
  <2>1. TakeTick
    BY DEF Next, Ping, StartCancelled, Start, SeeCancel, TakeReset, Drain, WriteOk,
           WriteFails, Exit, ExitDrain, TimePasses, Fire, OwnerReset, OwnerSend,
           OwnerCancel, Close, pingerVars
  <2>2. QED
    BY <2>1 DEF TakeTick, TimerInv
<1>2. QED
  BY <1>1, TimerInvariant, PTL DEF Spec, NeverEarly

-----------------------------------------------------------------------------
(* Types                                                                   *)

LEMMA TypesInit == Init => TypeOK
<1> SUFFICES ASSUME Init
             PROVE  TypeOK
  OBVIOUS
<1>1. elapsed \in 0..Horizon /\ resets \in 0..MaxResets
  BY PingerAssumption DEF Init
<1>2. reset = <<>> \/ \E d \in Durations : reset = <<d>>
  BY DEF Init
<1> QED
  BY <1>1, <1>2 DEF Init, TypeOK

\* The values a timer is armed with are positive, and no step loses that.
LEMMA NewIntervals ==
    ASSUME NEW d \in Durations \union {0}, interval \in Intervals
    PROVE  NewInterval(d) \in Intervals
  BY PingerAssumption DEF NewInterval, Intervals

\* Arming with an interval.
LEMMA ArmTypes ==
    ASSUME TypeOK, NEW d \in Intervals, Arm(d)
    PROVE  /\ interval' \in Intervals /\ timer' = "armed"
           /\ elapsed' \in 0..Horizon
  BY PingerAssumption DEF Arm

\* Every step keeps the types; that interval is set when the timer is armed comes
\* from TimerInv.
LEMMA TypesStep == TimerInv /\ TypeOK /\ [Next]_vars => TypeOK'
<1> SUFFICES ASSUME TimerInv, TypeOK, [Next]_vars
             PROVE  TypeOK'
  OBVIOUS
<1> USE DEF ownerVars
<1>1. CASE StartCancelled
  BY <1>1 DEF StartCancelled, TypeOK
<1>2. ASSUME NEW d \in Durations \union {0}, Start(d)
      PROVE  TypeOK'
  <2>1. (IF d > 0 THEN d ELSE DefaultInterval) \in Intervals
    BY PingerAssumption DEF Intervals
  <2>2. interval' \in Intervals /\ timer' = "armed" /\ elapsed' \in 0..Horizon
    BY <1>2, <2>1, ArmTypes DEF Start
  <2>3. reset' = <<>> /\ pc' = "loop" /\ UNCHANGED <<tick, lastWrite, owner, resets, cancelled, open>>
    BY <1>2 DEF Start
  <2> QED
    BY <2>2, <2>3 DEF TypeOK
<1>3. CASE SeeCancel
  BY <1>3 DEF SeeCancel, TypeOK
<1>4. ASSUME NEW d \in Durations \union {0}, TakeReset(d)
      PROVE  TypeOK'
  <2>1. interval \in Intervals /\ timer # "none"
    BY <1>4 DEF TakeReset, TimerInv, TypeOK
  <2>2. NewInterval(d) \in Intervals
    BY <2>1, NewIntervals
  <2>3. reset' = <<>> /\ UNCHANGED <<tick, lastWrite, owner, resets, cancelled, open>>
    BY <1>4 DEF TakeReset
  <2>4. CASE timer = "armed"
    <3>1. interval' \in Intervals /\ timer' = "armed" /\ elapsed' \in 0..Horizon /\ pc' = pc
      BY <1>4, <2>2, <2>4, ArmTypes DEF TakeReset
    <3> QED
      BY <2>3, <3>1 DEF TypeOK
  <2>5. CASE timer # "armed"
    <3>1. interval' = NewInterval(d) /\ pc' = "drain" /\ UNCHANGED <<timer, elapsed>>
      BY <1>4, <2>5 DEF TakeReset
    <3> QED
      BY <2>1, <2>2, <2>3, <3>1 DEF TypeOK
  <2> QED
    BY <2>4, <2>5
<1>5. CASE Drain
  <2>1. interval \in Intervals
    BY <1>5 DEF Drain, TimerInv, TypeOK
  <2>2. interval' \in Intervals /\ timer' = "armed" /\ elapsed' \in 0..Horizon
    BY <1>5, <2>1, ArmTypes DEF Drain
  <2> QED
    BY <1>5, <2>2 DEF Drain, TypeOK
<1>6. CASE TakeTick
  BY <1>6 DEF TakeTick, TypeOK
<1>7. CASE WriteOk
  <2>1. interval \in Intervals
    BY <1>7 DEF WriteOk, TimerInv, TypeOK
  <2>2. interval' \in Intervals /\ timer' = "armed" /\ elapsed' \in 0..Horizon
    BY <1>7, <2>1, ArmTypes DEF WriteOk
  <2> QED
    BY <1>7, <2>2 DEF WriteOk, TypeOK
<1>8. CASE WriteFails
  BY <1>8 DEF WriteFails, TypeOK
<1>9. CASE Exit
  <2>1. timer # "none" /\ interval \in Intervals
    BY <1>9 DEF Exit, TimerInv, TypeOK
  <2> QED
    BY <1>9, <2>1 DEF Exit, TypeOK
<1>10. CASE ExitDrain
  BY <1>10 DEF ExitDrain, TypeOK
<1>11. CASE TimePasses
  <2>1. elapsed' \in 0..Horizon
    BY <1>11, PingerAssumption DEF TimePasses, TypeOK
  <2> QED
    BY <1>11, <2>1 DEF TimePasses, TypeOK
<1>12. CASE Fire
  BY <1>12 DEF Fire, TypeOK
<1>13. CASE OwnerReset
  <2>1. resets' \in 0..MaxResets
    BY <1>13, PingerAssumption DEF OwnerReset, TypeOK
  <2> QED
    BY <1>13, <2>1 DEF OwnerReset, TypeOK, pingerVars
<1>14. ASSUME NEW d \in Durations, OwnerSend(d)
       PROVE  TypeOK'
  BY <1>14 DEF OwnerSend, TypeOK, pingerVars
<1>15. CASE OwnerCancel
  BY <1>15 DEF OwnerCancel, TypeOK, pingerVars
<1>16. CASE Close
  BY <1>16 DEF Close, TypeOK, pingerVars
<1>17. CASE UNCHANGED vars
  BY <1>17 DEF vars, TypeOK, pingerVars
<1> QED
  BY <1>1, <1>2, <1>3, <1>4, <1>5, <1>6, <1>7, <1>8, <1>9, <1>10, <1>11, <1>12,
     <1>13, <1>14, <1>15, <1>16, <1>17
     DEF Next, Ping

\* For any intervals: once there is a timer its interval is positive, so Pinger never
\* pings in a busy loop, whatever is written to the reset channel (ping.go:22 and :48).
THEOREM IntervalsArePositive == Spec => []TypeOK
<1>1. Init => TimerInv /\ TypeOK
  BY TimerInit, TypesInit
<1>2. TimerInv /\ TypeOK /\ [Next]_vars => (TimerInv /\ TypeOK)'
  BY TimerStep, TypesStep
<1> QED
  BY <1>1, <1>2, PTL DEF Spec
=============================================================================
