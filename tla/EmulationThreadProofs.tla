----------------------- MODULE EmulationThreadProofs -----------------------
(***************************************************************************)
(* Proofs about the emulation thread: how it hands drawn frames to the     *)
(* blit thread (BlitHandshake), how it is paused by the user interface     *)
(* (PauseHandshake), how it counts the cycles of a recompiled block        *)
(* (BlockClock), and the list of timers it keeps against that count        *)
(* (TimerList).                                                            *)
(*                                                                         *)
(* BlitHandshake: the two flags and the wake-up event are written by two   *)
(* threads without a lock, but a posted frame is always in one place:      *)
(* being posted by the emulation thread, announced by the event, or in the *)
(* hands of the blit thread.  That is what busy says, as long as the       *)
(* monitor is not being closed.                                            *)
(***************************************************************************)
EXTENDS BlitHandshake, PauseHandshake, BlockClock, TimerList, FiniteSetTheorems,
        WellFoundedInduction, TLAPS

Posting == emu \in {"use", "frame", "wake"}
Handling == blit \in {"call", "copy", "release", "released", "done"}

(* The event is set only for a blit thread that has no frame in hand. *)
OnePlace ==
  /\ Posting => ~wake_blit_thread /\ blit \in {"notify", "run?", "sleep"}
  /\ wake_blit_thread => blit \in {"notify", "run?", "sleep", "awake"}
  /\ blit = "awake" => wake_blit_thread
  /\ blit # "ended"

BusyMeans ==
  /\ busy <=> Posting \/ wake_blit_thread \/ Handling
  /\ emu \in {"blit ok", "busy"} => ~busy

(* The buffer is in use from before the frame is announced until it is      *)
(* copied, and a card that was given the buffer keeps it until it posts.    *)
BufferMeans ==
  /\ emu \in {"buffer ok", "draw", "blit?", "blit", "blit ok", "busy", "use"} => ~buffer_in_use
  /\ emu \in {"frame", "wake"} \/ wake_blit_thread \/ blit \in {"call", "copy", "release"}
       => buffer_in_use

FrameMeans ==
  frame = IF emu = "wake" \/ wake_blit_thread \/ blit = "call" THEN NextFrame(taken) ELSE taken

(* The closing thread clears the run flag before it sets the event. *)
CloseMeans ==
  /\ thread_run <=> closer \in {"open", "stop"}
  /\ closer = "open" => blit_func
  /\ closer # "open" => emu \in {"idle", "draw"}

BlitInv ==
  /\ BlitTypeOK
  /\ CloseMeans
  /\ thread_run => OnePlace /\ BusyMeans /\ FrameMeans
  /\ closer = "open" => BufferMeans

-----------------------------------------------------------------------------
LEMMA NextFrameType == \A f \in Frames : NextFrame(f) \in Frames
BY BlitAssumption DEF Frames, NextFrame

LEMMA BlitInitInv == BlitInit => BlitInv
<1>1. 0 \in Frames BY BlitAssumption DEF Frames
<1> QED
  BY <1>1
     DEF BlitInit, BlitInv, BlitTypeOK, CloseMeans, OnePlace, BusyMeans, BufferMeans, FrameMeans,
         Posting, Handling

LEMMA BlitNextInv == BlitInv /\ [BlitNext]_blitVars => BlitInv'
<1> SUFFICES ASSUME BlitInv, [BlitNext]_blitVars PROVE BlitInv' OBVIOUS
<1> USE NextFrameType
    DEF BlitInv, BlitTypeOK, CloseMeans, OnePlace, BusyMeans, BufferMeans, FrameMeans,
        Posting, Handling, flags, events
<1>1. CASE FrameStarts BY <1>1 DEF FrameStarts, Emu
<1>2. CASE BufferTested BY <1>2 DEF BufferTested, Emu
<1>3. CASE BufferWaited BY <1>3 DEF BufferWaited, Emu, TestedAgain
<1>4. CASE BufferMine BY <1>4 DEF BufferMine, Emu
<1>5. CASE FrameDrawn BY <1>5 DEF FrameDrawn, Emu
<1>6. CASE BlitTested BY <1>6 DEF BlitTested, Emu, BusyTested
<1>7. CASE BlitWaited BY <1>7 DEF BlitWaited, Emu
<1>8. CASE BlitMine BY <1>8 DEF BlitMine, Emu
<1>9. CASE PostBusy BY <1>9 DEF PostBusy, Emu
<1>10. CASE PostInUse BY <1>10 DEF PostInUse, Emu
<1>11. CASE PostFrame BY <1>11 DEF PostFrame, Emu
<1>12. CASE PostWake BY <1>12 DEF PostWake, Emu, Wakes
<1>13. CASE ThreadTest BY <1>13 DEF ThreadTest, Blit
<1>14. CASE ThreadWoken BY <1>14 DEF ThreadWoken, Blit
<1>15. CASE ThreadReset BY <1>15 DEF ThreadReset, Blit, WakeReset
<1>16. CASE BlitFunc BY <1>16 DEF BlitFunc, Blit, DropsFrame
<1>17. CASE Copied BY <1>17 DEF Copied, Blit
<1>18. CASE BufferReleased BY <1>18 DEF BufferReleased, Blit
<1>19. CASE BufferNotified BY <1>19 DEF BufferNotified, Blit
<1>20. CASE ThreadDone BY <1>20 DEF ThreadDone, Blit
<1>21. CASE ThreadNotifies BY <1>21 DEF ThreadNotifies, Blit
<1>22. CASE CloseStarts BY <1>22 DEF CloseStarts
<1>23. CASE CloseStops BY <1>23 DEF CloseStops
<1>24. CASE CloseWake BY <1>24 DEF CloseWake, CloseWakes
<1>25. CASE CloseJoined BY <1>25 DEF CloseJoined
<1>26. CASE UNCHANGED blitVars BY <1>26 DEF blitVars
<1> QED
  BY <1>1, <1>2, <1>3, <1>4, <1>5, <1>6, <1>7, <1>8, <1>9, <1>10, <1>11, <1>12, <1>13,
     <1>14, <1>15, <1>16, <1>17, <1>18, <1>19, <1>20, <1>21, <1>22, <1>23, <1>24, <1>25, <1>26
     DEF BlitNext, EmuStep, BlitStep, CloseStep

LEMMA BlitInvariance == BlitSpec => []BlitInv
BY BlitInitInv, BlitNextInv, PTL DEF BlitSpec

(* While a card draws, the blit thread does not copy: video_wait_for_buffer *)
(* protects the target buffer although it does not wait for the blit to     *)
(* end and although its event may be stale.                                 *)
THEOREM TearingCorrect == BlitSpec => []NoTearing
<1>1. BlitInv => NoTearing BY DEF BlitInv, NoTearing, BufferMeans
<1> QED BY BlitInvariance, <1>1, PTL

(* The blit thread takes every posted frame once and in order: no frame is  *)
(* overwritten before it is taken and none is taken twice, as long as the   *)
(* monitor is not being closed.                                             *)
THEOREM OrderCorrect == BlitSpec => FramesInOrder
<1>1. BlitInv => [blit = "call" /\ blit' # "call" /\ thread_run => frame = NextFrame(taken)]_blitVars
  BY DEF BlitInv, FrameMeans
<1> QED BY BlitInvariance, <1>1, PTL DEF FramesInOrder

(* A buffer in use is being posted, announced or handled: there is always   *)
(* someone to release it.                                                   *)
BufferOwned ==
  closer = "open" /\ buffer_in_use
    => emu \in {"frame", "wake"} \/ wake_blit_thread \/ blit \in {"call", "copy", "release"}

LEMMA BlitHeardStep ==
  ASSUME BlitInv, BufferOwned, BlitHeard, [BlitNext]_blitVars
  PROVE  BufferOwned' /\ BlitHeard'
<1> USE DEF BlitInv, BlitTypeOK, CloseMeans, OnePlace, BusyMeans, BufferOwned, BlitHeard, Working,
            Posting, Handling, flags, events
<1>1. CASE FrameStarts BY <1>1 DEF FrameStarts, Emu
<1>2. CASE BufferTested BY <1>2 DEF BufferTested, Emu
<1>3. CASE BufferWaited BY <1>3 DEF BufferWaited, Emu, TestedAgain
<1>4. CASE BufferMine BY <1>4 DEF BufferMine, Emu
<1>5. CASE FrameDrawn BY <1>5 DEF FrameDrawn, Emu
<1>6. CASE BlitTested BY <1>6 DEF BlitTested, Emu, BusyTested
<1>7. CASE BlitWaited BY <1>7 DEF BlitWaited, Emu
<1>8. CASE BlitMine BY <1>8 DEF BlitMine, Emu
<1>9. CASE PostBusy BY <1>9 DEF PostBusy, Emu
<1>10. CASE PostInUse BY <1>10 DEF PostInUse, Emu
<1>11. CASE PostFrame BY <1>11 DEF PostFrame, Emu
<1>12. CASE PostWake BY <1>12 DEF PostWake, Emu, Wakes
<1>13. CASE ThreadTest BY <1>13 DEF ThreadTest, Blit
<1>14. CASE ThreadWoken BY <1>14 DEF ThreadWoken, Blit
<1>15. CASE ThreadReset BY <1>15 DEF ThreadReset, Blit, WakeReset
<1>16. CASE BlitFunc BY <1>16 DEF BlitFunc, Blit, DropsFrame
<1>17. CASE Copied BY <1>17 DEF Copied, Blit
<1>18. CASE BufferReleased BY <1>18 DEF BufferReleased, Blit
<1>19. CASE BufferNotified BY <1>19 DEF BufferNotified, Blit
<1>20. CASE ThreadDone BY <1>20 DEF ThreadDone, Blit
<1>21. CASE ThreadNotifies BY <1>21 DEF ThreadNotifies, Blit
<1>22. CASE CloseStarts BY <1>22 DEF CloseStarts
<1>23. CASE CloseStops BY <1>23 DEF CloseStops
<1>24. CASE CloseWake BY <1>24 DEF CloseWake, CloseWakes
<1>25. CASE CloseJoined BY <1>25 DEF CloseJoined
<1>26. CASE UNCHANGED blitVars BY <1>26 DEF blitVars
<1> QED
  BY <1>1, <1>2, <1>3, <1>4, <1>5, <1>6, <1>7, <1>8, <1>9, <1>10, <1>11, <1>12, <1>13,
     <1>14, <1>15, <1>16, <1>17, <1>18, <1>19, <1>20, <1>21, <1>22, <1>23, <1>24, <1>25, <1>26
     DEF BlitNext, EmuStep, BlitStep, CloseStep

(* Neither video_wait_for_buffer nor video_wait_for_blit is ever entered    *)
(* with nobody left to set its event, and video_monitor_close joins no      *)
(* sleeping thread, although the events stay set from earlier frames and    *)
(* the flags are tested without a lock.                                     *)
THEOREM BlitWaitsCorrect == BlitSpec => []BlitHeard
<1>1. BlitInit => BufferOwned /\ BlitHeard BY DEF BlitInit, BufferOwned, BlitHeard
<1>2. BlitInv /\ BufferOwned /\ BlitHeard /\ [BlitNext]_blitVars => BufferOwned' /\ BlitHeard'
  BY BlitHeardStep
<1> QED BY BlitInvariance, <1>1, <1>2, PTL DEF BlitSpec

-----------------------------------------------------------------------------
(* The pause handshake, for both main loops and whether or not the guest    *)
(* may suspend the machine or raise warnings.  The acknowledgement is a     *)
(* token: asked for, being given, or given, never two at a time, and it     *)
(* exists only while a do_pause call of the user interface waits for it.    *)

OneToken ==
  /\ ~(do_pause_ack /\ cpu = "acked")
  /\ pause_ack => ~do_pause_ack /\ cpu # "acked"

TokenAwaited ==
  /\ do_pause_ack \/ cpu = "acked" => ui \in {"set", "wait"} /\ Waits
  /\ pause_ack => ui \in {"set", "wait", "clear"} /\ Waits

TokenInv == PauseTypeOK /\ GuestRunsLocked /\ OneToken /\ TokenAwaited

LEMMA InitToken == PauseInit => TokenInv
BY DEF PauseInit, TokenInv, PauseTypeOK, GuestRunsLocked, OneToken, TokenAwaited

LEMMA NextToken == TokenInv /\ [PauseNext]_pauseVars => TokenInv'
<1> SUFFICES ASSUME TokenInv, [PauseNext]_pauseVars PROVE TokenInv' OBVIOUS
<1> USE DEF TokenInv, PauseTypeOK, GuestRunsLocked, OneToken, TokenAwaited, Waits,
            pauseFlags, uiVars, cpuVars
<1>1. ASSUME NEW v \in BOOLEAN, plat_pause(v) PROVE TokenInv'
  BY <1>1 DEF plat_pause
<1>2. CASE DoPauseEnter BY <1>2 DEF DoPauseEnter
<1>3. CASE DoPauseAsk BY <1>3 DEF DoPauseAsk
<1>4. CASE DoPauseSet BY <1>4 DEF DoPauseSet
<1>5. CASE DoPauseWait BY <1>5 DEF DoPauseWait
<1>6. CASE DoPauseClear BY <1>6, ZenonT(60) DEF DoPauseClear, AckCleared
<1>7. CASE StartblitLocked BY <1>7 DEF StartblitLocked, LockFree
<1>8. CASE Endblit BY <1>8 DEF Endblit
<1>9. CASE MessageClosed BY <1>9 DEF MessageClosed
<1>10. CASE pc_reset_hard BY <1>10 DEF pc_reset_hard
<1>11. CASE Startblit BY <1>11 DEF Startblit
<1>12. CASE RunQuantum BY <1>12 DEF RunQuantum, MayRun
<1>13. CASE Idle BY <1>13 DEF Idle, IdleAcks
<1>14. CASE QuantumStarts BY <1>14 DEF QuantumStarts, LockFree
<1>15. CASE QuantumEnds BY <1>15 DEF QuantumEnds
<1>16. CASE AckPause BY <1>16, ZenonT(60) DEF AckPause, AfterAck
<1>17. CASE AckGiven BY <1>17 DEF AckGiven, AfterAck
<1>18. CASE QuantumUnlocks BY <1>18 DEF QuantumUnlocks
<1>19. CASE Suspend BY <1>19 DEF Suspend
<1>20. CASE Warn BY <1>20 DEF Warn
<1>21. CASE CpuDoPause BY <1>21 DEF CpuDoPause
<1>22. CASE CpuClear BY <1>22 DEF CpuClear
<1>23. CASE MessageShown BY <1>23 DEF MessageShown
<1>24. CASE UNCHANGED pauseVars BY <1>24 DEF pauseVars
<1> QED
  BY <1>1, <1>2, <1>3, <1>4, <1>5, <1>6, <1>7, <1>8, <1>9, <1>10, <1>11, <1>12, <1>13,
     <1>14, <1>15, <1>16, <1>17, <1>18, <1>19, <1>20, <1>21, <1>22, <1>23, <1>24
     DEF PauseNext, UiStep, CpuStep

LEMMA TokenInvariance == PauseSpec => []TokenInv
BY InitToken, NextToken, PTL DEF PauseSpec

(* Guest code runs under the blit mutex and never while the user interface  *)
(* holds it, and a do_pause call never finds the acknowledgement of an      *)
(* earlier one, whatever the guest's own do_pause calls did to the flags.   *)
THEOREM HandshakeCorrect == PauseSpec => []HandshakeInv
<1>1. TokenInv => HandshakeInv
  BY DEF TokenInv, TokenAwaited, HandshakeInv, NoStaleAck
<1> QED BY TokenInvariance, <1>1, PTL

(* do_pause waits for the acknowledgement of its own request: when the wait *)
(* ends no other request is pending and none is being acknowledged.         *)
THEOREM AckCorrect == PauseSpec => [][DoPauseWait => ~do_pause_ack /\ cpu # "acked"]_pauseVars
<1>1. TokenInv => [DoPauseWait => ~do_pause_ack /\ cpu # "acked"]_pauseVars
  BY DEF TokenInv, OneToken, DoPauseWait
<1> QED BY TokenInvariance, <1>1, PTL

-----------------------------------------------------------------------------
(* The cycles of a block.  Within it the TSC has moved by some number a of *)
(* the cycles used so far, whatever update_tsc did; a turn of the counter  *)
(* is undone by the same subtraction, so the movement both places infer    *)
(* is a.                                                                   *)

Values == 0..(W - 1)

\* The counter n cycles after it showed x.
Turn(x, n) == IF x + n < W THEN x + n ELSE x + n - W

Moved(a) == /\ tsc = Turn(tsc_old, a)
            /\ real = Turn(tsc_old, used)
            /\ ~running => a = used

BlockInv ==
  /\ tsc \in Values /\ tsc_old \in Values /\ used \in 0..MaxCycles
  /\ ~written => \E a \in 0..used : Moved(a)

LEMMA Shorter ==
  ASSUME NEW n \in Nat \ {0}, NEW x \in 0..(n - 1) PROVE x % n = x
  OBVIOUS

LEMMA Longer ==
  ASSUME NEW n \in Nat \ {0}, NEW x \in n..(2 * n - 1) PROVE x % n = x - n
  OBVIOUS

LEMMA Negative ==
  ASSUME NEW n \in Nat \ {0}, NEW x \in (-n)..(-1) PROVE x % n = x + n
  OBVIOUS

LEMMA BlockSizes ==
  /\ W \in Nat \ {0} /\ C \in Nat \ {0} /\ MaxCycles \in Nat
  /\ MaxCycles < C \div 2 /\ C \div 2 < C /\ C \div 2 \in Nat /\ MaxCycles < W
  /\ Writes \subseteq Values
  <1>1. /\ W \in Nat \ {0} /\ C \in Nat \ {0} /\ MaxCycles \in Nat /\ MaxCycles < C \div 2
        /\ W % C = 0 /\ Writes \subseteq Values
    BY ClockConstants DEF Values
  <1>2. C \div 2 < C /\ C \div 2 \in Nat
    BY <1>1
  <1>3. C <= W
    <2> SUFFICES ASSUME W < C PROVE FALSE
      BY <1>1
    <2>1. W \in 0..(C - 1)
      BY <1>1
    <2>2. W % C = W
      BY <1>1, <2>1, Shorter
    <2> QED BY <1>1, <2>2
  <1> QED BY <1>1, <1>2, <1>3

LEMMA TurnIs ==
  ASSUME NEW x \in Values, NEW n \in 0..MaxCycles
  PROVE  Turn(x, n) \in Values /\ (x + n) % W = Turn(x, n)
  <1>1. W \in Nat \ {0} /\ MaxCycles \in Nat /\ MaxCycles < W
    BY BlockSizes
  <1> DEFINE y == x + n
  <1>2. y \in Int /\ y \in 0..(2 * W - 1)
    BY <1>1 DEF Values
  <1>3. Turn(x, n) \in Values
    BY <1>1, <1>2 DEF Turn, Values
  <1> HIDE DEF y
  <1>4. y % W = IF y < W THEN y ELSE y - W
    <2>1. CASE y < W
      BY <1>1, <1>2, <2>1, Shorter
    <2>2. CASE ~(y < W)
      <3>1. y \in W..(2 * W - 1)
        BY <1>1, <1>2, <2>2
      <3> QED BY <1>1, <2>2, <3>1, Longer
    <2> QED BY <2>1, <2>2
  <1>5. (x + n) % W = y % W
    BY Zenon DEF y
  <1>6. Turn(x, n) = IF y < W THEN y ELSE y - W
    BY <1>1, <1>2, SMT DEF Turn, y, Values
  <1>7. (x + n) % W = Turn(x, n)
    BY <1>4, <1>5, <1>6, Zenon
  <1> QED BY <1>3, <1>7, Zenon

\* The difference of two values of the counter, the later one a turn on or not.
LEMMA TurnBack ==
  ASSUME NEW x \in Values, NEW a \in 0..MaxCycles, NEW b \in a..MaxCycles
  PROVE  (Turn(x, b) - Turn(x, a)) % W = b - a
  <1>1. W \in Nat \ {0} /\ MaxCycles \in Nat /\ MaxCycles < W
    BY BlockSizes
  <1>2. a \in Nat /\ b \in Nat /\ b <= MaxCycles /\ a <= b /\ x \in Nat /\ x < W
    BY <1>1 DEF Values
  <1> DEFINE d == Turn(x, b) - Turn(x, a)
  <1>3. d = b - a \/ d = b - a - W
    BY <1>1, <1>2 DEF Turn
  <1> HIDE DEF d
  <1>4. CASE d = b - a
    <2>1. d \in 0..(W - 1)
      BY <1>1, <1>2, <1>4
    <2>2. d % W = d
      BY <1>1, <2>1, Shorter
    <2> QED BY <1>4, <2>2 DEF d
  <1>5. CASE d = b - a - W
    <2>1. d \in (-W)..(-1)
      BY <1>1, <1>2, <1>5
    <2>2. d % W = d + W
      BY <1>1, <2>1, Negative
    <2>3. d + W = b - a
      BY <1>1, <1>2, <1>5
    <2> QED BY <2>2, <2>3 DEF d
  <1> QED BY <1>3, <1>4, <1>5

\* A block and update_tsc find the cycles that are missing, and add them.
LEMMA MissingIs ==
  ASSUME BlockInv, NEW a \in 0..used, Moved(a)
  PROVE  /\ Missing = used - a
         /\ UpToDate = Turn(tsc_old, used)
         /\ (real - tsc) % W = used - a
  <1>1. /\ W \in Nat \ {0} /\ MaxCycles \in Nat /\ MaxCycles < W /\ C \in Nat \ {0}
        /\ MaxCycles < C \div 2 /\ C \div 2 < C /\ C \div 2 \in Nat
    BY BlockSizes
  <1>2. /\ used \in Nat /\ a \in Nat /\ a <= used /\ used <= MaxCycles /\ tsc_old \in Values
        /\ tsc = Turn(tsc_old, a) /\ real = Turn(tsc_old, used)
    BY <1>1 DEF BlockInv, Moved
  <1>3. a \in 0..MaxCycles /\ used \in a..MaxCycles /\ used \in 0..MaxCycles /\ 0 \in 0..MaxCycles
    BY <1>1, <1>2
  <1>4. (tsc - tsc_old) % W = a
    <2>1. Turn(tsc_old, 0) = tsc_old
      BY <1>1, <1>2 DEF Turn, Values
    <2>2. a \in 0..MaxCycles /\ (Turn(tsc_old, a) - Turn(tsc_old, 0)) % W = a - 0
      BY <1>2, <1>3, TurnBack
    <2>3. a - 0 = a
      BY <1>2
    <2> QED BY <1>2, <2>1, <2>2, <2>3
  <1>5. ToInt(used - a) = used - a
    <2> DEFINE d == used - a
    <2>1. d \in 0..(C - 1) /\ d < C \div 2 /\ d \in Int
      BY <1>1, <1>2
    <2> HIDE DEF d
    <2>2. d % C = d
      BY <1>1, <2>1, Shorter
    <2>3. ToInt(d) = d
      BY <1>1, <2>1, <2>2 DEF ToInt
    <2> QED BY <2>3 DEF d
  <1>6. Missing = used - a
    <2>1. Missing = IF a > 0 THEN ToInt(used - a) ELSE used
      BY <1>4 DEF Missing
    <2> QED BY <1>2, <1>5, <2>1
  <1>7. UpToDate = Turn(tsc_old, used)
    <2>1. CASE used - a > 0
      <3>1. used - a \in 0..MaxCycles /\ tsc \in Values
        BY <1>1, <1>2 DEF BlockInv
      <3>2. (tsc + (used - a)) % W = Turn(tsc, used - a)
        BY <3>1, TurnIs
      <3>3. Turn(tsc, used - a) = Turn(tsc_old, used)
        BY <1>1, <1>2 DEF Turn, Values
      <3> QED BY <1>6, <2>1, <3>2, <3>3 DEF UpToDate
    <2>2. CASE ~(used - a > 0)
      <3>1. used = a
        BY <1>2, <2>2
      <3> QED BY <1>2, <1>6, <2>2, <3>1 DEF UpToDate
    <2> QED BY <2>1, <2>2
  <1>8. (real - tsc) % W = used - a
    BY <1>2, <1>3, TurnBack
  <1> QED BY <1>6, <1>7, <1>8

\* Whatever it starts from, the counter keeps its width.
LEMMA UpToDateType ==
  ASSUME BlockInv
  PROVE  UpToDate \in Values
  <1>1. W \in Nat \ {0} /\ C \in Nat \ {0} /\ C \div 2 \in Nat /\ MaxCycles \in Nat
    BY BlockSizes
  <1>2. tsc \in Int /\ tsc_old \in Int /\ used \in Int /\ tsc \in Values
    BY <1>1 DEF BlockInv, Values
  <1>3. Missing \in Int
    <2> DEFINE delta == (tsc - tsc_old) % W
    <2>1. delta \in Int
      BY <1>1, <1>2
    <2> HIDE DEF delta
    <2>2. ToInt(used - delta) \in Int
      <3> DEFINE m == (used - delta) % C
      <3>1. m \in Int
        BY <1>1, <1>2, <2>1
      <3> HIDE DEF m
      <3>2. (IF m >= C \div 2 THEN m - C ELSE m) \in Int
        BY <1>1, <3>1
      <3> QED BY <3>2 DEF ToInt, m
    <2> QED BY <1>2, <2>2 DEF Missing, delta
  <1>4. \A m \in Int : (tsc + m) % W \in Values
    BY <1>1, <1>2 DEF Values
  <1> QED BY <1>2, <1>3, <1>4 DEF UpToDate

LEMMA BlockInitInv == BlockInit => BlockInv
  <1> SUFFICES ASSUME BlockInit PROVE BlockInv
    OBVIOUS
  <1>1. W \in Nat \ {0} /\ MaxCycles \in Nat
    BY BlockSizes
  <1>2. tsc = 0 /\ tsc_old = 0 /\ used = 0 /\ real = 0
    BY DEF BlockInit
  <1>3. 0 \in 0..used /\ Moved(0)
    BY <1>1, <1>2 DEF Moved, Turn
  <1> QED BY <1>1, <1>2, <1>3 DEF BlockInv, Values

LEMMA BlockNextInv == BlockInv /\ [BlockNext]_blockVars => BlockInv'
  <1> SUFFICES ASSUME BlockInv, [BlockNext]_blockVars PROVE BlockInv'
    OBVIOUS
  <1>0. /\ W \in Nat \ {0} /\ MaxCycles \in Nat /\ MaxCycles < W
        /\ tsc \in Values /\ tsc_old \in Values /\ used \in 0..MaxCycles /\ Writes \subseteq Values
    BY BlockSizes DEF BlockInv
  <1>1. CASE BlockStart
    <2>1. tsc_old' = tsc /\ used' = 0 /\ real' = tsc /\ tsc' = tsc
      BY <1>1 DEF BlockStart
    <2>2. 0 \in 0..used' /\ Moved(0)'
      BY <1>0, <2>1 DEF Moved, Turn, Values
    <2> QED BY <1>0, <2>1, <2>2 DEF BlockInv
  <1>2. ASSUME NEW n \in 1..MaxCycles, Instruction(n) PROVE BlockInv'
    <2>1. /\ running /\ used + n <= MaxCycles /\ used' = used + n /\ real' = (real + n) % W
          /\ tsc' = tsc /\ tsc_old' = tsc_old /\ running' = running /\ written' = written
      BY <1>2 DEF Instruction
    <2>2. used' \in 0..MaxCycles /\ used \in Nat /\ n \in 0..MaxCycles
      BY <1>0, <2>1
    <2>3. ASSUME ~written PROVE \E a \in 0..used' : Moved(a)'
      <3>1. PICK a \in 0..used : Moved(a)
        BY <2>3 DEF BlockInv
      <3>2. real = Turn(tsc_old, used) /\ real \in Values
        BY <1>0, <3>1, TurnIs DEF Moved
      <3>3. (real + n) % W = Turn(real, n)
        BY <2>2, <3>2, TurnIs
      <3>4. Turn(real, n) = Turn(tsc_old, used + n)
        BY <1>0, <2>1, <2>2, <3>2 DEF Turn, Values
      <3>5. a \in 0..used' /\ Moved(a)'
        BY <1>0, <2>1, <2>2, <3>1, <3>3, <3>4 DEF Moved
      <3> QED BY <3>5
    <2> QED BY <1>0, <2>1, <2>2, <2>3 DEF BlockInv
  <1>3. CASE update_tsc \/ BlockEnd
    <2>1. tsc' = UpToDate /\ UNCHANGED <<tsc_old, used, written, real>>
      BY <1>3 DEF update_tsc, BlockEnd
    <2>2. ASSUME ~written PROVE \E a \in 0..used' : Moved(a)'
      <3>1. PICK a \in 0..used : Moved(a)
        BY <2>2 DEF BlockInv
      <3>2. tsc' = Turn(tsc_old, used) /\ real = Turn(tsc_old, used)
        BY <2>1, <3>1, MissingIs DEF Moved
      <3>3. used \in 0..used'
        BY <1>0, <2>1
      <3>4. \A u : u = used => Moved(u)'
        BY <2>1, <3>2 DEF Moved
      <3> QED BY <3>3, <3>4
    <2> QED BY <1>0, <2>1, <2>2, UpToDateType DEF BlockInv
  <1>4. ASSUME NEW new \in Writes, wrmsr_tsc(new) PROVE BlockInv'
    BY <1>0, <1>4 DEF wrmsr_tsc, BlockInv
  <1>5. CASE UNCHANGED blockVars
    BY <1>5 DEF blockVars, BlockInv, Moved
  <1> QED BY <1>1, <1>2, <1>3, <1>4, <1>5 DEF BlockNext

\* Whatever the widths of the counter and of an int, a block that the guest
\* does not write the TSC in adds each of its cycles to the TSC exactly once,
\* however often update_tsc runs and although the TSC wraps.
THEOREM CyclesCorrect == BlockSpec => []EveryCycleOnce
  <1>1. BlockInv => EveryCycleOnce
    <2> SUFFICES ASSUME BlockInv, ~written
                 PROVE  IF running THEN (real - tsc) % W = Missing ELSE tsc = real
      BY DEF EveryCycleOnce
    <2>1. PICK a \in 0..used : Moved(a)
      BY DEF BlockInv
    <2>2. CASE running
      BY <2>1, <2>2, MissingIs
    <2>3. CASE ~running
      BY <2>1, <2>3 DEF Moved
    <2> QED BY <2>2, <2>3
  <1> QED BY <1>1, BlockInitInv, BlockNextInv, PTL DEF BlockSpec

(***************************************************************************)
(* TimerList: the pointers are read as the one sequence of timers that a   *)
(* walk from timer_head visits; linking and unlinking a timer put it into  *)
(* that sequence and cut it out.                                           *)
(***************************************************************************)
Nodes == Timers \union {Null}
Heaps == [head : Nodes, next : [Timers -> Nodes], prev : [Timers -> Nodes]]

Stamps == 0..(W - 1)
HalfW == W \div 2

ListTypeOK ==
  /\ heap \in Heaps
  /\ ts \in [Timers -> Stamps] /\ timer_target \in Stamps /\ tsc \in Stamps
  /\ enabled \subseteq Timers /\ added \subseteq Timers
  /\ timer_inited \in BOOLEAN /\ pc \in {"cpu", "process"}
  /\ left \in [Timers -> Int]

(* Value a of the counter lies x cycles after value c. *)
After(a, c, x) == a = c + x \/ a = c + x + W \/ a = c + x - W

(* A timer that is off the list, and was added since timer_init, points nowhere. *)
Unlinked == \A t \in added \ enabled : heap.next[t] = Null /\ heap.prev[t] = Null

(* No timer is later than one block, none lies half a turn ahead. *)
Timed ==
  \A t \in Listed : /\ After(ts[t], tsc, left[t])
                    /\ -MaxBlock <= left[t] /\ left[t] + MaxBlock < HalfW
                    /\ pc = "cpu" => left[t] >= 0

Ascending(f, s) == \A i, j \in 1..Len(s) : i <= j => f[s[i]] <= f[s[j]]

Chained == \E s \in Paths : Links(heap, s) /\ ToSet(s) = Listed /\ Ascending(left, s)

(* The next check of timer_target does not come after the first deadline. *)
TargetFirst ==
  Listed # {} => \E x \in (-MaxBlock)..HalfW :
                   /\ After(timer_target, tsc, x)
                   /\ pc = "cpu" => x >= 0
                   /\ \A t \in Listed : x <= left[t]

ListInv ==
  /\ ListTypeOK
  /\ ~fatal
  /\ ~timer_inited => added = {}
  /\ Unlinked
  /\ Timed
  /\ TargetFirst
  /\ Chained

(***************************************************************************)
(* Arithmetic of timestamps.                                               *)
(***************************************************************************)
LEMMA ListSizes ==
  /\ W \in Nat \ {0} /\ HalfW \in Nat /\ W = 2 * HalfW
  /\ MaxBlock \in Nat /\ MaxBlock < HalfW
  /\ Null \notin Timers /\ IsFiniteSet(Timers)
  /\ NewTsc \subseteq Stamps
  /\ \A d \in Delays : d \in Nat /\ d + MaxBlock < HalfW
  BY ListConstants DEF HalfW, Stamps

LEMMA SignedIs ==
  ASSUME NEW a \in Stamps, NEW c \in Stamps, NEW x \in Int,
         -HalfW <= x, x < HalfW, After(a, c, x)
  PROVE  Signed(a - c) = x
  <1>1. W \in Nat \ {0} /\ HalfW \in Nat /\ W = 2 * HalfW
    BY ListSizes
  <1> DEFINE d == a - c
  <1>2. d \in Int /\ -W < d /\ d < W /\ (d = x \/ d = x + W \/ d = x - W)
    BY <1>1 DEF Stamps, After
  <1> HIDE DEF d
  <1>3. d % W = IF d >= 0 THEN d ELSE d + W
    <2>1. CASE d >= 0
      <3>1. d \in 0..(W - 1)
        BY <1>1, <1>2, <2>1
      <3> QED BY <1>1, <2>1, <3>1, Shorter
    <2>2. CASE ~(d >= 0)
      <3>1. d \in (-W)..(-1)
        BY <1>1, <1>2, <2>2
      <3> QED BY <1>1, <2>2, <3>1, Negative
    <2> QED BY <2>1, <2>2
  <1> DEFINE m == d % W
  <1>4. m = IF d >= 0 THEN d ELSE d + W
    BY <1>3
  <1>5. Signed(d) = IF m >= HalfW THEN m - W ELSE m
    BY DEF Signed, HalfW
  <1> HIDE DEF m
  <1>6. Signed(d) = x
    BY <1>1, <1>2, <1>4, <1>5
  <1> QED BY <1>6 DEF d

LEMMA PlusIs ==
  ASSUME NEW c \in Stamps, NEW x \in Int, -W <= x, x <= W
  PROVE  (c + x) % W \in Stamps /\ After((c + x) % W, c, x)
  <1>1. W \in Nat \ {0}
    BY ListSizes
  <1> DEFINE y == c + x
  <1>2. y \in Int /\ -W <= y /\ y < 2 * W
    BY <1>1 DEF Stamps
  <1> HIDE DEF y
  <1>3. y % W = IF y < 0 THEN y + W ELSE IF y < W THEN y ELSE y - W
    <2>1. CASE y < 0
      <3>1. y \in (-W)..(-1)
        BY <1>1, <1>2, <2>1
      <3> QED BY <1>1, <2>1, <3>1, Negative
    <2>2. CASE ~(y < 0) /\ y < W
      <3>1. y \in 0..(W - 1)
        BY <1>1, <1>2, <2>2
      <3> QED BY <1>1, <2>2, <3>1, Shorter
    <2>3. CASE ~(y < 0) /\ ~(y < W)
      <3>1. y \in W..(2 * W - 1)
        BY <1>1, <1>2, <2>3
      <3> QED BY <1>1, <2>3, <3>1, Longer
    <2> QED BY <2>1, <2>2, <2>3
  <1> DEFINE m == y % W
  <1>4. m = IF y < 0 THEN y + W ELSE IF y < W THEN y ELSE y - W
    BY <1>3
  <1> HIDE DEF m
  <1>5. m \in Stamps
    BY <1>1, <1>2, <1>4 DEF Stamps
  <1>6. m = y \/ m = y + W \/ m = y - W
    BY <1>4
  <1>7. After(m, c, x)
    BY <1>1, <1>6 DEF y, After, Stamps
  <1> QED BY <1>5, <1>7, Zenon DEF m, y

(* Which of two timestamps is earlier, from how far both are from the TSC. *)
LEMMA EarlierIs ==
  ASSUME NEW a \in Stamps, NEW b \in Stamps, NEW c \in Stamps, NEW x \in Int, NEW y \in Int,
         After(a, c, x), After(b, c, y), -HalfW <= x - y, x - y < HalfW
  PROVE  TIMER_VAL_LESS_THAN_VAL(a, b) <=> x <= y
  <1>1. W \in Nat \ {0} /\ HalfW \in Nat /\ W = 2 * HalfW
    BY ListSizes
  <1>2. After(a, b, x - y)
    BY <1>1 DEF After, Stamps
  <1>3. Signed(a - b) = x - y
    BY <1>2, SignedIs
  <1> QED BY <1>3 DEF TIMER_VAL_LESS_THAN_VAL

(***************************************************************************)
(* Walks along the list.                                                   *)
(***************************************************************************)
LEMMA ShortPath ==
  ASSUME NEW n \in Nat, NEW s \in [1..n -> Timers],
         \A i, j \in 1..n : s[i] = s[j] => i = j
  PROVE  s \in Paths /\ s \in Seq(Timers) /\ Len(s) = n /\ ToSet(s) = {s[i] : i \in 1..n}
  <1>1. IsFiniteSet(Timers) /\ Cardinality(Timers) \in Nat
    BY ListSizes, FS_CardinalityType
  <1>2. IsFiniteSet(1..n) /\ Cardinality(1..n) = n
    BY FS_Interval
  <1>3. s \in Injection(1..n, Timers)
    BY DEF Injection, IsInjective
  <1>4. n <= Cardinality(Timers)
    BY <1>1, <1>2, <1>3, FS_Injection
  <1>5. s \in SeqOf(Timers, Cardinality(Timers))
    BY <1>1, <1>4 DEF SeqOf
  <1>6. IsInjective(s)
    BY DEF IsInjective
  <1> QED BY <1>5, <1>6 DEF Paths, ToSet

LEMMA PathIs ==
  ASSUME NEW s \in Paths
  PROVE  /\ Len(s) \in Nat /\ s \in [1..Len(s) -> Timers] /\ s \in Seq(Timers)
         /\ \A i, j \in 1..Len(s) : s[i] = s[j] => i = j
         /\ s = <<>> <=> Len(s) = 0
         /\ ToSet(s) = {s[i] : i \in 1..Len(s)}
  <1>1. Cardinality(Timers) \in Nat
    BY ListSizes, FS_CardinalityType
  <1>2. PICK n \in 0..Cardinality(Timers) : s \in [1..n -> Timers]
    BY DEF Paths, SeqOf
  <1>3. n \in Nat /\ s \in Seq(Timers) /\ Len(s) = n
    BY <1>1, <1>2
  <1>4. \A i, j \in 1..n : s[i] = s[j] => i = j
    BY <1>2 DEF Paths, IsInjective
  <1>5. s = <<>> <=> Len(s) = 0
    BY <1>3
  <1>6. ToSet(s) = {s[i] : i \in 1..n}
    BY <1>2 DEF ToSet
  <1> QED BY <1>2, <1>3, <1>4, <1>5, <1>6

LEMMA LeastIndex ==
  ASSUME NEW T, T \subseteq Nat, T # {}
  PROVE  \E x \in T : \A y \in T : x <= y
  <1> DEFINE R == OpToRel(<, Nat)
  <1>1. PICK x \in T : \A y \in T : ~(<<y, x>> \in R)
    <2>1. IsWellFoundedOn(R, Nat)
      BY NatLessThanWellFounded
    <2> HIDE DEF R
    <2> QED BY <2>1, WFMin
  <1>2. ASSUME NEW y \in T PROVE x <= y
    <2>1. <<y, x>> \in Nat \X Nat /\ <<y, x>>[1] = y /\ <<y, x>>[2] = x
      OBVIOUS
    <2>2. ~(y < x)
      BY <1>1, <2>1 DEF OpToRel
    <2> QED BY <2>2
  <1> QED BY <1>2

(* The pointers determine the walk: two walks from the same head cannot part. *)
LEMMA WalkAlong ==
  ASSUME NEW h, NEW s \in Paths, NEW r \in Paths, Follows(h, s), Follows(h, r)
  PROVE  Len(s) <= Len(r) /\ \A i \in 1..Len(s) : i <= Len(r) => s[i] = r[i]
  <1> DEFINE n == Len(s)
             m == Len(r)
             Off == {i \in 1..n : ~(i <= m /\ s[i] = r[i])}
  <1>1. /\ n \in Nat /\ s \in [1..n -> Timers] /\ (s = <<>> <=> n = 0)
        /\ m \in Nat /\ r \in [1..m -> Timers] /\ (r = <<>> <=> m = 0)
    BY PathIs
  <1>2. /\ h.head = IF n = 0 THEN Null ELSE s[1]
        /\ h.head = IF m = 0 THEN Null ELSE r[1]
        /\ \A i \in 1..n : h.next[s[i]] = IF i = n THEN Null ELSE s[i + 1]
        /\ \A i \in 1..m : h.next[r[i]] = IF i = m THEN Null ELSE r[i + 1]
    BY <1>1 DEF Follows
  <1>3. Null \notin Timers
    BY ListSizes
  <1> HIDE DEF n, m
  <1>4. Off = {}
    <2> SUFFICES ASSUME Off # {} PROVE FALSE
      OBVIOUS
    <2>1. Off \subseteq Nat
      OBVIOUS
    <2>2. PICK k \in Off : \A j \in Off : k <= j
      <3> HIDE DEF Off
      <3> QED BY <2>1, LeastIndex
    <2>3. k \in 1..n /\ ~(k <= m /\ s[k] = r[k])
      OBVIOUS
    <2>4. CASE k = 1
      <3>1. n # 0 /\ h.head = s[1] /\ s[1] \in Timers
        BY <1>1, <1>2, <2>3, <2>4
      <3>2. m # 0 /\ h.head = r[1]
        BY <1>2, <1>3, <3>1
      <3> QED BY <1>1, <2>3, <2>4, <3>1, <3>2
    <2>5. CASE k # 1
      <3>1. k - 1 \in 1..n /\ k - 1 \notin Off
        BY <1>1, <2>2, <2>3, <2>5
      <3>2. k - 1 \in 1..m /\ s[k - 1] = r[k - 1]
        BY <1>1, <3>1
      <3>3. h.next[s[k - 1]] = s[k]
        <4>1. h.next[s[k - 1]] = IF k - 1 = n THEN Null ELSE s[(k - 1) + 1]
          BY <1>2, <3>1
        <4>2. k - 1 # n /\ (k - 1) + 1 = k
          BY <1>1, <2>3
        <4> QED BY <4>1, <4>2
      <3>4. h.next[r[k - 1]] = IF k - 1 = m THEN Null ELSE r[k]
        <4>1. h.next[r[k - 1]] = IF k - 1 = m THEN Null ELSE r[(k - 1) + 1]
          BY <1>2, <3>2
        <4>2. (k - 1) + 1 = k
          BY <1>1, <2>3
        <4> QED BY <4>1, <4>2
      <3>5. k - 1 # m
        BY <1>1, <1>3, <2>3, <3>2, <3>3, <3>4
      <3> QED BY <1>1, <2>3, <3>2, <3>3, <3>4, <3>5
    <2> QED BY <2>4, <2>5
  <1>5. \A i \in 1..n : i <= m /\ s[i] = r[i]
    BY <1>4
  <1>6. n <= m
    BY <1>1, <1>5
  <1> QED BY <1>5, <1>6 DEF n, m

LEMMA WalkIs ==
  ASSUME NEW h, NEW s \in Paths, Follows(h, s)
  PROVE  Walk(h) = s
  <1>1. Walk(h) \in Paths /\ Follows(h, Walk(h))
    BY DEF Walk
  <1> DEFINE r == Walk(h)
  <1> HIDE DEF r
  <1>2. r \in Paths /\ Follows(h, r)
    BY <1>1 DEF r
  <1>3. /\ Len(s) \in Nat /\ s \in [1..Len(s) -> Timers]
        /\ Len(r) \in Nat /\ r \in [1..Len(r) -> Timers]
    BY <1>2, PathIs
  <1>4. Len(r) <= Len(s) /\ Len(s) <= Len(r)
    BY <1>2, WalkAlong
  <1>5. Len(r) = Len(s)
    <2>1. \A a, b \in Nat : a <= b /\ b <= a => a = b
      OBVIOUS
    <2> QED BY <1>3, <1>4, <2>1, Zenon
  <1>6. \A i \in 1..Len(s) : s[i] = r[i]
    BY <1>2, <1>3, <1>5, WalkAlong
  <1>7. r = s
    BY <1>3, <1>5, <1>6
  <1> QED BY <1>7 DEF r

(* Links without the empty sequence as a case of its own. *)
LEMMA LinksIs ==
  ASSUME NEW h, NEW s \in Paths
  PROVE  Links(h, s) <=>
           /\ h.head = IF Len(s) = 0 THEN Null ELSE s[1]
           /\ \A i \in 1..Len(s) :
                /\ h.next[s[i]] = IF i = Len(s) THEN Null ELSE s[i + 1]
                /\ h.prev[s[i]] = IF i = 1 THEN Null ELSE s[i - 1]
  <1>1. s = <<>> <=> Len(s) = 0
    BY PathIs
  <1> QED BY <1>1, Zenon DEF Links, Follows

(***************************************************************************)
(* Timer number k cut out of the sequence, and t put in front of it.       *)
(***************************************************************************)
Cut(s, k) == [i \in 1..(Len(s) - 1) |-> IF i < k THEN s[i] ELSE s[i + 1]]
Put(s, k, t) == [i \in 1..(Len(s) + 1) |-> IF i < k THEN s[i] ELSE IF i = k THEN t ELSE s[i - 1]]

LEMMA CutIs ==
  ASSUME NEW s \in Paths, NEW k \in 1..Len(s)
  PROVE  /\ Cut(s, k) \in Paths /\ Len(Cut(s, k)) = Len(s) - 1
         /\ ToSet(Cut(s, k)) = ToSet(s) \ {s[k]}
  <1> DEFINE n == Len(s)
             r == Cut(s, k)
  <1>1. /\ n \in Nat /\ s \in [1..n -> Timers]
        /\ \A i, j \in 1..n : s[i] = s[j] => i = j
        /\ ToSet(s) = {s[i] : i \in 1..n}
    BY PathIs
  <1>2. r \in [1..(n - 1) -> Timers]
    BY <1>1 DEF Cut
  <1>3. \A i \in 1..(n - 1) : r[i] = IF i < k THEN s[i] ELSE s[i + 1]
    BY DEF Cut
  <1>4. n - 1 \in Nat
    BY <1>1
  <1> HIDE DEF n, r
  <1>5. \A i, j \in 1..(n - 1) : r[i] = r[j] => i = j
    <2> TAKE i, j \in 1..(n - 1)
    <2> HAVE r[i] = r[j]
    <2>1. k \in 1..n
      BY DEF n
    <2> QED BY <1>1, <1>3, <1>4, <2>1
  <1>6. r \in Paths /\ Len(r) = n - 1 /\ ToSet(r) = {r[i] : i \in 1..(n - 1)}
    BY <1>2, <1>4, <1>5, ShortPath
  <1>7. k \in 1..n
    BY DEF n
  <1>8. {r[i] : i \in 1..(n - 1)} \subseteq {s[i] : i \in 1..n} \ {s[k]}
    BY <1>1, <1>3, <1>4, <1>7
  <1>9. ASSUME NEW j \in 1..n, j # k PROVE s[j] \in {r[i] : i \in 1..(n - 1)}
    <2>1. CASE j < k
      <3>1. j \in 1..(n - 1) /\ r[j] = s[j]
        BY <1>1, <1>3, <1>7, <2>1
      <3> QED BY <3>1
    <2>2. CASE j > k
      <3>1. j - 1 \in 1..(n - 1) /\ r[j - 1] = s[j]
        BY <1>1, <1>3, <1>7, <2>2
      <3> QED BY <3>1
    <2> QED BY <1>1, <1>7, <1>9, <2>1, <2>2
  <1>10. {s[i] : i \in 1..n} \ {s[k]} \subseteq {r[i] : i \in 1..(n - 1)}
    BY <1>9
  <1> QED BY <1>1, <1>6, <1>8, <1>10 DEF n, r

LEMMA PutIs ==
  ASSUME NEW s \in Paths, NEW k \in 1..(Len(s) + 1), NEW t \in Timers \ ToSet(s)
  PROVE  /\ Put(s, k, t) \in Paths /\ Len(Put(s, k, t)) = Len(s) + 1
         /\ ToSet(Put(s, k, t)) = ToSet(s) \union {t}
  <1> DEFINE n == Len(s)
             r == Put(s, k, t)
  <1>1. /\ n \in Nat /\ s \in [1..n -> Timers]
        /\ \A i, j \in 1..n : s[i] = s[j] => i = j
        /\ ToSet(s) = {s[i] : i \in 1..n}
    BY PathIs
  <1>2. r \in [1..(n + 1) -> Timers]
    BY <1>1 DEF Put
  <1>3. \A i \in 1..(n + 1) : r[i] = IF i < k THEN s[i] ELSE IF i = k THEN t ELSE s[i - 1]
    BY DEF Put
  <1>4. n + 1 \in Nat /\ k \in 1..(n + 1)
    BY <1>1
  <1>5. \A i \in 1..n : s[i] # t
    BY <1>1
  <1> HIDE DEF n, r
  <1>6. \A i, j \in 1..(n + 1) : r[i] = r[j] => i = j
    <2> TAKE i, j \in 1..(n + 1)
    <2> HAVE r[i] = r[j]
    <2> QED BY <1>1, <1>3, <1>4, <1>5
  <1>7. r \in Paths /\ Len(r) = n + 1 /\ ToSet(r) = {r[i] : i \in 1..(n + 1)}
    BY <1>2, <1>4, <1>6, ShortPath
  <1>8. {r[i] : i \in 1..(n + 1)} \subseteq {s[i] : i \in 1..n} \union {t}
    BY <1>1, <1>3, <1>4
  <1>9. ASSUME NEW j \in 1..n PROVE s[j] \in {r[i] : i \in 1..(n + 1)}
    <2>1. CASE j < k
      <3>1. j \in 1..(n + 1) /\ r[j] = s[j]
        BY <1>1, <1>3, <1>4, <2>1
      <3> QED BY <3>1
    <2>2. CASE ~(j < k)
      <3>1. j + 1 \in 1..(n + 1) /\ r[j + 1] = s[j]
        BY <1>1, <1>3, <1>4, <2>2
      <3> QED BY <3>1
    <2> QED BY <2>1, <2>2
  <1>10. t \in {r[i] : i \in 1..(n + 1)}
    <2>1. r[k] = t
      BY <1>3, <1>4
    <2> QED BY <1>4, <2>1
  <1>11. {r[i] : i \in 1..(n + 1)} = {s[i] : i \in 1..n} \union {t}
    BY <1>8, <1>9, <1>10
  <1> QED BY <1>1, <1>7, <1>11 DEF n, r

(* timer_disable's surgery cuts the timer out. *)
LEMMA UnlinkIs ==
  ASSUME NEW h \in Heaps, NEW s \in Paths, Links(h, s), NEW k \in 1..Len(s)
  PROVE  /\ Unlink(h, s[k]) \in Heaps
         /\ Links(Unlink(h, s[k]), Cut(s, k))
         /\ Unlink(h, s[k]).next[s[k]] = Null /\ Unlink(h, s[k]).prev[s[k]] = Null
         /\ \A x \in Timers \ ToSet(s) : /\ Unlink(h, s[k]).next[x] = h.next[x]
                                         /\ Unlink(h, s[k]).prev[x] = h.prev[x]
  <1> DEFINE n == Len(s)
             t == s[k]
             g == Unlink(h, t)
             r == Cut(s, k)
             pr == IF k = 1 THEN Null ELSE s[k - 1]
             q == IF k = n THEN Null ELSE s[k + 1]
  <1>1. /\ n \in Nat /\ s \in [1..n -> Timers] /\ k \in 1..n
        /\ \A i, j \in 1..n : s[i] = s[j] => i = j
        /\ ToSet(s) = {s[i] : i \in 1..n}
    BY PathIs
  <1>2. Null \notin Timers
    BY ListSizes
  <1>3. /\ h.head = IF n = 0 THEN Null ELSE s[1]
        /\ \A i \in 1..n : /\ h.next[s[i]] = IF i = n THEN Null ELSE s[i + 1]
                           /\ h.prev[s[i]] = IF i = 1 THEN Null ELSE s[i - 1]
    BY LinksIs
  <1>4. h.prev[t] = pr /\ h.next[t] = q /\ t \in Timers /\ pr \in Nodes /\ q \in Nodes
    BY <1>1, <1>3 DEF Nodes
  <1>5. /\ g.head = IF pr = Null THEN q ELSE h.head
        /\ g.next = [x \in Timers |-> IF x = t THEN Null ELSE IF x = pr THEN q ELSE h.next[x]]
        /\ g.prev = [x \in Timers |-> IF x = t THEN Null ELSE IF x = q THEN pr ELSE h.prev[x]]
        /\ g = [head |-> g.head, next |-> g.next, prev |-> g.prev]
    BY <1>4, Zenon DEF Unlink
  <1>6. h.head \in Nodes /\ h.next \in [Timers -> Nodes] /\ h.prev \in [Timers -> Nodes]
    BY DEF Heaps
  <1>7. r \in Paths /\ Len(r) = n - 1
    BY CutIs
  <1>8. \A i \in 1..(n - 1) : r[i] = IF i < k THEN s[i] ELSE s[i + 1]
    BY DEF Cut
  <1>9. t = s[k] /\ pr = (IF k = 1 THEN Null ELSE s[k - 1]) /\ q = (IF k = n THEN Null ELSE s[k + 1])
    OBVIOUS
  <1> HIDE DEF n, t, g, r, pr, q
  <1>10. g \in Heaps
    <2>1. /\ g.head \in Nodes /\ g.next \in [Timers -> Nodes] /\ g.prev \in [Timers -> Nodes]
      BY <1>4, <1>5, <1>6 DEF Nodes
    <2> QED BY <1>5, <2>1 DEF Heaps
  <1>11. g.next[t] = Null /\ g.prev[t] = Null
    BY <1>4, <1>5
  <1>12. ASSUME NEW x \in Timers \ ToSet(s) PROVE g.next[x] = h.next[x] /\ g.prev[x] = h.prev[x]
    <2>1. x # t /\ x # pr /\ x # q
      BY <1>1, <1>2, <1>9
    <2> QED BY <1>5, <2>1
  <1>13. ASSUME NEW j \in 1..n, j # k
         PROVE  /\ g.next[s[j]] = IF j = k - 1 THEN q ELSE IF j = n THEN Null ELSE s[j + 1]
                /\ g.prev[s[j]] = IF j = k + 1 THEN pr ELSE IF j = 1 THEN Null ELSE s[j - 1]
    <2>1. s[j] \in Timers /\ s[j] # t
      BY <1>1, <1>9, <1>13
    <2>2. s[j] = pr <=> j = k - 1
      BY <1>1, <1>2, <1>9, <2>1
    <2>3. s[j] = q <=> j = k + 1
      BY <1>1, <1>2, <1>9, <2>1
    <2> QED BY <1>3, <1>5, <2>1, <2>2, <2>3
  <1>14. g.head = IF n - 1 = 0 THEN Null ELSE r[1]
    <2>1. CASE k = 1
      BY <1>1, <1>5, <1>8, <1>9, <2>1
    <2>2. CASE k # 1
      <3>1. pr \in Timers /\ pr # Null
        BY <1>1, <1>2, <1>9, <2>2
      <3> QED BY <1>1, <1>3, <1>5, <1>8, <2>2, <3>1
    <2> QED BY <2>1, <2>2
  <1>15. ASSUME NEW i \in 1..(n - 1)
         PROVE  /\ g.next[r[i]] = IF i = n - 1 THEN Null ELSE r[i + 1]
                /\ g.prev[r[i]] = IF i = 1 THEN Null ELSE r[i - 1]
    <2>1. CASE i < k
      <3>1. r[i] = s[i] /\ i \in 1..n /\ i # k /\ i # k + 1
        BY <1>1, <1>8, <2>1
      <3>2. g.next[s[i]] = IF i = k - 1 THEN q ELSE IF i = n THEN Null ELSE s[i + 1]
        BY <1>13, <3>1
      <3>3. g.prev[s[i]] = IF i = 1 THEN Null ELSE s[i - 1]
        BY <1>13, <3>1
      <3>4. i # n - 1 => r[i + 1] = IF i + 1 < k THEN s[i + 1] ELSE s[i + 2]
        BY <1>1, <1>8
      <3>5. i # 1 => r[i - 1] = s[i - 1]
        BY <1>1, <1>8, <2>1
      <3>6. g.next[r[i]] = IF i = n - 1 THEN Null ELSE r[i + 1]
        BY <1>1, <1>9, <2>1, <3>1, <3>2, <3>4
      <3> QED BY <3>1, <3>3, <3>5, <3>6
    <2>2. CASE ~(i < k)
      <3>1. r[i] = s[i + 1] /\ i + 1 \in 1..n /\ i + 1 # k /\ i + 1 # k - 1
        BY <1>1, <1>8, <2>2
      <3>2. g.next[s[i + 1]] = IF i + 1 = n THEN Null ELSE s[i + 2]
        <4>1. g.next[s[i + 1]] = IF i + 1 = n THEN Null ELSE s[(i + 1) + 1]
          BY <1>13, <3>1
        <4>2. (i + 1) + 1 = i + 2
          OBVIOUS
        <4> QED BY <4>1, <4>2
      <3>3. g.prev[s[i + 1]] = IF i = k THEN pr ELSE s[i]
        <4>1. g.prev[s[i + 1]] = IF i + 1 = k + 1 THEN pr ELSE IF i + 1 = 1 THEN Null ELSE s[(i + 1) - 1]
          BY <1>13, <3>1
        <4>2. (i + 1) - 1 = i /\ i + 1 # 1 /\ (i + 1 = k + 1 <=> i = k)
          BY <1>1
        <4> QED BY <4>1, <4>2
      <3>4. i # n - 1 => r[i + 1] = s[i + 2]
        BY <1>1, <1>8, <2>2
      <3>5. i # 1 => r[i - 1] = IF i - 1 < k THEN s[i - 1] ELSE s[i]
        BY <1>1, <1>8
      <3>6. g.next[r[i]] = IF i = n - 1 THEN Null ELSE r[i + 1]
        BY <1>1, <3>1, <3>2, <3>4
      <3>7. g.prev[r[i]] = IF i = 1 THEN Null ELSE r[i - 1]
        BY <1>1, <1>9, <2>2, <3>1, <3>3, <3>5
      <3> QED BY <3>6, <3>7
    <2> QED BY <2>1, <2>2
  <1>16. Links(g, r)
    <2>1. g.head = IF Len(r) = 0 THEN Null ELSE r[1]
      BY <1>7, <1>14, Zenon
    <2>2. \A i \in 1..Len(r) : /\ g.next[r[i]] = IF i = Len(r) THEN Null ELSE r[i + 1]
                               /\ g.prev[r[i]] = IF i = 1 THEN Null ELSE r[i - 1]
      BY <1>7, <1>15, Zenon
    <2> QED BY <1>7, <2>1, <2>2, LinksIs, Zenon
  <1> QED BY <1>10, <1>11, <1>12, <1>16 DEF n, t, g, r, pr, q

(* The three ways timer_enable links a timer put it into the sequence. *)
LEMMA InsertBeforeIs ==
  ASSUME NEW h \in Heaps, NEW s \in Paths, Links(h, s), NEW k \in 1..Len(s),
         NEW t \in Timers \ ToSet(s)
  PROVE  /\ InsertBefore(h, t, s[k]) \in Heaps
         /\ Links(InsertBefore(h, t, s[k]), Put(s, k, t))
         /\ \A x \in Timers \ (ToSet(s) \union {t}) :
              /\ InsertBefore(h, t, s[k]).next[x] = h.next[x]
              /\ InsertBefore(h, t, s[k]).prev[x] = h.prev[x]
  <1> DEFINE n == Len(s)
             q == s[k]
             g == InsertBefore(h, t, q)
             r == Put(s, k, t)
             pr == IF k = 1 THEN Null ELSE s[k - 1]
  <1>1. /\ n \in Nat /\ s \in [1..n -> Timers] /\ k \in 1..n
        /\ \A i, j \in 1..n : s[i] = s[j] => i = j
        /\ ToSet(s) = {s[i] : i \in 1..n}
    BY PathIs
  <1>2. Null \notin Timers
    BY ListSizes
  <1>3. /\ h.head = IF n = 0 THEN Null ELSE s[1]
        /\ \A i \in 1..n : /\ h.next[s[i]] = IF i = n THEN Null ELSE s[i + 1]
                           /\ h.prev[s[i]] = IF i = 1 THEN Null ELSE s[i - 1]
    BY LinksIs
  <1>4. h.prev[q] = pr /\ q \in Timers /\ pr \in Nodes
    BY <1>1, <1>3 DEF Nodes
  <1>5. /\ g.head = IF pr = Null THEN t ELSE h.head
        /\ g.next = [x \in Timers |-> IF x = t THEN q ELSE IF x = pr THEN t ELSE h.next[x]]
        /\ g.prev = [h.prev EXCEPT ![t] = pr, ![q] = t]
        /\ g = [head |-> g.head, next |-> g.next, prev |-> g.prev]
    BY <1>4, Zenon DEF InsertBefore
  <1>6. h.head \in Nodes /\ h.next \in [Timers -> Nodes] /\ h.prev \in [Timers -> Nodes]
    BY DEF Heaps
  <1>7. r \in Paths /\ Len(r) = n + 1
    BY <1>1, PutIs
  <1>8. \A i \in 1..(n + 1) : r[i] = IF i < k THEN s[i] ELSE IF i = k THEN t ELSE s[i - 1]
    BY DEF Put
  <1>9. q = s[k] /\ pr = (IF k = 1 THEN Null ELSE s[k - 1]) /\ \A i \in 1..n : s[i] # t
    BY <1>1
  <1> HIDE DEF n, g, r, pr, q
  <1>10. g \in Heaps
    <2>1. /\ g.head \in Nodes /\ g.next \in [Timers -> Nodes] /\ g.prev \in [Timers -> Nodes]
      BY <1>4, <1>5, <1>6 DEF Nodes
    <2> QED BY <1>5, <2>1 DEF Heaps
  <1>11. ASSUME NEW x \in Timers \ (ToSet(s) \union {t})
         PROVE  g.next[x] = h.next[x] /\ g.prev[x] = h.prev[x]
    <2>1. x # t /\ x # pr /\ x # q
      BY <1>1, <1>2, <1>9
    <2> QED BY <1>5, <1>6, <2>1
  <1>12. ASSUME NEW j \in 1..n
         PROVE  /\ g.next[s[j]] = IF j = k - 1 THEN t ELSE IF j = n THEN Null ELSE s[j + 1]
                /\ g.prev[s[j]] = IF j = k THEN t ELSE IF j = 1 THEN Null ELSE s[j - 1]
    <2>1. s[j] \in Timers /\ s[j] # t
      BY <1>1, <1>9
    <2>2. s[j] = pr <=> j = k - 1
      BY <1>1, <1>2, <1>9, <2>1
    <2>3. s[j] = q <=> j = k
      BY <1>1, <1>9
    <2>4. g.next[s[j]] = IF j = k - 1 THEN t ELSE h.next[s[j]]
      BY <1>5, <2>1, <2>2
    <2>5. g.prev[s[j]] = IF j = k THEN t ELSE h.prev[s[j]]
      BY <1>5, <1>6, <2>1, <2>3
    <2> QED BY <1>3, <2>4, <2>5
  <1>13. g.next[t] = q /\ g.prev[t] = pr
    BY <1>1, <1>4, <1>5, <1>6, <1>9
  <1>14. g.head = r[1]
    <2>1. CASE k = 1
      BY <1>1, <1>5, <1>8, <1>9, <2>1
    <2>2. CASE k # 1
      <3>1. pr \in Timers /\ pr # Null
        BY <1>1, <1>2, <1>9, <2>2
      <3> QED BY <1>1, <1>3, <1>5, <1>8, <2>2, <3>1
    <2> QED BY <2>1, <2>2
  <1>15. ASSUME NEW i \in 1..(n + 1)
         PROVE  /\ g.next[r[i]] = IF i = n + 1 THEN Null ELSE r[i + 1]
                /\ g.prev[r[i]] = IF i = 1 THEN Null ELSE r[i - 1]
    <2>1. CASE i < k
      <3>1. r[i] = s[i] /\ i \in 1..n /\ i # k
        BY <1>1, <1>8, <2>1
      <3>2. g.next[s[i]] = IF i = k - 1 THEN t ELSE s[i + 1]
        BY <1>1, <1>12, <2>1, <3>1
      <3>3. g.prev[s[i]] = IF i = 1 THEN Null ELSE s[i - 1]
        BY <1>12, <3>1
      <3>4. r[i + 1] = IF i = k - 1 THEN t ELSE s[i + 1]
        BY <1>1, <1>8, <2>1
      <3>5. i # 1 => r[i - 1] = s[i - 1]
        BY <1>1, <1>8, <2>1
      <3>6. i # n + 1
        BY <1>1, <2>1
      <3> QED BY <3>1, <3>2, <3>3, <3>4, <3>5, <3>6
    <2>2. CASE i = k
      <3>1. r[i] = t /\ i # n + 1
        BY <1>1, <1>8, <2>2
      <3>2. r[i + 1] = s[k]
        BY <1>1, <1>8, <2>2
      <3>3. i # 1 => r[i - 1] = s[k - 1]
        BY <1>1, <1>8, <2>2
      <3> QED BY <1>9, <1>13, <2>2, <3>1, <3>2, <3>3
    <2>3. CASE i > k
      <3>1. r[i] = s[i - 1] /\ i - 1 \in 1..n /\ i - 1 # k - 1
        BY <1>1, <1>8, <2>3
      <3>2. g.next[s[i - 1]] = IF i = n + 1 THEN Null ELSE s[i]
        <4>1. g.next[s[i - 1]] = IF i - 1 = n THEN Null ELSE s[(i - 1) + 1]
          BY <1>12, <3>1
        <4>2. (i - 1) + 1 = i /\ (i - 1 = n <=> i = n + 1)
          BY <1>1
        <4> QED BY <4>1, <4>2
      <3>3. g.prev[s[i - 1]] = IF i - 1 = k THEN t ELSE s[i - 2]
        <4>1. g.prev[s[i - 1]] = IF i - 1 = k THEN t ELSE IF i - 1 = 1 THEN Null ELSE s[(i - 1) - 1]
          BY <1>12, <3>1
        <4>2. (i - 1) - 1 = i - 2 /\ (i - 1 = 1 => i - 1 = k)
          BY <1>1, <2>3
        <4> QED BY <4>1, <4>2
      <3>4. i # n + 1 => r[i + 1] = s[i]
        BY <1>1, <1>8, <2>3
      <3>5. r[i - 1] = IF i - 1 = k THEN t ELSE s[i - 2]
        BY <1>1, <1>8, <2>3
      <3>6. i # 1
        BY <1>1, <2>3
      <3> QED BY <3>1, <3>2, <3>3, <3>4, <3>5, <3>6
    <2> QED BY <1>1, <2>1, <2>2, <2>3
  <1>16. Links(g, r)
    <2>1. g.head = IF Len(r) = 0 THEN Null ELSE r[1]
      <3>1. n + 1 # 0
        BY <1>1
      <3> QED BY <1>7, <1>14, <3>1, Zenon
    <2>2. \A i \in 1..Len(r) : /\ g.next[r[i]] = IF i = Len(r) THEN Null ELSE r[i + 1]
                               /\ g.prev[r[i]] = IF i = 1 THEN Null ELSE r[i - 1]
      BY <1>7, <1>15, Zenon
    <2> QED BY <1>7, <2>1, <2>2, LinksIs, Zenon
  <1> QED BY <1>10, <1>11, <1>16 DEF n, g, r, pr, q

LEMMA InsertLastIs ==
  ASSUME NEW h \in Heaps, NEW s \in Paths, Links(h, s), Len(s) # 0,
         NEW t \in Timers \ ToSet(s), h.next[t] = Null
  PROVE  /\ InsertLast(h, t) \in Heaps
         /\ Links(InsertLast(h, t), Put(s, Len(s) + 1, t))
         /\ \A x \in Timers \ (ToSet(s) \union {t}) :
              /\ InsertLast(h, t).next[x] = h.next[x]
              /\ InsertLast(h, t).prev[x] = h.prev[x]
  <1> DEFINE n == Len(s)
             l == s[n]
             g == InsertLast(h, t)
             r == Put(s, n + 1, t)
  <1>1. /\ n \in Nat /\ n # 0 /\ s \in [1..n -> Timers]
        /\ \A i, j \in 1..n : s[i] = s[j] => i = j
        /\ ToSet(s) = {s[i] : i \in 1..n}
    BY PathIs
  <1>2. /\ h.head = IF n = 0 THEN Null ELSE s[1]
        /\ \A i \in 1..n : /\ h.next[s[i]] = IF i = n THEN Null ELSE s[i + 1]
                           /\ h.prev[s[i]] = IF i = 1 THEN Null ELSE s[i - 1]
    BY LinksIs
  <1>3. Walk(h) = s
    BY WalkIs DEF Links
  <1>4. g = [[h EXCEPT !.next[l] = t] EXCEPT !.prev[t] = l]
    BY <1>3 DEF InsertLast, Last
  <1>5. h.head \in Nodes /\ h.next \in [Timers -> Nodes] /\ h.prev \in [Timers -> Nodes]
    BY DEF Heaps
  <1>6. r \in Paths /\ Len(r) = n + 1
    BY <1>1, PutIs
  <1>7. \A i \in 1..(n + 1) : r[i] = IF i < n + 1 THEN s[i] ELSE IF i = n + 1 THEN t ELSE s[i - 1]
    BY DEF Put
  <1>8. l = s[n] /\ l \in Timers /\ \A i \in 1..n : s[i] # t
    BY <1>1
  <1> HIDE DEF n, g, r, l
  <1>9. /\ g \in Heaps /\ g.head = h.head
        /\ g.next = [h.next EXCEPT ![l] = t]
        /\ g.prev = [h.prev EXCEPT ![t] = l]
    BY <1>4, <1>5, <1>8 DEF Heaps, Nodes
  <1>10. ASSUME NEW x \in Timers \ (ToSet(s) \union {t})
         PROVE  g.next[x] = h.next[x] /\ g.prev[x] = h.prev[x]
    <2>1. x # t /\ x # l
      BY <1>1, <1>8
    <2> QED BY <1>5, <1>9, <2>1
  <1>11. ASSUME NEW j \in 1..n
         PROVE  /\ g.next[s[j]] = IF j = n THEN t ELSE s[j + 1]
                /\ g.prev[s[j]] = IF j = 1 THEN Null ELSE s[j - 1]
    <2>1. s[j] \in Timers /\ s[j] # t /\ (s[j] = l <=> j = n)
      BY <1>1, <1>8
    <2>2. g.next[s[j]] = IF j = n THEN t ELSE h.next[s[j]]
      BY <1>5, <1>9, <2>1
    <2>3. g.prev[s[j]] = h.prev[s[j]]
      BY <1>5, <1>9, <2>1
    <2> QED BY <1>2, <2>2, <2>3
  <1>12. g.next[t] = Null /\ g.prev[t] = l
    <2>1. t # l
      BY <1>1, <1>8
    <2> QED BY <1>5, <1>9, <2>1
  <1>13. g.head = r[1]
    BY <1>1, <1>2, <1>7, <1>9
  <1>14. ASSUME NEW i \in 1..(n + 1)
         PROVE  /\ g.next[r[i]] = IF i = n + 1 THEN Null ELSE r[i + 1]
                /\ g.prev[r[i]] = IF i = 1 THEN Null ELSE r[i - 1]
    <2>1. CASE i < n + 1
      <3>1. r[i] = s[i] /\ i \in 1..n /\ i # n + 1
        BY <1>1, <1>7, <2>1
      <3>2. r[i + 1] = IF i = n THEN t ELSE s[i + 1]
        BY <1>1, <1>7, <2>1
      <3>3. i # 1 => r[i - 1] = s[i - 1]
        BY <1>1, <1>7, <2>1
      <3> QED BY <1>11, <3>1, <3>2, <3>3
    <2>2. CASE i = n + 1
      <3>1. r[i] = t /\ i # 1 /\ r[i - 1] = s[n]
        BY <1>1, <1>7, <2>2
      <3> QED BY <1>8, <1>12, <2>2, <3>1
    <2> QED BY <1>1, <2>1, <2>2
  <1>15. Links(g, r)
    <2>1. g.head = IF Len(r) = 0 THEN Null ELSE r[1]
      <3>1. n + 1 # 0
        BY <1>1
      <3> QED BY <1>6, <1>13, <3>1, Zenon
    <2>2. \A i \in 1..Len(r) : /\ g.next[r[i]] = IF i = Len(r) THEN Null ELSE r[i + 1]
                               /\ g.prev[r[i]] = IF i = 1 THEN Null ELSE r[i - 1]
      BY <1>6, <1>14, Zenon
    <2> QED BY <1>6, <2>1, <2>2, LinksIs, Zenon
  <1> QED BY <1>9, <1>10, <1>15 DEF n, g, r, l

LEMMA InsertEmptyIs ==
  ASSUME NEW h \in Heaps, NEW s \in Paths, Links(h, s), Len(s) = 0, NEW t \in Timers
  PROVE  LET g == [h EXCEPT !.head = t, !.next[t] = Null, !.prev[t] = Null]
         IN  /\ g \in Heaps /\ Links(g, Put(s, 1, t))
             /\ \A x \in Timers \ {t} : g.next[x] = h.next[x] /\ g.prev[x] = h.prev[x]
  <1> DEFINE g == [h EXCEPT !.head = t, !.next[t] = Null, !.prev[t] = Null]
             r == Put(s, 1, t)
  <1>1. h.head \in Nodes /\ h.next \in [Timers -> Nodes] /\ h.prev \in [Timers -> Nodes]
    BY DEF Heaps
  <1>2. /\ g \in Heaps /\ g.head = t
        /\ g.next = [h.next EXCEPT ![t] = Null]
        /\ g.prev = [h.prev EXCEPT ![t] = Null]
    BY <1>1 DEF Heaps, Nodes
  <1>3. ToSet(s) = {}
    <2>1. ToSet(s) = {s[i] : i \in 1..0}
      BY PathIs
    <2> QED BY <2>1
  <1>4. r \in Paths /\ Len(r) = 1
    <2>1. 1 \in 1..(Len(s) + 1) /\ Len(s) + 1 = 1
      OBVIOUS
    <2>2. t \in Timers \ ToSet(s)
      BY <1>3
    <2> QED BY <2>1, <2>2, PutIs
  <1>5. r[1] = t
    BY DEF Put
  <1> HIDE DEF g, r
  <1>6. \A x \in Timers \ {t} : g.next[x] = h.next[x] /\ g.prev[x] = h.prev[x]
    BY <1>1, <1>2
  <1>7. g.next[t] = Null /\ g.prev[t] = Null
    BY <1>1, <1>2
  <1>8. \A i \in 1..1 : /\ g.next[r[i]] = IF i = 1 THEN Null ELSE r[i + 1]
                        /\ g.prev[r[i]] = IF i = 1 THEN Null ELSE r[i - 1]
    BY <1>5, <1>7
  <1>9. Links(g, r)
    <2>1. g.head = IF Len(r) = 0 THEN Null ELSE r[1]
      BY <1>2, <1>4, <1>5
    <2>2. \A i \in 1..Len(r) : /\ g.next[r[i]] = IF i = Len(r) THEN Null ELSE r[i + 1]
                               /\ g.prev[r[i]] = IF i = 1 THEN Null ELSE r[i - 1]
      BY <1>4, <1>8, Zenon
    <2> QED BY <1>4, <2>1, <2>2, LinksIs, Zenon
  <1> QED BY <1>2, <1>6, <1>9 DEF g, r

(* timer_enable puts a timer in front of the first one it does not expire after. *)
LEMMA InsertIs ==
  ASSUME NEW h \in Heaps, NEW s \in Paths, Links(h, s),
         NEW t \in Timers \ ToSet(s), h.next[t] = Null, NEW v
  PROVE  \E k \in 1..(Len(s) + 1) :
           /\ Insert(h, t, v) \in Heaps
           /\ Links(Insert(h, t, v), Put(s, k, t))
           /\ \A j \in 1..Len(s) : j < k => ~TIMER_VAL_LESS_THAN_VAL(v, ts[s[j]])
           /\ k <= Len(s) => TIMER_VAL_LESS_THAN_VAL(v, ts[s[k]])
           /\ \A x \in Timers \ (ToSet(s) \union {t}) :
                /\ Insert(h, t, v).next[x] = h.next[x]
                /\ Insert(h, t, v).prev[x] = h.prev[x]
  <1> DEFINE n == Len(s)
             g == Insert(h, t, v)
  <1>1. /\ n \in Nat /\ s \in [1..n -> Timers]
        /\ ToSet(s) = {s[i] : i \in 1..n}
    BY PathIs
  <1>2. Null \notin Timers
    BY ListSizes
  <1>3. h.head = IF n = 0 THEN Null ELSE s[1]
    BY LinksIs
  <1>4. Walk(h) = s
    BY WalkIs DEF Links
  <1> HIDE DEF g
  <1>5. CASE n = 0
    <2>1. g = [h EXCEPT !.head = t, !.next[t] = Null, !.prev[t] = Null]
      BY <1>3, <1>5 DEF Insert, g
    <2>2. /\ g \in Heaps /\ Links(g, Put(s, 1, t))
          /\ \A x \in Timers \ {t} : /\ g.next[x] = h.next[x]
                                     /\ g.prev[x] = h.prev[x]
      <3>1. t \in Timers
        OBVIOUS
      <3> QED BY <1>5, <2>1, <3>1, InsertEmptyIs
    <2>3. 1 \in 1..(Len(s) + 1) /\ ~(1 <= Len(s)) /\ \A j \in 1..Len(s) : ~(j < 1)
      BY <1>5
    <2> QED BY <2>2, <2>3, Zenon DEF g
  <1>6. CASE n # 0
    <2> DEFINE later == {k \in 1..n : TIMER_VAL_LESS_THAN_VAL(v, ts[s[k]])}
    <2>1. h.head # Null
      BY <1>1, <1>2, <1>3, <1>6
    <2>2. Successor(h, v) = IF later = {} THEN Null ELSE s[Min(later)]
      BY <1>4 DEF Successor
    <2>3. CASE later = {}
      <3>1. g = InsertLast(h, t)
        BY <2>1, <2>2, <2>3 DEF Insert, g
      <3>2. /\ g \in Heaps /\ Links(g, Put(s, n + 1, t))
            /\ \A x \in Timers \ (ToSet(s) \union {t}) :
                 /\ g.next[x] = h.next[x]
                 /\ g.prev[x] = h.prev[x]
        BY <1>6, <3>1, InsertLastIs
      <3>3. n + 1 \in 1..(Len(s) + 1) /\ ~(n + 1 <= Len(s))
        BY <1>1
      <3>4. \A j \in 1..Len(s) : ~TIMER_VAL_LESS_THAN_VAL(v, ts[s[j]])
        BY <2>3
      <3> QED BY <3>2, <3>3, <3>4, Zenon DEF g
    <2>4. CASE later # {}
      <3> DEFINE k == Min(later)
      <3>1. later \subseteq Nat
        BY <1>1
      <3>2. k \in later /\ \A j \in later : k <= j
        <4>1. \E x \in later : \A y \in later : x <= y
          <5> HIDE DEF later
          <5> QED BY <2>4, <3>1, LeastIndex
        <4> HIDE DEF later
        <4> QED BY <4>1 DEF Min
      <3> HIDE DEF k
      <3>3. k \in 1..n /\ TIMER_VAL_LESS_THAN_VAL(v, ts[s[k]])
        BY <3>2
      <3>4. \A j \in 1..n : j < k => ~TIMER_VAL_LESS_THAN_VAL(v, ts[s[j]])
        <4> TAKE j \in 1..n
        <4> HAVE j < k
        <4>1. j \notin later
          <5> HIDE DEF later
          <5>1. j \in Int /\ k \in Int /\ ~(k <= j)
            BY <1>1, <3>3
          <5> QED BY <3>2, <5>1
        <4> QED BY <4>1
      <3>5. Successor(h, v) = s[k] /\ s[k] # Null
        BY <1>1, <1>2, <2>2, <2>4, <3>3 DEF k
      <3>6. g = InsertBefore(h, t, s[k])
        BY <2>1, <3>5 DEF Insert, g
      <3>7. /\ g \in Heaps /\ Links(g, Put(s, k, t))
            /\ \A x \in Timers \ (ToSet(s) \union {t}) :
                 /\ g.next[x] = h.next[x]
                 /\ g.prev[x] = h.prev[x]
        BY <3>3, <3>6, InsertBeforeIs
      <3>8. k \in 1..(Len(s) + 1)
        BY <1>1, <3>3
      <3> QED BY <3>3, <3>4, <3>7, <3>8, Zenon DEF g
    <2> QED BY <2>3, <2>4
  <1> QED BY <1>5, <1>6 DEF g

LEMMA CutOrder ==
  ASSUME NEW s \in Paths, NEW k \in 1..Len(s), NEW f, NEW g, Ascending(f, s),
         \A x \in ToSet(s) \ {s[k]} : g[x] = f[x]
  PROVE  Ascending(g, Cut(s, k))
  <1> DEFINE n == Len(s)
             r == Cut(s, k)
  <1>1. /\ n \in Nat /\ k \in 1..n /\ ToSet(s) = {s[i] : i \in 1..n}
        /\ \A i, j \in 1..n : s[i] = s[j] => i = j
    BY PathIs
  <1>2. Len(r) = n - 1 /\ \A i \in 1..(n - 1) : r[i] = IF i < k THEN s[i] ELSE s[i + 1]
    BY CutIs DEF Cut
  <1>3. \A i, j \in 1..n : i <= j => f[s[i]] <= f[s[j]]
    BY DEF Ascending
  <1>4. \A i \in 1..n : i # k => g[s[i]] = f[s[i]]
    BY <1>1
  <1> HIDE DEF n, r
  <1>5. ASSUME NEW i \in 1..(n - 1), NEW j \in 1..(n - 1), i <= j PROVE g[r[i]] <= g[r[j]]
    <2> DEFINE a == IF i < k THEN i ELSE i + 1
               b == IF j < k THEN j ELSE j + 1
    <2>1. a \in 1..n /\ a # k /\ r[i] = s[a]
      BY <1>1, <1>2
    <2>2. b \in 1..n /\ b # k /\ r[j] = s[b]
      BY <1>1, <1>2
    <2>3. a <= b
      BY <1>1, <1>5
    <2> HIDE DEF a, b
    <2>4. g[s[a]] = f[s[a]] /\ g[s[b]] = f[s[b]] /\ f[s[a]] <= f[s[b]]
      BY <1>3, <1>4, <2>1, <2>2, <2>3
    <2> QED BY <2>1, <2>2, <2>4
  <1> QED BY <1>2, <1>5 DEF Ascending, n, r

LEMMA PutOrder ==
  ASSUME NEW s \in Paths, NEW k \in 1..(Len(s) + 1), NEW t \in Timers \ ToSet(s), NEW d \in Int,
         NEW f \in [Timers -> Int], Ascending(f, s),
         \A j \in 1..Len(s) : j < k => f[s[j]] <= d,
         k <= Len(s) => d <= f[s[k]]
  PROVE  Ascending([f EXCEPT ![t] = d], Put(s, k, t))
  <1> DEFINE n == Len(s)
             r == Put(s, k, t)
             g == [f EXCEPT ![t] = d]
  <1>1. /\ n \in Nat /\ k \in 1..(n + 1) /\ ToSet(s) = {s[i] : i \in 1..n}
        /\ s \in [1..n -> Timers]
    BY PathIs
  <1>2. /\ Len(r) = n + 1
        /\ \A i \in 1..(n + 1) : r[i] = IF i < k THEN s[i] ELSE IF i = k THEN t ELSE s[i - 1]
    BY PutIs DEF Put
  <1>3. \A i, j \in 1..n : i <= j => f[s[i]] <= f[s[j]]
    BY DEF Ascending
  <1>4. \A i \in 1..n : g[s[i]] = f[s[i]] /\ f[s[i]] \in Int
    BY <1>1
  <1>5. g[t] = d
    OBVIOUS
  <1>6. /\ \A j \in 1..n : j < k => f[s[j]] <= d
        /\ k <= n => d <= f[s[k]]
    OBVIOUS
  <1> HIDE DEF n, r, g
  <1>7. \A j \in 1..n : j >= k => d <= f[s[j]]
    <2> TAKE j \in 1..n
    <2> HAVE j >= k
    <2>1. k \in 1..n /\ k <= j /\ k <= n
      BY <1>1
    <2>2. f[s[k]] <= f[s[j]] /\ d <= f[s[k]] /\ f[s[k]] \in Int /\ f[s[j]] \in Int
      BY <1>3, <1>4, <1>6, <2>1
    <2> QED BY <2>2
  <1>8. ASSUME NEW i \in 1..(n + 1)
        PROVE  /\ i < k => i \in 1..n /\ g[r[i]] = f[s[i]]
               /\ i = k => g[r[i]] = d
               /\ i > k => i - 1 \in 1..n /\ g[r[i]] = f[s[i - 1]]
    <2>1. CASE i < k
      <3>1. i \in 1..n /\ r[i] = s[i]
        BY <1>1, <1>2, <2>1
      <3> QED BY <1>1, <1>4, <2>1, <3>1
    <2>2. CASE i = k
      BY <1>1, <1>2, <1>5, <2>2
    <2>3. CASE i > k
      <3>1. i - 1 \in 1..n /\ r[i] = s[i - 1]
        BY <1>1, <1>2, <2>3
      <3> QED BY <1>1, <1>4, <2>3, <3>1
    <2> QED BY <1>1, <2>1, <2>2, <2>3
  <1>9. ASSUME NEW i \in 1..(n + 1), NEW j \in 1..(n + 1), i <= j PROVE g[r[i]] <= g[r[j]]
    <2>1. CASE j < k
      <3>1. i < k /\ i \in 1..n /\ j \in 1..n
        BY <1>1, <1>9, <2>1
      <3> QED BY <1>3, <1>8, <1>9, <2>1, <3>1
    <2>2. CASE j = k
      <3>1. CASE i = k
        <4>1. g[r[i]] = d /\ g[r[j]] = d /\ d <= d
          BY <1>8, <2>2, <3>1
        <4> QED BY <4>1
      <3>2. CASE i < k
        BY <1>6, <1>8, <2>2, <3>2
      <3> QED BY <1>1, <1>9, <2>2, <3>1, <3>2
    <2>3. CASE j > k
      <3>1. j - 1 \in 1..n /\ j - 1 >= k /\ g[r[j]] = f[s[j - 1]] /\ d <= f[s[j - 1]]
        BY <1>1, <1>7, <1>8, <2>3
      <3>2. CASE i < k
        <4>1. i \in 1..n /\ i <= j - 1 /\ g[r[i]] = f[s[i]]
          BY <1>1, <1>8, <2>3, <3>2
        <4> QED BY <1>3, <3>1, <4>1
      <3>3. CASE i = k
        <4>1. g[r[i]] = d
          BY <1>8, <3>3
        <4> QED BY <3>1, <4>1
      <3>4. CASE i > k
        <4>1. i - 1 \in 1..n /\ i - 1 <= j - 1 /\ g[r[i]] = f[s[i - 1]]
          BY <1>1, <1>8, <1>9, <3>4
        <4> QED BY <1>3, <3>1, <4>1
      <3> QED BY <1>1, <3>2, <3>3, <3>4
    <2> QED BY <1>1, <2>1, <2>2, <2>3
  <1> QED BY <1>2, <1>9 DEF Ascending, n, r, g

(***************************************************************************)
(* The invariant: first the steps that leave the pointers alone.           *)
(***************************************************************************)
LEMMA EmptyPath ==
  \E s \in Paths : Len(s) = 0 /\ ToSet(s) = {} /\ \A i \in 1..Len(s) : FALSE
  <1> DEFINE s == [i \in 1..0 |-> Null]
  <1>1. s \in [1..0 -> Timers] /\ \A i, j \in 1..0 : s[i] = s[j] => i = j
    OBVIOUS
  <1> HIDE DEF s
  <1>2. s \in Paths /\ Len(s) = 0 /\ ToSet(s) = {s[i] : i \in 1..0}
    <2>1. 0 \in Nat
      OBVIOUS
    <2> QED BY <1>1, <2>1, ShortPath, Zenon
  <1>3. ToSet(s) = {} /\ \A i \in 1..Len(s) : FALSE
    BY <1>2
  <1> QED BY <1>2, <1>3

LEMMA ListInitInv == ListInit => ListInv
  <1> SUFFICES ASSUME ListInit PROVE ListInv
    OBVIOUS
  <1> USE DEF ListInit
  <1>1. W \in Nat \ {0} /\ HalfW \in Nat /\ MaxBlock \in Nat
    BY ListSizes
  <1>2. ListTypeOK
    <2>1. heap \in Heaps
      BY DEF Heaps, Nodes
    <2>2. 0 \in Stamps
      BY <1>1 DEF Stamps
    <2>3. ts \in [Timers -> Stamps] /\ left \in [Timers -> Int]
      BY <2>2
    <2> QED BY <2>1, <2>2, <2>3 DEF ListTypeOK
  <1>3. Listed = {}
    BY DEF Listed
  <1>4. Unlinked /\ Timed /\ TargetFirst
    BY <1>3 DEF Unlinked, Timed, TargetFirst
  <1>5. Chained
    <2>1. PICK s \in Paths : Len(s) = 0 /\ ToSet(s) = {} /\ \A i \in 1..Len(s) : FALSE
      BY EmptyPath
    <2>2. heap.head = Null
      OBVIOUS
    <2>3. Links(heap, s)
      BY <2>1, <2>2, LinksIs
    <2>4. Ascending(left, s)
      BY <2>1 DEF Ascending
    <2> QED BY <1>3, <2>1, <2>3, <2>4 DEF Chained
  <1> QED BY <1>2, <1>4, <1>5 DEF ListInv

(* What the walk from timer_head is in a state of the invariant. *)
LEMMA ChainIs ==
  ASSUME ListInv
  PROVE  /\ Chain \in Paths /\ Links(heap, Chain) /\ ToSet(Chain) = Listed
         /\ Ascending(left, Chain)
         /\ Listed = {} <=> heap.head = Null
         /\ Listed # {} => heap.head \in Listed /\ \A t \in Listed : left[heap.head] <= left[t]
  <1>1. PICK s \in Paths : Links(heap, s) /\ ToSet(s) = Listed /\ Ascending(left, s)
    BY DEF ListInv, Chained
  <1>2. Chain = s
    BY <1>1, WalkIs DEF Chain, Links
  <1>3. /\ Len(s) \in Nat /\ s \in [1..Len(s) -> Timers]
        /\ Listed = {s[i] : i \in 1..Len(s)}
    BY <1>1, PathIs
  <1>4. heap.head = IF Len(s) = 0 THEN Null ELSE s[1]
    BY <1>1, LinksIs
  <1>5. Null \notin Timers
    BY ListSizes
  <1>6. CASE Len(s) = 0
    <2>1. Listed = {}
      BY <1>3, <1>6
    <2> QED BY <1>1, <1>2, <1>4, <1>6, <2>1
  <1>7. CASE Len(s) # 0
    <2>1. 1 \in 1..Len(s) /\ heap.head = s[1]
      BY <1>3, <1>4, <1>7
    <2>2. heap.head \in Listed /\ heap.head \in Timers
      BY <1>3, <2>1
    <2>3. ASSUME NEW t \in Listed PROVE left[heap.head] <= left[t]
      <3>1. PICK j \in 1..Len(s) : t = s[j]
        BY <1>3
      <3>2. 1 <= j
        BY <1>3
      <3> QED BY <1>1, <2>1, <3>1, <3>2 DEF Ascending
    <2> QED BY <1>1, <1>2, <1>5, <2>2, <2>3
  <1> QED BY <1>6, <1>7

LEMMA AddInv ==
  ASSUME ListInv, NEW t \in Timers, timer_add(t) PROVE ListInv'
  <1> USE DEF timer_add
  <1>1. ListTypeOK /\ Listed \subseteq Timers
    BY DEF ListInv, ListTypeOK, Listed
  <1>2. t \notin Listed /\ Listed' = Listed
    BY DEF Listed
  <1>3. heap.head \in Nodes /\ heap.next \in [Timers -> Nodes] /\ heap.prev \in [Timers -> Nodes]
    BY <1>1 DEF ListTypeOK, Heaps
  <1>4. /\ heap' \in Heaps /\ heap'.head = heap.head
        /\ heap'.next = [heap.next EXCEPT ![t] = Null]
        /\ heap'.prev = [heap.prev EXCEPT ![t] = Null]
    BY <1>1, <1>3 DEF Heaps, Nodes, ListTypeOK
  <1>5. ListTypeOK'
    <2>1. 0 \in Stamps
      BY ListSizes DEF Stamps
    <2> QED BY <1>1, <1>4, <2>1 DEF ListTypeOK
  <1>6. Unlinked'
    BY <1>1, <1>3, <1>4 DEF ListInv, Unlinked, ListTypeOK
  <1>7. Timed' /\ TargetFirst'
    <2>1. \A x \in Listed : ts'[x] = ts[x]
      BY <1>1, <1>2 DEF ListTypeOK
    <2> QED BY <1>2, <2>1 DEF ListInv, Timed, TargetFirst
  <1>8. Chained'
    <2>1. PICK s \in Paths : Links(heap, s) /\ ToSet(s) = Listed /\ Ascending(left, s)
      BY DEF ListInv, Chained
    <2>2. /\ Len(s) \in Nat /\ s \in [1..Len(s) -> Timers]
          /\ Listed = {s[i] : i \in 1..Len(s)}
      BY <2>1, PathIs
    <2>3. \A i \in 1..Len(s) : heap'.next[s[i]] = heap.next[s[i]] /\ heap'.prev[s[i]] = heap.prev[s[i]]
      <3> TAKE i \in 1..Len(s)
      <3>1. s[i] # t /\ s[i] \in Timers
        BY <1>2, <2>2
      <3> QED BY <1>3, <1>4, <3>1
    <2>4. Links(heap', s)
      BY <1>4, <2>1, <2>3, Zenon DEF Links, Follows
    <2> QED BY <1>2, <2>1, <2>4 DEF Chained
  <1> QED BY <1>5, <1>6, <1>7, <1>8 DEF ListInv

LEMMA CloseInv ==
  ASSUME ListInv, timer_close PROVE ListInv'
  <1> USE DEF timer_close
  <1>1. ListTypeOK
    BY DEF ListInv
  <1>2. heap.head \in Nodes /\ heap.next \in [Timers -> Nodes] /\ heap.prev \in [Timers -> Nodes]
    BY <1>1 DEF ListTypeOK, Heaps
  <1>3. heap' \in Heaps /\ heap'.head = Null
    BY <1>1, <1>2 DEF Heaps, Nodes, ListTypeOK
  <1>4. ListTypeOK'
    <2>1. left' \in [Timers -> Int]
      OBVIOUS
    <2> QED BY <1>1, <1>3, <2>1 DEF ListTypeOK
  <1>5. Listed' = {}
    BY DEF Listed
  <1>6. Unlinked' /\ Timed' /\ TargetFirst'
    BY <1>5 DEF Unlinked, Timed, TargetFirst
  <1>7. Chained'
    <2>1. PICK s \in Paths : Len(s) = 0 /\ ToSet(s) = {} /\ \A i \in 1..Len(s) : FALSE
      BY EmptyPath
    <2>2. Links(heap', s)
      BY <1>3, <2>1, LinksIs
    <2>3. Ascending(left', s)
      BY <2>1 DEF Ascending
    <2> QED BY <1>5, <2>1, <2>2, <2>3 DEF Chained
  <1>8. ~fatal' /\ added' = {}
    BY DEF ListInv
  <1> QED BY <1>4, <1>6, <1>7, <1>8 DEF ListInv

LEMMA TimerInitInv ==
  ASSUME ListInv, timer_init PROVE ListInv'
  <1> USE DEF timer_init
  <1>1. added = {} /\ Listed = {} /\ Listed' = {}
    BY DEF ListInv, Listed
  <1>2. 0 \in Stamps
    BY ListSizes DEF Stamps
  <1>3. ListTypeOK'
    BY <1>2 DEF ListInv, ListTypeOK
  <1>4. Unlinked' /\ Timed' /\ TargetFirst'
    BY <1>1 DEF Unlinked, Timed, TargetFirst
  <1>5. Chained'
    BY <1>1 DEF ListInv, Chained
  <1> QED BY <1>3, <1>4, <1>5 DEF ListInv

LEMMA NewTscInv ==
  ASSUME ListInv, NEW new \in NewTsc, timer_set_new_tsc(new) PROVE ListInv'
  <1> USE DEF timer_set_new_tsc
  <1>1. /\ ListTypeOK /\ Listed \subseteq Timers /\ Listed' = Listed
    BY DEF ListInv, ListTypeOK, Listed
  <1>2. /\ W \in Nat \ {0} /\ HalfW \in Nat /\ W = 2 * HalfW /\ MaxBlock \in Nat /\ MaxBlock < HalfW
        /\ new \in Stamps
    BY ListSizes
  <1>3. ASSUME NEW t \in Listed
        PROVE  /\ (new + Signed(ts[t] - tsc)) % W \in Stamps
               /\ After((new + Signed(ts[t] - tsc)) % W, new, left[t])
               /\ left[t] \in 0..HalfW
    <2>1. ts[t] \in Stamps /\ tsc \in Stamps /\ left[t] \in Int
      BY <1>1 DEF ListTypeOK
    <2>2. After(ts[t], tsc, left[t]) /\ -HalfW <= left[t] /\ left[t] < HalfW /\ 0 <= left[t]
      BY <1>2, <2>1 DEF ListInv, Timed
    <2>3. Signed(ts[t] - tsc) = left[t]
      BY <2>1, <2>2, SignedIs
    <2>4. -W <= left[t] /\ left[t] <= W /\ left[t] \in 0..HalfW
      BY <1>2, <2>1, <2>2
    <2> QED BY <1>2, <2>1, <2>3, <2>4, PlusIs
  <1>4. ToSet(Chain) = Listed
    BY ChainIs
  <1>5. ts' = [t \in Timers |-> IF t \in Listed THEN (new + Signed(ts[t] - tsc)) % W ELSE ts[t]]
    BY <1>4
  <1>6. ASSUME Listed # {}
        PROVE  /\ timer_target' \in Stamps /\ After(timer_target', new, left[heap.head])
               /\ left[heap.head] \in 0..HalfW /\ \A t \in Listed : left[heap.head] <= left[t]
    <2>1. heap.head \in Listed /\ heap.head # Null /\ \A t \in Listed : left[heap.head] <= left[t]
      BY <1>6, ChainIs
    <2> QED BY <1>3, <2>1
  <1>7. Listed = {} => timer_target' = timer_target
    BY ChainIs
  <1>8. ListTypeOK'
    <2>1. timer_target' \in Stamps
      BY <1>1, <1>6, <1>7 DEF ListTypeOK
    <2>2. ts' \in [Timers -> Stamps]
      BY <1>1, <1>3, <1>5 DEF ListTypeOK
    <2> QED BY <1>1, <1>2, <2>1, <2>2 DEF ListTypeOK
  <1>9. Timed'
    BY <1>1, <1>3, <1>5 DEF ListInv, Timed
  <1>10. TargetFirst'
    <2> SUFFICES ASSUME Listed # {} PROVE TargetFirst'
      BY <1>1 DEF TargetFirst
    <2>1. left[heap.head] \in (-MaxBlock)..HalfW /\ left[heap.head] >= 0
      BY <1>2, <1>6
    <2> QED BY <1>1, <1>6, <2>1 DEF TargetFirst
  <1>11. Unlinked' /\ Chained' /\ ~fatal' /\ (~timer_inited' => added' = {})
    BY <1>1 DEF ListInv, Unlinked, Chained
  <1> QED BY <1>8, <1>9, <1>10, <1>11 DEF ListInv

LEMMA ExecuteInv ==
  ASSUME ListInv, NEW n \in 1..MaxBlock, Execute(n) PROVE ListInv'
  <1> USE DEF Execute
  <1>1. ListTypeOK /\ Listed \subseteq Timers /\ Listed' = Listed
    BY DEF ListInv, ListTypeOK, Listed
  <1>2. /\ W \in Nat \ {0} /\ HalfW \in Nat /\ W = 2 * HalfW /\ MaxBlock \in Nat /\ MaxBlock < HalfW
        /\ n \in Nat /\ 1 <= n /\ n <= MaxBlock
    BY ListSizes
  <1>3. tsc \in Stamps /\ tsc' \in Stamps /\ After(tsc', tsc, n)
    <2>1. tsc \in Stamps /\ n \in Int /\ -W <= n /\ n <= W
      BY <1>1, <1>2 DEF ListTypeOK
    <2> QED BY <2>1, PlusIs
  <1>4. ASSUME NEW a \in Stamps, NEW x \in 0..HalfW, After(a, tsc, x)
        PROVE  After(a, tsc', x - n)
    BY <1>2, <1>3, <1>4 DEF After, Stamps
  <1>5. ASSUME NEW t \in Listed
        PROVE  /\ left'[t] = left[t] - n /\ left[t] \in 0..HalfW /\ left[t] + MaxBlock < HalfW
               /\ After(ts[t], tsc', left'[t])
    <2>1. left'[t] = left[t] - n /\ ts[t] \in Stamps /\ left[t] \in Int
      BY <1>1 DEF ListTypeOK
    <2>2. After(ts[t], tsc, left[t]) /\ 0 <= left[t] /\ left[t] + MaxBlock < HalfW
      BY DEF ListInv, Timed
    <2>3. left[t] \in 0..HalfW
      BY <1>2, <2>1, <2>2
    <2> QED BY <1>4, <2>1, <2>2, <2>3
  <1>6. ASSUME Listed # {}
        PROVE  \E x \in (-MaxBlock)..HalfW :
                 /\ After(timer_target, tsc', x)
                 /\ pc' = "cpu" => x > 0
                 /\ \A t \in Listed : x <= left'[t]
    <2>1. PICK y \in (-MaxBlock)..HalfW :
            After(timer_target, tsc, y) /\ y >= 0 /\ \A t \in Listed : y <= left[t]
      BY <1>6 DEF ListInv, TargetFirst
    <2>2. y \in 0..HalfW /\ y - n \in (-MaxBlock)..HalfW /\ y \in Int /\ timer_target \in Stamps
      BY <1>1, <1>2, <2>1 DEF ListTypeOK
    <2>3. After(timer_target, tsc', y - n)
      BY <1>4, <2>1, <2>2
    <2>4. \A t \in Listed : y - n <= left'[t]
      <3> TAKE t \in Listed
      <3>1. left'[t] = left[t] - n /\ left[t] \in Int /\ y <= left[t]
        BY <1>5, <2>1
      <3> QED BY <1>2, <2>2, <3>1
    <2>5. TIMER_VAL_LESS_THAN_VAL(timer_target, tsc') <=> y - n <= 0
      <3>1. After(tsc', tsc', 0)
        BY <1>2, <1>3 DEF After, Stamps
      <3>2. y - n \in Int /\ 0 \in Int /\ -HalfW <= (y - n) - 0 /\ (y - n) - 0 < HalfW
        BY <1>2, <2>2
      <3> QED BY <1>3, <2>2, <2>3, <3>1, <3>2, EarlierIs
    <2>6. heap.head # Null
      BY <1>6, ChainIs
    <2>7. pc' = "cpu" => y - n > 0
      BY <1>2, <2>2, <2>5, <2>6
    <2> QED BY <2>2, <2>3, <2>4, <2>7
  <1>7. ListTypeOK'
    <2>1. left' \in [Timers -> Int]
      BY <1>1, <1>2 DEF ListTypeOK
    <2> QED BY <1>1, <1>3, <2>1 DEF ListTypeOK
  <1>8. Timed'
    <2> SUFFICES ASSUME NEW t \in Listed
                 PROVE  /\ After(ts[t], tsc', left'[t])
                        /\ -MaxBlock <= left'[t] /\ left'[t] + MaxBlock < HalfW
                        /\ pc' = "cpu" => left'[t] >= 0
      BY <1>1 DEF Timed
    <2>1. -MaxBlock <= left'[t] /\ left'[t] + MaxBlock < HalfW
      BY <1>2, <1>5
    <2>2. pc' = "cpu" => left'[t] >= 0
      <3>1. PICK x \in (-MaxBlock)..HalfW : (pc' = "cpu" => x > 0) /\ x <= left'[t]
        BY <1>6
      <3>2. x \in Int /\ left'[t] \in Int
        BY <1>2, <1>5
      <3> QED BY <3>1, <3>2
    <2> QED BY <1>5, <2>1, <2>2
  <1>9. TargetFirst'
    <2> SUFFICES ASSUME Listed # {} PROVE TargetFirst'
      BY <1>1 DEF TargetFirst
    <2>1. PICK x \in (-MaxBlock)..HalfW : /\ After(timer_target, tsc', x)
                                          /\ pc' = "cpu" => x > 0
                                          /\ \A t \in Listed : x <= left'[t]
      BY <1>6
    <2>2. pc' = "cpu" => x >= 0
      BY <1>2, <2>1
    <2> QED BY <1>1, <2>1, <2>2 DEF TargetFirst
  <1>10. Chained'
    <2>1. PICK s \in Paths : Links(heap, s) /\ ToSet(s) = Listed /\ Ascending(left, s)
      BY DEF ListInv, Chained
    <2>2. Listed = {s[i] : i \in 1..Len(s)}
      BY <2>1, PathIs
    <2>3. Ascending(left', s)
      <3> SUFFICES ASSUME NEW i \in 1..Len(s), NEW j \in 1..Len(s), i <= j
                   PROVE  left'[s[i]] <= left'[s[j]]
        BY DEF Ascending
      <3>1. s[i] \in Listed /\ s[j] \in Listed /\ left[s[i]] <= left[s[j]]
        BY <2>1, <2>2 DEF Ascending
      <3>2. /\ left'[s[i]] = left[s[i]] - n /\ left[s[i]] \in Int
            /\ left'[s[j]] = left[s[j]] - n /\ left[s[j]] \in Int
        <4>1. \A t \in Listed : left'[t] = left[t] - n /\ left[t] \in Int
          <5> TAKE t \in Listed
          <5>1. left'[t] = left[t] - n
            BY <1>5, Zenon
          <5> QED BY <1>1, <5>1 DEF ListTypeOK
        <4> QED BY <3>1, <4>1, Zenon
      <3> QED BY <1>2, <3>1, <3>2
    <2> QED BY <1>1, <2>1, <2>3 DEF Chained
  <1>11. Unlinked' /\ ~fatal' /\ (~timer_inited' => added' = {})
    BY DEF ListInv, Unlinked
  <1> QED BY <1>7, <1>8, <1>9, <1>10, <1>11 DEF ListInv

LEMMA ProcessEndInv ==
  ASSUME ListInv, ProcessEnd PROVE ListInv'
  <1> USE DEF ProcessEnd
  <1>1. ListTypeOK /\ Listed \subseteq Timers /\ Listed' = Listed
    BY DEF ListInv, ListTypeOK, Listed
  <1>2. /\ W \in Nat \ {0} /\ HalfW \in Nat /\ W = 2 * HalfW /\ MaxBlock \in Nat /\ MaxBlock < HalfW
    BY ListSizes
  <1> DEFINE b == heap.head
  <1>3. b \in Listed /\ \A t \in Listed : left[b] <= left[t]
    BY ChainIs
  <1>4. /\ ts[b] \in Stamps /\ tsc \in Stamps /\ left[b] \in Int /\ After(ts[b], tsc, left[b])
        /\ -MaxBlock <= left[b] /\ left[b] + MaxBlock < HalfW
    BY <1>1, <1>3 DEF ListInv, ListTypeOK, Timed
  <1>5. left[b] > 0
    <2>1. After(tsc, tsc, 0)
      BY <1>2, <1>4 DEF After, Stamps
    <2>2. 0 \in Int /\ -HalfW <= left[b] - 0 /\ left[b] - 0 < HalfW
      BY <1>2, <1>4
    <2>3. TIMER_VAL_LESS_THAN_VAL(ts[b], tsc) <=> left[b] <= 0
      BY <1>4, <2>1, <2>2, EarlierIs
    <2> QED BY <1>4, <2>3
  <1>6. ListTypeOK'
    BY <1>1, <1>4 DEF ListTypeOK
  <1>7. Timed'
    <2> SUFFICES ASSUME NEW t \in Listed PROVE left[t] >= 0
      BY <1>1 DEF ListInv, Timed
    <2>1. left[t] \in Int /\ left[b] <= left[t]
      BY <1>1, <1>3 DEF ListTypeOK
    <2> QED BY <1>4, <1>5, <2>1
  <1>8. TargetFirst'
    <2>1. left[b] \in (-MaxBlock)..HalfW /\ left[b] >= 0
      BY <1>2, <1>4, <1>5
    <2> QED BY <1>1, <1>3, <1>4, <2>1 DEF TargetFirst
  <1>9. Unlinked' /\ Chained' /\ ~fatal' /\ (~timer_inited' => added' = {})
    BY <1>1 DEF ListInv, Unlinked, Chained
  <1> QED BY <1>6, <1>7, <1>8, <1>9 DEF ListInv

(* A timer on the list is never taken for an isolated one. *)
LEMMA NotIsolated ==
  ASSUME ListInv, NEW t \in Listed PROVE ~Isolated(t)
  <1>1. PICK s \in Paths : Links(heap, s) /\ ToSet(s) = Listed
    BY DEF ListInv, Chained
  <1>2. Len(s) \in Nat /\ s \in [1..Len(s) -> Timers] /\ Listed = {s[i] : i \in 1..Len(s)}
    BY <1>1, PathIs
  <1>3. PICK k \in 1..Len(s) : t = s[k]
    BY <1>2
  <1>4. /\ heap.head = IF Len(s) = 0 THEN Null ELSE s[1]
        /\ heap.prev[s[k]] = IF k = 1 THEN Null ELSE s[k - 1]
    BY <1>1, LinksIs
  <1>5. Null \notin Timers
    BY ListSizes
  <1>6. CASE k = 1
    <2>1. heap.head = t
      BY <1>2, <1>3, <1>4, <1>6
    <2> QED BY <2>1 DEF Isolated
  <1>7. CASE k # 1
    <2>1. heap.prev[t] \in Timers
      BY <1>2, <1>3, <1>4, <1>7
    <2> QED BY <1>5, <2>1 DEF Isolated
  <1> QED BY <1>6, <1>7

(* timer_disable and timer_remove_head both take a timer off the list. *)
LEMMA RemoveInv ==
  ASSUME ListInv, NEW t \in Listed, heap' = Unlink(heap, t), enabled' = enabled \ {t},
         left' = [left EXCEPT ![t] = 0], ~fatal',
         UNCHANGED <<ts, timer_target, tsc, timer_inited, added, pc>>
  PROVE  ListInv'
  <1>1. ListTypeOK /\ Listed \subseteq Timers /\ Listed' = Listed \ {t} /\ t \in Timers
    BY DEF ListInv, ListTypeOK, Listed
  <1>2. PICK s \in Paths : Links(heap, s) /\ ToSet(s) = Listed /\ Ascending(left, s)
    BY DEF ListInv, Chained
  <1>3. Len(s) \in Nat /\ s \in [1..Len(s) -> Timers] /\ Listed = {s[i] : i \in 1..Len(s)}
    BY <1>2, PathIs
  <1>4. PICK k \in 1..Len(s) : t = s[k]
    BY <1>3
  <1>5. heap \in Heaps
    BY <1>1 DEF ListTypeOK
  <1>6. /\ heap' \in Heaps /\ Links(heap', Cut(s, k))
        /\ heap'.next[t] = Null /\ heap'.prev[t] = Null
        /\ \A x \in Timers \ ToSet(s) : heap'.next[x] = heap.next[x] /\ heap'.prev[x] = heap.prev[x]
    BY <1>2, <1>4, <1>5, UnlinkIs
  <1>7. \A x \in Listed' : left'[x] = left[x]
    BY <1>1 DEF ListTypeOK
  <1>8. ListTypeOK'
    BY <1>1, <1>6 DEF ListTypeOK
  <1>9. Unlinked'
    <2> SUFFICES ASSUME NEW x \in added' \ enabled' PROVE heap'.next[x] = Null /\ heap'.prev[x] = Null
      BY DEF Unlinked
    <2>1. CASE x = t
      BY <1>6, <2>1
    <2>2. CASE x # t
      <3>1. x \in added \ enabled /\ x \in Timers \ ToSet(s)
        BY <1>1, <1>2, <2>2 DEF Listed, ListTypeOK
      <3> QED BY <1>6, <3>1 DEF ListInv, Unlinked
    <2> QED BY <2>1, <2>2
  <1>10. Timed'
    BY <1>1, <1>7 DEF ListInv, Timed
  <1>11. TargetFirst'
    <2> SUFFICES ASSUME Listed' # {} PROVE TargetFirst'
      BY DEF TargetFirst
    <2>1. PICK x \in (-MaxBlock)..HalfW : /\ After(timer_target, tsc, x)
                                          /\ pc = "cpu" => x >= 0
                                          /\ \A y \in Listed : x <= left[y]
      BY <1>1 DEF ListInv, TargetFirst
    <2>2. \A y \in Listed' : x <= left'[y]
      BY <1>1, <1>7, <2>1
    <2> QED BY <2>1, <2>2 DEF TargetFirst
  <1>12. Chained'
    <2>1. Cut(s, k) \in Paths /\ ToSet(Cut(s, k)) = Listed'
      BY <1>1, <1>2, <1>4, CutIs
    <2>2. Ascending(left', Cut(s, k))
      <3>1. \A x \in ToSet(s) \ {s[k]} : left'[x] = left[x]
        BY <1>1, <1>2, <1>4, <1>7
      <3> QED BY <1>2, <3>1, CutOrder
    <2> QED BY <1>6, <2>1, <2>2 DEF Chained
  <1>13. ~fatal' /\ (~timer_inited' => added' = {})
    BY DEF ListInv
  <1> QED BY <1>8, <1>9, <1>10, <1>11, <1>12, <1>13 DEF ListInv

LEMMA DisableInv ==
  ASSUME ListInv, NEW t \in Timers, timer_disable(t) PROVE ListInv'
  <1> USE DEF timer_disable
  <1>1. CASE timer_inited /\ t \in enabled
    <2>1. t \in Listed
      BY <1>1 DEF Listed
    <2>2. ~fatal'
      BY <1>1, <2>1, NotIsolated
    <2> QED BY <1>1, <2>1, <2>2, RemoveInv
  <1>2. CASE ~(timer_inited /\ t \in enabled)
    <2>1. UNCHANGED listVars
      BY <1>2 DEF listVars
    <2> QED BY <2>1 DEF listVars, ListInv, ListTypeOK, Unlinked, Timed, TargetFirst, Chained, Listed
  <1> QED BY <1>1, <1>2

LEMMA ProcessHeadInv ==
  ASSUME ListInv, ProcessHead PROVE ListInv'
  <1> DEFINE t == heap.head
             q == heap.next[t]
  <1>1. /\ Len(Chain) > 1 /\ enabled' = enabled \ {t} /\ left' = [left EXCEPT ![t] = 0]
        /\ heap' = [head |-> q, next |-> [heap.next EXCEPT ![t] = Null],
                    prev |-> [heap.prev EXCEPT ![t] = Null, ![q] = Null]]
        /\ UNCHANGED <<ts, timer_target, tsc, timer_inited, added, pc, fatal>>
    BY DEF ProcessHead
  <1>2. PICK s \in Paths : s = Chain /\ Links(heap, s) /\ ToSet(s) = Listed
    BY ChainIs
  <1>3. /\ Len(s) \in Nat /\ s \in [1..Len(s) -> Timers] /\ Listed = {s[i] : i \in 1..Len(s)}
        /\ \A i, j \in 1..Len(s) : s[i] = s[j] => i = j
    BY <1>2, PathIs
  <1>4. 1 \in 1..Len(s) /\ 2 \in 1..Len(s)
    BY <1>1, <1>2, <1>3
  <1>5. t = s[1] /\ q = s[2] /\ heap.prev[t] = Null
    BY <1>2, <1>3, <1>4, LinksIs
  <1>6. t \in Listed /\ t \in Timers /\ q \in Timers /\ t # q
    BY <1>3, <1>4, <1>5
  <1>7. Null \notin Timers
    BY ListSizes
  <1>8. heap.next \in [Timers -> Nodes] /\ heap.prev \in [Timers -> Nodes]
    BY DEF ListInv, ListTypeOK, Heaps
  <1> HIDE DEF t
  <1>9. heap' = Unlink(heap, t)
    <2>1. [x \in Timers |-> IF x = t THEN Null ELSE IF x = Null THEN q ELSE heap.next[x]]
            = [heap.next EXCEPT ![t] = Null]
      BY <1>6, <1>7, <1>8
    <2>2. [x \in Timers |-> IF x = t THEN Null ELSE IF x = q THEN Null ELSE heap.prev[x]]
            = [heap.prev EXCEPT ![t] = Null, ![q] = Null]
      <3> HIDE DEF q
      <3> QED BY <1>6, <1>8
    <2> QED BY <1>1, <1>5, <2>1, <2>2, Zenon DEF Unlink
  <1>10. ~fatal'
    BY <1>1 DEF ListInv
  <1> QED BY <1>1, <1>6, <1>9, <1>10, RemoveInv

(* timer_enable: the timer is off the list when it is linked again. *)
LEMMA SetDelayInv ==
  ASSUME ListInv, NEW t \in Timers, NEW d \in Delays, timer_set_delay_u64(t, d) PROVE ListInv'
  <1> DEFINE v == (tsc + d) % W
             again == t \in enabled /\ timer_inited
             h0 == IF again THEN Unlink(heap, t) ELSE heap
             g == Insert(h0, t, v)
  <1>1. /\ timer_inited /\ t \in added
        /\ ts' = [ts EXCEPT ![t] = v] /\ heap' = g /\ enabled' = enabled \union {t}
        /\ fatal' = (\/ again /\ Isolated(t)
                     \/ h0.next[t] # Null \/ h0.prev[t] # Null)
        /\ timer_target' = (IF g.head = t THEN v ELSE timer_target)
        /\ left' = [left EXCEPT ![t] = d]
        /\ UNCHANGED <<tsc, timer_inited, added, pc>>
    BY DEF timer_set_delay_u64, Enable
  <1>2. ListTypeOK /\ Listed \subseteq Timers /\ Listed' = Listed \union {t}
    BY <1>1 DEF ListInv, ListTypeOK, Listed
  <1>3. /\ W \in Nat \ {0} /\ HalfW \in Nat /\ W = 2 * HalfW /\ MaxBlock \in Nat /\ MaxBlock < HalfW
        /\ d \in Nat /\ d + MaxBlock < HalfW
    BY ListSizes
  <1>4. v \in Stamps /\ After(v, tsc, d)
    <2>1. tsc \in Stamps /\ d \in Int /\ -W <= d /\ d <= W
      BY <1>2, <1>3 DEF ListTypeOK
    <2> QED BY <2>1, PlusIs
  <1> HIDE DEF v, g
  <1>5. /\ h0 \in Heaps /\ h0.next[t] = Null /\ h0.prev[t] = Null /\ ~(again /\ Isolated(t))
        /\ \A x \in Timers \ (Listed \union {t}) : h0.next[x] = heap.next[x] /\ h0.prev[x] = heap.prev[x]
        /\ \E s \in Paths : Links(h0, s) /\ ToSet(s) = Listed \ {t} /\ Ascending(left, s)
    <2>1. PICK s \in Paths : Links(heap, s) /\ ToSet(s) = Listed /\ Ascending(left, s)
      BY DEF ListInv, Chained
    <2>2. Listed = {s[i] : i \in 1..Len(s)} /\ heap \in Heaps
      BY <1>2, <2>1, PathIs DEF ListTypeOK
    <2>3. CASE again
      <3>1. h0 = Unlink(heap, t) /\ t \in Listed
        BY <1>1, <2>3 DEF Listed
      <3>2. PICK k \in 1..Len(s) : t = s[k]
        BY <2>2, <3>1
      <3> HIDE DEF h0, again
      <3>3. /\ h0 \in Heaps /\ Links(h0, Cut(s, k)) /\ h0.next[t] = Null /\ h0.prev[t] = Null
            /\ \A x \in Timers \ ToSet(s) : h0.next[x] = heap.next[x] /\ h0.prev[x] = heap.prev[x]
        BY <2>1, <2>2, <3>1, <3>2, UnlinkIs
      <3>4. Cut(s, k) \in Paths /\ ToSet(Cut(s, k)) = Listed \ {t}
        BY <2>1, <3>2, CutIs
      <3>5. Ascending(left, Cut(s, k))
        BY <2>1, CutOrder
      <3>6. ~Isolated(t)
        BY <3>1, NotIsolated
      <3>7. \A x \in Timers \ (Listed \union {t}) : h0.next[x] = heap.next[x] /\ h0.prev[x] = heap.prev[x]
        BY <2>1, <3>3
      <3> QED BY <3>3, <3>4, <3>5, <3>6, <3>7
    <2>4. CASE ~again
      <3>1. h0 = heap
        BY <2>4
      <3>2. t \in added \ enabled
        BY <1>1, <2>4
      <3>3. heap.next[t] = Null /\ heap.prev[t] = Null
        BY <3>2 DEF ListInv, Unlinked
      <3>4. Listed \ {t} = Listed
        BY <3>2 DEF Listed
      <3> HIDE DEF h0, again
      <3> QED BY <2>1, <2>2, <2>4, <3>1, <3>3, <3>4
    <2> QED BY <2>3, <2>4
  <1> HIDE DEF h0, again
  <1>6. PICK s \in Paths : Links(h0, s) /\ ToSet(s) = Listed \ {t} /\ Ascending(left, s)
    BY <1>5
  <1>7. Len(s) \in Nat /\ s \in [1..Len(s) -> Timers] /\ ToSet(s) = {s[i] : i \in 1..Len(s)}
    BY PathIs
  <1>8. PICK k \in 1..(Len(s) + 1) :
           /\ g \in Heaps /\ Links(g, Put(s, k, t))
           /\ \A j \in 1..Len(s) : j < k => ~TIMER_VAL_LESS_THAN_VAL(v, ts[s[j]])
           /\ k <= Len(s) => TIMER_VAL_LESS_THAN_VAL(v, ts[s[k]])
           /\ \A x \in Timers \ (ToSet(s) \union {t}) : g.next[x] = h0.next[x] /\ g.prev[x] = h0.prev[x]
    <2>1. t \in Timers \ ToSet(s)
      BY <1>6
    <2> QED BY <1>5, <1>6, <2>1, InsertIs DEF g
  <1> DEFINE r == Put(s, k, t)
  <1>9. /\ r \in Paths /\ Len(r) = Len(s) + 1 /\ ToSet(r) = Listed'
    <2>1. t \in Timers \ ToSet(s)
      BY <1>6
    <2>2. ToSet(s) \union {t} = Listed'
      BY <1>2, <1>6
    <2> QED BY <2>1, <2>2, PutIs
  <1>10. ASSUME NEW x \in Listed
         PROVE  /\ ts[x] \in Stamps /\ left[x] \in Int
                /\ TIMER_VAL_LESS_THAN_VAL(v, ts[x]) <=> d <= left[x]
    <2>1. ts[x] \in Stamps /\ tsc \in Stamps /\ left[x] \in Int
      BY <1>2 DEF ListTypeOK
    <2>2. After(ts[x], tsc, left[x]) /\ -MaxBlock <= left[x] /\ left[x] + MaxBlock < HalfW
      BY DEF ListInv, Timed
    <2>3. d \in Int /\ -HalfW <= d - left[x] /\ d - left[x] < HalfW
      BY <1>3, <2>1, <2>2
    <2> QED BY <1>4, <2>1, <2>2, <2>3, EarlierIs
  <1>11. Ascending(left', r)
    <2>1. t \in Timers \ ToSet(s) /\ d \in Int /\ left \in [Timers -> Int]
      BY <1>2, <1>3, <1>6 DEF ListTypeOK
    <2>2. \A j \in 1..Len(s) : s[j] \in Listed
      BY <1>6, <1>7
    <2>3. \A j \in 1..Len(s) : j < k => left[s[j]] <= d
      <3> TAKE j \in 1..Len(s)
      <3> HAVE j < k
      <3>1. ~(d <= left[s[j]]) /\ left[s[j]] \in Int
        BY <1>8, <1>10, <2>2
      <3> QED BY <2>1, <3>1
    <2>4. k <= Len(s) => d <= left[s[k]]
      <3> HAVE k <= Len(s)
      <3>1. k \in 1..Len(s)
        BY <1>7
      <3> QED BY <1>8, <1>10, <2>2, <3>1
    <2> QED BY <1>1, <1>6, <2>1, <2>3, <2>4, PutOrder
  <1>12. Chained'
    BY <1>1, <1>8, <1>9, <1>11 DEF Chained
  <1>13. ~fatal'
    BY <1>1, <1>5
  <1>14. ListTypeOK'
    <2>1. timer_target' \in Stamps /\ heap' \in Heaps
      BY <1>1, <1>2, <1>4, <1>8 DEF ListTypeOK
    <2>2. ts' \in [Timers -> Stamps] /\ left' \in [Timers -> Int]
      BY <1>1, <1>2, <1>3, <1>4 DEF ListTypeOK
    <2> QED BY <1>1, <1>2, <2>1, <2>2 DEF ListTypeOK
  <1>15. Unlinked'
    <2> SUFFICES ASSUME NEW x \in added' \ enabled' PROVE heap'.next[x] = Null /\ heap'.prev[x] = Null
      BY DEF Unlinked
    <2>1. x \in added \ enabled /\ x \in Timers \ (Listed \union {t})
      BY <1>1, <1>2 DEF Listed, ListTypeOK
    <2>2. x \in Timers \ (ToSet(s) \union {t})
      BY <1>6, <2>1
    <2> QED BY <1>1, <1>5, <1>8, <2>1, <2>2 DEF ListInv, Unlinked
  <1>16. /\ ts'[t] = v /\ left'[t] = d
         /\ \A x \in Listed : x # t => ts'[x] = ts[x] /\ left'[x] = left[x]
    BY <1>1, <1>2 DEF ListTypeOK
  <1>17. Timed'
    <2> SUFFICES ASSUME NEW x \in Listed'
                 PROVE  /\ After(ts'[x], tsc', left'[x])
                        /\ -MaxBlock <= left'[x] /\ left'[x] + MaxBlock < HalfW
                        /\ pc' = "cpu" => left'[x] >= 0
      BY DEF Timed
    <2>1. CASE x = t
      <3>1. -MaxBlock <= d /\ d >= 0
        BY <1>3
      <3> QED BY <1>1, <1>3, <1>4, <1>16, <2>1, <3>1
    <2>2. CASE x # t
      <3>1. x \in Listed
        BY <1>2, <2>2
      <3> QED BY <1>1, <1>16, <2>2, <3>1 DEF ListInv, Timed
    <2> QED BY <2>1, <2>2
  <1>18. TargetFirst'
    <2>1. /\ 1 \in 1..Len(r) /\ g.head = r[1] /\ g.head \in Listed'
          /\ \A x \in Listed' : left'[g.head] <= left'[x]
      <3>1. Len(r) \in Nat /\ Len(r) # 0 /\ Listed' = {r[i] : i \in 1..Len(r)}
        BY <1>7, <1>9, PathIs
      <3>2. 1 \in 1..Len(r) /\ g.head = r[1]
        BY <1>8, <1>9, <3>1, LinksIs
      <3>3. ASSUME NEW x \in Listed' PROVE left'[r[1]] <= left'[x]
        <4>1. PICK j \in 1..Len(r) : x = r[j]
          BY <3>1
        <4>2. 1 <= j
          BY <3>1
        <4> QED BY <1>11, <3>2, <4>1, <4>2 DEF Ascending
      <3> HIDE DEF r
      <3> QED BY <3>1, <3>2, <3>3
    <2>2. CASE g.head = t
      <3>1. timer_target' = v /\ d \in (-MaxBlock)..HalfW /\ d >= 0
        BY <1>1, <1>3, <2>2
      <3>2. \A x \in Listed' : d <= left'[x]
        BY <1>16, <2>1, <2>2
      <3> QED BY <1>1, <1>4, <3>1, <3>2 DEF TargetFirst
    <2>3. CASE g.head # t
      <3>1. g.head \in Listed /\ left'[g.head] = left[g.head] /\ timer_target' = timer_target
        BY <1>1, <1>2, <1>16, <2>1, <2>3
      <3>2. PICK x \in (-MaxBlock)..HalfW : /\ After(timer_target, tsc, x)
                                            /\ pc = "cpu" => x >= 0
                                            /\ \A y \in Listed : x <= left[y]
        BY <3>1 DEF ListInv, TargetFirst
      <3>3. \A y \in Listed' : x <= left'[y]
        <4> TAKE y \in Listed'
        <4>1. left'[y] \in Int /\ left'[g.head] \in Int /\ x \in Int
          BY <1>2, <1>3, <1>14, <2>1, <3>1 DEF ListTypeOK
        <4>2. x <= left'[g.head] /\ left'[g.head] <= left'[y]
          BY <2>1, <3>1, <3>2
        <4> QED BY <4>1, <4>2
      <3> QED BY <1>1, <3>1, <3>2, <3>3 DEF TargetFirst
    <2> QED BY <2>2, <2>3
  <1> QED BY <1>1, <1>12, <1>13, <1>14, <1>15, <1>17, <1>18 DEF ListInv

LEMMA ListNextInv == ListInv /\ [ListNext]_listVars => ListInv'
  <1> SUFFICES ASSUME ListInv, [ListNext]_listVars PROVE ListInv'
    OBVIOUS
  <1>1. ASSUME NEW t \in Timers, NEW d \in Delays, timer_set_delay_u64(t, d) PROVE ListInv'
    BY <1>1, SetDelayInv
  <1>2. ASSUME NEW t \in Timers, timer_disable(t) PROVE ListInv'
    BY <1>2, DisableInv
  <1>3. ASSUME NEW t \in Timers, timer_add(t) PROVE ListInv'
    BY <1>3, AddInv
  <1>4. ASSUME NEW new \in NewTsc, timer_set_new_tsc(new) PROVE ListInv'
    BY <1>4, NewTscInv
  <1>5. ASSUME NEW n \in 1..MaxBlock, Execute(n) PROVE ListInv'
    BY <1>5, ExecuteInv
  <1>6. CASE ProcessHead
    BY <1>6, ProcessHeadInv
  <1>7. CASE ProcessEnd
    BY <1>7, ProcessEndInv
  <1>8. CASE timer_close
    BY <1>8, CloseInv
  <1>9. CASE timer_init
    BY <1>9, TimerInitInv
  <1>10. CASE UNCHANGED listVars
    BY <1>10 DEF listVars, ListInv, ListTypeOK, Unlinked, Timed, TargetFirst, Chained, Listed
  <1> QED BY <1>1, <1>2, <1>3, <1>4, <1>5, <1>6, <1>7, <1>8, <1>9, <1>10 DEF ListNext

LEMMA ListInvariance == ListSpec => []ListInv
  BY ListInitInv, ListNextInv, PTL DEF ListSpec

(* The pointers of timer.c are one doubly linked list of the enabled timers, *)
(* for any number of timers and any order of the operations, the pointers    *)
(* that timer_close leaves behind included; no fatal() is reached.           *)
THEOREM LinksCorrect == ListSpec => []WellLinked
  <1>1. ListInv => WellLinked
    BY DEF ListInv, Chained, WellLinked
  <1> QED BY <1>1, ListInvariance, PTL

(* The list is in the order of the true deadlines and timer_target is not    *)
(* late, although timestamps wrap and the guest writes the TSC, as long as   *)
(* no delay reaches half the range of a timestamp.                           *)
THEOREM DeadlinesCorrect == ListSpec => []DeadlinesSurviveWrap
  <1>1. ASSUME ListInv PROVE DeadlinesSurviveWrap
    <2>1. ListTypeOK /\ Listed \subseteq Timers
      BY <1>1 DEF ListInv, ListTypeOK, Listed
    <2>2. /\ W \in Nat \ {0} /\ HalfW \in Nat /\ W = 2 * HalfW /\ MaxBlock \in Nat /\ MaxBlock < HalfW
      BY ListSizes
    <2>3. ASSUME NEW t \in Listed
          PROVE  /\ Signed(ts[t] - tsc) = left[t] /\ ts[t] \in Stamps /\ left[t] \in Int
                 /\ After(ts[t], tsc, left[t]) /\ -MaxBlock <= left[t] /\ left[t] + MaxBlock < HalfW
      <3>1. ts[t] \in Stamps /\ tsc \in Stamps /\ left[t] \in Int
        BY <2>1 DEF ListTypeOK
      <3>2. After(ts[t], tsc, left[t]) /\ -MaxBlock <= left[t] /\ left[t] + MaxBlock < HalfW
        BY <1>1 DEF ListInv, Timed
      <3>3. -HalfW <= left[t] /\ left[t] < HalfW
        BY <2>2, <3>1, <3>2
      <3> QED BY <3>1, <3>2, <3>3, SignedIs
    <2>4. PICK s \in Paths : s = Chain /\ Links(heap, s) /\ ToSet(s) = Listed /\ Ascending(left, s)
      BY <1>1, ChainIs
    <2>5. /\ Len(s) \in Nat /\ Listed = {s[i] : i \in 1..Len(s)} /\ (s = <<>> <=> Len(s) = 0)
          /\ s \in Seq(Timers)
      BY <2>4, PathIs
    <2>6. \A i \in 1..(Len(s) - 1) : left[s[i]] <= left[s[i + 1]]
      <3> TAKE i \in 1..(Len(s) - 1)
      <3>1. i \in 1..Len(s) /\ i + 1 \in 1..Len(s) /\ i <= i + 1
        BY <2>5
      <3> QED BY <2>4, <3>1 DEF Ascending
    <2>7. ASSUME s # <<>> PROVE TIMER_VAL_LESS_THAN_VAL(timer_target, ts[Head(s)])
      <3> DEFINE b == s[1]
      <3>1. Head(s) = b /\ b \in Listed
        BY <2>5, <2>7
      <3>2. PICK x \in (-MaxBlock)..HalfW : After(timer_target, tsc, x) /\ x <= left[b]
        BY <1>1, <3>1 DEF ListInv, TargetFirst
      <3> HIDE DEF b
      <3>3. left[b] \in Int /\ ts[b] \in Stamps /\ After(ts[b], tsc, left[b]) /\ left[b] + MaxBlock < HalfW
        BY <2>3, <3>1
      <3>4. x \in Int /\ -HalfW <= x - left[b] /\ x - left[b] < HalfW
        BY <2>2, <3>2, <3>3
      <3>5. timer_target \in Stamps /\ tsc \in Stamps
        BY <2>1 DEF ListTypeOK
      <3>6. TIMER_VAL_LESS_THAN_VAL(timer_target, ts[b])
        BY <3>2, <3>3, <3>4, <3>5, EarlierIs
      <3> QED BY <3>1, <3>6
    <2> QED BY <2>3, <2>4, <2>6, <2>7 DEF DeadlinesSurviveWrap
  <1> QED BY <1>1, ListInvariance, PTL
=============================================================================
