---------------------------- MODULE BlitHandshake ----------------------------
(***************************************************************************)
(* Handing a drawn frame to the host window (video/video.c).  A video card *)
(* draws into the target buffer on the emulation thread, after             *)
(* video_wait_for_buffer, and posts the frame with video_blit_memtoscreen; *)
(* the monitor's blit thread copies it.  The threads share two flags       *)
(* without a lock and three manual-reset events, so every load and store   *)
(* of a flag and every operation on an event is a step.                    *)
(***************************************************************************)
EXTENDS Naturals

(* Frames are told apart modulo FRAMES: at most one is on its way.          *)
CONSTANT FRAMES
ASSUME BlitAssumption == FRAMES \in Nat /\ FRAMES > 1

VARIABLES
  busy, buffer_in_use, thread_run,                   \* blit_data_t
  wake_blit_thread, blit_complete, buffer_not_in_use,  \* its events: set?
  blit_func,         \* is a renderer registered?
  frame,             \* the frame that x, y, w and h describe
  emu,               \* the emulation thread
  blit,              \* the blit thread
  closer,            \* the thread that closes the monitor
  taken              \* history: the last frame the blit thread took

blitVars == <<busy, buffer_in_use, thread_run, wake_blit_thread, blit_complete,
          buffer_not_in_use, blit_func, frame, emu, blit, closer, taken>>
events == <<wake_blit_thread, blit_complete, buffer_not_in_use>>
flags == <<busy, buffer_in_use, thread_run>>

Frames == 0 .. FRAMES - 1
NextFrame(f) == (f + 1) % FRAMES

BlitTypeOK ==
  /\ {busy, buffer_in_use, thread_run, blit_func} \subseteq BOOLEAN
  /\ {wake_blit_thread, blit_complete, buffer_not_in_use} \subseteq BOOLEAN
  /\ frame \in Frames /\ taken \in Frames
  /\ emu \in {"idle", "buffer?", "buffer", "buffer ok", "draw", "blit?", "blit", "blit ok",
              "busy", "use", "frame", "wake"}
  /\ blit \in {"run?", "sleep", "awake", "call", "copy", "release", "released", "done",
               "notify", "ended"}
  /\ closer \in {"open", "stop", "wake", "join", "closed"}

-----------------------------------------------------------------------------
(* The emulation thread, which runs until the monitor is being closed. *)
Emu(from, to) == closer = "open" /\ emu = from /\ emu' = to

(* A card reaches the first line of a frame. *)
FrameStarts ==
  /\ Emu("idle", "buffer?")
  /\ UNCHANGED <<flags, events, blit_func, frame, blit, closer, taken>>

(* video_wait_for_buffer_monitor: a loop on the flag around a wait.         *)
BufferTested ==
  /\ Emu("buffer?", IF buffer_in_use THEN "buffer" ELSE "buffer ok")
  /\ UNCHANGED <<flags, events, blit_func, frame, blit, closer, taken>>

(* A plausible slip: the flag is tested once, not again after the wait. *)
TestedOnce == "buffer ok"
TestedAgain == "buffer?"

BufferWaited ==
  /\ Emu("buffer", TestedAgain)
  /\ buffer_not_in_use
  /\ UNCHANGED <<flags, events, blit_func, frame, blit, closer, taken>>

BufferMine ==
  /\ Emu("buffer ok", "draw")
  /\ buffer_not_in_use' = FALSE
  /\ UNCHANGED <<flags, wake_blit_thread, blit_complete, blit_func, frame, blit, closer, taken>>

(* The frame is drawn: nothing to show (w or h is not positive, or the card *)
(* saw no change), or video_blit_memtoscreen_monitor, which first waits.    *)
FrameDrawn ==
  /\ Emu("draw", "idle") \/ Emu("draw", "blit?")
  /\ UNCHANGED <<flags, events, blit_func, frame, blit, closer, taken>>

BusyTested == IF busy THEN "blit" ELSE "blit ok"

BlitTested ==
  /\ Emu("blit?", BusyTested)
  /\ UNCHANGED <<flags, events, blit_func, frame, blit, closer, taken>>

BlitWaited ==
  /\ Emu("blit", "blit?")
  /\ blit_complete
  /\ UNCHANGED <<flags, events, blit_func, frame, blit, closer, taken>>

BlitMine ==
  /\ Emu("blit ok", "busy")
  /\ blit_complete' = FALSE
  /\ UNCHANGED <<flags, wake_blit_thread, buffer_not_in_use, blit_func, frame, blit, closer, taken>>

PostBusy ==
  /\ Emu("busy", "use")
  /\ busy' = TRUE
  /\ UNCHANGED <<buffer_in_use, thread_run, events, blit_func, frame, blit, closer, taken>>

PostInUse ==
  /\ Emu("use", "frame")
  /\ buffer_in_use' = TRUE
  /\ UNCHANGED <<busy, thread_run, events, blit_func, frame, blit, closer, taken>>

PostFrame ==
  /\ Emu("frame", "wake")
  /\ frame' = NextFrame(frame)
  /\ UNCHANGED <<flags, events, blit_func, blit, closer, taken>>

(* A plausible slip: the event is set only when the thread sleeps already. *)
WakesSleeper == blit = "sleep"
Wakes == TRUE

PostWake ==
  /\ Emu("wake", "idle")
  /\ wake_blit_thread' = (wake_blit_thread \/ Wakes)
  /\ UNCHANGED <<flags, blit_complete, buffer_not_in_use, blit_func, frame, blit, closer, taken>>

-----------------------------------------------------------------------------
(* The blit thread. *)
Blit(from, to) == blit = from /\ blit' = to

ThreadTest ==
  /\ Blit("run?", IF thread_run THEN "sleep" ELSE "ended")
  /\ UNCHANGED <<flags, events, blit_func, frame, emu, closer, taken>>

ThreadWoken ==
  /\ Blit("sleep", "awake")
  /\ wake_blit_thread
  /\ UNCHANGED <<flags, events, blit_func, frame, emu, closer, taken>>

(* A plausible slip: the event is taken for an auto-reset one. *)
WakeKept == wake_blit_thread
WakeReset == FALSE

ThreadReset ==
  /\ Blit("awake", "call")
  /\ wake_blit_thread' = WakeReset
  /\ UNCHANGED <<flags, blit_complete, buffer_not_in_use, blit_func, frame, emu, closer, taken>>

(* A plausible slip: a renderer that drops the frame just returns. *)
DropsSilently == "done"
DropsFrame == "release"

(* blit_func, if there is one: it copies the frame, or drops it (a bad      *)
(* rectangle, a renderer being switched, no free image); both complete.     *)
BlitFunc ==
  /\ \/ blit_func /\ Blit("call", "copy")
     \/ blit_func /\ Blit("call", DropsFrame)
     \/ ~blit_func /\ Blit("call", "done")
  /\ taken' = frame
  /\ UNCHANGED <<flags, events, blit_func, frame, emu, closer>>

Copied ==
  /\ Blit("copy", "release")
  /\ UNCHANGED <<flags, events, blit_func, frame, emu, closer, taken>>

(* video_blit_complete_monitor, called by the renderer. *)
BufferReleased ==
  /\ Blit("release", "released")
  /\ buffer_in_use' = FALSE
  /\ UNCHANGED <<busy, thread_run, events, blit_func, frame, emu, closer, taken>>

BufferNotified ==
  /\ Blit("released", "done")
  /\ buffer_not_in_use' = TRUE
  /\ UNCHANGED <<flags, wake_blit_thread, blit_complete, blit_func, frame, emu, closer, taken>>

ThreadDone ==
  /\ Blit("done", "notify")
  /\ busy' = FALSE
  /\ UNCHANGED <<buffer_in_use, thread_run, events, blit_func, frame, emu, closer, taken>>

ThreadNotifies ==
  /\ Blit("notify", "run?")
  /\ blit_complete' = TRUE
  /\ UNCHANGED <<flags, wake_blit_thread, buffer_not_in_use, blit_func, frame, emu, closer, taken>>

-----------------------------------------------------------------------------
(* Closing.  The closing thread has the blit mutex (pc_close), so that the  *)
(* emulation thread is between two quanta: in no wait and not posting.  The *)
(* SDL renderer unregisters itself first, the Qt one does not.              *)
CloseStarts ==
  /\ closer = "open" /\ closer' = "stop"
  /\ emu \in {"idle", "draw"}
  /\ blit_func' \in {blit_func, FALSE}
  /\ UNCHANGED <<flags, events, frame, emu, blit, taken>>

(* video_monitor_close *)
CloseStops ==
  /\ closer = "stop" /\ closer' = "wake"
  /\ thread_run' = FALSE
  /\ UNCHANGED <<busy, buffer_in_use, events, blit_func, frame, emu, blit, taken>>

(* A plausible slip: the sleeping thread is not woken. *)
CloseSilent == wake_blit_thread
CloseWakes == TRUE

CloseWake ==
  /\ closer = "wake" /\ closer' = "join"
  /\ wake_blit_thread' = CloseWakes
  /\ UNCHANGED <<flags, blit_complete, buffer_not_in_use, blit_func, frame, emu, blit, taken>>

(* thread_wait; then the events and the structure are freed. *)
CloseJoined ==
  /\ closer = "join" /\ closer' = "closed"
  /\ blit = "ended"
  /\ UNCHANGED <<flags, events, blit_func, frame, emu, blit, taken>>

-----------------------------------------------------------------------------
(* video_monitor_init, with a renderer registered. *)
BlitInit ==
  /\ busy = FALSE /\ buffer_in_use = FALSE /\ thread_run = TRUE
  /\ wake_blit_thread = FALSE /\ blit_complete = FALSE /\ buffer_not_in_use = FALSE
  /\ blit_func = TRUE
  /\ frame = 0 /\ taken = 0
  /\ emu = "idle" /\ blit = "run?" /\ closer = "open"

EmuStep == \/ BufferTested \/ BufferWaited \/ BufferMine \/ FrameDrawn \/ BlitTested
           \/ BlitWaited \/ BlitMine \/ PostBusy \/ PostInUse \/ PostFrame \/ PostWake
BlitStep == \/ ThreadTest \/ ThreadWoken \/ ThreadReset \/ BlitFunc \/ Copied
            \/ BufferReleased \/ BufferNotified \/ ThreadDone \/ ThreadNotifies
CloseStep == CloseStops \/ CloseWake \/ CloseJoined

BlitNext == FrameStarts \/ EmuStep \/ BlitStep \/ CloseStarts \/ CloseStep

(* Every thread runs; a card need not start a frame, nor the user close.    *)
BlitSpec ==
  /\ BlitInit /\ [][BlitNext]_blitVars
  /\ WF_blitVars(EmuStep) /\ WF_blitVars(BlitStep) /\ WF_blitVars(CloseStep)

-----------------------------------------------------------------------------
(* No tearing: while a card draws a frame the blit thread copies none,      *)
(* although the card does not wait for the last blit itself to end.         *)
NoTearing == BlitTypeOK /\ (emu = "draw" /\ closer = "open" => blit # "copy")

(* The blit thread takes the frames one by one in the order in which they   *)
(* were posted; only the wake-up of a closing monitor may repeat the last.  *)
FramesInOrder ==
  [][blit = "call" /\ blit' # "call" /\ thread_run => frame = NextFrame(taken)]_blitVars

(* Whoever waits is heard: while the emulation thread waits for the buffer  *)
(* or for the last blit and the event is not set, the blit thread is still  *)
(* on its way to set it, or woken to be; and it is not joined asleep.       *)
Working == wake_blit_thread \/ blit \in {"awake", "call", "copy", "release", "released"}
BlitHeard ==
  /\ emu = "buffer" => buffer_not_in_use \/ Working
  /\ emu = "blit" => blit_complete \/ Working \/ blit \in {"done", "notify"}
  /\ closer = "join" /\ blit = "sleep" => wake_blit_thread

(* A posted frame is taken, or the monitor is closed.                       *)
FrameTaken == frame # taken ~> (frame = taken \/ closer # "open")

(* The emulation thread never waits for ever, neither for the buffer nor    *)
(* for the last blit: whatever a stale event made it do, it goes on.  And   *)
(* closing a monitor ends, wherever the blit thread was.                    *)
WaitsEnd ==
  /\ emu # "idle" ~> (emu = "idle" \/ closer # "open")
  /\ closer = "stop" ~> closer = "closed"
=============================================================================
