--------------------------- MODULE PauseHandshake ---------------------------
(***************************************************************************)
(* Pausing the emulation: the user-interface thread asks (do_pause), the   *)
(* emulation thread acknowledges (ack_pause) between two quanta of guest   *)
(* code, and a hard reset is requested by the one and carried out by the   *)
(* other (86box.c, with the main loops of qt/qt_main.cpp and               *)
(* unix/sdl_main.c).  The flags are plain or atomic ints with no lock, so  *)
(* every load and store is a step.  Guest code runs under the blit mutex,  *)
(* which the user interface also takes (startblit, endblit).               *)
(***************************************************************************)

CONSTANTS Qt,        \* TRUE: the loop of qt_main.cpp; FALSE: that of sdl_main.c
          Suspends,  \* may the guest suspend the machine (ACPI)?
          Warnings   \* may guest code call warning()?

ASSUME PauseAssumption == {Qt, Suspends, Warnings} \subseteq BOOLEAN

VARIABLES
  dopause,             \* the emulation is to be paused
  do_pause_ack,        \* an acknowledgement is asked for
  pause_ack,           \* it was given
  hard_reset_pending,
  blitmx,              \* the holder of the blit mutex, or "free"
  ui, p, old_p,        \* the user-interface thread and its locals in do_pause
  cpu, why,            \* the emulation thread and why it calls do_pause itself
  message              \* a message box is asked for and not yet closed

pauseVars == <<dopause, do_pause_ack, pause_ack, hard_reset_pending, blitmx,
          ui, p, old_p, cpu, why, message>>
pauseFlags == <<dopause, do_pause_ack, pause_ack>>
uiVars == <<ui, p, old_p>>
cpuVars == <<cpu, why>>

PauseTypeOK ==
  /\ dopause \in BOOLEAN /\ do_pause_ack \in BOOLEAN /\ pause_ack \in BOOLEAN
  /\ hard_reset_pending \in BOOLEAN /\ message \in BOOLEAN
  /\ blitmx \in {"free", "ui", "cpu"}
  /\ ui \in {"events", "enter", "ask", "set", "wait", "clear", "startblit", "blit"}
  /\ p \in BOOLEAN /\ old_p \in BOOLEAN
  /\ cpu \in {"loop", "startblit", "exec", "ack", "acked", "endblit", "store", "clear", "msgbox"}
  /\ why \in {"suspend", "warn", "warned"}

-----------------------------------------------------------------------------
(* The user-interface thread. *)

(* plat_pause returns early when nothing changes. *)
plat_pause(v) ==
  /\ ui = "events"
  /\ v # dopause
  /\ ui' = "enter" /\ p' = v
  /\ UNCHANGED <<pauseFlags, hard_reset_pending, blitmx, old_p, cpuVars, message>>

(* do_pause reads dopause again. *)
DoPauseEnter ==
  /\ ui = "enter" /\ ui' = "ask"
  /\ old_p' = dopause
  /\ UNCHANGED <<pauseFlags, hard_reset_pending, blitmx, p, cpuVars, message>>

Waits == p /\ ~old_p

DoPauseAsk ==
  /\ ui = "ask"
  /\ do_pause_ack' = (do_pause_ack \/ Waits)
  /\ ui' = "set"
  /\ UNCHANGED <<dopause, pause_ack, hard_reset_pending, blitmx, p, old_p, cpuVars, message>>

DoPauseSet ==
  /\ ui = "set"
  /\ dopause' = p
  /\ ui' = IF Waits THEN "wait" ELSE "clear"
  /\ UNCHANGED <<do_pause_ack, pause_ack, hard_reset_pending, blitmx, p, old_p, cpuVars, message>>

DoPauseWait ==
  /\ ui = "wait"
  /\ pause_ack
  /\ ui' = "clear"
  /\ UNCHANGED <<pauseFlags, hard_reset_pending, blitmx, p, old_p, cpuVars, message>>

(* A plausible slip: the acknowledgement is not taken back. *)
AckKept == pause_ack
AckCleared == FALSE

DoPauseClear ==
  /\ ui = "clear"
  /\ pause_ack' = AckCleared
  /\ ui' = "events"
  /\ UNCHANGED <<dopause, do_pause_ack, hard_reset_pending, blitmx, p, old_p, cpuVars, message>>

pc_reset_hard ==
  /\ ui = "events"
  /\ hard_reset_pending' = TRUE
  /\ UNCHANGED <<pauseFlags, blitmx, uiVars, cpuVars, message>>

Startblit ==
  /\ ui = "events" /\ ui' = "startblit"
  /\ UNCHANGED <<pauseFlags, hard_reset_pending, blitmx, p, old_p, cpuVars, message>>

LockFree == blitmx = "free"

StartblitLocked ==
  /\ ui = "startblit" /\ ui' = "blit"
  /\ LockFree /\ blitmx' = "ui"
  /\ UNCHANGED <<pauseFlags, hard_reset_pending, p, old_p, cpuVars, message>>

Endblit ==
  /\ ui = "blit" /\ ui' = "events"
  /\ blitmx' = "free"
  /\ UNCHANGED <<pauseFlags, hard_reset_pending, p, old_p, cpuVars, message>>

(* showMessage_: the event loop runs the box until the user closes it. *)
MessageClosed ==
  /\ ui = "events"
  /\ message
  /\ message' = FALSE
  /\ UNCHANGED <<pauseFlags, hard_reset_pending, blitmx, uiVars, cpuVars>>

-----------------------------------------------------------------------------
(* The emulation thread. *)

(* A plausible slip: only the time is looked at. *)
MayRunAlways == TRUE
MayRun == ~dopause

(* A quantum is due and the pause flag is clear: pc_run. *)
RunQuantum ==
  /\ cpu = "loop" /\ MayRun
  /\ hard_reset_pending' = FALSE
  /\ cpu' = "startblit"
  /\ UNCHANGED <<pauseFlags, blitmx, uiVars, why, message>>

(* A plausible slip: an idle loop does not look at the requests. *)
IdleIgnores == FALSE
IdleAcks == Qt
IdleResets == Qt

(* Otherwise the loop idles: the Qt loop also carries out a reset and       *)
(* acknowledges a pause, the SDL loop does neither.                         *)
Idle ==
  /\ cpu = "loop"
  /\ hard_reset_pending' = (hard_reset_pending /\ ~IdleResets)
  /\ cpu' = IF IdleAcks /\ dopause THEN "ack" ELSE "loop"
  /\ UNCHANGED <<pauseFlags, blitmx, uiVars, why, message>>

QuantumStarts ==
  /\ cpu = "startblit" /\ cpu' = "exec"
  /\ LockFree /\ blitmx' = "cpu"
  /\ UNCHANGED <<pauseFlags, hard_reset_pending, uiVars, why, message>>

QuantumEnds ==
  /\ cpu = "exec" /\ cpu' = "ack"
  /\ UNCHANGED <<pauseFlags, hard_reset_pending, blitmx, uiVars, why, message>>

AfterAck == IF blitmx = "cpu" THEN "endblit" ELSE "loop"

(* ack_pause: load, then two stores. *)
AckPause ==
  /\ cpu = "ack"
  /\ do_pause_ack' = FALSE
  /\ cpu' = IF do_pause_ack THEN "acked" ELSE AfterAck
  /\ UNCHANGED <<dopause, pause_ack, hard_reset_pending, blitmx, uiVars, why, message>>

AckGiven ==
  /\ cpu = "acked"
  /\ pause_ack' = TRUE
  /\ cpu' = AfterAck
  /\ UNCHANGED <<dopause, do_pause_ack, hard_reset_pending, blitmx, uiVars, why, message>>

QuantumUnlocks ==
  /\ cpu = "endblit" /\ cpu' = "loop"
  /\ blitmx' = "free"
  /\ UNCHANGED <<pauseFlags, hard_reset_pending, uiVars, why, message>>

(* The guest suspends itself: plat_pause(2), which does nothing when paused *)
(* already; or a device calls warning(): do_pause(2).                        *)
Suspend ==
  /\ Suspends
  /\ cpu = "exec" /\ ~dopause
  /\ cpu' = "store" /\ why' = "suspend"
  /\ UNCHANGED <<pauseFlags, hard_reset_pending, blitmx, uiVars, message>>

Warn ==
  /\ Warnings
  /\ cpu = "exec"
  /\ cpu' = "store" /\ why' = "warn"
  /\ UNCHANGED <<pauseFlags, hard_reset_pending, blitmx, uiVars, message>>

(* do_pause(2) or, after the message, do_pause(0): neither waits. *)
CpuDoPause ==
  /\ cpu = "store" /\ cpu' = "clear"
  /\ dopause' = (why # "warned")
  /\ UNCHANGED <<do_pause_ack, pause_ack, hard_reset_pending, blitmx, uiVars, why, message>>

CpuClear ==
  /\ cpu = "clear"
  /\ pause_ack' = FALSE
  /\ cpu' = IF why = "warn" THEN "msgbox" ELSE "exec"
  /\ message' = (why = "warn")
  /\ UNCHANGED <<dopause, do_pause_ack, hard_reset_pending, blitmx, uiVars, why>>

(* ui_msgbox waits until the user interface has shown the message. *)
MessageShown ==
  /\ cpu = "msgbox" /\ ~message
  /\ cpu' = "store" /\ why' = "warned"
  /\ UNCHANGED <<pauseFlags, hard_reset_pending, blitmx, uiVars, message>>

-----------------------------------------------------------------------------
PauseInit ==
  /\ dopause = FALSE /\ do_pause_ack = FALSE /\ pause_ack = FALSE
  /\ hard_reset_pending = FALSE /\ blitmx = "free"
  /\ ui = "events" /\ p = FALSE /\ old_p = FALSE
  /\ cpu = "loop" /\ why = "suspend"
  /\ message = FALSE

UiStep == \/ DoPauseEnter \/ DoPauseAsk \/ DoPauseSet \/ DoPauseWait \/ DoPauseClear
          \/ StartblitLocked \/ Endblit \/ MessageClosed
CpuStep == \/ RunQuantum \/ Idle \/ QuantumStarts \/ QuantumEnds \/ AckPause \/ AckGiven
           \/ QuantumUnlocks \/ CpuDoPause \/ CpuClear \/ MessageShown

PauseNext == \/ UiStep \/ CpuStep
        \/ \E v \in BOOLEAN : plat_pause(v)
        \/ pc_reset_hard \/ Startblit \/ Suspend \/ Warn

(* Both threads run; the mutex goes to a thread that waits for it again and *)
(* again; a quantum ends.  The user need not do anything but close a box.   *)
PauseSpec ==
  /\ PauseInit /\ [][PauseNext]_pauseVars
  /\ WF_pauseVars(UiStep) /\ WF_pauseVars(CpuStep)
  /\ SF_pauseVars(QuantumEnds) /\ SF_pauseVars(QuantumStarts) /\ SF_pauseVars(MessageClosed)

-----------------------------------------------------------------------------
(* Guest code, the acknowledgement after it and what it calls run under the *)
(* blit mutex, and never while the user interface holds it.                 *)
GuestRunsLocked ==
  /\ blitmx = "ui" <=> ui = "blit"
  /\ cpu \in {"exec", "endblit", "store", "clear", "msgbox"} => blitmx = "cpu"
  /\ cpu \in {"loop", "startblit"} => blitmx # "cpu"

(* Every pause is acknowledged for itself: when do_pause is about to ask,   *)
(* no acknowledgement of an earlier pause is left, although the emulation   *)
(* thread writes the same flags in its own do_pause calls.                  *)
NoStaleAck == ui = "ask" => ~pause_ack /\ ~do_pause_ack

(* What every state of the handshake satisfies, whoever pauses: the guest   *)
(* runs locked and no acknowledgement is left over.                         *)
HandshakeInv == PauseTypeOK /\ GuestRunsLocked /\ NoStaleAck

(* The guest neither suspends the machine nor raises a warning: only the   *)
(* user pauses.                                                             *)
OnlyUserPauses == [](cpu # "store")

(* As long as only the user pauses, do_pause(1) does not spin for ever,     *)
(* wherever the emulation thread was, and a hard reset is carried out, also *)
(* when the machine is or gets paused.                                      *)
RequestsServed ==
  OnlyUserPauses => /\ ui = "wait" ~> ui # "wait"
                    /\ hard_reset_pending ~> ~hard_reset_pending

(* A pause that lasts stops the guest for good.                             *)
PauseStops == <>[]dopause => <>[](cpu # "exec")
=============================================================================
