# BluMach in TLA+

BluMach is a preservation-minded fork of 86Box, an emulator of historical PCs
written mostly in C. One emulation thread runs the guest CPU and every emulated
device; a user-interface thread (Qt or SDL) controls it, and helper threads copy
frames to the window, talk to the host network, play sound and render 3D
graphics. This directory models the parts that decide *when* things happen and
*who owns what*: the timer list that drives all devices, the cycle accounting
behind it, the packet rings and threads of the network cards, the pause and reset
handshake between user interface and guest, the hand-over of drawn frames, the
threads of the Voodoo 3D cards, and the interrupt controllers with the PCI lines
that share them.

Paths below are relative to `src/src/` of the repository.

## 1. Inventory

| Component | State it keeps | Operations | Talks to | What is hard |
|---|---|---|---|---|
| Timer list (`timer.c`, `include/86box/timer.h`) | doubly linked list of enabled timers, `timer_target`, per timer: timestamp, fraction, flags, outstanding period | enable, disable, set delay, advance, on_auto, stop, process, close/init on reset, TSC write | every device (callbacks), the CPU (polls `timer_target`) | re-arming inside callbacks, stale target, wrap at 2^64, hard reset with timers still linked, periods served in pieces |
| TSC accounting (`cpu/386_dynarec.c`) | `cycles_old`, `tsc_old`, `cycles`, `tsc` | block start and end, `update_tsc` inside a block | timer list | each cycle counted once though added in pieces, integer widths |
| Packet rings (`network/network.c`) | four rings of packet pointers per card, packets outside the rings | put, put by swap, get by swap, move, clear | card threads | swapped buffers, full/empty at the wrap, freeing once |
| Card threads and SLiRP driver (`network/network.c`, `net_slirp.c`, `net_event.c`) | queues, held-back packet, events, deferred answers, link state | transmit, timer callback, poll loop, close, attach, connect | timer list, libslirp, user interface | lost wake-ups, reordering, closing a running thread |
| Pause and reset (`86box.c`, `qt/qt_main.cpp`, `unix/sdl_main.c`, `qt/qt_platform.cpp`) | `dopause`, `do_pause_ack`, `pause_ack`, `hard_reset_pending`, blit mutex | pause, resume, acknowledge, reset, run a quantum, warning, suspend | user interface and emulation thread | three flags without a lock, two callers, waiting in circles |
| Blit thread (`video/video.c`) | `busy`, `buffer_in_use`, `thread_run`, three manual-reset events, the rectangle | wait for buffer, post frame, copy, complete, close | video cards, renderer | stale events, tearing, closing |
| Interrupt controllers (`pic.c`), PCI routing (`pci.c`) | IRR, ISR, IMR, priority, initialisation state, cached `interrupt` and `int_pending`, `lines[]` per level line, routing | raise, lower, acknowledge, poll, EOI, rotate, mask, initialise, route | every device, CPU | shared level lines, cascade, a cache that every change must refresh, freezing |
| NMI (`nmi.c`), I/O APIC (`ioapic.c`) | masks, redirection table | raise, program | CPU | - |
| PIT (`pit*.c`), DMA (`dma.c`, `ddma.c`), RTC (`nvr*.c`) | counters, modes, masks | ports, timer callbacks, transfers | timers, interrupts | counter boundaries, mode changes in flight |
| I/O and memory maps (`io.c`, `mem/`), devices (`device.c`) | handler lists, mappings, device list | add, remove, call, reset all | everything | handlers removed while the list is walked, reset order |
| Voodoo command FIFO (`video/vid_voodoo_fifo.c`, `vid_voodoo.c`, `vid_voodoo_reg.c`) | FIFO indexes, wake-up timer, `voodoo_busy`, `flush`, `swap_pending`, `swap_count`, events | queue a write, flush, status read, retrace, execute, swap, close | guest, display timer, render threads | lock-free ring, wake-ups by timer, swaps completed from three places, closing |
| Voodoo triangle ring (`vid_voodoo_render.c`, `.h`) | ring, one write and one read index per thread, events, busy flags | queue, draw, wait for idle, close | FIFO thread, render threads | full ring, events that stay set, waking too seldom |
| Voodoo texture cache (`vid_voodoo_texture.c`) | slots with base, texels and reference counts per thread, marked pages | use, search, evict on a write, give back | FIFO thread, render threads | reuse while a thread is behind, missed invalidation |
| Sound (`sound/`) | buffers shared with host threads | write, wake, drain | cards, host | timed waits |
| Disks, floppy, CD-ROM, SCSI, keyboard controllers, ACPI | command state machines | commands, timers, interrupts | timers, interrupts | long command sequences, time-outs |
| CPU cores and recompilers, chipsets, machines, video cards | registers | instructions, register writes | all | data rather than control |
| Configuration, Qt manager and Collection, VNC, gdb stub, printers | files, windows, sockets | - | user | - |

`PROJECT.json` lists all of them as components, with the reason where one is not
modelled, and as *hazards* the places in the code that are hardest to test.

What makes the modelled components correct:

* timers: the list holds exactly the enabled timers in deadline order, the CPU
  never sleeps past a deadline, every due timer fires and none fires early, and
  no call sequence follows a NULL pointer;
* cycles: each executed cycle reaches the TSC exactly once;
* packets: one owner per buffer, FIFO order, nothing delivered twice, nothing
  stranded, everything freed once;
* pause: a pause returns, stops the guest, and every reset happens;
* frames: never drawn and copied at once, each taken once, nobody waits for ever;
* 3D: no triangle overwritten before every thread has drawn it, each drawn with the
  texels of the moment it was queued, every command executed, a flush means
  executed, the swap count never counts a swap that is over;
* interrupts: the processor is handed only what is requested, unmasked and ahead of
  what is in service; a level line is requested exactly while a card holds it; no
  edge is swallowed; service nests.

## 2. Modules

| Module | Models | Kind |
|---|---|---|
| `TimerService` | what devices may rely on: a set of deadlines, due timers fire in order, none early | abstract specification |
| `TimerQueue` | the whole API of `timer.c`/`timer.h` on a sequence: fractions, negative delays, split periods, callbacks, TSC writes, hard reset | component; implements `TimerService` |
| `TimerList` | the same list as `prev`/`next` pointers with wrapping timestamps | component |
| `Tsc` | the time stamp counter, shared by `TimerList` and `BlockClock` | state |
| `BlockClock` | `update_tsc` and the end of a block in the dynamic recompiler | algorithm with state |
| `TimerQueueProofs` | theorems on `TimerQueue` and its refinement of `TimerService` | proofs |
| `NetFifo` | bounded FIFO queues and held packets | abstract specification |
| `NetRing` | rings of buffer pointers, swap by swap | component; implements `NetFifo` |
| `NetRingProofs` | theorems on `NetRing` and its refinement of `NetFifo` | proofs |
| `NetCard` | emulation thread, SLiRP thread and user interface around one card; its queues are those of `NetFifo` | composition |
| `PauseHandshake` | user-interface and emulation thread: pause, reset, blit mutex, suspend, warning | component |
| `BlitHandshake` | drawing, blit and closing thread of one monitor | component |
| `VoodooFifo` | emulation and FIFO thread around the command FIFO, with swaps and retraces | component |
| `VoodooRender` | FIFO and render threads around the triangle ring, waking, idle wait, close | component |
| `VoodooTexture` | the texture cache between FIFO and render threads; uses what `VoodooRender` shows: triangles reach every thread in order, and an idle wait that returns means drawn | component on top of `VoodooRender` |
| `Pic` | the two 8259s of an AT, edge devices, PCI cards on a routed level line, the guest's commands | component |
| `NetCardProofs`, `VoodooFifoProofs`, `VoodooRenderProofs`, `VoodooTextureProofs`, `PicProofs` | theorems on `NetCard`, the three Voodoo modules and `Pic` | proofs |
| `EmulationThreadProofs` | theorems on `BlitHandshake`, `PauseHandshake`, `BlockClock` and `TimerList`, what the emulation thread shares or counts | proofs |
| `MCTimerQueue`, `MCTimerList`, `MCNetRing`, `MCVoodooTexture`, `MCPic` | symmetry sets, views, constraints and small instances for TLC | MC modules |

The other modules have no definition to add for TLC, so their cfg files name them
directly. `EmulationThreadProofs` extends four modules at once, so the specifications of
those are called `BlitSpec`, `PauseSpec`, `BlockSpec` and `ListSpec`. Operators and actions keep the name of the function they model; where
one function is several steps (a lock is taken, a flag is stored, a thread may be
preempted) each step has a name of its own and the map in `PROJECT.json` gives
its lines. Definitions introduced by a comment as a *slip* or *variant* are
plausible bugs: each property is shown to fail under one of them.

### How state and steps correspond to the code

*Timers.* `queue` is the list from `timer_head`; `enabled`, `split`, `in_callback`
and `period` are the fields of `pc_timer_t`. A timestamp is an exact pair of whole
cycles `ts` and a fraction `frac` of `FracMod` parts. A device may call the API at
any time when the CPU runs (an I/O port access) and inside a callback
(`pc = "callback"`). `timer_process` is a loop whose turns are steps because
callbacks run in between; it is never nested in the code. `Permanent` timers are
the ones whose callback always re-arms them: the RTC tick and the sound poll are
added on every machine, so the list is never empty once a machine runs; that is
what keeps the last line of `timer_process` (`timer_head->ts_integer`) safe, and
the theorem `NeverCrashes` rests on it. A hard reset is `timer_close`, the devices'
own closing calls, `timer_init`, and new `timer_add`s, in this order.

*Pointers.* `TimerList` keeps timestamps modulo `W` and models `timer_close` as
written: its loop stops after one timer, so pointers survive a reset, and
`timer_add`ed structures start from them. The loop of `timer_enable` along `next` is
`Walk`: the one sequence of timers without repetition that the pointers from
`timer_head` link; `Successor` is the first of its timers that the loop stops at.

*Cycles.* `BlockClock` keeps the widths apart: the TSC modulo `W`, the `int` cycle
difference modulo `C`, as signed.

*Rings.* A slot is a `netpkt_t`; `data` maps each slot to a buffer, `mem` gives
the buffer's content, and `frees` counts what a close frees. Calls that return 0
change nothing and are no steps.

*Card.* A section under `tx_mutex` or `rx_mutex` is one step. `network_rx_queue` is
split where it takes or releases a lock, calls the card or notifies the driver.
`PIPE` is the capacity of the notification: 1 is the Windows auto-reset event,
more is the pipe. libslirp is external: it takes packets, answers on the spot or
later, in any number. The other host drivers share the transmit side and the
batch of `NET_QUEUE_LEN`.

*Pause.* Each load and store of a flag is a step. `Qt` selects the main loop.
`Suspends` and `Warnings` allow guest code to call `plat_pause(2)` and `warning()`.

*Frames.* Each load and store of a flag and each event operation is a step. The
closing thread owns the blit mutex, so the emulation thread is between two quanta:
perhaps in the middle of a frame, never in a wait. Frames are numbered modulo
`FRAMES` so that the states are finitely many; the run uses 4, more than can be in
flight, and the proofs hold for any number above one.

*Voodoo FIFO.* `q` is the entries between the indexes; its head is being executed
and leaves when `fifo_read_idx` moves past it. Only what the control tells apart
is kept of an entry: a write to memory (queued without a wake-up), a command, a
swap at the retrace, a swap at once. The display and wake-up timers run on the
emulation thread, so not while that thread waits for the FIFO: `Retrace` and
`voodoo_wake_timer` need `emu = "run"`. `odd` is no variable of the code; it lets a
property say that the head has moved on.

*Voodoo ring.* Loads and stores of an index, event or flag that another thread can
see in between are separate steps. Indexes run modulo twice the ring size instead
of 2^32, and a triangle is its index, so that "the right triangle is in the slot"
can be said.

*Voodoo textures.* `owed[c][t]` is `refcount - refcount_r[t]`, as the counts are only
compared. A texture stands for all that the cache is searched by: base address,
levels of detail, palette. `Ranges` gives its address ranges; the pages it covers, the
pages that are marked for it (`Marks`: steps of a page from an unaligned start) and the
pages whose writing evicts it (`Evicts`) are computed from them as the three places of
the code do, and differ. A texture is `Tracked` when every page it covers is both marked
and evicting. A write toggles the content of a page, and each queued triangle carries
the texels the guest meant.

*PIC.* `pic["m"]` and `pic["s"]` are `pic` and `pic2`. Each port access, each
picint/picintc and each `picinterrupt` is one step, since devices and the CPU share
a thread; `update_pending` is a function of the pair. `interrupt & 0x20` is `frozen`.
The guest is careful in two ways, each noted at its action: it reads a poll before it
does anything else, and enables interrupts only when both controllers are
initialised. It may initialise either controller at any time, requesting or not. Cards
and router are not restricted: a card changes its state whether or not the controllers
hear of it (`Reaches`), `lines[]` is counted modulo `LINE_COUNT` (2^32 in the code) and
may wrap, and the pin is rerouted at any time. `counted` is no variable of the code; it
keeps the line each card was counted on, and `Stray` once a change did not match it.

## 3. Runs

| Run | Checks | Result |
|---|---|---|
| `timer_queue` | list = flags, order, target not late, no crash, refinement of `TimerService` | holds |
| `timer_list` | pointers well linked, deadlines in order across the wrap and the target not late | holds |
| `block_clock` | every cycle reaches the TSC once | holds |
| `net_ring` | one owner per buffer, freed once, closed and attached again; refinement of `NetFifo`, with several packets in a ring | holds |
| `net_card` | order both ways, no stranded packet (`QueuesInv`), none forgotten; packets leave, close ends | holds |
| `pause` | mutual exclusion and no stale acknowledgement (`HandshakeInv`), a lasting pause stops the guest, whoever pauses; pauses return and resets happen while only the user pauses | holds |
| `blit` | no tearing, each frame once and in order, no wait without someone to end it (`BlitHeard`), nobody waits for ever, close ends | holds |
| `voodoo_render` | no slot overwritten too early, no wake-up lost, an idle wait means drawn, queueing and closing return, every triangle drawn | holds |
| `voodoo_texture` | right texels in every triangle of a tracked texture, exact counts and page marks, a slot is always found | holds with one or two render threads |
| `voodoo_texture4` | right texels with four render threads | violated: the search compares the counts of two threads |
| `voodoo_fifo` | swap count never ahead, the waiting emulation thread is heard (`WaiterHeard`), a flush means executed, no mutual waiting, every command executed, close ends | holds |
| `pic` | no phantom interrupt, edges kept, service nests; level lines and their counts follow the cards, through initialising, rerouting and changes nobody hears | holds |

The finding in `PROJECT.json` quotes the comment that `voodoo_texture4` disagrees with.

Conditions inside the properties, because the code does not give more:

* `RequestsServed` is conditional on `OnlyUserPauses`: a guest that
  suspends itself runs `do_pause` on the emulation thread and clears `pause_ack`,
  which may be the acknowledgement the user interface is waiting for, and
  `warning()` may block the emulation thread for good. `do_pause(1)` may also return
  one quantum early, since `do_pause_ack` is stored before `dopause`; what holds is
  `PauseStops`.
* `EveryCycleOnce` excepts a block in which the guest writes the TSC: the end of the
  block adds its cycles to the value the TSC had at the start.
* `EveryCommandExecuted` needs a guest that polls the status register or goes on
  using the card: a command queued between the FIFO thread's last look and its
  `voodoo_busy = 0` is not followed by a wake-up of its own.
* When the card is closed, `CardAnswers` of `VoodooFifo` excepts a FIFO thread that waits for a retrace.
* `EdgeKept` excepts the master's line 0 until the slave's ICW3 is written.
* `RightTexture` is about tracked textures. The marks step a page at a time from the
  start of a range and miss its last page when the odd bytes run over one more page
  boundary (`vid_voodoo_texture.c:542`, `:582`): a range of 1365 bytes from offset 0x300
  lies in three pages and marks two. A later write to the third leaves the old texture
  cached, and the code draws it; without the condition the run reports just that, for the
  texture `moss`. `MCVoodooTexture` states which ranges are tracked (`TrackedRanges`,
  evaluated by TLC): all that begin on a page boundary and end within the memory, for instance.
* `NoPhantom` excepts a slave that the guest initialised while it requested and has not
  touched since: ICW1 moves the slave's line to 0 before the refresh (`pic.c:579`), so the
  request on the cascade line stays, and `picinterrupt` corrects it by letting the master
  acknowledge alone.
* `LevelFollowsCards` holds up to the first change of a card that does not match what was
  counted for it. A card that asserts while the master has no ICW3 (`pic.c:754`) and
  releases afterwards takes `lines[]` below 0, where it wraps; one that releases unheard
  leaves the line requested; one whose pin was rerouted (`pci.c:120`) releases another
  line than it asserted. Nothing in the code sets the count right again; without the
  condition the run reports it within a few steps.
* An idle wait is not claimed to end: each of its rounds wakes the threads again.

Known disagreements of the code with its comments that the modules reproduce
without a run of their own (each is a hazard with a note): `timer_close` unlinks only
the first timer (`timer.c:157`); a TSC write in a recompiled block is lost
(`cpu/386_dynarec.c:946`); the SDL main loop never acknowledges a pause requested
between two quanta (`Qt = FALSE` in `PauseHandshake` violates `RequestsServed`); a
`warning()` may wait for a user interface that waits for it (`86box.c:617`). While a
period of more than one second is outstanding, `timer_on_auto` from outside the
callback continues from the old timestamp (`FromNow`).

### Bounds, and why they are enough

* `timer_queue`: two permanent timers and the timer of one device, with or without a
  callback (the constraint `OneDevice` admits either, not both at once), delays 0, 1.5 and a
  negative one, periods below, at and above the longest piece, timestamps up to
  `MaxTs` = 3. The interesting cases (equal deadlines, cancelling the head,
  re-arming oneself and another in a callback, an outstanding piece across a
  reset) need two or three timers and a few cycles. `FracMod` = 2 and
  `TIMER_USEC` = 3 make a microsecond a cycle and a half, so fractions carry.
* `timer_list`: three timers, a TSC modulo 8: half a turn is four, so the sign
  comparison wraps within a few steps and the list has a head, a middle and a tail.
* `block_clock`: 16 and 8 values, so that the TSC wraps and the cycle difference
  reaches its sign.
* `net_ring`: two rings of three slots and one packet outside, so that two packets with
  different contents wait in one ring and could change places, and a buffer travels
  through two rings and back. One length stands for all oversized packets. States that
  differ only in the names of the buffers are one (the view `UpToNames`), and a closed
  card is attached again only when its buffers held all the same (`AttachedAgain`):
  the new ones are blank whatever the old ones held.
* `net_card`: queues of three slots, three packets out and two in, so queues fill,
  packets are refused and notifications merge (`PIPE` = 1).
* `voodoo_render`: two threads, a ring of two, `WAKE_BELOW` = 2 and `SLACK` = 2: the
  ring fills, one thread laps the other by a whole ring, the indexes wrap, and a
  kick is both given and withheld.
* `voodoo_texture`: two pages of four bytes and three textures for two slots: one fills a
  page, one has two ranges in both, one lies across the boundary and is not tracked; a
  ring of three. Slots are reused, evicted and waited for. `voodoo_texture4`: four
  threads and a ring of two.
* `voodoo_fifo`: full at two entries, woken above one, with double and triple
  buffering.
* `pic`: three lines per controller, an edge device on each and two cards whose pin is
  routed to either of the slave's other lines; automatic end and rotation on the master,
  special mask mode on the slave. A higher and a lower line than the cascade and a
  rotation past it exist, and a count of three values wraps after one release too many.
  `OneThingAtATime` keeps apart what multiplies the states: rotated priorities and
  automatic ends, a special mask, a controller being initialised, a pin on line 1 and a
  miscounted card (the last two without edge devices and masks).
* `pause` and `blit` are finite as they are.

Symmetry is used for timers, rings, packet contents and cards, which are told apart only
by identity, and only with invariants and properties of steps. Deadlock checking is off in `blit`,
`voodoo_render` and `voodoo_fifo` (a closed monitor or card stops) and in `pause`,
where a warning may leave both threads waiting.

### Fairness

The timer modules, `NetRing` and `Pic` assume none. `NetCard`: both threads keep taking
steps; the emulation thread re-arms its timer in every callback, and the host
thread only blocks in `poll`, where a signalled event ends the wait. The guest,
the network and the user are never obliged to act. `PauseHandshake`: both threads
run, a quantum ends, a mutex waited for is obtained if it is free again and
again (`endblit` yields for that purpose), and the user closes an open message
box. `BlitHandshake`: the three threads run; no card must start a frame.
`VoodooRender` and `VoodooTexture`: every render thread runs and the FIFO thread
carries on what it has begun, but need not begin anything. `VoodooFifo`: both threads
run; the two timers are strongly fair, as they are enabled only while the emulation
thread is not waiting but then run at their time whatever the guest does; and the guest
polls the status register when it does nothing else.

## 4. Proofs

All theorems hold for every value of the constants that satisfies the assumptions
named in the modules. An invariant is proved from an inductive one, whose parts
are named for what they say; an action property from the same invariant.

| Theorem | States | Module |
|---|---|---|
| `TypeCorrect`, `ListCorrect`, `OrderCorrect`, `TargetCorrect`, `NeverCrashes`, `SplitCorrect` | `TypeOK`, `ListMatchesFlags`, `ListSorted`, `TargetNotLate`, `NoCrash`, `SplitHasPeriod` of `TimerQueue` | `TimerQueueProofs` |
| `ServiceCorrect` | `TimerQueue` implements `TimerService` (`ImplementsService`) | `TimerQueueProofs` |
| `LinksCorrect`, `DeadlinesCorrect` | `WellLinked`, `DeadlinesSurviveWrap` of `TimerList` | `EmulationThreadProofs` |
| `CyclesCorrect` | `EveryCycleOnce` of `BlockClock` | `EmulationThreadProofs` |
| `TypeCorrect`, `OwnershipCorrect`, `FreeCorrect` | `TypeOK`, `OneOwner`, `FreedOnce` of `NetRing` | `NetRingProofs` |
| `RingsAreQueues` | `NetRing` implements `NetFifo` (`ImplementsFifo`) | `NetRingProofs` |
| `QueuesCorrect`, `RxKeptCorrect` | `QueuesInv`, `RxKept` of `NetCard` | `NetCardProofs` |
| `TearingCorrect`, `OrderCorrect`, `BlitWaitsCorrect` | `NoTearing`, `FramesInOrder`, `BlitHeard` of `BlitHandshake` | `EmulationThreadProofs` |
| `HandshakeCorrect`, `AckCorrect` | `HandshakeInv` of `PauseHandshake`, and that a wait ends with its own acknowledgement | `EmulationThreadProofs` |
| `CountCorrect`, `FlushCorrect`, `WaitsCorrect` | `CountNeverAhead`, `FlushMeansExecuted`, `WaiterHeard` of `VoodooFifo` | `VoodooFifoProofs` |
| `TypeCorrect`, `RingCorrect`, `IdleCorrect`, `WakeUpsCorrect` | `TypeOK`, `NotOverwritten`, `IdleMeansDrawn`, `NoLostWakeUp` of `VoodooRender` | `VoodooRenderProofs` |
| `BookkeepingCorrect`, `TextureCorrect` | `CacheConsistent`, `RightTexture` of `VoodooTexture` | `VoodooTextureProofs` |
| `PhantomCorrect`, `LevelsCorrect`, `EdgeCorrect`, `NestedCorrect` | `NoPhantom`, `LevelFollowsCards`, `EdgeKept`, `Nested` of `Pic` | `PicProofs` |

`TypeCorrect`, `SplitCorrect` and `AckCorrect` state what no run checks by itself.

*Timers.* The invariant is
`TypeOK /\ ListInv /\ Residents /\ SplitHasPeriod /\ NoCrash`. `ListInv` joins
list, flags, order and target, since inserting in order needs the order, and the
target needs the head. `Residents` says that the permanent timers are in the list
whenever the CPU can look at it, except the one being called back; without it
`timer_process` could empty the list and follow NULL, so `NoCrash` is not
inductive alone. The operations on the list are lemmas on sequences (insert at
the slot, remove, remove the head); each action is one of them plus flags.
`TimerConstants` asks for two permanent timers: while one is called back the other
keeps the list non-empty. It also keeps `None`, which stands for "no callback" and
for "not armed", apart from the timers and from the integers.

*Timer service.* The refinement mapping hides list, target, fractions and pieces:
the time left of a timer is the distance of its timestamp plus the pieces still to
come. The simulation needs two computations and one invariant: advancing a timer
moves its exact timestamp by the delay, no fraction lost (`AdvancesBy`); the pieces of
a long period add up to it (`PiecesAddUp`); and no timer is recorded as running
outside a callback (`Idle`). Calls of the API touch one timer (`Touches`), so they are
`Program` steps; a piece that ends is a stuttering step; a callback is allowed
because the head of a sorted list is the most overdue.

*Pointers.* The pointers from the head determine the walk (`WalkIs`: of two walks that
part, look at the first place where they do), and each pointer operation is an
operation on that sequence: unlinking cuts a timer out (`UnlinkIs`), the three ways
of linking put one in (`InsertIs`). The invariant `ListInv` says that the sequence holds
the enabled timers in the order of their deadlines (`Chained`), that added timers off the
list point nowhere (`Unlinked`: otherwise `timer_enable` would stop at its `fatal()`), that
no deadline lies more than one block back or half a turn ahead (`Timed`) and that the
target lies before them all (`TargetFirst`). The last two are needed together: the
check of the target after every block is what keeps deadlines from falling further
behind, and only deadlines within half a turn are ordered rightly by the sign of a
difference (`EarlierIs`). `ListConstants` asks of the code's delays that they stay, with
one block, below half the range of a timestamp.

*Cycles.* Within a block the TSC has moved by some number `a` of the cycles used so
far, and `real` by all of them (`BlockInv`). A turn of the counter is undone by the
subtraction modulo `W`, and `a` is small enough for an int, so both `update_tsc` and
the end of the block find `used - a` missing.

*Rings.* `network_swap_packet` permutes the pointers, so the map from slots to buffers
stays injective; therefore the slots that point to a given buffer are none or one,
and freeing slot by slot frees it at most once. For the refinement the content of a
ring is the sequence of its slots from tail to head: putting appends (`RingPut`),
getting takes the head (`RingGet`), and by `OneOwner` a swap in one ring leaves the
bytes of the others alone. A card that is not attached has drained rings (`Drained`).

*Card.* Both directions are four queues in a row with consecutive packet numbers
(`Ordered`, proved once for any four queues). That nothing is stranded needs the
notification followed through the host thread: seen but not yet taken (`SeenOK`), and
packets in `TX_HOST` always announced by the event, by an emulation thread about to
set it, or by the stop event (`Announced`).

*Handshakes.* A posted frame is in exactly one place: being posted, announced by the
event, or in the hands of the blit thread (`OnePlace`); `busy` and `buffer_in_use` say
which as long as the monitor is not being closed. A buffer in use therefore has someone
to release it (`BufferOwned`), and `BlitHeard` is inductive with that. For the pause, request, given and
stored acknowledgement are one token (`OneToken`), which exists only while a `do_pause`
call of the user interface waits for it (`TokenAwaited`).

*Voodoo FIFO.* The count is bounded by the swaps in the FIFO, being queued or pending.
The bound is inductive once the entry in work is known to be still at the head
(`HeadInWork`) and the room found by the emulation thread to be still there
(`RoomKept`). That the count stays within its type follows. `WaiterHeard` is inductive once
it is known that the emulation thread waits only before it tells the FIFO thread to end,
and that this thread ends only then (`Told`).

*Voodoo ring.* No thread is more than a ring behind (`Room`), and what the FIFO thread
found of every thread, room or an empty queue, stays true because threads only move
on (`FoundEmpty`). What a thread has before it is in the ring (`Kept`). Indexes are
compared by their distance (`Ahead`), without remainders. For the wake-ups: a thread that
will sleep has at most the triangle just published before it, and only until the kick
(`Sleepers`), so waking below two entries is enough (the code wakes below four); a thread
that is waited for is a whole ring behind until it moves on by one and reports
(`FullWait`), so a slack of two is enough (the code has ten). `VoodooRenderAssumption`
asks for just that, and with a smaller value of either constant `NoLostWakeUp` is false.

*Voodoo textures.* The counts equal the triangles queued per slot and thread
(`CountsMatch`), a texture is in one slot (`OneSlot`), and every page the code marks for
a held slot stays marked through the evictions of others (`CachedIsPresent`); with that,
slots with a tracked texture hold what memory holds (`Fresh`), because
a write evicts them first (`Evicted`). `TextureCorrect` has the
hypothesis of one or two render threads: with four it is false, as `voodoo_texture4`
shows.

*PIC.* The cached choice may be stale while the master is polled, and after a poll that
found nothing. What can be relied on (`Chosen`) is that a pending request of a master
that is not polled is the one the registers give; the master's cascade line is
requested without a pending slave only by an `Orphan`, a slave initialised while it
requested (`Cascaded`), because until ICW3 a refresh neither drives that line nor can
choose anything; at most one controller is polled, and ICW4 comes after ICW3
(`InOrder`). `LevelFollowsCards` is inductive over the history `counted`: a heard change
moves one card in or out of the set that is counted, and with fewer cards than
`LINE_COUNT` that never wraps. So `Cards` is finite; an edge device is on no line that may be
routed to cards.

Only model-checked: liveness, which is outside the prover's reach (`TxProgress`,
`CloseEnds`, `RequestsServed`, `PauseStops`, `FrameTaken`, `WaitsEnd`, `FifoReturns`,
`EveryTriangleDrawn`, `SearchEnds`, `CardAnswers` and `EveryCommandExecuted`). Every other property of a run is the statement of a theorem. That no
wake-up is lost, the part of these claims that is about states, is among them
(`NoLostWakeUp`, `WaiterHeard`, `BlitHeard`, and for the card `QueuesInv`).

## 5. Not modelled

Instruction semantics, the registers of the emulated chips, file formats and windows
are data rather than control. The C memory model is taken as sequentially
consistent for the flags that are plain `int`s: the loops that read them call
functions the compiler cannot see through. libslirp, the host's sockets and the Qt
event loop appear only through what the code needs from them. VNC is not built by
default; its `vnc_init` pauses while its caller holds the blit mutex (`vnc.c:213`), and
its close unregisters the renderer of a running machine (`video/video.c:420`).

Of the Voodoo: register packets through memory (CMDFIFO), pairs of cards (SLI), the
second texture unit, the relaxed frame-buffer reads with their per-buffer counters,
the spinning of render threads on aarch64, the Windows shortcut around
`fifo_empty_event`, how the ranges of a texture follow from its registers and the pixel
pipeline. Of the
interrupt controllers: the single controller of an XT, 8080 mode, the keyboard and
mouse latches, SMI, register shadows, NMI and the I/O APIC.

Outside the careful guest of `Pic` the code behaves as follows: OCW3 without the poll
bit before the poll is read leaves the controller frozen (`pic.c:596`); a poll that
finds nothing does not refresh the cache (`pic.c:504`); before the 286 a mask write never
schedules its refresh (`pic.c:566`). The spurious IRQ 7 of `pic.c:938` is never made: the
processor tests `int_pending` before it calls.

Hazards met on the way that belong to parts not modelled: `timer_get_remaining_u64`
computes in another width than the list compares (`timer.h:166`); the timed wait of
`thread.cpp:103` sleeps before it looks at the event; the SDL `do_stop` completes a
blit from another thread (`unix/sdl_main.c:286`); waiting for CMDFIFO words resets the event of the other FIFO (`vid_voodoo_fifo.c:300`); DMA
counters and their wrap (`dma.c:2556`).

Most of the repository (some 1700 files) is register-level emulation of hundreds of
chips and boards, each sequential and driven by ports, timers and interrupt lines;
the modules cover the parts those devices share.

## 6. Plan

Further modules: `Dma` (counters, auto-init and masks), `IoPorts` (handler lists
changed during a call), `Pit` (counter modes on top of `TimerService`), CMDFIFO.
