-------------------------------- MODULE Pic --------------------------------
(***************************************************************************)
(* The two cascaded interrupt controllers of an AT (pic.c) and the routing *)
(* of PCI interrupts to them (pci.c).                                      *)
(*                                                                         *)
(* Devices raise and lower lines in any order with what the guest does:    *)
(* initialising a controller word by word (ICW1 to ICW4), masking, ending  *)
(* interrupts, rotating priorities, polling; the processor takes an        *)
(* interrupt when the master says one is pending.  int_pending and         *)
(* interrupt are a cache of the request chosen from irr, isr, imr and the  *)
(* priority; update_pending refreshes it, unless the master is frozen.     *)
(*                                                                         *)
(* Edge devices use picint and picintc; PCI cards share a line that is     *)
(* level triggered (its bit of elcr is set) and counted in lines[].  The   *)
(* processor is in 8086 mode, a 286 or later.                              *)
(***************************************************************************)
EXTENDS Integers, FiniteSets

CONSTANTS
  LINES,      \* lines of a controller (8)
  CASCADE,    \* the master's line the slave drives (2)
  EdgeIrqs,   \* <<controller, line>> of the edge devices
  Cards,      \* PCI cards on one interrupt pin
  LINE_COUNT, \* values of an entry of lines[], a uint32_t (2^32)
  Routes,     \* lines of the slave the pin can be routed to, level triggered
  Masks,      \* what the guest writes to imr
  AutoEoi,    \* the controllers it may set to end interrupts automatically,
  Rotate,     \* whose priorities it may rotate,
  Special     \* and whose special mask mode it may use

None == -1    \* interrupt = 0x17
Stray == -2   \* no line: what a card said did not add up
Lines == 0 .. LINES - 1
Pics == {"m", "s"}

ASSUME PicAssumption ==
  /\ LINES \in Nat \ {0} /\ CASCADE \in Lines
  /\ Routes \subseteq Lines /\ Masks \subseteq SUBSET Lines
  /\ EdgeIrqs \subseteq (Pics \X Lines) \ ({<<"m", CASCADE>>} \cup ({"s"} \X Routes))
  /\ IsFiniteSet(Cards) /\ LINE_COUNT \in Nat /\ Cardinality(Cards) < LINE_COUNT
  /\ {AutoEoi, Rotate, Special} \subseteq SUBSET Pics

VARIABLES
  pic,        \* the controllers: pic and pic2
  lines,      \* pic2.lines[]: how many cards hold a line of the slave
  asserted,   \* the cards' irq_state
  route,      \* pci_irqs[]: the line the pin is routed to, or None
  counted     \* history: the line each card was counted on and not yet
              \* released, None, or Stray after a change that did not match

cardVars == <<lines, asserted, route, counted>>
vars == <<pic, lines, asserted, route, counted>>

Reset == [irr |-> {}, isr |-> {}, imr |-> {}, priority |-> 0, interrupt |-> None,
          frozen |-> FALSE, pending |-> FALSE, state |-> "none", icw3 |-> FALSE,
          aeoi |-> FALSE, rotate |-> FALSE, special |-> FALSE, poll |-> FALSE]

(* pic_reset; the cards are silent.                                         *)
Init ==
  /\ pic = [p \in Pics |-> Reset]
  /\ lines = [l \in Lines |-> 0]
  /\ asserted = [c \in Cards |-> FALSE]
  /\ route = None
  /\ counted = [c \in Cards |-> None]

TypeOK ==
  /\ \A p \in Pics :
       /\ {pic[p].irr, pic[p].isr, pic[p].imr} \subseteq SUBSET Lines
       /\ pic[p].priority \in Lines
       /\ pic[p].interrupt \in Lines \cup {None}
       /\ {pic[p].frozen, pic[p].pending, pic[p].icw3, pic[p].aeoi, pic[p].rotate,
           pic[p].special, pic[p].poll} \subseteq BOOLEAN
       /\ pic[p].state \in {"none", "icw2", "icw3", "icw4"}
  /\ lines \in [Lines -> 0 .. LINE_COUNT - 1]
  /\ asserted \in [Cards -> BOOLEAN]
  /\ route \in Routes \cup {None}
  /\ counted \in [Cards -> Routes \cup {None, Stray}]

-----------------------------------------------------------------------------
(* A line's place in the order of priorities: 0 is the highest.             *)
Rank(d, l) == (l + LINES - d.priority) % LINES
Ahead(d, l, k) == Rank(d, l) < Rank(d, k)

(* A plausible slip: a line in service does not hold back itself. *)
BlockedByHigher(d, l) == \E k \in d.isr : Ahead(d, k, l)
Blocked(d, l) == \E k \in d.isr : ~Ahead(d, l, k)

(* find_best_interrupt: the first request in the order that is not masked,  *)
(* unless a line at or before it is in service.                             *)
Requests(d) == IF d.state = "none" THEN d.irr \ d.imr ELSE {}
find_best_interrupt(d) ==
  LET best == {l \in Requests(d) : /\ ~Blocked(d, l)
                                   /\ \A k \in Requests(d) \ {l} : Ahead(d, l, k)}
  IN  IF best = {} THEN None ELSE CHOOSE l \in best : TRUE

Cached(d) == LET l == find_best_interrupt(d)
             IN  [d EXCEPT !.interrupt = l, !.frozen = FALSE, !.pending = l # None]

(* The line of the master that pic2.icw3 names; until it is programmed that *)
(* is line 0.                                                               *)
SlaveLine(s) == IF s.icw3 THEN CASCADE ELSE 0

(* update_pending = pic_update_pending_at, on the pair of controllers.      *)
update_pending(P) ==
  IF P["m"].frozen THEN P
  ELSE LET s == Cached(P["s"])
           l == SlaveLine(s)
           m == [P["m"] EXCEPT !.irr = IF s.pending THEN @ \cup {l} ELSE @ \ {l}]
       IN  [P EXCEPT !["s"] = s, !["m"] = Cached(m)]

(* pic_acknowledge: an acknowledged edge is over, a level stays while a     *)
(* card holds the line.                                                     *)
RequestOver(p, l) == p = "m" \/ l \notin Routes \/ lines[l] = 0

(* A plausible slip: the mask of the line is not inverted. *)
OnlyThisLine(irr, l) == irr \cap {l}
WithoutLine(irr, l) == irr \ {l}

pic_acknowledge(p, d) ==
  LET l == d.interrupt
  IN  [d EXCEPT !.isr = @ \cup {l},
                !.irr = IF RequestOver(p, l) THEN WithoutLine(@, l) ELSE @]

(* pic_non_specific_find: the line in service that comes first, in special  *)
(* mask mode of those that are not masked.                                  *)
pic_non_specific_find(d) ==
  LET served == IF d.special THEN d.isr \ d.imr ELSE d.isr
      first == {l \in served : \A k \in served \ {l} : Ahead(d, l, k)}
  IN  IF first = {} THEN None ELSE CHOOSE l \in first : TRUE

Following(l) == (l + 1) % LINES

(* pic_action on controller p of the pair: end the interrupt and rotate, as *)
(* asked, then refresh.                                                     *)
Acted(d, l, eoi, rotate) ==
  [d EXCEPT !.isr = IF eoi THEN @ \ {l} ELSE @,
            !.priority = IF rotate THEN Following(l) ELSE @]

pic_action(P, p, l, eoi, rotate) ==
  IF l = None THEN P
  ELSE update_pending([P EXCEPT ![p] = Acted(@, l, eoi, rotate)])

-----------------------------------------------------------------------------
(* What the guest writes and reads (pic_write, pic_read).                   *)

(* ICW1 starts the initialisation; requests of lines that are counted as    *)
(* held are kept.  The refresh takes the master's line 0 for the slave's:   *)
(* a request the slave has made on the cascade line is not withdrawn.       *)
WriteIcw1(p) ==
  /\ pic' = update_pending([pic EXCEPT ![p] =
              [Reset EXCEPT !.irr = IF p = "s" THEN {l \in Lines : lines[l] > 0} ELSE {},
                            !.aeoi = pic[p].aeoi, !.state = "icw2"]])
  /\ UNCHANGED cardVars

(* ICW2 to ICW4; none of them refreshes the cache.                          *)
WriteIcw2(p) ==
  /\ pic[p].state = "icw2"
  /\ pic' = [pic EXCEPT ![p].state = "icw3"]
  /\ UNCHANGED cardVars

WriteIcw3(p) ==
  /\ pic[p].state = "icw3"
  /\ pic' = [pic EXCEPT ![p].state = "icw4", ![p].icw3 = TRUE]
  /\ UNCHANGED cardVars

WriteIcw4(p, aeoi) ==
  /\ pic[p].state = "icw4"
  /\ pic' = [pic EXCEPT ![p].state = "none", ![p].aeoi = aeoi]
  /\ UNCHANGED cardVars

(* A plausible slip: the cache is not refreshed when a line is masked. *)
NoRefresh(P) == P
AfterMask(P) == update_pending(P)

WriteImr(p, mask) ==
  /\ pic[p].state = "none"
  /\ pic' = AfterMask([pic EXCEPT ![p].imr = mask])
  /\ UNCHANGED cardVars

(* pic_command with EOI or SL set, on a line it names or the one it finds.  *)
WriteOcw2(p, specific, eoi, rotate) ==
  /\ eoi \/ specific # None
  /\ LET l == IF specific # None THEN specific ELSE pic_non_specific_find(pic[p])
     IN  pic' = pic_action(pic, p, l, eoi, rotate)
  /\ UNCHANGED cardVars

(* pic_command without: rotation at the automatic end of an interrupt.      *)
WriteOcw2Auto(p, rotate) ==
  /\ pic' = [pic EXCEPT ![p].rotate = rotate]
  /\ UNCHANGED cardVars

(* OCW3 with the poll bit freezes the controller until the poll is read.    *)
WriteOcw3Poll(p) ==
  /\ pic' = [pic EXCEPT ![p].poll = TRUE, ![p].frozen = TRUE]
  /\ UNCHANGED cardVars

(* OCW3 without the poll bit.                                               *)
WriteOcw3(p, special) ==
  /\ pic' = [pic EXCEPT ![p].poll = FALSE, ![p].special = special]
  /\ UNCHANGED cardVars

(* Reading a poll acknowledges what is pending; only then is the cache      *)
(* refreshed.                                                               *)
ReadPoll(p) ==
  /\ pic[p].poll
  /\ LET thawed == [pic EXCEPT ![p].frozen = FALSE, ![p].poll = FALSE]
     IN  pic' = IF pic[p].pending
                THEN update_pending([thawed EXCEPT
                       ![p] = [pic_acknowledge(p, @) EXCEPT !.pending = FALSE]])
                ELSE thawed
  /\ UNCHANGED cardVars

(* A careful guest reads a poll before it does anything else to the pair;   *)
(* the devices do not wait for it.                                          *)
MayWrite == \A p \in Pics : ~pic[p].poll

May(S, p) == IF p \in S THEN BOOLEAN ELSE {FALSE}

Guest ==
  \E p \in Pics :
    \/ ReadPoll(p)
    \/ /\ MayWrite
       /\ \/ WriteIcw1(p) \/ WriteIcw2(p) \/ WriteIcw3(p)
          \/ \E aeoi \in May(AutoEoi, p) : WriteIcw4(p, aeoi)
          \/ \E mask \in Masks : WriteImr(p, mask)
          \/ \E specific \in Lines \cup {None}, eoi \in BOOLEAN, rotate \in May(Rotate, p) :
               WriteOcw2(p, specific, eoi, rotate)
          \/ \E rotate \in May(Rotate, p) : WriteOcw2Auto(p, rotate)
          \/ WriteOcw3Poll(p)
          \/ \E special \in May(Special, p) : WriteOcw3(p, special)

-----------------------------------------------------------------------------
(* picinterrupt, both acknowledge cycles.  The guest enables interrupts     *)
(* only when both controllers are initialised and it is not polling one, so *)
(* the processor calls it then, when the master says one is pending (it     *)
(* tests pic.int_pending just before, so the spurious IRQ 7 of lines        *)
(* 938-944 is never made).                                                  *)

FromSlave == pic["m"].icw3 /\ pic["m"].interrupt = CASCADE

Freeze(p, d) == [pic_acknowledge(p, d) EXCEPT !.frozen = TRUE, !.pending = FALSE]
AutoEnd(d) ==
  LET l == pic_non_specific_find(d)
  IN  IF d.aeoi /\ l # None THEN Acted(d, l, TRUE, d.rotate) ELSE d
Thaw(d) == [d EXCEPT !.interrupt = None, !.frozen = FALSE]
Served(p) == Thaw(AutoEnd(Freeze(p, pic[p])))

Takes ==
  /\ pic["m"].pending
  /\ \A p \in Pics : pic[p].state = "none" /\ pic[p].icw3 /\ ~pic[p].poll

(* A slave that has nothing pending by now is corrected to a spurious IRQ 7 *)
(* of its own but not marked: the master alone acknowledges, and the        *)
(* refresh at the end discards what the correction stored.                  *)
SlaveAnswers == FromSlave /\ pic["s"].pending

picinterrupt ==
  /\ Takes
  /\ pic' = update_pending([p \in Pics |->
                              IF p = "m" \/ SlaveAnswers THEN Served(p) ELSE pic[p]])
  /\ UNCHANGED cardVars

-----------------------------------------------------------------------------
(* The devices (picint_common).  Until ICW3 tells the master of its slave,  *)
(* the lines of the slave are ignored.                                      *)

Reaches(p) == p = "m" \/ pic["m"].icw3

picint(p, l) ==
  /\ Reaches(p)
  /\ pic' = update_pending([pic EXCEPT ![p].irr = @ \cup {l}])
  /\ UNCHANGED cardVars

picintc(p, l) ==
  /\ Reaches(p)
  /\ pic' = update_pending([pic EXCEPT ![p].irr = @ \ {l}])
  /\ UNCHANGED cardVars

(* pci_irq for a card whose state changes.  The line is looked up at that   *)
(* moment; the first card to hold it requests the interrupt, the last to    *)
(* release it withdraws the request.  While the master does not know of its *)
(* slave nothing is counted, yet the card's state changes all the same.     *)
Entry(n) == n % LINE_COUNT

(* A plausible slip: the first card to release the line withdraws it. *)
AnyRelease == TRUE
LastRelease == Entry(lines[route] - 1) = 0

pci_set_irq(c) ==
  /\ route # None /\ ~asserted[c]
  /\ asserted' = [asserted EXCEPT ![c] = TRUE]
  /\ \/ /\ Reaches("s")
        /\ lines' = [lines EXCEPT ![route] = Entry(@ + 1)]
        /\ counted' = [counted EXCEPT ![c] = IF @ = None THEN route ELSE Stray]
        /\ pic' = IF Entry(lines[route] + 1) = 1
                  THEN update_pending([pic EXCEPT !["s"].irr = @ \cup {route}])
                  ELSE pic
     \/ ~Reaches("s") /\ UNCHANGED <<pic, lines, counted>>
  /\ UNCHANGED route

pci_clear_irq(c) ==
  /\ route # None /\ asserted[c]
  /\ asserted' = [asserted EXCEPT ![c] = FALSE]
  /\ \/ /\ Reaches("s")
        /\ lines' = [lines EXCEPT ![route] = Entry(@ - 1)]
        /\ counted' = [counted EXCEPT ![c] = IF @ = route THEN None ELSE Stray]
        /\ pic' = IF LastRelease
                  THEN update_pending([pic EXCEPT !["s"].irr = @ \ {route}])
                  ELSE pic
     \/ ~Reaches("s") /\ UNCHANGED <<pic, lines, counted>>
  /\ UNCHANGED route

(* pci_set_irq_routing, from the chipset's registers, at any time: a line a *)
(* card holds stays counted on the old route.                               *)
pci_set_irq_routing(r) ==
  /\ route' = r
  /\ UNCHANGED <<pic, lines, asserted, counted>>

Devices ==
  \/ \E irq \in EdgeIrqs : picint(irq[1], irq[2]) \/ picintc(irq[1], irq[2])
  \/ \E c \in Cards : pci_set_irq(c) \/ pci_clear_irq(c)
  \/ \E r \in Routes \cup {None} : pci_set_irq_routing(r)

Next == Guest \/ picinterrupt \/ Devices
Spec == Init /\ [][Next]_vars

-----------------------------------------------------------------------------
(* The processor is never handed an interrupt that is masked, withdrawn or  *)
(* held back by one in service: when it may take one, what update_pending   *)
(* cached is what the registers give.  Nor is it handed one of the slave    *)
(* that the slave does not have ("IRQ 2 pending on AT without a pending IRQ *)
(* on PIC 2"), but in the one case the correction in picinterrupt is for:   *)
(* the guest initialised the slave while it requested, and neither masked   *)
(* a line nor ended an interrupt of it since.                               *)
JustInitialised(d) == ~d.pending /\ d.interrupt = None /\ d.isr = {} /\ d.imr = {}

NoPhantom ==
  /\ TypeOK
  /\ Takes => pic["m"].interrupt = find_best_interrupt(pic["m"])
  /\ Takes /\ FromSlave =>
       \/ pic["s"].pending /\ pic["s"].interrupt = find_best_interrupt(pic["s"])
       \/ JustInitialised(pic["s"])

(* A level-triggered line is requested exactly while some card holds it, by *)
(* what the controllers heard of the cards, through acknowledging, polling, *)
(* masking, initialising and rerouting; lines[] counts the cards that do.   *)
(* So when every card was heard, the line is requested exactly while a card *)
(* on it asserts.  It holds until a change does not match what was counted: *)
(* a release on another line than the assertion, or one of the two made     *)
(* while the master knew of no slave; lines[] then wraps or stays too high, *)
(* and nothing in the code sets it right.                                   *)
Straight == \A c \in Cards : counted[c] # Stray
Heard == \A c \in Cards : counted[c] = IF asserted[c] THEN route ELSE None

LevelFollowsCards ==
  Straight =>
    \A l \in Routes :
      /\ lines[l] = Cardinality({c \in Cards : counted[c] = l})
      /\ (l \in pic["s"].irr) <=> (lines[l] > 0)
      /\ Heard => ((l \in pic["s"].irr) <=> (\E c \in Cards : asserted[c] /\ route = l))

(* An edge is kept until it is acknowledged, withdrawn by its device, or    *)
(* its controller initialised: handling one interrupt never swallows        *)
(* another.  (Until ICW3 of the slave, update_pending takes the master's    *)
(* line 0 for the slave's.)                                                 *)
Driven(p) == IF p = "s" THEN Routes ELSE {SlaveLine(pic["s"]), SlaveLine(pic'["s"])}
EdgeKept ==
  [][\A p \in Pics : \A l \in (pic[p].irr \ pic'[p].irr) \ Driven(p) :
       \/ l \in pic'[p].isr \ pic[p].isr
       \/ picinterrupt /\ l = pic[p].interrupt
       \/ <<p, l>> \in EdgeIrqs /\ picintc(p, l)
       \/ pic'[p].state = "icw2"]_vars

(* Service nests by priority: an interrupt is only taken ahead of every     *)
(* line of its controller that is in service, so none is taken twice before *)
(* it is ended.                                                             *)
Nested ==
  [][picinterrupt =>
       \A p \in Pics : (p = "m" \/ SlaveAnswers) =>
         \A k \in pic[p].isr : Ahead(pic[p], pic[p].interrupt, k)]_vars
=============================================================================
