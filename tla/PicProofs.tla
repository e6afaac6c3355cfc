----------------------------- MODULE PicProofs -----------------------------
(***************************************************************************)
(* Proofs about Pic, for any number of lines, cards and devices.  The      *)
(* cached choice may be stale while the master is polled, and again until  *)
(* the next refresh if nothing was pending; the invariant says what can be *)
(* relied on nevertheless: a pending request of the master that is not     *)
(* polled is the one the registers give, and the master's cascade line is  *)
(* requested without a pending slave only from the slave's initialisation  *)
(* to the next refresh.                                                    *)
(***************************************************************************)
EXTENDS Pic, FiniteSetTheorems, TLAPS

States == {"none", "icw2", "icw3", "icw4"}
Controllers ==
  [irr : SUBSET Lines, isr : SUBSET Lines, imr : SUBSET Lines, priority : Lines,
   interrupt : Lines \cup {None}, frozen : BOOLEAN, pending : BOOLEAN, state : States,
   icw3 : BOOLEAN, aeoi : BOOLEAN, rotate : BOOLEAN, special : BOOLEAN, poll : BOOLEAN]

-----------------------------------------------------------------------------
(* The inductive invariant.  The parts about the controllers are stated of  *)
(* any pair P, for update_pending is applied to pairs that are no states.   *)

Sane(d) ==
  /\ d \in Controllers
  /\ d.pending => d.interrupt \in Lines \ d.isr /\ d.state = "none"

Chosen(P) ==
  P["m"].pending /\ ~P["m"].poll =>
    /\ P["m"].interrupt = find_best_interrupt(P["m"])
    /\ P["s"].pending => P["s"].interrupt = find_best_interrupt(P["s"])

(* A slave that was initialised while it requested, and is not done, or has *)
(* been given its ICW3.                                                     *)
Orphan(d) == JustInitialised(d) /\ (d.icw3 \/ d.state # "none")

Cascaded(P) ==
  CASCADE \in P["m"].irr =>
    \/ P["s"].pending /\ (P["s"].icw3 \/ CASCADE = 0)
    \/ Orphan(P["s"])

(* One poll at a time, and the initialisation words one after the other. *)
InOrder(P) ==
  /\ P["m"].frozen <=> P["m"].poll
  /\ ~(P["m"].poll /\ P["s"].poll)
  /\ \A p \in Pics : P[p].state = "icw4" => P[p].icw3

PairInv(P) ==
  /\ P \in [Pics -> Controllers]
  /\ \A p \in Pics : Sane(P[p])
  /\ Chosen(P) /\ Cascaded(P) /\ InOrder(P)

LinesInv ==
  /\ lines \in [Lines -> 0 .. LINE_COUNT - 1]
  /\ asserted \in [Cards -> BOOLEAN]
  /\ route \in Routes \cup {None}
  /\ counted \in [Cards -> Routes \cup {None, Stray}]
  /\ LevelFollowsCards

IInv == PairInv(pic) /\ LinesInv

-----------------------------------------------------------------------------
(* Facts about lines and priorities.                                        *)

LEMMA LineFacts ==
  /\ LINES \in Nat \ {0} /\ CASCADE \in Lines /\ 0 \in Lines /\ None \notin Lines
  /\ \A l \in Lines : l \in Nat /\ Following(l) \in Lines
  /\ Routes \subseteq Lines /\ Masks \subseteq SUBSET Lines
<1>1. LINES \in Nat \ {0} BY PicAssumption
<1>2. 0 \in Lines /\ None \notin Lines BY <1>1 DEF Lines, None
<1>3. \A l \in Lines : l \in Nat /\ Following(l) \in Lines BY <1>1 DEF Lines, Following
<1> QED BY <1>1, <1>2, <1>3, PicAssumption

(* A line does not come ahead of itself. *)
LEMMA AheadIrreflexive == ASSUME NEW d \in Controllers, NEW l \in Lines PROVE ~Ahead(d, l, l)
<1>1. d.priority \in Lines BY DEF Controllers
<1>2. Rank(d, l) \in Int BY <1>1, LineFacts DEF Rank, Lines
<1> QED BY <1>2 DEF Ahead

(* The choice is made from these five registers. *)
LEMMA SameRegisters ==
  ASSUME NEW d, NEW e, e.irr = d.irr, e.isr = d.isr, e.imr = d.imr,
         e.priority = d.priority, e.state = d.state
  PROVE  find_best_interrupt(e) = find_best_interrupt(d)
<1>1. \A l, k : Ahead(e, l, k) = Ahead(d, l, k) BY DEF Ahead, Rank
<1>2. Requests(e) = Requests(d) BY DEF Requests
<1>3. \A l : Blocked(e, l) = Blocked(d, l) BY <1>1 DEF Blocked
<1> DEFINE Best(x) == {l \in Requests(x) : /\ ~Blocked(x, l)
                                           /\ \A k \in Requests(x) \ {l} : Ahead(x, l, k)}
           D == Best(d)
           E == Best(e)
<1>4. E = D BY <1>1, <1>2, <1>3
<1>5. find_best_interrupt(e) = IF E = {} THEN None ELSE CHOOSE l \in E : TRUE
  BY DEF find_best_interrupt
<1>6. find_best_interrupt(d) = IF D = {} THEN None ELSE CHOOSE l \in D : TRUE
  BY DEF find_best_interrupt
<1> HIDE DEF D, E
<1> QED BY <1>4, <1>5, <1>6

(* What is chosen is requested, ahead of everything in service, and not in  *)
(* service itself; nothing is chosen during an initialisation.              *)
LEMMA BestIs ==
  ASSUME NEW d \in Controllers, find_best_interrupt(d) # None
  PROVE  LET l == find_best_interrupt(d)
         IN  /\ l \in d.irr \ d.isr /\ l \in Lines /\ d.state = "none"
             /\ \A k \in d.isr : Ahead(d, l, k)
<1> DEFINE best == {l \in Requests(d) : /\ ~Blocked(d, l)
                                        /\ \A k \in Requests(d) \ {l} : Ahead(d, l, k)}
           l == find_best_interrupt(d)
<1>1. l \in best BY DEF find_best_interrupt
<1> HIDE DEF l
<1>2. l \in Requests(d) /\ ~Blocked(d, l) BY <1>1
<1>3. l \in d.irr /\ d.state = "none" BY <1>2 DEF Requests
<1>4. l \in Lines BY <1>3 DEF Controllers
<1>5. \A k \in d.isr : Ahead(d, l, k) BY <1>2 DEF Blocked
<1>6. l \notin d.isr BY <1>4, <1>5, AheadIrreflexive
<1> QED BY <1>3, <1>4, <1>5, <1>6 DEF l

LEMMA BestType ==
  ASSUME NEW d \in Controllers PROVE find_best_interrupt(d) \in Lines \cup {None}
BY BestIs

(* The registers of a refreshed controller. *)
LEMMA CachedIs ==
  ASSUME NEW d \in Controllers
  PROVE  LET e == Cached(d)
         IN  /\ e \in Controllers
             /\ e.irr = d.irr /\ e.isr = d.isr /\ e.imr = d.imr
             /\ e.state = d.state /\ e.icw3 = d.icw3
             /\ e.poll = d.poll /\ e.frozen = FALSE
             /\ ~e.pending => e.interrupt = None
             /\ e.pending => e.interrupt = find_best_interrupt(e)
             /\ Sane(e)
<1> DEFINE b == find_best_interrupt(d)
           e == Cached(d)
<1>1. b \in Lines \cup {None} BY BestType
<1>2. e = [d EXCEPT !.interrupt = b, !.frozen = FALSE, !.pending = b # None] BY DEF Cached
<1>3. b # None => b \in Lines \ d.isr /\ d.state = "none" BY BestIs
<1> HIDE DEF b
<1>4. /\ e \in Controllers
      /\ e.irr = d.irr /\ e.isr = d.isr /\ e.imr = d.imr /\ e.priority = d.priority
      /\ e.state = d.state /\ e.icw3 = d.icw3 /\ e.poll = d.poll
      /\ e.frozen = FALSE /\ e.interrupt = b /\ (e.pending <=> b # None)
  BY <1>1, <1>2 DEF Controllers
<1> HIDE DEF e
<1>5. find_best_interrupt(e) = b BY <1>4, SameRegisters DEF b
<1> QED BY <1>3, <1>4, <1>5 DEF Sane, e

-----------------------------------------------------------------------------
(* update_pending.                                                          *)

(* The registers it leaves alone: all but the cached choice and the one     *)
(* line of the master that the slave drives.                                *)
Kept(P, Q) ==
  /\ \A p \in Pics : Q[p].isr = P[p].isr /\ Q[p].state = P[p].state /\ Q[p].icw3 = P[p].icw3
  /\ Q["s"].irr = P["s"].irr
  /\ P["m"].irr \ {SlaveLine(P["s"])} \subseteq Q["m"].irr

(* The refresh drives the cascade line, or cannot choose anything. *)
Blank(d) == d.state # "none" /\ d.isr = {} /\ d.imr = {}
Drives(d) == d.icw3 \/ CASCADE = 0 \/ Blank(d)

LEMMA CascadedDrives ==
  ASSUME NEW P, Cascaded(P), CASCADE \in P["m"].irr PROVE Drives(P["s"])
BY DEF Cascaded, Orphan, JustInitialised, Drives, Blank

(* When the master is not frozen the pair it gives is in order whatever was *)
(* cached before.                                                           *)
LEMMA Refreshed ==
  ASSUME NEW P \in [Pics -> Controllers], ~P["m"].frozen, InOrder(P),
         CASCADE \in P["m"].irr => Drives(P["s"])
  PROVE  PairInv(update_pending(P)) /\ Kept(P, update_pending(P))
<1> DEFINE s == Cached(P["s"])
           l == SlaveLine(s)
           m == [P["m"] EXCEPT !.irr = IF s.pending THEN @ \cup {l} ELSE @ \ {l}]
           n == Cached(m)
           Q == update_pending(P)
<1>1. P["m"] \in Controllers /\ P["s"] \in Controllers BY DEF Pics
<1>2. Q = [P EXCEPT !["s"] = s, !["m"] = n] BY DEF update_pending
<1>3. Q \in [Pics -> {s, n}] /\ Q["s"] = s /\ Q["m"] = n BY <1>2 DEF Pics
<1> HIDE DEF Q
<1>4. /\ s \in Controllers /\ Sane(s)
      /\ s.irr = P["s"].irr /\ s.isr = P["s"].isr /\ s.imr = P["s"].imr
      /\ s.state = P["s"].state /\ s.icw3 = P["s"].icw3 /\ s.poll = P["s"].poll
      /\ ~s.pending => s.interrupt = None
      /\ s.pending => s.interrupt = find_best_interrupt(s)
  BY <1>1, CachedIs
<1> HIDE DEF s
<1>5. l \in Lines /\ l = SlaveLine(P["s"]) BY <1>4, LineFacts DEF SlaveLine
<1>6. l = IF s.icw3 THEN CASCADE ELSE 0 BY DEF SlaveLine
<1> HIDE DEF l
<1>7. /\ m \in Controllers /\ m.isr = P["m"].isr /\ m.state = P["m"].state
      /\ m.icw3 = P["m"].icw3 /\ m.poll = P["m"].poll
      /\ m.irr = IF s.pending THEN P["m"].irr \cup {l} ELSE P["m"].irr \ {l}
  BY <1>1, <1>5 DEF Controllers
<1> HIDE DEF m
<1>8. /\ n \in Controllers /\ Sane(n)
      /\ n.irr = m.irr /\ n.isr = m.isr /\ n.state = m.state /\ n.icw3 = m.icw3
      /\ n.poll = m.poll /\ n.frozen = FALSE
      /\ n.pending => n.interrupt = find_best_interrupt(n)
  BY <1>7, CachedIs
<1> HIDE DEF n
<1>9. Cascaded(Q)
  <2> SUFFICES ASSUME CASCADE \in n.irr
               PROVE  (s.pending /\ (s.icw3 \/ CASCADE = 0)) \/ Orphan(s)
    BY <1>3 DEF Cascaded
  <2>1. CASE s.icw3 \/ CASCADE = 0 BY <1>6, <1>7, <1>8, <2>1
  <2>2. CASE ~(s.icw3 \/ CASCADE = 0)
    <3>1. CASCADE \in P["m"].irr BY <1>6, <1>7, <1>8, <2>2
    <3>2. Blank(s) BY <1>4, <2>2, <3>1 DEF Drives, Blank
    <3>3. ~s.pending BY <1>4, <3>2 DEF Sane, Blank
    <3> QED BY <1>4, <3>2, <3>3 DEF Orphan, JustInitialised, Blank
  <2> QED BY <2>1, <2>2
<1>10. InOrder(Q)
  <2>1. ~P["m"].poll /\ \A p \in Pics : P[p].state = "icw4" => P[p].icw3 BY DEF InOrder
  <2>2. \A p \in Pics : Q[p].state = P[p].state /\ Q[p].icw3 = P[p].icw3
    BY <1>3, <1>4, <1>7, <1>8 DEF Pics
  <2> QED BY <1>3, <1>7, <1>8, <2>1, <2>2 DEF InOrder
<1>11. Chosen(Q) BY <1>3, <1>4, <1>8 DEF Chosen
<1>12. Q \in [Pics -> Controllers] /\ \A p \in Pics : Sane(Q[p])
  BY <1>3, <1>4, <1>8 DEF Pics
<1>13. Kept(P, Q) BY <1>3, <1>4, <1>5, <1>7, <1>8 DEF Kept, Pics
<1> QED BY <1>9, <1>10, <1>11, <1>12, <1>13 DEF PairInv, Q

(* A frozen master is not refreshed. *)
LEMMA NotRefreshed ==
  ASSUME NEW P, P["m"].frozen, PairInv(P)
  PROVE  PairInv(update_pending(P)) /\ Kept(P, update_pending(P))
BY DEF update_pending, Kept

(* A device changes the requests of a controller, frozen or not. *)
LEMMA DeviceStep ==
  ASSUME PairInv(pic), NEW p \in Pics, NEW X \in SUBSET Lines,
         p = "m" => (CASCADE \in X => CASCADE \in pic["m"].irr)
  PROVE  LET P == [pic EXCEPT ![p].irr = X]
         IN  PairInv(update_pending(P)) /\ Kept(P, update_pending(P))
<1> DEFINE P == [pic EXCEPT ![p].irr = X]
<1>1. pic \in [Pics -> Controllers] BY DEF PairInv
<1>2. P \in [Pics -> Controllers] BY <1>1 DEF Controllers
<1>3. /\ P[p] = [pic[p] EXCEPT !.irr = X]
      /\ \A q \in Pics \ {p} : P[q] = pic[q]
  BY <1>1
<1>4. \A q \in Pics : /\ P[q].frozen = pic[q].frozen /\ P[q].poll = pic[q].poll
                      /\ P[q].pending = pic[q].pending /\ P[q].interrupt = pic[q].interrupt
                      /\ P[q].isr = pic[q].isr /\ P[q].imr = pic[q].imr
                      /\ P[q].state = pic[q].state /\ P[q].icw3 = pic[q].icw3
                      /\ P[q].irr = IF q = p THEN X ELSE pic[q].irr
  BY <1>1, <1>3 DEF Controllers
<1> HIDE DEF P
<1>5. "m" \in Pics /\ "s" \in Pics BY DEF Pics
<1>6. InOrder(P) BY <1>4, <1>5 DEF PairInv, InOrder
<1>7. CASCADE \in P["m"].irr => CASCADE \in pic["m"].irr BY <1>4, <1>5
<1>8. Cascaded(P) BY <1>4, <1>5, <1>7 DEF PairInv, Cascaded, Orphan, JustInitialised
<1>9. CASE ~P["m"].frozen BY <1>2, <1>6, <1>8, <1>9, CascadedDrives, Refreshed DEF P
<1>10. CASE P["m"].frozen
  <2>1. Chosen(P) BY <1>6, <1>10 DEF InOrder, Chosen
  <2>2. \A q \in Pics : Sane(P[q]) BY <1>2, <1>4 DEF PairInv, Sane
  <2>3. PairInv(P) BY <1>2, <1>6, <1>8, <2>1, <2>2 DEF PairInv
  <2> QED BY <1>10, <2>3, NotRefreshed DEF P
<1> QED BY <1>9, <1>10

(* The guest or the processor puts controller p into state d; then the pair *)
(* is refreshed.                                                            *)
LEMMA WriteStep ==
  ASSUME PairInv(pic), NEW p \in Pics, NEW d \in Controllers,
         p = "m" => ~d.frozen /\ ~d.poll /\ (CASCADE \in d.irr => CASCADE \in pic["m"].irr),
         p = "s" => ~pic["m"].poll /\ (CASCADE \in pic["m"].irr => Drives(d)),
         d.state = "icw4" => d.icw3
  PROVE  LET P == [pic EXCEPT ![p] = d]
         IN  PairInv(update_pending(P)) /\ Kept(P, update_pending(P))
<1> DEFINE P == [pic EXCEPT ![p] = d]
<1>1. pic \in [Pics -> Controllers] /\ InOrder(pic) /\ Cascaded(pic) BY DEF PairInv
<1>2. P \in [Pics -> Controllers] /\ P[p] = d /\ \A q \in Pics \ {p} : P[q] = pic[q] BY <1>1
<1> HIDE DEF P
<1>3. p = "m" \/ p = "s" BY DEF Pics
<1>4. CASE p = "m"
  <2>1. P["m"] = d /\ P["s"] = pic["s"] BY <1>2, <1>4 DEF Pics
  <2>2. InOrder(P) BY <1>1, <1>4, <2>1 DEF InOrder, Pics
  <2>3. ~P["m"].frozen /\ (CASCADE \in P["m"].irr => Drives(P["s"]))
    BY <1>1, <1>4, <2>1, CascadedDrives
  <2> QED BY <1>2, <2>2, <2>3, Refreshed DEF P
<1>5. CASE p = "s"
  <2>1. P["s"] = d /\ P["m"] = pic["m"] BY <1>2, <1>5 DEF Pics
  <2>2. InOrder(P) BY <1>1, <1>5, <2>1 DEF InOrder, Pics
  <2>3. ~P["m"].frozen /\ (CASCADE \in P["m"].irr => Drives(P["s"]))
    BY <1>1, <1>5, <2>1 DEF InOrder
  <2> QED BY <1>2, <2>2, <2>3, Refreshed DEF P
<1> QED BY <1>3, <1>4, <1>5

(* The guest changes what the choice does not depend on, or the state of an *)
(* initialisation; nothing is refreshed.                                    *)
LEMMA QuietStep ==
  ASSUME PairInv(pic), NEW p \in Pics, NEW d \in Controllers,
         d.irr = pic[p].irr, d.isr = pic[p].isr, d.imr = pic[p].imr,
         d.priority = pic[p].priority, d.interrupt = pic[p].interrupt,
         d.pending = pic[p].pending, pic[p].icw3 => d.icw3,
         d.icw3 \/ (pic[p].state # "none" => d.state # "none"),
         d.pending => d.state = pic[p].state,
         d.pending /\ ~d.poll => ~pic[p].poll,
         InOrder([pic EXCEPT ![p] = d])
  PROVE  PairInv([pic EXCEPT ![p] = d])
<1> DEFINE P == [pic EXCEPT ![p] = d]
<1>1. pic \in [Pics -> Controllers] /\ Cascaded(pic) /\ Chosen(pic) /\ \A q \in Pics : Sane(pic[q])
  BY DEF PairInv
<1>2. P \in [Pics -> Controllers] /\ P[p] = d /\ \A q \in Pics \ {p} : P[q] = pic[q] BY <1>1
<1>3. InOrder(P) OBVIOUS
<1> HIDE DEF P
<1>4. \A q \in Pics : Sane(P[q]) BY <1>1, <1>2 DEF Sane
<1>5. \A q \in Pics : P[q].pending => find_best_interrupt(P[q]) = find_best_interrupt(pic[q])
  <2> SUFFICES ASSUME d.pending PROVE find_best_interrupt(d) = find_best_interrupt(pic[p])
    BY <1>2
  <2> QED BY SameRegisters
<1>6. \A q \in Pics : /\ P[q].pending = pic[q].pending /\ P[q].interrupt = pic[q].interrupt
                      /\ P[q].irr = pic[q].irr /\ (pic[q].icw3 => P[q].icw3)
                      /\ P[q].isr = pic[q].isr /\ P[q].imr = pic[q].imr
                      /\ (P[q].icw3 \/ (pic[q].state # "none" => P[q].state # "none"))
                      /\ (P[q].pending /\ ~P[q].poll => ~pic[q].poll)
  BY <1>2
<1>7. "m" \in Pics /\ "s" \in Pics BY DEF Pics
<1>8. Chosen(P) BY <1>1, <1>5, <1>6, <1>7 DEF Chosen
<1>9. Cascaded(P) BY <1>1, <1>6, <1>7 DEF Cascaded, Orphan, JustInitialised
<1> QED BY <1>2, <1>3, <1>4, <1>8, <1>9 DEF PairInv, P

-----------------------------------------------------------------------------
(* What a step does to the requests.                                        *)

(* The body of EdgeKept. *)
Edges ==
  \A p \in Pics : \A l \in (pic[p].irr \ pic'[p].irr) \ Driven(p) :
    \/ l \in pic'[p].isr \ pic[p].isr
    \/ picinterrupt /\ l = pic[p].interrupt
    \/ <<p, l>> \in EdgeIrqs /\ picintc(p, l)
    \/ pic'[p].state = "icw2"

SameLevels == Straight => \A l \in Routes : l \in pic'["s"].irr <=> l \in pic["s"].irr

(* A refresh takes no request away but the one the slave drives. *)
LEMMA KeptEdges ==
  ASSUME NEW P, Kept(P, pic')
  PROVE  \A p \in Pics : \A l \in (pic[p].irr \ pic'[p].irr) \ Driven(p) : l \notin P[p].irr
<1>1. SlaveLine(P["s"]) = SlaveLine(pic'["s"]) BY DEF Kept, SlaveLine, Pics
<1>2. \A l \in (pic["m"].irr \ pic'["m"].irr) \ Driven("m") : l \notin P["m"].irr
  BY <1>1 DEF Kept, Driven
<1>3. \A l \in (pic["s"].irr \ pic'["s"].irr) \ Driven("s") : l \notin P["s"].irr
  BY DEF Kept
<1> QED BY <1>2, <1>3 DEF Pics

(* An acknowledged interrupt is put into service and, unless a card still   *)
(* holds its line, is no longer requested.                                  *)
LEMMA AcknowledgeIs ==
  ASSUME LinesInv, NEW p \in Pics, NEW d \in Controllers, d.interrupt \in Lines,
         d.irr = pic[p].irr
  PROVE  LET e == pic_acknowledge(p, d)
         IN  /\ e \in Controllers
             /\ e.isr = d.isr \cup {d.interrupt}
             /\ d.irr \ {d.interrupt} \subseteq e.irr /\ e.irr \subseteq d.irr
             /\ p = "s" /\ Straight => \A l \in Routes : l \in e.irr <=> l \in pic["s"].irr
             /\ e.imr = d.imr /\ e.priority = d.priority /\ e.interrupt = d.interrupt
             /\ e.frozen = d.frozen /\ e.pending = d.pending /\ e.state = d.state
             /\ e.icw3 = d.icw3 /\ e.aeoi = d.aeoi /\ e.rotate = d.rotate
             /\ e.special = d.special /\ e.poll = d.poll
<1> DEFINE e == pic_acknowledge(p, d)
           l == d.interrupt
           X == IF RequestOver(p, l) THEN d.irr \ {l} ELSE d.irr
<1>1. e = [d EXCEPT !.isr = @ \cup {l}, !.irr = X] BY DEF pic_acknowledge, WithoutLine
<1>2. X \subseteq d.irr /\ d.irr \ {l} \subseteq X OBVIOUS
<1>3. p = "s" /\ Straight => \A r \in Routes : r \in X <=> r \in pic["s"].irr
  <2> SUFFICES ASSUME p = "s", Straight, NEW r \in Routes PROVE r \in X <=> r \in pic["s"].irr OBVIOUS
  <2>1. RequestOver(p, r) => r \notin pic["s"].irr
    <3>1. r \in pic["s"].irr <=> lines[r] > 0 BY DEF LinesInv, LevelFollowsCards
    <3> QED BY <3>1 DEF RequestOver
  <2> QED BY <2>1
<1> HIDE DEF X
<1>4. e \in Controllers /\ e.isr = d.isr \cup {l} /\ e.irr = X
  <2> DEFINE Y == d.isr \cup {l}
  <2>1. X \in SUBSET Lines /\ Y \in SUBSET Lines BY <1>2 DEF Controllers
  <2>2. e = [d EXCEPT !.isr = Y, !.irr = X] BY <1>1
  <2> HIDE DEF Y, e
  <2>3. e \in Controllers /\ e.isr = Y /\ e.irr = X BY <2>1, <2>2 DEF Controllers
  <2> QED BY <2>3 DEF Y
<1>5. /\ e.imr = d.imr /\ e.priority = d.priority /\ e.interrupt = d.interrupt
      /\ e.frozen = d.frozen /\ e.pending = d.pending /\ e.state = d.state
      /\ e.icw3 = d.icw3 /\ e.aeoi = d.aeoi /\ e.rotate = d.rotate
      /\ e.special = d.special /\ e.poll = d.poll
  BY <1>1 DEF Controllers
<1> QED BY <1>2, <1>3, <1>4, <1>5

-----------------------------------------------------------------------------
(* The guest.                                                               *)

StepOK == PairInv(pic') /\ Edges /\ SameLevels

(* A quiet step leaves every request alone. *)
LEMMA QuietOK ==
  ASSUME PairInv(pic), NEW p \in Pics, NEW d \in Controllers, d.irr = pic[p].irr,
         pic' = [pic EXCEPT ![p] = d], PairInv([pic EXCEPT ![p] = d])
  PROVE  StepOK
<1>1. \A q \in Pics : pic'[q].irr = pic[q].irr BY DEF PairInv
<1> QED BY <1>1 DEF StepOK, Edges, SameLevels, Pics

LEMMA Icw1Step == ASSUME IInv, MayWrite, NEW p \in Pics, WriteIcw1(p) PROVE StepOK
<1> DEFINE d == [Reset EXCEPT !.irr = IF p = "s" THEN {l \in Lines : lines[l] > 0} ELSE {},
                             !.aeoi = pic[p].aeoi, !.state = "icw2"]
           P == [pic EXCEPT ![p] = d]
<1>1. PairInv(pic) /\ LinesInv /\ pic \in [Pics -> Controllers] BY DEF IInv, PairInv
<1>2. pic[p].aeoi \in BOOLEAN BY <1>1 DEF Controllers
<1>3. /\ d \in Controllers /\ ~d.frozen /\ ~d.poll /\ d.state = "icw2"
      /\ d.isr = {} /\ d.imr = {}
      /\ d.irr = IF p = "s" THEN {l \in Lines : lines[l] > 0} ELSE {}
  BY <1>2, LineFacts DEF Reset, Controllers, States
<1>4. pic' = update_pending(P) BY DEF WriteIcw1
<1>5. P[p] = d /\ \A q \in Pics \ {p} : P[q] = pic[q] BY <1>1
<1> HIDE DEF d
<1>6. ~pic["m"].poll /\ Drives(d) BY <1>3 DEF MayWrite, Pics, Drives, Blank
<1>7. p = "m" => CASCADE \notin d.irr BY <1>3
<1>8. PairInv(pic') /\ Kept(P, pic') BY <1>1, <1>3, <1>4, <1>6, <1>7, WriteStep
<1> HIDE DEF P
<1>9. pic'[p].state = "icw2" BY <1>3, <1>5, <1>8 DEF Kept
<1>10. Edges BY <1>5, <1>8, <1>9, KeptEdges DEF Edges
<1>11. SameLevels
  <2>1. CASE p = "s"
    <3>1. Straight => \A l \in Routes : l \in pic["s"].irr <=> lines[l] > 0
      BY <1>1 DEF LinesInv, LevelFollowsCards
    <3> QED BY <1>3, <1>5, <1>8, <2>1, <3>1, LineFacts DEF Kept, SameLevels
  <2>2. CASE p # "s" BY <1>5, <1>8, <2>2 DEF Kept, SameLevels, Pics
  <2> QED BY <2>1, <2>2
<1> QED BY <1>8, <1>10, <1>11 DEF StepOK

(* ICW2 to ICW4: nothing is pending during an initialisation. *)
LEMMA IcwStep ==
  ASSUME IInv, MayWrite, NEW p \in Pics, NEW d \in Controllers, pic[p].state # "none",
         pic' = [pic EXCEPT ![p] = d],
         d.irr = pic[p].irr, d.isr = pic[p].isr, d.imr = pic[p].imr,
         d.priority = pic[p].priority, d.interrupt = pic[p].interrupt,
         d.pending = pic[p].pending, pic[p].icw3 => d.icw3,
         d.poll = pic[p].poll, d.frozen = pic[p].frozen,
         d.icw3 \/ d.state = "icw3"
  PROVE  StepOK
<1>1. PairInv(pic) /\ pic \in [Pics -> Controllers] /\ InOrder(pic) /\ Sane(pic[p])
  BY DEF IInv, PairInv
<1>2. ~d.pending BY <1>1 DEF Sane
<1>3. InOrder([pic EXCEPT ![p] = d]) BY <1>1 DEF InOrder, Pics
<1>4. PairInv([pic EXCEPT ![p] = d]) BY <1>1, <1>2, <1>3, QuietStep
<1> QED BY <1>1, <1>4, QuietOK

LEMMA ImrStep ==
  ASSUME IInv, MayWrite, NEW p \in Pics, NEW mask \in Masks, WriteImr(p, mask)
  PROVE  StepOK
<1> DEFINE d == [pic[p] EXCEPT !.imr = mask]
           P == [pic EXCEPT ![p] = d]
<1>1. PairInv(pic) /\ pic \in [Pics -> Controllers] /\ InOrder(pic) /\ Cascaded(pic)
  BY DEF IInv, PairInv
<1>2. d \in Controllers /\ d.irr = pic[p].irr /\ d.icw3 = pic[p].icw3
      /\ d.frozen = pic[p].frozen /\ d.poll = pic[p].poll /\ d.state = "none"
  BY <1>1, LineFacts DEF Controllers, WriteImr
<1>3. pic' = update_pending(P)
  <2>1. [pic EXCEPT ![p].imr = mask] = P BY <1>1
  <2> QED BY <2>1 DEF WriteImr, AfterMask
<1>4. P[p] = d /\ \A q \in Pics \ {p} : P[q] = pic[q] BY <1>1
<1> HIDE DEF d
<1>5. ~pic["m"].poll /\ ~pic["m"].frozen BY <1>1 DEF MayWrite, InOrder, Pics
<1>6. PairInv(pic') /\ Kept(P, pic')
  <2>1. p = "s" /\ CASCADE \in pic["m"].irr => Drives(d)
    BY <1>1, <1>2 DEF Cascaded, Orphan, Drives, WriteImr
  <2> QED BY <1>1, <1>2, <1>3, <1>5, <2>1, WriteStep
<1> HIDE DEF P
<1>7. \A q \in Pics : P[q].irr = pic[q].irr BY <1>2, <1>4
<1>8. Edges BY <1>6, <1>7, KeptEdges DEF Edges
<1>9. SameLevels BY <1>6, <1>7 DEF Kept, SameLevels, Pics
<1> QED BY <1>6, <1>8, <1>9 DEF StepOK

(* pic_action on one controller. *)
LEMMA NonSpecificType ==
  ASSUME NEW d \in Controllers PROVE pic_non_specific_find(d) \in Lines \cup {None}
<1> DEFINE served == IF d.special THEN d.isr \ d.imr ELSE d.isr
           first == {l \in served : \A k \in served \ {l} : Ahead(d, l, k)}
<1>1. first \subseteq Lines BY DEF Controllers
<1>2. pic_non_specific_find(d) = IF first = {} THEN None ELSE CHOOSE l \in first : TRUE
  BY DEF pic_non_specific_find
<1> HIDE DEF first
<1> QED BY <1>1, <1>2

LEMMA ActedIs ==
  ASSUME NEW d \in Controllers, NEW l \in Lines, NEW eoi \in BOOLEAN, NEW rotate \in BOOLEAN
  PROVE  LET e == Acted(d, l, eoi, rotate)
         IN  /\ e \in Controllers /\ e.irr = d.irr /\ e.imr = d.imr /\ e.icw3 = d.icw3
             /\ e.state = d.state
             /\ e.frozen = d.frozen /\ e.poll = d.poll /\ e.isr \subseteq d.isr
<1> DEFINE X == IF eoi THEN d.isr \ {l} ELSE d.isr
           y == IF rotate THEN Following(l) ELSE d.priority
           e == Acted(d, l, eoi, rotate)
<1>1. X \in SUBSET Lines /\ X \subseteq d.isr /\ y \in Lines BY LineFacts DEF Controllers
<1>2. e = [d EXCEPT !.isr = X, !.priority = y] BY DEF Acted
<1> HIDE DEF X, y, e
<1>3. /\ e \in Controllers /\ e.irr = d.irr /\ e.imr = d.imr /\ e.icw3 = d.icw3
      /\ e.state = d.state
      /\ e.frozen = d.frozen /\ e.poll = d.poll /\ e.isr = X
  BY <1>1, <1>2 DEF Controllers
<1> QED BY <1>1, <1>3 DEF e

LEMMA Ocw2Step ==
  ASSUME IInv, MayWrite, NEW p \in Pics, NEW specific \in Lines \cup {None},
         NEW eoi \in BOOLEAN, NEW rotate \in BOOLEAN, WriteOcw2(p, specific, eoi, rotate)
  PROVE  StepOK
<1> DEFINE l == IF specific # None THEN specific ELSE pic_non_specific_find(pic[p])
           d == Acted(pic[p], l, eoi, rotate)
           P == [pic EXCEPT ![p] = d]
<1>1. PairInv(pic) /\ pic \in [Pics -> Controllers] /\ InOrder(pic) /\ Cascaded(pic)
  BY DEF IInv, PairInv
<1>2. l \in Lines \cup {None} BY <1>1, NonSpecificType
<1>3. pic' = pic_action(pic, p, l, eoi, rotate) BY DEF WriteOcw2
<1> HIDE DEF l
<1>4. CASE l = None
  <2>1. pic' = pic BY <1>3, <1>4 DEF pic_action
  <2> QED BY <1>1, <2>1 DEF StepOK, Edges, SameLevels
<1>5. CASE l # None
  <2>1. pic' = update_pending(P) BY <1>1, <1>3, <1>5 DEF pic_action
  <2>2. /\ d \in Controllers /\ d.irr = pic[p].irr /\ d.icw3 = pic[p].icw3
        /\ d.frozen = pic[p].frozen /\ d.poll = pic[p].poll
        /\ d.imr = pic[p].imr /\ d.state = pic[p].state /\ d.isr \subseteq pic[p].isr
    BY <1>1, <1>2, <1>5, ActedIs
  <2>3. P[p] = d /\ \A q \in Pics \ {p} : P[q] = pic[q] BY <1>1
  <2> HIDE DEF d
  <2>4. ~pic["m"].poll /\ ~pic["m"].frozen BY <1>1 DEF MayWrite, InOrder, Pics
  <2>5. PairInv(pic') /\ Kept(P, pic')
    <3>1. p = "s" /\ CASCADE \in pic["m"].irr => Drives(d)
      <4>1. CASCADE \in pic["m"].irr => Drives(pic["s"]) BY <1>1, CascadedDrives
      <4> QED BY <2>2, <4>1 DEF Drives, Blank
    <3>2. d.state = "icw4" => d.icw3 BY <1>1, <2>2 DEF InOrder
    <3> QED BY <1>1, <2>1, <2>2, <2>4, <3>1, <3>2, WriteStep
  <2> HIDE DEF P
  <2>6. \A q \in Pics : P[q].irr = pic[q].irr BY <2>2, <2>3
  <2>7. Edges BY <2>5, <2>6, KeptEdges DEF Edges
  <2>8. SameLevels BY <2>5, <2>6 DEF Kept, SameLevels, Pics
  <2> QED BY <2>5, <2>7, <2>8 DEF StepOK
<1> QED BY <1>4, <1>5

(* OCW2 and OCW3 that only set a mode; a poll is begun when none is. *)
LEMMA ModeStep ==
  ASSUME IInv, MayWrite, NEW p \in Pics, NEW d \in Controllers,
         pic' = [pic EXCEPT ![p] = d],
         d.irr = pic[p].irr, d.isr = pic[p].isr, d.imr = pic[p].imr,
         d.priority = pic[p].priority, d.interrupt = pic[p].interrupt,
         d.pending = pic[p].pending, d.icw3 = pic[p].icw3, d.state = pic[p].state,
         \/ d.poll /\ d.frozen
         \/ d.poll = pic[p].poll /\ d.frozen = pic[p].frozen
  PROVE  StepOK
<1>1. PairInv(pic) /\ pic \in [Pics -> Controllers] /\ InOrder(pic)
  BY DEF IInv, PairInv
<1>2. ~pic["m"].poll /\ ~pic["s"].poll /\ ~pic["m"].frozen /\ ~pic[p].poll
  BY <1>1 DEF MayWrite, InOrder, Pics
<1>3. InOrder([pic EXCEPT ![p] = d]) BY <1>1, <1>2 DEF InOrder, Pics
<1>4. PairInv([pic EXCEPT ![p] = d]) BY <1>1, <1>2, <1>3, QuietStep
<1> QED BY <1>1, <1>4, QuietOK

(* Reading a poll: what was pending when the controller was frozen is       *)
(* acknowledged, whether or not it is still requested.                      *)
LEMMA PollStep == ASSUME IInv, NEW p \in Pics, ReadPoll(p) PROVE StepOK
<1> DEFINE t == [pic[p] EXCEPT !.frozen = FALSE, !.poll = FALSE]
           thawed == [pic EXCEPT ![p].frozen = FALSE, ![p].poll = FALSE]
<1>1. /\ PairInv(pic) /\ LinesInv /\ pic \in [Pics -> Controllers] /\ InOrder(pic)
      /\ Cascaded(pic) /\ Sane(pic[p])
  BY DEF IInv, PairInv
<1>a. pic[p] \in Controllers BY <1>1
<1>2. /\ t \in Controllers /\ ~t.frozen /\ ~t.poll
      /\ t.irr = pic[p].irr /\ t.isr = pic[p].isr /\ t.imr = pic[p].imr
      /\ t.priority = pic[p].priority /\ t.interrupt = pic[p].interrupt
      /\ t.pending = pic[p].pending /\ t.icw3 = pic[p].icw3 /\ t.state = pic[p].state
  BY <1>a DEF Controllers
<1>3. thawed = [pic EXCEPT ![p] = t] BY <1>1
<1>4. pic' = IF pic[p].pending
             THEN update_pending([thawed EXCEPT
                    ![p] = [pic_acknowledge(p, @) EXCEPT !.pending = FALSE]])
             ELSE thawed
  BY DEF ReadPoll
<1> HIDE DEF t, thawed
<1>5. CASE ~pic[p].pending
  <2>1. pic' = [pic EXCEPT ![p] = t] BY <1>3, <1>4, <1>5
  <2>2. InOrder([pic EXCEPT ![p] = t]) BY <1>1, <1>2 DEF InOrder, Pics
  <2>3. PairInv([pic EXCEPT ![p] = t]) BY <1>1, <1>2, <1>5, <2>2, QuietStep
  <2> QED BY <1>1, <1>2, <2>1, <2>3, QuietOK
<1>6. CASE pic[p].pending
  <2> DEFINE a == pic_acknowledge(p, t)
             d == [a EXCEPT !.pending = FALSE]
             P == [pic EXCEPT ![p] = d]
  <2>1. t.interrupt \in Lines /\ t.interrupt \notin pic[p].isr BY <1>1, <1>2, <1>6 DEF Sane
  <2>2. /\ a \in Controllers /\ ~a.frozen /\ ~a.poll /\ a.icw3 = pic[p].icw3
        /\ a.state = pic[p].state
        /\ a.isr = pic[p].isr \cup {t.interrupt}
        /\ pic[p].irr \ {t.interrupt} \subseteq a.irr /\ a.irr \subseteq pic[p].irr
        /\ p = "s" /\ Straight => \A l \in Routes : l \in a.irr <=> l \in pic["s"].irr
    BY <1>1, <1>2, <2>1, AcknowledgeIs
  <2> HIDE DEF a
  <2>3. /\ d \in Controllers /\ ~d.frozen /\ ~d.poll /\ d.icw3 = pic[p].icw3
        /\ d.isr = a.isr /\ d.irr = a.irr /\ d.state = pic[p].state
    BY <2>2 DEF Controllers
  <2>4. [thawed EXCEPT ![p] = [pic_acknowledge(p, @) EXCEPT !.pending = FALSE]] = P
    BY <1>1, <1>3 DEF a
  <2>5. pic' = update_pending(P) BY <1>4, <1>6, <2>4
  <2>6. P[p] = d /\ \A q \in Pics \ {p} : P[q] = pic[q] BY <1>1
  <2> HIDE DEF d
  <2>7. p = "s" => ~pic["m"].poll BY <1>1 DEF ReadPoll, InOrder
  <2>8. PairInv(pic') /\ Kept(P, pic')
    <3>1. p = "s" /\ CASCADE \in pic["m"].irr => Drives(d)
      BY <1>1, <1>6, <2>3 DEF Cascaded, Orphan, JustInitialised, Drives
    <3>2. d.state = "icw4" => d.icw3 BY <1>1, <2>3 DEF InOrder
    <3> QED BY <1>1, <2>2, <2>3, <2>5, <2>7, <3>1, <3>2, WriteStep
  <2> HIDE DEF P
  <2>9. Edges
    <3> SUFFICES ASSUME NEW q \in Pics, NEW l \in (pic[q].irr \ pic'[q].irr) \ Driven(q)
                 PROVE  l \in pic'[q].isr \ pic[q].isr
      BY DEF Edges
    <3>1. l \notin P[q].irr BY <2>8, KeptEdges
    <3>2. q = p /\ l = t.interrupt BY <2>2, <2>3, <2>6, <3>1
    <3>3. pic'[q].isr = a.isr BY <2>3, <2>6, <2>8, <3>2 DEF Kept
    <3> QED BY <2>1, <2>2, <3>2, <3>3
  <2>10. SameLevels
    <3>1. CASE p = "s" BY <2>2, <2>3, <2>6, <2>8, <3>1 DEF Kept, SameLevels
    <3>2. CASE p # "s" BY <2>6, <2>8, <3>2 DEF Kept, SameLevels, Pics
    <3> QED BY <3>1, <3>2
  <2> QED BY <2>8, <2>9, <2>10 DEF StepOK
<1> QED BY <1>5, <1>6

LEMMA GuestStep == ASSUME IInv, Guest PROVE StepOK
<1>1. PICK p \in Pics :
        \/ ReadPoll(p)
        \/ /\ MayWrite
           /\ \/ WriteIcw1(p) \/ WriteIcw2(p) \/ WriteIcw3(p)
              \/ \E aeoi \in May(AutoEoi, p) : WriteIcw4(p, aeoi)
              \/ \E mask \in Masks : WriteImr(p, mask)
              \/ \E specific \in Lines \cup {None}, eoi \in BOOLEAN, rotate \in May(Rotate, p) :
                   WriteOcw2(p, specific, eoi, rotate)
              \/ \E rotate \in May(Rotate, p) : WriteOcw2Auto(p, rotate)
              \/ WriteOcw3Poll(p)
              \/ \E special \in May(Special, p) : WriteOcw3(p, special)
  BY DEF Guest
<1>2. pic \in [Pics -> Controllers] BY DEF IInv, PairInv
<1>3. \A S : May(S, p) \subseteq BOOLEAN BY DEF May
<1>4. CASE ReadPoll(p) BY <1>4, PollStep
<1>5. CASE MayWrite /\ WriteIcw1(p) BY <1>5, Icw1Step
<1>6. CASE MayWrite /\ WriteIcw2(p)
  <2> DEFINE d == [pic[p] EXCEPT !.state = "icw3"]
  <2>1. d \in Controllers BY <1>2 DEF Controllers, States
  <2>2. pic' = [pic EXCEPT ![p] = d] /\ pic[p].state # "none" BY <1>2, <1>6 DEF WriteIcw2
  <2> QED BY <1>2, <1>6, <2>1, <2>2, IcwStep DEF Controllers
<1>7. CASE MayWrite /\ WriteIcw3(p)
  <2> DEFINE d == [pic[p] EXCEPT !.state = "icw4", !.icw3 = TRUE]
  <2>1. d \in Controllers BY <1>2, ZenonT(60) DEF Controllers, States
  <2>2. pic' = [pic EXCEPT ![p] = d] /\ pic[p].state # "none" BY <1>2, <1>7 DEF WriteIcw3
  <2> QED BY <1>2, <1>7, <2>1, <2>2, IcwStep DEF Controllers
<1>8. ASSUME MayWrite, NEW aeoi \in May(AutoEoi, p), WriteIcw4(p, aeoi) PROVE StepOK
  <2> DEFINE d == [pic[p] EXCEPT !.state = "none", !.aeoi = aeoi]
  <2>1. d \in Controllers BY <1>2, <1>3, ZenonT(60) DEF Controllers, States
  <2>2. pic' = [pic EXCEPT ![p] = d] /\ pic[p].state # "none" BY <1>2, <1>8 DEF WriteIcw4
  <2>3. d.icw3 BY <1>2, <1>8 DEF WriteIcw4, Controllers, IInv, PairInv, InOrder
  <2> QED BY <1>2, <1>8, <2>1, <2>2, <2>3, IcwStep DEF Controllers
<1>9. ASSUME MayWrite, NEW mask \in Masks, WriteImr(p, mask) PROVE StepOK BY <1>9, ImrStep
<1>10. ASSUME MayWrite, NEW specific \in Lines \cup {None}, NEW eoi \in BOOLEAN,
              NEW rotate \in May(Rotate, p), WriteOcw2(p, specific, eoi, rotate)
       PROVE  StepOK
  BY <1>3, <1>10, Ocw2Step
<1>11. ASSUME MayWrite, NEW rotate \in May(Rotate, p), WriteOcw2Auto(p, rotate) PROVE StepOK
  <2> DEFINE d == [pic[p] EXCEPT !.rotate = rotate]
  <2>1. d \in Controllers BY <1>2, <1>3 DEF Controllers
  <2>2. pic' = [pic EXCEPT ![p] = d] BY <1>2, <1>11 DEF WriteOcw2Auto
  <2> QED BY <1>2, <1>11, <2>1, <2>2, ModeStep DEF Controllers
<1>12. CASE MayWrite /\ WriteOcw3Poll(p)
  <2> DEFINE d == [pic[p] EXCEPT !.poll = TRUE, !.frozen = TRUE]
  <2>1. d \in Controllers BY <1>2 DEF Controllers
  <2>2. pic' = [pic EXCEPT ![p] = d] BY <1>2, <1>12 DEF WriteOcw3Poll
  <2> QED BY <1>2, <1>12, <2>1, <2>2, ModeStep DEF Controllers
<1>13. ASSUME MayWrite, NEW special \in May(Special, p), WriteOcw3(p, special) PROVE StepOK
  <2> DEFINE d == [pic[p] EXCEPT !.poll = FALSE, !.special = special]
  <2>1. d \in Controllers BY <1>2, <1>3, ZenonT(60) DEF Controllers
  <2>2. pic' = [pic EXCEPT ![p] = d] BY <1>2, <1>13 DEF WriteOcw3
  <2>3. d.poll = pic[p].poll BY <1>2, <1>13 DEF MayWrite, Controllers
  <2> QED BY <1>2, <1>13, <2>1, <2>2, <2>3, ModeStep DEF Controllers
<1> QED BY <1>1, <1>4, <1>5, <1>6, <1>7, <1>8, <1>9, <1>10, <1>11, <1>12, <1>13
-----------------------------------------------------------------------------
(* The processor takes an interrupt.                                        *)

(* The fields of a controller that has been acknowledged twice and has      *)
(* ended its interrupt automatically or not.                                *)
LEMMA ServedIs ==
  ASSUME IInv, NEW p \in Pics, pic[p].pending
  PROVE  LET e == Served(p)
         IN  /\ e \in Controllers /\ ~e.frozen
             /\ e.poll = pic[p].poll /\ e.icw3 = pic[p].icw3 /\ e.state = pic[p].state
             /\ pic[p].irr \ {pic[p].interrupt} \subseteq e.irr /\ e.irr \subseteq pic[p].irr
             /\ p = "s" /\ Straight => \A l \in Routes : l \in e.irr <=> l \in pic["s"].irr
<1> DEFINE a == pic_acknowledge(p, pic[p])
           f == Freeze(p, pic[p])
           g == AutoEnd(f)
           e == Served(p)
           l == pic_non_specific_find(f)
<1>1. pic \in [Pics -> Controllers] /\ LinesInv /\ Sane(pic[p]) BY DEF IInv, PairInv
<1>2. pic[p].interrupt \in Lines BY <1>1 DEF Sane
<1>3. /\ a \in Controllers /\ a.icw3 = pic[p].icw3 /\ a.poll = pic[p].poll
      /\ a.state = pic[p].state
      /\ pic[p].irr \ {pic[p].interrupt} \subseteq a.irr /\ a.irr \subseteq pic[p].irr
      /\ p = "s" /\ Straight => \A k \in Routes : k \in a.irr <=> k \in pic["s"].irr
  BY <1>1, <1>2, AcknowledgeIs
<1>4. f = [a EXCEPT !.frozen = TRUE, !.pending = FALSE] BY DEF Freeze
<1> HIDE DEF a
<1>5. f \in Controllers /\ f.icw3 = a.icw3 /\ f.poll = a.poll /\ f.irr = a.irr /\ f.state = a.state
  BY <1>3, <1>4 DEF Controllers
<1> HIDE DEF f
<1>6. g \in Controllers /\ g.icw3 = f.icw3 /\ g.poll = f.poll /\ g.irr = f.irr /\ g.state = f.state
  <2>1. g = IF f.aeoi /\ l # None THEN Acted(f, l, TRUE, f.rotate) ELSE f BY DEF AutoEnd
  <2>2. l \in Lines \cup {None} /\ f.rotate \in BOOLEAN BY <1>5, NonSpecificType DEF Controllers
  <2> HIDE DEF l, g
  <2>3. CASE f.aeoi /\ l # None
    <3> DEFINE h(eoi, rotate) == Acted(f, l, eoi, rotate)
    <3>1. \A eoi, rotate \in BOOLEAN :
            LET d == h(eoi, rotate)
            IN  /\ d \in Controllers /\ d.icw3 = f.icw3 /\ d.poll = f.poll /\ d.irr = f.irr
                /\ d.state = f.state
      BY <1>5, <2>2, <2>3, ActedIs
    <3>2. g = h(TRUE, f.rotate) BY <2>1, <2>3
    <3> HIDE DEF h
    <3> QED BY <2>2, <3>1, <3>2, Zenon
  <2>4. CASE ~(f.aeoi /\ l # None) BY <1>5, <2>1, <2>4
  <2> QED BY <2>3, <2>4
<1>7. e = [g EXCEPT !.interrupt = None, !.frozen = FALSE] BY DEF Served, Thaw, f
<1> HIDE DEF g, e
<1>8. /\ e \in Controllers /\ ~e.frozen /\ e.icw3 = g.icw3 /\ e.poll = g.poll
      /\ e.irr = g.irr /\ e.state = g.state
  BY <1>6, <1>7 DEF Controllers
<1> QED BY <1>3, <1>5, <1>6, <1>8 DEF e

(* The interrupts the processor may take, the master's and the slave's if   *)
(* it answers, are what the registers give; a slave behind the cascade line *)
(* does not answer only when it was initialised while it requested.         *)
LEMMA TakesChosen ==
  ASSUME PairInv(pic), Takes
  PROVE  /\ \A p \in Pics : p = "m" \/ SlaveAnswers =>
              pic[p].pending /\ pic[p].interrupt = find_best_interrupt(pic[p])
         /\ FromSlave => SlaveAnswers \/ JustInitialised(pic["s"])
<1>1. /\ pic \in [Pics -> Controllers] /\ Chosen(pic) /\ Cascaded(pic) /\ Sane(pic["m"])
      /\ "m" \in Pics /\ "s" \in Pics
  BY DEF PairInv, Pics
<1>2. pic["m"].pending /\ ~pic["m"].poll BY <1>1 DEF Takes
<1>3. pic["m"].interrupt = find_best_interrupt(pic["m"]) /\ pic["m"].interrupt \in Lines
  BY <1>1, <1>2 DEF Chosen, Sane
<1>4. pic["m"].interrupt \in pic["m"].irr BY <1>1, <1>3, BestIs, LineFacts
<1>5. FromSlave => SlaveAnswers \/ JustInitialised(pic["s"])
  BY <1>1, <1>4 DEF FromSlave, SlaveAnswers, Cascaded, Orphan
<1>6. SlaveAnswers => pic["s"].pending /\ pic["s"].interrupt = find_best_interrupt(pic["s"])
  BY <1>1, <1>2 DEF Chosen, SlaveAnswers
<1> QED BY <1>2, <1>3, <1>5, <1>6 DEF Pics

LEMMA InterruptStep == ASSUME IInv, picinterrupt PROVE StepOK
<1> DEFINE Taken(p) == p = "m" \/ SlaveAnswers
           P == [p \in Pics |-> IF p = "m" \/ SlaveAnswers THEN Served(p) ELSE pic[p]]
<1>1. /\ PairInv(pic) /\ pic \in [Pics -> Controllers] /\ InOrder(pic) /\ Cascaded(pic)
      /\ "m" \in Pics /\ "s" \in Pics
  BY DEF IInv, PairInv, Pics
<1>2. Takes /\ pic' = update_pending(P) BY DEF picinterrupt
<1>3. \A p \in Pics : Taken(p) => pic[p].pending BY <1>1, <1>2, TakesChosen
<1>4. \A p \in Pics : P[p] = IF Taken(p) THEN Served(p) ELSE pic[p] OBVIOUS
<1>5. ASSUME NEW p \in Pics
      PROVE  /\ P[p] \in Controllers
             /\ P[p].poll = pic[p].poll /\ P[p].icw3 = pic[p].icw3
             /\ P[p].state = pic[p].state
             /\ pic[p].irr \ {pic[p].interrupt} \subseteq P[p].irr /\ P[p].irr \subseteq pic[p].irr
             /\ p = "s" /\ Straight => \A l \in Routes : l \in P[p].irr <=> l \in pic["s"].irr
             /\ p = "m" => ~P[p].frozen
  <2> HIDE DEF P
  <2>1. CASE Taken(p) BY <1>3, <1>4, <2>1, ServedIs
  <2>2. CASE ~Taken(p) BY <1>1, <1>4, <2>2
  <2> QED BY <2>1, <2>2
<1>6. P \in [Pics -> Controllers]
  <2>1. \A p \in Pics : P[p] \in Controllers BY <1>5
  <2> QED BY <2>1, <1>4
<1> HIDE DEF P
<1>7. ~P["m"].poll /\ ~P["m"].frozen BY <1>1, <1>2, <1>5 DEF Takes
<1>8. InOrder(P) BY <1>2, <1>5, <1>7 DEF InOrder, Takes
<1>9. Drives(P["s"]) BY <1>1, <1>2, <1>5 DEF Takes, Drives
<1>10. PairInv(pic') /\ Kept(P, pic') BY <1>2, <1>6, <1>7, <1>8, <1>9, Refreshed
<1>11. Edges
  <2> SUFFICES ASSUME NEW p \in Pics, NEW l \in (pic[p].irr \ pic'[p].irr) \ Driven(p)
               PROVE  l = pic[p].interrupt
    BY DEF Edges
  <2>1. l \notin P[p].irr BY <1>10, KeptEdges
  <2> QED BY <1>5, <2>1
<1>12. SameLevels BY <1>1, <1>5, <1>10 DEF Kept, SameLevels
<1> QED BY <1>10, <1>11, <1>12 DEF StepOK
-----------------------------------------------------------------------------
(* The devices.                                                             *)

(* An edge device is neither on the master's cascade line nor on a line of  *)
(* the cards.                                                               *)
LEMMA EdgeDevice ==
  ASSUME NEW irq \in EdgeIrqs
  PROVE  /\ irq = <<irq[1], irq[2]>> /\ irq[1] \in Pics /\ irq[2] \in Lines
         /\ irq[1] = "m" => irq[2] # CASCADE
         /\ irq[1] = "s" => irq[2] \notin Routes
BY PicAssumption

LEMMA EdgeStep ==
  ASSUME IInv, NEW irq \in EdgeIrqs, picint(irq[1], irq[2]) \/ picintc(irq[1], irq[2])
  PROVE  StepOK
<1> DEFINE p == irq[1]
           l == irq[2]
<1>1. /\ p \in Pics /\ l \in Lines /\ <<p, l>> \in EdgeIrqs
      /\ p = "m" => l # CASCADE
      /\ p = "s" => l \notin Routes
  BY EdgeDevice
<1> HIDE DEF p, l
<1>2. PairInv(pic) /\ pic \in [Pics -> Controllers] BY DEF IInv, PairInv
<1>3. pic[p] \in Controllers /\ pic[p].irr \in SUBSET Lines BY <1>1, <1>2 DEF Controllers
<1>4. ASSUME NEW X \in SUBSET Lines, p = "m" /\ CASCADE \in X => CASCADE \in pic[p].irr,
             pic' = update_pending([pic EXCEPT ![p].irr = X]),
             \A k \in Lines : k # l => (k \in X <=> k \in pic[p].irr)
      PROVE  /\ PairInv(pic') /\ SameLevels
             /\ \A q \in Pics : \A k \in (pic[q].irr \ pic'[q].irr) \ Driven(q) :
                  q = p /\ k = l /\ l \notin X
  <2> DEFINE P == [pic EXCEPT ![p].irr = X]
  <2>1. PairInv(pic') /\ Kept(P, pic') BY <1>1, <1>2, <1>4, DeviceStep
  <2>2. P[p].irr = X /\ \A q \in Pics \ {p} : P[q] = pic[q] BY <1>1, <1>2, <1>3 DEF Controllers
  <2> HIDE DEF P
  <2>3. SameLevels BY <1>1, <1>4, <2>1, <2>2, LineFacts DEF Kept, SameLevels, Pics
  <2>4. ASSUME NEW q \in Pics, NEW k \in (pic[q].irr \ pic'[q].irr) \ Driven(q)
        PROVE  q = p /\ k = l /\ l \notin X
    <3>1. k \notin P[q].irr BY <2>1, KeptEdges
    <3>2. q = p BY <2>2, <3>1
    <3> QED BY <1>3, <1>4, <2>2, <3>1, <3>2
  <2> QED BY <2>1, <2>3, <2>4
<1>5. CASE picint(p, l)
  <2> DEFINE X == pic[p].irr \cup {l}
  <2>1. pic' = update_pending([pic EXCEPT ![p].irr = X]) BY <1>5 DEF picint
  <2>2. X \in SUBSET Lines /\ (p = "m" /\ CASCADE \in X => CASCADE \in pic[p].irr)
    BY <1>1, <1>3
  <2>3. PairInv(pic') /\ SameLevels /\ \A q \in Pics : (pic[q].irr \ pic'[q].irr) \ Driven(q) = {}
    BY <1>4, <2>1, <2>2
  <2> QED BY <2>3 DEF StepOK, Edges
<1>6. CASE picintc(p, l)
  <2> DEFINE X == pic[p].irr \ {l}
  <2>1. pic' = update_pending([pic EXCEPT ![p].irr = X]) BY <1>6 DEF picintc
  <2>2. X \in SUBSET Lines /\ (p = "m" /\ CASCADE \in X => CASCADE \in pic[p].irr)
    BY <1>1, <1>3
  <2>3. /\ PairInv(pic') /\ SameLevels
        /\ \A q \in Pics : \A k \in (pic[q].irr \ pic'[q].irr) \ Driven(q) : q = p /\ k = l
    BY <1>4, <2>1, <2>2
  <2> QED BY <1>1, <1>6, <2>3 DEF StepOK, Edges
<1> QED BY <1>5, <1>6 DEF p, l

(* A line is held by what was heard of the cards when it is by the cards. *)
LEMMA HeardLevels ==
  ASSUME NEW f \in [Cards -> Routes \cup {None, Stray}], NEW a \in [Cards -> BOOLEAN], NEW r,
         \A c \in Cards : f[c] = IF a[c] THEN r ELSE None, NEW l \in Routes
  PROVE  Cardinality({c \in Cards : f[c] = l}) > 0 <=> \E c \in Cards : a[c] /\ r = l
<1> DEFINE H == {c \in Cards : f[c] = l}
<1>1. l # None BY LineFacts
<1>2. IsFiniteSet(H) /\ Cardinality(H) \in Nat
  BY PicAssumption, FS_Subset, FS_CardinalityType
<1>3. Cardinality(H) > 0 <=> H # {}
  <2> HIDE DEF H
  <2> QED BY <1>2, FS_EmptySet
<1>4. H # {} <=> \E c \in Cards : a[c] /\ r = l BY <1>1
<1> QED BY <1>3, <1>4

(* It is enough that lines[] and the requests agree with what was heard. *)
LEMMA LinesFrom ==
  ASSUME lines' \in [Lines -> 0 .. LINE_COUNT - 1], asserted' \in [Cards -> BOOLEAN],
         route' \in Routes \cup {None}, counted' \in [Cards -> Routes \cup {None, Stray}],
         Straight' => \A l \in Routes :
           /\ lines'[l] = Cardinality({c \in Cards : counted'[c] = l})
           /\ (l \in pic'["s"].irr) <=> (lines'[l] > 0)
  PROVE  LinesInv'
<1>1. ASSUME Heard', NEW l \in Routes
      PROVE  Cardinality({c \in Cards : counted'[c] = l}) > 0
               <=> \E c \in Cards : asserted'[c] /\ route' = l
  <2>1. \A c \in Cards : counted'[c] = IF asserted'[c] THEN route' ELSE None BY <1>1 DEF Heard
  <2> QED BY <2>1, HeardLevels
<1>2. LevelFollowsCards' BY <1>1 DEF LevelFollowsCards
<1> QED BY <1>2 DEF LinesInv

(* The line of the pin is requested or withdrawn. *)
LEMMA LevelStep ==
  ASSUME PairInv(pic), route \in Routes, NEW X \in SUBSET Lines,
         \A l \in Lines : l # route => (l \in X <=> l \in pic["s"].irr),
         pic' = update_pending([pic EXCEPT !["s"].irr = X])
  PROVE  PairInv(pic') /\ Edges /\ pic'["s"].irr = X
<1> DEFINE P == [pic EXCEPT !["s"].irr = X]
<1>1. pic \in [Pics -> Controllers] /\ "s" \in Pics BY DEF PairInv, Pics
<1>2. pic["s"].irr \in SUBSET Lines BY <1>1 DEF Controllers
<1>3. PairInv(pic') /\ Kept(P, pic') BY <1>1, DeviceStep
<1>4. P["s"].irr = X /\ P["m"] = pic["m"] BY <1>1 DEF Controllers, Pics
<1> HIDE DEF P
<1>5. \A q \in Pics : \A l \in (pic[q].irr \ pic'[q].irr) \ Driven(q) : l \notin P[q].irr
  BY <1>3, KeptEdges
<1>6. (pic["m"].irr \ pic'["m"].irr) \ Driven("m") = {} BY <1>4, <1>5 DEF Pics
<1>7. (pic["s"].irr \ pic'["s"].irr) \ Driven("s") = {}
  BY <1>1, <1>2, <1>4, <1>5 DEF Driven
<1>8. Edges BY <1>6, <1>7 DEF Edges, Pics
<1> QED BY <1>3, <1>4, <1>8 DEF Kept

(* The count of a line the cards hold, and its request, change together. *)
LEMMA CardStep ==
  ASSUME IInv, NEW c \in Cards, pci_set_irq(c) \/ pci_clear_irq(c)
  PROVE  PairInv(pic') /\ Edges /\ LinesInv'
<1> DEFINE H == {k \in Cards : counted[k] = route}
           G == {k \in Cards : counted'[k] = route}
           n == Cardinality(H)
<1>1. /\ PairInv(pic) /\ LinesInv /\ pic \in [Pics -> Controllers]
      /\ lines \in [Lines -> 0 .. LINE_COUNT - 1] /\ asserted \in [Cards -> BOOLEAN]
      /\ route \in Routes \cup {None} /\ counted \in [Cards -> Routes \cup {None, Stray}]
  BY DEF IInv, PairInv, LinesInv
<1>2. route \in Routes /\ route \in Lines /\ route' = route /\ asserted' \in [Cards -> BOOLEAN]
  BY <1>1, LineFacts DEF pci_set_irq, pci_clear_irq
<1>3. CASE ~Reaches("s")
  <2>1. pic' = pic /\ lines' = lines /\ counted' = counted
    BY <1>3 DEF pci_set_irq, pci_clear_irq
  <2>2. Straight' => \A l \in Routes :
          /\ lines'[l] = Cardinality({k \in Cards : counted'[k] = l})
          /\ (l \in pic'["s"].irr) <=> (lines'[l] > 0)
    BY <1>1, <2>1 DEF LinesInv, LevelFollowsCards, Straight
  <2>3. LinesInv' BY <1>1, <1>2, <2>1, <2>2, LinesFrom
  <2> QED BY <1>1, <2>1, <2>3 DEF Edges
<1>4. CASE Reaches("s")
  <2>1. /\ IsFiniteSet(H) /\ IsFiniteSet(G) /\ n \in Nat /\ Cardinality(G) \in Nat
        /\ Cardinality(G) < LINE_COUNT /\ LINE_COUNT \in Nat \ {0}
    <3>1. H \subseteq Cards /\ G \subseteq Cards OBVIOUS
    <3> HIDE DEF H, G
    <3>2. IsFiniteSet(H) /\ IsFiniteSet(G) /\ Cardinality(G) <= Cardinality(Cards)
      BY <3>1, PicAssumption, FS_Subset
    <3>3. Cardinality(Cards) \in Nat BY PicAssumption, FS_CardinalityType
    <3> QED BY <3>2, <3>3, PicAssumption, FS_CardinalityType
  <2>2. \A m \in Int : Entry(m) \in 0 .. LINE_COUNT - 1 BY <2>1 DEF Entry
  <2>3. \A m \in 0 .. LINE_COUNT - 1 : Entry(m) = m BY <2>1 DEF Entry
  <2>4. pic["s"].irr \in SUBSET Lines BY <1>1 DEF Pics, Controllers
  <2>5. Straight => /\ lines[route] = n
                    /\ \A l \in Routes : /\ lines[l] = Cardinality({k \in Cards : counted[k] = l})
                                         /\ (l \in pic["s"].irr) <=> (lines[l] > 0)
    BY <1>1, <1>2 DEF LinesInv, LevelFollowsCards
  <2>6. ASSUME NEW m \in 0 .. LINE_COUNT - 1, lines' = [lines EXCEPT ![route] = m],
               counted' \in [Cards -> Routes \cup {None, Stray}],
               Straight' => /\ Straight /\ m = Cardinality(G) /\ (route \in pic'["s"].irr <=> m > 0)
                            /\ \A l \in Routes \ {route} :
                                 /\ counted'[c] # l /\ counted[c] # l
                                 /\ (l \in pic'["s"].irr <=> l \in pic["s"].irr),
               \A k \in Cards \ {c} : counted'[k] = counted[k]
        PROVE  LinesInv'
    <3>1. lines' \in [Lines -> 0 .. LINE_COUNT - 1] BY <1>1, <2>6
    <3>2. ASSUME Straight', NEW l \in Routes
          PROVE  /\ lines'[l] = Cardinality({k \in Cards : counted'[k] = l})
                 /\ (l \in pic'["s"].irr) <=> (lines'[l] > 0)
      <4>1. l \in Lines BY LineFacts
      <4>2. CASE l = route BY <1>1, <2>6, <3>2, <4>1, <4>2
      <4>3. CASE l # route
        <5>1. {k \in Cards : counted'[k] = l} = {k \in Cards : counted[k] = l}
          BY <2>6, <3>2, <4>3
        <5>2. lines'[l] = lines[l] BY <1>1, <2>6, <4>1, <4>3
        <5> QED BY <2>5, <2>6, <3>2, <4>3, <5>1, <5>2
      <4> QED BY <4>2, <4>3
    <3> QED BY <1>2, <2>6, <3>1, <3>2, LinesFrom
  <2>7. CASE pci_set_irq(c)
    <3> DEFINE X == pic["s"].irr \cup {route}
               m == Entry(lines[route] + 1)
    <3>1. /\ lines' = [lines EXCEPT ![route] = m]
          /\ counted' = [counted EXCEPT ![c] = IF @ = None THEN route ELSE Stray]
          /\ pic' = IF m = 1 THEN update_pending([pic EXCEPT !["s"].irr = X]) ELSE pic
      BY <1>4, <2>7 DEF pci_set_irq
    <3>2. m \in 0 .. LINE_COUNT - 1 BY <1>1, <1>2, <2>2
    <3>3. /\ counted' \in [Cards -> Routes \cup {None, Stray}]
          /\ counted'[c] = IF counted[c] = None THEN route ELSE Stray
          /\ \A k \in Cards \ {c} : counted'[k] = counted[k]
      BY <1>1, <1>2, <3>1
    <3>4. Straight' => Straight /\ counted[c] = None /\ counted'[c] = route
      BY <3>3 DEF Straight, None, Stray
    <3>5. Straight' => Cardinality(G) = n + 1
      <4> SUFFICES ASSUME Straight' PROVE Cardinality(G) = n + 1 OBVIOUS
      <4>1. c \notin H /\ G = H \cup {c} BY <1>2, <3>3, <3>4, LineFacts
      <4> HIDE DEF G, H
      <4> QED BY <2>1, <4>1, FS_AddElement
    <3>6. Straight' => m = n + 1 BY <2>1, <2>3, <2>5, <3>4, <3>5
    <3>7. PairInv(pic') /\ Edges /\ pic'["s"].irr = IF m = 1 THEN X ELSE pic["s"].irr
      <4>1. X \in SUBSET Lines BY <1>2, <2>4
      <4> HIDE DEF m
      <4>2. CASE m = 1 BY <1>1, <1>2, <3>1, <4>1, <4>2, LevelStep
      <4>3. CASE m # 1 BY <1>1, <3>1, <4>3 DEF Edges
      <4> QED BY <4>2, <4>3
    <3> HIDE DEF m, n, G, H
    <3>8. Straight' => route \in pic'["s"].irr /\ m > 0
      <4> SUFFICES ASSUME Straight' PROVE route \in pic'["s"].irr /\ m > 0 OBVIOUS
      <4>1. route \in pic["s"].irr <=> n > 0 BY <1>2, <2>5, <3>4
      <4>2. n \in Nat /\ m = n + 1 BY <2>1, <3>6
      <4>3. route \in pic'["s"].irr <=> m = 1 \/ route \in pic["s"].irr BY <3>7
      <4> QED BY <4>1, <4>2, <4>3
    <3>9. Straight' => \A l \in Routes \ {route} :
            /\ counted'[c] # l /\ counted[c] # l
            /\ (l \in pic'["s"].irr <=> l \in pic["s"].irr)
      BY <3>4, <3>7, LineFacts
    <3>10. LinesInv' BY <2>6, <3>1, <3>2, <3>3, <3>4, <3>5, <3>6, <3>8, <3>9
    <3> QED BY <3>7, <3>10
  <2>8. CASE pci_clear_irq(c)
    <3> DEFINE X == pic["s"].irr \ {route}
               m == Entry(lines[route] - 1)
    <3>1. /\ lines' = [lines EXCEPT ![route] = m]
          /\ counted' = [counted EXCEPT ![c] = IF @ = route THEN None ELSE Stray]
          /\ pic' = IF m = 0 THEN update_pending([pic EXCEPT !["s"].irr = X]) ELSE pic
      BY <1>4, <2>8 DEF pci_clear_irq, LastRelease
    <3>2. m \in 0 .. LINE_COUNT - 1 BY <1>1, <1>2, <2>2
    <3>3. /\ counted' \in [Cards -> Routes \cup {None, Stray}]
          /\ counted'[c] = IF counted[c] = route THEN None ELSE Stray
          /\ \A k \in Cards \ {c} : counted'[k] = counted[k]
      BY <1>1, <1>2, <3>1
    <3>4. Straight' => Straight /\ counted[c] = route /\ counted'[c] = None
      <4>1. route # Stray BY <1>2 DEF Lines, Stray
      <4> QED BY <3>3, <4>1 DEF Straight, None, Stray
    <3>5. Straight' => n # 0 /\ Cardinality(G) = n - 1
      <4> SUFFICES ASSUME Straight' PROVE n # 0 /\ Cardinality(G) = n - 1 OBVIOUS
      <4>1. c \in H /\ G = H \ {c} BY <1>2, <3>3, <3>4, LineFacts
      <4> HIDE DEF G, H
      <4> QED BY <2>1, <4>1, FS_RemoveElement, FS_EmptySet
    <3>6. Straight' => m = n - 1 BY <2>1, <2>3, <2>5, <3>4, <3>5
    <3>7. PairInv(pic') /\ Edges /\ pic'["s"].irr = IF m = 0 THEN X ELSE pic["s"].irr
      <4>1. X \in SUBSET Lines BY <2>4
      <4> HIDE DEF m
      <4>2. CASE m = 0 BY <1>1, <1>2, <3>1, <4>1, <4>2, LevelStep
      <4>3. CASE m # 0 BY <1>1, <3>1, <4>3 DEF Edges
      <4> QED BY <4>2, <4>3
    <3> HIDE DEF m, n, G, H
    <3>8. Straight' => (route \in pic'["s"].irr <=> m > 0)
      <4> SUFFICES ASSUME Straight' PROVE route \in pic'["s"].irr <=> m > 0 OBVIOUS
      <4>1. route \in pic["s"].irr <=> n > 0 BY <1>2, <2>5, <3>4
      <4>2. n \in Nat \ {0} /\ m = n - 1 BY <2>1, <3>5, <3>6
      <4>3. route \in pic'["s"].irr <=> m # 0 /\ route \in pic["s"].irr BY <3>7
      <4> QED BY <4>1, <4>2, <4>3
    <3>9. Straight' => \A l \in Routes \ {route} :
            /\ counted'[c] # l /\ counted[c] # l
            /\ (l \in pic'["s"].irr <=> l \in pic["s"].irr)
      BY <3>4, <3>7, LineFacts
    <3>10. LinesInv' BY <2>6, <3>1, <3>2, <3>3, <3>4, <3>5, <3>6, <3>8, <3>9
    <3> QED BY <3>7, <3>10
  <2> QED BY <2>7, <2>8
<1> QED BY <1>3, <1>4
-----------------------------------------------------------------------------
(* The theorems.                                                            *)

(* A step that keeps the levels and does not touch the cards keeps their    *)
(* counts in order.                                                         *)
LEMMA SameLines ==
  ASSUME LinesInv, SameLevels, UNCHANGED cardVars PROVE LinesInv'
BY DEF LinesInv, LevelFollowsCards, SameLevels, Straight, Heard, cardVars

(* Rerouting the pin changes nothing the controllers have heard. *)
LEMMA RouteStep ==
  ASSUME IInv, NEW r \in Routes \cup {None}, pci_set_irq_routing(r)
  PROVE  PairInv(pic') /\ Edges /\ LinesInv'
<1>1. /\ pic' = pic /\ lines' = lines /\ asserted' = asserted /\ counted' = counted
      /\ route' = r
  BY DEF pci_set_irq_routing
<1>2. Straight' => \A l \in Routes :
        /\ lines'[l] = Cardinality({k \in Cards : counted'[k] = l})
        /\ (l \in pic'["s"].irr) <=> (lines'[l] > 0)
  BY <1>1 DEF IInv, LinesInv, LevelFollowsCards, Straight
<1>3. LinesInv' BY <1>1, <1>2, LinesFrom DEF IInv, LinesInv
<1> QED BY <1>1, <1>3 DEF IInv, Edges

(* Every step keeps the invariant and loses no edge. *)
LEMMA NextStep == ASSUME IInv, [Next]_vars PROVE IInv' /\ (Edges \/ UNCHANGED vars)
<1>1. CASE Guest
  <2>1. StepOK BY <1>1, GuestStep
  <2>2. UNCHANGED cardVars
    BY <1>1 DEF Guest, ReadPoll, WriteIcw1, WriteIcw2, WriteIcw3, WriteIcw4, WriteImr,
                WriteOcw2, WriteOcw2Auto, WriteOcw3Poll, WriteOcw3
  <2> QED BY <2>1, <2>2, SameLines DEF IInv, StepOK
<1>2. CASE picinterrupt
  <2>1. StepOK BY <1>2, InterruptStep
  <2>2. UNCHANGED cardVars BY <1>2 DEF picinterrupt
  <2> QED BY <2>1, <2>2, SameLines DEF IInv, StepOK
<1>3. ASSUME NEW irq \in EdgeIrqs, picint(irq[1], irq[2]) \/ picintc(irq[1], irq[2])
      PROVE  IInv' /\ Edges
  <2>1. StepOK BY <1>3, EdgeStep
  <2>2. UNCHANGED cardVars BY <1>3 DEF picint, picintc
  <2> QED BY <2>1, <2>2, SameLines DEF IInv, StepOK
<1>4. ASSUME NEW c \in Cards, pci_set_irq(c) \/ pci_clear_irq(c) PROVE IInv' /\ Edges
  BY <1>4, CardStep DEF IInv
<1>5. ASSUME NEW r \in Routes \cup {None}, pci_set_irq_routing(r) PROVE IInv' /\ Edges
  BY <1>5, RouteStep DEF IInv
<1>6. CASE UNCHANGED vars
  <2>1. pic' = pic /\ LinesInv'
    BY <1>6 DEF vars, IInv, LinesInv, LevelFollowsCards, Straight, Heard
  <2> QED BY <1>6, <2>1 DEF IInv
<1> QED BY <1>1, <1>2, <1>3, <1>4, <1>5, <1>6 DEF Next, Devices

LEMMA InitOK == Init => IInv
<1> SUFFICES ASSUME Init PROVE IInv OBVIOUS
<1>1. Reset \in Controllers /\ ~Reset.pending /\ ~Reset.poll /\ ~Reset.frozen /\ Reset.irr = {}
      /\ Reset.state = "none"
  BY LineFacts DEF Reset, Controllers, States
<1>2. pic \in [Pics -> Controllers] /\ \A p \in Pics : pic[p] = Reset BY <1>1 DEF Init
<1>3. "m" \in Pics /\ "s" \in Pics BY DEF Pics
<1>4. PairInv(pic)
  BY <1>1, <1>2, <1>3 DEF PairInv, Sane, Chosen, Cascaded, InOrder
<1>5. lines \in [Lines -> 0 .. LINE_COUNT - 1] /\ \A l \in Lines : lines[l] = 0
  <2>1. Cardinality(Cards) \in Nat BY PicAssumption, FS_CardinalityType
  <2>2. 0 \in 0 .. LINE_COUNT - 1 BY <2>1, PicAssumption
  <2> QED BY <2>2 DEF Init
<1>6. /\ asserted \in [Cards -> BOOLEAN] /\ route \in Routes \cup {None}
      /\ counted \in [Cards -> Routes \cup {None, Stray}]
  BY DEF Init
<1>7. LevelFollowsCards
  <2> SUFFICES ASSUME NEW l \in Routes
               PROVE  /\ lines[l] = Cardinality({c \in Cards : counted[c] = l})
                      /\ (l \in pic["s"].irr) <=> (lines[l] > 0)
                      /\ (l \in pic["s"].irr) <=> (\E c \in Cards : asserted[c] /\ route = l)
    BY DEF LevelFollowsCards
  <2>1. {c \in Cards : counted[c] = l} = {} BY LineFacts DEF Init
  <2>2. lines[l] = 0 /\ \A c \in Cards : ~asserted[c] BY <1>5, LineFacts DEF Init
  <2>3. l \notin pic["s"].irr BY <1>1, <1>2, <1>3
  <2>4. Cardinality({c \in Cards : counted[c] = l}) = 0 BY <2>1, FS_EmptySet
  <2> QED BY <2>2, <2>3, <2>4
<1> QED BY <1>4, <1>5, <1>6, <1>7 DEF IInv, LinesInv

LEMMA Invariance == Spec => []IInv
<1>1. IInv /\ [Next]_vars => IInv' BY NextStep
<1> QED BY <1>1, InitOK, PTL DEF Spec

(* The processor is never handed an interrupt that is masked, withdrawn or  *)
(* held back: whenever it may call picinterrupt, what update_pending cached *)
(* is what the registers give, although polls freeze the cache and three of *)
(* the four initialisation words do not refresh it.  It finds the master's  *)
(* cascade line requested and the slave with nothing pending only after the *)
(* guest initialised the slave while it requested: that alone is what the   *)
(* correction in picinterrupt is needed for.                                *)
THEOREM PhantomCorrect == Spec => []NoPhantom
<1>1. IInv => NoPhantom
  <2> SUFFICES ASSUME IInv PROVE NoPhantom OBVIOUS
  <2>1. TypeOK
    <3>1. pic \in [Pics -> Controllers] /\ LinesInv BY DEF IInv, PairInv
    <3>2. \A p \in Pics : pic[p] \in Controllers BY <3>1
    <3> QED BY <3>1, <3>2 DEF TypeOK, LinesInv, Controllers, States
  <2>2. Takes => /\ \A p \in Pics : p = "m" \/ SlaveAnswers =>
                      pic[p].pending /\ pic[p].interrupt = find_best_interrupt(pic[p])
                 /\ FromSlave => SlaveAnswers \/ JustInitialised(pic["s"])
    BY TakesChosen DEF IInv
  <2> QED BY <2>1, <2>2 DEF NoPhantom, Pics
<1> QED BY <1>1, Invariance, PTL

(* A level-triggered line of the slave is requested exactly while a card    *)
(* holds it by what the controllers heard, and lines[] counts those cards,  *)
(* whatever the cards, the router and the guest do: acknowledging, polling, *)
(* masking and initialising either controller neither drop a level nor      *)
(* leave one behind.  It ends only with a change of a card that does not    *)
(* match what was counted for it, which lines[] cannot tell from another.   *)
THEOREM LevelsCorrect == Spec => []LevelFollowsCards
<1>1. IInv => LevelFollowsCards BY DEF IInv, LinesInv
<1> QED BY <1>1, Invariance, PTL

(* An edge is kept until it is acknowledged, withdrawn by its device or its *)
(* controller initialised.                                                  *)
THEOREM EdgeCorrect == Spec => EdgeKept
<1>1. IInv /\ [Next]_vars => [Edges]_vars BY NextStep
<1>2. [][Edges]_vars => EdgeKept BY DEF Edges, EdgeKept
<1> QED BY <1>1, <1>2, Invariance, PTL DEF Spec

(* picinterrupt puts a line into service only ahead of every line of its    *)
(* controller that is in service.                                           *)
THEOREM NestedCorrect == Spec => Nested
<1> DEFINE Nest == picinterrupt =>
             \A p \in Pics : (p = "m" \/ SlaveAnswers) =>
               \A k \in pic[p].isr : Ahead(pic[p], pic[p].interrupt, k)
<1>1. IInv /\ [Next]_vars => [Nest]_vars
  <2> SUFFICES ASSUME IInv, picinterrupt, NEW p \in Pics, p = "m" \/ SlaveAnswers
               PROVE  \A k \in pic[p].isr : Ahead(pic[p], pic[p].interrupt, k)
    OBVIOUS
  <2>1. PairInv(pic) /\ Takes BY DEF IInv, picinterrupt
  <2>2. pic[p] \in Controllers /\ Sane(pic[p]) BY <2>1 DEF PairInv
  <2>3. pic[p].pending /\ pic[p].interrupt = find_best_interrupt(pic[p]) BY <2>1, TakesChosen
  <2>4. find_best_interrupt(pic[p]) # None BY <2>2, <2>3, LineFacts DEF Sane
  <2> QED BY <2>2, <2>3, <2>4, BestIs
<1>2. [][Nest]_vars => Nested BY DEF Nested
<1> QED BY <1>1, <1>2, Invariance, PTL DEF Spec
=============================================================================
