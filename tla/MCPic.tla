------------------------------- MODULE MCPic -------------------------------
(* Pic with three lines per controller: the timer on the master's line 0,   *)
(* the slave on its line 1, an ISA card on the slave's line 0 and two PCI   *)
(* cards on a pin that can be routed to the slave's other two lines.        *)
EXTENDS Pic, TLC

MCEdgeIrqs == {<<"m", 0>>, <<"s", 0>>}
MCMasks == {{}, {0}}
CardSymmetry == Permutations(Cards)

(* Bound: what multiplies the states is not explored all at once.  While    *)
(* priorities are rotated, interrupts end by themselves or a special mask   *)
(* is in use, one card asserts, on line 2, and no controller is being       *)
(* initialised; the special mask is used without the other two.  While the  *)
(* pin is on line 1 or once a card's change was miscounted (on line 2),     *)
(* modes are plain and the cards are alone on the controllers.              *)
PlainEnds == \A p \in Pics : pic[p].priority = 0 /\ ~pic[p].rotate /\ ~pic[p].aeoi
PlainMasks == \A p \in Pics : ~pic[p].special
OnLine2 == route # 1 /\ \A c \in Cards : counted[c] # 1
OneCard == Cardinality({c \in Cards : asserted[c] \/ counted[c] # None}) <= 1
Initialised == \A p \in Pics : pic[p].state = "none" /\ pic[p].icw3
CardsAlone == /\ \A e \in EdgeIrqs : e[2] \notin pic[e[1]].irr \cup pic[e[1]].isr
              /\ \A p \in Pics : pic[p].imr = {}
OneThingAtATime ==
  /\ PlainEnds \/ PlainMasks
  /\ (PlainEnds /\ PlainMasks) \/ (Straight /\ OnLine2 /\ OneCard /\ Initialised)
  /\ OnLine2 \/ Straight
  /\ (OnLine2 /\ Straight) \/ CardsAlone
=============================================================================
