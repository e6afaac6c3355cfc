------------------------------- MODULE NetFifo -------------------------------
(***************************************************************************)
(* What the packet rings of network.c promise: bounded first-in first-out  *)
(* queues of packets, and packet structures outside the queues (the ones   *)
(* the host driver fills and the one the emulated card is about to be      *)
(* given).  An operation touches the queues and the structure it is called *)
(* with and nothing else.                                                  *)
(***************************************************************************)
EXTENDS Naturals, Sequences

CONSTANTS Queues,     \* the queues
          Holders,    \* the packet structures outside the queues
          Contents,   \* what a packet structure can hold
          Sendable,   \* the contents a queue accepts
          Capacity    \* how many packets a queue holds

VARIABLES fifo,       \* the packets in each queue, oldest first
          held,       \* what each structure outside the queues holds
          open        \* is a card attached?

vars == <<fifo, held, open>>

Init == /\ fifo = [q \in Queues |-> << >>]
        /\ held \in [Holders -> Contents]
        /\ open = TRUE

Room(q) == Len(fifo[q]) < Capacity

(* A packet is copied into the queue. *)
Put(q, p) ==
  /\ p \in Sendable
  /\ Room(q)
  /\ fifo' = [fifo EXCEPT ![q] = Append(@, p)]
  /\ UNCHANGED <<held, open>>

(* A packet is handed over to the queue; what is left behind is unspecified. *)
PutHeld(q, h) ==
  /\ held[h] \in Sendable
  /\ Room(q)
  /\ fifo' = [fifo EXCEPT ![q] = Append(@, held[h])]
  /\ \E left \in Contents : held' = [held EXCEPT ![h] = left]
  /\ UNCHANGED open

(* The oldest packet leaves the queue. *)
Get(q, h) ==
  /\ fifo[q] # << >>
  /\ fifo' = [fifo EXCEPT ![q] = Tail(@)]
  /\ held' = [held EXCEPT ![h] = Head(fifo[q])]
  /\ UNCHANGED open

(* The oldest packet of one queue becomes the youngest of another. *)
Move(dst, src) ==
  /\ dst # src
  /\ fifo[src] # << >>
  /\ Room(dst)
  /\ fifo' = [fifo EXCEPT ![src] = Tail(@), ![dst] = Append(@, Head(fifo[src]))]
  /\ UNCHANGED <<held, open>>

(* The owner of a structure changes what it holds. *)
Write(h) ==
  /\ \E c \in Contents : held' = [held EXCEPT ![h] = c]
  /\ UNCHANGED <<fifo, open>>

(* The card is closed or attached anew; either way the queues end up empty, *)
(* and nothing else ever drops a packet from them.                           *)
CloseOrAttach ==
  /\ open' = ~open
  /\ fifo' = [q \in Queues |-> << >>]
  /\ held' \in [Holders -> Contents]

Operate ==
  \/ \E q \in Queues : \/ \E p \in Sendable : Put(q, p)
                       \/ \E h \in Holders : PutHeld(q, h) \/ Get(q, h)
                       \/ \E src \in Queues : Move(q, src)
  \/ \E h \in Holders : Write(h)

Next == \/ open /\ Operate
        \/ CloseOrAttach

Spec == Init /\ [][Next]_vars
=============================================================================
