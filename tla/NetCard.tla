------------------------------- MODULE NetCard -------------------------------
(***************************************************************************)
(* A network card between the emulation thread and the thread of its host  *)
(* driver (network/network.c and network/net_slirp.c; the other drivers    *)
(* share the transmit side).                                               *)
(*                                                                         *)
(*   emulation thread:  the guest queues packets (network_tx); a timer     *)
(*     runs network_rx_queue, which gives received packets to the card,    *)
(*     moves the guest's packets to the host queue and notifies the driver *)
(*   host thread:       polls its events and sockets, hands the guest's    *)
(*     packets to SLiRP, which may answer on the spot; such answers are    *)
(*     set aside until the batch is done                                   *)
(*   user interface:    connects and disconnects the link                  *)
(*                                                                         *)
(* Queues are sequences here (NetRing shows that the rings implement       *)
(* them); TX_HOST and RX are only touched under their mutex, so each       *)
(* locked section is one step.  Packets are numbered in the order they     *)
(* are made.                                                               *)
(***************************************************************************)
EXTENDS Naturals, Sequences, SequencesExt

CONSTANTS NET_QUEUE_LEN,  \* slots of a ring; a ring holds one packet less
          PIPE,           \* how many notifications the tx_event holds: many for
                          \* a pipe, 1 for an auto-reset event
          MaxTx,          \* bound: packets the guest sends
          MaxRx           \* bound: packets SLiRP delivers

ASSUME NetCardAssumption == /\ NET_QUEUE_LEN \in Nat \ {0, 1}
                            /\ PIPE \in Nat \ {0}
                            /\ MaxTx \in Nat /\ MaxRx \in Nat

VARIABLES
  txvm, txhost,   \* NET_QUEUE_TX_VM and NET_QUEUE_TX_HOST
  rx, rxontx,     \* NET_QUEUE_RX and NET_QUEUE_RX_ON_TX
  queued,         \* queued_pkt: << >> or the packet the card has not taken yet
  batch,          \* pkt_tx_v: what the host thread has popped
  emu, left,      \* where the emulation thread is; rounds left of its receive loop
  host, revents,  \* where the host thread is; what poll reported
  recv_on_tx,     \* answers were set aside
  tx_event, stop_event,
  link, seen,     \* is the link up in net_cards_conf, and as the card was last told?
  txlast, rxlast, \* the packet last handed to SLiRP, to the card
  txmade, rxmade  \* packets made so far

emuVars == <<txvm, queued, emu, left, seen, rxlast, txmade>>
hostVars == <<rxontx, batch, host, revents, recv_on_tx, txlast, rxmade>>
vars == <<emuVars, hostVars, txhost, rx, tx_event, stop_event, link>>

Packets(n) == Seq(1 .. n)
Capacity == NET_QUEUE_LEN - 1

TypeOK ==
  /\ txvm \in Packets(MaxTx) /\ txhost \in Packets(MaxTx)
  /\ rx \in Packets(MaxRx) /\ rxontx \in Packets(MaxRx) /\ queued \in Packets(MaxRx)
  /\ Len(txvm) <= Capacity /\ Len(txhost) <= Capacity
  /\ Len(rx) <= Capacity /\ Len(rxontx) <= Capacity /\ Len(queued) <= 1
  /\ Len(batch) <= NET_QUEUE_LEN
  /\ emu \in {"run", "rx", "card", "tx", "notify", "join", "closed"}
  /\ left \in 0 .. NET_QUEUE_LEN
  /\ host \in {"poll", "sockets", "events", "pop", "input", "deferred", "done"}
  /\ revents \subseteq {"stop", "tx"}
  /\ recv_on_tx \in BOOLEAN /\ link \in BOOLEAN /\ seen \in BOOLEAN
  /\ stop_event \in BOOLEAN
  /\ tx_event \in 0 .. PIPE
  /\ txlast \in 0 .. MaxTx /\ txmade \in 0 .. MaxTx
  /\ rxlast \in 0 .. MaxRx /\ rxmade \in 0 .. MaxRx

(* network_queue_put and its relatives: a full queue drops the packet. *)
Put(q, p) == IF Len(q) < Capacity THEN Append(q, p) ELSE q

(* A plausible slip: the youngest packets are taken. *)
TakeYoungest(s, n) == SubSeq(s, Len(s) - n + 1, Len(s))
Take(s, n) == SubSeq(s, 1, n)
Drop(s, n) == SubSeq(s, n + 1, Len(s))
Least(m, n) == IF m < n THEN m ELSE n

-----------------------------------------------------------------------------
(* The emulation thread. *)

network_tx ==
  /\ emu = "run"
  /\ txmade < MaxTx
  /\ txmade' = txmade + 1
  /\ txvm' = Put(txvm, txmade + 1)
  /\ UNCHANGED <<hostVars, txhost, rx, queued, emu, left, seen, rxlast, tx_event, stop_event, link>>

NewLinkState == link

(* The timer calls network_rx_queue; the card is told of a changed link. *)
network_rx_queue ==
  /\ emu = "run"
  /\ emu' = "rx"
  /\ left' = NET_QUEUE_LEN
  /\ seen' = NewLinkState
  /\ UNCHANGED <<hostVars, txvm, txhost, rx, queued, rxlast, txmade, tx_event, stop_event, link>>

(* The head of the receive loop: unless a packet is still held back, take   *)
(* one from RX; leave the loop when there is none or the rounds are up.     *)
RxGet ==
  /\ emu = "rx"
  /\ LET more == left > 0 /\ (queued # << >> \/ rx # << >>)
         fetch == more /\ queued = << >>
     IN  /\ emu' = IF more THEN "card" ELSE "tx"
         /\ queued' = IF fetch THEN <<Head(rx)>> ELSE queued
         /\ rx' = IF fetch THEN Tail(rx) ELSE rx
  /\ UNCHANGED <<hostVars, seen, txvm, txhost, left, rxlast, txmade, tx_event, stop_event, link>>

RxAccepted ==
  /\ emu = "card"
  /\ rxlast' = Head(queued)
  /\ queued' = << >>
  /\ left' = left - 1
  /\ emu' = "rx"
  /\ UNCHANGED <<hostVars, seen, txvm, txhost, rx, txmade, tx_event, stop_event, link>>

(* A plausible slip: the packet the card refused is forgotten. *)
RxRefusedLost ==
  /\ emu = "card"
  /\ emu' = "tx"
  /\ queued' = << >>
  /\ UNCHANGED <<hostVars, seen, txvm, txhost, rx, left, rxlast, txmade, tx_event, stop_event, link>>

(* The card has no room: the packet stays in queued_pkt for the next timer. *)
RxRefused ==
  /\ emu = "card"
  /\ emu' = "tx"
  /\ UNCHANGED <<hostVars, seen, txvm, txhost, rx, queued, left, rxlast, txmade, tx_event, stop_event, link>>

(* Under tx_mutex: as many packets as fit move from TX_VM to TX_HOST. *)
Movable == Least(Least(Len(txvm), Capacity - Len(txhost)), NET_QUEUE_LEN)

(* A plausible slip: off by one, a single packet does not notify. *)
NotifiesFromTwo(n) == n > 1
Notifies(n) == n > 0

TxMove ==
  /\ emu = "tx"
  /\ txhost' = txhost \o Take(txvm, Movable)
  /\ txvm' = Drop(txvm, Movable)
  /\ emu' = IF Notifies(Movable) THEN "notify" ELSE "run"
  /\ UNCHANGED <<hostVars, seen, rx, queued, left, rxlast, txmade, tx_event, stop_event, link>>

(* net_slirp_in_available: net_event_set, lost when the event is saturated. *)
TxNotify ==
  /\ emu = "notify"
  /\ tx_event' = Least(tx_event + 1, PIPE)
  /\ emu' = "run"
  /\ UNCHANGED <<hostVars, seen, txvm, txhost, rx, queued, left, rxlast, txmade, stop_event, link>>

(* netcard_close: the timer stops, the driver is told to stop ... *)
netcard_close ==
  /\ emu = "run"
  /\ stop_event' = TRUE
  /\ emu' = "join"
  /\ UNCHANGED <<hostVars, seen, txvm, txhost, rx, queued, left, rxlast, txmade, tx_event, link>>

(* ... and once its thread has ended, everything is freed. *)
FreeAll ==
  /\ emu = "join" /\ host = "done"
  /\ emu' = "closed"
  /\ txvm' = << >> /\ txhost' = << >> /\ rx' = << >> /\ queued' = << >>
  /\ UNCHANGED <<hostVars, seen, left, rxlast, txmade, tx_event, stop_event, link>>

(* network_attach for the next machine. *)
network_attach ==
  /\ emu = "closed" /\ emu' = "run"
  /\ txvm' = << >> /\ txhost' = << >> /\ rx' = << >> /\ rxontx' = << >>
  /\ queued' = << >> /\ batch' = << >>
  /\ left' = 0
  /\ host' = "poll" /\ revents' = {}
  /\ recv_on_tx' = FALSE
  /\ tx_event' = 0 /\ stop_event' = FALSE
  /\ txlast' = 0 /\ rxlast' = 0 /\ txmade' = 0 /\ rxmade' = 0
  /\ seen' = TRUE
  /\ UNCHANGED link

-----------------------------------------------------------------------------
(* The host thread (net_slirp_thread). *)

(* A plausible slip: the stop event is left out of the poll. *)
SignalledTx == IF tx_event > 0 THEN {"tx"} ELSE {}

(* poll returns with what is signalled; a socket or SLiRP's own timeout may *)
(* also end it.                                                             *)
Signalled == (IF stop_event THEN {"stop"} ELSE {}) \cup (IF tx_event > 0 THEN {"tx"} ELSE {})

Polled ==
  /\ host = "poll"
  /\ revents' = Signalled
  /\ host' = "sockets"
  /\ UNCHANGED <<emuVars, txhost, rx, rxontx, batch, recv_on_tx, txlast, rxmade,
                 tx_event, stop_event, link>>

PollEvents == Signalled # {} /\ Polled
PollSockets == Signalled = {} /\ Polled

(* net_slirp_send_packet from slirp_pollfds_poll: straight into RX. *)
SocketPacket ==
  /\ host = "sockets"
  /\ rxmade < MaxRx
  /\ rxmade' = rxmade + 1
  /\ rx' = IF link THEN Put(rx, rxmade + 1) ELSE rx
  /\ UNCHANGED <<emuVars, txhost, rxontx, batch, host, revents, recv_on_tx, txlast,
                 tx_event, stop_event, link>>

SocketsDone ==
  /\ host = "sockets"
  /\ host' = "events"
  /\ UNCHANGED <<emuVars, txhost, rx, rxontx, batch, revents, recv_on_tx, txlast, rxmade,
                 tx_event, stop_event, link>>

Stopped ==
  /\ host = "events"
  /\ "stop" \in revents
  /\ stop_event' = FALSE
  /\ host' = "done"
  /\ UNCHANGED <<emuVars, txhost, rx, rxontx, batch, revents, recv_on_tx, txlast, rxmade,
                 tx_event, link>>

(* Nothing to transmit, or the event is cleared and then the queue popped. *)
Events ==
  /\ host = "events"
  /\ "stop" \notin revents
  /\ host' = IF "tx" \in revents THEN "pop" ELSE "poll"
  /\ tx_event' = IF "tx" \in revents THEN tx_event - 1 ELSE tx_event
  /\ UNCHANGED <<emuVars, txhost, rx, rxontx, batch, revents, recv_on_tx, txlast, rxmade,
                 stop_event, link>>

PopCount == Least(Len(txhost), NET_QUEUE_LEN)

(* network_tx_popv under tx_mutex, then the link is looked at once. *)
TxPop ==
  /\ host = "pop"
  /\ txhost' = Drop(txhost, PopCount)
  /\ batch' = IF link THEN Take(txhost, PopCount) ELSE << >>
  /\ host' = "input"
  /\ UNCHANGED <<emuVars, rx, rxontx, revents, recv_on_tx, txlast, rxmade,
                 tx_event, stop_event, link>>

(* net_slirp_in: SLiRP takes the packet, and may answer at once; the answer *)
(* is set aside (during_tx).                                                *)
Input(answers) ==
  /\ host = "input"
  /\ batch # << >>
  /\ rxmade + answers <= MaxRx
  /\ txlast' = Head(batch)
  /\ batch' = Tail(batch)
  /\ rxmade' = rxmade + answers
  /\ rxontx' = IF answers = 1 /\ link THEN Put(rxontx, rxmade + 1) ELSE rxontx
  /\ recv_on_tx' = (recv_on_tx \/ (answers = 1 /\ link))
  /\ UNCHANGED <<emuVars, txhost, rx, host, revents, tx_event, stop_event, link>>

(* The batch is done; net_slirp_rx_deferred_packets pops what was set aside *)
(* and looks at the link.                                                   *)
InputDone ==
  /\ host = "input"
  /\ batch = << >>
  /\ batch' = IF recv_on_tx /\ link THEN rxontx ELSE << >>
  /\ rxontx' = IF recv_on_tx THEN << >> ELSE rxontx
  /\ recv_on_tx' = FALSE
  /\ host' = "deferred"
  /\ UNCHANGED <<emuVars, txhost, rx, revents, txlast, rxmade, tx_event, stop_event, link>>

(* ... and puts the packets into RX one by one, under rx_mutex. *)
Deferred ==
  /\ host = "deferred"
  /\ \/ /\ batch = << >>
        /\ host' = "poll"
        /\ UNCHANGED <<rx, batch>>
     \/ /\ batch # << >>
        /\ rx' = Put(rx, Head(batch))
        /\ batch' = Tail(batch)
        /\ UNCHANGED host
  /\ UNCHANGED <<emuVars, txhost, rxontx, revents, recv_on_tx, txlast, rxmade,
                 tx_event, stop_event, link>>

-----------------------------------------------------------------------------
(* The user interface. *)
network_connect ==
  /\ link' = ~link
  /\ UNCHANGED <<emuVars, hostVars, txhost, rx, tx_event, stop_event>>

Init ==
  /\ txvm = << >> /\ txhost = << >> /\ rx = << >> /\ rxontx = << >>
  /\ queued = << >> /\ batch = << >>
  /\ emu = "run" /\ left = 0
  /\ host = "poll" /\ revents = {}
  /\ recv_on_tx = FALSE
  /\ tx_event = 0 /\ stop_event = FALSE
  /\ link \in BOOLEAN /\ seen = TRUE
  /\ txlast = 0 /\ rxlast = 0 /\ txmade = 0 /\ rxmade = 0

EmuStep == \/ network_rx_queue \/ RxGet \/ RxAccepted \/ RxRefused \/ TxMove \/ TxNotify
           \/ FreeAll
HostStep == \/ PollEvents \/ SocketsDone \/ Stopped \/ Events \/ TxPop \/ Input(0) \/ InputDone
            \/ Deferred

Next == \/ EmuStep \/ HostStep
        \/ network_tx \/ netcard_close \/ network_attach
        \/ PollSockets \/ SocketPacket \/ Input(1)
        \/ network_connect

(* Both threads keep running: the emulation thread re-arms its timer in     *)
(* every callback and the host thread only ever blocks in poll, where a     *)
(* signalled event ends its wait.  Nothing obliges the guest, the network   *)
(* or the user to act.                                                      *)
Spec == Init /\ [][Next]_vars /\ WF_vars(EmuStep) /\ WF_vars(HostStep)

-----------------------------------------------------------------------------
Increasing(s) == \A i \in 1 .. Len(s) - 1 : s[i] < s[i + 1]

(* The packets of the batch belong to the guest until it is done. *)
Outgoing == IF host = "input" THEN batch ELSE << >>
Incoming == IF host = "deferred" THEN batch ELSE << >>

(* The guest's packets reach SLiRP in the order they were sent and at most  *)
(* once, through two queues, a batch and every interleaving of the threads  *)
(* (network_queue_move, network_tx_popv).  Received packets reach the card  *)
(* so too, although answers are set aside in a queue of their own while     *)
(* others go straight into RX, and one packet may be held back by the card  *)
(* (net_slirp_rx_deferred_packets, network_rx_queue).                       *)
InOrder ==
  /\ Increasing(<<txlast>> \o Outgoing \o txhost \o txvm)
  /\ Increasing(<<rxlast>> \o queued \o rx \o Incoming \o rxontx)

(* Whenever the host thread is about to block in poll with packets in       *)
(* TX_HOST, a notification is there or on its way: no packet is stranded    *)
(* until the guest happens to send another.                                 *)
NotStranded ==
  host = "poll" /\ txhost # << >> => tx_event > 0 \/ emu = "notify" \/ stop_event

(* What every state of the card and its threads satisfies: the queues are   *)
(* within their bounds, packets are in order, and none is stranded.         *)
QueuesInv == TypeOK /\ InOrder /\ NotStranded

(* A packet in RX or held back for the card stays until the card takes it   *)
(* or is closed; the link going down does not lose it.                      *)
RxKept ==
  [][emu' # "closed" =>
       ToSet(queued \o rx) \subseteq ToSet(queued' \o rx') \cup {rxlast'}]_vars

(* A packet the guest has queued leaves for SLiRP, or is dropped because    *)
(* the link is down or the card closed, but never waits for ever.           *)
TxProgress == \A p \in 1 .. MaxTx : p \in ToSet(txvm \o txhost) ~> p \notin ToSet(txvm \o txhost)

(* Closing a card always ends, wherever the host thread is.                 *)
CloseEnds == emu = "join" ~> emu = "closed"
=============================================================================
