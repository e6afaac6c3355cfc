------------------------------- MODULE NetRing -------------------------------
(***************************************************************************)
(* The packet rings of a network card (network/network.c).  A slot of a    *)
(* ring is a netpkt_t: a pointer to a buffer of its own and a length.      *)
(* Packets are copied into a ring only once; from there on the pointers    *)
(* are swapped, between the slots of the rings and the netpkt_t structures *)
(* outside them, so buffers travel and every slot must keep exactly one.   *)
(*                                                                         *)
(* Every operation runs under a mutex, or on a ring only one thread uses   *)
(* (NetCard models the threads), so it is one atomic step here.  An        *)
(* operation that returns 0 changes nothing and is no step.                *)
(***************************************************************************)
EXTENDS Naturals, Sequences, FiniteSets

CONSTANTS Queues,         \* the rings of the card
          Holders,        \* netpkt_t outside the rings: queued_pkt, pkt, pkt_tx_v
          Bufs,           \* the buffers allocated for the card
          Data,           \* what a buffer can contain
          NET_QUEUE_LEN,  \* slots of a ring
          NET_MAX_FRAME   \* longest packet

ASSUME QueueLenAssumption == NET_QUEUE_LEN \in Nat \ {0}
ASSUME FrameAssumption == NET_MAX_FRAME \in Nat

VARIABLES data,     \* the buffer each slot points to
          len,      \* the length each slot records
          mem,      \* the contents of each buffer
          head,     \* where the next packet enters each ring
          tail,     \* where the next packet leaves each ring
          frees     \* how often each buffer was freed; all 0 while the card is attached

vars == <<data, len, mem, head, tail, frees>>

Index == 0 .. NET_QUEUE_LEN - 1
Slots == (Queues \X Index) \cup Holders
Lens == 0 .. NET_MAX_FRAME + 1     \* one length stands for all oversized ones

ASSUME BufsAssumption == /\ \A h \in Holders : h \notin Queues \X Index
                         /\ \E f \in [Slots -> Bufs] : \A s, t \in Slots : f[s] = f[t] => s = t

TypeOK ==
  /\ data \in [Slots -> Bufs]
  /\ len \in [Slots -> Lens]
  /\ mem \in [Bufs -> Data]
  /\ head \in [Queues -> Index]
  /\ tail \in [Queues -> Index]
  /\ frees \in [Bufs -> Nat]

attached == \A b \in Bufs : frees[b] = 0

NextIndex(i) == (i + 1) % NET_QUEUE_LEN

network_queue_full(q) == NextIndex(head[q]) = tail[q]
network_queue_empty(q) == head[q] = tail[q]

(* The slots where the next packet of q enters and leaves. *)
HeadSlot(q) == <<q, head[q]>>
(* A plausible slip: the packet put last is taken out. *)
newest_slot(q) == <<q, (head[q] + NET_QUEUE_LEN - 1) % NET_QUEUE_LEN>>
TailSlot(q) == <<q, tail[q]>>

(* network_swap_packet: pointer and length change places, contents stay. *)
Swap(f, s, t) == [f EXCEPT ![s] = f[t], ![t] = f[s]]

(* A plausible slip: the structure is assigned, not swapped. *)
copy_packet(s, t) ==
  /\ data' = [data EXCEPT ![t] = data[s]]
  /\ len' = [len EXCEPT ![t] = len[s]]
  /\ UNCHANGED mem
network_swap_packet(s, t) ==
  /\ data' = Swap(data, s, t)
  /\ len' = Swap(len, s, t)
  /\ UNCHANGED mem

Fits(n) == n # 0 /\ n <= NET_MAX_FRAME

-----------------------------------------------------------------------------
network_queue_put(q, d, n) ==
  /\ attached
  /\ Fits(n)
  /\ ~network_queue_full(q)
  /\ mem' = [mem EXCEPT ![data[HeadSlot(q)]] = d]
  /\ len' = [len EXCEPT ![HeadSlot(q)] = n]
  /\ head' = [head EXCEPT ![q] = NextIndex(@)]
  /\ UNCHANGED <<data, tail, frees>>

network_queue_put_swap(q, h) ==
  /\ attached
  /\ Fits(len[h])
  /\ ~network_queue_full(q)
  /\ network_swap_packet(h, HeadSlot(q))
  /\ head' = [head EXCEPT ![q] = NextIndex(@)]
  /\ UNCHANGED <<tail, frees>>

network_queue_get_swap(q, h) ==
  /\ attached
  /\ ~network_queue_empty(q)
  /\ network_swap_packet(TailSlot(q), h)
  /\ tail' = [tail EXCEPT ![q] = NextIndex(@)]
  /\ UNCHANGED <<head, frees>>

network_queue_move(dst, src) ==
  /\ attached
  /\ dst # src
  /\ ~network_queue_empty(src)
  /\ ~network_queue_full(dst)
  /\ network_swap_packet(TailSlot(src), HeadSlot(dst))
  /\ head' = [head EXCEPT ![dst] = NextIndex(@)]
  /\ tail' = [tail EXCEPT ![src] = NextIndex(@)]
  /\ UNCHANGED frees

(* The host driver copies a frame into its own netpkt_t; libslirp's frames  *)
(* are never empty and fit a buffer.                                        *)
net_slirp_send_packet(h, d, n) ==
  /\ attached
  /\ mem' = [mem EXCEPT ![data[h]] = d]
  /\ len' = [len EXCEPT ![h] = n]
  /\ UNCHANGED <<data, head, tail, frees>>

(* The emulated card took the packet: queued_pkt.len = 0. *)
Accepted(h) ==
  /\ attached
  /\ len' = [len EXCEPT ![h] = 0]
  /\ UNCHANGED <<data, mem, head, tail, frees>>

(* A plausible slip: only the rings free their buffers. *)
netcard_close_rings ==
  /\ attached
  /\ frees' = [b \in Bufs |-> Cardinality({s \in Queues \X Index : data[s] = b})]
  /\ head' = [q \in Queues |-> 0]
  /\ tail' = [q \in Queues |-> 0]
  /\ len' = [s \in Slots |-> 0]
  /\ UNCHANGED <<data, mem>>

(* netcard_close: the rings and the structures outside them free what they  *)
(* point to, slot by slot.                                                  *)
netcard_close ==
  /\ attached
  /\ frees' = [b \in Bufs |-> Cardinality({s \in Slots : data[s] = b})]
  /\ head' = [q \in Queues |-> 0]
  /\ tail' = [q \in Queues |-> 0]
  /\ len' = [s \in Slots |-> 0]
  /\ UNCHANGED <<data, mem>>

(* network_queue_init and the callocs of network_attach and of the driver's *)
(* init: every slot gets a buffer that is nobody else's.                     *)
Allocated(d) == /\ d \in [Slots -> Bufs]
                /\ \A s, t \in Slots : d[s] = d[t] => s = t

network_attach ==
  /\ ~attached
  /\ \E d \in [Slots -> Bufs] : Allocated(d) /\ data' = d
  /\ \E z \in Data : mem' = [b \in Bufs |-> z]
  /\ len' = [s \in Slots |-> 0]
  /\ frees' = [b \in Bufs |-> 0]
  /\ UNCHANGED <<head, tail>>

Init == /\ Allocated(data)
        /\ \E z \in Data : mem = [b \in Bufs |-> z]
        /\ len = [s \in Slots |-> 0]
        /\ head = [q \in Queues |-> 0]
        /\ tail = [q \in Queues |-> 0]
        /\ frees = [b \in Bufs |-> 0]

Next ==
  \/ \E q \in Queues :
       \/ \E d \in Data, n \in Lens : network_queue_put(q, d, n)
       \/ \E h \in Holders : network_queue_put_swap(q, h) \/ network_queue_get_swap(q, h)
       \/ \E src \in Queues : network_queue_move(q, src)
  \/ \E h \in Holders : \/ \E d \in Data, n \in 1 .. NET_MAX_FRAME : net_slirp_send_packet(h, d, n)
                        \/ Accepted(h)
  \/ netcard_close
  \/ network_attach

Spec == Init /\ [][Next]_vars

-----------------------------------------------------------------------------
(* No two slots point to the same buffer, whatever was swapped: a memcpy    *)
(* into the slot at the head of a ring (network_queue_put) or into the      *)
(* driver's own packet never overwrites a packet waiting elsewhere.         *)
OneOwner == \A s, t \in Slots : data[s] = data[t] => s = t

(* netcard_close frees every buffer that was handed out exactly once,       *)
(* although the slots no longer hold the buffers they were given.           *)
FreedOnce == \A b \in Bufs : ~attached => frees[b] = (IF \E s \in Slots : data[s] = b THEN 1 ELSE 0)

(* The packets in q, oldest first. *)
Waiting(q) == (head[q] + NET_QUEUE_LEN - tail[q]) % NET_QUEUE_LEN
Content(s) == [bytes |-> mem[data[s]], len |-> len[s]]
Packets(q) == [i \in 1 .. Waiting(q) |-> Content(<<q, (tail[q] + i - 1) % NET_QUEUE_LEN>>)]

(* The rings implement bounded FIFO queues: what comes out is byte for byte *)
(* what went in, in that order, no operation disturbs a ring it is not      *)
(* called with, and a ring of NET_QUEUE_LEN slots holds one packet less.    *)
Fifo == INSTANCE NetFifo
  WITH Contents <- [bytes : Data, len : Lens],
       Sendable <- [bytes : Data, len : 1 .. NET_MAX_FRAME],
       Capacity <- NET_QUEUE_LEN - 1,
       fifo <- [q \in Queues |-> Packets(q)],
       held <- [h \in Holders |-> Content(h)],
       open <- attached
ImplementsFifo == Fifo!Spec
=============================================================================
