----------------------------- MODULE MCNetRing -----------------------------
(* NetRing on two rings; the buffers are interchangeable. *)
EXTENDS NetRing, TLC

(* The permutations of the buffers are too many to try as a symmetry:       *)
(* states are told apart by what the slots hold, not by the names of their  *)
(* buffers.                                                                 *)
UpToNames ==
  <<[s \in Slots |-> mem[data[s]]], Cardinality({data[s] : s \in Slots}), len, head, tail, frees>>
RingSymmetry == Permutations(Queues) \cup Permutations(Data)

(* Bound: a closed card is attached again only when its buffers held all    *)
(* the same; the new ones are blank in any case.                            *)
AttachedAgain == attached \/ \E d \in Data : \A b \in Bufs : mem[b] = d
=============================================================================
