\* Two rings of three slots: two packets wait in a ring and could be mixed up.
SPECIFICATION Spec
CONSTANTS
  Queues = {TX_VM, TX_HOST}
  Holders = {pkt}
  Bufs = {b1, b2, b3, b4, b5, b6, b7}
  Data = {x, y}
  NET_QUEUE_LEN = 3
  NET_MAX_FRAME = 1
CONSTRAINT AttachedAgain
VIEW UpToNames
SYMMETRY RingSymmetry
INVARIANTS OneOwner FreedOnce
PROPERTY ImplementsFifo
