\* Auto-reset event: notifications merge.
SPECIFICATION Spec
CONSTANTS
  NET_QUEUE_LEN = 3
  PIPE = 1
  MaxTx = 3
  MaxRx = 2
INVARIANT QueuesInv
PROPERTIES RxKept TxProgress CloseEnds
