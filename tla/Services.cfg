CONSTANTS
  w1 = w1
  w2 = w2
  c1 = c1
  c2 = c2
SPECIFICATION Spec
INVARIANTS TcpRefCounted TcpReadByOne TcpFramed HeapSound HeapCounted   PikeRefusedForCause SiloOneInFlight SiloDeliveredGone 
PROPERTIES DestinationsInOrder SiloNeverLost
\* A run ends when the bounds are used up.
CHECK_DEADLOCK FALSE
SYMMETRY Symmetry
