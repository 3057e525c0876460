SPECIFICATION Spec
CONSTANTS
  RxEnd = 3
  TxEnd = 1
  LineLength = 2
  MaxLines = 3
  LineBuf = 3
INVARIANTS TypeOK FifoCallsDefined TransmitterArmed
PROPERTIES
  PortImplementsQueue
  PiecesExecutedOnce
  ConsoleRecovers
  AnswersNotStale
CHECK_DEADLOCK FALSE
