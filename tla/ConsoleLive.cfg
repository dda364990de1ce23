SPECIFICATION Spec
CONSTANTS
  Readers = {r1, r2}
  Writers = {w1}
  Mortal = {r2}
  Intr = Intr
  Nobody = Nobody
  Keys = {"a", "nl", "^D", "^H", "^U"}
  MaxKeys = 3
  ReadLen = 2
  MaxWrites = 2
  Load = 6
  INPUT_BUF = 2
  UART_TX_BUF_SIZE = 1
  UINT = 4
  Start = 3
  FIFO = 2
INVARIANT OutputExact
PROPERTIES ImplementsTty OutputDrains InputDelivered
CHECK_DEADLOCK FALSE
