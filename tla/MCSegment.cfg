SPECIFICATION Spec
CONSTANTS
  t1 = t1
  t2 = t2
  Thread = {t1, t2}
  Packet <- MCPacket
  Byte <- MCByte
  MaxSend <- MCMaxSend
  MaxWire = 2
INVARIANTS TypeOK DamageEnds NothingInvented BufferFits
CHECK_DEADLOCK FALSE
