SPECIFICATION FairSpec
CONSTANTS
  c1 = c1
  c2 = c2
  f = f
  g = g
  Conn <- MCConn
  File = {f, g}
  Wants <- MCWants
  MAX_P2P_PORT = 1
INVARIANTS TypeOK PortsAccounted FreePortsQuiet ServedOwnFile
 
CHECK_DEADLOCK FALSE
