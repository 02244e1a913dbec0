CONSTANTS
  s1 = s1
  s2 = s2
  ip1 = ip1
  ip2 = ip2
  NoSession = NoSession
  NoIp = NoIp
  Session = {s1, s2}
  IpOf <- TwoIps
  Fd = {4, 5}
  Name = {1}
  Packets <- ModifyPackets
  Closing = {}
  Watched = {}
  MaxPkt = 4
SPECIFICATION Spec
INVARIANT BroadcastNamesFile
CHECK_DEADLOCK FALSE
