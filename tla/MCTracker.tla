------------------------------ MODULE MCTracker ------------------------------
EXTENDS Tracker, TLC

CONSTANTS s1, s2, ip1, ip2

Entry(op, name, ts) == [op |-> op, name |-> name, timestamp |-> ts]
Register    == [type |-> "PEER_REGISTER", tft |-> << >>]
KeepAlive   == [type |-> "PEER_KEEP_ALIVE", tft |-> << >>]
Sync(tft)   == [type |-> "PEER_SYNC", tft |-> tft]
Update(tft) == [type |-> "PEER_FILE_UPDATE", tft |-> tft]

TwoIps == s1 :> ip1 @@ s2 :> ip2
OneIp  == s1 :> ip1 @@ s2 :> ip1

\* two files, one of them announced in two versions, and a deletion
TablePackets ==
  s1 :> {Register, Update(<<Entry(FILE_ADD, 1, 1)>>),
         Update(<<Entry(FILE_MODIFY, 1, 2)>>)}
  @@ s2 :> {Register, Sync(<<Entry(FILE_NONE, 1, 2), Entry(FILE_NONE, 2, 1)>>),
            Update(<<Entry(FILE_NONE, 2, 1), Entry(FILE_DELETE, 1, 1)>>)}

\* a peer that owns a file leaves while another one is registered
LeavePackets ==
  s1 :> {Register, KeepAlive, Sync(<<Entry(FILE_NONE, 1, 1)>>)} @@ s2 :> {Register}

\* additions only
AddPackets ==
  s1 :> {Register, Sync(<< >>), Update(<<Entry(FILE_ADD, 1, 1)>>)}
  @@ s2 :> {Register, Sync(<< >>)}

\* a modification of a file that the table does not hold
ModifyPackets ==
  s1 :> {Register, Sync(<< >>), Update(<<Entry(FILE_MODIFY, 1, 1)>>)}
  @@ s2 :> {Register, Sync(<< >>)}
=============================================================================
