------------------------------ MODULE MCClient ------------------------------
(* Instances of Client for TLC: a file fa in the target directory, a file   *)
(* fb in a subdirectory da, and the tracker's scripts.                      *)
EXTENDS Client

CONSTANTS fa, fb, da, top, me, other

MCFile == {fa, fb}
MCDir == {da, top}
MCIn == [n \in {fa, fb, da} |-> IF n = fb THEN da ELSE top]
MCIp == {me, other}
MCOnDisk == [n \in {fa, fb} |-> IF n = fa THEN 1 ELSE 0]
MCDirsOnDisk == {top}

entry(op, n, v) == [op |-> op, name |-> n, timestamp |-> v, owners |-> {other}]
sync(t) == [type |-> "TRACKER_SYNC", tft |-> t]
tell(t) == [type |-> "TRACKER_BROADCAST", tft |-> t]

script(packets, n) == [packets |-> packets, edits |-> n]

\* newer versions of fa in a row; a new directory, made by the peer or by its
\* user, during a download; deletions; an old version that arrives late; a
\* broadcast that overtakes the answer to PEER_SYNC
MCScripts ==
  { script(<<sync(<<entry(FILE_ADD, fa, 2)>>), tell(<<entry(FILE_MODIFY, fa, 3)>>)>>, 1),
    script(<<sync(<<entry(FILE_ADD, fa, 2)>>), tell(<<entry(FILE_MODIFY, fa, 3)>>),
             tell(<<entry(FILE_MODIFY, fa, 4)>>)>>, 0),
    script(<<sync(<<entry(FILE_ADD, fa, 2), entry(FILE_ADD, fb, 1)>>)>>, 0),
    script(<<sync(<<entry(FILE_ADD, fb, 1)>>)>>, 2),
    script(<<sync(<<entry(FILE_ADD, da, 1)>>),
             tell(<<entry(FILE_NONE, fa, 0), entry(FILE_DELETE, da, 0)>>)>>, 1),
    script(<<sync(<<entry(FILE_ADD, fa, 2)>>), tell(<<entry(FILE_DELETE, fa, 0)>>)>>, 1),
    script(<<sync(<<entry(FILE_ADD, fa, 3)>>), tell(<<entry(FILE_MODIFY, fa, 2)>>)>>, 1),
    script(<<tell(<<entry(FILE_ADD, fa, 2)>>), sync(<< >>)>>, 0) }
=============================================================================
