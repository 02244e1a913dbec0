----------------------------- MODULE MCSegment ------------------------------
(* Segment for TLC: two threads, one of which sends again after the packets *)
(* of both may have got into each other; packets that run into the markers. *)
EXTENDS Segment

CONSTANTS t1, t2

MCByte == {"!", "&", "#", "a"}
MCPacket == {<<"a">>, <<"!">>, <<"#", "!">>, <<"!", "#", "!", "&">>}
MCMaxSend == [t \in {t1, t2} |-> IF t = t1 THEN 2 ELSE 1]
=============================================================================
