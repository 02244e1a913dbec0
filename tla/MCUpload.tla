------------------------------ MODULE MCUpload ------------------------------
(* Upload for TLC: transfers of two files over a pool of one port, which    *)
(* they have one after the other, or find exhausted.                        *)
EXTENDS Upload

CONSTANTS c1, c2, f, g

MCConn == {c1, c2}
MCWants == [c \in MCConn |-> IF c = c1 THEN f ELSE g]
=============================================================================
