----------------------------- MODULE MCDownload -----------------------------
(***************************************************************************)
(* Instances of Download for TLC: two remote owners and the peer itself,   *)
(* pieces of 2 bytes, 5-bit ints instead of 32-bit ones; lengths that are   *)
(* multiples of a piece and that are not, that overflow the sum in         *)
(* file_pieces (15), that are negative as an int (20) and that wrap (35).  *)
(***************************************************************************)
EXTENDS Download

MCFileLens == {0, 1, 3, 4, 5, 15, 20, 35}
=============================================================================
