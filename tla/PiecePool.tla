------------------------------ MODULE PiecePool ------------------------------
(***************************************************************************)
(* What piece_flags and obj.mutex of client/download.c promise the threads *)
(* of a download: a pool from which a worker takes one piece at a time,    *)
(* nobody takes a piece that another worker has or that is done, and a     *)
(* piece leaves its worker either done or free again.                      *)
(***************************************************************************)
CONSTANTS
  Worker,   \* the threads
  Piece,    \* the pieces
  Idle      \* not a piece: what an idle worker has

VARIABLES
  has,      \* the piece each worker has, or Idle
  done      \* the pieces that are finished

pool == <<has, done>>

Init == has = [w \in Worker |-> Idle] /\ done = {}

Take(w) ==
  /\ has[w] = Idle
  /\ has'[w] \in Piece \ (done \cup {has[v] : v \in Worker})
  /\ has' = [has EXCEPT ![w] = has'[w]]
  /\ done' = done

Finish(w) ==
  /\ has[w] # Idle
  /\ has' = [has EXCEPT ![w] = Idle]
  /\ done' = done \cup {has[w]}

GiveBack(w) ==
  /\ has[w] # Idle
  /\ has' = [has EXCEPT ![w] = Idle]
  /\ done' = done

Next == \E w \in Worker : Take(w) \/ Finish(w) \/ GiveBack(w)

Spec == Init /\ [][Next]_pool
=============================================================================
