------------------------------ MODULE Segment -------------------------------
(***************************************************************************)
(* How packets travel on a connection (utility/segment.c).  send_segment   *)
(* puts "!&" and "!#" around the bytes of a packet, with three calls of    *)
(* send; several threads of a peer (the keep-alive, the file monitor and   *)
(* the downloads) do so on one connection to the tracker, with no lock.    *)
(* recv_segment takes the bytes apart again.  A send may take its bytes in *)
(* several parts.  A packet is a sequence of bytes, of which only '!', '&' *)
(* and '#' mean something to either end.                                   *)
(***************************************************************************)
EXTENDS Integers, Sequences

CONSTANTS
  Thread,   \* the threads that send
  Packet,   \* the packets they may send: sequences of Byte
  MaxSend,  \* bound: how many packets each thread sends
  MaxWire,  \* bytes that the connection holds; a send waits for room
  Byte

start_buf == <<"!", "&">>
end_buf == <<"!", "#">>

ASSUME ByteAssumption ==
  {"!", "&", "#"} \subseteq Byte /\ Packet \subseteq Seq(Byte) /\ Packet # {}
ASSUME BoundAssumption == MaxSend \in [Thread -> Nat] /\ MaxWire \in Nat \ {0}

VARIABLES
  sent,    \* how many packets each thread has begun
  packet,  \* the packet of its last call of send_segment
  calls,   \* what send_segment has still to send, call by call
  wire,    \* the bytes on their way
  up,      \* the connection is there
  state,   \* local of recv_segment
  buf,     \* buf[0..idx)
  got,     \* the segments that recv_segment has returned
  alone,   \* history: no other send_segment has run during this one
  overlap, \* history: two calls of send_segment have overlapped
  dirty,   \* history: a packet held an end_buf
  whole    \* history: packets that went out alone and hold no end_buf

sendVars == <<sent, packet, calls>>
recvVars == <<state, buf, got>>
histVars == <<alone, overlap, dirty, whole>>
vars == <<sendVars, wire, up, recvVars, histVars>>

Init ==
  /\ sent = [t \in Thread |-> 0] /\ packet = [t \in Thread |-> << >>]
  /\ calls = [t \in Thread |-> << >>]
  /\ wire = << >> /\ up = TRUE
  /\ state = 0 /\ buf = << >> /\ got = << >>
  /\ alone = [t \in Thread |-> FALSE] /\ overlap = FALSE /\ dirty = FALSE
  /\ whole = << >>

Sending(t) == calls[t] # << >>

\* end_buf does not occur in p
Clean(p) == \A i \in 1 .. Len(p) - 1 : <<p[i], p[i + 1]>> # end_buf

\* mutant: the segment has no end
Calls_open(p) == <<start_buf, p>>

\* the three calls of send
Calls(p) == <<start_buf, p, end_buf>>

\* send_segment is called
SendSegment(t, p) ==
  LET others == {u \in Thread \ {t} : Sending(u)}
  IN  /\ up /\ ~Sending(t) /\ sent[t] < MaxSend[t]
      /\ sent' = [sent EXCEPT ![t] = @ + 1]
      /\ packet' = [packet EXCEPT ![t] = p]
      /\ calls' = [calls EXCEPT ![t] = Calls(p)]
      /\ alone' = [u \in Thread |-> IF u = t THEN others = {} ELSE alone[u] /\ u \notin others]
      /\ overlap' = (overlap \/ others # {}) /\ dirty' = (dirty \/ ~Clean(p))
      /\ UNCHANGED <<wire, up, recvVars, whole>>

\* one send, or a part of it; after the last one send_segment returns
Send(t) ==
  /\ up /\ Sending(t)
  /\ \E n \in 1 .. Len(Head(calls[t])) :
       LET bytes == Head(calls[t])
           rest == IF n = Len(bytes) THEN Tail(calls[t])
                   ELSE <<SubSeq(bytes, n + 1, Len(bytes))>> \o Tail(calls[t])
       IN  /\ Len(wire) + n <= MaxWire
           /\ wire' = wire \o SubSeq(bytes, 1, n)
           /\ calls' = [calls EXCEPT ![t] = rest]
           /\ whole' = IF rest = << >> /\ alone[t] /\ Clean(packet[t])
                       THEN Append(whole, packet[t]) ELSE whole
  /\ UNCHANGED <<sent, packet, up, recvVars, alone, overlap, dirty>>

\* the connection breaks: a send returns -1, and so does send_segment
Break ==
  /\ up /\ up' = FALSE
  /\ calls' = [t \in Thread |-> << >>]
  /\ UNCHANGED <<sent, packet, wire, recvVars, histVars>>

-----------------------------------------------------------------------------
\* mutants: a second '!' is taken for data; '#' ends a segment by itself
NextState_bang(s, c) ==
  CASE s = 0 -> IF c = "!" THEN 1 ELSE 0
    [] s = 1 -> IF c = "&" THEN 2 ELSE 0
    [] s = 2 -> IF c = "!" THEN 3 ELSE 2
    [] s = 3 -> IF c = "#" THEN 4 ELSE 2
NextState_hash(s, c) ==
  CASE s = 0 -> IF c = "!" THEN 1 ELSE 0
    [] s = 1 -> IF c = "&" THEN 2 ELSE 0
    [] s \in {2, 3} -> IF c = "#" THEN 4 ELSE IF c = "!" THEN 3 ELSE 2

\* state after byte c; 4 is the return of the segment
NextState(s, c) ==
  CASE s = 0 -> IF c = "!" THEN 1 ELSE 0
    [] s = 1 -> IF c = "&" THEN 2 ELSE 0
    [] s = 2 -> IF c = "!" THEN 3 ELSE 2
    [] s = 3 -> IF c = "#" THEN 4 ELSE IF c = "!" THEN 3 ELSE 2

\* mutant: the caller does not start over
Receive_goes_on(s, b) == state' = s /\ buf' = b /\ UNCHANGED got

\* what a byte leaves behind: the next call of recv_segment starts over
Receive(s, b) ==
  IF s = 4 THEN state' = 0 /\ buf' = << >> /\ got' = Append(got, b)
  ELSE state' = s /\ buf' = b /\ UNCHANGED got

\* one byte in recv_segment; bytes are stored from "!&" on, end_buf included
RecvByte ==
  LET c == Head(wire)
  IN  /\ wire # << >> /\ wire' = Tail(wire)
      /\ Receive(NextState(state, c), IF state \in {2, 3} THEN Append(buf, c) ELSE buf)
      /\ UNCHANGED <<sendVars, up, histVars>>

\* recv returns 0: recv_segment returns -1 and what it has is dropped
RecvEnd ==
  /\ wire = << >> /\ ~up
  /\ state' = 0 /\ buf' = << >>
  /\ UNCHANGED <<sendVars, wire, up, got, histVars>>

Next ==
  \/ \E t \in Thread : (\E p \in Packet : SendSegment(t, p)) \/ Send(t)
  \/ Break \/ RecvByte \/ RecvEnd

Spec == Init /\ [][Next]_vars

-----------------------------------------------------------------------------
(* Properties.                                                             *)

\* The variables keep their types; recv_segment is in one of its four states
\* between two bytes.
TypeOK ==
  /\ sent \in [Thread -> Nat] /\ \A t \in Thread : sent[t] <= MaxSend[t]
  /\ packet \in [Thread -> Packet \cup {<< >>}]
  /\ calls \in [Thread -> Seq(Seq(Byte))] /\ wire \in Seq(Byte) /\ Len(wire) <= MaxWire /\ up \in BOOLEAN
  /\ state \in 0 .. 3 /\ buf \in Seq(Byte) /\ got \in Seq(Seq(Byte))
  /\ alone \in [Thread -> BOOLEAN] /\ overlap \in BOOLEAN /\ dirty \in BOOLEAN /\ whole \in Seq(Packet)

Drained == up /\ wire = << >> /\ \A t \in Thread : ~Sending(t)

\* the sequence p occurs in q, in order
InOrder(p, q) ==
  \E h \in [1 .. Len(p) -> 1 .. Len(q)] :
    /\ \A i \in 1 .. Len(p) : q[h[i]] = p[i]
    /\ \A i, j \in 1 .. Len(p) : i < j => h[i] < h[j]

\* recv_segment finds its way back: whatever garbage segments that overlapped
\* or held an end_buf made of the stream before, every packet that went out
\* alone and holds no end_buf is received, complete and in order.
DamageEnds ==
  Drained => state = 0 /\ InOrder([i \in DOMAIN whole |-> whole[i] \o end_buf], got)

\* As long as no two calls of send_segment overlap and no packet holds an
\* end_buf, recv_segment returns the packets that were sent, each once, in
\* order, and nothing else.
NothingInvented ==
  ~overlap /\ ~dirty =>
    Len(got) <= Len(whole) /\ \A i \in DOMAIN got : got[i] = whole[i] \o end_buf

\* recv_segment, which ignores its argument len, stays within a buffer of the
\* longest packet and two bytes as long as no two calls of send_segment overlap.
BufferFits ==
  ~overlap => \E p \in Packet : Len(buf) <= Len(p) + 2
=============================================================================
