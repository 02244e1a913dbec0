--------------------------- MODULE SegmentProofs ----------------------------
(***************************************************************************)
(* Proofs about Segment for any set of threads, packets and bytes, and for *)
(* a connection of any capacity.  The invariant follows the bytes on the   *)
(* wire through recv_segment ahead of their arrival: "ahead" is where the  *)
(* receiver will be once it has read all of them, and it is that state     *)
(* which fits the calls of send that the threads still have to make.       *)
(***************************************************************************)
EXTENDS Segment, SequenceTheorems, WellFoundedInduction, TLAPS

\* the receiver: its state, its buffer and the segments it has returned
Rcv == [s : 0 .. 3, b : Seq(Byte), g : Seq(Seq(Byte))]

\* recv_segment takes byte c
After(r, c) ==
  LET s == NextState(r.s, c)
      b == IF r.s \in {2, 3} THEN Append(r.b, c) ELSE r.b
  IN  IF s = 4 THEN [s |-> 0, b |-> << >>, g |-> Append(r.g, b)]
      ELSE [s |-> s, b |-> b, g |-> r.g]

\* run[i] is the receiver after i bytes of w
Follows(run, w) ==
  /\ run \in [0 .. Len(w) -> Rcv]
  /\ \A i \in 1 .. Len(w) : run[i] = After(run[i - 1], w[i])

\* h begins with g
Extends(g, h) == Len(g) <= Len(h) /\ \A i \in 1 .. Len(g) : h[i] = g[i]

Fits(b) == \E p \in Packet : Len(b) <= Len(p) + 2

-----------------------------------------------------------------------------
(* Induction, with a set for the induction hypothesis.                     *)

\* A nonempty set of naturals has a least element.
LEMMA LeastNat ==
  ASSUME NEW S, S \subseteq Nat, S # {}
  PROVE  \E n \in S : \A m \in S : n <= m
<1> DEFINE R == OpToRel(<, Nat)
<1>1. IsWellFoundedOn(R, Nat)
  BY NatLessThanWellFounded, Zenon
<1>2. \A n, m \in Nat : n < m => <<n, m>> \in R
  BY Zenon DEF OpToRel
<1> HIDE DEF R
<1>3. PICK n \in S : \A m \in S : ~(<<m, n>> \in R)
  BY <1>1, WFMin, Zenon
<1>4. \A m \in S : ~(m < n)
  BY <1>2, <1>3, Zenon
<1> QED
  BY <1>4

\* A set with 0 that is closed under the successor below n has all of 0 .. n.
LEMMA Climb ==
  ASSUME NEW S, NEW n \in Nat, 0 \in S, \A i \in 0 .. n - 1 : i \in S => i + 1 \in S
  PROVE  \A i \in 0 .. n : i \in S
<1> DEFINE T == {i \in 0 .. n : i \notin S}
<1>1. SUFFICES ASSUME T # {}
               PROVE  FALSE
  BY Zenon
<1>2. T \subseteq Nat
  OBVIOUS
<1>3. PICK i \in T : \A j \in T : i <= j
  BY <1>1, <1>2, LeastNat, Zenon
<1>4. i # 0 /\ i - 1 \in 0 .. n - 1 /\ i - 1 \notin T
  BY <1>3
<1> QED
  BY <1>3, <1>4

-----------------------------------------------------------------------------
(* One byte, and a sequence of them.                                       *)

\* What a byte does to the receiver, whatever the byte.
LEMMA AfterType ==
  ASSUME NEW r \in Rcv, NEW c \in Byte
  PROVE  /\ After(r, c) \in Rcv /\ Extends(r.g, After(r, c).g)
         /\ Len(After(r, c).b) <= Len(r.b) + 1
         /\ (r.s \in {0, 1} => r.b = << >>) =>
              (After(r, c).s \in {0, 1} => After(r, c).b = << >>)
<1> DEFINE s == NextState(r.s, c)
           b == IF r.s \in {2, 3} THEN Append(r.b, c) ELSE r.b
<1>1. r.s \in 0 .. 3 /\ r.b \in Seq(Byte) /\ r.g \in Seq(Seq(Byte))
  BY Zenon DEF Rcv
<1>2. s \in 0 .. 4 /\ (s = 4 => r.s = 3) /\ (s \in {0, 1} => r.s \in {0, 1})
      /\ (s \in {2, 3} => r.s \in {1, 2, 3})
  BY <1>1 DEF NextState
<1>3. b \in Seq(Byte) /\ Len(b) <= Len(r.b) + 1 /\ (r.s \in {0, 1} => b = r.b)
  BY <1>1
<1>4. CASE s = 4
  <2>1. After(r, c) = [s |-> 0, b |-> << >>, g |-> Append(r.g, b)]
    BY <1>4, Zenon DEF After
  <2>2. Append(r.g, b) \in Seq(Seq(Byte)) /\ Extends(r.g, Append(r.g, b))
    BY <1>1, <1>3 DEF Extends
  <2> QED
    BY <1>1, <2>1, <2>2 DEF Rcv
<1>5. CASE s # 4
  <2>1. After(r, c) = [s |-> s, b |-> b, g |-> r.g]
    BY <1>5, Zenon DEF After
  <2>2. s \in 0 .. 3 /\ Extends(r.g, r.g)
    BY <1>1, <1>2, <1>5 DEF Extends
  <2> HIDE DEF s, b
  <2> QED
    BY <1>1, <1>2, <1>3, <2>1, <2>2 DEF Rcv
<1> QED
  BY <1>4, <1>5, Zenon

\* Segments returned stay returned.
LEMMA ExtendsMore ==
  ASSUME NEW S, NEW f \in Seq(S), NEW g \in Seq(S), NEW h \in Seq(S), Extends(f, g), Extends(g, h)
  PROVE  Extends(f, h)
BY DEF Extends

\* Whatever the bytes, recv_segment can be followed through them.
LEMMA RunExists ==
  ASSUME NEW v \in Rcv, NEW w \in Seq(Byte)
  PROVE  \E run : Follows(run, w) /\ run[0] = v
<1> DEFINE Run(n) == {run \in [0 .. n -> Rcv] :
                        run[0] = v /\ \A i \in 1 .. n : run[i] = After(run[i - 1], w[i])}
           S == {n \in 0 .. Len(w) : Run(n) # {}}
<1>1. 0 \in S
  <2>1. [i \in 0 .. 0 |-> v] \in Run(0)
    OBVIOUS
  <2> QED
    BY <2>1
<1>2. ASSUME NEW n \in 0 .. Len(w) - 1, n \in S
      PROVE  n + 1 \in S
  <2>1. PICK run \in Run(n) : TRUE
    BY <1>2, Zenon
  <2> DEFINE next == [i \in 0 .. n + 1 |-> IF i = n + 1 THEN After(run[n], w[n + 1]) ELSE run[i]]
  <2>2. n \in Nat /\ run \in [0 .. n -> Rcv] /\ run[n] \in Rcv /\ w[n + 1] \in Byte
    BY <2>1
  <2>3. After(run[n], w[n + 1]) \in Rcv
    BY <2>2, AfterType, Zenon
  <2>4. next \in [0 .. n + 1 -> Rcv] /\ next[0] = v
    BY <2>1, <2>2, <2>3
  <2>5. \A i \in 1 .. n + 1 : next[i] = After(next[i - 1], w[i])
    <3> SUFFICES ASSUME NEW i \in 1 .. n + 1
                 PROVE  next[i] = After(next[i - 1], w[i])
      BY Zenon
    <3>1. next[i - 1] = run[i - 1]
      BY <2>2
    <3>2. CASE i = n + 1
      BY <2>2, <3>1, <3>2
    <3>3. CASE i # n + 1
      BY <2>1, <2>2, <3>1, <3>3
    <3> QED
      BY <3>2, <3>3, Zenon
  <2> HIDE DEF next
  <2>6. next \in Run(n + 1)
    BY <2>4, <2>5, Zenon
  <2> QED
    BY <2>2, <2>6
<1>3. Len(w) \in S
  <2> HIDE DEF S
  <2>1. \A n \in 0 .. Len(w) - 1 : n \in S => n + 1 \in S
    BY <1>2, Zenon
  <2>2. \A n \in 0 .. Len(w) : n \in S
    BY <1>1, <2>1, Climb
  <2> QED
    BY <2>2
<1>4. PICK run \in Run(Len(w)) : TRUE
  BY <1>3, Zenon
<1> QED
  BY <1>4, Zenon DEF Follows

\* What a run keeps, whatever the bytes: the buffer grows by at most a byte at a
\* time, and what was returned stays returned.
LEMMA RunKeeps ==
  ASSUME NEW w \in Seq(Byte), NEW run, Follows(run, w)
  PROVE  \A i \in 0 .. Len(w) :
           /\ Len(run[i].b) <= Len(run[0].b) + i /\ Extends(run[0].g, run[i].g)
           /\ (run[0].s \in {0, 1} => run[0].b = << >>) =>
                (run[i].s \in {0, 1} => run[i].b = << >>)
<1> DEFINE P(i) == /\ Len(run[i].b) <= Len(run[0].b) + i /\ Extends(run[0].g, run[i].g)
                   /\ (run[0].s \in {0, 1} => run[0].b = << >>) =>
                        (run[i].s \in {0, 1} => run[i].b = << >>)
           S == {i \in 0 .. Len(w) : P(i)}
<1>0. \A i \in 0 .. Len(w) : run[i] \in Rcv
  BY Zenon DEF Follows
<1>1. \A i \in 0 .. Len(w) : run[i] \in Rcv /\ run[i].g \in Seq(Seq(Byte)) /\ Len(run[i].b) \in Nat
  BY <1>0 DEF Rcv
<1>2. 0 \in S
  BY <1>1 DEF Extends
<1>3. ASSUME NEW i \in 0 .. Len(w) - 1, i \in S
      PROVE  i + 1 \in S
  <2>1. i + 1 \in 1 .. Len(w) /\ i \in 0 .. Len(w) /\ i + 1 \in 0 .. Len(w) /\ w[i + 1] \in Byte
    OBVIOUS
  <2>2. run[i + 1] = After(run[i], w[i + 1])
    BY <2>1 DEF Follows
  <2>3. /\ Extends(run[i].g, run[i + 1].g) /\ Len(run[i + 1].b) <= Len(run[i].b) + 1
        /\ (run[i].s \in {0, 1} => run[i].b = << >>) =>
             (run[i + 1].s \in {0, 1} => run[i + 1].b = << >>)
    BY <1>1, <2>1, <2>2, AfterType, Zenon
  <2>4. P(i)
    BY <1>3, Zenon
  <2>5. Extends(run[0].g, run[i + 1].g)
    BY <1>1, <2>1, <2>3, <2>4, ExtendsMore
  <2>6. Len(run[i + 1].b) <= Len(run[0].b) + i + 1
    <3>1. Len(run[i + 1].b) \in Nat /\ Len(run[i].b) \in Nat /\ Len(run[0].b) \in Nat /\ i \in Nat
      BY <1>1, <2>1
    <3>2. Len(run[i + 1].b) <= Len(run[i].b) + 1 /\ Len(run[i].b) <= Len(run[0].b) + i
      BY <2>3, <2>4, Zenon
    <3>3. \A x, y, z, k \in Nat : x <= y + 1 /\ y <= z + k => x <= z + k + 1
      OBVIOUS
    <3> QED
      BY <3>1, <3>2, <3>3, Zenon
  <2> QED
    BY <2>1, <2>3, <2>4, <2>5, <2>6
<1>4. \A i \in 0 .. Len(w) : i \in S
  <2> HIDE DEF S
  <2> QED
    BY <1>2, <1>3, Climb
<1> QED
  BY <1>4, Zenon

\* the state of recv_segment after j bytes of a packet without an end_buf
Mark(p, j) == IF j > 0 /\ p[j] = "!" THEN 3 ELSE 2

\* The bytes of a packet without an end_buf are stored and nothing is returned.
LEMMA CleanRun ==
  ASSUME NEW p \in Seq(Byte), Clean(p), NEW j \in 0 .. Len(p), NEW n \in 0 .. Len(p) - j,
         NEW run, Follows(run, SubSeq(p, j + 1, j + n)),
         run[0].s = Mark(p, j), run[0].b = SubSeq(p, 1, j)
  PROVE  \A i \in 0 .. n : /\ run[i].s = Mark(p, j + i) /\ run[i].b = SubSeq(p, 1, j + i)
                           /\ run[i].g = run[0].g
<1> DEFINE w == SubSeq(p, j + 1, j + n)
           P(i) == /\ run[i].s = Mark(p, j + i) /\ run[i].b = SubSeq(p, 1, j + i)
                   /\ run[i].g = run[0].g
           S == {i \in 0 .. n : P(i)}
<1>1. Len(w) = n /\ \A i \in 1 .. n : w[i] = p[j + i]
  OBVIOUS
<1>2. 0 \in S
  OBVIOUS
<1>3. ASSUME NEW i \in 0 .. n - 1, i \in S
      PROVE  i + 1 \in S
  <2> DEFINE m == j + i
  <2>1. m \in Nat /\ m + 1 \in 1 .. Len(p) /\ P(i)
    BY <1>3
  <2>2. run[i + 1] = After(run[i], p[m + 1])
    <3>1. i + 1 \in 1 .. Len(w) /\ w[i + 1] = p[m + 1]
      BY <1>1, <2>1
    <3>2. run[i + 1] = After(run[i + 1 - 1], w[i + 1])
      BY <3>1 DEF Follows
    <3> QED
      BY <3>1, <3>2
  <2>3. run[i].s = Mark(p, m) /\ run[i].b = SubSeq(p, 1, m)
    BY <2>1, Zenon
  <2>4. Append(SubSeq(p, 1, m), p[m + 1]) = SubSeq(p, 1, m + 1)
    BY <2>1
  <2>5. m > 0 /\ p[m] = "!" => p[m + 1] # "#"
    BY <2>1 DEF Clean, end_buf
  <2>6. NextState(Mark(p, m), p[m + 1]) = Mark(p, m + 1)
    <3>1. Mark(p, m + 1) = IF p[m + 1] = "!" THEN 3 ELSE 2
      BY <2>1 DEF Mark
    <3>2. CASE m > 0 /\ p[m] = "!"
      BY <2>5, <3>1, <3>2 DEF NextState, Mark
    <3>3. CASE ~(m > 0 /\ p[m] = "!")
      <4>1. Mark(p, m) = 2
        BY <3>3, Zenon DEF Mark
      <4> QED
        BY <3>1, <4>1 DEF NextState
    <3> QED
      BY <3>2, <3>3, Zenon
  <2>7. Mark(p, m) \in {2, 3} /\ Mark(p, m + 1) # 4
    BY DEF Mark
  <2>8. run[i + 1] = [s |-> Mark(p, m + 1), b |-> SubSeq(p, 1, m + 1), g |-> run[i].g]
    BY <2>2, <2>3, <2>4, <2>6, <2>7, Zenon DEF After
  <2> QED
    BY <2>1, <2>8
<1>4. \A i \in 0 .. n : i \in S
  <2> HIDE DEF S
  <2>1. \A i \in 0 .. n - 1 : i \in S => i + 1 \in S
    BY <1>3, Zenon
  <2>2. n \in Nat
    OBVIOUS
  <2> QED
    BY <1>2, <2>1, <2>2, Climb, Zenon
<1> QED
  BY <1>4, Zenon

\* Two runs, one after the other.
LEMMA RunsJoin ==
  ASSUME NEW a \in Seq(Byte), NEW c \in Seq(Byte), NEW f, NEW g,
         Follows(f, a), Follows(g, c), g[0] = f[Len(a)],
         NEW h, h = [i \in 0 .. Len(a) + Len(c) |-> IF i <= Len(a) THEN f[i] ELSE g[i - Len(a)]]
  PROVE  Follows(h, a \o c)
<1>1. Len(a \o c) = Len(a) + Len(c) /\ Len(a) \in Nat /\ Len(c) \in Nat
  OBVIOUS
<1>2. ASSUME NEW i \in 0 .. Len(a) + Len(c)
      PROVE  h[i] \in Rcv
  <2>0. (\A j \in 0 .. Len(a) : f[j] \in Rcv) /\ (\A j \in 0 .. Len(c) : g[j] \in Rcv)
    BY Zenon DEF Follows
  <2>1. h[i] = IF i <= Len(a) THEN f[i] ELSE g[i - Len(a)]
    BY Zenon
  <2>2. CASE i <= Len(a)
    <3>1. i \in 0 .. Len(a)
      BY <1>1, <2>2
    <3> QED
      BY <2>0, <2>1, <2>2, <3>1, Zenon
  <2>3. CASE ~ (i <= Len(a))
    <3>1. i - Len(a) \in 0 .. Len(c)
      BY <1>1, <2>3
    <3> QED
      BY <2>0, <2>1, <2>3, <3>1, Zenon
  <2> QED
    BY <2>2, <2>3, Zenon
<1>3. ASSUME NEW i \in 1 .. Len(a) + Len(c)
      PROVE  h[i] = After(h[i - 1], (a \o c)[i])
  <2>1. CASE i <= Len(a)
    <3>1. h[i] = f[i] /\ h[i - 1] = f[i - 1] /\ (a \o c)[i] = a[i] /\ i \in 1 .. Len(a)
      BY <1>1, <2>1
    <3> QED
      BY <3>1, Zenon DEF Follows
  <2>2. CASE i > Len(a)
    <3> DEFINE k == i - Len(a)
    <3>1. k \in 1 .. Len(c) /\ h[i] = g[k] /\ (a \o c)[i] = c[k]
      BY <1>1, <2>2
    <3>2. h[i - 1] = g[k - 1]
      <4>1. CASE i - 1 = Len(a)
        BY <1>1, <4>1
      <4>2. CASE i - 1 # Len(a)
        BY <1>1, <2>2, <4>2
      <4> QED
        BY <4>1, <4>2, Zenon
    <3>3. g[k] = After(g[k - 1], c[k])
      BY <3>1, Zenon DEF Follows
    <3> QED
      BY <3>1, <3>2, <3>3, Zenon
  <2> QED
    BY <1>1, <2>1, <2>2
<1>4. h \in [0 .. Len(a \o c) -> Rcv]
  BY <1>1, <1>2, Zenon
<1> QED
  BY <1>1, <1>3, <1>4, Zenon DEF Follows

\* A run from its second state on.
LEMMA RunRest ==
  ASSUME NEW a \in Seq(Byte), a # << >>, NEW f, Follows(f, a),
         NEW h, h = [i \in 0 .. Len(a) - 1 |-> f[i + 1]]
  PROVE  Follows(h, Tail(a))
<1>1. Len(Tail(a)) = Len(a) - 1 /\ Len(a) \in Nat \ {0}
  OBVIOUS
<1>2. \A i \in 0 .. Len(a) - 1 : h[i] = f[i + 1] /\ h[i] \in Rcv
  BY <1>1 DEF Follows
<1>3. ASSUME NEW i \in 1 .. Len(a) - 1
      PROVE  h[i] = After(h[i - 1], Tail(a)[i])
  <2>1. h[i] = f[i + 1] /\ h[i - 1] = f[i] /\ Tail(a)[i] = a[i + 1]
    BY <1>1, <1>2
  <2>2. f[i + 1] = After(f[i + 1 - 1], a[i + 1])
    BY <1>1 DEF Follows
  <2> QED
    BY <2>1, <2>2
<1>4. h \in [0 .. Len(Tail(a)) -> Rcv]
  BY <1>1, <1>2, Zenon
<1> QED
  BY <1>1, <1>3, <1>4, Zenon DEF Follows

-----------------------------------------------------------------------------
(* Packets in order among the segments.                                    *)

\* More segments do not disturb the order of the packets.
LEMMA InOrderKept ==
  ASSUME NEW S, NEW p \in Seq(S), NEW q \in Seq(S), NEW r \in Seq(S), InOrder(p, q), Extends(q, r)
  PROVE  InOrder(p, r)
<1>1. PICK h \in [1 .. Len(p) -> 1 .. Len(q)] :
        /\ \A i \in 1 .. Len(p) : q[h[i]] = p[i]
        /\ \A i, j \in 1 .. Len(p) : i < j => h[i] < h[j]
  BY Zenon DEF InOrder
<1>2. h \in [1 .. Len(p) -> 1 .. Len(r)] /\ \A i \in 1 .. Len(p) : r[h[i]] = p[i]
  <2>1. \A i \in 1 .. Len(p) : h[i] \in 1 .. Len(q)
    BY <1>1, Zenon
  <2>2. \A i \in 1 .. Len(q) : i \in 1 .. Len(r) /\ r[i] = q[i]
    BY DEF Extends
  <2>3. \A i \in 1 .. Len(p) : h[i] \in 1 .. Len(r) /\ r[h[i]] = p[i]
    BY <1>1, <2>1, <2>2, Zenon
  <2> QED
    BY <1>1, <2>3, Zenon
<1> QED
  BY <1>1, <1>2, Zenon DEF InOrder

\* A packet and its segment, both last.
LEMMA InOrderMore ==
  ASSUME NEW S, NEW p \in Seq(S), NEW q \in Seq(S), NEW x \in S, InOrder(p, q)
  PROVE  InOrder(Append(p, x), Append(q, x))
<1>1. PICK h \in [1 .. Len(p) -> 1 .. Len(q)] :
        /\ \A i \in 1 .. Len(p) : q[h[i]] = p[i]
        /\ \A i, j \in 1 .. Len(p) : i < j => h[i] < h[j]
  BY Zenon DEF InOrder
<1> DEFINE n == Len(p) + 1
           m == Len(q) + 1
           k == [i \in 1 .. n |-> IF i = n THEN m ELSE h[i]]
<1>2. /\ n \in Nat /\ m \in Nat /\ Len(Append(p, x)) = n /\ Len(Append(q, x)) = m
      /\ Append(p, x)[n] = x /\ Append(q, x)[m] = x
      /\ \A i \in 1 .. Len(p) : i < n /\ Append(p, x)[i] = p[i] /\ i \in 1 .. n
      /\ \A i \in 1 .. Len(q) : i < m /\ Append(q, x)[i] = q[i] /\ i \in 1 .. m
      /\ \A i \in 1 .. n : i = n \/ i \in 1 .. Len(p)
  OBVIOUS
<1>3. k \in [1 .. n -> 1 .. m] /\ k[n] = m /\ \A i \in 1 .. Len(p) : k[i] = h[i]
  BY <1>1, <1>2
<1>4. \A i \in 1 .. n : Append(q, x)[k[i]] = Append(p, x)[i]
  <2> SUFFICES ASSUME NEW i \in 1 .. n
               PROVE  Append(q, x)[k[i]] = Append(p, x)[i]
    BY Zenon
  <2>1. CASE i = n
    BY <1>2, <1>3, <2>1, Zenon
  <2>2. CASE i \in 1 .. Len(p)
    <3>1. k[i] = h[i] /\ h[i] \in 1 .. Len(q) /\ q[h[i]] = p[i] /\ Append(p, x)[i] = p[i]
      BY <1>1, <1>2, <1>3, <2>2, Zenon
    <3> QED
      BY <1>2, <3>1, Zenon
  <2> QED
    BY <1>2, <2>1, <2>2, Zenon
<1>5. \A i, j \in 1 .. n : i < j => k[i] < k[j]
  <2> SUFFICES ASSUME NEW i \in 1 .. n, NEW j \in 1 .. n, i < j
               PROVE  k[i] < k[j]
    BY Zenon
  <2>1. i \in 1 .. Len(p) /\ k[i] = h[i] /\ h[i] \in 1 .. Len(q)
    BY <1>1, <1>3, SMTT(20), ZenonT(20)
  <2>2. CASE j = n
    BY <1>2, <1>3, <2>1, <2>2, Zenon
  <2>3. CASE j \in 1 .. Len(p)
    BY <1>1, <1>3, <2>1, <2>3, Zenon
  <2> QED
    BY <1>2, <2>2, <2>3, Zenon
<1> HIDE DEF k, n, m
<1> QED
  BY <1>2, <1>3, <1>4, <1>5, Zenon DEF InOrder

\* the segments of the packets w
Framed(w) == [i \in DOMAIN w |-> w[i] \o end_buf]

\* They are a sequence as long as w.
LEMMA FramedType ==
  ASSUME NEW w \in Seq(Packet)
  PROVE  /\ Framed(w) \in Seq(Seq(Byte)) /\ Len(Framed(w)) = Len(w)
         /\ \A i \in 1 .. Len(w) : Framed(w)[i] = w[i] \o end_buf
<1>1. Len(w) \in Nat /\ DOMAIN w = 1 .. Len(w) /\ \A i \in 1 .. Len(w) : w[i] \in Seq(Byte)
  BY ByteAssumption
<1>2. end_buf \in Seq(Byte)
  BY ByteAssumption DEF end_buf
<1>3. \A i \in 1 .. Len(w) : w[i] \o end_buf \in Seq(Byte)
  BY <1>1, <1>2
<1>4. /\ DOMAIN Framed(w) = 1 .. Len(w) /\ Framed(w) \in [1 .. Len(w) -> Seq(Byte)]
      /\ \A i \in 1 .. Len(w) : Framed(w)[i] = w[i] \o end_buf
  BY <1>1, <1>3, Zenon DEF Framed
<1>5. Framed(w) \in Seq(Seq(Byte))
  <2>1. Framed(w) \in UNION {[1 .. n -> Seq(Byte)] : n \in Nat}
    BY <1>1, <1>4, Zenon
  <2> QED
    BY <2>1, SeqDef, Zenon
<1>6. Len(Framed(w)) \in Nat /\ 1 .. Len(Framed(w)) = 1 .. Len(w)
  BY <1>4, <1>5, LenProperties, Zenon
<1>7. \A m, n \in Nat : 1 .. m = 1 .. n => m = n
  <2> SUFFICES ASSUME NEW m \in Nat, NEW n \in Nat, 1 .. m = 1 .. n, m < n
               PROVE  FALSE
    OBVIOUS
  <2>1. n \in 1 .. n
    OBVIOUS
  <2> QED
    BY <2>1
<1> QED
  BY <1>1, <1>4, <1>5, <1>6, <1>7, Zenon

\* One more packet, one more segment.
LEMMA FramedMore ==
  ASSUME NEW w \in Seq(Packet), NEW p \in Packet
  PROVE  Framed(Append(w, p)) = Append(Framed(w), p \o end_buf)
<1> DEFINE a == Framed(Append(w, p))
           b == Append(Framed(w), p \o end_buf)
           n == Len(w) + 1
<1>1. Append(w, p) \in Seq(Packet) /\ Len(Append(w, p)) = n /\ n \in Nat /\ Append(w, p)[n] = p
      /\ \A i \in 1 .. Len(w) : Append(w, p)[i] = w[i]
  OBVIOUS
<1>2. a \in Seq(Seq(Byte)) /\ Len(a) = n /\ \A i \in 1 .. n : a[i] = Append(w, p)[i] \o end_buf
  BY <1>1, FramedType, Zenon
<1>3. /\ Framed(w) \in Seq(Seq(Byte)) /\ Len(Framed(w)) = Len(w)
      /\ \A i \in 1 .. Len(w) : Framed(w)[i] = w[i] \o end_buf
  BY FramedType, Zenon
<1>4. p \o end_buf \in Seq(Byte)
  BY ByteAssumption DEF end_buf
<1>5. /\ b \in Seq(Seq(Byte)) /\ Len(b) = n /\ b[n] = p \o end_buf
      /\ \A i \in 1 .. Len(w) : b[i] = Framed(w)[i]
  BY <1>3, <1>4, SMTT(20), ZenonT(20)
<1>6. ASSUME NEW i \in 1 .. n
      PROVE  a[i] = b[i]
  <2> HIDE DEF a, b
  <2>1. CASE i = n
    BY <1>1, <1>2, <1>5, <2>1, Zenon
  <2>2. CASE i \in 1 .. Len(w)
    BY <1>1, <1>2, <1>3, <1>5, <2>2, Zenon
  <2> QED
    BY <1>1, <2>1, <2>2
<1> HIDE DEF a, b, n
<1>7. a = b
  BY <1>2, <1>5, <1>6, SeqEqual, Zenon
<1> QED
  BY <1>7, Zenon DEF a, b

-----------------------------------------------------------------------------
(* The invariant.                                                          *)

\* the receiver now
Here == [s |-> state, b |-> buf, g |-> got]

\* run goes through the bytes on the wire
OnWire(run) ==
  /\ Follows(run, wire) /\ run[0] = Here
  /\ \A i \in 0 .. Len(wire) :
       Extends(run[i].g, run[Len(wire)].g) /\ (~overlap => Fits(run[i].b))

\* j bytes of packet p, and nothing else, are in the receiver's buffer
Inside(v, p, j) ==
  /\ Len(v.b) <= j
  /\ Clean(p) => v.s = Mark(p, j) /\ v.b = SubSeq(p, 1, j)

\* What there is still to send of packet p; the receiver ahead fits that if the
\* segment is alone on the connection.
Place(p, rest, isAlone, v) ==
  \/ rest = <<start_buf, p, end_buf>> /\ (isAlone => v.s = 0)
  \/ rest = <<<<"&">>, p, end_buf>> /\ (isAlone => v.s = 1)
  \/ \E j \in 0 .. Len(p) :
       rest = <<SubSeq(p, j + 1, Len(p)), end_buf>> /\ (isAlone => Inside(v, p, j))
  \/ rest = <<end_buf>> /\ (isAlone => Inside(v, p, Len(p)))
  \/ /\ rest = <<<<"#">>>>
     /\ isAlone => Len(v.b) <= Len(p) + 1 /\ (Clean(p) => v.s = 3 /\ v.b = Append(p, "!"))

Senders(v) ==
  \A t \in Thread :
    Sending(t) => packet[t] \in Packet /\ Place(packet[t], calls[t], alone[t], v)

\* Who is alone on the connection, and what the histories say of the segments
\* on their way.
Alone ==
  /\ \A t, u \in Thread : Sending(t) /\ Sending(u) /\ alone[t] => t = u
  /\ ~overlap => \A t \in Thread : Sending(t) => alone[t]
  /\ ~dirty => \A t \in Thread : Sending(t) => Clean(packet[t])
  /\ ~up => \A t \in Thread : ~Sending(t)

\* The receiver will not be left inside a segment: whoever let it in has an
\* end_buf to send.
Returns(v) ==
  /\ v.s \in {0, 1} => v.b = << >>
  /\ up /\ v.s = 2 => \E t \in Thread : Sending(t) /\ calls[t] # <<<<"#">>>>
  /\ up /\ v.s \in {1, 3} => \E t \in Thread : Sending(t)

\* What the receiver will have returned.
Returned(v) ==
  /\ InOrder(Framed(whole), v.g)
  /\ ~overlap /\ ~dirty => v.g = Framed(whole)

Ahead(v) == v \in Rcv /\ Senders(v) /\ Returns(v) /\ Returned(v)

IInv == TypeOK /\ Alone /\ \E run : OnWire(run) /\ Ahead(run[Len(wire)])

-----------------------------------------------------------------------------
(* The steps that leave the wire alone.                                    *)

\* Nothing has been sent at the start.
LEMMA InitIInv == Init => IInv
<1> SUFFICES ASSUME Init
             PROVE  IInv
  BY Zenon
<1> DEFINE v == [s |-> 0, b |-> << >>, g |-> << >>]
           run == [i \in 0 .. 0 |-> v]
<1>1. TypeOK
  <2>1. alone \in [Thread -> BOOLEAN] /\ overlap \in BOOLEAN /\ dirty \in BOOLEAN /\ up \in BOOLEAN
    BY Zenon DEF Init
  <2>2. /\ sent \in [Thread -> Nat] /\ \A t \in Thread : sent[t] <= MaxSend[t]
        /\ packet \in [Thread -> Packet \cup {<< >>}]
    BY BoundAssumption DEF Init
  <2>3. calls \in [Thread -> Seq(Seq(Byte))] /\ state \in 0 .. 3
    BY DEF Init
  <2>4. wire \in Seq(Byte) /\ Len(wire) <= MaxWire /\ buf \in Seq(Byte) /\ got \in Seq(Seq(Byte))
        /\ whole \in Seq(Packet)
    BY BoundAssumption DEF Init
  <2> QED
    BY <2>1, <2>2, <2>3, <2>4, Zenon DEF TypeOK
<1>2. Alone
  BY Zenon DEF Init, Alone, Sending
<1>3. v \in Rcv /\ Len(wire) = 0 /\ wire \in Seq(Byte) /\ run[0] = v /\ v = Here
  BY DEF Init, Rcv, Here
<1>4. Fits(<< >>) /\ Extends(v.g, v.g)
  BY ByteAssumption DEF Fits, Extends
<1>5. Follows(run, wire)
  BY <1>3 DEF Follows
<1>6. OnWire(run)
  BY <1>3, <1>4, <1>5, Zenon DEF OnWire
<1>7. Senders(v) /\ Returns(v)
  BY DEF Init, Senders, Returns, Sending
<1>8. Returned(v)
  <2>1. << >> \in Seq(Packet) /\ Framed(<< >>) = << >>
    BY DEF Framed
  <2>2. InOrder(<< >>, << >>)
    <3>1. 1 .. Len(<< >>) = {}
      OBVIOUS
    <3>2. [i \in {} |-> 1] \in [{} -> {}]
      BY Zenon
    <3> QED
      BY <3>1, <3>2, Zenon DEF InOrder
  <2> QED
    BY <2>1, <2>2, Zenon DEF Init, Returned
<1>9. Ahead(run[Len(wire)])
  BY <1>3, <1>7, <1>8, Zenon DEF Ahead
<1> QED
  BY <1>1, <1>2, <1>6, <1>9, Zenon DEF IInv

\* A run stays one while nothing is sent or received, as long as overlap does
\* not go back.
LEMMA OnWireKept ==
  ASSUME NEW run, OnWire(run), UNCHANGED <<wire, recvVars>>, overlap => overlap'
  PROVE  OnWire(run)'
BY Zenon DEF OnWire, Here, recvVars

\* send_segment is called: a thread that is alone finds the receiver ahead
\* outside of any segment.
LEMMA SendSegmentIInv ==
  ASSUME IInv, NEW t \in Thread, NEW p \in Packet, SendSegment(t, p), TypeOK'
  PROVE  IInv'
<1> DEFINE others == {u \in Thread \ {t} : Sending(u)}
<1>0. PICK run : OnWire(run) /\ Ahead(run[Len(wire)])
  BY Zenon DEF IInv
<1>v. PICK v \in Rcv : v = run[Len(wire)]
  BY <1>0, Zenon DEF Ahead
<1>1. /\ up /\ ~Sending(t) /\ packet' = [packet EXCEPT ![t] = p]
      /\ calls' = [calls EXCEPT ![t] = <<start_buf, p, end_buf>>]
      /\ alone' = [u \in Thread |-> IF u = t THEN others = {} ELSE alone[u] /\ u \notin others]
      /\ overlap' = (overlap \/ others # {}) /\ dirty' = (dirty \/ ~Clean(p))
      /\ UNCHANGED <<wire, up, recvVars, whole>>
  BY Zenon DEF SendSegment, Calls
<1>2. calls \in [Thread -> Seq(Seq(Byte))] /\ packet \in [Thread -> Packet \cup {<< >>}]
  BY Zenon DEF IInv, TypeOK
<1>3. /\ calls'[t] = <<start_buf, p, end_buf>> /\ packet'[t] = p /\ alone'[t] = (others = {})
      /\ Sending(t)'
      /\ \A u \in Thread \ {t} :
           /\ calls'[u] = calls[u] /\ packet'[u] = packet[u] /\ Sending(u)' = Sending(u)
           /\ alone'[u] = (alone[u] /\ u \notin others)
  BY <1>1, <1>2, Zenon DEF Sending
<1>4. Alone'
  BY <1>1, <1>3, Zenon DEF Alone, IInv
<1>5. OnWire(run)'
  BY <1>0, <1>1, OnWireKept, Zenon
<1> HIDE DEF others
<1>6. Senders(v)'
  <2> SUFFICES ASSUME NEW u \in Thread, Sending(u)'
               PROVE  packet'[u] \in Packet /\ Place(packet'[u], calls'[u], alone'[u], v)
    BY Zenon DEF Senders
  <2>1. CASE u = t
    <3>1. others = {} => v.s = 0
      BY <1>0, <1>v, <1>1 DEF Ahead, Returns, Rcv, others
    <3> QED
      BY <1>3, <2>1, <3>1, Zenon DEF Place
  <2>2. CASE u # t
    <3>1. packet[u] \in Packet /\ Place(packet[u], calls[u], alone[u], v) /\ (alone'[u] => alone[u])
      BY <1>0, <1>v, <1>3, <2>2, Zenon DEF Ahead, Senders
    <3> QED
      BY <1>3, <2>2, <3>1, Zenon DEF Place
  <2> QED
    BY <2>1, <2>2, Zenon
<1>7. Returns(v)'
  <2>1. calls'[t] # <<<<"#">>>>
    BY <1>3
  <2> QED
    BY <1>0, <1>v, <1>3, <2>1, Zenon DEF Ahead, Returns
<1>8. Returned(v)'
  BY <1>0, <1>v, <1>1, Zenon DEF Ahead, Returned
<1>9. run[Len(wire')] = v
  BY <1>v, <1>1, Zenon
<1> QED
  BY <1>4, <1>5, <1>6, <1>7, <1>8, <1>9, Zenon DEF IInv, Ahead

\* What the senders and the histories say does not depend on anything else.
LEMMA AheadKept ==
  ASSUME NEW v, Ahead(v), UNCHANGED <<sendVars, up, histVars>>
  PROVE  Ahead(v)'
<1>1. UNCHANGED <<packet, calls, up, alone, overlap, dirty, whole>>
  BY Zenon DEF sendVars, histVars
<1>2. Senders(v)'
  <2> SUFFICES ASSUME NEW t \in Thread, Sending(t)'
               PROVE  packet'[t] \in Packet /\ Place(packet'[t], calls'[t], alone'[t], v)
    BY Zenon DEF Senders
  <2>1. packet[t] \in Packet /\ Place(packet[t], calls[t], alone[t], v)
    BY <1>1, Zenon DEF Ahead, Senders, Sending
  <2> QED
    BY <1>1, <2>1, Zenon
<1>3. Returns(v)' /\ Returned(v)'
  BY <1>1 DEF Ahead, Returns, Returned, Sending
<1> QED
  BY <1>2, <1>3, Zenon DEF Ahead

\* The connection breaks: there are no senders.
LEMMA BreakIInv ==
  ASSUME IInv, Break, TypeOK'
  PROVE  IInv'
<1>0. PICK run : OnWire(run) /\ Ahead(run[Len(wire)])
  BY Zenon DEF IInv
<1>v. PICK v \in Rcv : v = run[Len(wire)]
  BY <1>0, Zenon DEF Ahead
<1>1. up' = FALSE /\ UNCHANGED <<packet, wire, recvVars, histVars>> /\ \A t \in Thread : ~Sending(t)'
  BY Zenon DEF Break, Sending
<1>2. Alone'
  BY <1>1, Zenon DEF Alone
<1>3. OnWire(run)'
  BY <1>0, <1>1, OnWireKept, Zenon DEF histVars
<1>4. Senders(v)'
  BY <1>1, Zenon DEF Senders
<1>5. Returns(v)' /\ Returned(v)'
  BY <1>0, <1>v, <1>1, Zenon DEF Ahead, Returns, Returned, histVars
<1>6. run[Len(wire')] = v
  BY <1>v, <1>1, Zenon
<1> QED
  BY <1>2, <1>3, <1>4, <1>5, <1>6, Zenon DEF IInv, Ahead

\* A byte arrives: the receiver was going to be where it goes.
LEMMA RecvByteIInv ==
  ASSUME IInv, RecvByte, TypeOK'
  PROVE  IInv'
<1>0. PICK run : OnWire(run) /\ Ahead(run[Len(wire)])
  BY Zenon DEF IInv
<1>v. PICK v \in Rcv : v = run[Len(wire)]
  BY <1>0, Zenon DEF Ahead
<1>r. PICK rest : rest = [i \in 0 .. Len(wire) - 1 |-> run[i + 1]]
  BY Zenon
<1>1. /\ wire # << >> /\ wire' = Tail(wire) /\ UNCHANGED <<sendVars, up, histVars>>
      /\ Receive(NextState(state, Head(wire)), IF state \in {2, 3} THEN Append(buf, Head(wire)) ELSE buf)
  BY Zenon DEF RecvByte
<1>2. /\ wire \in Seq(Byte) /\ Len(wire) \in Nat \ {0} /\ Head(wire) = wire[1]
      /\ Len(wire') = Len(wire) - 1 /\ Here \in Rcv
  BY <1>1 DEF IInv, TypeOK, Here, Rcv
<1>3. Here' = After(Here, Head(wire))
  <2>1. Here.s = state /\ Here.b = buf /\ Here.g = got
    BY Zenon DEF Here
  <2> QED
    BY <1>1, <2>1, Zenon DEF After, Here, Receive
<1>4. run[1] = Here'
  <2>1. run[1] = After(run[1 - 1], wire[1])
    BY <1>0, <1>2 DEF OnWire, Follows
  <2> QED
    BY <1>0, <1>2, <1>3, <2>1 DEF OnWire
<1>5. Follows(rest, wire')
  BY <1>0, <1>r, <1>1, <1>2, RunRest, Zenon DEF OnWire
<1>6. \A i \in 0 .. Len(wire') : rest[i] = run[i + 1] /\ i + 1 \in 0 .. Len(wire)
  BY <1>r, <1>2
<1>7. rest[Len(wire')] = v /\ rest[0] = Here'
  BY <1>v, <1>2, <1>4, <1>6
<1>8. OnWire(rest)'
  <2>1. UNCHANGED overlap
    BY <1>1, Zenon DEF histVars
  <2>2. \A i \in 0 .. Len(wire') :
          Extends(rest[i].g, rest[Len(wire')].g) /\ (~overlap => Fits(rest[i].b))
    BY <1>0, <1>v, <1>6, <1>7, Zenon DEF OnWire
  <2> QED
    BY <1>5, <1>7, <2>1, <2>2, Zenon DEF OnWire
<1>9. Ahead(v)'
  BY <1>0, <1>v, <1>1, AheadKept, Zenon
<1>10. Alone'
  BY <1>1, Zenon DEF IInv, Alone, Sending, sendVars, histVars
<1> QED
  BY <1>7, <1>8, <1>9, <1>10, Zenon DEF IInv

\* The connection is gone and the receiver starts over.
LEMMA RecvEndIInv ==
  ASSUME IInv, RecvEnd, TypeOK'
  PROVE  IInv'
<1>0. PICK run : OnWire(run) /\ Ahead(run[Len(wire)])
  BY Zenon DEF IInv
<1>1. /\ wire = << >> /\ ~up /\ state' = 0 /\ buf' = << >>
      /\ UNCHANGED <<sendVars, wire, up, got, histVars>>
  BY Zenon DEF RecvEnd
<1>v. PICK v \in Rcv : v = [s |-> 0, b |-> << >>, g |-> got]
  <2>1. got \in Seq(Seq(Byte)) /\ << >> \in Seq(Byte)
    BY DEF IInv, TypeOK
  <2>2. [s |-> 0, b |-> << >>, g |-> got] \in Rcv
    BY <2>1 DEF Rcv
  <2> QED
    BY <2>2, Zenon
<1> DEFINE next == [i \in 0 .. 0 |-> v]
<1>2. Len(wire) = 0 /\ Len(wire') = 0 /\ run[0] = Here /\ next[0] = v /\ v = Here'
  BY <1>0, <1>v, <1>1 DEF OnWire, Here
<1>3. Follows(next, wire')
  BY <1>2 DEF Follows
<1>4. Extends(v.g, v.g) /\ Fits(v.b)
  BY <1>v, ByteAssumption DEF Extends, Fits, Rcv
<1>5. OnWire(next)'
  BY <1>2, <1>3, <1>4, Zenon DEF OnWire
<1>6. Senders(v)' /\ Returns(v)' /\ Alone'
  <2>1. \A t \in Thread : ~Sending(t)'
    BY <1>1, Zenon DEF IInv, Alone, Sending, sendVars
  <2>2. UNCHANGED <<alone, overlap, dirty, packet, up>> /\ ~up
    BY <1>1, Zenon DEF histVars, sendVars
  <2> QED
    BY <1>v, <2>1, <2>2, Zenon DEF IInv, Alone, Senders, Returns
<1>7. Returned(v)'
  <2>1. Returned(Here) /\ Here.g = got
    BY <1>0, <1>2, Zenon DEF Ahead, Here
  <2> QED
    BY <1>v, <1>1, <2>1, Zenon DEF Returned, histVars
<1> HIDE DEF next
<1> QED
  BY <1>2, <1>5, <1>6, <1>7, Zenon DEF IInv, Ahead

-----------------------------------------------------------------------------
(* A part of a send.                                                       *)

\* Between any two of its states a run only returns more.
LEMMA RunGrows ==
  ASSUME NEW w \in Seq(Byte), NEW run, Follows(run, w)
  PROVE  \A i \in 0 .. Len(w) : Extends(run[i].g, run[Len(w)].g)
<1> DEFINE P(k) == \A i \in 0 .. k : Extends(run[i].g, run[k].g)
           S == {k \in 0 .. Len(w) : P(k)}
<1>1. \A i \in 0 .. Len(w) : run[i] \in Rcv
  BY Zenon DEF Follows
<1>2. \A i \in 0 .. Len(w) : run[i].g \in Seq(Seq(Byte))
  BY <1>1, Zenon DEF Rcv
<1>3. \A i \in 0 .. Len(w) : Extends(run[i].g, run[i].g)
  BY <1>2 DEF Extends
<1>4. 0 \in S
  BY <1>3
<1>5. ASSUME NEW k \in 0 .. Len(w) - 1, k \in S
      PROVE  k + 1 \in S
  <2>1. k + 1 \in 1 .. Len(w) /\ k \in 0 .. Len(w) /\ k + 1 \in 0 .. Len(w) /\ w[k + 1] \in Byte
    OBVIOUS
  <2>2. run[k + 1] = After(run[k], w[k + 1])
    BY <2>1 DEF Follows
  <2>3. Extends(run[k].g, run[k + 1].g)
    BY <1>1, <2>1, <2>2, AfterType, Zenon
  <2>4. ASSUME NEW i \in 0 .. k + 1
        PROVE  Extends(run[i].g, run[k + 1].g)
    <3>1. CASE i = k + 1
      BY <1>3, <2>1, <3>1, Zenon
    <3>2. CASE i # k + 1
      <4>1. i \in 0 .. k /\ i \in 0 .. Len(w)
        BY <2>1, <3>2
      <4>2. Extends(run[i].g, run[k].g)
        BY <1>5, <4>1, Zenon
      <4> QED
        BY <1>2, <2>1, <2>3, <4>1, <4>2, ExtendsMore, Zenon
    <3> QED
      BY <3>1, <3>2, Zenon
  <2> QED
    BY <2>1, <2>4, Zenon
<1>6. Len(w) \in S
  <2> HIDE DEF S
  <2>1. \A k \in 0 .. Len(w) - 1 : k \in S => k + 1 \in S
    BY <1>5, Zenon
  <2>2. \A k \in 0 .. Len(w) : k \in S
    BY <1>4, <2>1, Climb
  <2> QED
    BY <2>2
<1> QED
  BY <1>6, Zenon

\* What the bytes of start_buf and end_buf do.
LEMMA Marker ==
  ASSUME NEW r \in Rcv
  PROVE  /\ After(r, "!").s = (IF r.s = 0 THEN 1 ELSE IF r.s = 1 THEN 0 ELSE 3)
         /\ After(r, "!").b = (IF r.s \in {2, 3} THEN Append(r.b, "!") ELSE r.b)
         /\ After(r, "!").g = r.g
         /\ After(r, "&").s = (IF r.s = 0 THEN 0 ELSE 2)
         /\ After(r, "&").g = r.g /\ (r.s = 1 => After(r, "&").b = r.b)
         /\ After(r, "#").s = (IF r.s = 2 THEN 2 ELSE 0)
         /\ r.s = 3 => After(r, "#").g = Append(r.g, Append(r.b, "#"))
<1>1. r.s \in 0 .. 3
  BY Zenon DEF Rcv
<1>2. /\ NextState(r.s, "!") = (IF r.s = 0 THEN 1 ELSE IF r.s = 1 THEN 0 ELSE 3)
      /\ NextState(r.s, "&") = (IF r.s = 0 THEN 0 ELSE 2)
      /\ NextState(r.s, "#") = (IF r.s = 3 THEN 4 ELSE IF r.s = 2 THEN 2 ELSE 0)
  BY <1>1 DEF NextState
<1>3. /\ After(r, "!") = [s |-> IF r.s = 0 THEN 1 ELSE IF r.s = 1 THEN 0 ELSE 3,
                          b |-> IF r.s \in {2, 3} THEN Append(r.b, "!") ELSE r.b, g |-> r.g]
      /\ After(r, "&") = [s |-> IF r.s = 0 THEN 0 ELSE 2,
                          b |-> IF r.s \in {2, 3} THEN Append(r.b, "&") ELSE r.b, g |-> r.g]
  <2>1. NextState(r.s, "!") # 4 /\ NextState(r.s, "&") # 4
    BY <1>1, <1>2
  <2>2. After(r, "!") = [s |-> NextState(r.s, "!"),
                         b |-> IF r.s \in {2, 3} THEN Append(r.b, "!") ELSE r.b, g |-> r.g]
    BY <2>1, Zenon DEF After
  <2>3. After(r, "&") = [s |-> NextState(r.s, "&"),
                         b |-> IF r.s \in {2, 3} THEN Append(r.b, "&") ELSE r.b, g |-> r.g]
    BY <2>1, Zenon DEF After
  <2> QED
    BY <1>2, <2>2, <2>3, Zenon
<1>4. CASE r.s = 3
  BY <1>2, <1>3, <1>4, SMTT(30), ZenonT(15) DEF After
<1>5. CASE r.s # 3
  BY <1>2, <1>3, <1>5 DEF After
<1> QED
  BY <1>4, <1>5, Zenon

\* A run of one byte, and of two.
LEMMA ShortRun ==
  ASSUME NEW w \in Seq(Byte), NEW run, Follows(run, w), run[0] \in Rcv
  PROVE  /\ Len(w) = 1 => run[1] = After(run[0], w[1])
         /\ Len(w) = 2 => run[1] \in Rcv /\ run[1] = After(run[0], w[1]) /\ run[2] = After(run[1], w[2])
<1>1. ASSUME Len(w) = 1
      PROVE  run[1] = After(run[0], w[1])
  <2>1. run[1] = After(run[1 - 1], w[1])
    BY <1>1 DEF Follows
  <2> QED
    BY <2>1
<1>2. ASSUME Len(w) = 2
      PROVE  run[1] \in Rcv /\ run[1] = After(run[0], w[1]) /\ run[2] = After(run[1], w[2])
  <2>1. run[1] = After(run[1 - 1], w[1]) /\ run[2] = After(run[2 - 1], w[2]) /\ run[1] \in Rcv
    BY <1>2 DEF Follows
  <2> QED
    BY <2>1
<1> QED
  BY <1>1, <1>2, Zenon

\* A marker as bytes, and the second byte of one ...
LEMMA Two ==
  ASSUME NEW x \in Byte, NEW y \in Byte
  PROVE  <<x, y>> \in Seq(Byte) /\ Len(<<x, y>>) = 2 /\ <<x, y>>[1] = x /\ <<x, y>>[2] = y
  OBVIOUS

LEMMA One ==
  ASSUME NEW x \in Byte
  PROVE  <<x>> \in Seq(Byte) /\ Len(<<x>>) = 1 /\ <<x>>[1] = x
  OBVIOUS

LEMMA Single ==
  ASSUME NEW s \in Seq(Byte), Len(s) = 2
  PROVE  SubSeq(s, 2, 2) = <<s[2]>>
<1>1. SubSeq(s, 2, 2) \in Seq(Byte) /\ Len(SubSeq(s, 2, 2)) = 1 /\ SubSeq(s, 2, 2)[1] = s[2]
  OBVIOUS
<1>2. s[2] \in Byte
  OBVIOUS
<1>3. PICK t : t = <<s[2]>>
  BY Zenon
<1>4. t \in Seq(Byte) /\ Len(t) = 1 /\ t[1] = s[2]
  BY <1>2, <1>3
<1>5. SubSeq(s, 2, 2) = t
  BY <1>1, <1>4, SeqEqual
<1> QED
  BY <1>3, <1>5, Zenon

\* ... the bytes of a call that go out ...
LEMMA Taken ==
  ASSUME NEW s \in Seq(Byte), NEW n \in 1 .. Len(s)
  PROVE  /\ SubSeq(s, 1, n) \in Seq(Byte) /\ Len(SubSeq(s, 1, n)) = n
         /\ \A i \in 1 .. n : SubSeq(s, 1, n)[i] = s[i]
  OBVIOUS

\* ... those of what is left of a packet ...
LEMMA Later ==
  ASSUME NEW p \in Seq(Byte), NEW j \in 0 .. Len(p), NEW h, h = SubSeq(p, j + 1, Len(p)),
         NEW n \in 1 .. Len(h)
  PROVE  /\ h \in Seq(Byte) /\ Len(h) = Len(p) - j
         /\ SubSeq(h, 1, n) = SubSeq(p, j + 1, j + n)
         /\ SubSeq(h, n + 1, Len(h)) = SubSeq(p, j + n + 1, Len(p))
<1>1. h \in Seq(Byte) /\ Len(h) = Len(p) - j /\ \A i \in 1 .. Len(h) : h[i] = p[j + i]
  OBVIOUS
<1>2. SubSeq(h, 1, n) = SubSeq(p, j + 1, j + n)
  <2>1. /\ SubSeq(h, 1, n) \in Seq(Byte) /\ Len(SubSeq(h, 1, n)) = n
        /\ \A i \in 1 .. n : SubSeq(h, 1, n)[i] = p[j + i]
    BY <1>1
  <2>2. /\ SubSeq(p, j + 1, j + n) \in Seq(Byte) /\ Len(SubSeq(p, j + 1, j + n)) = n
        /\ \A i \in 1 .. n : SubSeq(p, j + 1, j + n)[i] = p[j + i]
    BY <1>1
  <2> QED
    BY <2>1, <2>2, SeqEqual, Zenon
<1>3. SubSeq(h, n + 1, Len(h)) = SubSeq(p, j + n + 1, Len(p))
  <2>0. PICK k : k \in Nat /\ k = Len(h) - n
    BY <1>1
  <2>1. /\ SubSeq(h, n + 1, Len(h)) \in Seq(Byte) /\ Len(SubSeq(h, n + 1, Len(h))) = k
        /\ \A i \in 1 .. k : SubSeq(h, n + 1, Len(h))[i] = p[j + n + i]
    BY <1>1, <2>0
  <2>2. /\ SubSeq(p, j + n + 1, Len(p)) \in Seq(Byte) /\ Len(SubSeq(p, j + n + 1, Len(p))) = k
        /\ \A i \in 1 .. k : SubSeq(p, j + n + 1, Len(p))[i] = p[j + n + i]
    BY <1>1, <2>0
  <2> QED
    BY <2>1, <2>2, SeqEqual
<1> QED
  BY <1>1, <1>2, <1>3, Zenon

\* ... the rest of a call put back before the others ...
LEMMA Concats ==
  ASSUME NEW x, NEW y, NEW z
  PROVE  /\ <<x>> \o << >> = <<x>> /\ <<x>> \o <<y>> = <<x, y>> /\ <<x>> \o <<y, z>> = <<x, y, z>>
<1> DEFINE S == {x, y, z}
<1>a. /\ <<x>> \in Seq(S) /\ Len(<<x>>) = 1 /\ <<x>>[1] = x
      /\ <<y>> \in Seq(S) /\ Len(<<y>>) = 1 /\ <<y>>[1] = y
  OBVIOUS
<1>b. /\ <<x, y>> \in Seq(S) /\ Len(<<x, y>>) = 2 /\ <<x, y>>[1] = x /\ <<x, y>>[2] = y
      /\ <<y, z>> \in Seq(S) /\ Len(<<y, z>>) = 2 /\ <<y, z>>[1] = y /\ <<y, z>>[2] = z
  OBVIOUS
<1>c. /\ <<x, y, z>> \in Seq(S) /\ Len(<<x, y, z>>) = 3
      /\ <<x, y, z>>[1] = x /\ <<x, y, z>>[2] = y /\ <<x, y, z>>[3] = z
  OBVIOUS
<1>1. <<x>> \o << >> = <<x>>
  OBVIOUS
<1>2. <<x>> \o <<y>> = <<x, y>>
  <2>1. PICK p, q : p = <<x>> /\ q = <<y>>
    BY Zenon
  <2>2. /\ p \o q \in Seq(S) /\ Len(p \o q) = 2 /\ (p \o q)[1] = x /\ (p \o q)[2] = y
    BY <1>a, <2>1
  <2>3. \A i \in 1 .. 2 : (p \o q)[i] = <<x, y>>[i]
    BY <1>b, <2>2
  <2> QED
    BY <1>b, <2>1, <2>2, <2>3, SeqEqual, Zenon
<1>3. <<x>> \o <<y, z>> = <<x, y, z>>
  <2>1. PICK p, q : p = <<x>> /\ q = <<y, z>>
    BY Zenon
  <2>2. /\ p \o q \in Seq(S) /\ Len(p \o q) = 3 /\ (p \o q)[1] = x /\ (p \o q)[2] = y /\ (p \o q)[3] = z
    BY <1>a, <1>b, <2>1
  <2>3. \A i \in 1 .. 3 : (p \o q)[i] = <<x, y, z>>[i]
    BY <1>c, <2>2
  <2> QED
    BY <1>c, <2>1, <2>2, <2>3, SeqEqual, Zenon
<1> QED
  BY <1>1, <1>2, <1>3, Zenon

\* ... and how many calls are left.
LEMMA Lengths ==
  ASSUME NEW x, NEW y, NEW z, NEW u
  PROVE  /\ <<x>> # << >> /\ <<x, y>> # << >> /\ <<x, y, z>> # << >>
         /\ <<x, y>> # <<u>> /\ <<x, y, z>> # <<u>>
<1>1. Len(<<x>>) = 1 /\ Len(<<x, y>>) = 2 /\ Len(<<x, y, z>>) = 3 /\ Len(<<u>>) = 1 /\ Len(<< >>) = 0
  BY Zenon
<1> QED
  BY <1>1, Zenon

\* The call being made and the ones after it; what is left when n bytes are sent.
Current(cs, h, tl) == h = Head(cs) /\ tl = Tail(cs)

Left(h, tl, n) == IF n = Len(h) THEN tl ELSE <<SubSeq(h, n + 1, Len(h))>> \o tl

\* The receiver goes through n bytes of the current call in run r, and rest is
\* left.  Of a packet that is alone and holds no end_buf nothing is returned
\* before the end, and then the whole packet.
Passes(p, cs, a, v, n, r, rest) ==
  /\ rest # << >> => Place(p, rest, a, r[n]) /\ (a /\ Clean(p) => r[n].g = v.g)
  /\ rest = << >> => /\ a /\ Clean(p) => r[n].g = Append(v.g, p \o end_buf)
                     /\ r[n].s \in {0, 2} /\ (r[n].s = 2 => v.s = 2 /\ cs = <<<<"#">>>>)
  /\ rest = <<<<"#">>>> => r[n].s # 2
  /\ a => \A i \in 0 .. n : Len(r[i].b) <= Len(p) + 2

\* n bytes of the current call go out.
LEMMA PartSent ==
  ASSUME NEW p \in Packet, NEW cs, NEW a \in BOOLEAN, NEW v \in Rcv, Place(p, cs, a, v),
         v.s \in {0, 1} => v.b = << >>,
         NEW h, NEW tl, Current(cs, h, tl),
         NEW n \in 1 .. Len(h), NEW r, Follows(r, SubSeq(h, 1, n)), r[0] = v,
         NEW rest, rest = Left(h, tl, n)
  PROVE  Passes(p, cs, a, v, n, r, rest)
<1> USE DEF Passes
<1>1. p \in Seq(Byte) /\ Len(p) \in Nat /\ {"!", "&", "#"} \subseteq Byte
  BY ByteAssumption
<1>2. v.s \in 0 .. 3 /\ v.b \in Seq(Byte) /\ Len(v.b) \in Nat
  BY DEF Rcv
<1> DEFINE w == SubSeq(h, 1, n)
<1>3. ASSUME w \in Seq(Byte), Len(w) = n
      PROVE  /\ \A i \in 0 .. n : Len(r[i].b) <= Len(v.b) + i /\ r[i] \in Rcv
             /\ r[n].s \in {0, 1} => r[n].b = << >>
  <2>1. n \in 0 .. Len(w) /\ \A i \in 0 .. n : r[i] \in Rcv
    BY <1>3 DEF Follows
  <2> QED
    BY <1>3, <2>1, RunKeeps, Zenon
<1>4. CASE cs = <<start_buf, p, end_buf>> /\ (a => v.s = 0)
  <2>0. h \in Seq(Byte) /\ Len(h) = 2 /\ h[1] = "!" /\ h[2] = "&" /\ tl = <<p, end_buf>> /\ n \in {1, 2}
    <3>1. h = <<"!", "&">> /\ tl = <<p, end_buf>>
      BY <1>4 DEF start_buf, Current
    <3>2. h \in Seq(Byte) /\ Len(h) = 2 /\ h[1] = "!" /\ h[2] = "&"
      <4>1. "!" \in Byte /\ "&" \in Byte
        BY <1>1, Zenon
      <4> QED
        BY <3>1, <4>1, Two, Zenon
    <3>3. n \in {1, 2}
      BY <3>2, SMTT(30), ZenonT(15)
    <3> QED
      BY <3>1, <3>2, <3>3, Zenon
  <2>2. CASE n = 1
    <3>1. rest = <<<<"&">>, p, end_buf>>
      <4>1. SubSeq(h, n + 1, Len(h)) = <<"&">> /\ n # Len(h)
        BY <2>0, <2>2, Single
      <4>2. rest = <<<<"&">>>> \o <<p, end_buf>>
        BY <2>0, <4>1, Zenon DEF Left
      <4> QED
        BY <4>2, Concats, Zenon
    <3>2. w \in Seq(Byte) /\ Len(w) = n /\ w[1] = "!"
      BY <2>0, Taken, SMTT(30), ZenonT(15)
    <3>3. r[1] = After(v, "!")
      BY <2>2, <3>2, ShortRun, Zenon
    <3>4. /\ r[1].s = (IF v.s = 0 THEN 1 ELSE IF v.s = 1 THEN 0 ELSE 3) /\ r[1].g = v.g
      BY <3>3, Marker, Zenon
    <3>5. Place(p, rest, a, r[n])
      BY <1>4, <2>2, <3>1, <3>4, Zenon DEF Place
    <3>6. a => \A i \in 0 .. n : Len(r[i].b) <= Len(p) + 2
      BY <1>1, <1>2, <1>3, <1>4, <2>2, <3>2
    <3>7. rest # << >> /\ rest # <<<<"#">>>>
      BY <3>1, Lengths, Zenon
    <3> QED
      BY <2>2, <3>4, <3>5, <3>6, <3>7, Zenon
  <2>3. CASE n = 2
    <3>1. rest = <<p, end_buf>>
      <4>1. n = Len(h)
        BY <2>0, <2>3, Zenon
      <4> QED
        BY <2>0, <4>1, Zenon DEF Left
    <3>2. w \in Seq(Byte) /\ Len(w) = n /\ w[1] = "!" /\ w[2] = "&"
      <4>1. w \in Seq(Byte) /\ Len(w) = n /\ \A i \in 1 .. n : w[i] = h[i]
        BY <2>0, Taken, Zenon
      <4> QED
        BY <2>0, <2>3, <4>1
    <3>3. r[1] = After(v, "!") /\ r[1] \in Rcv /\ r[2] = After(r[1], "&")
      BY <2>3, <3>2, ShortRun, Zenon
    <3>4. /\ r[1].s = (IF v.s = 0 THEN 1 ELSE IF v.s = 1 THEN 0 ELSE 3) /\ r[1].g = v.g
          /\ r[1].b = (IF v.s \in {2, 3} THEN Append(v.b, "!") ELSE v.b)
      BY <3>3, Marker
    <3>5. /\ r[2].s = (IF r[1].s = 0 THEN 0 ELSE 2) /\ r[2].g = r[1].g
          /\ r[1].s = 1 => r[2].b = r[1].b
      BY <3>3, Marker, Zenon
    <3>6. a => r[2].s = 2 /\ r[2].b = << >>
      BY <1>4, <3>4, <3>5
    <3>7. SubSeq(p, 1, 0) = << >> /\ SubSeq(p, 0 + 1, Len(p)) = p /\ Mark(p, 0) = 2 /\ Len(<< >>) = 0
      BY <1>1, SubSeqFull, SubSeqEmpty DEF Mark
    <3>8. a => Inside(r[2], p, 0)
      <4>1. a => Len(r[2].b) <= 0 /\ r[2].s = Mark(p, 0) /\ r[2].b = SubSeq(p, 1, 0)
        <5>1. 0 <= 0
          OBVIOUS
        <5> QED
          BY <3>6, <3>7, <5>1, Zenon
      <4> QED
        BY <4>1, Zenon DEF Inside
    <3>9. Place(p, rest, a, r[n])
      <4>1. 0 \in 0 .. Len(p) /\ rest = <<SubSeq(p, 0 + 1, Len(p)), end_buf>> /\ (a => Inside(r[n], p, 0))
        <5>1. 0 \in 0 .. Len(p)
          BY <1>1, SMTT(30), ZenonT(15)
        <5> QED
          BY <2>3, <3>1, <3>7, <3>8, <5>1, Zenon
      <4> QED
        BY <4>1, Zenon DEF Place
    <3>10. a => \A i \in 0 .. n : Len(r[i].b) <= Len(p) + 2
      BY <1>1, <1>2, <1>3, <1>4, <2>3, <3>2, SMTT(30), ZenonT(15)
    <3>11. rest # << >> /\ rest # <<<<"#">>>>
      BY <3>1, Lengths, Zenon
    <3> QED
      BY <2>3, <3>4, <3>5, <3>9, <3>10, <3>11, Zenon
  <2> QED
    BY <2>0, <2>2, <2>3, Zenon
<1>5. CASE cs = <<<<"&">>, p, end_buf>> /\ (a => v.s = 1)
  <2>1. h \in Seq(Byte) /\ Len(h) = 1 /\ h[1] = "&" /\ tl = <<p, end_buf>> /\ n = 1
    <3>1. h = <<"&">> /\ tl = <<p, end_buf>>
      BY <1>5 DEF Current
    <3>2. h \in Seq(Byte) /\ Len(h) = 1 /\ h[1] = "&"
      <4>1. "&" \in Byte
        BY <1>1, Zenon
      <4> QED
        BY <3>1, <4>1, One, Zenon
    <3>3. n = 1
      BY <3>2
    <3> QED
      BY <3>1, <3>2, <3>3, Zenon
  <2>2. rest = <<p, end_buf>>
    BY <2>1, Zenon DEF Left
  <2>3. w \in Seq(Byte) /\ Len(w) = n /\ w[1] = "&"
    BY <2>1, Taken, Zenon
  <2>4. r[1] = After(v, "&")
    BY <2>1, <2>3, ShortRun, Zenon
  <2>5. /\ r[1].s = (IF v.s = 0 THEN 0 ELSE 2) /\ r[1].g = v.g /\ (v.s = 1 => r[1].b = v.b)
    BY <2>4, Marker, Zenon
  <2>6. SubSeq(p, 1, 0) = << >> /\ SubSeq(p, 0 + 1, Len(p)) = p /\ Mark(p, 0) = 2 /\ Len(<< >>) = 0
    BY <1>1, SubSeqFull, SubSeqEmpty DEF Mark
  <2>7. a => Inside(r[1], p, 0)
    <3>1. 0 <= 0
      OBVIOUS
    <3>2. a => r[1].s = 2 /\ r[1].b = << >>
      BY <1>5, <2>5, Zenon
    <3> QED
      BY <2>6, <3>1, <3>2, Zenon DEF Inside
  <2>8. Place(p, rest, a, r[n])
    <3>1. 0 \in 0 .. Len(p) /\ rest = <<SubSeq(p, 0 + 1, Len(p)), end_buf>> /\ (a => Inside(r[n], p, 0))
      BY <1>1, <2>1, <2>2, <2>6, <2>7
    <3> QED
      BY <3>1, Zenon DEF Place
  <2>9. a => \A i \in 0 .. n : Len(r[i].b) <= Len(p) + 2
    BY <1>1, <1>2, <1>3, <1>5, <2>1, <2>3, SMTT(30), ZenonT(15)
  <2>10. rest # << >> /\ rest # <<<<"#">>>>
    BY <2>2, Lengths, Zenon
  <2> QED
    BY <2>1, <2>5, <2>8, <2>9, <2>10, Zenon
<1>6. ASSUME NEW j \in 0 .. Len(p), cs = <<SubSeq(p, j + 1, Len(p)), end_buf>>, a => Inside(v, p, j)
      PROVE  /\ rest # << >> /\ Place(p, rest, a, r[n]) /\ (a /\ Clean(p) => r[n].g = v.g)
             /\ rest # <<<<"#">>>> /\ (a => \A i \in 0 .. n : Len(r[i].b) <= Len(p) + 2)
  <2>1. h = SubSeq(p, j + 1, Len(p)) /\ tl = <<end_buf>>
    BY <1>6 DEF Current
  <2>2. h \in Seq(Byte) /\ Len(h) = Len(p) - j /\ n \in 1 .. Len(p) - j
    BY <1>1, <2>1
  <2>3. w = SubSeq(p, j + 1, j + n) /\ w \in Seq(Byte) /\ Len(w) = n
    <3>1. w \in Seq(Byte) /\ Len(w) = n
      BY <2>2, Taken, Zenon
    <3>2. w = SubSeq(p, j + 1, j + n)
      BY <1>1, <2>1, Later, Zenon
    <3> QED
      BY <3>1, <3>2, Zenon
  <2>4. r[n] \in Rcv /\ Len(r[n].b) <= Len(v.b) + n /\ \A i \in 0 .. n : Len(r[i].b) <= Len(v.b) + i
    BY <1>3, <2>3
  <2>5. a => Len(v.b) <= j /\ (Clean(p) => v.s = Mark(p, j) /\ v.b = SubSeq(p, 1, j))
    BY <1>6, Zenon DEF Inside
  <2>6. a /\ Clean(p) => r[n].s = Mark(p, j + n) /\ r[n].b = SubSeq(p, 1, j + n) /\ r[n].g = v.g
    <3> SUFFICES ASSUME a, Clean(p)
                 PROVE  r[n].s = Mark(p, j + n) /\ r[n].b = SubSeq(p, 1, j + n) /\ r[n].g = v.g
      BY Zenon
    <3>a. Follows(r, SubSeq(p, j + 1, j + n))
      BY <2>3, Zenon
    <3>1. n \in 0 .. Len(p) - j /\ n \in 0 .. n /\ Follows(r, SubSeq(p, j + 1, j + n))
      BY <1>1, <2>2, <3>a, SMTT(30), ZenonT(15)
    <3> QED
      BY <1>1, <2>5, <3>1, CleanRun, Zenon
  <2>7. a => Inside(r[n], p, j + n)
    <3>1. a => Len(r[n].b) <= j + n
      BY <1>2, <2>2, <2>4, <2>5, SMTT(30), ZenonT(15) DEF Rcv
    <3> QED
      BY <2>6, <3>1, Zenon DEF Inside
  <2>8. a => \A i \in 0 .. n : Len(r[i].b) <= Len(p) + 2
    <3> SUFFICES ASSUME a, NEW i \in 0 .. n
                 PROVE  Len(r[i].b) <= Len(p) + 2
      BY Zenon
    <3>1. Len(r[i].b) \in Nat
      <4>1. r[i].b \in Seq(Byte)
        BY <1>3, <2>3, Zenon DEF Rcv
      <4> QED
        BY <4>1
    <3>2. Len(r[i].b) <= Len(v.b) + i /\ Len(v.b) <= j
      BY <2>4, <2>5, Zenon
    <3> QED
      BY <1>1, <1>2, <2>2, <3>1, <3>2
  <2>9. CASE n = Len(p) - j
    <3>1. rest = <<end_buf>> /\ j + n = Len(p)
      <4>1. n = Len(h) /\ j + n = Len(p)
        BY <1>1, <2>2, <2>9, SMTT(30), ZenonT(15)
      <4> QED
        BY <2>1, <4>1, Zenon DEF Left
    <3>2. Place(p, rest, a, r[n])
      BY <2>7, <3>1, Zenon DEF Place
    <3>3. rest # << >> /\ rest # <<<<"#">>>>
      <4>1. <<end_buf>> # << >>
        BY Lengths, Zenon
      <4>2. end_buf # <<"#">>
        BY Lengths, Zenon DEF end_buf
      <4>3. <<end_buf>>[1] = end_buf /\ <<<<"#">>>>[1] = <<"#">>
        BY Zenon
      <4> QED
        BY <3>1, <4>1, <4>2, <4>3, Zenon
    <3> QED
      BY <2>6, <2>8, <3>2, <3>3, Zenon
  <2>10. CASE n # Len(p) - j
    <3>1. SubSeq(h, n + 1, Len(h)) = SubSeq(p, j + n + 1, Len(p)) /\ j + n \in 0 .. Len(p)
      <4>1. j + n \in 0 .. Len(p)
        BY <1>1, <2>2
      <4>2. SubSeq(h, n + 1, Len(h)) = SubSeq(p, j + n + 1, Len(p))
        BY <1>1, <2>1, Later, ZenonT(30), SMTT(20)
      <4> QED
        BY <4>1, <4>2, Zenon
    <3>2. rest = <<SubSeq(p, j + n + 1, Len(p)), end_buf>>
      <4>1. n # Len(h)
        BY <2>2, <2>10, Zenon
      <4>2. rest = <<SubSeq(p, j + n + 1, Len(p))>> \o <<end_buf>>
        BY <2>1, <3>1, <4>1, Zenon DEF Left
      <4> QED
        BY <4>2, Concats, Zenon
    <3>3. Place(p, rest, a, r[n])
      BY <2>7, <3>1, <3>2, Zenon DEF Place
    <3>4. rest # << >> /\ rest # <<<<"#">>>>
      BY <3>2, Lengths, Zenon
    <3> QED
      BY <2>6, <2>8, <3>3, <3>4, Zenon
  <2> QED
    BY <2>9, <2>10, Zenon
<1>7. CASE cs = <<end_buf>> /\ (a => Inside(v, p, Len(p)))
  <2>0. h \in Seq(Byte) /\ Len(h) = 2 /\ h[1] = "!" /\ h[2] = "#" /\ tl = << >> /\ n \in {1, 2}
    <3>1. h = <<"!", "#">> /\ tl = << >>
      BY <1>7 DEF end_buf, Current
    <3>2. h \in Seq(Byte) /\ Len(h) = 2 /\ h[1] = "!" /\ h[2] = "#"
      <4>1. "!" \in Byte /\ "#" \in Byte
        BY <1>1, Zenon
      <4> QED
        BY <3>1, <4>1, Two, Zenon
    <3>3. n \in {1, 2}
      BY <3>2
    <3> QED
      BY <3>1, <3>2, <3>3, Zenon
  <2>2. SubSeq(p, 1, Len(p)) = p /\ Mark(p, Len(p)) \in {2, 3}
    BY <1>1, SMTT(30), ZenonT(15) DEF Mark
  <2>3. a => Len(v.b) <= Len(p) /\ (Clean(p) => v.s \in {2, 3} /\ v.b = p)
    BY <1>7, <2>2, Zenon DEF Inside
  <2>4. CASE n = 1
    <3>1. rest = <<<<"#">>>>
      <4>1. SubSeq(h, n + 1, Len(h)) = <<"#">> /\ n # Len(h)
        BY <2>0, <2>4, Single
      <4>2. rest = <<<<"#">>>> \o << >>
        BY <2>0, <4>1, Zenon DEF Left
      <4> QED
        BY <4>2, Concats, Zenon
    <3>2. w \in Seq(Byte) /\ Len(w) = n /\ w[1] = "!"
      BY <2>0, Taken, SMTT(30), ZenonT(15)
    <3>3. r[1] = After(v, "!")
      BY <2>4, <3>2, ShortRun, Zenon
    <3>4. /\ r[1].s = (IF v.s = 0 THEN 1 ELSE IF v.s = 1 THEN 0 ELSE 3) /\ r[1].g = v.g
          /\ r[1].b = (IF v.s \in {2, 3} THEN Append(v.b, "!") ELSE v.b)
      BY <3>3, Marker, ZenonT(30)
    <3>5. \A i \in 0 .. n : Len(r[i].b) <= Len(v.b) + i /\ Len(r[i].b) \in Nat
      <4>1. \A i \in 0 .. n : r[i].b \in Seq(Byte) /\ Len(r[i].b) <= Len(v.b) + i
        BY <1>3, <3>2, Zenon DEF Rcv
      <4> QED
        BY <4>1
    <3>6. a => Len(r[1].b) <= Len(p) + 1 /\ \A i \in 0 .. n : Len(r[i].b) <= Len(p) + 2
      BY <1>1, <1>2, <2>3, <2>4, <3>5, SMTT(30), ZenonT(15)
    <3>7. a /\ Clean(p) => r[1].s = 3 /\ r[1].b = Append(p, "!")
      BY <2>3, <3>4, SMTT(30), ZenonT(15)
    <3>8. Place(p, rest, a, r[n])
      BY <2>4, <3>1, <3>6, <3>7, Zenon DEF Place
    <3>9. rest # << >> /\ r[n].s # 2 /\ r[n].g = v.g
      <4>1. rest # << >>
        BY <3>1, Lengths, Zenon
      <4> QED
        BY <2>4, <3>4, <4>1
    <3> QED
      BY <3>6, <3>8, <3>9, Zenon
  <2>5. CASE n = 2
    <3>1. rest = << >>
      <4>1. n = Len(h)
        BY <2>0, <2>5, Zenon
      <4> QED
        BY <2>0, <4>1, Zenon DEF Left
    <3>2. w \in Seq(Byte) /\ Len(w) = n /\ w[1] = "!" /\ w[2] = "#"
      BY <2>0, <2>5, Taken
    <3>3. r[1] = After(v, "!") /\ r[1] \in Rcv /\ r[2] = After(r[1], "#")
      BY <2>5, <3>2, ShortRun, Zenon
    <3>4. /\ r[1].s = (IF v.s = 0 THEN 1 ELSE IF v.s = 1 THEN 0 ELSE 3) /\ r[1].g = v.g
          /\ r[1].b = (IF v.s \in {2, 3} THEN Append(v.b, "!") ELSE v.b)
      BY <3>3, Marker, ZenonT(15), SMTT(20)
    <3>5. /\ r[2].s = (IF r[1].s = 2 THEN 2 ELSE 0)
          /\ r[1].s = 3 => r[2].g = Append(r[1].g, Append(r[1].b, "#"))
      BY <3>3, Marker, ZenonT(30)
    <3>6. r[2].s = 0
      BY <3>4, <3>5
    <3>7. a /\ Clean(p) => r[2].g = Append(v.g, p \o end_buf)
      <4>1. Append(Append(p, "!"), "#") = p \o <<"!", "#">>
        BY <1>1, SMTT(20), ZenonT(20)
      <4>2. a /\ Clean(p) => r[1].s = 3 /\ r[1].b = Append(p, "!")
        BY <2>3, <3>4
      <4>3. a /\ Clean(p) => r[2].g = Append(v.g, Append(Append(p, "!"), "#"))
        BY <3>4, <3>5, <4>2, Zenon
      <4> QED
        BY <4>1, <4>3, Zenon DEF end_buf
    <3>8. \A i \in 0 .. n : Len(r[i].b) <= Len(v.b) + i /\ Len(r[i].b) \in Nat
      <4>1. \A i \in 0 .. n : r[i].b \in Seq(Byte) /\ Len(r[i].b) <= Len(v.b) + i
        BY <1>3, <3>2, Zenon DEF Rcv
      <4> QED
        BY <4>1
    <3>9. a => \A i \in 0 .. n : Len(r[i].b) <= Len(p) + 2
      BY <1>1, <1>2, <2>3, <2>5, <3>8, SMTT(20), ZenonT(20)
    <3>10. rest # <<<<"#">>>>
      BY <3>1, Lengths, Zenon
    <3> QED
      <4>1. r[n].s = 0 /\ r[n].s \in {0, 2} /\ r[n].s # 2 /\ (a /\ Clean(p) => r[n].g = Append(v.g, p \o end_buf))
        <5>1. r[n].s = 0 /\ (a /\ Clean(p) => r[n].g = Append(v.g, p \o end_buf))
          BY <2>5, <3>6, <3>7, Zenon
        <5>2. r[n].s \in {0, 2} /\ r[n].s # 2
          BY <5>1
        <5> QED
          BY <5>1, <5>2, Zenon
      <4> QED
        BY <3>1, <3>9, <3>10, <4>1, Zenon
  <2> QED
    BY <2>0, <2>4, <2>5, Zenon
<1>8. CASE /\ cs = <<<<"#">>>>
           /\ a => Len(v.b) <= Len(p) + 1 /\ (Clean(p) => v.s = 3 /\ v.b = Append(p, "!"))
  <2>1. h \in Seq(Byte) /\ Len(h) = 1 /\ h[1] = "#" /\ tl = << >> /\ n = 1
    <3>1. h = <<"#">> /\ tl = << >>
      BY <1>8 DEF Current
    <3>2. h \in Seq(Byte) /\ Len(h) = 1 /\ h[1] = "#"
      <4>1. "#" \in Byte
        BY <1>1, Zenon
      <4> QED
        BY <3>1, <4>1, One, Zenon
    <3>3. n = 1
      BY <3>2
    <3> QED
      BY <3>1, <3>2, <3>3, Zenon
  <2>2. rest = << >>
    BY <2>1, Zenon DEF Left
  <2>3. w \in Seq(Byte) /\ Len(w) = n /\ w[1] = "#"
    BY <2>1, Taken, Zenon
  <2>4. r[1] = After(v, "#")
    BY <2>1, <2>3, ShortRun, Zenon
  <2>5. /\ r[1].s = (IF v.s = 2 THEN 2 ELSE 0)
        /\ v.s = 3 => r[1].g = Append(v.g, Append(v.b, "#"))
    BY <2>4, Marker, Zenon
  <2>6. a /\ Clean(p) => r[1].g = Append(v.g, p \o end_buf)
    <3>1. Append(Append(p, "!"), "#") = p \o <<"!", "#">>
      BY <1>1
    <3> QED
      BY <1>8, <2>5, <3>1, Zenon DEF end_buf
  <2>7. \A i \in 0 .. n : Len(r[i].b) <= Len(v.b) + i /\ Len(r[i].b) \in Nat
    <3>1. \A i \in 0 .. n : r[i].b \in Seq(Byte) /\ Len(r[i].b) <= Len(v.b) + i
      BY <1>3, <2>3, Zenon DEF Rcv
    <3> QED
      BY <3>1
  <2>8. a => \A i \in 0 .. n : Len(r[i].b) <= Len(p) + 2
    BY <1>1, <1>2, <1>8, <2>1, <2>7
  <2>9. rest # <<<<"#">>>>
    BY <2>2, Lengths, Zenon
  <2> QED
    <3>1. r[n].s \in {0, 2} /\ (r[n].s = 2 => v.s = 2)
      BY <2>1, <2>5, SMTT(30), ZenonT(15)
    <3>2. a /\ Clean(p) => r[n].g = Append(v.g, p \o end_buf)
      BY <2>1, <2>6, Zenon
    <3> QED
      BY <1>8, <2>2, <2>8, <2>9, <3>1, <3>2, Zenon
<1> QED
  BY <1>4, <1>5, <1>6, <1>7, <1>8, Zenon DEF Place

\* A send, or a part of one: the receiver ahead goes on through the new bytes.
LEMMA SendIInv ==
  ASSUME IInv, NEW t \in Thread, Send(t), TypeOK'
  PROVE  IInv'
<1>0. PICK run : OnWire(run) /\ Ahead(run[Len(wire)])
  BY Zenon DEF IInv
<1>v. PICK v \in Rcv : v = run[Len(wire)]
  BY <1>0, Zenon DEF Ahead
<1>1. PICK p, a, cs, h, tl : /\ p = packet[t] /\ a = alone[t] /\ cs = calls[t]
                             /\ h = Head(cs) /\ tl = Tail(cs)
  BY Zenon
<1>n. PICK n \in 1 .. Len(h) :
        /\ wire' = wire \o SubSeq(h, 1, n) /\ calls' = [calls EXCEPT ![t] = Left(h, tl, n)]
        /\ whole' = IF Left(h, tl, n) = << >> /\ a /\ Clean(p) THEN Append(whole, p) ELSE whole
  <2>1. h = Head(calls[t]) /\ tl = Tail(calls[t])
    BY <1>1, Zenon
  <2> QED
    BY <1>1, <2>1, Zenon DEF Send, Left
<1>2. PICK rest : /\ rest = Left(h, tl, n) /\ wire' = wire \o SubSeq(h, 1, n)
                  /\ calls' = [calls EXCEPT ![t] = rest]
                  /\ whole' = IF rest = << >> /\ a /\ Clean(p) THEN Append(whole, p) ELSE whole
  BY <1>n, Zenon
<1>3. up /\ cs # << >> /\ UNCHANGED <<sent, packet, up, recvVars, alone, overlap, dirty>>
  BY <1>1, Zenon DEF Send, Sending
<1>t. /\ calls \in [Thread -> Seq(Seq(Byte))] /\ alone \in [Thread -> BOOLEAN] /\ wire \in Seq(Byte)
      /\ whole \in Seq(Packet) /\ up \in BOOLEAN
  BY Zenon DEF IInv, TypeOK
<1>p. p \in Packet /\ Place(p, cs, a, v) /\ a \in BOOLEAN
  BY <1>0, <1>v, <1>1, <1>3, <1>t, Zenon DEF Ahead, Senders, Sending
<1>4. h \in Seq(Byte)
  BY <1>1, <1>3, <1>t
<1>w. PICK w : w = SubSeq(h, 1, n)
  BY Zenon
<1>5. w \in Seq(Byte) /\ Len(w) = n /\ n \in Nat
  BY <1>4, <1>w, Taken
<1>6. PICK r : Follows(r, w) /\ r[0] = v
  BY <1>5, RunExists, Zenon
<1>7. /\ \A i \in 0 .. n : r[i] \in Rcv /\ Extends(r[i].g, r[n].g)
      /\ v.s \in {0, 1} => v.b = << >>
      /\ r[n].s \in {0, 1} => r[n].b = << >>
  <2>1. v.s \in {0, 1} => v.b = << >>
    BY <1>0, <1>v, Zenon DEF Ahead, Returns
  <2>2. \A i \in 0 .. n : r[i] \in Rcv
    BY <1>5, <1>6, Zenon DEF Follows
  <2>3. n \in 0 .. n
    BY <1>5
  <2> QED
    BY <1>5, <1>6, <2>1, <2>2, <2>3, RunKeeps, RunGrows, Zenon
<1>8. /\ rest # << >> => Place(p, rest, a, r[n]) /\ (a /\ Clean(p) => r[n].g = v.g)
      /\ rest = << >> => /\ a /\ Clean(p) => r[n].g = Append(v.g, p \o end_buf)
                         /\ r[n].s \in {0, 2} /\ (r[n].s = 2 => v.s = 2 /\ cs = <<<<"#">>>>)
      /\ rest = <<<<"#">>>> => r[n].s # 2
      /\ a => \A i \in 0 .. n : Len(r[i].b) <= Len(p) + 2
  <2>1. Current(cs, h, tl)
    BY <1>1, Zenon DEF Current
  <2>2. Follows(r, SubSeq(h, 1, n)) /\ rest = Left(h, tl, n)
    BY <1>2, <1>w, <1>6, Zenon
  <2>3. v.s \in {0, 1} => v.b = << >>
    BY <1>7, Zenon
  <2>4. Passes(p, cs, a, v, n, r, rest)
    BY <1>p, <1>6, <2>1, <2>2, <2>3, PartSent, Zenon
  <2> QED
    BY <2>4, Zenon DEF Passes
<1>x. PICK x \in Rcv : x = r[n]
  BY <1>5, <1>7
<1>9. /\ calls'[t] = rest /\ packet'[t] = p /\ alone'[t] = a /\ Sending(t) /\ Sending(t)' = (rest # << >>)
      /\ \A u \in Thread \ {t} :
           /\ calls'[u] = calls[u] /\ packet'[u] = packet[u] /\ alone'[u] = alone[u]
           /\ Sending(u)' = Sending(u)
  BY <1>1, <1>2, <1>3, <1>t, Zenon DEF Sending
<1>10. Alone'
  BY <1>1, <1>3, <1>9, Zenon DEF IInv, Alone
<1>11. Senders(x)'
  <2> SUFFICES ASSUME NEW u \in Thread, Sending(u)'
               PROVE  packet'[u] \in Packet /\ Place(packet'[u], calls'[u], alone'[u], x)
    BY Zenon DEF Senders
  <2>1. CASE u = t
    BY <1>p, <1>8, <1>x, <1>9, <2>1, Zenon
  <2>2. CASE u # t
    <3>1. Sending(u) /\ packet'[u] = packet[u] /\ calls'[u] = calls[u] /\ alone'[u] = alone[u] /\ Sending(t)
      BY <1>9, <2>2, Zenon
    <3>2. ~alone[u]
      BY <2>2, <3>1, Zenon DEF IInv, Alone
    <3>3. packet[u] \in Packet /\ Place(packet[u], calls[u], alone[u], v)
      BY <1>0, <1>v, <3>1, Zenon DEF Ahead, Senders
    <3>4. Place(packet[u], calls[u], alone[u], x)
      BY <3>2, <3>3, Zenon DEF Place
    <3> QED
      BY <3>1, <3>3, <3>4, Zenon
  <2> QED
    BY <2>1, <2>2, Zenon
<1>12. Returns(x)'
  <2>1. x.s \in {0, 1} => x.b = << >>
    BY <1>7, <1>x, Zenon
  <2>2. ASSUME x.s \in {1, 3}
        PROVE  \E u \in Thread : Sending(u)'
    <3>1. rest # << >>
      BY <1>8, <1>x, <2>2
    <3> QED
      BY <1>9, <3>1, Zenon
  <2>3. ASSUME x.s = 2
        PROVE  \E u \in Thread : Sending(u)' /\ calls'[u] # <<<<"#">>>>
    <3>1. CASE rest # << >>
      <4>1. rest # <<<<"#">>>>
        BY <1>8, <1>x, <2>3, Zenon
      <4> QED
        BY <1>9, <3>1, <4>1, Zenon
    <3>2. CASE rest = << >>
      <4>1. v.s = 2 /\ cs = <<<<"#">>>>
        BY <1>8, <1>x, <2>3, <3>2, Zenon
      <4>2. PICK u \in Thread : Sending(u) /\ calls[u] # <<<<"#">>>>
        BY <1>0, <1>v, <1>3, <4>1, Zenon DEF Ahead, Returns
      <4>3. u # t
        BY <1>1, <4>1, <4>2, Zenon
      <4> QED
        BY <1>9, <4>2, <4>3, Zenon
    <3> QED
      BY <3>1, <3>2, Zenon
  <2> QED
    BY <2>1, <2>2, <2>3, Zenon DEF Returns
<1>13. Returned(x)'
  <2>0. /\ InOrder(Framed(whole), v.g) /\ (~overlap /\ ~dirty => v.g = Framed(whole))
        /\ Framed(whole) \in Seq(Seq(Byte)) /\ v.g \in Seq(Seq(Byte)) /\ x.g \in Seq(Seq(Byte))
    <3>1. Framed(whole) \in Seq(Seq(Byte))
      BY <1>t, FramedType, Zenon
    <3>2. v.g \in Seq(Seq(Byte)) /\ x.g \in Seq(Seq(Byte))
      BY Zenon DEF Rcv
    <3> QED
      BY <1>0, <1>v, <3>1, <3>2, Zenon DEF Ahead, Returned
  <2>e. Extends(v.g, x.g)
    BY <1>5, <1>6, <1>7, <1>x
  <2>n. ~overlap /\ ~dirty => a /\ Clean(p)
    BY <1>1, <1>9, Zenon DEF IInv, Alone
  <2>1. CASE a /\ Clean(p) /\ rest = << >>
    <3>1. whole' = Append(whole, p) /\ x.g = Append(v.g, p \o end_buf)
      BY <1>2, <1>8, <1>x, <2>1, Zenon
    <3>2. Framed(whole') = Append(Framed(whole), p \o end_buf)
      BY <1>t, <1>p, <3>1, FramedMore, Zenon
    <3>3. p \o end_buf \in Seq(Byte)
      BY <1>p, ByteAssumption DEF end_buf
    <3>4. InOrder(Framed(whole'), x.g)
      BY <2>0, <3>1, <3>2, <3>3, InOrderMore, Zenon
    <3>5. ~overlap /\ ~dirty => x.g = Framed(whole')
      BY <2>0, <3>1, <3>2, Zenon
    <3> QED
      BY <1>3, <3>4, <3>5, Zenon DEF Returned
  <2>2. CASE ~(a /\ Clean(p) /\ rest = << >>)
    <3>1. whole' = whole
      BY <1>2, <2>2, Zenon
    <3>2. InOrder(Framed(whole), x.g)
      BY <2>0, <2>e, InOrderKept, Zenon
    <3>3. ~overlap /\ ~dirty => x.g = v.g
      BY <1>8, <1>x, <2>n, <2>2, Zenon
    <3>4. ~overlap /\ ~dirty => x.g = Framed(whole)
      BY <2>0, <3>3, Zenon
    <3> QED
      BY <1>3, <3>1, <3>2, <3>4, Zenon DEF Returned
  <2> QED
    BY <2>1, <2>2, Zenon
<1>14. Ahead(x)'
  BY <1>11, <1>12, <1>13, Zenon DEF Ahead
<1>m. PICK m \in Nat : m = Len(wire)
  BY <1>t
<1>15. PICK k : /\ k = [i \in 0 .. m + n |-> IF i <= m THEN run[i] ELSE r[i - m]]
                /\ m = Len(wire) /\ m \in Nat
  BY <1>m, Zenon
<1>16. /\ Follows(k, wire') /\ Len(wire') = m + n /\ wire' = wire \o w
  <2>1. Follows(run, wire) /\ r[0] = run[Len(wire)]
    BY <1>0, <1>v, <1>6, Zenon DEF OnWire
  <2>2. k = [i \in 0 .. Len(wire) + Len(w) |-> IF i <= Len(wire) THEN run[i] ELSE r[i - Len(wire)]]
    BY <1>5, <1>15, Zenon
  <2>3. wire' = wire \o w
    BY <1>2, <1>w, Zenon
  <2>4. Len(wire \o w) = m + n
    <3>1. Len(wire \o w) = Len(wire) + Len(w)
      BY <1>t, <1>5, ConcatProperties, Zenon
    <3> QED
      BY <1>5, <1>m, <3>1, Zenon
  <2> QED
    BY <1>t, <1>5, <1>6, <2>1, <2>2, <2>3, <2>4, RunsJoin, Zenon
<1>17. /\ \A i \in 0 .. m : i \in 0 .. m + n /\ k[i] = run[i]
       /\ \A i \in 0 .. n : m + i \in 0 .. m + n /\ k[m + i] = r[i]
       /\ \A i \in 0 .. m + n : i \in 0 .. m \/ \E j \in 0 .. n : i = m + j
  <2>1. run[m] = r[0]
    BY <1>v, <1>6, <1>15, Zenon
  <2>2. \A i \in 0 .. m : i \in 0 .. m + n /\ k[i] = run[i]
    BY <1>5, <1>15
  <2>3. ASSUME NEW i \in 0 .. n
        PROVE  m + i \in 0 .. m + n /\ k[m + i] = r[i]
    <3>1. CASE i = 0
      BY <1>5, <1>15, <2>1, <3>1
    <3>2. CASE i # 0
      <4>1. m + i \in 0 .. m + n /\ ~(m + i <= m) /\ m + i - m = i
        BY <1>5, <1>15, <3>2
      <4>2. k[m + i] = r[m + i - m]
        BY <1>15, <4>1
      <4> QED
        BY <4>1, <4>2, Zenon
    <3> QED
      BY <3>1, <3>2, Zenon
  <2>4. ASSUME NEW i \in 0 .. m + n, i \notin 0 .. m
        PROVE  \E j \in 0 .. n : i = m + j
    <3>1. i - m \in 0 .. n /\ i = m + (i - m)
      BY <1>5, <1>15, <2>4
    <3> QED
      BY <3>1, Zenon
  <2> QED
    BY <2>2, <2>3, <2>4, Zenon
<1>18. k[0] = Here /\ k[m + n] = x
  <2>1. 0 \in 0 .. m /\ n \in 0 .. n
    BY <1>5, <1>15
  <2>2. run[0] = Here
    BY <1>0, Zenon DEF OnWire
  <2> QED
    BY <1>x, <1>17, <2>1, <2>2, Zenon
<1>19. \A i \in 0 .. m + n : Extends(k[i].g, x.g) /\ (~overlap => Fits(k[i].b))
  <2>0. \A j \in 0 .. n : Extends(r[j].g, x.g)
    BY <1>7, <1>x, Zenon
  <2>1. ASSUME NEW i \in 0 .. m
        PROVE  Extends(run[i].g, x.g) /\ (~overlap => Fits(run[i].b))
    <3>1. Extends(run[i].g, v.g) /\ (~overlap => Fits(run[i].b))
      BY <1>0, <1>v, <1>15, Zenon DEF OnWire
    <3>2. Extends(v.g, x.g)
      BY <1>5, <1>6, <1>7, <1>x
    <3>3. run[i].g \in Seq(Seq(Byte)) /\ v.g \in Seq(Seq(Byte)) /\ x.g \in Seq(Seq(Byte))
      <4>1. run[i] \in Rcv
        BY <1>0, <1>15, Zenon DEF OnWire, Follows
      <4> QED
        BY <4>1, Zenon DEF Rcv
    <3> QED
      BY <3>1, <3>2, <3>3, ExtendsMore, Zenon
  <2>2. ASSUME NEW j \in 0 .. n
        PROVE  ~overlap => Fits(r[j].b)
    <3>1. ~overlap => a
      BY <1>1, <1>9, Zenon DEF IInv, Alone
    <3> QED
      BY <1>p, <1>8, <3>1, Zenon DEF Fits
  <2> QED
    BY <1>17, <2>0, <2>1, <2>2, Zenon
<1>20. OnWire(k)'
  <2>1. Here' = Here /\ overlap' = overlap
    BY <1>3, Zenon DEF Here, recvVars
  <2> QED
    BY <1>16, <1>18, <1>19, <2>1, Zenon DEF OnWire
<1> QED
  BY <1>10, <1>14, <1>16, <1>18, <1>20, Zenon DEF IInv

-----------------------------------------------------------------------------
(* The theorems.                                                           *)

\* The steps keep the types.
LEMMA TypeStep ==
  ASSUME IInv, [Next]_vars
  PROVE  TypeOK'
<1>t. TypeOK /\ \A t \in Thread : Sending(t) => packet[t] \in Packet
  BY Zenon DEF IInv, Ahead, Senders
<1>1. ASSUME NEW t \in Thread, NEW p \in Packet, SendSegment(t, p)
      PROVE  TypeOK'
  <2>1. <<start_buf, p, end_buf>> \in Seq(Seq(Byte))
    <3>1. start_buf \in Seq(Byte) /\ end_buf \in Seq(Byte) /\ p \in Seq(Byte)
      BY ByteAssumption DEF start_buf, end_buf
    <3> QED
      BY <3>1
  <2>2. /\ sent[t] < MaxSend[t] /\ sent' = [sent EXCEPT ![t] = @ + 1]
        /\ packet' = [packet EXCEPT ![t] = p] /\ calls' = [calls EXCEPT ![t] = <<start_buf, p, end_buf>>]
        /\ UNCHANGED <<wire, up, state, buf, got, whole>>
    BY <1>1, Zenon DEF SendSegment, Calls, recvVars
  <2>3. sent' \in [Thread -> Nat] /\ \A u \in Thread : sent'[u] <= MaxSend[u]
    <3>1. sent \in [Thread -> Nat] /\ (\A u \in Thread : sent[u] <= MaxSend[u]) /\ MaxSend[t] \in Nat
      BY <1>t, BoundAssumption, Zenon DEF TypeOK
    <3>2. sent[t] \in Nat /\ sent[t] + 1 \in Nat /\ sent[t] + 1 <= MaxSend[t]
      BY <2>2, <3>1
    <3>3. sent'[t] = sent[t] + 1 /\ \A u \in Thread \ {t} : sent'[u] = sent[u]
      BY <2>2, <3>1, Zenon
    <3>4. sent' \in [Thread -> Nat]
      BY <2>2, <3>1, <3>2, Zenon
    <3>5. \A u \in Thread : sent'[u] <= MaxSend[u]
      BY <3>1, <3>2, <3>3, Zenon
    <3> QED
      BY <3>4, <3>5, Zenon
  <2>4. packet' \in [Thread -> Packet \cup {<< >>}] /\ calls' \in [Thread -> Seq(Seq(Byte))]
    BY <1>t, <2>1, <2>2, Zenon DEF TypeOK
  <2>5. alone' \in [Thread -> BOOLEAN] /\ overlap' \in BOOLEAN /\ dirty' \in BOOLEAN
    BY <1>t, <1>1, Zenon DEF TypeOK, SendSegment
  <2> QED
    BY <1>t, <2>2, <2>3, <2>4, <2>5, Zenon DEF TypeOK
<1>2. ASSUME NEW t \in Thread, Send(t)
      PROVE  TypeOK'
  <2>1. PICK h, tl : h = Head(calls[t]) /\ tl = Tail(calls[t])
    BY Zenon
  <2>2. PICK n \in 1 .. Len(h) :
          /\ Len(wire) + n <= MaxWire /\ wire' = wire \o SubSeq(h, 1, n)
          /\ calls' = [calls EXCEPT ![t] = Left(h, tl, n)]
          /\ whole' \in {whole, Append(whole, packet[t])}
    BY <1>2, <2>1, Zenon DEF Send, Left
  <2>3. h \in Seq(Byte) /\ tl \in Seq(Seq(Byte)) /\ packet[t] \in Packet
    BY <1>t, <1>2, <2>1 DEF TypeOK, Send, Sending
  <2>4. PICK w : w = SubSeq(h, 1, n) /\ w \in Seq(Byte) /\ Len(w) = n
    BY <2>3, Taken, Zenon
  <2>5. wire' \in Seq(Byte) /\ Len(wire') <= MaxWire
    BY <1>t, <2>2, <2>4 DEF TypeOK
  <2>6. Left(h, tl, n) \in Seq(Seq(Byte))
    <3>1. SubSeq(h, n + 1, Len(h)) \in Seq(Byte)
      BY <2>3
    <3> QED
      BY <2>3, <3>1 DEF Left
  <2>7. calls' \in [Thread -> Seq(Seq(Byte))] /\ whole' \in Seq(Packet)
    <3>1. calls \in [Thread -> Seq(Seq(Byte))] /\ whole \in Seq(Packet)
      BY <1>t, Zenon DEF TypeOK
    <3>2. Append(whole, packet[t]) \in Seq(Packet)
      BY <2>3, <3>1
    <3>3. PICK left \in Seq(Seq(Byte)) : left = Left(h, tl, n)
      BY <2>6, Zenon
    <3>4. [calls EXCEPT ![t] = left] \in [Thread -> Seq(Seq(Byte))]
      BY <3>1, Zenon
    <3> QED
      BY <2>2, <3>1, <3>2, <3>3, <3>4, Zenon
  <2>8. UNCHANGED <<sent, packet, up, state, buf, got, alone, overlap, dirty>>
    BY <1>2, Zenon DEF Send, recvVars
  <2> QED
    BY <1>t, <2>5, <2>7, <2>8, Zenon DEF TypeOK
<1>3. CASE Break
  <2>1. /\ up' = FALSE /\ calls' = [t \in Thread |-> << >>]
        /\ UNCHANGED <<sent, packet, wire, state, buf, got, alone, overlap, dirty, whole>>
    BY <1>3, Zenon DEF Break, recvVars, histVars
  <2>2. << >> \in Seq(Seq(Byte))
    OBVIOUS
  <2>3. calls' \in [Thread -> Seq(Seq(Byte))]
    BY <2>1, <2>2, Zenon
  <2> QED
    BY <1>t, <2>1, <2>3, Zenon DEF TypeOK
<1>4. CASE RecvByte
  <2>1. PICK c : c = Head(wire) /\ c \in Byte /\ wire' = Tail(wire) /\ wire' \in Seq(Byte) /\ Len(wire') <= Len(wire)
    BY <1>t, <1>4 DEF TypeOK, RecvByte
  <2>2. PICK b : /\ b = (IF state \in {2, 3} THEN Append(buf, c) ELSE buf)
                 /\ b \in Seq(Byte)
    <3>1. buf \in Seq(Byte)
      BY <1>t, Zenon DEF TypeOK
    <3>2. Append(buf, c) \in Seq(Byte)
      BY <2>1, <3>1
    <3> QED
      BY <3>1, <3>2, Zenon
  <2>3. NextState(state, c) \in 0 .. 4
    BY <1>t DEF TypeOK, NextState
  <2>4. Receive(NextState(state, c), b) /\ UNCHANGED <<sendVars, up, histVars>>
    BY <1>4, <2>1, <2>2, Zenon DEF RecvByte
  <2>5. state' \in 0 .. 3 /\ buf' \in Seq(Byte) /\ got' \in Seq(Seq(Byte))
    <3>1. got \in Seq(Seq(Byte)) /\ << >> \in Seq(Byte)
      BY <1>t DEF TypeOK
    <3>2. Append(got, b) \in Seq(Seq(Byte))
      BY <2>2, <3>1
    <3>3. PICK s \in 0 .. 4 : s = NextState(state, c)
      BY <2>3, Zenon
    <3>4. CASE s = 4
      BY <2>4, <3>1, <3>2, <3>3, <3>4, SMTT(20), ZenonT(20) DEF Receive
    <3>5. CASE s # 4
      <4>1. state' = s /\ buf' = b /\ got' = got
        BY <2>4, <3>3, <3>5, Zenon DEF Receive
      <4> QED
        BY <2>2, <3>1, <3>5, <4>1
    <3> QED
      BY <3>4, <3>5, Zenon
  <2>6. Len(wire') <= MaxWire
    BY <1>t, <2>1, BoundAssumption DEF TypeOK
  <2> QED
    BY <1>t, <2>1, <2>4, <2>5, <2>6, Zenon DEF TypeOK, sendVars, histVars
<1>5. CASE RecvEnd
  BY <1>t, <1>5 DEF TypeOK, RecvEnd, sendVars, histVars
<1>6. CASE UNCHANGED vars
  BY <1>t, <1>6, Zenon DEF TypeOK, vars, sendVars, recvVars, histVars
<1> QED
  BY <1>1, <1>2, <1>3, <1>4, <1>5, <1>6, Zenon DEF Next

\* IInv is inductive.
LEMMA IInvStep == IInv /\ [Next]_vars => IInv'
<1> SUFFICES ASSUME IInv, [Next]_vars
             PROVE  IInv'
  BY Zenon
<1>1. TypeOK'
  BY TypeStep, Zenon
<1>2. CASE UNCHANGED vars
  <2>0. PICK run, v : v = run[Len(wire)] /\ OnWire(run) /\ Ahead(v)
    BY Zenon DEF IInv
  <2>1. UNCHANGED <<sendVars, wire, up, recvVars, histVars>>
    BY <1>2, Zenon DEF vars
  <2>2. OnWire(run)' /\ Ahead(v)'
    BY <2>0, <2>1, OnWireKept, AheadKept, Zenon DEF histVars
  <2>3. Alone'
    BY <2>1, Zenon DEF IInv, Alone, Sending, sendVars, histVars
  <2>4. run[Len(wire')] = v
    BY <2>0, <2>1, Zenon
  <2> QED
    BY <1>1, <2>2, <2>3, <2>4, Zenon DEF IInv
<1> QED
  BY <1>1, <1>2, SendSegmentIInv, SendIInv, BreakIInv, RecvByteIInv, RecvEndIInv, Zenon DEF Next

\* IInv holds throughout.
LEMMA SegmentInvariant == Spec => []IInv
  BY InitIInv, IInvStep, PTL DEF Spec

\* The variables of send_segment and recv_segment keep their types.
THEOREM SegmentTypeOK == Spec => []TypeOK
<1>1. IInv => TypeOK
  BY Zenon DEF IInv
<1> QED
  BY <1>1, SegmentInvariant, PTL

\* Whatever was on the stream before, once the connection is drained
\* recv_segment is back at its start, and every packet that send_segment sent
\* with no other beside it, and that holds no end_buf, has been returned whole
\* and in order.
THEOREM SegmentDamageEnds == Spec => []DamageEnds
<1>1. IInv => DamageEnds
  <2> SUFFICES ASSUME IInv, Drained
               PROVE  state = 0 /\ InOrder([i \in DOMAIN whole |-> whole[i] \o end_buf], got)
    BY Zenon DEF DamageEnds
  <2>0. PICK run : OnWire(run) /\ Ahead(run[Len(wire)])
    BY Zenon DEF IInv
  <2>1. Len(wire) = 0 /\ up /\ \A t \in Thread : ~Sending(t)
    BY Zenon DEF Drained
  <2>2. Ahead(Here)
    BY <2>0, <2>1, Zenon DEF OnWire
  <2>3. Here.s = state /\ Here.g = got /\ state \in 0 .. 3
    BY Zenon DEF Here, IInv, TypeOK
  <2>4. state \notin {1, 2, 3}
    BY <2>1, <2>2, <2>3, Zenon DEF Ahead, Returns
  <2>5. InOrder(Framed(whole), got)
    BY <2>2, <2>3, Zenon DEF Ahead, Returned
  <2> QED
    BY <2>3, <2>4, <2>5 DEF Framed
<1> QED
  BY <1>1, SegmentInvariant, PTL

\* While no two calls of send_segment overlap and no packet holds an end_buf,
\* recv_segment returns the packets that were sent, each once and in order.
THEOREM SegmentNothingInvented == Spec => []NothingInvented
<1>1. IInv => NothingInvented
  <2> SUFFICES ASSUME IInv, ~overlap, ~dirty
               PROVE  Len(got) <= Len(whole) /\ \A i \in DOMAIN got : got[i] = whole[i] \o end_buf
    BY Zenon DEF NothingInvented
  <2>0. PICK run : OnWire(run) /\ Ahead(run[Len(wire)])
    BY Zenon DEF IInv
  <2>t. wire \in Seq(Byte) /\ got \in Seq(Seq(Byte)) /\ whole \in Seq(Packet)
    BY Zenon DEF IInv, TypeOK
  <2>1. run[Len(wire)].g = Framed(whole)
    BY <2>0, Zenon DEF Ahead, Returned
  <2>2. Extends(run[0].g, Framed(whole)) /\ run[0].g = got
    BY <2>0, <2>t, <2>1 DEF OnWire, Here
  <2>3. /\ Len(Framed(whole)) = Len(whole)
        /\ \A i \in 1 .. Len(whole) : Framed(whole)[i] = whole[i] \o end_buf
    BY <2>t, FramedType, Zenon
  <2>4. Len(got) <= Len(whole) /\ \A i \in 1 .. Len(got) : got[i] = Framed(whole)[i]
    BY <2>2, <2>3, Zenon DEF Extends
  <2>5. Len(got) \in Nat /\ Len(whole) \in Nat /\ DOMAIN got = 1 .. Len(got)
    BY <2>t
  <2>6. \A i \in DOMAIN got : i \in 1 .. Len(got) /\ i \in 1 .. Len(whole)
    BY <2>4, <2>5
  <2> QED
    BY <2>3, <2>4, <2>6, Zenon
<1> QED
  BY <1>1, SegmentInvariant, PTL

\* While no two calls of send_segment overlap, the buffer that recv_segment
\* fills without looking at len needs two bytes more than some packet.
THEOREM SegmentBufferFits == Spec => []BufferFits
<1>1. IInv => BufferFits
  <2> SUFFICES ASSUME IInv, ~overlap
               PROVE  Fits(buf)
    BY Zenon DEF BufferFits, Fits
  <2>0. PICK run : OnWire(run)
    BY Zenon DEF IInv
  <2>1. Fits(run[0].b) /\ run[0].b = buf
    <3>1. 0 \in 0 .. Len(wire)
      BY DEF IInv, TypeOK
    <3> QED
      BY <2>0, <3>1, ZenonT(15), SMTT(60) DEF OnWire, Here
  <2> QED
    BY <2>1, Zenon
<1> QED
  BY <1>1, SegmentInvariant, PTL
=============================================================================
