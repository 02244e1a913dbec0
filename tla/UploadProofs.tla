---------------------------- MODULE UploadProofs ----------------------------
(***************************************************************************)
(* Proofs about Upload for any number of transfers and any size of the     *)
(* pool: its types, the books of the pool of ports, and that a requester   *)
(* is served the file it asked for.                                        *)
(***************************************************************************)
EXTENDS Upload, TLAPS

USE WantsAssumption, PoolAssumption, NoneAssumption

-----------------------------------------------------------------------------
\* The constants of the pool: None is no port, -1 is not in the pool.
LEMMA PortFacts ==
  /\ Pool \subseteq Port /\ UINT16_MAX \in Port /\ UINT16_MAX \notin Pool
  /\ None \notin Port /\ Port \subseteq Nat
BY SMT DEF Pool, Port, None, UINT16_MAX, BASE_P2P_PORT

\* An empty queue is a queue.
LEMMA EmptyQueue == << >> \in Seq(Conn)
OBVIOUS

\* Appending to and taking from a queue keeps it a sequence of connections.
LEMMA QueueFacts ==
  ASSUME NEW q \in Seq(Conn), NEW c \in Conn
  PROVE  /\ Append(q, c) \in Seq(Conn) /\ << >> \in Seq(Conn)
         /\ q # << >> => Head(q) \in Conn /\ Tail(q) \in Seq(Conn)
OBVIOUS


-----------------------------------------------------------------------------
(* The inductive invariant.  An upload thread has a port from              *)
(* get_free_p2p_port until put_p2p_port, and listens on it in between.     *)

Listening == {"open", "accept", "serve", "shut"}
WithPort == Listening \cup {"reply", "listen", "put"}

\* what a thread has in new_port
HasPort ==
  \A c \in Conn :
    /\ upc[c] \in WithPort => new_port[c] \in Port
    /\ upc[c] \in {"none", "recv", "len", "port"} => new_port[c] = None
    /\ rpc[c] = "idle" => upc[c] = "none"

\* who listens where, and that nobody queues where nobody listens
Listeners ==
  /\ \A p \in Port : listener[p] # None =>
       new_port[listener[p]] = p /\ upc[listener[p]] \in Listening
  /\ \A c \in Conn : upc[c] \in Listening => listener[new_port[c]] = c
  /\ \A p \in Port : listener[p] = None => queue[p] = << >>

\* While no transfer gave up and the pool was never exhausted: -1 is nobody's
\* port, who was told a port has it still, and who waits or is served there is
\* the requester of that very transfer.
NoMinusOne == \A c \in Conn : new_port[c] # UINT16_MAX

ToldOwn ==
  \A c \in Conn : rpc[c] = "told" =>
    \/ rport[c] = UINT16_MAX
    \/ /\ rport[c] = new_port[c] /\ new_port[c] \in Port
       /\ upc[c] \in {"listen", "open", "accept", "end"}

QueueOwn ==
  \A p \in Port : \A i \in 1 .. Len(queue[p]) :
    queue[p][i] = listener[p] /\ rpc[listener[p]] \in {"dialled", "closed", "gone"}

ServesOwn == \A c \in Conn : upc[c] = "serve" => peer[c] = c

GotOwn == \A c \in Conn : got[c] \subseteq {Wants[c]}

Private ==
  gaveUp \/ exhausted \/ (NoMinusOne /\ ToldOwn /\ QueueOwn /\ ServesOwn /\ GotOwn)

IInv == TypeOK /\ HasPort /\ PortsAccounted /\ Listeners /\ Private
-----------------------------------------------------------------------------
\* The steps of the upload threads keep the types.
LEMMA UploadType ==
  ASSUME TypeOK, HasPort, NEW c \in Conn, UploadStep(c)
  PROVE  TypeOK'
<1> USE PortFacts DEF TypeOK
<1>1. CASE RecvRequest(c)
  BY <1>1, ZenonT(20) DEF RecvRequest, Up, poolVars, sockVars
<1>2. CASE RecvEnd(c)
  BY <1>2 DEF RecvEnd, Up, poolVars, sockVars, reqVars
<1>3. CASE LenReply(c)
  BY <1>3 DEF LenReply, Up, poolVars, sockVars
<1>4. CASE GetPort(c)
  <2> USE DEF GetPort, Up, sockVars, reqVars
  <2>1. upc' \in [Conn -> {"none", "recv", "len", "port", "reply", "listen", "open", "accept",
                       "serve", "shut", "put", "end"}]
    BY <1>4
  <2>2. p2p_ports' \in [Pool -> {0, 1}] /\ exhausted' \in BOOLEAN
    BY <1>4, ZenonT(20) DEF get_free_p2p_port
  <2>3. new_port' \in [Conn -> Port \cup {None}]
    BY <1>4 DEF get_free_p2p_port
  <2> QED
    BY <1>4, <2>1, <2>2, <2>3
<1>5. CASE PortReply(c)
  BY <1>5, SMTT(20), ZenonT(40) DEF PortReply, Up, poolVars, sockVars
<1>6. CASE Listen(c)
  <2>1. listener' \in [Port -> Conn \cup {None}]
    BY <1>6 DEF Listen
  <2>2. upc' \in [Conn -> {"none", "recv", "len", "port", "reply", "listen", "open", "accept",
                       "serve", "shut", "put", "end"}]
    BY <1>6 DEF Listen, Up
  <2> QED
    BY <1>6, <2>1, <2>2 DEF Listen, poolVars, reqVars
<1>7. CASE OpenFile(c)
  BY <1>7, ZenonT(20) DEF OpenFile, Up, poolVars, sockVars, reqVars
<1>8. CASE Accept(c)
  <2>1. new_port[c] \in Port /\ queue[new_port[c]] # << >>
    BY <1>8 DEF Accept, Up, HasPort, WithPort, Listening
  <2>2. Head(queue[new_port[c]]) \in Conn /\ Tail(queue[new_port[c]]) \in Seq(Conn)
    BY <2>1, QueueFacts
  <2> QED
    BY <1>8, <2>1, <2>2 DEF Accept, Up, poolVars, reqVars
<1>9. CASE Serve(c)
  <2>1. got' \in [Conn -> SUBSET File]
    <3>1. Wants[c] \in File
      OBVIOUS
    <3>2. CASE got' = [got EXCEPT ![peer[c]] = @ \cup {Wants[c]}]
      <4>1. \A d \in Conn : got[d] \cup {Wants[c]} \in SUBSET File
        BY <3>1
      <4> QED
        BY <3>2, <4>1, ZenonT(20)
    <3>3. CASE UNCHANGED got
      BY <3>3
    <3> QED
      BY <1>9, <3>2, <3>3 DEF Serve
  <2>2. rpc' \in [Conn -> {"idle", "asked", "askedLen", "told", "dialled", "refused", "closed", "gone"}]
    BY <1>9, SMTT(20), ZenonT(40) DEF Serve
  <2>3. upc' \in [Conn -> {"none", "recv", "len", "port", "reply", "listen", "open", "accept",
                       "serve", "shut", "put", "end"}]
    BY <1>9 DEF Serve, Up
  <2> QED
    BY <1>9, <2>1, <2>2, <2>3 DEF Serve, poolVars, sockVars
<1>10. CASE ServeEnd(c)
  BY <1>10 DEF ServeEnd, Up, poolVars, sockVars, reqVars
<1>11. CASE CloseListener(c)
  BY <1>11, EmptyQueue, ZenonT(20) DEF CloseListener, Up, poolVars
<1>12. CASE PutPort(c)
  BY <1>12 DEF PutPort, put_p2p_port, Up, sockVars, reqVars
<1> QED
  BY <1>1, <1>2, <1>3, <1>4, <1>5, <1>6, <1>7, <1>8, <1>9, <1>10, <1>11, <1>12 DEF UploadStep

\* The steps of the requesters keep the types.
LEMMA RequesterType ==
  ASSUME TypeOK, NEW c \in Conn, RequesterStep(c) \/ Connect(c) \/ Gone(c)
  PROVE  TypeOK'
<1> USE PortFacts DEF TypeOK
<1>1. CASE NoPort(c)
  BY <1>1 DEF NoPort, Req, poolVars, upVars, sockVars
<1>2. CASE NoLen(c)
  BY <1>2 DEF NoLen, Req, poolVars, upVars, sockVars
<1>3. CASE Dial(c)
  BY <1>3, QueueFacts, ZenonT(20) DEF Dial, Req, poolVars, upVars
<1>4. CASE Finish(c)
  BY <1>4 DEF Finish, Req, poolVars, upVars, sockVars
<1>5. CASE Connect(c)
  BY <1>5, ZenonT(20) DEF Connect, Req, poolVars, sockVars
<1>6. CASE Gone(c)
  BY <1>6 DEF Gone, Req, poolVars, upVars, sockVars
<1> QED
  BY <1>1, <1>2, <1>3, <1>4, <1>5, <1>6 DEF RequesterStep

\* The steps of the upload threads keep HasPort.
LEMMA UploadPort ==
  ASSUME TypeOK, HasPort, PortsAccounted, Listeners, NEW c \in Conn, UploadStep(c)
  PROVE  HasPort'
<1> USE PortFacts, EmptyQueue DEF TypeOK, HasPort, WithPort, Listening
<1>1. CASE RecvRequest(c)
  BY <1>1 DEF RecvRequest, Up, poolVars, sockVars
<1>2. CASE RecvEnd(c)
  BY <1>2 DEF RecvEnd, Up, poolVars, sockVars, reqVars
<1>3. CASE LenReply(c)
  BY <1>3 DEF LenReply, Up, poolVars, sockVars
<1>4. CASE GetPort(c)
  BY <1>4 DEF GetPort, Up, get_free_p2p_port, sockVars, reqVars
<1>5. CASE PortReply(c)
  BY <1>5 DEF PortReply, Up, poolVars, sockVars
<1>6. CASE Listen(c)
  BY <1>6 DEF Listen, Up, poolVars, reqVars
<1>7. CASE OpenFile(c)
  BY <1>7 DEF OpenFile, Up, poolVars, sockVars, reqVars
<1>8. CASE Accept(c)
  BY <1>8 DEF Accept, Up, poolVars, reqVars
<1>9. CASE Serve(c)
  BY <1>9 DEF Serve, Up, poolVars, sockVars
<1>10. CASE ServeEnd(c)
  BY <1>10 DEF ServeEnd, Up, poolVars, sockVars, reqVars
<1>11. CASE CloseListener(c)
  BY <1>11 DEF CloseListener, Up, poolVars
<1>12. CASE PutPort(c)
  BY <1>12 DEF PutPort, Up, put_p2p_port, sockVars, reqVars
<1> QED
  BY <1>1, <1>2, <1>3, <1>4, <1>5, <1>6, <1>7, <1>8, <1>9, <1>10, <1>11, <1>12 DEF UploadStep

\* The steps of the requesters keep HasPort.
LEMMA RequesterPort ==
  ASSUME TypeOK, HasPort, PortsAccounted, Listeners, NEW c \in Conn, RequesterStep(c) \/ Connect(c) \/ Gone(c)
  PROVE  HasPort'
<1> USE PortFacts, EmptyQueue DEF TypeOK, HasPort, WithPort, Listening
<1>1. CASE NoPort(c)
  BY <1>1 DEF NoPort, Req, poolVars, upVars, sockVars
<1>2. CASE NoLen(c)
  BY <1>2 DEF NoLen, Req, poolVars, upVars, sockVars
<1>3. CASE Dial(c)
  BY <1>3 DEF Dial, Req, poolVars, upVars
<1>4. CASE Finish(c)
  BY <1>4 DEF Finish, Req, poolVars, upVars, sockVars
<1>5. CASE Connect(c)
  BY <1>5 DEF Connect, Req, poolVars, sockVars
<1>6. CASE Gone(c)
  BY <1>6 DEF Gone, Req, poolVars, upVars, sockVars
<1> QED
  BY <1>1, <1>2, <1>3, <1>4, <1>5, <1>6 DEF RequesterStep

\* The steps of the upload threads keep PortsAccounted.
LEMMA UploadBooks ==
  ASSUME TypeOK, HasPort, PortsAccounted, Listeners, NEW c \in Conn, UploadStep(c)
  PROVE  PortsAccounted'
<1> USE PortFacts, EmptyQueue DEF TypeOK, HasPort, PortsAccounted, WithPort, Listening
<1>1. CASE RecvRequest(c)
  BY <1>1 DEF RecvRequest, Up, poolVars, sockVars
<1>2. CASE RecvEnd(c)
  BY <1>2, ZenonT(20) DEF RecvEnd, Up, poolVars, sockVars, reqVars
<1>3. CASE LenReply(c)
  BY <1>3 DEF LenReply, Up, poolVars, sockVars
<1>4. CASE GetPort(c)
  <2>1. new_port[c] = None
    BY <1>4 DEF GetPort, Up
  <2>2. CASE new_port' = [new_port EXCEPT ![c] = UINT16_MAX] /\ UNCHANGED p2p_ports
    <3>1. \A d \in Conn : new_port'[d] = IF d = c THEN UINT16_MAX ELSE new_port[d]
      BY <2>2
    <3>2. \A q \in Pool : p2p_ports'[q] = 1 <=> \E d \in Conn : new_port'[d] = q
      BY <2>1, <2>2, <3>1
    <3>3. \A d, e \in Conn : new_port'[d] = new_port'[e] /\ new_port'[d] \in Pool => d = e
      BY <3>1
    <3> QED
      BY <3>2, <3>3
  <2>3. ASSUME NEW p \in Pool, p2p_ports[p] = 0, p2p_ports' = [p2p_ports EXCEPT ![p] = 1],
               new_port' = [new_port EXCEPT ![c] = p]
        PROVE  PortsAccounted'
    <3>1. \A d \in Conn : new_port[d] # p
      BY <2>3
    <3>2. \A q \in Pool : p2p_ports'[q] = 1 <=> \E d \in Conn : new_port'[d] = q
      BY <2>1, <2>3, <3>1
    <3>3. \A d, e \in Conn : new_port'[d] = new_port'[e] /\ new_port'[d] \in Pool => d = e
      BY <2>3, <3>1
    <3> QED
      BY <3>2, <3>3
  <2> QED
    BY <1>4, <2>2, <2>3 DEF GetPort, get_free_p2p_port
<1>5. CASE PortReply(c)
  BY <1>5 DEF PortReply, Up, poolVars, sockVars
<1>6. CASE Listen(c)
  BY <1>6 DEF Listen, Up, poolVars, reqVars
<1>7. CASE OpenFile(c)
  BY <1>7 DEF OpenFile, Up, poolVars, sockVars, reqVars
<1>8. CASE Accept(c)
  BY <1>8 DEF Accept, Up, poolVars, reqVars
<1>9. CASE Serve(c)
  BY <1>9 DEF Serve, Up, poolVars, sockVars
<1>10. CASE ServeEnd(c)
  BY <1>10 DEF ServeEnd, Up, poolVars, sockVars, reqVars
<1>11. CASE CloseListener(c)
  BY <1>11 DEF CloseListener, Up, poolVars
<1>12. CASE PutPort(c)
  <2>1. new_port' = [new_port EXCEPT ![c] = None] /\ new_port[c] \in Port
    BY <1>12 DEF PutPort, Up
  <2>2. \A d, e \in Conn : new_port'[d] = new_port'[e] /\ new_port'[d] \in Pool => d = e
    <3>1. \A d \in Conn : new_port'[d] = IF d = c THEN None ELSE new_port[d]
      BY <2>1
    <3>2. None \notin Pool
      BY Zenon
    <3>3. \A d \in Conn : new_port'[d] \in Pool => new_port'[d] = new_port[d]
      BY <3>1, <3>2, Zenon
    <3>4. \A d, e \in Conn : new_port[d] = new_port[e] /\ new_port[d] \in Pool => d = e
      BY Zenon
    <3> HIDE PortFacts, EmptyQueue DEF TypeOK, HasPort, PortsAccounted, WithPort, Listening
    <3> QED
      BY <3>3, <3>4
  <2>3. CASE new_port[c] \in Pool /\ p2p_ports' = [p2p_ports EXCEPT ![new_port[c]] = 0]
    <3>1. \A q \in Pool : p2p_ports'[q] = 1 <=> \E d \in Conn : new_port'[d] = q
      <4> TAKE q \in Pool
      <4>1. CASE q = new_port[c]
        BY <2>1, <2>3, <4>1
      <4>2. CASE q # new_port[c]
        BY <2>1, <2>3, <4>2
      <4> QED
        BY <4>1, <4>2
    <3> QED
      BY <2>2, <3>1
  <2>4. CASE new_port[c] \notin Pool /\ UNCHANGED p2p_ports
    <3>1. \A q \in Pool : p2p_ports'[q] = 1 <=> \E d \in Conn : new_port'[d] = q
      BY <2>1, <2>4
    <3> QED
      BY <2>2, <3>1
  <2> QED
    BY <1>12, <2>3, <2>4 DEF PutPort, put_p2p_port
<1> QED
  BY <1>1, <1>2, <1>3, <1>4, <1>5, <1>6, <1>7, <1>8, <1>9, <1>10, <1>11, <1>12 DEF UploadStep

\* The steps of the requesters keep PortsAccounted.
LEMMA RequesterBooks ==
  ASSUME TypeOK, HasPort, PortsAccounted, Listeners, NEW c \in Conn, RequesterStep(c) \/ Connect(c) \/ Gone(c)
  PROVE  PortsAccounted'
<1> USE PortFacts, EmptyQueue DEF TypeOK, HasPort, PortsAccounted, WithPort, Listening
<1>1. CASE NoPort(c)
  BY <1>1 DEF NoPort, Req, poolVars, upVars, sockVars
<1>2. CASE NoLen(c)
  BY <1>2 DEF NoLen, Req, poolVars, upVars, sockVars
<1>3. CASE Dial(c)
  BY <1>3 DEF Dial, Req, poolVars, upVars
<1>4. CASE Finish(c)
  BY <1>4 DEF Finish, Req, poolVars, upVars, sockVars
<1>5. CASE Connect(c)
  BY <1>5 DEF Connect, Req, poolVars, sockVars
<1>6. CASE Gone(c)
  BY <1>6 DEF Gone, Req, poolVars, upVars, sockVars
<1> QED
  BY <1>1, <1>2, <1>3, <1>4, <1>5, <1>6 DEF RequesterStep

\* Listeners only depends on who listens, and where.
LEMMA SameListeners ==
  ASSUME TypeOK, Listeners, UNCHANGED <<listener, queue, new_port>>,
         \A d \in Conn : upc'[d] \in Listening <=> upc[d] \in Listening
  PROVE  Listeners'
BY PortFacts, SMTT(20), ZenonT(20) DEF TypeOK, Listeners

\* The steps of the upload threads keep Listeners.
LEMMA UploadListen ==
  ASSUME TypeOK, HasPort, PortsAccounted, Listeners, NEW c \in Conn, UploadStep(c)
  PROVE  Listeners'
<1> USE PortFacts, EmptyQueue DEF TypeOK, HasPort, PortsAccounted, Listeners, WithPort, Listening
<1>1. CASE RecvRequest(c)
  <2>1. UNCHANGED <<listener, queue, new_port>>
    BY <1>1 DEF RecvRequest, poolVars, sockVars
  <2>2. \A d \in Conn : upc'[d] \in Listening <=> upc[d] \in Listening
    BY <1>1 DEF RecvRequest, Up
  <2> QED
    BY <2>1, <2>2, SameListeners
<1>2. CASE RecvEnd(c)
  BY <1>2 DEF RecvEnd, Up, poolVars, sockVars, reqVars
<1>3. CASE LenReply(c)
  <2>1. UNCHANGED <<listener, queue, new_port>>
    BY <1>3 DEF LenReply, poolVars, sockVars
  <2>2. \A d \in Conn : upc'[d] \in Listening <=> upc[d] \in Listening
    BY <1>3 DEF LenReply, Up
  <2> QED
    BY <2>1, <2>2, SameListeners
<1>4. CASE GetPort(c)
  BY <1>4 DEF GetPort, Up, get_free_p2p_port, sockVars, reqVars
<1>5. CASE PortReply(c)
  <2>1. UNCHANGED <<listener, queue, new_port>>
    BY <1>5 DEF PortReply, poolVars, sockVars
  <2>2. \A d \in Conn : upc'[d] \in Listening <=> upc[d] \in Listening
    BY <1>5 DEF PortReply, Up
  <2> QED
    BY <2>1, <2>2, SameListeners
<1>6. CASE Listen(c)
  <2>1. CASE upc' = [upc EXCEPT ![c] = "end"] /\ UNCHANGED listener
    <3>1. UNCHANGED <<listener, queue, new_port>>
      BY <1>6, <2>1 DEF Listen
    <3>2. \A d \in Conn : upc'[d] \in Listening <=> upc[d] \in Listening
      BY <1>6, <2>1 DEF Listen, Up
    <3> QED
      BY <3>1, <3>2, SameListeners
  <2>2. CASE /\ upc[c] = "listen" /\ upc' = [upc EXCEPT ![c] = "open"]
             /\ listener[new_port[c]] = None
             /\ listener' = [listener EXCEPT ![new_port[c]] = c]
    <3>1. UNCHANGED <<queue, new_port>> /\ new_port[c] \in Port
      BY <1>6, <2>2 DEF Listen
    <3>2. \A d \in Conn : d # c => upc'[d] = upc[d]
      BY <2>2
    <3>3. \A d \in Conn : d # c /\ upc[d] \in Listening => new_port[d] # new_port[c]
      BY <2>2
    <3> QED
      BY <2>2, <3>1, <3>2, <3>3
  <2> QED
    BY <1>6, <2>1, <2>2 DEF Listen, Up
<1>7. CASE OpenFile(c)
  <2>1. UNCHANGED <<listener, queue, new_port>>
    BY <1>7 DEF OpenFile, poolVars, sockVars, reqVars
  <2>2. \A d \in Conn : upc'[d] \in Listening <=> upc[d] \in Listening
    BY <1>7 DEF OpenFile, Up
  <2> QED
    BY <2>1, <2>2, SameListeners
<1>8. CASE Accept(c)
  BY <1>8 DEF Accept, Up, poolVars, reqVars
<1>9. CASE Serve(c)
  BY <1>9 DEF Serve, Up, poolVars, sockVars
<1>10. CASE ServeEnd(c)
  BY <1>10 DEF ServeEnd, Up, poolVars, sockVars, reqVars
<1>11. CASE CloseListener(c)
  BY <1>11 DEF CloseListener, Up, poolVars
<1>12. CASE PutPort(c)
  BY <1>12, SMTT(20), ZenonT(20) DEF PutPort, Up, put_p2p_port, sockVars, reqVars
<1> QED
  BY <1>1, <1>2, <1>3, <1>4, <1>5, <1>6, <1>7, <1>8, <1>9, <1>10, <1>11, <1>12, ZenonT(20) DEF UploadStep

\* The steps of the requesters keep Listeners.
LEMMA RequesterListen ==
  ASSUME TypeOK, HasPort, PortsAccounted, Listeners, NEW c \in Conn, RequesterStep(c) \/ Connect(c) \/ Gone(c)
  PROVE  Listeners'
<1> USE PortFacts, EmptyQueue DEF TypeOK, HasPort, PortsAccounted, Listeners, WithPort, Listening
<1>1. CASE NoPort(c)
  BY <1>1, ZenonT(20) DEF NoPort, Req, poolVars, upVars, sockVars
<1>2. CASE NoLen(c)
  BY <1>2 DEF NoLen, Req, poolVars, upVars, sockVars
<1>3. CASE Dial(c)
  BY <1>3 DEF Dial, Req, poolVars, upVars
<1>4. CASE Finish(c)
  BY <1>4 DEF Finish, Req, poolVars, upVars, sockVars
<1>5. CASE Connect(c)
  <2>1. UNCHANGED <<listener, queue, new_port>> /\ upc[c] = "none"
    BY <1>5 DEF Connect, Req, sockVars
  <2>2. \A d \in Conn : upc'[d] \in Listening <=> upc[d] \in Listening
    BY <1>5, <2>1 DEF Connect
  <2> QED
    BY <2>1, <2>2, SameListeners
<1>6. CASE Gone(c)
  BY <1>6 DEF Gone, Req, poolVars, upVars, sockVars
<1> QED
  BY <1>1, <1>2, <1>3, <1>4, <1>5, <1>6 DEF RequesterStep

-----------------------------------------------------------------------------
\* Where somebody waits, somebody listens.
LEMMA QueueConn ==
  ASSUME TypeOK, Listeners, NEW p \in Port, NEW i \in 1 .. Len(queue[p])
  PROVE  listener[p] \in Conn
<1>1. queue[p] # << >>
  BY DEF TypeOK
<1> QED
  BY <1>1 DEF TypeOK, Listeners

\* Who is accepted on its own port is the requester of the transfer, and it
\* has dialled.
LEMMA AcceptsOwn ==
  ASSUME TypeOK, HasPort, Listeners, QueueOwn, NEW c \in Conn, upc[c] = "accept",
         queue[new_port[c]] # << >>
  PROVE  Head(queue[new_port[c]]) = c /\ rpc[c] # "told"
<1>1. new_port[c] \in Port
  BY DEF HasPort, WithPort, Listening
<1>2. listener[new_port[c]] = c
  BY DEF Listeners, Listening
<1>3. 1 \in 1 .. Len(queue[new_port[c]])
  BY <1>1 DEF TypeOK
<1>4. Head(queue[new_port[c]]) = queue[new_port[c]][1]
  BY <1>1, <1>3 DEF TypeOK
<1> QED
  BY <1>1, <1>2, <1>3, <1>4 DEF QueueOwn

\* A requester that was told a port where somebody listens finds its own
\* upload thread there.
LEMMA DialsOwn ==
  ASSUME TypeOK, PortsAccounted, Listeners, NoMinusOne, ToldOwn, NEW c \in Conn, rpc[c] = "told",
         listener[rport[c]] # None
  PROVE  rport[c] \in Port /\ listener[rport[c]] = c
<1>1. rport[c] \in Port
  BY PortFacts DEF ToldOwn
<1>2. listener[rport[c]] \in Conn /\ new_port[listener[rport[c]]] = rport[c]
  BY <1>1 DEF Listeners, TypeOK
<1>3. rport[c] # UINT16_MAX
  BY <1>2 DEF NoMinusOne
<1>4. rport[c] = new_port[c] /\ new_port[c] \in Pool
  BY <1>1, <1>3, SMTT(20), ZenonT(20) DEF ToldOwn, Port
<1> QED
  BY <1>1, <1>2, <1>4 DEF PortsAccounted

\* The steps of the upload threads keep Private.
LEMMA UploadPrivate ==
  ASSUME TypeOK, HasPort, PortsAccounted, Listeners, Private, NEW c \in Conn, UploadStep(c)
  PROVE  Private'
<1> SUFFICES ASSUME ~gaveUp', ~exhausted'
             PROVE  (NoMinusOne /\ ToldOwn /\ QueueOwn /\ ServesOwn /\ GotOwn)'
  BY SMTT(20), ZenonT(20) DEF Private
<1>0. ~gaveUp /\ ~exhausted
  BY ZenonT(20) DEF UploadStep, RecvRequest, RecvEnd, LenReply, GetPort, get_free_p2p_port, PortReply, Listen,
         OpenFile, Accept, Serve, ServeEnd, CloseListener, PutPort, poolVars, TypeOK
<1> NoMinusOne /\ ToldOwn /\ QueueOwn /\ ServesOwn /\ GotOwn
  BY <1>0 DEF Private
<1> USE PortFacts, EmptyQueue DEF TypeOK, HasPort, WithPort, Listening
<1>1. CASE RecvRequest(c)
  <2>1. NoMinusOne'
    BY <1>1 DEF RecvRequest, Up, poolVars, sockVars, NoMinusOne
  <2>2. ToldOwn'
    BY <1>1 DEF RecvRequest, Up, poolVars, sockVars, ToldOwn
  <2>3. QueueOwn'
    BY <1>1 DEF RecvRequest, Up, poolVars, sockVars, QueueOwn
  <2>4. ServesOwn'
    BY <1>1 DEF RecvRequest, Up, poolVars, sockVars, ServesOwn
  <2>5. GotOwn'
    BY <1>1 DEF RecvRequest, Up, poolVars, sockVars, GotOwn
  <2> QED
    BY <2>1, <2>2, <2>3, <2>4, <2>5
<1>2. CASE RecvEnd(c)
  <2>1. NoMinusOne'
    BY <1>2 DEF RecvEnd, Up, poolVars, sockVars, reqVars, NoMinusOne
  <2>2. ToldOwn'
    BY <1>2 DEF RecvEnd, Up, poolVars, sockVars, reqVars, ToldOwn
  <2>3. QueueOwn'
    BY <1>2 DEF RecvEnd, Up, poolVars, sockVars, reqVars, QueueOwn
  <2>4. ServesOwn'
    BY <1>2 DEF RecvEnd, Up, poolVars, sockVars, reqVars, ServesOwn
  <2>5. GotOwn'
    BY <1>2 DEF RecvEnd, Up, poolVars, sockVars, reqVars, GotOwn
  <2> QED
    BY <2>1, <2>2, <2>3, <2>4, <2>5
<1>3. CASE LenReply(c)
  <2>1. NoMinusOne'
    BY <1>3 DEF LenReply, Up, poolVars, sockVars, NoMinusOne
  <2>2. ToldOwn'
    BY <1>3, SMTT(20), ZenonT(20) DEF LenReply, Up, poolVars, sockVars, ToldOwn
  <2>3. QueueOwn'
    <3>1. UNCHANGED <<listener, queue>>
      BY <1>3 DEF LenReply, sockVars
    <3>2. \A d \in Conn : rpc[d] \in {"dialled", "closed", "gone"} =>
                           rpc'[d] \in {"dialled", "closed", "gone"}
      BY <1>3, SMTT(20), ZenonT(20) DEF LenReply
    <3> QED
      BY <3>1, <3>2, QueueConn, SMTT(20), ZenonT(20) DEF QueueOwn
  <2>4. ServesOwn'
    BY <1>3 DEF LenReply, Up, poolVars, sockVars, ServesOwn
  <2>5. GotOwn'
    BY <1>3 DEF LenReply, Up, poolVars, sockVars, GotOwn
  <2> QED
    BY <2>1, <2>2, <2>3, <2>4, <2>5
<1>4. CASE GetPort(c)
  <2>1. NoMinusOne'
    BY <1>4 DEF GetPort, Up, get_free_p2p_port, sockVars, reqVars, NoMinusOne
  <2>2. ToldOwn'
    BY <1>4 DEF GetPort, Up, get_free_p2p_port, sockVars, reqVars, ToldOwn
  <2>3. QueueOwn'
    BY <1>4 DEF GetPort, Up, get_free_p2p_port, sockVars, reqVars, QueueOwn
  <2>4. ServesOwn'
    BY <1>4 DEF GetPort, Up, get_free_p2p_port, sockVars, reqVars, ServesOwn
  <2>5. GotOwn'
    BY <1>4 DEF GetPort, Up, get_free_p2p_port, sockVars, reqVars, GotOwn
  <2> QED
    BY <2>1, <2>2, <2>3, <2>4, <2>5
<1>5. CASE PortReply(c)
  <2>1. NoMinusOne'
    BY <1>5 DEF PortReply, Up, poolVars, sockVars, NoMinusOne
  <2>2. ToldOwn'
    BY <1>5 DEF PortReply, Up, poolVars, sockVars, ToldOwn
  <2>3. QueueOwn'
    BY <1>5 DEF PortReply, Up, poolVars, sockVars, QueueOwn
  <2>4. ServesOwn'
    BY <1>5 DEF PortReply, Up, poolVars, sockVars, ServesOwn
  <2>5. GotOwn'
    BY <1>5 DEF PortReply, Up, poolVars, sockVars, GotOwn
  <2> QED
    BY <2>1, <2>2, <2>3, <2>4, <2>5
<1>6. CASE Listen(c)
  <2>1. NoMinusOne'
    BY <1>6 DEF Listen, Up, poolVars, reqVars, NoMinusOne
  <2>2. ToldOwn'
    BY <1>6 DEF Listen, Up, poolVars, reqVars, ToldOwn
  <2>3. QueueOwn'
    BY <1>6 DEF Listen, Up, poolVars, reqVars, QueueOwn
  <2>4. ServesOwn'
    BY <1>6 DEF Listen, Up, poolVars, reqVars, ServesOwn
  <2>5. GotOwn'
    BY <1>6 DEF Listen, Up, poolVars, reqVars, GotOwn
  <2> QED
    BY <2>1, <2>2, <2>3, <2>4, <2>5
<1>7. CASE OpenFile(c)
  <2>1. NoMinusOne'
    BY <1>7 DEF OpenFile, Up, poolVars, sockVars, reqVars, NoMinusOne
  <2>2. ToldOwn'
    BY <1>7 DEF OpenFile, Up, poolVars, sockVars, reqVars, ToldOwn
  <2>3. QueueOwn'
    BY <1>7 DEF OpenFile, Up, poolVars, sockVars, reqVars, QueueOwn
  <2>4. ServesOwn'
    BY <1>7 DEF OpenFile, Up, poolVars, sockVars, reqVars, ServesOwn
  <2>5. GotOwn'
    BY <1>7 DEF OpenFile, Up, poolVars, sockVars, reqVars, GotOwn
  <2> QED
    BY <2>1, <2>2, <2>3, <2>4, <2>5
<1>8. CASE Accept(c)
  <2>1. NoMinusOne'
    BY <1>8 DEF Accept, Up, poolVars, reqVars, NoMinusOne
  <2>2. ToldOwn'
    <3>1. rpc[c] # "told"
      BY <1>8, AcceptsOwn DEF Accept, Up
    <3> QED
      BY <1>8, <3>1 DEF Accept, Up, reqVars, ToldOwn
  <2>3. QueueOwn'
    BY <1>8 DEF Accept, Up, poolVars, reqVars, QueueOwn
  <2>4. ServesOwn'
    <3>1. Head(queue[new_port[c]]) = c
      BY <1>8, AcceptsOwn DEF Accept, Up
    <3> QED
      BY <1>8, <3>1 DEF Accept, Up, ServesOwn
  <2>5. GotOwn'
    BY <1>8 DEF Accept, Up, poolVars, reqVars, GotOwn
  <2> QED
    BY <2>1, <2>2, <2>3, <2>4, <2>5
<1>9. CASE Serve(c)
  <2>1. NoMinusOne'
    BY <1>9 DEF Serve, Up, poolVars, sockVars, NoMinusOne
  <2>2. ToldOwn'
    BY <1>9 DEF Serve, Up, poolVars, sockVars, ToldOwn
  <2>3. QueueOwn'
    BY <1>9 DEF Serve, Up, poolVars, sockVars, QueueOwn
  <2>4. ServesOwn'
    BY <1>9, SMTT(20), ZenonT(20) DEF Serve, Up, poolVars, sockVars, ServesOwn
  <2>5. GotOwn'
    <3>1. peer[c] = c
      BY <1>9 DEF Serve, ServesOwn
    <3>2. CASE got' = [got EXCEPT ![c] = @ \cup {Wants[c]}]
      BY <3>2 DEF GotOwn
    <3>3. CASE UNCHANGED got
      BY <3>3 DEF GotOwn
    <3> QED
      BY <1>9, <3>1, <3>2, <3>3, SMTT(20), ZenonT(20) DEF Serve
  <2> QED
    BY <2>1, <2>2, <2>3, <2>4, <2>5
<1>10. CASE ServeEnd(c)
  <2>1. NoMinusOne'
    BY <1>10 DEF ServeEnd, Up, poolVars, sockVars, reqVars, NoMinusOne
  <2>2. ToldOwn'
    BY <1>10 DEF ServeEnd, Up, poolVars, sockVars, reqVars, ToldOwn
  <2>3. QueueOwn'
    BY <1>10 DEF ServeEnd, Up, poolVars, sockVars, reqVars, QueueOwn
  <2>4. ServesOwn'
    BY <1>10 DEF ServeEnd, Up, poolVars, sockVars, reqVars, ServesOwn
  <2>5. GotOwn'
    BY <1>10 DEF ServeEnd, Up, poolVars, sockVars, reqVars, GotOwn
  <2> QED
    BY <2>1, <2>2, <2>3, <2>4, <2>5
<1>11. CASE CloseListener(c)
  <2>1. NoMinusOne'
    BY <1>11 DEF CloseListener, Up, poolVars, NoMinusOne
  <2>2. ToldOwn'
    BY <1>11 DEF CloseListener, Up, poolVars, ToldOwn
  <2>3. QueueOwn'
    BY <1>11 DEF CloseListener, Up, poolVars, QueueOwn
  <2>4. ServesOwn'
    BY <1>11 DEF CloseListener, Up, poolVars, ServesOwn
  <2>5. GotOwn'
    BY <1>11 DEF CloseListener, Up, poolVars, GotOwn
  <2> QED
    BY <2>1, <2>2, <2>3, <2>4, <2>5
<1>12. CASE PutPort(c)
  <2>1. NoMinusOne'
    BY <1>12, SMTT(20), ZenonT(20) DEF PutPort, Up, put_p2p_port, sockVars, reqVars, NoMinusOne
  <2>2. ToldOwn'
    BY <1>12 DEF PutPort, Up, put_p2p_port, sockVars, reqVars, ToldOwn
  <2>3. QueueOwn'
    BY <1>12 DEF PutPort, Up, put_p2p_port, sockVars, reqVars, QueueOwn
  <2>4. ServesOwn'
    BY <1>12 DEF PutPort, Up, put_p2p_port, sockVars, reqVars, ServesOwn
  <2>5. GotOwn'
    BY <1>12, SMTT(20), ZenonT(20) DEF PutPort, Up, put_p2p_port, sockVars, reqVars, GotOwn
  <2> QED
    BY <2>1, <2>2, <2>3, <2>4, <2>5
<1> QED
  BY <1>1, <1>2, <1>3, <1>4, <1>5, <1>6, <1>7, <1>8, <1>9, <1>10, <1>11, <1>12, ZenonT(20) DEF UploadStep

\* The steps of the requesters keep Private.
LEMMA RequesterPrivate ==
  ASSUME TypeOK, HasPort, PortsAccounted, Listeners, Private, NEW c \in Conn,
         RequesterStep(c) \/ Connect(c) \/ Gone(c)
  PROVE  Private'
<1> SUFFICES ASSUME ~gaveUp', ~exhausted'
             PROVE  (NoMinusOne /\ ToldOwn /\ QueueOwn /\ ServesOwn /\ GotOwn)'
  BY SMTT(20), ZenonT(20) DEF Private
<1>0. ~gaveUp /\ ~exhausted
  BY DEF RequesterStep, NoPort, NoLen, Dial, Finish, Connect, Gone, poolVars, upVars, TypeOK
<1> NoMinusOne /\ ToldOwn /\ QueueOwn /\ ServesOwn /\ GotOwn
  BY <1>0 DEF Private
<1> USE PortFacts, EmptyQueue DEF TypeOK, HasPort, WithPort, Listening
<1>1. CASE NoPort(c)
  <2>1. NoMinusOne'
    BY <1>1 DEF NoPort, Req, poolVars, upVars, sockVars, NoMinusOne
  <2>2. ToldOwn'
    BY <1>1 DEF NoPort, Req, poolVars, upVars, sockVars, ToldOwn
  <2>3. QueueOwn'
    BY <1>1 DEF NoPort, Req, poolVars, upVars, sockVars, QueueOwn
  <2>4. ServesOwn'
    BY <1>1 DEF NoPort, Req, poolVars, upVars, sockVars, ServesOwn
  <2>5. GotOwn'
    BY <1>1 DEF NoPort, Req, poolVars, upVars, sockVars, GotOwn
  <2> QED
    BY <2>1, <2>2, <2>3, <2>4, <2>5
<1>2. CASE NoLen(c)
  <2>1. NoMinusOne'
    BY <1>2 DEF NoLen, Req, poolVars, upVars, sockVars, NoMinusOne
  <2>2. ToldOwn'
    BY <1>2 DEF NoLen, Req, poolVars, upVars, sockVars, ToldOwn
  <2>3. QueueOwn'
    BY <1>2 DEF NoLen, Req, poolVars, upVars, sockVars, QueueOwn
  <2>4. ServesOwn'
    BY <1>2, SMTT(20), ZenonT(20) DEF NoLen, Req, poolVars, upVars, sockVars, ServesOwn
  <2>5. GotOwn'
    BY <1>2 DEF NoLen, Req, poolVars, upVars, sockVars, GotOwn
  <2> QED
    BY <2>1, <2>2, <2>3, <2>4, <2>5
<1>3. CASE Dial(c)
  <2>1. NoMinusOne'
    BY <1>3, SMTT(20), ZenonT(20) DEF Dial, Req, poolVars, upVars, NoMinusOne
  <2>2. ToldOwn'
    BY <1>3, SMTT(20), ZenonT(20) DEF Dial, Req, poolVars, upVars, ToldOwn
  <2>3. QueueOwn'
    <3> DEFINE p == rport[c]
    <3>1. rpc[c] = "told" /\ listener' = listener
      BY <1>3, SMTT(20), ZenonT(20) DEF Dial, Req
    <3>2. CASE listener[p] = None
      <4>1. queue' = queue /\ rpc' = [rpc EXCEPT ![c] = "refused"]
        BY <1>3, <3>2, ZenonT(20) DEF Dial, Req
      <4> QED
        BY <3>1, <4>1, QueueConn, SMTT(20), ZenonT(20) DEF QueueOwn
    <3>3. CASE listener[p] # None
      <4>1. queue' = [queue EXCEPT ![p] = Append(@, c)] /\ rpc' = [rpc EXCEPT ![c] = "dialled"]
        BY <1>3, <3>3, ZenonT(20) DEF Dial, Req
      <4>2. p \in Port /\ listener[p] = c
        BY <3>1, <3>3, DialsOwn, SMTT(20), ZenonT(20)
      <4>3. ASSUME NEW q \in Port, NEW i \in 1 .. Len(queue'[q])
            PROVE  queue'[q][i] = listener[q] /\ rpc'[listener[q]] \in {"dialled", "closed", "gone"}
        <5>1. CASE q = p
          <6>1. queue'[q] = Append(queue[q], c) /\ queue[q] \in Seq(Conn)
            BY <4>1, <4>2, <5>1, SMTT(20), ZenonT(20)
          <6>2. i \in 1 .. Len(queue[q]) => queue[q][i] = c
            BY <4>2, <5>1 DEF QueueOwn
          <6>3. queue'[q][i] = c
            BY <6>1, <6>2, SMTT(20), ZenonT(20)
          <6> QED
            BY <4>1, <4>2, <5>1, <6>3, SMTT(20), ZenonT(20)
        <5>2. CASE q # p
          <6>1. queue'[q] = queue[q]
            BY <4>1, <5>2, SMTT(20), ZenonT(20)
          <6>2. queue[q][i] = listener[q] /\ rpc[listener[q]] \in {"dialled", "closed", "gone"}
            BY <6>1, SMTT(20), ZenonT(20) DEF QueueOwn
          <6> QED
            BY <4>1, <6>1, <6>2
        <5> QED
          BY <5>1, <5>2, ZenonT(20)
      <4> QED
        BY <3>1, <4>3, ZenonT(20) DEF QueueOwn
    <3> QED
      BY <3>2, <3>3, SMTT(20), ZenonT(20)
  <2>4. ServesOwn'
    BY <1>3, SMTT(20), ZenonT(20) DEF Dial, Req, poolVars, upVars, ServesOwn
  <2>5. GotOwn'
    BY <1>3 DEF Dial, Req, poolVars, upVars, GotOwn
  <2> QED
    BY <2>1, <2>2, <2>3, <2>4, <2>5
<1>4. CASE Finish(c)
  <2>1. NoMinusOne'
    BY <1>4, SMTT(20), ZenonT(20) DEF Finish, Req, poolVars, upVars, sockVars, NoMinusOne
  <2>2. ToldOwn'
    BY <1>4, SMTT(20), ZenonT(20) DEF Finish, Req, poolVars, upVars, sockVars, ToldOwn
  <2>3. QueueOwn'
    BY <1>4, SMTT(20), ZenonT(20) DEF Finish, Req, poolVars, upVars, sockVars, QueueOwn
  <2>4. ServesOwn'
    BY <1>4 DEF Finish, Req, poolVars, upVars, sockVars, ServesOwn
  <2>5. GotOwn'
    BY <1>4, SMTT(20), ZenonT(20) DEF Finish, Req, poolVars, upVars, sockVars, GotOwn
  <2> QED
    BY <2>1, <2>2, <2>3, <2>4, <2>5
<1>5. CASE Connect(c)
  <2>1. NoMinusOne'
    BY <1>5, SMTT(20), ZenonT(20) DEF Connect, Req, poolVars, sockVars, NoMinusOne
  <2>2. ToldOwn'
    BY <1>5, SMTT(20), ZenonT(20) DEF Connect, Req, poolVars, sockVars, ToldOwn
  <2>3. QueueOwn'
    <3>1. UNCHANGED <<listener, queue>>
      BY <1>5, ZenonT(20) DEF Connect, sockVars
    <3>2. \A d \in Conn : rpc[d] \in {"dialled", "closed", "gone"} =>
                           rpc'[d] \in {"dialled", "closed", "gone"}
      BY <1>5, SMTT(20), ZenonT(20) DEF Connect, Req
    <3> QED
      BY <3>1, <3>2, QueueConn, ZenonT(20) DEF QueueOwn
  <2>4. ServesOwn'
    BY <1>5, ZenonT(20) DEF Connect, Req, poolVars, sockVars, ServesOwn
  <2>5. GotOwn'
    BY <1>5, SMTT(20), ZenonT(20) DEF Connect, Req, poolVars, sockVars, GotOwn
  <2> QED
    BY <2>1, <2>2, <2>3, <2>4, <2>5
<1>6. CASE Gone(c)
  <2>1. NoMinusOne'
    BY <1>6, SMTT(20), ZenonT(20) DEF Gone, Req, poolVars, upVars, sockVars, NoMinusOne
  <2>2. ToldOwn'
    BY <1>6, SMTT(20), ZenonT(20) DEF Gone, Req, poolVars, upVars, sockVars, ToldOwn
  <2>3. QueueOwn'
    BY <1>6, SMTT(20), ZenonT(20) DEF Gone, Req, poolVars, upVars, sockVars, QueueOwn
  <2>4. ServesOwn'
    BY <1>6, SMTT(20), ZenonT(20) DEF Gone, Req, poolVars, upVars, sockVars, ServesOwn
  <2>5. GotOwn'
    BY <1>6 DEF Gone, Req, poolVars, upVars, sockVars, GotOwn
  <2> QED
    BY <2>1, <2>2, <2>3, <2>4, <2>5
<1> QED
  BY <1>1, <1>2, <1>3, <1>4, <1>5, <1>6, ZenonT(20) DEF RequesterStep

-----------------------------------------------------------------------------
\* Every step keeps the invariant.
LEMMA InvariantStep == IInv /\ [Next]_vars => IInv'
<1> SUFFICES ASSUME IInv, [Next]_vars PROVE IInv'
  OBVIOUS
<1>1. ASSUME NEW c \in Conn, UploadStep(c) PROVE IInv'
  BY <1>1, UploadType, UploadPort, UploadBooks, UploadListen, UploadPrivate DEF IInv
<1>2. ASSUME NEW c \in Conn, RequesterStep(c) \/ Connect(c) \/ Gone(c) PROVE IInv'
  BY <1>2, RequesterType, RequesterPort, RequesterBooks, RequesterListen, RequesterPrivate DEF IInv
<1>3. CASE UNCHANGED vars
  <2> USE <1>3 DEF vars, poolVars, upVars, sockVars, reqVars, IInv
  <2>1. TypeOK'
    BY DEF TypeOK
  <2>2. HasPort' /\ PortsAccounted' /\ Listeners'
    BY SMTT(20), ZenonT(20) DEF HasPort, PortsAccounted, Listeners
  <2>3. Private'
    BY DEF Private, NoMinusOne, ToldOwn, QueueOwn, ServesOwn, GotOwn
  <2> QED
    BY <2>1, <2>2, <2>3
<1> QED
  BY <1>1, <1>2, <1>3 DEF Next

\* The peer starts with every port free and nobody connected.
LEMMA InvariantInit == Init => IInv
<1> SUFFICES ASSUME Init PROVE IInv
  OBVIOUS
<1> USE PortFacts, EmptyQueue DEF Init
<1>1. TypeOK
  BY ZenonT(20) DEF TypeOK
<1>2. HasPort /\ Listeners
  BY DEF HasPort, Listeners, WithPort, Listening
<1>3. PortsAccounted
  <2>1. \A c \in Conn : new_port[c] \notin Pool
    OBVIOUS
  <2>2. \A p \in Pool : p2p_ports[p] # 1
    OBVIOUS
  <2> QED
    BY <2>1, <2>2, Zenon DEF PortsAccounted
<1>4. Private
  BY DEF Private, NoMinusOne, ToldOwn, QueueOwn, ServesOwn, GotOwn
<1> QED
  BY <1>1, <1>2, <1>3, <1>4 DEF IInv

\* The inductive invariant holds of every execution.
THEOREM Invariant == Spec => []IInv
BY InvariantInit, InvariantStep, PTL DEF Spec

\* Every port that is told to a requester is one of the pool or (uint16_t) -1,
\* and every variable has its type (get_free_p2p_port).
THEOREM UploadTypes == Spec => []TypeOK
<1>1. IInv => TypeOK
  BY DEF IInv
<1> QED
  BY <1>1, Invariant, PTL

\* A port is marked in p2p_ports exactly while one transfer has it, and no two
\* transfers have the same port, however many there are and however they end.
THEOREM PoolBooks == Spec => []PortsAccounted
<1>1. IInv => PortsAccounted
  BY SMTT(20), ZenonT(20) DEF IInv
<1> QED
  BY <1>1, Invariant, PTL

\* On a port that get_free_p2p_port may hand out nobody listens and nobody
\* waits: close(listenfd) comes before put_p2p_port.
THEOREM FreePorts == Spec => []FreePortsQuiet
<1>1. IInv => FreePortsQuiet
  <2> SUFFICES ASSUME IInv, NEW p \in Pool, p2p_ports[p] = 0
               PROVE  listener[p] = None /\ queue[p] = << >>
    BY DEF FreePortsQuiet
  <2>1. p \in Port /\ \A c \in Conn : new_port[c] # p
    BY PortFacts DEF IInv, PortsAccounted
  <2>2. listener[p] = None
    BY <2>1 DEF IInv, Listeners, TypeOK
  <2> QED
    BY <2>1, <2>2 DEF IInv, Listeners
<1> QED
  BY <1>1, Invariant, PTL

\* A requester receives bytes of the file it asked for only, unless a transfer
\* gave up after it told its port or the pool has run dry.
THEOREM OwnFile == Spec => []ServedOwnFile
<1>1. IInv => ServedOwnFile
  BY DEF IInv, Private, GotOwn, ServedOwnFile
<1> QED
  BY <1>1, Invariant, PTL
=============================================================================
