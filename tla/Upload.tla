------------------------------- MODULE Upload -------------------------------
(***************************************************************************)
(* The transfers that one peer serves (client/start.c): ptop_listening_task*)
(* starts a ptop_upload_task for every connection; that thread answers a   *)
(* length request, or takes a port from the pool p2p_ports, tells it to    *)
(* the requester, listens on it and serves the file there (do_upload).     *)
(* The requester is the other end of it (client/download.c): one           *)
(* piece_download_task, or one get_file_len_from, per connection.          *)
(*                                                                         *)
(* A connection c also names the upload thread that serves it and the      *)
(* thread that asks.  Wants[c] is the file it asks for; pieces are left    *)
(* out, got[c] is the set of files that c has received bytes of.  Sockets  *)
(* are the kernel's: at most one listener per port, with a queue of        *)
(* connections not yet accepted, which are reset when it is closed.  A     *)
(* send to a requester that is gone may fail, be lost, or raise SIGPIPE,   *)
(* whose handler client_cleanup ends the process.                          *)
(***************************************************************************)
EXTENDS Integers, Sequences

CONSTANTS
  Conn,         \* connections to P2P_PORT, in other words transfers
  File, Wants,  \* the file that each connection asks for
  MAX_P2P_PORT  \* size of the pool of ports

BASE_P2P_PORT == 5100
UINT16_MAX == 65535
Pool == BASE_P2P_PORT .. BASE_P2P_PORT + MAX_P2P_PORT - 1
Port == Pool \cup {UINT16_MAX}
None == 0

ASSUME WantsAssumption == Wants \in [Conn -> File]
ASSUME PoolAssumption == MAX_P2P_PORT \in Nat /\ MAX_P2P_PORT < UINT16_MAX - BASE_P2P_PORT
ASSUME NoneAssumption == None \notin Conn

VARIABLES
  p2p_ports,  \* the pool: 1 for a port in use
  upc,        \* where each ptop_upload_task stands
  new_port,   \* its local, None before get_free_p2p_port and after put_p2p_port
  named,      \* whether its local sys_name was assigned
  peer,       \* the requester that do_upload has accepted
  listener,   \* the upload thread listening on a port
  queue,      \* the requesters waiting there to be accepted
  rpc,        \* where each requester stands
  req,        \* the request on its way to the upload thread
  rport,      \* download_port of the requester
  got,        \* the files whose bytes it received
  gaveUp,     \* history: an upload ended before it accepted anyone
  exhausted,  \* history: get_free_p2p_port has failed
  proc        \* "up", "exit" after SIGPIPE, "ub"

poolVars == <<p2p_ports, exhausted>>
upVars   == <<upc, new_port, named, peer, gaveUp>>
sockVars == <<listener, queue>>
reqVars  == <<rpc, req, rport, got>>
vars == <<poolVars, upVars, sockVars, reqVars, proc>>

Init ==
  /\ p2p_ports = [p \in Pool |-> 0] /\ exhausted = FALSE
  /\ upc = [c \in Conn |-> "none"] /\ new_port = [c \in Conn |-> None]
  /\ named = [c \in Conn |-> FALSE] /\ peer = [c \in Conn |-> None] /\ gaveUp = FALSE
  /\ listener = [p \in Port |-> None] /\ queue = [p \in Port |-> << >>]
  /\ rpc = [c \in Conn |-> "idle"] /\ req = [c \in Conn |-> "none"]
  /\ rport = [c \in Conn |-> None] /\ got = [c \in Conn |-> {}]
  /\ proc = "up"

-----------------------------------------------------------------------------
(* The upload thread of connection c.                                      *)

Up(c, from, to) == proc = "up" /\ upc[c] = from /\ upc' = [upc EXCEPT ![c] = to]

\* the requester's end of the first connection is closed
Closed(c) == rpc[c] \in {"closed", "gone"}

\* a request arrives; get_sys_name does not find every name
RecvRequest(c) ==
  /\ req[c] \in {"len", "port"}
  /\ \/ Up(c, "recv", req[c]) /\ named' = [named EXCEPT ![c] = TRUE]
     \/ Up(c, "recv", "end") /\ UNCHANGED named
  /\ req' = [req EXCEPT ![c] = "none"]
  /\ UNCHANGED <<poolVars, new_port, peer, gaveUp, sockVars, rpc, rport, got, proc>>

\* no further request: free(sys_name), which nothing may have assigned
RecvEnd(c) ==
  /\ req[c] = "none" /\ Closed(c)
  /\ Up(c, "recv", "end")
  /\ proc' = IF named[c] THEN proc ELSE "ub"
  /\ UNCHANGED <<poolVars, new_port, named, peer, gaveUp, sockVars, reqVars>>

\* P2P_FILE_LEN_REQ: stat may fail, and the answer too
LenReply(c) ==
  /\ \/ Up(c, "len", "end") /\ UNCHANGED <<rpc, proc>>
     \/ /\ Up(c, "len", "recv") /\ UNCHANGED proc
        /\ rpc' = [rpc EXCEPT ![c] = IF @ = "askedLen" THEN "closed" ELSE @]
     \/ /\ rpc[c] = "gone" /\ Up(c, "len", "end")
        /\ proc' = "exit" /\ UNCHANGED rpc
  /\ UNCHANGED <<poolVars, new_port, named, peer, gaveUp, sockVars, req, rport, got>>

\* mutants: the port is not marked; the search runs past the end of the pool
get_free_p2p_port_unmarked(c) ==
  \E p \in Pool :
    /\ p2p_ports[p] = 0 /\ \A q \in Pool : q < p => p2p_ports[q] = 1
    /\ new_port' = [new_port EXCEPT ![c] = p]
    /\ UNCHANGED <<p2p_ports, exhausted>>

get_free_p2p_port_beyond(c) ==
  LET taken == {p \in Pool : p2p_ports[p] = 1}
  IN  \E p \in BASE_P2P_PORT .. BASE_P2P_PORT + MAX_P2P_PORT :
        /\ p \notin taken /\ BASE_P2P_PORT .. p - 1 \subseteq taken
        /\ p2p_ports' = [q \in Pool |-> IF q = p THEN 1 ELSE p2p_ports[q]]
        /\ new_port' = [new_port EXCEPT ![c] = p]
        /\ UNCHANGED exhausted

\* the first free port, or -1 in 16 bits
get_free_p2p_port(c) ==
  \/ \E p \in Pool :
       /\ p2p_ports[p] = 0 /\ \A q \in Pool : q < p => p2p_ports[q] = 1
       /\ p2p_ports' = [p2p_ports EXCEPT ![p] = 1]
       /\ new_port' = [new_port EXCEPT ![c] = p]
       /\ UNCHANGED exhausted
  \/ /\ \A p \in Pool : p2p_ports[p] = 1
     /\ new_port' = [new_port EXCEPT ![c] = UINT16_MAX]
     /\ exhausted' = TRUE
     /\ UNCHANGED p2p_ports

GetPort(c) ==
  /\ Up(c, "port", "reply")
  /\ get_free_p2p_port(c)
  /\ UNCHANGED <<named, peer, gaveUp, sockVars, reqVars, proc>>

\* P2P_PORT_RET goes out before anyone listens; if it fails the port is kept
PortReply(c) ==
  /\ \/ /\ Up(c, "reply", "listen") /\ UNCHANGED proc
        /\ rpc' = [rpc EXCEPT ![c] = IF @ = "asked" THEN "told" ELSE @]
        /\ rport' = [rport EXCEPT ![c] = new_port[c]]
     \/ /\ Closed(c) /\ Up(c, "reply", "end")
        /\ proc' \in {"up", "exit"} /\ UNCHANGED <<rpc, rport>>
  /\ UNCHANGED <<poolVars, new_port, named, peer, gaveUp, sockVars, req, got>>

\* client_tcp_listen: bind fails on a port with a listener; the port is kept
Listen(c) ==
  /\ \/ /\ Up(c, "listen", "open") /\ listener[new_port[c]] = None
        /\ listener' = [listener EXCEPT ![new_port[c]] = c]
     \/ Up(c, "listen", "end") /\ UNCHANGED listener
  /\ UNCHANGED <<poolVars, new_port, named, peer, gaveUp, queue, reqVars, proc>>

\* do_upload: the file may be gone
OpenFile(c) ==
  /\ \/ Up(c, "open", "accept") /\ UNCHANGED gaveUp
     \/ Up(c, "open", "shut") /\ gaveUp' = TRUE
  /\ UNCHANGED <<poolVars, new_port, named, peer, sockVars, reqVars, proc>>

Accept(c) ==
  LET p == new_port[c]
  IN  /\ Up(c, "accept", "serve") /\ queue[p] # << >>
      /\ peer' = [peer EXCEPT ![c] = Head(queue[p])]
      /\ queue' = [queue EXCEPT ![p] = Tail(@)]
      /\ UNCHANGED <<poolVars, new_port, named, gaveUp, listener, reqVars, proc>>

\* a piece is asked for, read and written; a short read closes the connection
Serve(c) ==
  LET q == peer[c]
  IN  /\ upc[c] = "serve" /\ rpc[q] = "dialled"
      /\ \/ /\ Up(c, "serve", "serve")
            /\ got' = [got EXCEPT ![q] = @ \cup {Wants[c]}] /\ UNCHANGED rpc
         \/ /\ Up(c, "serve", "shut")
            /\ rpc' = [rpc EXCEPT ![q] = "closed"] /\ UNCHANGED got
      /\ UNCHANGED <<poolVars, new_port, named, peer, gaveUp, sockVars, req, rport, proc>>

\* the requester has hung up; a piece on its way to it raises SIGPIPE
ServeEnd(c) ==
  /\ upc[c] = "serve" /\ Closed(peer[c])
  /\ Up(c, "serve", "shut")
  /\ proc' \in IF rpc[peer[c]] = "gone" THEN {"up", "exit"} ELSE {"up"}
  /\ UNCHANGED <<poolVars, new_port, named, peer, gaveUp, sockVars, reqVars>>

\* mutant: listenfd is not closed
CloseListener_leaks(c) ==
  /\ Up(c, "shut", "put")
  /\ UNCHANGED <<poolVars, new_port, named, peer, gaveUp, sockVars, reqVars, proc>>

\* close(listenfd) resets who waits there
CloseListener(c) ==
  LET p == new_port[c]
      waiting == {queue[p][i] : i \in DOMAIN queue[p]}
  IN  /\ Up(c, "shut", "put")
      /\ listener' = [listener EXCEPT ![p] = None]
      /\ queue' = [queue EXCEPT ![p] = << >>]
      /\ rpc' = [q \in Conn |-> IF q \in waiting /\ rpc[q] = "dialled" THEN "closed" ELSE rpc[q]]
      /\ UNCHANGED <<poolVars, new_port, named, peer, gaveUp, req, rport, got, proc>>

\* mutants: the port is not put back; some other port is
put_p2p_port_never(c) == UNCHANGED <<p2p_ports, proc>>
put_p2p_port_first(c) ==
  /\ p2p_ports' = [p \in Pool |-> IF p = BASE_P2P_PORT THEN 0 ELSE p2p_ports[p]]
  /\ UNCHANGED proc

\* the index of port -1 is far outside p2p_ports
put_p2p_port(c) ==
  \/ /\ new_port[c] \in Pool
     /\ p2p_ports' = [p2p_ports EXCEPT ![new_port[c]] = 0]
     /\ UNCHANGED proc
  \/ new_port[c] \notin Pool /\ proc' = "ub" /\ UNCHANGED p2p_ports

\* back to the next request of the connection
PutPort(c) ==
  /\ Up(c, "put", "recv")
  /\ put_p2p_port(c)
  /\ new_port' = [new_port EXCEPT ![c] = None]
  /\ UNCHANGED <<exhausted, named, peer, gaveUp, sockVars, reqVars>>

-----------------------------------------------------------------------------
(* The requester of connection c.                                          *)

Req(c, from, to) == proc = "up" /\ rpc[c] = from /\ rpc' = [rpc EXCEPT ![c] = to]

\* connect_to_peer and the request; the requester may end in between
Connect(c) ==
  /\ \/ Req(c, "idle", "askedLen") /\ req' = [req EXCEPT ![c] = "len"]
     \/ Req(c, "idle", "asked") /\ req' = [req EXCEPT ![c] = "port"]
     \/ Req(c, "idle", "gone") /\ UNCHANGED req
  /\ upc' = [upc EXCEPT ![c] = "recv"]
  /\ UNCHANGED <<poolVars, new_port, named, peer, gaveUp, sockVars, rport, got, proc>>

\* no answer: get_p2p_download_port returns (uint16_t) -1, which is not < 0
NoPort(c) ==
  /\ Req(c, "asked", "told") /\ upc[c] = "end"
  /\ rport' = [rport EXCEPT ![c] = UINT16_MAX]
  /\ UNCHANGED <<poolVars, upVars, sockVars, req, got, proc>>

\* no answer: get_file_len_from returns -1 and leaves its socket open
NoLen(c) ==
  /\ Req(c, "askedLen", "refused") /\ upc[c] = "end"
  /\ UNCHANGED <<poolVars, upVars, sockVars, req, rport, got, proc>>

\* the second connection; when it is refused the first one stays open
Dial(c) ==
  LET p == rport[c]
  IN  /\ Req(c, "told", IF listener[p] = None THEN "refused" ELSE "dialled")
      /\ queue' = IF listener[p] = None THEN queue ELSE [queue EXCEPT ![p] = Append(@, c)]
      /\ UNCHANGED <<poolVars, upVars, listener, req, rport, got, proc>>

\* no more pieces: both connections are closed
Finish(c) ==
  /\ Req(c, "dialled", "closed")
  /\ UNCHANGED <<poolVars, upVars, sockVars, req, rport, got, proc>>

\* the requester's process ends
Gone(c) ==
  /\ \E from \in {"asked", "askedLen", "told", "dialled", "refused"} : Req(c, from, "gone")
  /\ UNCHANGED <<poolVars, upVars, sockVars, req, rport, got, proc>>

-----------------------------------------------------------------------------
UploadStep(c) ==
  \/ RecvRequest(c) \/ RecvEnd(c) \/ LenReply(c) \/ GetPort(c) \/ PortReply(c)
  \/ Listen(c) \/ OpenFile(c) \/ Accept(c) \/ Serve(c) \/ ServeEnd(c)
  \/ CloseListener(c) \/ PutPort(c)

RequesterStep(c) == NoPort(c) \/ NoLen(c) \/ Dial(c) \/ Finish(c)

Next == \E c \in Conn : UploadStep(c) \/ RequesterStep(c) \/ Connect(c) \/ Gone(c)

Spec == Init /\ [][Next]_vars

\* the threads of both ends run; a requester comes to its last piece
FairSpec ==
  /\ Spec
  /\ \A c \in Conn : WF_vars(UploadStep(c)) /\ WF_vars(RequesterStep(c))
-----------------------------------------------------------------------------
(* Properties.                                                             *)

\* The variables keep their types; in particular every port that is told to a
\* requester is one of the pool or (uint16_t) -1.
TypeOK ==
  /\ p2p_ports \in [Pool -> {0, 1}] /\ exhausted \in BOOLEAN
  /\ upc \in [Conn -> {"none", "recv", "len", "port", "reply", "listen", "open", "accept",
                       "serve", "shut", "put", "end"}]
  /\ new_port \in [Conn -> Port \cup {None}] /\ named \in [Conn -> BOOLEAN]
  /\ peer \in [Conn -> Conn \cup {None}] /\ gaveUp \in BOOLEAN
  /\ listener \in [Port -> Conn \cup {None}] /\ queue \in [Port -> Seq(Conn)]
  /\ rpc \in [Conn -> {"idle", "asked", "askedLen", "told", "dialled", "refused", "closed", "gone"}]
  /\ req \in [Conn -> {"none", "len", "port"}]
  /\ rport \in [Conn -> Port \cup {None}] /\ got \in [Conn -> SUBSET File]
  /\ proc \in {"up", "exit", "ub"}

\* The pool keeps its books: a port is marked exactly while one transfer has it,
\* and no two transfers ever have the same port (get_free_p2p_port and
\* put_p2p_port, with all the ways a transfer can end in between).
PortsAccounted ==
  /\ \A p \in Pool : p2p_ports[p] = 1 <=> \E c \in Conn : new_port[c] = p
  /\ \A c, e \in Conn : new_port[c] = new_port[e] /\ new_port[c] \in Pool => c = e

\* A port that is free can be listened on: nobody listens there and nobody
\* waits there for a transfer that is over (close(listenfd) before
\* put_p2p_port).
FreePortsQuiet ==
  \A p \in Pool : p2p_ports[p] = 0 => listener[p] = None /\ queue[p] = << >>

\* A requester receives bytes of the file it asked for only.  The exceptions
\* are transfers that give up after they told their port, which then serves
\* someone else, and a pool that has run dry, when -1 stands for a port.
ServedOwnFile ==
  gaveUp \/ exhausted \/ \A c \in Conn : got[c] \subseteq {Wants[c]}

\* the transfers that never return their port: the answer or the listening
\* failed, or the requester will not come to the port
Stuck(c) ==
  \/ upc[c] = "end"
  \/ upc[c] = "accept" /\ rpc[c] \in {"refused", "closed", "gone"}

\* A port of the pool comes back: every transfer that takes one puts it back,
\* except the ones that Stuck names, unless the process ends.
PortsReturn ==
  \A c \in Conn : \A p \in Pool :
    new_port[c] = p ~> p2p_ports[p] = 0 \/ Stuck(c) \/ proc # "up"

=============================================================================
