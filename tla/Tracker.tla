------------------------------- MODULE Tracker -------------------------------
(***************************************************************************)
(* The tracker (server/start.c, server/peer_table.c, file_table.c): one    *)
(* receiver_task thread per connection, one thread per packet it receives  *)
(* (register, keep-alive, sync, file update) and one peer_check_alive_task *)
(* per registered peer, over two shared tables, ft and pt.                 *)
(*                                                                         *)
(* A step of a thread is what it does in one critical section, or between  *)
(* two accesses to shared state.  Pointers are modelled: a thread keeps a  *)
(* file entry by its name and a peer entry by its session, and uses them   *)
(* after the table's mutex was released, as the code does.  Using an entry *)
(* that was freed meanwhile is undefined; proc becomes "ub" and nothing is *)
(* claimed of what follows.  Writing to a connection whose peer has closed *)
(* it may raise SIGPIPE, which the tracker does not handle.                *)
(*                                                                         *)
(* Peers are the environment.  A peer sends PEER_REGISTER first and, once  *)
(* accepted, one PEER_SYNC and any keep-alives and file updates, in which  *)
(* it names itself as the only owner.  It may fall silent or close.        *)
(***************************************************************************)
EXTENDS FileTable, Integers, Sequences, FiniteSets

CONSTANTS
  Session,     \* accepted connections, one receiver_task thread each
  NoSession,
  IpOf,        \* the peer's address on each connection
  NoIp,        \* what peer_table_delete returns for an unknown connection
  Fd,          \* file descriptors, positive numbers
  Name,        \* file names, positive numbers in the order of their buckets
  Packets,     \* what the peer of each connection may send: [type, tft]
  Closing,     \* the connections that their peers may close
  Watched,     \* bound: the connections whose check period may pass
  MaxPkt       \* bound: packets the tracker receives in all

PacketType == {"PEER_REGISTER", "PEER_KEEP_ALIVE", "PEER_SYNC", "PEER_FILE_UPDATE"}
PacketEntry == [op : OpType, name : Name, timestamp : Nat]

ASSUME SessionAssumption == NoSession \notin Session
ASSUME FdAssumption == Fd \subseteq Nat \ {0}
ASSUME NameAssumption == Name \subseteq Nat \ {0} /\ IsFiniteSet(Name)
ASSUME MaxPktAssumption == MaxPkt \in Nat
\* a PEER_SYNC lists what the peer holds, with op_type FILE_NONE
ASSUME PacketsAssumption ==
  \A s \in Session : \A p \in Packets[s] :
    /\ p.type \in PacketType /\ p.tft \in Seq(PacketEntry)
    /\ p.type = "PEER_SYNC" => \A i \in DOMAIN p.tft : p.tft[i].op = FILE_NONE

TaskId == 1 .. MaxPkt

VARIABLES
  ft,       \* the file table
  pt,       \* pt.peer_head: the entries [sess, conn], the newest first
  ptMutex,  \* the receiver that holds pt.mutex across steps, or NoSession
  conn,     \* the open descriptor of each session, 0 when there is none
  rpc,      \* where receiver_task stands
  cancel,   \* cancellation of the receiver: "no", "pending", "acting"
  cip,      \* local peer_ip of receiver_task_cleanup
  cfe,      \* cursor of file_table_delete_owner, NoFile before its first entry
  ctab,     \* local tft of receiver_task_cleanup
  chk,      \* where peer_check_alive_task stands
  cpe,      \* its local pe
  last,     \* the session whose entry has timestamp = last_timestamp, if any
  pkt,      \* the packets received, each handled by the thread of its index
  tpc,      \* where that thread stands
  ti,       \* its loop index, or the position of hash_for_each
  tfe,      \* its local fe: a name, NoFile or Freed
  tpe,      \* its local pe
  tout,     \* the trans table it is building
  toPeer,   \* what was sent on each connection
  gone,     \* the peer has closed the connection
  proc      \* the tracker process: "up", "killed" or "ub"

tabVars  == <<ft, tfe>>
peerVars == <<pt, ptMutex>>
rcvVars  == <<conn, rpc, cancel, cip, cfe, ctab>>
chkVars  == <<chk, cpe, last>>
taskVars == <<tpc, ti, tpe, tout>>
netVars  == <<pkt, toPeer, gone>>
vars == <<tabVars, peerVars, rcvVars, chkVars, taskVars, netVars, proc>>

NoFile == 0
Freed  == -1

ReceiverPc == {"none", "recv", "delete", "owner", "strip", "drop", "fill", "lock",
               "send", "close", "done", "dead"}
TaskPc == {"idle", "accept", "add", "find", "beat", "scan", "reply", "look", "judge",
           "absent", "newer", "older", "entry", "insert", "modify", "fillAdd",
           "fillModify", "done"}

Init ==
  /\ ft = EmptyTable
  /\ pt = << >> /\ ptMutex = NoSession
  /\ conn = [s \in Session |-> 0]
  /\ rpc = [s \in Session |-> "none"]
  /\ cancel = [s \in Session |-> "no"]
  /\ cip = [s \in Session |-> NoIp]
  /\ cfe = [s \in Session |-> NoFile]
  /\ ctab = [s \in Session |-> << >>]
  /\ chk = [s \in Session |-> "none"]
  /\ cpe = [s \in Session |-> NoSession]
  /\ last = [s \in Session |-> NoSession]
  /\ pkt = << >>
  /\ tpc = [k \in TaskId |-> "idle"]
  /\ ti = [k \in TaskId |-> 0]
  /\ tfe = [k \in TaskId |-> NoFile]
  /\ tpe = [k \in TaskId |-> NoSession]
  /\ tout = [k \in TaskId |-> << >>]
  /\ toPeer = [s \in Session |-> << >>]
  /\ gone = [s \in Session |-> FALSE]
  /\ proc = "up"

-----------------------------------------------------------------------------
(* Peer table and sending.                                                 *)

\* peer_table_find(ip) returns pe: the first entry with this address, or NULL
peer_table_find(ip, pe) ==
  LET found == {i \in DOMAIN pt : IpOf[pt[i].sess] = ip}
  IN  \/ found = {} /\ pe = NoSession
      \/ \E i \in found : pe = pt[i].sess /\ \A j \in found : i <= j

\* the entry a kept pointer refers to is still allocated
Allocated(s) == \E i \in DOMAIN pt : pt[i].sess = s

MutexFree == ptMutex = NoSession
Up == proc = "up"

\* no receiver holds ft.mutex; the other holders release it within their step
TableFree == \A s \in Session : rpc[s] \notin {"strip", "drop"}

\* file_table_delete_owner looks at entry f, which has no more owner perhaps
Stripped(f) == \E s \in Session : rpc[s] = "drop" /\ cfe[s] = f

\* one segment to each descriptor of fds; a closed descriptor is an error that
\* is logged, and a peer that has closed may cost the tracker its process
SendAll(fds, msg) ==
  /\ toPeer' = [s \in Session |->
       IF conn[s] = 0 \/ gone[s] THEN toPeer[s]
       ELSE toPeer[s] \o [i \in 1 .. Cardinality({j \in DOMAIN fds : fds[j] = conn[s]})
                            |-> msg]]
  /\ proc' \in IF \E s \in Session, j \in DOMAIN fds :
                    conn[s] # 0 /\ gone[s] /\ conn[s] = fds[j]
               THEN {"up", "killed"} ELSE {"up"}

\* the descriptors broadcast_update writes to, by position in the peer table
Targets(exclusive_conn) ==
  [i \in {j \in DOMAIN pt : pt[j].conn # exclusive_conn} |-> pt[i].conn]

Broadcast(tft) == [type |-> "TRACKER_BROADCAST", tft |-> tft]

\* broadcast_update as a packet's thread runs it, which nothing interrupts
broadcast_update(tft, exclusive_conn) ==
  IF tft = << >> THEN UNCHANGED <<toPeer, proc>>
  ELSE MutexFree /\ SendAll(Targets(exclusive_conn), Broadcast(tft))

-----------------------------------------------------------------------------
(* Connections: server_start and receiver_task.                            *)

\* accept takes the lowest free descriptor
Accept(s) ==
  LET free == Fd \ {conn[r] : r \in Session}
  IN  /\ Up /\ rpc[s] = "none"
      /\ \E fd \in free :
           /\ \A other \in free : fd <= other
           /\ conn' = [conn EXCEPT ![s] = fd]
      /\ rpc' = [rpc EXCEPT ![s] = "recv"]
      /\ UNCHANGED <<tabVars, peerVars, cancel, cip, cfe, ctab, chkVars, taskVars, netVars, proc>>

\* what a peer may send next on its connection
MaySend(s, type) ==
  LET sent == {pkt[k].type : k \in {j \in DOMAIN pkt : pkt[j].sess = s}}
  IN  IF type = "PEER_REGISTER" THEN sent = {}
      ELSE /\ \E i \in DOMAIN toPeer[s] : toPeer[s][i].type = "TRACKER_ACCEPT"
           /\ type = "PEER_SYNC" => type \notin sent

FirstStep ==
  [PEER_REGISTER |-> "accept", PEER_KEEP_ALIVE |-> "find",
   PEER_SYNC |-> "scan", PEER_FILE_UPDATE |-> "entry"]

\* the body of receiver_task's loop: a thread for the packet
Dispatch(s, type, tft) ==
  LET k == Len(pkt) + 1
  IN  /\ Up /\ rpc[s] = "recv" /\ cancel[s] = "no"
      /\ k \in TaskId /\ MaySend(s, type)
      /\ pkt' = Append(pkt, [type |-> type, sess |-> s, conn |-> conn[s],
                             tft |-> [i \in DOMAIN tft |->
                                        [op |-> tft[i].op, name |-> tft[i].name,
                                         timestamp |-> tft[i].timestamp,
                                         owners |-> {IpOf[s]}]]])
      /\ tpc' = [tpc EXCEPT ![k] = FirstStep[type]]
      /\ ti' = [ti EXCEPT ![k] = IF type = "PEER_FILE_UPDATE" THEN 1 ELSE 0]
      /\ UNCHANGED <<tabVars, peerVars, rcvVars, chkVars, tpe, tout, toPeer, gone, proc>>

Receive(s) == \E p \in Packets[s] : Dispatch(s, p.type, p.tft)

PeerCloses(s) ==
  /\ Up /\ s \in Closing /\ conn[s] # 0 /\ ~gone[s]
  /\ gone' = [gone EXCEPT ![s] = TRUE]
  /\ UNCHANGED <<tabVars, peerVars, rcvVars, chkVars, taskVars, pkt, toPeer, proc>>

\* recv_ptot_packet fails: the handler is popped and receiver_task_cleanup called
RecvEnds(s) ==
  /\ Up /\ rpc[s] = "recv" /\ gone[s]
  /\ rpc' = [rpc EXCEPT ![s] = "delete"]
  /\ UNCHANGED <<tabVars, peerVars, conn, cancel, cip, cfe, ctab, chkVars, taskVars, netVars, proc>>

\* the thread is cancelled in recv: receiver_task_cleanup runs as the handler
RecvCancelled(s) ==
  /\ Up /\ rpc[s] = "recv" /\ cancel[s] = "pending"
  /\ rpc' = [rpc EXCEPT ![s] = "delete"]
  /\ cancel' = [cancel EXCEPT ![s] = "acting"]
  /\ UNCHANGED <<tabVars, peerVars, conn, cip, cfe, ctab, chkVars, taskVars, netVars, proc>>

\* peer_table_delete(&pt, conn): the first entry with this descriptor
CleanupDelete(s) ==
  LET found == {i \in DOMAIN pt : pt[i].conn = conn[s]}
  IN  /\ Up /\ rpc[s] = "delete" /\ MutexFree
      /\ rpc' = [rpc EXCEPT ![s] = "owner"]
      /\ \/ /\ found = {}
            /\ UNCHANGED <<pt, cip>>
         \/ \E i \in found :
              /\ \A j \in found : i <= j
              /\ pt' = [j \in 1 .. Len(pt) - 1 |-> IF j < i THEN pt[j] ELSE pt[j + 1]]
              /\ cip' = [cip EXCEPT ![s] = IpOf[pt[i].sess]]
      /\ UNCHANGED <<tabVars, ptMutex, conn, cancel, cfe, ctab, chkVars, taskVars, netVars, proc>>

\* the threads that still point to an entry that is freed
Dangle(f) ==
  tfe' = [k \in TaskId |-> IF tfe[k] = f THEN Freed ELSE tfe[k]]

\* file_table_delete_owner takes ft.mutex, and takes peer_ip from the owners of
\* one entry after the other, under the lock of the entry
CleanupStrip(s) ==
  LET rest == {f \in DOMAIN ft : f > cfe[s]}
  IN  /\ Up /\ rpc[s] \in {"owner", "strip"}
      /\ rpc[s] = "owner" => TableFree
      /\ \/ /\ rest = {}
            /\ rpc' = [rpc EXCEPT ![s] = "fill"]
            /\ cip' = [cip EXCEPT ![s] = NoIp]
            /\ cfe' = [cfe EXCEPT ![s] = NoFile]
            /\ UNCHANGED ft
         \/ \E f \in rest :
              /\ \A g \in rest : f <= g
              /\ ft' = file_entry_strip(ft, f, cip[s])
              /\ cfe' = [cfe EXCEPT ![s] = f]
              /\ rpc' = [rpc EXCEPT ![s] = "drop"]
              /\ UNCHANGED cip
      /\ UNCHANGED <<tfe, peerVars, conn, cancel, ctab, chkVars, taskVars, netVars, proc>>

\* mutant: an entry that lost its last owner stays
CleanupDropKeeps(s) ==
  /\ Up /\ rpc[s] = "drop"
  /\ rpc' = [rpc EXCEPT ![s] = "strip"]
  /\ UNCHANGED <<tabVars, peerVars, conn, cancel, cip, cfe, ctab, chkVars, taskVars, netVars, proc>>

\* the entry is freed if its list is empty, once its lock was released
CleanupDrop(s) ==
  /\ Up /\ rpc[s] = "drop"
  /\ \/ ft[cfe[s]].owners = {} /\ ft' = file_table_delete(ft, cfe[s]) /\ Dangle(cfe[s])
     \/ ft[cfe[s]].owners # {} /\ UNCHANGED tabVars
  /\ rpc' = [rpc EXCEPT ![s] = "strip"]
  /\ UNCHANGED <<peerVars, conn, cancel, cip, cfe, ctab, chkVars, taskVars, netVars, proc>>

\* trans_table_fill_from, in the order of the buckets
CleanupFill(s) ==
  LET entries == trans_table_fill_from(ft, FILE_MODIFY)
  IN  /\ Up /\ rpc[s] = "fill" /\ TableFree
      /\ \E tft \in [1 .. Cardinality(entries) -> entries] :
           /\ \A i, j \in DOMAIN tft : i < j => tft[i].name < tft[j].name
           /\ ctab' = [ctab EXCEPT ![s] = tft]
           /\ rpc' = [rpc EXCEPT ![s] = IF tft = << >> THEN "close" ELSE "lock"]
      /\ UNCHANGED <<tabVars, peerVars, conn, cancel, cip, cfe, chkVars, taskVars, netVars, proc>>

\* broadcast_update(&pt, tft, -1) takes pt.mutex ...
CleanupLock(s) ==
  /\ Up /\ rpc[s] = "lock" /\ MutexFree
  /\ ptMutex' = s
  /\ rpc' = [rpc EXCEPT ![s] = "send"]
  /\ UNCHANGED <<tabVars, pt, conn, cancel, cip, cfe, ctab, chkVars, taskVars, netVars, proc>>

\* mutant: the early exit of the loop without the unlock
CleanupSendKeepsMutex(s) ==
  /\ Up /\ rpc[s] = "send"
  /\ SendAll(Targets(-1), Broadcast(ctab[s]))
  /\ rpc' = [rpc EXCEPT ![s] = "close"]
  /\ ctab' = [ctab EXCEPT ![s] = << >>]
  /\ UNCHANGED <<tabVars, pt, ptMutex, conn, cancel, cip, cfe, chkVars, taskVars, pkt, gone>>

\* ... sends to every peer and unlocks
CleanupSend(s) ==
  /\ Up /\ rpc[s] = "send"
  /\ SendAll(Targets(-1), Broadcast(ctab[s]))
  /\ ptMutex' = NoSession
  /\ rpc' = [rpc EXCEPT ![s] = "close"]
  /\ ctab' = [ctab EXCEPT ![s] = << >>]
  /\ UNCHANGED <<tabVars, pt, conn, cancel, cip, cfe, chkVars, taskVars, pkt, gone>>

\* a cancellation request reaches the direct call, whose handler is popped: the
\* thread ends in one of the sends, with the mutex locked
CleanupSendDies(s) ==
  /\ Up /\ rpc[s] = "send" /\ cancel[s] = "pending"
  /\ \E n \in DOMAIN pt :
       SendAll([i \in 1 .. n - 1 |-> pt[i].conn], Broadcast(ctab[s]))
  /\ rpc' = [rpc EXCEPT ![s] = "dead"]
  /\ UNCHANGED <<tabVars, peerVars, conn, cancel, cip, cfe, ctab, chkVars, taskVars, pkt, gone>>

\* close(conn), a cancellation point as well
CleanupClose(s) ==
  /\ Up /\ rpc[s] = "close"
  /\ IF cancel[s] = "pending"
     THEN rpc' = [rpc EXCEPT ![s] = "dead"] /\ UNCHANGED conn
     ELSE rpc' = [rpc EXCEPT ![s] = "done"] /\ conn' = [conn EXCEPT ![s] = 0]
  /\ UNCHANGED <<tabVars, peerVars, cancel, cip, cfe, ctab, chkVars, taskVars, netVars, proc>>

-----------------------------------------------------------------------------
(* peer_check_alive_task.                                                  *)

Cancel(s) ==
  cancel' = [cancel EXCEPT ![s] = IF @ = "no" THEN "pending" ELSE @]

\* after usleep: peer_table_find
CheckFind(s) ==
  /\ Up /\ s \in Watched /\ chk[s] = "sleep" /\ MutexFree
  /\ \E pe \in Session \cup {NoSession} :
       /\ peer_table_find(IpOf[s], pe)
       /\ cpe' = [cpe EXCEPT ![s] = pe]
       /\ IF pe = NoSession
          THEN chk' = [chk EXCEPT ![s] = "exit"] /\ Cancel(s)
          ELSE chk' = [chk EXCEPT ![s] = "found"] /\ UNCHANGED cancel
  /\ UNCHANGED <<tabVars, peerVars, conn, rpc, cip, cfe, ctab, last, taskVars, netVars, proc>>

\* mutant: last_timestamp is never assigned
CheckCompareForgets(s) ==
  /\ Up /\ chk[s] = "found" /\ MutexFree
  /\ IF ~Allocated(cpe[s])
     THEN proc' = "ub" /\ UNCHANGED chk
     ELSE chk' = [chk EXCEPT ![s] = "sleep"] /\ UNCHANGED proc
  /\ cpe' = [cpe EXCEPT ![s] = NoSession]
  /\ UNCHANGED <<tabVars, peerVars, rcvVars, last, taskVars, netVars>>

\* pe->timestamp == last_timestamp, under the mutex taken anew
CheckCompare(s) ==
  /\ Up /\ chk[s] = "found" /\ MutexFree
  /\ IF ~Allocated(cpe[s])
     THEN proc' = "ub" /\ UNCHANGED <<cancel, chk, last>>
     ELSE /\ UNCHANGED proc
          /\ IF last[s] = cpe[s]
             THEN /\ chk' = [chk EXCEPT ![s] = "exit"] /\ Cancel(s)
                  /\ last' = [last EXCEPT ![s] = NoSession]
             ELSE /\ chk' = [chk EXCEPT ![s] = "sleep"] /\ UNCHANGED cancel
                  /\ last' = [last EXCEPT ![s] = cpe[s]]
  /\ cpe' = [cpe EXCEPT ![s] = NoSession]
  /\ UNCHANGED <<tabVars, peerVars, conn, rpc, cip, cfe, ctab, taskVars, netVars>>

-----------------------------------------------------------------------------
(* The threads of the packets.                                             *)

te(k) == pkt[k].tft[ti[k]]

\* a thread ends; its locals no longer matter
Finished(k) ==
  /\ tpc' = [tpc EXCEPT ![k] = "done"]
  /\ ti' = [ti EXCEPT ![k] = 0]
  /\ tout' = [tout EXCEPT ![k] = << >>]

GoTo(k, pc) == tpc' = [tpc EXCEPT ![k] = pc]

\* a thread uses an entry that was freed
UsesFreed == proc' = "ub" /\ UNCHANGED <<tabVars, taskVars>>

\* peer_register_handler_task: send ACCEPT; a send that fails ends the thread
RegisterAccept(k) ==
  LET fd   == pkt[k].conn
      open == {s \in Session : conn[s] = fd}
  IN  /\ Up /\ tpc[k] = "accept"
      /\ SendAll(<<fd>>, [type |-> "TRACKER_ACCEPT", tft |-> << >>])
      /\ \/ open # {} /\ GoTo(k, "add")
         \/ (\A s \in open : gone[s]) /\ GoTo(k, "done")
      /\ UNCHANGED <<tabVars, peerVars, rcvVars, chkVars, ti, tpe, tout, pkt, gone>>

\* mutant: pe->conn keeps the 0 of calloc
RegisterAddNoConn(k) ==
  LET s == pkt[k].sess
  IN  /\ Up /\ tpc[k] = "add" /\ MutexFree
      /\ pt' = <<[sess |-> s, conn |-> 0]>> \o pt
      /\ chk' = [chk EXCEPT ![s] = "sleep"]
      /\ GoTo(k, "done")
      /\ UNCHANGED <<tabVars, ptMutex, rcvVars, cpe, last, ti, tpe, tout, netVars, proc>>

\* peer_table_add, and the thread that watches the peer
RegisterAdd(k) ==
  LET s == pkt[k].sess
  IN  /\ Up /\ tpc[k] = "add" /\ MutexFree
      /\ pt' = <<[sess |-> s, conn |-> pkt[k].conn]>> \o pt
      /\ chk' = [chk EXCEPT ![s] = "sleep"]
      /\ GoTo(k, "done")
      /\ UNCHANGED <<tabVars, ptMutex, rcvVars, cpe, last, ti, tpe, tout, netVars, proc>>

\* peer_life_update_task: find the entry of the address ...
AliveFind(k) ==
  /\ Up /\ tpc[k] = "find" /\ MutexFree
  /\ \E pe \in Session \cup {NoSession} :
       /\ peer_table_find(IpOf[pkt[k].sess], pe)
       /\ tpe' = [tpe EXCEPT ![k] = pe]
       /\ GoTo(k, IF pe = NoSession THEN "done" ELSE "beat")
  /\ UNCHANGED <<tabVars, peerVars, rcvVars, chkVars, ti, tout, netVars, proc>>

\* ... and move its timestamp on, which no checker has seen yet
AliveBeat(k) ==
  /\ Up /\ tpc[k] = "beat" /\ MutexFree
  /\ IF Allocated(tpe[k])
     THEN /\ last' = [s \in Session |-> IF last[s] = tpe[k] THEN NoSession ELSE last[s]]
          /\ UNCHANGED proc
     ELSE proc' = "ub" /\ UNCHANGED last
  /\ tpe' = [tpe EXCEPT ![k] = NoSession]
  /\ GoTo(k, "done")
  /\ UNCHANGED <<tabVars, peerVars, rcvVars, chk, cpe, ti, tout, netVars>>

\* sync_task walks the buckets without the mutex, fe being the cursor
SyncScan(k) ==
  LET rest == {f \in DOMAIN ft : f > ti[k]}
      tft  == pkt[k].tft
      Known(f) == {i \in DOMAIN tft : tft[i].name = f}
      Differs(f, e) == \/ ft[f].timestamp > e.timestamp
                       \/ ft[f].timestamp = e.timestamp /\ ~has_same_owners(ft[f], e)
  IN  /\ Up /\ tpc[k] = "scan"
      /\ IF tfe[k] = Freed THEN UsesFreed
         ELSE /\ UNCHANGED <<ft, tpe, proc>>
              /\ \/ /\ rest = {}
                    /\ GoTo(k, "reply")
                    /\ tfe' = [tfe EXCEPT ![k] = NoFile]
                    /\ UNCHANGED <<ti, tout>>
                 \/ \E f \in rest :
                      /\ \A g \in rest : f <= g
                      /\ tfe' = [tfe EXCEPT ![k] = f]
                      /\ ti' = [ti EXCEPT ![k] = f]
                      /\ tout' = [tout EXCEPT ![k] = @ \o
                           IF Known(f) = {}
                           THEN <<trans_entry_fill_from(ft, f, FILE_ADD)>>
                           ELSE IF \E i \in Known(f) : (\A j \in Known(f) : i <= j)
                                                       /\ Differs(f, tft[i])
                           THEN <<trans_entry_fill_from(ft, f, FILE_MODIFY)>>
                           ELSE << >>]
                      /\ UNCHANGED tpc
      /\ UNCHANGED <<peerVars, rcvVars, chkVars, netVars>>

SyncReply(k) ==
  /\ Up /\ tpc[k] = "reply"
  /\ SendAll(<<pkt[k].conn>>, [type |-> "TRACKER_SYNC", tft |-> tout[k]])
  /\ GoTo(k, "look")
  /\ ti' = [ti EXCEPT ![k] = 1]
  /\ tout' = [tout EXCEPT ![k] = << >>]
  /\ UNCHANGED <<tabVars, peerVars, rcvVars, chkVars, tpe, pkt, gone>>

\* file_table_find for the next entry of the peer's table
SyncLook(k) ==
  /\ Up /\ tpc[k] = "look" /\ ti[k] <= Len(pkt[k].tft) /\ TableFree
  /\ tfe' = [tfe EXCEPT ![k] = IF te(k).name \in DOMAIN ft THEN te(k).name ELSE NoFile]
  /\ GoTo(k, IF te(k).name \in DOMAIN ft THEN "judge" ELSE "absent")
  /\ UNCHANGED <<ft, peerVars, rcvVars, chkVars, ti, tpe, tout, netVars, proc>>

\* the comparison of fe->timestamp with te->timestamp, outside any lock
SyncJudge(k) ==
  /\ Up /\ tpc[k] = "judge"
  /\ IF tfe[k] = Freed THEN UsesFreed
     ELSE /\ GoTo(k, IF ft[tfe[k]].timestamp < te(k).timestamp THEN "newer" ELSE "older")
          /\ tfe' = [tfe EXCEPT ![k] = NoFile]
          /\ UNCHANGED <<ft, ti, tpe, tout, proc>>
  /\ UNCHANGED <<peerVars, rcvVars, chkVars, netVars>>

\* file_table_add or file_table_update, and the entry to broadcast
SyncApply(k) ==
  LET entry(op) == <<[te(k) EXCEPT !.op = op]>>
  IN  /\ Up /\ TableFree
      /\ \/ /\ tpc[k] = "absent"
            /\ ft' = file_table_add(ft, te(k))
            /\ tout' = [tout EXCEPT ![k] = @ \o entry(FILE_ADD)]
         \/ /\ tpc[k] = "newer"
            /\ ft' = file_table_update(ft, te(k))
            /\ tout' = [tout EXCEPT ![k] = @ \o entry(FILE_MODIFY)]
         \/ /\ tpc[k] = "older"
            /\ ft' = file_table_update(ft, te(k))
            /\ UNCHANGED tout
      /\ GoTo(k, "look")
      /\ ti' = [ti EXCEPT ![k] = @ + 1]
      /\ UNCHANGED <<tfe, peerVars, rcvVars, chkVars, tpe, netVars, proc>>

SyncBroadcast(k) ==
  /\ Up /\ tpc[k] = "look" /\ ti[k] > Len(pkt[k].tft)
  /\ broadcast_update(tout[k], pkt[k].conn)
  /\ Finished(k)
  /\ UNCHANGED <<tabVars, peerVars, rcvVars, chkVars, tpe, pkt, gone>>

\* peer_file_update_task: the switch on the next entry's op_type
UpdateEntry(k) ==
  LET known == te(k).name \in DOMAIN ft
      skip  == UNCHANGED tpc /\ ti' = [ti EXCEPT ![k] = @ + 1]
  IN  /\ Up /\ tpc[k] = "entry" /\ ti[k] <= Len(pkt[k].tft)
      /\ te(k).op # FILE_NONE => TableFree
      /\ \/ /\ te(k).op = FILE_ADD
            /\ ft' = file_table_add(ft, te(k))
            /\ tfe' = [tfe EXCEPT ![k] = te(k).name]
            /\ GoTo(k, "fillAdd") /\ UNCHANGED <<ti, tout>>
         \/ /\ te(k).op = FILE_DELETE /\ known
            /\ ft' = file_table_delete(ft, te(k).name)
            /\ Dangle(te(k).name)
            /\ tout' = [tout EXCEPT ![k] = @ \o <<te(k)>>]
            /\ skip
         \/ /\ te(k).op = FILE_DELETE /\ ~known
            /\ skip /\ UNCHANGED <<ft, tfe, tout>>
         \/ /\ te(k).op = FILE_MODIFY
            /\ tfe' = [tfe EXCEPT ![k] = IF known THEN te(k).name ELSE NoFile]
            /\ GoTo(k, IF known THEN "modify" ELSE "insert")
            /\ UNCHANGED <<ft, ti, tout>>
         \/ /\ te(k).op = FILE_NONE
            /\ skip /\ UNCHANGED <<ft, tfe, tout>>
      /\ UNCHANGED <<peerVars, rcvVars, chkVars, tpe, netVars, proc>>

\* FILE_MODIFY of a file that was not found: file_table_add, but fe stays NULL,
\* so that the entry appended for the broadcast stays as bzero left it
UpdateInsert(k) ==
  /\ Up /\ tpc[k] = "insert" /\ TableFree
  /\ ft' = file_table_add(ft, te(k))
  /\ tout' = [tout EXCEPT ![k] =
       @ \o <<[op |-> FILE_ADD, name |-> NoFile, timestamp |-> 0, owners |-> {}]>>]
  /\ GoTo(k, "entry")
  /\ ti' = [ti EXCEPT ![k] = @ + 1]
  /\ UNCHANGED <<tfe, peerVars, rcvVars, chkVars, tpe, netVars, proc>>

\* file_entry_update on the entry found before.  While it replaces the owners
\* the list is empty for a moment, and file_table_delete_owner, which tests for
\* that without the entry's lock, may free the entry
UpdateModify(k) ==
  /\ Up /\ tpc[k] = "modify"
  /\ \/ tfe[k] = Freed /\ UsesFreed
     \/ /\ tfe[k] # Freed /\ Stripped(tfe[k])
        /\ te(k).timestamp > ft[tfe[k]].timestamp
        /\ UsesFreed
     \/ /\ tfe[k] # Freed
        /\ ft' = [ft EXCEPT ![tfe[k]] = file_entry_update(@, te(k))]
        /\ GoTo(k, "fillModify")
        /\ UNCHANGED <<tfe, ti, tpe, tout, proc>>
  /\ UNCHANGED <<peerVars, rcvVars, chkVars, netVars>>

\* trans_entry_fill_from: what the entry holds by now
UpdateFill(k) ==
  /\ Up /\ tpc[k] \in {"fillAdd", "fillModify"}
  /\ IF tfe[k] = Freed THEN UsesFreed
     ELSE /\ tout' = [tout EXCEPT ![k] = @ \o <<trans_entry_fill_from(ft, tfe[k],
                        IF tpc[k] = "fillAdd" THEN FILE_ADD ELSE FILE_MODIFY)>>]
          /\ tfe' = [tfe EXCEPT ![k] = NoFile]
          /\ GoTo(k, "entry")
          /\ ti' = [ti EXCEPT ![k] = @ + 1]
          /\ UNCHANGED <<ft, tpe, proc>>
  /\ UNCHANGED <<peerVars, rcvVars, chkVars, netVars>>

UpdateBroadcast(k) ==
  /\ Up /\ tpc[k] = "entry" /\ ti[k] > Len(pkt[k].tft)
  /\ broadcast_update(tout[k], pkt[k].conn)
  /\ Finished(k)
  /\ UNCHANGED <<tabVars, peerVars, rcvVars, chkVars, tpe, pkt, gone>>

-----------------------------------------------------------------------------
ReceiverStep(s) ==
  \/ RecvEnds(s) \/ RecvCancelled(s)
  \/ CleanupDelete(s) \/ CleanupStrip(s) \/ CleanupDrop(s) \/ CleanupFill(s) \/ CleanupLock(s)
  \/ CleanupSend(s) \/ CleanupSendDies(s) \/ CleanupClose(s)

CheckStep(s) == CheckFind(s) \/ CheckCompare(s)

TaskStep(k) ==
  \/ RegisterAccept(k) \/ RegisterAdd(k)
  \/ AliveFind(k) \/ AliveBeat(k)
  \/ SyncScan(k) \/ SyncReply(k) \/ SyncLook(k) \/ SyncJudge(k) \/ SyncApply(k)
  \/ SyncBroadcast(k)
  \/ UpdateEntry(k) \/ UpdateInsert(k) \/ UpdateModify(k) \/ UpdateFill(k)
  \/ UpdateBroadcast(k)

Next ==
  \/ \E s \in Session : \/ Accept(s) \/ Receive(s) \/ PeerCloses(s)
                        \/ ReceiverStep(s) \/ CheckStep(s)
  \/ \E k \in TaskId : TaskStep(k)

Spec == Init /\ [][Next]_vars

\* Threads are scheduled, a mutex that is free is eventually taken, and a peer
\* that has not closed reads what it is sent.  Peers need do nothing else.
Fairness ==
  /\ \A s \in Session : /\ WF_vars(ReceiverStep(s))
                        /\ WF_vars(CheckStep(s))
  /\ \A k \in TaskId : WF_vars(TaskStep(k))

FairSpec == Spec /\ Fairness
-----------------------------------------------------------------------------
(* Properties.                                                             *)

Ip == {IpOf[s] : s \in Session}
FileEntry  == [timestamp : Nat, owners : SUBSET Ip]
TransEntry == [op : OpType, name : Name \cup {NoFile}, timestamp : Nat,
               owners : SUBSET Ip]
PeerEntry == [sess : Session, conn : Fd]
ReceivedPacket == [type : PacketType, sess : Session, conn : Fd, tft : Seq(TransEntry)]
Message == [type : {"TRACKER_ACCEPT", "TRACKER_SYNC", "TRACKER_BROADCAST"},
            tft : Seq(TransEntry)]

\* The shared tables, the threads' program counters and locals, and the
\* messages have the types declared in include/file_table.h and packet.h.
TypeOK ==
  /\ DOMAIN ft \subseteq Name /\ \A f \in DOMAIN ft : ft[f] \in FileEntry
  /\ pt \in Seq(PeerEntry)
  /\ ptMutex \in Session \cup {NoSession}
  /\ conn \in [Session -> Fd \cup {0}]
  /\ rpc \in [Session -> ReceiverPc]
  /\ cancel \in [Session -> {"no", "pending", "acting"}]
  /\ cip \in [Session -> Ip \cup {NoIp}]
  /\ cfe \in [Session -> Name \cup {NoFile}]
  /\ ctab \in [Session -> Seq(TransEntry)]
  /\ chk \in [Session -> {"none", "sleep", "found", "exit"}]
  /\ cpe \in [Session -> Session \cup {NoSession}]
  /\ last \in [Session -> Session \cup {NoSession}]
  /\ pkt \in Seq(ReceivedPacket)
  /\ Len(pkt) <= MaxPkt
  /\ tpc \in [TaskId -> TaskPc]
  /\ ti \in [TaskId -> Nat]
  /\ tfe \in [TaskId -> Name \cup {NoFile, Freed}]
  /\ tpe \in [TaskId -> Session \cup {NoSession}]
  /\ tout \in [TaskId -> Seq(TransEntry)]
  /\ toPeer \in [Session -> Seq(Message)]
  /\ gone \in [Session -> BOOLEAN]
  /\ proc \in {"up", "killed", "ub"}

\* the peer at ip has told the tracker that it holds f as of time
Announced(f, time, ip) ==
  \E k \in DOMAIN pkt : \E i \in DOMAIN pkt[k].tft :
    /\ IpOf[pkt[k].sess] = ip
    /\ pkt[k].tft[i].name = f /\ pkt[k].tft[i].timestamp = time
    /\ pkt[k].tft[i].op # FILE_DELETE

\* An entry of the tracker's table has an owner to download from, except while
\* file_table_delete_owner is about to test its list, and each of its owners
\* announced exactly the version the entry has: replacing, merging and removing
\* owners never credits a peer with a version it did not report, however the
\* threads of the packets and the cleanups interleave.
OwnersAnnounced ==
  \A f \in DOMAIN ft :
    /\ ft[f].owners # {} \/ Stripped(f)
    /\ \A ip \in ft[f].owners : Announced(f, ft[f].timestamp, ip)

\* What peers are told is true in the same sense: an entry that names a file, in
\* a TRACKER_SYNC or a broadcast, lists only owners that announced that version.
\* The entries are filled in after the table's mutex is released, when the table
\* may have changed again.
SentTruthful ==
  \A s \in Session : \A m \in DOMAIN toPeer[s] : \A i \in DOMAIN toPeer[s][m].tft :
    LET e == toPeer[s][m].tft[i]
    IN  e.op # FILE_DELETE /\ e.name # NoFile =>
          \A ip \in e.owners : Announced(e.name, e.timestamp, ip)

\* While an entry stays in the table its timestamp never goes back, although
\* sync_task and peer_file_update_task decide on values read without a lock.
TimestampsAdvance ==
  [][\A f \in DOMAIN ft \cap DOMAIN ft' : ft'[f].timestamp >= ft[f].timestamp]_vars

\* pt.mutex is left locked by a thread that no longer runs
Orphaned == ptMutex # NoSession /\ rpc[ptMutex] = "dead"

\* Every packet's thread ends, and a receiver whose peer has closed ends, unless
\* the process goes down or pt.mutex is orphaned: no thread waits for another
\* in a circle.
ThreadsEnd ==
  /\ \A k \in TaskId :
       tpc[k] \notin {"idle", "done"} ~> tpc[k] = "done" \/ proc # "up" \/ Orphaned
  /\ \A s \in Session :
       rpc[s] # "none" /\ gone[s] ~> rpc[s] \in {"done", "dead"} \/ proc # "up" \/ Orphaned

\* A watched peer that stops sending keep-alives is given up, and then the
\* tracker ends its receiver and with it the connection ("if the peer is dead,
\* terminates the receiver_handler task for this peer"), even when keep-alives,
\* the peer's own closing and the checks race.
DeadPeerEnds ==
  \A s \in Watched :
    chk[s] = "sleep" ~> rpc[s] \in {"done", "dead"} \/ proc # "up" \/ Orphaned

\* sync_task: "send updated file table back to the peer".  A TRACKER_SYNC reaches
\* only a connection whose peer sent a PEER_SYNC.
SyncGoesToSender ==
  \A s \in Session : \A m \in DOMAIN toPeer[s] :
    toPeer[s][m].type = "TRACKER_SYNC" =>
      \E k \in DOMAIN pkt : pkt[k].sess = s /\ pkt[k].type = "PEER_SYNC"

\* peer_check_alive_task: "checks every INTERVAL time to see if a peer is still
\* alive"; a watched session's check is never put off for ever.
PeerChecked ==
  \A s \in Watched : chk[s] = "sleep" ~> chk[s] # "sleep" \/ proc # "up"

\* peer_table_find: "only one device for each ip"
OneEntryPerIp ==
  \A i, j \in DOMAIN pt : IpOf[pt[i].sess] = IpOf[pt[j].sess] => i = j

\* peer_file_update_task: "'%s' not exists, conflict!", after which the file is
\* added and broadcast as a FILE_ADD.  An entry of a broadcast names a file.
BroadcastNamesFile ==
  \A s \in Session : \A m \in DOMAIN toPeer[s] : \A i \in DOMAIN toPeer[s][m].tft :
    toPeer[s][m].tft[i].name # NoFile

\* peer_file_update_task: "if updated, broadcast the entire file tabel to all
\* peers alive".  Once every thread has ended, a peer that is connected and has
\* synchronised was told, or itself told, of the version of every file.
EveryPeerTold ==
  (\A k \in DOMAIN pkt : tpc[k] = "done") =>
    \A s \in Session, f \in DOMAIN ft :
      rpc[s] = "recv" /\ ~gone[s]
      /\ (\E k \in DOMAIN pkt : pkt[k].sess = s /\ pkt[k].type = "PEER_SYNC") =>
        \/ Announced(f, ft[f].timestamp, IpOf[s])
        \/ \E m \in DOMAIN toPeer[s] : \E i \in DOMAIN toPeer[s][m].tft :
             /\ toPeer[s][m].tft[i].name = f
             /\ toPeer[s][m].tft[i].timestamp = ft[f].timestamp
=============================================================================
