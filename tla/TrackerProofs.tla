--------------------------- MODULE TrackerProofs ----------------------------
(***************************************************************************)
(* Proofs about Tracker for any number of connections, files and packets.  *)
(* TypeOK, OwnersAnnounced and SentTruthful are not inductive by           *)
(* themselves: a packet's thread applies an entry long after it looked at  *)
(* it, so the invariant also says what each thread's locals are at each    *)
(* program counter (Locals), that a packet speaks for its sender only      *)
(* (Sender), and that the tables being built are as true as the sent ones. *)
(* The proofs take in turn: the types; what a step of a packet's thread    *)
(* does to the file table and to the table it builds; the threads' locals; *)
(* the owners in the tables and in the messages; and the theorems.         *)
(***************************************************************************)
EXTENDS Tracker, FiniteSetTheorems, SequenceTheorems, TLAPS

SyncPc  == {"scan", "reply", "look", "judge", "absent", "newer", "older"}
ApplyPc == {"judge", "absent", "newer", "older", "insert", "modify", "fillAdd", "fillModify"}
HoldPc  == {"judge", "modify", "fillAdd", "fillModify"}

Locals ==
  /\ \A s \in Session : rpc[s] \notin {"none", "done"} => conn[s] # 0
  /\ \A k \in TaskId :
       /\ tpc[k] # "idle" => k \in DOMAIN pkt
       /\ tfe[k] \notin {NoFile, Freed} => tfe[k] \in DOMAIN ft
       /\ tpc[k] \in HoldPc => tfe[k] \in {te(k).name, Freed}
       /\ tpc[k] \in SyncPc => pkt[k].type = "PEER_SYNC"
       /\ tpc[k] \in {"look", "entry"} => ti[k] >= 1
       /\ tpc[k] \in ApplyPc => ti[k] \in DOMAIN pkt[k].tft /\ te(k).op # FILE_DELETE

Sender ==
  \A k \in DOMAIN pkt : \A i \in DOMAIN pkt[k].tft :
    /\ pkt[k].tft[i].name \in Name /\ pkt[k].tft[i].owners = {IpOf[pkt[k].sess]}
    /\ pkt[k].type = "PEER_SYNC" => pkt[k].tft[i].op = FILE_NONE

\* what an entry claims about its owners
TrueEntry(e) ==
  e.op # FILE_DELETE /\ e.name # NoFile =>
    \A ip \in e.owners : Announced(e.name, e.timestamp, ip)
TrueTable(tft) == \A i \in DOMAIN tft : TrueEntry(tft[i])

Building == /\ \A k \in TaskId : TrueTable(tout[k])
            /\ \A s \in Session : TrueTable(ctab[s])

IInv == TypeOK /\ Locals /\ Sender /\ OwnersAnnounced /\ Building /\ SentTruthful

-----------------------------------------------------------------------------
(* Operators of the file table.                                            *)

\* file_table_add keeps the table's type and only touches the entry it names.
LEMMA AddType ==
  ASSUME DOMAIN ft \subseteq Name, \A f \in DOMAIN ft : ft[f] \in FileEntry,
         NEW e \in TransEntry, e.name \in Name
  PROVE  /\ DOMAIN file_table_add(ft, e) \subseteq Name
         /\ DOMAIN ft \subseteq DOMAIN file_table_add(ft, e)
         /\ e.name \in DOMAIN file_table_add(ft, e)
         /\ \A f \in DOMAIN file_table_add(ft, e) : file_table_add(ft, e)[f] \in FileEntry
  BY Zenon DEF file_table_add, file_entry_update, file_entry_fill_from, FileEntry, TransEntry

\* file_table_delete_owner keeps the type of the entries, of which it takes owners
\* away or which it frees, and no thread keeps a pointer to what was freed.
LEMMA DeleteOwner ==
  ASSUME TypeOK, OwnersAnnounced, NEW s \in Session, CleanupStrip(s) \/ CleanupDrop(s)
  PROVE  /\ DOMAIN ft' \subseteq DOMAIN ft
         /\ \A f \in DOMAIN ft' :
              /\ ft'[f] \in FileEntry /\ ft'[f].timestamp = ft[f].timestamp
              /\ ft'[f].owners \subseteq ft[f].owners
              /\ ft'[f].owners # {} \/ Stripped(f)'
         /\ tfe' \in [TaskId -> Name \cup {NoFile, Freed}]
         /\ \A k \in TaskId :
              \/ tfe'[k] = Freed
              \/ tfe'[k] = tfe[k] /\ (tfe[k] \in DOMAIN ft => tfe[k] \in DOMAIN ft')
  <1>0. /\ \A f \in DOMAIN ft : ft[f] \in FileEntry /\ (ft[f].owners # {} \/ Stripped(f))
        /\ tfe \in [TaskId -> Name \cup {NoFile, Freed}]
        /\ rpc \in [Session -> ReceiverPc] /\ cfe \in [Session -> Name \cup {NoFile}]
    BY Zenon DEF TypeOK, OwnersAnnounced
  <1>1. CASE CleanupStrip(s)
    <2>1. tfe' = tfe /\ rpc[s] # "drop"
      BY <1>1, Zenon DEF CleanupStrip
    <2>2. CASE ft' = ft /\ rpc' = [rpc EXCEPT ![s] = "fill"]
               /\ cfe' = [cfe EXCEPT ![s] = NoFile]
      <3>1. \A f \in DOMAIN ft : Stripped(f) => Stripped(f)'
        BY <1>0, <2>1, <2>2, Zenon DEF Stripped
      <3> QED BY <1>0, <2>1, <2>2, <3>1, Zenon
    <2>3. ASSUME NEW g \in DOMAIN ft, ft' = file_entry_strip(ft, g, cip[s]),
                 rpc' = [rpc EXCEPT ![s] = "drop"], cfe' = [cfe EXCEPT ![s] = g]
          PROVE  /\ DOMAIN ft' = DOMAIN ft
                 /\ \A f \in DOMAIN ft' :
                      /\ ft'[f] \in FileEntry /\ ft'[f].timestamp = ft[f].timestamp
                      /\ ft'[f].owners \subseteq ft[f].owners
                      /\ ft'[f].owners # {} \/ Stripped(f)'
      <3>1. Stripped(g)' /\ \A f \in DOMAIN ft : Stripped(f) => Stripped(f)'
        BY <1>0, <2>1, <2>3, Zenon DEF Stripped
      <3>2. DOMAIN ft' = DOMAIN ft /\ \A f \in DOMAIN ft : f # g => ft'[f] = ft[f]
        BY <2>3, Zenon DEF file_entry_strip
      <3>3. ft'[g] = [ft[g] EXCEPT !.owners = @ \ {cip[s]}]
        BY <2>3, Zenon DEF file_entry_strip
      <3>4. ft'[g] \in FileEntry /\ ft'[g].timestamp = ft[g].timestamp
            /\ ft'[g].owners \subseteq ft[g].owners
        BY <1>0, <3>3, Zenon DEF FileEntry
      <3> QED BY <1>0, <3>1, <3>2, <3>4, Zenon
    <2> QED BY <1>0, <1>1, <2>1, <2>2, <2>3, Zenon DEF CleanupStrip
  <1>2. CASE CleanupDrop(s)
    <2> DEFINE g == cfe[s]
    <2>1. /\ rpc' = [rpc EXCEPT ![s] = "strip"] /\ cfe' = cfe
          /\ \/ ft' = file_table_delete(ft, g) /\ Dangle(g)
             \/ ft' = ft /\ tfe' = tfe /\ ft[g].owners # {}
      BY <1>2, Zenon DEF CleanupDrop, tabVars
    <2>2. \A f \in DOMAIN ft : f # g /\ Stripped(f) => Stripped(f)'
      BY <1>0, <2>1, Zenon DEF Stripped
    <2>3. /\ DOMAIN ft' \subseteq DOMAIN ft
          /\ \A f \in DOMAIN ft' : ft'[f] = ft[f] /\ (f = g => ft[f].owners # {})
      BY <2>1, Zenon DEF file_table_delete
    <2>4. /\ tfe' \in [TaskId -> Name \cup {NoFile, Freed}]
          /\ \A k \in TaskId :
               \/ tfe'[k] = Freed
               \/ tfe'[k] = tfe[k] /\ (tfe[k] \in DOMAIN ft => tfe[k] \in DOMAIN ft')
      BY <1>0, <2>1, Zenon DEF file_table_delete, Dangle
    <2> HIDE DEF g
    <2> QED BY <1>0, <2>2, <2>3, <2>4, Zenon
  <1> QED BY <1>1, <1>2, Zenon

\* file_table_update keeps the table's names and type.
LEMMA UpdateType ==
  ASSUME DOMAIN ft \subseteq Name, \A f \in DOMAIN ft : ft[f] \in FileEntry,
         NEW e \in TransEntry
  PROVE  /\ DOMAIN file_table_update(ft, e) = DOMAIN ft
         /\ \A f \in DOMAIN ft : file_table_update(ft, e)[f] \in FileEntry
  BY Zenon DEF file_table_update, file_entry_update, FileEntry, TransEntry

\* An entry updated by an announcement of its sender lists owners that announced it.
LEMMA UpdateTrue ==
  ASSUME NEW f, NEW fe \in FileEntry, NEW e \in TransEntry, e.name = f, e.owners # {},
         \A ip \in e.owners : Announced(f, e.timestamp, ip),
         \A ip \in fe.owners : Announced(f, fe.timestamp, ip)
  PROVE  LET new == file_entry_update(fe, e)
         IN  /\ new \in FileEntry
             /\ fe.owners # {} => new.owners # {}
             /\ new.timestamp >= fe.timestamp
             /\ \A ip \in new.owners : Announced(f, new.timestamp, ip)
  BY DEF file_entry_update, FileEntry, TransEntry

\* A packet received has the type of one, and so has each of its entries.
LEMMA PacketTypes ==
  ASSUME TypeOK, NEW k \in DOMAIN pkt
  PROVE  /\ pkt[k].type \in PacketType /\ pkt[k].sess \in Session /\ pkt[k].conn \in Fd
         /\ pkt[k].tft \in Seq(TransEntry)
         /\ \A i \in DOMAIN pkt[k].tft : pkt[k].tft[i] \in TransEntry
  <1>1. pkt \in Seq(ReceivedPacket)
    BY Zenon DEF TypeOK
  <1>2. pkt[k] \in ReceivedPacket
    BY <1>1
  <1>3. pkt[k].type \in PacketType /\ pkt[k].sess \in Session /\ pkt[k].conn \in Fd
        /\ pkt[k].tft \in Seq(TransEntry)
    BY <1>2, Zenon DEF ReceivedPacket
  <1> QED BY <1>3

\* The entry of a packet that a thread applies was announced by its sender.
LEMMA AppliedTrue ==
  ASSUME TypeOK, Locals, Sender, NEW k \in TaskId, tpc[k] \in ApplyPc
  PROVE  /\ k \in DOMAIN pkt /\ te(k) \in TransEntry
         /\ te(k).name \in Name /\ te(k).owners # {}
         /\ \A ip \in te(k).owners : Announced(te(k).name, te(k).timestamp, ip)
  <1>1. k \in DOMAIN pkt /\ ti[k] \in DOMAIN pkt[k].tft /\ te(k).op # FILE_DELETE
    BY Zenon DEF Locals, ApplyPc
  <1>2. te(k) \in TransEntry
    BY <1>1, PacketTypes, Zenon DEF te
  <1>3. te(k).owners = {IpOf[pkt[k].sess]} /\ te(k).name \in Name
    BY <1>1, Zenon DEF Sender, te
  <1> QED BY <1>1, <1>2, <1>3, Zenon DEF Announced, te

\* So was the entry the switch of peer_file_update_task looks at, unless it is a
\* deletion.
LEMMA EntryTrue ==
  ASSUME TypeOK, Locals, Sender, NEW k \in TaskId, tpc[k] \in {"look", "entry"},
         ti[k] <= Len(pkt[k].tft)
  PROVE  /\ k \in DOMAIN pkt /\ ti[k] \in DOMAIN pkt[k].tft /\ te(k) \in TransEntry
         /\ te(k).name \in Name /\ te(k).owners # {}
         /\ pkt[k].type = "PEER_SYNC" => te(k).op # FILE_DELETE
         /\ te(k).op # FILE_DELETE =>
              \A ip \in te(k).owners : Announced(te(k).name, te(k).timestamp, ip)
  <1>1. k \in DOMAIN pkt /\ ti[k] >= 1 /\ ti[k] \in Nat
    BY Zenon DEF Locals, TypeOK
  <1>2. ti[k] \in DOMAIN pkt[k].tft
    BY <1>1, PacketTypes
  <1>3. te(k) \in TransEntry
    BY <1>1, <1>2, PacketTypes, Zenon DEF te
  <1>4. te(k).owners = {IpOf[pkt[k].sess]} /\ te(k).name \in Name
        /\ (pkt[k].type = "PEER_SYNC" => te(k).op = FILE_NONE)
    BY <1>1, <1>2, Zenon DEF Sender, te
  <1> QED BY <1>1, <1>2, <1>3, <1>4, Zenon DEF Announced, te, FILE_NONE, FILE_DELETE

\* Announcements are never taken back: pkt only grows.
LEMMA AnnouncedStays ==
  ASSUME \/ pkt' = pkt \/ \E p \in ReceivedPacket : pkt' = Append(pkt, p),
         pkt \in Seq(ReceivedPacket),
         NEW f, NEW time, NEW ip, Announced(f, time, ip)
  PROVE  Announced(f, time, ip)'
  <1>1. \A k \in DOMAIN pkt : k \in DOMAIN pkt' /\ pkt'[k] = pkt[k]
    OBVIOUS
  <1> QED BY <1>1 DEF Announced

-----------------------------------------------------------------------------
(* Sending.                                                                *)

\* SendAll appends copies of a message of the right type.
LEMMA SendAllType ==
  ASSUME toPeer \in [Session -> Seq(Message)], proc = "up",
         NEW fds, IsFiniteSet(DOMAIN fds), NEW msg \in Message, SendAll(fds, msg)
  PROVE  /\ toPeer' \in [Session -> Seq(Message)]
         /\ proc' \in {"up", "killed", "ub"}
         /\ \A s \in Session : \A m \in DOMAIN toPeer'[s] :
              toPeer'[s][m] = msg \/ (m \in DOMAIN toPeer[s] /\ toPeer'[s][m] = toPeer[s][m])
  <1> DEFINE n(s) == Cardinality({j \in DOMAIN fds : fds[j] = conn[s]})
             copies(s) == [i \in 1 .. n(s) |-> msg]
  <1>1. \A s \in Session : n(s) \in Nat
    <2> TAKE s \in Session
    <2>1. IsFiniteSet({j \in DOMAIN fds : fds[j] = conn[s]})
      BY FS_Subset, Zenon
    <2> QED BY <2>1, FS_CardinalityType, Zenon
  <1>2. \A s \in Session : copies(s) \in Seq(Message)
                           /\ \A i \in DOMAIN copies(s) : copies(s)[i] = msg
    BY <1>1
  <1>3. toPeer' = [s \in Session |-> IF conn[s] = 0 \/ gone[s] THEN toPeer[s]
                                     ELSE toPeer[s] \o copies(s)]
    BY Zenon DEF SendAll
  <1>4. proc' \in {"up", "killed", "ub"}
    BY Zenon DEF SendAll
  <1> HIDE DEF copies
  <1>5. ASSUME NEW s \in Session
        PROVE  /\ toPeer'[s] \in Seq(Message)
               /\ \A m \in DOMAIN toPeer'[s] : toPeer'[s][m] = msg
                    \/ (m \in DOMAIN toPeer[s] /\ toPeer'[s][m] = toPeer[s][m])
    <2>1. toPeer[s] \in Seq(Message) /\ copies(s) \in Seq(Message)
          /\ \A i \in DOMAIN copies(s) : copies(s)[i] = msg
      BY <1>2, Zenon
    <2>2. toPeer'[s] = IF conn[s] = 0 \/ gone[s] THEN toPeer[s] ELSE toPeer[s] \o copies(s)
      BY <1>3, Zenon
    <2> QED BY <2>1, <2>2
  <1>6. toPeer' \in [Session -> Seq(Message)]
    BY <1>3, <1>5, Zenon
  <1> QED BY <1>4, <1>5, <1>6, Zenon

\* What broadcast_update sends is a message, to finitely many descriptors.
LEMMA BroadcastType ==
  ASSUME pt \in Seq(PeerEntry), NEW tft \in Seq(TransEntry), NEW fd
  PROVE  Broadcast(tft) \in Message /\ IsFiniteSet(DOMAIN Targets(fd))
  <1>1. IsFiniteSet(1 .. Len(pt))
    BY FS_Interval
  <1>2. DOMAIN Targets(fd) \subseteq 1 .. Len(pt)
    BY DEF Targets
  <1> QED BY <1>1, <1>2, FS_Subset, Zenon DEF Broadcast, Message

\* trans_table_fill_from yields finitely many entries, each true to the table.
LEMMA FillType ==
  ASSUME TypeOK, NEW op \in OpType,
         NEW tft \in [1 .. Cardinality(trans_table_fill_from(ft, op)) ->
                         trans_table_fill_from(ft, op)]
  PROVE  tft \in Seq(TransEntry)
  <1> DEFINE entries == trans_table_fill_from(ft, op)
  <1>1. DOMAIN ft \subseteq Name /\ \A f \in DOMAIN ft : ft[f] \in FileEntry
    BY Zenon DEF TypeOK
  <1>2. IsFiniteSet(DOMAIN ft)
    BY <1>1, NameAssumption, FS_Subset, Zenon
  <1>3. entries = {trans_entry_fill_from(ft, f, op) : f \in DOMAIN ft}
    BY Zenon DEF trans_table_fill_from
  <1>4. IsFiniteSet(entries)
    <2> DEFINE g == [f \in DOMAIN ft |-> trans_entry_fill_from(ft, f, op)]
    <2>1. g \in Surjection(DOMAIN ft, entries)
      BY <1>3, Zenon DEF Surjection
    <2> QED BY <1>2, <2>1, FS_Surjection, Zenon
  <1>5. Cardinality(entries) \in Nat
    BY <1>4, FS_CardinalityType, Zenon
  <1>6. entries \subseteq TransEntry
    BY <1>1, <1>3 DEF trans_entry_fill_from, TransEntry, FileEntry
  <1> HIDE DEF entries
  <1> QED BY <1>5, <1>6 DEF entries

\* A packet at the end of the ones received leaves the others where they are.
LEMMA Appended ==
  ASSUME NEW S, NEW q \in Seq(S), NEW x \in S, NEW t, t = Append(q, x)
  PROVE  /\ Len(q) + 1 \notin DOMAIN q /\ Len(q) + 1 \in DOMAIN t /\ t[Len(q) + 1] = x
         /\ \A k \in DOMAIN q : k \in DOMAIN t /\ t[k] = q[k]
         /\ \A k \in DOMAIN t : (k \in DOMAIN q /\ t[k] = q[k]) \/ t[k] = x
  OBVIOUS

\* Dispatch appends a packet of the right type that speaks for its sender.
LEMMA DispatchType ==
  ASSUME TypeOK, Locals, NEW s \in Session, NEW p \in Packets[s], Dispatch(s, p.type, p.tft)
  PROVE  \E q \in ReceivedPacket :
           /\ pkt' = Append(pkt, q) /\ q.type = p.type
           /\ \A i \in DOMAIN q.tft :
                /\ q.tft[i].name \in Name /\ q.tft[i].owners = {IpOf[q.sess]}
                /\ q.type = "PEER_SYNC" => q.tft[i].op = FILE_NONE
  <1> DEFINE tft == [i \in DOMAIN p.tft |->
                      [op |-> p.tft[i].op, name |-> p.tft[i].name,
                       timestamp |-> p.tft[i].timestamp, owners |-> {IpOf[s]}]]
             q == [type |-> p.type, sess |-> s, conn |-> conn[s], tft |-> tft]
  <1>1. p.type \in PacketType /\ p.tft \in Seq(PacketEntry)
        /\ (p.type = "PEER_SYNC" => \A i \in DOMAIN p.tft : p.tft[i].op = FILE_NONE)
    BY PacketsAssumption, Zenon
  <1>2. \A i \in DOMAIN p.tft : p.tft[i] \in PacketEntry
    BY <1>1
  <1>3. {IpOf[s]} \subseteq Ip
    BY Zenon DEF Ip
  <1>4. \A i \in DOMAIN p.tft : tft[i] \in TransEntry /\ tft[i].name \in Name
    BY <1>2, <1>3, Zenon DEF PacketEntry, TransEntry
  <1>5. tft \in Seq(TransEntry)
    <2>1. Len(p.tft) \in Nat /\ DOMAIN p.tft = 1 .. Len(p.tft)
      BY <1>1
    <2> HIDE DEF tft
    <2>2. DOMAIN tft = 1 .. Len(p.tft)
      BY <2>1, Zenon DEF tft
    <2>3. tft = [i \in 1 .. Len(p.tft) |-> tft[i]]
      BY <2>1, Zenon DEF tft
    <2> QED BY <1>4, <2>1, <2>2, <2>3
  <1>6. conn[s] \in Fd
    BY Zenon DEF TypeOK, Locals, Dispatch
  <1>7. q \in ReceivedPacket
    BY <1>1, <1>5, <1>6, Zenon DEF ReceivedPacket
  <1>8. pkt' = Append(pkt, q)
    BY Zenon DEF Dispatch
  <1> QED BY <1>1, <1>4, <1>7, <1>8, Zenon


-----------------------------------------------------------------------------
(* Type correctness.                                                       *)

\* Init satisfies the invariant.
LEMMA InitIInv == Init => IInv
  <1> SUFFICES ASSUME Init PROVE IInv
    BY Zenon
  <1> USE DEF Init
  <1>1. gone \in [Session -> BOOLEAN]
    BY Zenon
  <1>2. TypeOK
    BY <1>1, MaxPktAssumption DEF TypeOK, ReceiverPc, TaskPc, EmptyTable, NoFile, Freed, TaskId
  <1>3. Locals
    BY Zenon DEF Locals, SyncPc, ApplyPc, HoldPc, NoFile
  <1>4. Sender /\ OwnersAnnounced /\ Building /\ SentTruthful
    BY DEF Sender, OwnersAnnounced, Building, TrueTable, SentTruthful, EmptyTable
  <1> QED BY <1>2, <1>3, <1>4, Zenon DEF IInv

\* Steps of the connections keep the types.
LEMMA ReceiverTypeOK ==
  ASSUME IInv, NEW s \in Session,
         Accept(s) \/ Receive(s) \/ PeerCloses(s) \/ ReceiverStep(s) \/ CheckStep(s)
  PROVE  TypeOK'
  <1> USE DEF vars, tabVars, peerVars, rcvVars, chkVars, taskVars, netVars, ReceiverPc
  <1>0. TypeOK /\ Locals
    BY Zenon DEF IInv
  <1>1. CASE Accept(s)
    BY <1>0, <1>1, SMT DEF TypeOK, Accept
  <1>3. CASE PeerCloses(s)
    <2>1. gone' \in [Session -> BOOLEAN]
      BY <1>0, <1>3, Zenon DEF TypeOK, PeerCloses
    <2> QED BY <1>0, <1>3, <2>1, Zenon DEF TypeOK, PeerCloses
  <1>4. CASE RecvEnds(s)
    BY <1>0, <1>4, Zenon DEF TypeOK, RecvEnds
  <1>5. CASE RecvCancelled(s)
    BY <1>0, <1>5, Zenon DEF TypeOK, RecvCancelled
  <1>6. CASE CleanupDelete(s)
    <2>1. pt' \in Seq(PeerEntry) /\ cip' \in [Session -> Ip \cup {NoIp}]
      <3>1. pt \in Seq(PeerEntry) /\ cip \in [Session -> Ip \cup {NoIp}]
        BY <1>0, Zenon DEF TypeOK
      <3>2. ASSUME NEW i \in DOMAIN pt,
                   pt' = [j \in 1 .. Len(pt) - 1 |-> IF j < i THEN pt[j] ELSE pt[j + 1]],
                   cip' = [cip EXCEPT ![s] = IpOf[pt[i].sess]]
            PROVE  pt' \in Seq(PeerEntry) /\ cip' \in [Session -> Ip \cup {NoIp}]
        <4>1. pt[i] \in PeerEntry
          BY <3>1, SMT
        <4>2. IpOf[pt[i].sess] \in Ip
          BY <4>1, Zenon DEF PeerEntry, Ip
        <4>3. Len(pt) - 1 \in Nat /\ \A j \in 1 .. Len(pt) - 1 : pt'[j] \in PeerEntry
          BY <3>1, <3>2, SMT
        <4> QED BY <3>1, <3>2, <4>2, <4>3, SMT
      <3> QED BY <1>6, <3>1, <3>2, Zenon DEF CleanupDelete
    <2> QED BY <1>0, <1>6, <2>1, Zenon DEF TypeOK, CleanupDelete
  <1>7. CASE CleanupStrip(s) \/ CleanupDrop(s)
    <2>0. OwnersAnnounced
      BY Zenon DEF IInv
    <2>1. DOMAIN ft' \subseteq Name /\ \A f \in DOMAIN ft' : ft'[f] \in FileEntry
      BY <1>0, <1>7, <2>0, DeleteOwner, Zenon DEF TypeOK
    <2>2. tfe' \in [TaskId -> Name \cup {NoFile, Freed}]
      BY <1>0, <1>7, <2>0, DeleteOwner, Zenon
    <2>3. rpc' \in [Session -> ReceiverPc] /\ cip' \in [Session -> Ip \cup {NoIp}]
          /\ cfe' \in [Session -> Name \cup {NoFile}]
      <3>1. /\ rpc \in [Session -> ReceiverPc] /\ cip \in [Session -> Ip \cup {NoIp}]
            /\ cfe \in [Session -> Name \cup {NoFile}] /\ DOMAIN ft \subseteq Name
        BY <1>0, Zenon DEF TypeOK
      <3>2. CASE CleanupDrop(s)
        BY <3>1, <3>2, Zenon DEF CleanupDrop, ReceiverPc
      <3>3. CASE CleanupStrip(s)
        <4>1. rpc' = [rpc EXCEPT ![s] = "fill"] \/ rpc' = [rpc EXCEPT ![s] = "drop"]
          BY <3>3, Zenon DEF CleanupStrip
        <4>2. cip' = cip \/ cip' = [cip EXCEPT ![s] = NoIp]
          BY <3>3, Zenon DEF CleanupStrip
        <4>3. \E f \in Name \cup {NoFile} : cfe' = [cfe EXCEPT ![s] = f]
          BY <3>1, <3>3, Zenon DEF CleanupStrip
        <4> QED BY <3>1, <4>1, <4>2, <4>3, Zenon DEF ReceiverPc
      <3> QED BY <1>7, <3>2, <3>3, Zenon
    <2> QED BY <1>0, <1>7, <2>1, <2>2, <2>3, Zenon DEF TypeOK, CleanupStrip, CleanupDrop
  <1>8. CASE CleanupFill(s)
    <2>1. PICK tft \in [1 .. Cardinality(trans_table_fill_from(ft, FILE_MODIFY)) ->
                           trans_table_fill_from(ft, FILE_MODIFY)] :
                 ctab' = [ctab EXCEPT ![s] = tft]
                 /\ rpc' = [rpc EXCEPT ![s] = IF tft = << >> THEN "close" ELSE "lock"]
      BY <1>8, Zenon DEF CleanupFill
    <2>2. tft \in Seq(TransEntry)
      BY <1>0, FillType, Zenon DEF OpType, FILE_MODIFY
    <2>3. ctab' \in [Session -> Seq(TransEntry)] /\ rpc' \in [Session -> ReceiverPc]
      BY <1>0, <2>1, <2>2, Zenon DEF TypeOK
    <2> QED BY <1>0, <1>8, <2>3, Zenon DEF TypeOK, CleanupFill
  <1>9. CASE CleanupLock(s)
    BY <1>0, <1>9, Zenon DEF TypeOK, CleanupLock
  <1>10. CASE CleanupSend(s)
    <2>1. Broadcast(ctab[s]) \in Message /\ IsFiniteSet(DOMAIN Targets(-1))
      BY <1>0, BroadcastType, Zenon DEF TypeOK
    <2>2. toPeer' \in [Session -> Seq(Message)] /\ proc' \in {"up", "killed", "ub"}
      BY <1>0, <1>10, <2>1, SendAllType, Zenon DEF TypeOK, CleanupSend, Up
    <2>3. ctab' \in [Session -> Seq(TransEntry)] /\ rpc' \in [Session -> ReceiverPc]
          /\ ptMutex' \in Session \cup {NoSession}
      BY <1>0, <1>10, SMT DEF TypeOK, CleanupSend
    <2> QED BY <1>0, <1>10, <2>2, <2>3, Zenon DEF TypeOK, CleanupSend
  <1>11. CASE CleanupSendDies(s)
    <2>1. PICK n \in DOMAIN pt : SendAll([i \in 1 .. n - 1 |-> pt[i].conn], Broadcast(ctab[s]))
      BY <1>11, Zenon DEF CleanupSendDies
    <2>2. Broadcast(ctab[s]) \in Message
      BY <1>0, BroadcastType, Zenon DEF TypeOK
    <2>5. IsFiniteSet(1 .. n - 1)
      BY <1>0, FS_Interval, SMT DEF TypeOK
    <2>3. toPeer' \in [Session -> Seq(Message)] /\ proc' \in {"up", "killed", "ub"}
      BY <1>0, <1>11, <2>1, <2>2, <2>5, SendAllType, Zenon DEF TypeOK, CleanupSendDies, Up
    <2>4. rpc' \in [Session -> ReceiverPc]
      BY <1>0, <1>11, Zenon DEF TypeOK, CleanupSendDies
    <2> QED BY <1>0, <1>11, <2>3, <2>4, Zenon DEF TypeOK, CleanupSendDies
  <1>12. CASE CleanupClose(s)
    BY <1>0, <1>12, Zenon DEF TypeOK, CleanupClose
  <1>13. CASE CheckFind(s)
    <2>1. cpe' \in [Session -> Session \cup {NoSession}]
      BY <1>0, <1>13, Zenon DEF TypeOK, CheckFind
    <2>2. cancel' \in [Session -> {"no", "pending", "acting"}]
          /\ chk' \in [Session -> {"none", "sleep", "found", "exit"}]
      BY <1>0, <1>13, ZenonT(30) DEF TypeOK, CheckFind, Cancel
    <2> QED BY <1>0, <1>13, <2>1, <2>2, Zenon DEF TypeOK, CheckFind
  <1>14. CASE CheckCompare(s)
    <2>0. /\ cpe \in [Session -> Session \cup {NoSession}]
          /\ last \in [Session -> Session \cup {NoSession}]
      BY <1>0, Zenon DEF TypeOK
    <2>1. /\ cpe' \in [Session -> Session \cup {NoSession}]
          /\ last' \in [Session -> Session \cup {NoSession}]
      BY <2>0, <1>14, Zenon DEF CheckCompare
    <2>2. cancel' \in [Session -> {"no", "pending", "acting"}]
          /\ chk' \in [Session -> {"none", "sleep", "found", "exit"}]
      BY <1>0, <1>14, ZenonT(30) DEF TypeOK, CheckCompare, Cancel
    <2>3. proc' \in {"up", "killed", "ub"}
      BY <1>0, <1>14, Zenon DEF TypeOK, CheckCompare
    <2> QED BY <1>0, <1>14, <2>1, <2>2, <2>3, Zenon DEF TypeOK, CheckCompare
  <1>2. CASE Receive(s)
    <2>1. PICK p \in Packets[s] : Dispatch(s, p.type, p.tft)
      BY <1>2, Zenon DEF Receive
    <2>2. PICK q \in ReceivedPacket : pkt' = Append(pkt, q)
      BY <1>0, <2>1, DispatchType, Zenon
    <2>3. pkt' \in Seq(ReceivedPacket) /\ Len(pkt') <= MaxPkt
      <3>1. pkt \in Seq(ReceivedPacket)
        BY <1>0, Zenon DEF TypeOK
      <3>2. Len(pkt) + 1 <= MaxPkt
        BY <2>1, <3>1, MaxPktAssumption, SMTT(30), ZenonT(15) DEF Dispatch, TaskId
      <3> QED BY <2>2, <3>1, <3>2, SMT
    <2>4. tpc' \in [TaskId -> TaskPc] /\ ti' \in [TaskId -> Nat]
      BY <1>0, <2>1, PacketsAssumption, SMT DEF TypeOK, Dispatch, FirstStep, TaskPc, PacketType
    <2> QED BY <1>0, <2>1, <2>3, <2>4, Zenon DEF TypeOK, Dispatch
  <1> QED BY <1>1, <1>2, <1>3, <1>4, <1>5, <1>6, <1>7, <1>8, <1>9, <1>10, <1>11, <1>12,
             <1>13, <1>14, ZenonT(30) DEF ReceiverStep, CheckStep

\* An entry filled in from the table has the type of one, and is as true as it.
LEMMA FillEntry ==
  ASSUME TypeOK, NEW f \in DOMAIN ft, NEW op \in OpType
  PROVE  /\ trans_entry_fill_from(ft, f, op) \in TransEntry
         /\ OwnersAnnounced => TrueEntry(trans_entry_fill_from(ft, f, op))
  <1>1. f \in Name /\ ft[f] \in FileEntry
    BY Zenon DEF TypeOK
  <1>2. trans_entry_fill_from(ft, f, op) \in TransEntry
    BY <1>1, Zenon DEF trans_entry_fill_from, TransEntry, FileEntry
  <1>3. OwnersAnnounced => TrueEntry(trans_entry_fill_from(ft, f, op))
    BY Zenon DEF trans_entry_fill_from, OwnersAnnounced, TrueEntry
  <1> QED BY <1>2, <1>3, Zenon

\* Appending entries to the table a thread builds keeps its type and its truth.
LEMMA Extended ==
  ASSUME tout \in [TaskId -> Seq(TransEntry)], NEW k \in TaskId,
         NEW more \in Seq(TransEntry), tout' = [tout EXCEPT ![k] = @ \o more]
  PROVE  /\ tout' \in [TaskId -> Seq(TransEntry)]
         /\ (\A j \in TaskId : TrueTable(tout[j])) /\ TrueTable(more) =>
              \A j \in TaskId : TrueTable(tout'[j])
  <1>1. tout[k] \in Seq(TransEntry) /\ tout'[k] = tout[k] \o more
    BY Zenon
  <1>2. tout'[k] \in Seq(TransEntry)
    BY <1>1
  <1>3. \A i \in DOMAIN tout'[k] :
           \/ i \in DOMAIN tout[k] /\ tout'[k][i] = tout[k][i]
           \/ \E j \in DOMAIN more : tout'[k][i] = more[j]
    <2> TAKE i \in DOMAIN tout'[k]
    <2>1. CASE i <= Len(tout[k])
      BY <1>1, <2>1
    <2>2. CASE i > Len(tout[k])
      <3>1. i - Len(tout[k]) \in DOMAIN more /\ tout'[k][i] = more[i - Len(tout[k])]
        BY <1>1, <2>2
      <3> QED BY <3>1, Zenon
    <2> QED BY <1>2, <1>1, <2>1, <2>2
  <1>4. \A j \in TaskId : j # k => tout'[j] = tout[j]
    BY Zenon
  <1>5. TrueTable(tout[k]) /\ TrueTable(more) => TrueTable(tout'[k])
    BY <1>3, Zenon DEF TrueTable
  <1> QED BY <1>2, <1>4, <1>5, Zenon

\* What a step may do to the file table and to the tables the threads build
Effect ==
  /\ DOMAIN ft' \subseteq Name
  /\ \A f \in DOMAIN ft' : /\ ft'[f] \in FileEntry /\ (ft'[f].owners # {} \/ Stripped(f))
                           /\ \A ip \in ft'[f].owners : Announced(f, ft'[f].timestamp, ip)
  /\ \A f \in DOMAIN ft \cap DOMAIN ft' : ft'[f].timestamp >= ft[f].timestamp
  /\ tfe' \in [TaskId -> Name \cup {NoFile, Freed}]
  /\ \A j \in TaskId : tfe'[j] \notin {NoFile, Freed} => tfe'[j] \in DOMAIN ft'
  /\ tout' \in [TaskId -> Seq(TransEntry)]
  /\ \A j \in TaskId : TrueTable(tout'[j])

\* Each of Effect's parts holds when the step leaves its variables alone.
LEMMA NoEffect ==
  ASSUME IInv
  PROVE  /\ ft' = ft => /\ DOMAIN ft' \subseteq Name
                        /\ \A f \in DOMAIN ft' :
                             /\ ft'[f] \in FileEntry /\ (ft'[f].owners # {} \/ Stripped(f))
                             /\ \A ip \in ft'[f].owners : Announced(f, ft'[f].timestamp, ip)
                        /\ \A f \in DOMAIN ft \cap DOMAIN ft' : ft'[f].timestamp >= ft[f].timestamp
         /\ tout' = tout => /\ tout' \in [TaskId -> Seq(TransEntry)]
                            /\ \A j \in TaskId : TrueTable(tout'[j])
         /\ tfe' = tfe /\ DOMAIN ft \subseteq DOMAIN ft' =>
              /\ tfe' \in [TaskId -> Name \cup {NoFile, Freed}]
              /\ \A j \in TaskId : tfe'[j] \notin {NoFile, Freed} => tfe'[j] \in DOMAIN ft'
         /\ UNCHANGED <<ft, tfe, tout>> => Effect
  <1>1. TypeOK /\ Locals /\ OwnersAnnounced /\ Building
    BY Zenon DEF IInv
  <1>2. ft' = ft => /\ DOMAIN ft' \subseteq Name
                    /\ \A f \in DOMAIN ft' :
                         /\ ft'[f] \in FileEntry /\ (ft'[f].owners # {} \/ Stripped(f))
                         /\ \A ip \in ft'[f].owners : Announced(f, ft'[f].timestamp, ip)
                    /\ \A f \in DOMAIN ft \cap DOMAIN ft' : ft'[f].timestamp >= ft[f].timestamp
    BY <1>1, ZenonT(15), SMTT(60) DEF TypeOK, OwnersAnnounced, FileEntry
  <1>3. tout' = tout => /\ tout' \in [TaskId -> Seq(TransEntry)]
                        /\ \A j \in TaskId : TrueTable(tout'[j])
    BY <1>1, Zenon DEF TypeOK, Building
  <1>4. tfe' = tfe /\ DOMAIN ft \subseteq DOMAIN ft' =>
          /\ tfe' \in [TaskId -> Name \cup {NoFile, Freed}]
          /\ \A j \in TaskId : tfe'[j] \notin {NoFile, Freed} => tfe'[j] \in DOMAIN ft'
    BY <1>1, Zenon DEF TypeOK, Locals
  <1> QED BY <1>2, <1>3, <1>4, Zenon DEF Effect

\* file_table_add of an announced entry keeps the table true.
LEMMA AddEffect ==
  ASSUME IInv, NEW e \in TransEntry, e.name \in Name, e.owners # {},
         \A ip \in e.owners : Announced(e.name, e.timestamp, ip),
         ft' = file_table_add(ft, e) \/ ft' = file_table_update(ft, e)
  PROVE  /\ DOMAIN ft' \subseteq Name /\ DOMAIN ft \subseteq DOMAIN ft'
         /\ ft' = file_table_add(ft, e) => e.name \in DOMAIN ft'
         /\ \A f \in DOMAIN ft' : /\ ft'[f] \in FileEntry /\ (ft'[f].owners # {} \/ Stripped(f))
                                  /\ \A ip \in ft'[f].owners : Announced(f, ft'[f].timestamp, ip)
         /\ \A f \in DOMAIN ft \cap DOMAIN ft' : ft'[f].timestamp >= ft[f].timestamp
  <1>1. DOMAIN ft \subseteq Name /\ \A f \in DOMAIN ft :
          /\ ft[f] \in FileEntry /\ (ft[f].owners # {} \/ Stripped(f))
          /\ \A ip \in ft[f].owners : Announced(f, ft[f].timestamp, ip)
    BY Zenon DEF IInv, TypeOK, OwnersAnnounced
  <1>2. /\ DOMAIN ft' \subseteq Name /\ DOMAIN ft \subseteq DOMAIN ft'
        /\ ft' = file_table_add(ft, e) => e.name \in DOMAIN ft'
    BY <1>1, Zenon DEF file_table_add, file_table_update
  <1>3. ASSUME NEW f \in DOMAIN ft'
        PROVE  \/ f \in DOMAIN ft /\ ft'[f] = ft[f]
               \/ f = e.name /\ f \in DOMAIN ft /\ ft'[f] = file_entry_update(ft[f], e)
               \/ f = e.name /\ f \notin DOMAIN ft
                  /\ ft'[f] = [timestamp |-> e.timestamp, owners |-> e.owners]
    BY Zenon DEF file_table_add, file_table_update, file_entry_fill_from
  <1>4. ASSUME NEW f \in DOMAIN ft'
        PROVE  /\ ft'[f] \in FileEntry /\ (ft'[f].owners # {} \/ Stripped(f))
               /\ \A ip \in ft'[f].owners : Announced(f, ft'[f].timestamp, ip)
               /\ f \in DOMAIN ft => ft'[f].timestamp >= ft[f].timestamp
    <2>1. CASE f \in DOMAIN ft /\ ft'[f] = ft[f]
      BY <1>1, <2>1 DEF FileEntry
    <2>2. CASE f = e.name /\ f \in DOMAIN ft /\ ft'[f] = file_entry_update(ft[f], e)
      BY <1>1, <2>2, UpdateTrue, Zenon
    <2>3. CASE f = e.name /\ f \notin DOMAIN ft
               /\ ft'[f] = [timestamp |-> e.timestamp, owners |-> e.owners]
      BY <2>3 DEF FileEntry, TransEntry
    <2> QED BY <1>3, <2>1, <2>2, <2>3, Zenon
  <1> QED BY <1>2, <1>4, Zenon

\* A step of a packet's thread has such an effect, and receives no packet.
LEMMA TaskEffect ==
  ASSUME IInv, NEW k \in TaskId, TaskStep(k)
  PROVE  Effect /\ pkt' = pkt
  <1> USE DEF tabVars, peerVars, rcvVars, chkVars, taskVars, netVars, GoTo
  <1>0. /\ TypeOK /\ Locals /\ Sender /\ OwnersAnnounced
        /\ tout \in [TaskId -> Seq(TransEntry)] /\ \A j \in TaskId : TrueTable(tout[j])
        /\ tfe \in [TaskId -> Name \cup {NoFile, Freed}]
    BY Zenon DEF IInv, TypeOK, Building
  <1>1. CASE \/ RegisterAccept(k) \/ RegisterAdd(k) \/ AliveFind(k) \/ AliveBeat(k)
    <2>1. UNCHANGED <<ft, tfe, tout>> /\ pkt' = pkt
      BY <1>1, Zenon DEF RegisterAccept, RegisterAdd, AliveFind, AliveBeat
    <2> QED BY <2>1, NoEffect, Zenon
  <1>2. ASSUME tout' = [tout EXCEPT ![k] = << >>]
        PROVE  tout' \in [TaskId -> Seq(TransEntry)] /\ \A j \in TaskId : TrueTable(tout'[j])
    BY <1>0, <1>2, SMT DEF TrueTable
  <1>3. CASE SyncReply(k) \/ SyncBroadcast(k) \/ UpdateBroadcast(k)
    <2>1. UNCHANGED <<ft, tfe>> /\ pkt' = pkt /\ tout' = [tout EXCEPT ![k] = << >>]
      BY <1>3, Zenon DEF SyncReply, SyncBroadcast, UpdateBroadcast, Finished
    <2> QED BY <1>2, <2>1, NoEffect, Zenon DEF Effect
  <1>4. ASSUME NEW e \in TransEntry, TrueEntry(e), tout' = [tout EXCEPT ![k] = @ \o <<e>>]
        PROVE  tout' \in [TaskId -> Seq(TransEntry)] /\ \A j \in TaskId : TrueTable(tout'[j])
    <2>1. <<e>> \in Seq(TransEntry) /\ TrueTable(<<e>>)
      BY <1>4, SMT DEF TrueTable
    <2> QED BY <1>0, <1>4, <2>1, Extended, Zenon
  <1>5. CASE SyncScan(k)
    <2>1. ft' = ft /\ pkt' = pkt
      BY <1>5, Zenon DEF SyncScan, UsesFreed
    <2>2. \/ UNCHANGED <<tfe, tout>>
          \/ tfe' = [tfe EXCEPT ![k] = NoFile] /\ tout' = tout
          \/ \E f \in DOMAIN ft : tfe' = [tfe EXCEPT ![k] = f] /\
               \/ tout' = [tout EXCEPT ![k] = @ \o <<trans_entry_fill_from(ft, f, FILE_ADD)>>]
               \/ tout' = [tout EXCEPT ![k] = @ \o <<trans_entry_fill_from(ft, f, FILE_MODIFY)>>]
               \/ tout' = [tout EXCEPT ![k] = @ \o << >>]
      BY <1>5, Zenon DEF SyncScan, UsesFreed
    <2>3. FILE_ADD \in OpType /\ FILE_MODIFY \in OpType
      BY Zenon DEF OpType
    <2>4. tout' \in [TaskId -> Seq(TransEntry)] /\ \A j \in TaskId : TrueTable(tout'[j])
      <3>1. CASE tout' = tout
        BY <3>1, NoEffect, Zenon
      <3>2. CASE tout' = [tout EXCEPT ![k] = @ \o << >>]
        <4>1. << >> \in Seq(TransEntry) /\ TrueTable(<< >>)
          BY SMT DEF TrueTable
        <4> QED BY <1>0, <3>2, <4>1, Extended, Zenon
      <3>3. ASSUME NEW f \in DOMAIN ft, NEW op \in OpType,
                   tout' = [tout EXCEPT ![k] = @ \o <<trans_entry_fill_from(ft, f, op)>>]
            PROVE  tout' \in [TaskId -> Seq(TransEntry)] /\ \A j \in TaskId : TrueTable(tout'[j])
        BY <1>0, <1>4, <3>3, FillEntry, Zenon
      <3> QED BY <2>2, <2>3, <3>1, <3>2, <3>3, Zenon
    <2>5. /\ tfe' \in [TaskId -> Name \cup {NoFile, Freed}]
          /\ \A j \in TaskId : tfe'[j] \notin {NoFile, Freed} => tfe'[j] \in DOMAIN ft
      <3>1. DOMAIN ft \subseteq Name
            /\ \A j \in TaskId : tfe[j] \notin {NoFile, Freed} => tfe[j] \in DOMAIN ft
        BY <1>0, Zenon DEF TypeOK, Locals
      <3>2. tfe' = tfe \/ \E f \in DOMAIN ft \cup {NoFile} : tfe' = [tfe EXCEPT ![k] = f]
        BY <2>2, Zenon
      <3> QED BY <1>0, <3>1, <3>2, Zenon
    <2> QED BY <2>1, <2>4, <2>5, NoEffect, Zenon DEF Effect
  <1>6. CASE SyncLook(k) \/ SyncJudge(k)
    <2>1. UNCHANGED <<ft, tout, pkt>>
      BY <1>6, Zenon DEF SyncLook, SyncJudge, UsesFreed
    <2>2. tfe' = tfe \/ \E f \in DOMAIN ft \cup {NoFile} : tfe' = [tfe EXCEPT ![k] = f]
      BY <1>6, Zenon DEF SyncLook, SyncJudge, UsesFreed
    <2>3. DOMAIN ft \subseteq Name
          /\ \A j \in TaskId : tfe[j] \notin {NoFile, Freed} => tfe[j] \in DOMAIN ft
      BY <1>0, Zenon DEF TypeOK, Locals
    <2>4. /\ tfe' \in [TaskId -> Name \cup {NoFile, Freed}]
          /\ \A j \in TaskId : tfe'[j] \notin {NoFile, Freed} => tfe'[j] \in DOMAIN ft
      BY <1>0, <2>2, <2>3, Zenon
    <2> QED BY <2>1, <2>4, NoEffect, Zenon DEF Effect
  <1>12. ASSUME tpc[k] \in ApplyPc
         PROVE  /\ k \in DOMAIN pkt /\ te(k) \in TransEntry
                /\ te(k).name \in Name /\ te(k).owners # {}
                /\ \A ip \in te(k).owners : Announced(te(k).name, te(k).timestamp, ip)
    BY <1>0, <1>12, AppliedTrue, Zenon
  <1>7. CASE SyncApply(k)
    <2>1. /\ tpc[k] \in ApplyPc /\ UNCHANGED <<tfe, pkt>>
          /\ ft' = file_table_add(ft, te(k)) \/ ft' = file_table_update(ft, te(k))
          /\ \/ tout' = tout
             \/ \E op \in OpType : tout' = [tout EXCEPT ![k] = @ \o <<[te(k) EXCEPT !.op = op]>>]
      BY <1>7, Zenon DEF SyncApply, ApplyPc, OpType
    <2>2. DOMAIN ft \subseteq DOMAIN ft'
      BY <1>12, <2>1, AddEffect, Zenon
    <2>3. tout' \in [TaskId -> Seq(TransEntry)] /\ \A j \in TaskId : TrueTable(tout'[j])
      <3>1. ASSUME NEW op \in OpType
            PROVE  [te(k) EXCEPT !.op = op] \in TransEntry /\ TrueEntry([te(k) EXCEPT !.op = op])
        <4>1. [te(k) EXCEPT !.op = op] \in TransEntry
          BY <1>12, <2>1, Zenon DEF TransEntry
        <4>2. TrueEntry([te(k) EXCEPT !.op = op])
          BY <1>12, <2>1, Zenon DEF TrueEntry, TransEntry
        <4> QED BY <4>1, <4>2, Zenon
      <3> QED BY <1>4, <2>1, <3>1, NoEffect, Zenon
    <2> QED BY <1>12, <2>1, <2>2, <2>3, NoEffect, AddEffect, Zenon DEF Effect
  <1>8. CASE UpdateEntry(k)
    <2>1. /\ k \in DOMAIN pkt /\ te(k) \in TransEntry /\ te(k).name \in Name
          /\ te(k).owners # {}
          /\ te(k).op # FILE_DELETE =>
               \A ip \in te(k).owners : Announced(te(k).name, te(k).timestamp, ip)
      BY <1>0, <1>8, EntryTrue, Zenon DEF UpdateEntry
    <2>2. pkt' = pkt
      BY <1>8, Zenon DEF UpdateEntry
    <2>3. CASE ft' = file_table_add(ft, te(k)) /\ te(k).op = FILE_ADD
               /\ tfe' = [tfe EXCEPT ![k] = te(k).name] /\ tout' = tout
      <3>1. te(k).op # FILE_DELETE
        BY <2>3, Zenon DEF FILE_ADD, FILE_DELETE
      <3>2. DOMAIN ft \subseteq DOMAIN ft' /\ te(k).name \in DOMAIN ft'
        BY <2>1, <2>3, <3>1, AddEffect, Zenon
      <3>3. /\ tfe' \in [TaskId -> Name \cup {NoFile, Freed}]
            /\ \A j \in TaskId : tfe'[j] \notin {NoFile, Freed} => tfe'[j] \in DOMAIN ft'
        BY <1>0, <2>1, <2>3, <3>2, Zenon DEF Locals
      <3> QED BY <2>1, <2>2, <2>3, <3>1, <3>3, AddEffect, NoEffect, Zenon DEF Effect
    <2>4. CASE ft' = file_table_delete(ft, te(k).name) /\ te(k).op = FILE_DELETE
               /\ Dangle(te(k).name) /\ tout' = [tout EXCEPT ![k] = @ \o <<te(k)>>]
      <3>1. TrueEntry(te(k))
        BY <2>4, Zenon DEF TrueEntry
      <3>2. DOMAIN ft' = DOMAIN ft \ {te(k).name} /\ \A f \in DOMAIN ft' : ft'[f] = ft[f]
        BY <2>4, Zenon DEF file_table_delete
      <3>3. /\ tfe' \in [TaskId -> Name \cup {NoFile, Freed}]
            /\ \A j \in TaskId : tfe'[j] \notin {NoFile, Freed} => tfe'[j] \in DOMAIN ft'
        BY <1>0, <2>4, <3>2, Zenon DEF Dangle, Locals
      <3>4. /\ DOMAIN ft' \subseteq Name
            /\ \A f \in DOMAIN ft' :
                 /\ ft'[f] \in FileEntry /\ (ft'[f].owners # {} \/ Stripped(f))
                 /\ \A ip \in ft'[f].owners : Announced(f, ft'[f].timestamp, ip)
            /\ \A f \in DOMAIN ft \cap DOMAIN ft' : ft'[f].timestamp >= ft[f].timestamp
        <4>1. DOMAIN ft \subseteq Name /\ \A f \in DOMAIN ft : ft[f] \in FileEntry
          BY <1>0, Zenon DEF TypeOK
        <4>2. \A f \in DOMAIN ft : ft[f].timestamp >= ft[f].timestamp
          BY <4>1, SMT DEF FileEntry
        <4>3. \A f \in DOMAIN ft :
                /\ ft[f].owners # {} \/ Stripped(f)
                /\ \A ip \in ft[f].owners : Announced(f, ft[f].timestamp, ip)
          BY <1>0, Zenon DEF OwnersAnnounced
        <4> QED BY <3>2, <4>1, <4>2, <4>3, Zenon
      <3> QED BY <1>4, <2>1, <2>2, <2>4, <3>1, <3>3, <3>4, Zenon DEF Effect
    <2>5. CASE UNCHANGED <<ft, tout>> /\ \E f \in DOMAIN ft \cup {NoFile} :
                 tfe' = tfe \/ tfe' = [tfe EXCEPT ![k] = f]
      <3>1. /\ tfe' \in [TaskId -> Name \cup {NoFile, Freed}]
            /\ \A j \in TaskId : tfe'[j] \notin {NoFile, Freed} => tfe'[j] \in DOMAIN ft'
        BY <1>0, <2>5, Zenon DEF TypeOK, Locals
      <3> QED BY <2>2, <2>5, <3>1, NoEffect, Zenon DEF Effect
    <2> QED BY <1>8, <2>3, <2>4, <2>5, Zenon DEF UpdateEntry
  <1>9. CASE UpdateInsert(k)
    <2> DEFINE nameless == [op |-> FILE_ADD, name |-> NoFile, timestamp |-> 0, owners |-> {}]
    <2>1. /\ tpc[k] \in ApplyPc /\ UNCHANGED <<tfe, pkt>>
          /\ ft' = file_table_add(ft, te(k))
          /\ tout' = [tout EXCEPT ![k] = @ \o <<nameless>>]
      BY <1>9, Zenon DEF UpdateInsert, ApplyPc
    <2>2. nameless \in TransEntry /\ TrueEntry(nameless)
      BY Zenon DEF TransEntry, TrueEntry, OpType
    <2>3. tout' \in [TaskId -> Seq(TransEntry)] /\ \A j \in TaskId : TrueTable(tout'[j])
      BY <1>4, <2>1, <2>2, Zenon
    <2> QED BY <1>12, <2>1, <2>3, NoEffect, AddEffect, Zenon DEF Effect
  <1>10. CASE UpdateModify(k)
    <2>1. CASE UsesFreed
      <3>1. UNCHANGED <<ft, tfe, tout>> /\ pkt' = pkt
        BY <1>10, <2>1, Zenon DEF UpdateModify, UsesFreed
      <3> QED BY <3>1, NoEffect, Zenon
    <2>2. CASE tfe[k] # Freed /\ ft' = [ft EXCEPT ![tfe[k]] = file_entry_update(@, te(k))]
               /\ UNCHANGED <<tfe, tout>>
      <3>1. tpc[k] \in ApplyPc /\ tpc[k] \in HoldPc /\ UNCHANGED <<tfe, tout, pkt>>
            /\ ft' = [ft EXCEPT ![tfe[k]] = file_entry_update(@, te(k))]
        BY <1>10, <2>2, Zenon DEF UpdateModify, ApplyPc, HoldPc
      <3>2. tfe[k] \in DOMAIN ft /\ tfe[k] = te(k).name
        BY <1>0, <1>12, <2>2, <3>1, NameAssumption, Zenon DEF Locals, NoFile, Freed
      <3>3. ft' = file_table_update(ft, te(k))
        BY <3>1, <3>2, Zenon DEF file_table_update
      <3>4. DOMAIN ft \subseteq DOMAIN ft'
        BY <3>3, Zenon DEF file_table_update
      <3> QED BY <1>12, <3>1, <3>3, <3>4, NoEffect, AddEffect, Zenon DEF Effect
    <2> QED BY <1>10, <2>1, <2>2, Zenon DEF UpdateModify
  <1>11. CASE UpdateFill(k)
    <2>1. CASE tfe[k] = Freed
      <3>1. UNCHANGED <<ft, tfe, tout>> /\ pkt' = pkt
        BY <1>11, <2>1, Zenon DEF UpdateFill, UsesFreed
      <3> QED BY <3>1, NoEffect, Zenon
    <2>2. CASE tfe[k] # Freed
      <3>1. /\ tpc[k] \in HoldPc /\ UNCHANGED <<ft, pkt>>
            /\ tpc[k] \in ApplyPc /\ tfe' = [tfe EXCEPT ![k] = NoFile]
            /\ \E op \in OpType :
                 tout' = [tout EXCEPT ![k] = @ \o <<trans_entry_fill_from(ft, tfe[k], op)>>]
        BY <1>11, <2>2, Zenon DEF UpdateFill, HoldPc, ApplyPc, OpType
      <3>2. tfe[k] \in DOMAIN ft
        BY <1>0, <1>12, <2>2, <3>1, NameAssumption, Zenon DEF Locals, NoFile, Freed
      <3>3. PICK op \in OpType :
                 tout' = [tout EXCEPT ![k] = @ \o <<trans_entry_fill_from(ft, tfe[k], op)>>]
        BY <3>1, Zenon
      <3>4. trans_entry_fill_from(ft, tfe[k], op) \in TransEntry
            /\ TrueEntry(trans_entry_fill_from(ft, tfe[k], op))
        BY <1>0, <3>2, FillEntry, Zenon
      <3>6. tout' \in [TaskId -> Seq(TransEntry)] /\ \A j \in TaskId : TrueTable(tout'[j])
        BY <1>4, <3>3, <3>4, Zenon
      <3>7. /\ tfe' \in [TaskId -> Name \cup {NoFile, Freed}]
            /\ \A j \in TaskId : tfe'[j] \notin {NoFile, Freed} => tfe'[j] \in DOMAIN ft'
        BY <1>0, <3>1, Zenon DEF Locals
      <3> QED BY <3>1, <3>6, <3>7, NoEffect, Zenon DEF Effect
    <2> QED BY <2>1, <2>2, Zenon
  <1> QED BY <1>1, <1>3, <1>5, <1>6, <1>7, <1>8, <1>9, <1>10, <1>11, Zenon DEF TaskStep

\* What a thread of a packet changes, and that it keeps the types: the file
\* table's type, its own locals, and the tables sent.
LEMMA TaskTypeOK ==
  ASSUME IInv, NEW k \in TaskId, TaskStep(k)
  PROVE  TypeOK'
  <1> USE DEF tabVars, peerVars, rcvVars, chkVars, taskVars, netVars, GoTo
  <1>0. TypeOK /\ Locals /\ Sender
    BY Zenon DEF IInv
  <1>1. /\ tpc \in [TaskId -> TaskPc] /\ ti \in [TaskId -> Nat]
        /\ tout \in [TaskId -> Seq(TransEntry)]
        /\ tfe \in [TaskId -> Name \cup {NoFile, Freed}]
        /\ DOMAIN ft \subseteq Name /\ \A f \in DOMAIN ft : ft[f] \in FileEntry
    BY <1>0, Zenon DEF TypeOK
  <1>2. tpc[k] # "idle" => k \in DOMAIN pkt /\ pkt[k].sess \in Session /\ pkt[k].conn \in Fd
    BY <1>0, PacketTypes, Zenon DEF Locals
  <1>3. ASSUME NEW fd, NEW tft \in Seq(TransEntry), Up, broadcast_update(tft, fd)
        PROVE  toPeer' \in [Session -> Seq(Message)] /\ proc' \in {"up", "killed", "ub"}
    <2>1. Broadcast(tft) \in Message /\ IsFiniteSet(DOMAIN Targets(fd))
      BY <1>0, BroadcastType, Zenon DEF TypeOK
    <2> QED BY <1>0, <1>3, <2>1, SendAllType, Zenon DEF TypeOK, Up, broadcast_update
  <1>4. ASSUME NEW fd, NEW m \in Message, Up, SendAll(<<fd>>, m)
        PROVE  toPeer' \in [Session -> Seq(Message)] /\ proc' \in {"up", "killed", "ub"}
    <2>1. IsFiniteSet(DOMAIN <<fd>>)
      <3>1. DOMAIN <<fd>> = {1}
        BY SMT
      <3> QED BY <3>1, FS_Singleton, Zenon
    <2> QED BY <1>0, <1>4, <2>1, SendAllType, Zenon DEF TypeOK, Up
  <1>5. CASE RegisterAccept(k)
    <2>1. [type |-> "TRACKER_ACCEPT", tft |-> << >>] \in Message
      BY SMT DEF Message
    <2>2. toPeer' \in [Session -> Seq(Message)] /\ proc' \in {"up", "killed", "ub"}
      BY <1>4, <1>5, <2>1, Zenon DEF RegisterAccept
    <2>3. tpc' \in [TaskId -> TaskPc]
      BY <1>1, <1>5, Zenon DEF RegisterAccept, TaskPc
    <2> QED BY <1>0, <1>5, <2>2, <2>3, Zenon DEF TypeOK, RegisterAccept
  <1>6. CASE RegisterAdd(k)
    <2>1. [sess |-> pkt[k].sess, conn |-> pkt[k].conn] \in PeerEntry
      BY <1>2, <1>6, Zenon DEF RegisterAdd, PeerEntry
    <2>2. pt \in Seq(PeerEntry)
      BY <1>0, Zenon DEF TypeOK
    <2>3. pt' \in Seq(PeerEntry)
      BY <1>6, <2>1, <2>2, SMT DEF RegisterAdd
    <2>4. tpc' \in [TaskId -> TaskPc] /\ chk' \in [Session -> {"none", "sleep", "found", "exit"}]
      BY <1>0, <1>1, <1>6, Zenon DEF RegisterAdd, TaskPc, TypeOK
    <2> QED BY <1>0, <1>6, <2>3, <2>4, Zenon DEF TypeOK, RegisterAdd
  <1>7. CASE AliveFind(k)
    <2>1. tpc' \in [TaskId -> TaskPc]
      BY <1>1, <1>7, Zenon DEF AliveFind, TaskPc
    <2>2. tpe' \in [TaskId -> Session \cup {NoSession}]
      BY <1>0, <1>7, Zenon DEF AliveFind, TypeOK
    <2> QED BY <1>0, <1>7, <2>1, <2>2, Zenon DEF TypeOK, AliveFind
  <1>8. CASE AliveBeat(k)
    <2>1. tpc' \in [TaskId -> TaskPc] /\ proc' \in {"up", "killed", "ub"}
      BY <1>0, <1>1, <1>8, Zenon DEF AliveBeat, TaskPc, TypeOK
    <2>2. /\ tpe' \in [TaskId -> Session \cup {NoSession}]
          /\ last' \in [Session -> Session \cup {NoSession}]
      BY <1>0, <1>8, Zenon DEF AliveBeat, TypeOK
    <2> QED BY <1>0, <1>8, <2>1, <2>2, Zenon DEF TypeOK, AliveBeat
  <1>10. CASE SyncReply(k)
    <2>1. [type |-> "TRACKER_SYNC", tft |-> tout[k]] \in Message
      BY <1>1, Zenon DEF Message
    <2>2. toPeer' \in [Session -> Seq(Message)] /\ proc' \in {"up", "killed", "ub"}
      BY <1>4, <1>10, <2>1, Zenon DEF SyncReply
    <2>3. /\ tpc' \in [TaskId -> TaskPc] /\ ti' \in [TaskId -> Nat]
          /\ tout' \in [TaskId -> Seq(TransEntry)]
      BY <1>1, <1>10, SMT DEF SyncReply, TaskPc
    <2> QED BY <1>0, <1>10, <2>2, <2>3, Zenon DEF TypeOK, SyncReply
  <1>11. Effect
    BY TaskEffect, Zenon
  <1>12. CASE SyncScan(k)
    <2>1. tpc' \in [TaskId -> TaskPc] /\ ti' \in [TaskId -> Nat]
      BY <1>1, <1>12, NameAssumption DEF SyncScan, UsesFreed, TaskPc
    <2>2. proc' \in {"up", "killed", "ub"} /\ tpe' = tpe
      BY <1>0, <1>12, Zenon DEF SyncScan, UsesFreed, TypeOK
    <2> QED BY <1>0, <1>11, <1>12, <2>1, <2>2, Zenon DEF TypeOK, SyncScan, Effect
  <1>13. CASE SyncLook(k)
    <2>1. tpc' \in [TaskId -> TaskPc] /\ ti' \in [TaskId -> Nat]
      BY <1>1, <1>13, Zenon DEF SyncLook, TaskPc
    <2>2. proc' \in {"up", "killed", "ub"} /\ tpe' = tpe
      BY <1>0, <1>13, Zenon DEF SyncLook, TypeOK
    <2> QED BY <1>0, <1>11, <1>13, <2>1, <2>2, Zenon DEF TypeOK, SyncLook, Effect
  <1>14. CASE SyncJudge(k)
    <2>1. tpc' \in [TaskId -> TaskPc] /\ ti' \in [TaskId -> Nat]
      BY <1>1, <1>14, Zenon DEF SyncJudge, UsesFreed, TaskPc
    <2>2. proc' \in {"up", "killed", "ub"} /\ tpe' = tpe
      BY <1>0, <1>14, Zenon DEF SyncJudge, UsesFreed, TypeOK
    <2> QED BY <1>0, <1>11, <1>14, <2>1, <2>2, Zenon DEF TypeOK, SyncJudge, Effect
  <1>15. CASE SyncApply(k)
    <2>1. tpc' \in [TaskId -> TaskPc] /\ ti' \in [TaskId -> Nat]
      BY <1>1, <1>15, SMT DEF SyncApply, TaskPc
    <2>2. proc' \in {"up", "killed", "ub"} /\ tpe' = tpe
      BY <1>0, <1>15, Zenon DEF SyncApply, TypeOK
    <2> QED BY <1>0, <1>11, <1>15, <2>1, <2>2, Zenon DEF TypeOK, SyncApply, Effect
  <1>16. CASE UpdateEntry(k)
    <2>3. \/ UNCHANGED <<tpc, ti>>
          \/ \E pc \in TaskPc : tpc' = [tpc EXCEPT ![k] = pc] /\ ti' = ti
          \/ \E pc \in TaskPc : tpc' = [tpc EXCEPT ![k] = pc] /\ ti' = [ti EXCEPT ![k] = @ + 1]
          \/ tpc' = tpc /\ ti' = [ti EXCEPT ![k] = @ + 1]
      BY <1>16, Zenon DEF UpdateEntry, TaskPc
    <2>4. tpc' = tpc \/ \E pc \in TaskPc : tpc' = [tpc EXCEPT ![k] = pc]
      BY <2>3, Zenon
    <2>5. ti' = ti \/ ti' = [ti EXCEPT ![k] = ti[k] + 1]
      BY <2>3, Zenon
    <2>6. tpc' \in [TaskId -> TaskPc]
      BY <1>1, <2>4, Zenon
    <2>7. ti' \in [TaskId -> Nat]
      <3>1. ti \in [TaskId -> Nat]
        BY <1>1, Zenon
      <3>2. ti[k] + 1 \in Nat
        BY <3>1, SMT
      <3> QED BY <2>5, <3>1, <3>2, Zenon
    <2>1. tpc' \in [TaskId -> TaskPc] /\ ti' \in [TaskId -> Nat]
      BY <2>6, <2>7, Zenon
    <2>2. proc' \in {"up", "killed", "ub"} /\ tpe' = tpe
      BY <1>0, <1>16, Zenon DEF UpdateEntry, TypeOK
    <2> QED BY <1>0, <1>11, <1>16, <2>1, <2>2, Zenon DEF TypeOK, UpdateEntry, Effect
  <1>17. CASE UpdateInsert(k)
    <2>1. tpc' \in [TaskId -> TaskPc] /\ ti' \in [TaskId -> Nat]
      BY <1>1, <1>17, SMT DEF UpdateInsert, TaskPc
    <2>2. proc' \in {"up", "killed", "ub"} /\ tpe' = tpe
      BY <1>0, <1>17, Zenon DEF UpdateInsert, TypeOK
    <2> QED BY <1>0, <1>11, <1>17, <2>1, <2>2, Zenon DEF TypeOK, UpdateInsert, Effect
  <1>18. CASE UpdateModify(k)
    <2>1. tpc' \in [TaskId -> TaskPc] /\ ti' \in [TaskId -> Nat]
      BY <1>1, <1>18, Zenon DEF UpdateModify, UsesFreed, TaskPc
    <2>2. proc' \in {"up", "killed", "ub"} /\ tpe' = tpe
      BY <1>0, <1>18, Zenon DEF UpdateModify, UsesFreed, TypeOK
    <2> QED BY <1>0, <1>11, <1>18, <2>1, <2>2, Zenon DEF TypeOK, UpdateModify, Effect
  <1>19. CASE UpdateFill(k)
    <2>3. \/ UNCHANGED <<tpc, ti>>
          \/ \E pc \in TaskPc : tpc' = [tpc EXCEPT ![k] = pc] /\ ti' = ti
          \/ \E pc \in TaskPc : tpc' = [tpc EXCEPT ![k] = pc] /\ ti' = [ti EXCEPT ![k] = @ + 1]
          \/ tpc' = tpc /\ ti' = [ti EXCEPT ![k] = @ + 1]
      BY <1>19, ZenonT(30) DEF UpdateFill, UsesFreed, TaskPc
    <2>4. tpc' = tpc \/ \E pc \in TaskPc : tpc' = [tpc EXCEPT ![k] = pc]
      BY <2>3, Zenon
    <2>5. ti' = ti \/ ti' = [ti EXCEPT ![k] = ti[k] + 1]
      BY <2>3, Zenon
    <2>6. tpc' \in [TaskId -> TaskPc]
      BY <1>1, <2>4, Zenon
    <2>7. ti' \in [TaskId -> Nat]
      <3>1. ti \in [TaskId -> Nat]
        BY <1>1, Zenon
      <3>2. ti[k] + 1 \in Nat
        BY <3>1, SMT
      <3> QED BY <2>5, <3>1, <3>2, Zenon
    <2>1. tpc' \in [TaskId -> TaskPc] /\ ti' \in [TaskId -> Nat]
      BY <2>6, <2>7, Zenon
    <2>2. proc' \in {"up", "killed", "ub"} /\ tpe' = tpe
      BY <1>0, <1>19, Zenon DEF UpdateFill, UsesFreed, TypeOK
    <2> QED BY <1>0, <1>11, <1>19, <2>1, <2>2, ZenonT(30) DEF TypeOK, UpdateFill, Effect
  <1>20. CASE SyncBroadcast(k)
    <2>1. tpc' \in [TaskId -> TaskPc] /\ ti' \in [TaskId -> Nat]
      BY <1>1, <1>20, Zenon DEF SyncBroadcast, Finished, TaskPc
    <2>2. toPeer' \in [Session -> Seq(Message)] /\ proc' \in {"up", "killed", "ub"}
      BY <1>1, <1>3, <1>20, Zenon DEF SyncBroadcast
    <2> QED BY <1>0, <1>11, <1>20, <2>1, <2>2, Zenon DEF TypeOK, SyncBroadcast, Effect
  <1>21. CASE UpdateBroadcast(k)
    <2>1. tpc' \in [TaskId -> TaskPc] /\ ti' \in [TaskId -> Nat]
      BY <1>1, <1>21, Zenon DEF UpdateBroadcast, Finished, TaskPc
    <2>2. toPeer' \in [Session -> Seq(Message)] /\ proc' \in {"up", "killed", "ub"}
      BY <1>1, <1>3, <1>21, Zenon DEF UpdateBroadcast
    <2> QED BY <1>0, <1>11, <1>21, <2>1, <2>2, ZenonT(30) DEF TypeOK, UpdateBroadcast, Effect
  <1> QED BY <1>5, <1>6, <1>7, <1>8, <1>10, <1>12, <1>13, <1>14, <1>15, <1>16, <1>17, <1>18,
             <1>19, <1>20, <1>21, ZenonT(30) DEF TaskStep

-----------------------------------------------------------------------------
(* Locals and senders.                                                     *)

\* The steps of a connection keep the threads' locals.
LEMMA ReceiverKeepsLocals ==
  ASSUME IInv, NEW s \in Session,
         Accept(s) \/ Receive(s) \/ PeerCloses(s) \/ ReceiverStep(s) \/ CheckStep(s)
  PROVE  Locals'
  <1> USE DEF tabVars, peerVars, rcvVars, chkVars, taskVars, netVars
  <1>0. TypeOK /\ Locals
    BY Zenon DEF IInv
  <1>1. \A r \in Session : rpc'[r] \notin {"none", "done"} => conn'[r] # 0
    <2>0. /\ \A r \in Session : rpc[r] \notin {"none", "done"} => conn[r] # 0
          /\ rpc \in [Session -> ReceiverPc] /\ conn \in [Session -> Fd \cup {0}]
      BY <1>0, Zenon DEF TypeOK, Locals
    <2>1. CASE Accept(s)
      BY <2>0, <2>1, FdAssumption, Zenon DEF Accept
    <2>2. CASE CleanupClose(s)
      BY <2>0, <2>2, Zenon DEF CleanupClose
    <2>3. CASE Receive(s) \/ PeerCloses(s) \/ CheckStep(s)
      <3>1. UNCHANGED <<rpc, conn>>
        BY <2>3, Zenon DEF Receive, Dispatch, PeerCloses, CheckStep, CheckFind, CheckCompare
      <3> QED BY <2>0, <3>1, Zenon
    <2>4. CASE ReceiverStep(s) /\ ~CleanupClose(s)
      <3>1. conn' = conn /\ rpc[s] \notin {"none", "done"}
            /\ \E pc \in ReceiverPc : rpc' = [rpc EXCEPT ![s] = pc]
        <4>1. CASE RecvEnds(s)
          BY <4>1, Zenon DEF RecvEnds, ReceiverPc
        <4>2. CASE RecvCancelled(s)
          BY <4>2, Zenon DEF RecvCancelled, ReceiverPc
        <4>3. CASE CleanupDelete(s)
          BY <4>3, Zenon DEF CleanupDelete, ReceiverPc
        <4>4. CASE CleanupStrip(s) \/ CleanupDrop(s)
          BY <4>4, Zenon DEF CleanupStrip, CleanupDrop, ReceiverPc
        <4>5. CASE CleanupFill(s)
          BY <4>5, Zenon DEF CleanupFill, ReceiverPc
        <4>6. CASE CleanupLock(s)
          BY <4>6, Zenon DEF CleanupLock, ReceiverPc
        <4>7. CASE CleanupSend(s)
          BY <4>7, Zenon DEF CleanupSend, ReceiverPc
        <4>8. CASE CleanupSendDies(s)
          BY <4>8, Zenon DEF CleanupSendDies, ReceiverPc
        <4> QED BY <2>4, <4>1, <4>2, <4>3, <4>4, <4>5, <4>6, <4>7, <4>8, ZenonT(30) DEF ReceiverStep
      <3> QED BY <2>0, <3>1, Zenon
    <2> QED BY <2>1, <2>2, <2>3, <2>4, Zenon
  <1> DEFINE TaskLocals == \A k \in TaskId :
       /\ tpc[k] # "idle" => k \in DOMAIN pkt
       /\ tfe[k] \notin {NoFile, Freed} => tfe[k] \in DOMAIN ft
       /\ tpc[k] \in HoldPc => tfe[k] \in {te(k).name, Freed}
       /\ tpc[k] \in SyncPc => pkt[k].type = "PEER_SYNC"
       /\ tpc[k] \in {"look", "entry"} => ti[k] >= 1
       /\ tpc[k] \in ApplyPc => ti[k] \in DOMAIN pkt[k].tft /\ te(k).op # FILE_DELETE
  <1>2. TaskLocals
    BY <1>0, Zenon DEF Locals
  <1>3. CASE ~Receive(s) /\ ~CleanupStrip(s) /\ ~CleanupDrop(s)
    <2>1. UNCHANGED <<tpc, ti, tfe, ft, pkt>>
      BY <1>3, Zenon DEF Accept, PeerCloses, ReceiverStep, RecvEnds, RecvCancelled, CleanupDelete,
           CleanupFill, CleanupLock, CleanupSend, CleanupSendDies, CleanupClose,
           CheckStep, CheckFind, CheckCompare
    <2>2. TaskLocals'
      BY <1>2, <2>1, Zenon DEF te
    <2> QED BY <1>1, <2>2, Zenon DEF Locals
  <1>4. CASE CleanupStrip(s) \/ CleanupDrop(s)
    <2>1. UNCHANGED <<tpc, ti, pkt>>
      BY <1>4, Zenon DEF CleanupStrip, CleanupDrop
    <2>2. \A k \in TaskId :
            \/ tfe'[k] = Freed
            \/ tfe'[k] = tfe[k] /\ (tfe[k] \in DOMAIN ft => tfe[k] \in DOMAIN ft')
      BY <1>0, <1>4, DeleteOwner, Zenon DEF IInv
    <2>3. TaskLocals'
      BY <1>2, <2>1, <2>2, Zenon DEF te
    <2> QED BY <1>1, <2>3, Zenon DEF Locals
  <1>5. CASE Receive(s)
    <2>1. PICK p \in Packets[s] : Dispatch(s, p.type, p.tft)
      BY <1>5, Zenon DEF Receive
    <2>2. PICK q \in ReceivedPacket : pkt' = Append(pkt, q) /\ q.type = p.type
      BY <1>0, <2>1, DispatchType, Zenon
    <2> DEFINE n == Len(pkt) + 1
    <2>3. pkt \in Seq(ReceivedPacket) /\ n \in TaskId /\ n \notin DOMAIN pkt
      <3>1. pkt \in Seq(ReceivedPacket)
        BY <1>0, Zenon DEF TypeOK
      <3>2. n \in TaskId
        BY <2>1, Zenon DEF Dispatch
      <3> QED BY <2>2, <3>1, <3>2, Appended, SMT
    <2>4. /\ \A k \in DOMAIN pkt : k \in DOMAIN pkt' /\ pkt'[k] = pkt[k]
          /\ n \in DOMAIN pkt' /\ pkt'[n] = q
      BY <2>2, <2>3, Appended, SMT
    <2>5. /\ UNCHANGED <<ft, tfe>>
          /\ tpc' = [tpc EXCEPT ![n] = FirstStep[p.type]]
          /\ ti' = [ti EXCEPT ![n] = IF p.type = "PEER_FILE_UPDATE" THEN 1 ELSE 0]
      BY <2>1, Zenon DEF Dispatch
    <2>6. tpc[n] = "idle" /\ tpc \in [TaskId -> TaskPc] /\ ti \in [TaskId -> Nat]
      BY <1>0, <1>2, <2>3, Zenon DEF TypeOK
    <2>7. p.type \in PacketType
      BY PacketsAssumption, Zenon
    <2>8. /\ FirstStep[p.type] \in {"accept", "find", "scan", "entry"}
          /\ FirstStep[p.type] = "scan" => p.type = "PEER_SYNC"
          /\ FirstStep[p.type] = "entry" => p.type = "PEER_FILE_UPDATE"
      BY <2>7, SMT DEF FirstStep, PacketType
    <2> HIDE DEF n
    <2>9. ASSUME NEW k \in TaskId
          PROVE  /\ tpc'[k] # "idle" => k \in DOMAIN pkt'
                 /\ tfe'[k] \notin {NoFile, Freed} => tfe'[k] \in DOMAIN ft'
                 /\ tpc'[k] \in HoldPc => tfe'[k] \in {te(k)'.name, Freed}
                 /\ tpc'[k] \in SyncPc => pkt'[k].type = "PEER_SYNC"
                 /\ tpc'[k] \in {"look", "entry"} => ti'[k] >= 1
                 /\ tpc'[k] \in ApplyPc => ti'[k] \in DOMAIN pkt'[k].tft /\ te(k)'.op # FILE_DELETE
      <3>1. CASE k = n
        BY <1>2, <2>2, <2>3, <2>4, <2>5, <2>6, <2>8, <3>1, SMT DEF HoldPc, SyncPc, ApplyPc
      <3>2. CASE k # n
        <4>1. tpc'[k] = tpc[k] /\ ti'[k] = ti[k] /\ tfe'[k] = tfe[k]
          BY <2>5, <2>6, <3>2, Zenon
        <4>2. CASE k \in DOMAIN pkt
          <5>1. te(k)' = te(k) /\ pkt'[k] = pkt[k] /\ k \in DOMAIN pkt'
            BY <2>4, <4>1, <4>2, Zenon DEF te
          <5> QED BY <1>2, <2>5, <4>1, <5>1, Zenon
        <4>3. CASE k \notin DOMAIN pkt
          BY <1>2, <2>5, <4>1, <4>3, Zenon DEF HoldPc, SyncPc, ApplyPc
        <4> QED BY <4>2, <4>3, Zenon
      <3> QED BY <3>1, <3>2, Zenon
    <2> QED BY <1>1, <2>9, Zenon DEF Locals
  <1> QED BY <1>3, <1>4, <1>5, Zenon

\* A packet's thread changes no connection.
LEMMA TaskUnchanged ==
  ASSUME NEW k \in TaskId, TaskStep(k)
  PROVE  UNCHANGED <<conn, rpc, cfe, ctab>>
  BY Zenon DEF TaskStep, rcvVars, RegisterAccept, RegisterAdd, AliveFind, AliveBeat, SyncScan, SyncReply,
       SyncLook, SyncJudge, SyncApply, SyncBroadcast, UpdateEntry, UpdateInsert, UpdateModify,
       UpdateFill, UpdateBroadcast

\* A packet's thread leaves the others' program counters and indices alone, and
\* changes their file pointers only by freeing what they point to.
LEMMA TaskOthers ==
  ASSUME TypeOK, NEW k \in TaskId, TaskStep(k), NEW j \in TaskId, j # k
  PROVE  tpc'[j] = tpc[j] /\ ti'[j] = ti[j] /\ tfe'[j] \in {tfe[j], Freed}
  <1> USE DEF tabVars, peerVars, rcvVars, chkVars, taskVars, netVars, GoTo
  <1>0. tpc \in [TaskId -> TaskPc] /\ ti \in [TaskId -> Nat]
        /\ tfe \in [TaskId -> Name \cup {NoFile, Freed}]
    BY Zenon DEF TypeOK
  <1>1. CASE RegisterAccept(k)
    BY <1>0, <1>1, Zenon DEF RegisterAccept
  <1>2. CASE RegisterAdd(k)
    BY <1>0, <1>2, Zenon DEF RegisterAdd
  <1>3. CASE AliveFind(k)
    BY <1>0, <1>3, Zenon DEF AliveFind
  <1>4. CASE AliveBeat(k)
    BY <1>0, <1>4, Zenon DEF AliveBeat
  <1>5. CASE SyncScan(k)
    BY <1>0, <1>5, Zenon DEF SyncScan, UsesFreed
  <1>6. CASE SyncReply(k)
    BY <1>0, <1>6, Zenon DEF SyncReply
  <1>7. CASE SyncLook(k)
    BY <1>0, <1>7, Zenon DEF SyncLook
  <1>8. CASE SyncJudge(k)
    BY <1>0, <1>8, Zenon DEF SyncJudge, UsesFreed
  <1>9. CASE SyncApply(k)
    BY <1>0, <1>9, Zenon DEF SyncApply
  <1>10. CASE SyncBroadcast(k)
    BY <1>0, <1>10, Zenon DEF SyncBroadcast, Finished
  <1>11. CASE UpdateEntry(k)
    BY <1>0, <1>11, Zenon DEF UpdateEntry, Dangle
  <1>12. CASE UpdateInsert(k)
    BY <1>0, <1>12, Zenon DEF UpdateInsert
  <1>13. CASE UpdateModify(k)
    BY <1>0, <1>13, Zenon DEF UpdateModify, UsesFreed
  <1>14. CASE UpdateFill(k)
    BY <1>0, <1>14, Zenon DEF UpdateFill, UsesFreed
  <1>15. CASE UpdateBroadcast(k)
    BY <1>0, <1>15, Zenon DEF UpdateBroadcast, Finished
  <1> QED BY <1>1, <1>2, <1>3, <1>4, <1>5, <1>6, <1>7, <1>8, <1>9,
             <1>10, <1>11, <1>12, <1>13, <1>14, <1>15, ZenonT(30) DEF TaskStep

\* The steps of a packet's thread keep the threads' locals.
LEMMA TaskKeepsLocals ==
  ASSUME IInv, NEW k \in TaskId, TaskStep(k)
  PROVE  Locals'
  <1> USE DEF tabVars, peerVars, rcvVars, chkVars, taskVars, netVars, GoTo
  <1>0. TypeOK /\ Locals /\ Sender
    BY Zenon DEF IInv
  <1>1. /\ tpc \in [TaskId -> TaskPc] /\ ti \in [TaskId -> Nat]
        /\ tfe \in [TaskId -> Name \cup {NoFile, Freed}]
    BY <1>0, Zenon DEF TypeOK
  <1>2. pkt' = pkt /\ \A j \in TaskId : tfe'[j] \notin {NoFile, Freed} => tfe'[j] \in DOMAIN ft'
    BY TaskEffect, Zenon DEF Effect
  <1>3. UNCHANGED <<rpc, conn>>
    BY TaskUnchanged, Zenon
  <1> DEFINE AtPc(j) ==
       /\ tpc[j] # "idle" => j \in DOMAIN pkt
       /\ tpc[j] \in HoldPc => tfe[j] \in {te(j).name, Freed}
       /\ tpc[j] \in SyncPc => pkt[j].type = "PEER_SYNC"
       /\ tpc[j] \in {"look", "entry"} => ti[j] >= 1
       /\ tpc[j] \in ApplyPc => ti[j] \in DOMAIN pkt[j].tft /\ te(j).op # FILE_DELETE
  <1>4. \A j \in TaskId : AtPc(j)
    BY <1>0, Zenon DEF Locals
  <1>5. ASSUME NEW j \in TaskId, j # k
        PROVE  AtPc(j)'
    <2>1. tpc'[j] = tpc[j] /\ ti'[j] = ti[j] /\ tfe'[j] \in {tfe[j], Freed}
      BY <1>0, <1>5, TaskOthers, Zenon
    <2>2. te(j)' = te(j)
      BY <1>2, <2>1, Zenon DEF te
    <2> QED BY <1>2, <1>4, <2>1, <2>2, Zenon
  <1>6. AtPc(k)'
    <2>0. AtPc(k) /\ pkt' = pkt
      BY <1>2, <1>4, Zenon
    <2>1. ASSUME UNCHANGED <<tpc, ti, tfe>>
          PROVE  AtPc(k)'
      BY <2>0, <2>1, Zenon DEF te
    <2>2. ASSUME tpc[k] # "idle", tpc'[k] \in {"done", "add", "beat"}
          PROVE  AtPc(k)'
      BY <2>0, <2>2, Zenon DEF HoldPc, SyncPc, ApplyPc
    <2>3. CASE \/ RegisterAccept(k) \/ RegisterAdd(k) \/ AliveFind(k) \/ AliveBeat(k)
               \/ SyncBroadcast(k) \/ UpdateBroadcast(k)
      <3>1. tpc[k] # "idle" /\ tpc'[k] \in {"done", "add", "beat"}
        BY <1>1, <2>3, Zenon DEF RegisterAccept, RegisterAdd, AliveFind, AliveBeat, SyncBroadcast,
             UpdateBroadcast, Finished
      <3> QED BY <2>2, <3>1, Zenon
    <2>4. ASSUME tpc[k] # "idle", tpc'[k] \in {"scan", "reply", "look", "entry"},
                 tpc'[k] # "entry" => pkt[k].type = "PEER_SYNC",
                 tpc'[k] \in {"look", "entry"} => ti'[k] >= 1
          PROVE  AtPc(k)'
      BY <2>0, <2>4, Zenon DEF HoldPc, SyncPc, ApplyPc
    <2>5. CASE SyncScan(k)
      <3>1. \/ UNCHANGED <<tpc, ti, tfe>>
            \/ tpc[k] = "scan" /\ tpc'[k] \in {"scan", "reply"}
        BY <1>1, <2>5, Zenon DEF SyncScan, UsesFreed
      <3> QED BY <2>0, <2>1, <2>4, <3>1, Zenon DEF SyncPc
    <2>6. CASE SyncReply(k)
      <3>1. tpc[k] = "reply" /\ tpc'[k] = "look" /\ ti'[k] = 1
        BY <1>1, <2>6, Zenon DEF SyncReply
      <3> QED BY <2>0, <2>4, <3>1, SMT DEF SyncPc
    <2>7. CASE SyncApply(k) \/ UpdateInsert(k)
      <3>1. tpc[k] \in {"absent", "newer", "older", "insert"} /\ ti'[k] = ti[k] + 1
            /\ tpc'[k] = (IF tpc[k] = "insert" THEN "entry" ELSE "look")
        BY <1>1, <2>7, Zenon DEF SyncApply, UpdateInsert
      <3>2. ti'[k] >= 1
        BY <1>1, <3>1, SMT
      <3> QED BY <2>0, <2>4, <3>1, <3>2, Zenon DEF SyncPc
    <2>8. CASE UpdateFill(k)
      <3>1. \/ UNCHANGED <<tpc, ti, tfe>>
            \/ tpc[k] \in {"fillAdd", "fillModify"} /\ tpc'[k] = "entry" /\ ti'[k] = ti[k] + 1
        BY <1>1, <2>8, Zenon DEF UpdateFill, UsesFreed
      <3>2. ti[k] + 1 >= 1
        BY <1>1, SMT
      <3> QED BY <2>1, <2>4, <3>1, <3>2, Zenon
    <2>9. ASSUME k \in DOMAIN pkt, ti'[k] = ti[k], ti[k] \in DOMAIN pkt[k].tft, te(k).op # FILE_DELETE,
                 tpc'[k] \in ApplyPc, tpc'[k] \in HoldPc => tfe'[k] \in {te(k).name, Freed},
                 tpc'[k] \in SyncPc => pkt[k].type = "PEER_SYNC"
          PROVE  AtPc(k)'
      <3>1. te(k)' = te(k)
        BY <2>0, <2>9, Zenon DEF te
      <3> QED BY <2>0, <2>9, <3>1, Zenon DEF ApplyPc
    <2>10. CASE SyncLook(k)
      <3>1. /\ tpc[k] = "look" /\ ti[k] <= Len(pkt[k].tft) /\ ti'[k] = ti[k]
            /\ \/ tpc'[k] = "judge" /\ tfe'[k] = te(k).name
               \/ tpc'[k] = "absent"
        BY <1>1, <2>10, Zenon DEF SyncLook
      <3>2. k \in DOMAIN pkt /\ ti[k] \in DOMAIN pkt[k].tft /\ pkt[k].type = "PEER_SYNC"
            /\ te(k).op # FILE_DELETE
        BY <1>0, <2>0, <3>1, EntryTrue, Zenon DEF SyncPc
      <3> QED BY <2>9, <3>1, <3>2, Zenon DEF ApplyPc, HoldPc
    <2>11. CASE SyncJudge(k)
      <3>1. \/ UNCHANGED <<tpc, ti, tfe>>
            \/ tpc[k] = "judge" /\ tpc'[k] \in {"newer", "older"} /\ ti'[k] = ti[k]
        BY <1>1, <2>11, Zenon DEF SyncJudge, UsesFreed
      <3> QED BY <2>0, <2>1, <2>9, <3>1, Zenon DEF ApplyPc, HoldPc, SyncPc
    <2>12. CASE UpdateModify(k)
      <3>1. \/ UNCHANGED <<tpc, ti, tfe>>
            \/ tpc[k] = "modify" /\ tpc'[k] = "fillModify" /\ ti'[k] = ti[k] /\ tfe'[k] = tfe[k]
        BY <1>1, <2>12, Zenon DEF UpdateModify, UsesFreed
      <3> QED BY <2>0, <2>1, <2>9, <3>1, Zenon DEF ApplyPc, HoldPc, SyncPc
    <2>13. CASE UpdateEntry(k)
      <3>1. /\ tpc[k] = "entry" /\ ti[k] <= Len(pkt[k].tft)
            /\ \/ tpc'[k] = "entry" /\ ti'[k] = ti[k] + 1
               \/ /\ te(k).op \in {FILE_ADD, FILE_MODIFY} /\ ti'[k] = ti[k]
                  /\ \/ tpc'[k] = "insert"
                     \/ tpc'[k] \in {"fillAdd", "modify"} /\ tfe'[k] = te(k).name
        BY <1>1, <2>13, Zenon DEF UpdateEntry
      <3>2. k \in DOMAIN pkt /\ ti[k] \in DOMAIN pkt[k].tft /\ ti[k] + 1 >= 1
        <4>1. k \in DOMAIN pkt /\ ti[k] \in DOMAIN pkt[k].tft
          BY <1>0, <3>1, EntryTrue, Zenon
        <4>2. ti[k] \in Nat
          BY <1>0, Zenon DEF TypeOK
        <4> QED BY <4>1, <4>2, SMT
      <3>3. te(k).op \in {FILE_ADD, FILE_MODIFY} => te(k).op # FILE_DELETE
        BY Zenon DEF FILE_ADD, FILE_MODIFY, FILE_DELETE
      <3> QED BY <2>4, <2>9, <3>1, <3>2, <3>3, Zenon DEF ApplyPc, HoldPc, SyncPc
    <2> QED BY <2>3, <2>5, <2>6, <2>7, <2>8, <2>10, <2>11, <2>12, <2>13, ZenonT(30) DEF TaskStep
  <1>7. \A r \in Session : rpc'[r] \notin {"none", "done"} => conn'[r] # 0
    BY <1>0, <1>3, Zenon DEF Locals
  <1> QED BY <1>2, <1>5, <1>6, <1>7, Zenon DEF Locals

-----------------------------------------------------------------------------
(* Truth of the table and of what is sent.                                 *)

\* SentTruthful, said with TrueTable.
LEMMA SentTables ==
  SentTruthful <=> \A s \in Session : \A m \in DOMAIN toPeer[s] : TrueTable(toPeer[s][m].tft)
  BY Zenon DEF SentTruthful, TrueTable, TrueEntry

\* What is true stays true: announcements are never taken back.
LEMMA TruthStays ==
  ASSUME \/ pkt' = pkt \/ \E p \in ReceivedPacket : pkt' = Append(pkt, p),
         pkt \in Seq(ReceivedPacket)
  PROVE  /\ \A f, time, ip : Announced(f, time, ip) => Announced(f, time, ip)'
         /\ \A tft : TrueTable(tft) => TrueTable(tft)'
  <1>1. \A f, time, ip : Announced(f, time, ip) => Announced(f, time, ip)'
    BY AnnouncedStays, Zenon
  <1>2. ASSUME NEW CONSTANT e, TrueEntry(e)
        PROVE  TrueEntry(e)'
    BY <1>1, <1>2, Zenon DEF TrueEntry
  <1>3. ASSUME NEW CONSTANT tft, TrueTable(tft)
        PROVE  TrueTable(tft)'
    BY <1>2, <1>3, Zenon DEF TrueTable
  <1> QED BY <1>1, <1>3, Zenon

\* Sending a true table keeps everything sent true.
LEMMA SendTrue ==
  ASSUME TypeOK, SentTruthful, Up, pkt' = pkt, NEW fds, IsFiniteSet(DOMAIN fds),
         NEW msg \in Message, SendAll(fds, msg), TrueTable(msg.tft)
  PROVE  SentTruthful'
  <1>1. \A s \in Session : \A m \in DOMAIN toPeer'[s] :
          toPeer'[s][m] = msg \/ (m \in DOMAIN toPeer[s] /\ toPeer'[s][m] = toPeer[s][m])
    BY SendAllType, Zenon DEF TypeOK, Up
  <1>2. \A s \in Session : \A m \in DOMAIN toPeer'[s] : TrueTable(toPeer'[s][m].tft)
    BY <1>1, SentTables, Zenon
  <1>3. \A f, time, ip : Announced(f, time, ip) => Announced(f, time, ip)'
    BY Zenon DEF Announced
  <1> QED BY <1>2, <1>3, Zenon DEF SentTruthful, TrueTable, TrueEntry

\* Nothing sent, no packet lost: what was sent stays true.
LEMMA SentStays ==
  ASSUME SentTruthful, toPeer' = toPeer, pkt \in Seq(ReceivedPacket),
         \/ pkt' = pkt \/ \E p \in ReceivedPacket : pkt' = Append(pkt, p)
  PROVE  SentTruthful'
  BY TruthStays, Zenon DEF SentTruthful

\* The table's owners stay announced while nobody writes the table and the entry a
\* cleanup has stripped stays under its cursor.
LEMMA OwnersStay ==
  ASSUME OwnersAnnounced, ft' = ft, cfe' = cfe,
         \A r \in Session : rpc[r] = "drop" => rpc'[r] = "drop",
         pkt \in Seq(ReceivedPacket),
         \/ pkt' = pkt \/ \E p \in ReceivedPacket : pkt' = Append(pkt, p)
  PROVE  OwnersAnnounced'
  <1>1. \A f : Stripped(f) => Stripped(f)'
    BY Zenon DEF Stripped
  <1>2. \A f, time, ip : Announced(f, time, ip) => Announced(f, time, ip)'
    BY TruthStays, Zenon
  <1> QED BY <1>1, <1>2, Zenon DEF OwnersAnnounced

\* A step of a packet's thread keeps the rest of the invariant.
LEMMA TaskTrue ==
  ASSUME IInv, NEW k \in TaskId, TaskStep(k)
  PROVE  Sender' /\ OwnersAnnounced' /\ Building' /\ SentTruthful'
  <1> USE DEF tabVars, peerVars, rcvVars, chkVars, taskVars, netVars
  <1>0. TypeOK /\ Locals /\ Sender /\ OwnersAnnounced /\ Building /\ SentTruthful
    BY Zenon DEF IInv
  <1>1. Effect /\ pkt' = pkt /\ UNCHANGED <<rpc, cfe, ctab>>
    BY TaskEffect, TaskUnchanged, Zenon
  <1>2. Sender'
    BY <1>0, <1>1, Zenon DEF Sender
  <1>3. OwnersAnnounced'
    <2>1. \A f : Stripped(f) => Stripped(f)'
      BY <1>1, Zenon DEF Stripped
    <2>2. \A f, time, ip : Announced(f, time, ip) => Announced(f, time, ip)'
      BY <1>1, Zenon DEF Announced
    <2> QED BY <1>1, <2>1, <2>2, Zenon DEF Effect, OwnersAnnounced
  <1>4. Building'
    <2>1. \A f, time, ip : Announced(f, time, ip) => Announced(f, time, ip)'
      BY <1>1, Zenon DEF Announced
    <2> QED BY <1>0, <1>1, <2>1, Zenon DEF Effect, Building, TrueTable, TrueEntry
  <1>5. SentTruthful'
    <2>0. pkt \in Seq(ReceivedPacket) /\ tout[k] \in Seq(TransEntry) /\ TrueTable(tout[k])
      BY <1>0, Zenon DEF TypeOK, Building
    <2>1. ASSUME toPeer' = toPeer PROVE SentTruthful'
      BY <1>0, <1>1, <2>0, <2>1, SentStays, Zenon
    <2>2. ASSUME NEW fd, NEW msg \in Message, Up, SendAll(<<fd>>, msg), TrueTable(msg.tft)
          PROVE  SentTruthful'
      <3>1. DOMAIN <<fd>> = {1}
        BY SMT
      <3>2. IsFiniteSet(DOMAIN <<fd>>)
        BY <3>1, FS_Singleton, Zenon
      <3> QED BY <1>0, <1>1, <2>2, <3>2, SendTrue, ZenonT(30)
    <2>3. ASSUME NEW fd, Up, broadcast_update(tout[k], fd)
          PROVE  SentTruthful'
      <3>1. Broadcast(tout[k]) \in Message /\ IsFiniteSet(DOMAIN Targets(fd))
        BY <1>0, <2>0, BroadcastType, Zenon DEF TypeOK
      <3>2. Broadcast(tout[k]).tft = tout[k]
        BY Zenon DEF Broadcast
      <3>3. CASE tout[k] = << >>
        BY <2>1, <2>3, <3>3, Zenon DEF broadcast_update
      <3>4. CASE tout[k] # << >>
        BY <1>0, <1>1, <2>0, <2>3, <3>1, <3>2, <3>4, SendTrue, ZenonT(30) DEF broadcast_update
      <3> QED BY <3>3, <3>4, Zenon
    <2>4. CASE RegisterAccept(k)
      <3> DEFINE msg == [type |-> "TRACKER_ACCEPT", tft |-> << >>]
      <3>1. msg \in Message /\ TrueTable(msg.tft)
        BY SMT DEF Message, TrueTable
      <3> HIDE DEF msg
      <3>2. Up /\ SendAll(<<pkt[k].conn>>, msg)
        BY <2>4, Zenon DEF RegisterAccept, msg
      <3> QED BY <2>2, <3>1, <3>2, Zenon
    <2>5. CASE SyncReply(k)
      <3> DEFINE msg == [type |-> "TRACKER_SYNC", tft |-> tout[k]]
      <3>1. msg \in Message /\ TrueTable(msg.tft)
        BY <2>0, Zenon DEF Message
      <3> HIDE DEF msg
      <3>2. Up /\ SendAll(<<pkt[k].conn>>, msg)
        BY <2>5, Zenon DEF SyncReply, msg
      <3> QED BY <2>2, <3>1, <3>2, Zenon
    <2>6. CASE SyncBroadcast(k)
      BY <2>3, <2>6, Zenon DEF SyncBroadcast
    <2>7. CASE UpdateBroadcast(k)
      BY <2>3, <2>7, Zenon DEF UpdateBroadcast
    <2>8. CASE \/ RegisterAdd(k) \/ AliveFind(k) \/ AliveBeat(k) \/ SyncScan(k)
               \/ SyncLook(k) \/ SyncJudge(k) \/ SyncApply(k) \/ UpdateEntry(k)
               \/ UpdateInsert(k) \/ UpdateModify(k) \/ UpdateFill(k)
      <3>1. toPeer' = toPeer
        BY <2>8, Zenon DEF RegisterAdd, AliveFind, AliveBeat, SyncScan, SyncLook, SyncJudge, SyncApply,
             UpdateEntry, UpdateInsert, UpdateModify, UpdateFill
      <3> QED BY <2>1, <3>1, Zenon
    <2> QED BY <2>4, <2>5, <2>6, <2>7, <2>8, Zenon DEF TaskStep
  <1> QED BY <1>2, <1>3, <1>4, <1>5, Zenon

\* Only file_table_delete_owner moves its own cursor, or leaves the entry there.
LEMMA ReceiverKeepsDrop ==
  ASSUME TypeOK, NEW s \in Session, ~CleanupStrip(s), ~CleanupDrop(s),
         Accept(s) \/ Receive(s) \/ PeerCloses(s) \/ ReceiverStep(s) \/ CheckStep(s)
  PROVE  cfe' = cfe /\ \A r \in Session : rpc[r] = "drop" => rpc'[r] = "drop"
  <1> USE DEF rcvVars
  <1>0. rpc \in [Session -> ReceiverPc]
    BY Zenon DEF TypeOK
  <1>1. CASE Receive(s) \/ PeerCloses(s) \/ CheckStep(s)
    BY <1>1, Zenon DEF Receive, Dispatch, PeerCloses, CheckStep, CheckFind, CheckCompare
  <1>2. CASE Accept(s) \/ RecvEnds(s) \/ RecvCancelled(s) \/ CleanupDelete(s)
    BY <1>0, <1>2, Zenon DEF Accept, RecvEnds, RecvCancelled, CleanupDelete
  <1>3. CASE CleanupFill(s) \/ CleanupLock(s) \/ CleanupSend(s) \/ CleanupSendDies(s)
    BY <1>0, <1>3, Zenon DEF CleanupFill, CleanupLock, CleanupSend, CleanupSendDies
  <1>4. CASE CleanupClose(s)
    BY <1>0, <1>4, Zenon DEF CleanupClose
  <1> QED BY <1>1, <1>2, <1>3, <1>4, Zenon DEF ReceiverStep

\* A step of a connection keeps the rest of the invariant.
LEMMA ReceiverTrue ==
  ASSUME IInv, NEW s \in Session,
         Accept(s) \/ Receive(s) \/ PeerCloses(s) \/ ReceiverStep(s) \/ CheckStep(s)
  PROVE  Sender' /\ OwnersAnnounced' /\ Building' /\ SentTruthful'
  <1> USE DEF tabVars, peerVars, rcvVars, chkVars, taskVars, netVars
  <1>0. TypeOK /\ Locals /\ Sender /\ OwnersAnnounced /\ Building /\ SentTruthful
        /\ pkt \in Seq(ReceivedPacket)
    BY Zenon DEF IInv, TypeOK
  <1>1. CASE Receive(s)
    <2>1. PICK p \in Packets[s] : Dispatch(s, p.type, p.tft)
      BY <1>1, Zenon DEF Receive
    <2>2. PICK q \in ReceivedPacket :
            /\ pkt' = Append(pkt, q)
            /\ \A i \in DOMAIN q.tft :
                 /\ q.tft[i].name \in Name /\ q.tft[i].owners = {IpOf[q.sess]}
                 /\ q.type = "PEER_SYNC" => q.tft[i].op = FILE_NONE
      BY <1>0, <2>1, DispatchType, Zenon
    <2>3. UNCHANGED <<ft, tout, rpc, cfe, ctab, toPeer>>
      BY <2>1, Zenon DEF Dispatch
    <2>4. \A k \in DOMAIN pkt' : (k \in DOMAIN pkt /\ pkt'[k] = pkt[k]) \/ pkt'[k] = q
      <3>1. pkt \in Seq(ReceivedPacket)
        BY <1>0, Zenon DEF TypeOK
      <3> QED BY <2>2, <3>1, Appended, SMT
    <2>5. Sender'
      BY <1>0, <2>2, <2>4, SMT DEF Sender
    <2>6. OwnersAnnounced'
      BY <1>0, <2>2, <2>3, OwnersStay, Zenon
    <2>7. Building'
      BY <1>0, <2>2, <2>3, TruthStays, Zenon DEF Building
    <2>8. SentTruthful'
      BY <1>0, <2>2, <2>3, SentStays, Zenon
    <2> QED BY <2>5, <2>6, <2>7, <2>8, Zenon
  <1>2. ASSUME pkt' = pkt PROVE Sender'
    BY <1>0, <1>2, Zenon DEF Sender
  <1>4. ASSUME UNCHANGED <<pkt, tout>>, \A r \in Session : TrueTable(ctab'[r])
        PROVE  Building'
    <2>1. \A f, time, ip : Announced(f, time, ip) => Announced(f, time, ip)'
      BY <1>4, Zenon DEF Announced
    <2> QED BY <1>0, <1>4, <2>1, Zenon DEF Building, TrueTable, TrueEntry
  <1>5. ASSUME UNCHANGED <<pkt, toPeer>> PROVE SentTruthful'
    BY <1>0, <1>5, SentStays, Zenon
  <1>6. \A r \in Session : TrueTable(ctab[r])
    BY <1>0, Zenon DEF Building
  <1>8. CASE CleanupStrip(s) \/ CleanupDrop(s)
    <2>1. UNCHANGED <<pkt, tout, ctab, toPeer>>
      BY <1>8, Zenon DEF CleanupStrip, CleanupDrop
    <2>2. \A f \in DOMAIN ft' :
            /\ f \in DOMAIN ft /\ ft'[f].timestamp = ft[f].timestamp
            /\ ft'[f].owners \subseteq ft[f].owners
            /\ ft'[f].owners # {} \/ Stripped(f)'
      BY <1>0, <1>8, DeleteOwner, Zenon
    <2>3. OwnersAnnounced'
      <3>1. \A f, time, ip : Announced(f, time, ip) => Announced(f, time, ip)'
        BY <2>1, Zenon DEF Announced
      <3> QED BY <1>0, <2>2, <3>1, Zenon DEF OwnersAnnounced
    <2> QED BY <1>2, <1>4, <1>5, <1>6, <2>1, <2>3, Zenon
  <1>11. SUFFICES ASSUME ~CleanupStrip(s), ~CleanupDrop(s)
                 PROVE  Sender' /\ OwnersAnnounced' /\ Building' /\ SentTruthful'
    BY <1>8, Zenon
  <1>12. ASSUME UNCHANGED <<pkt, ft>>
        PROVE  OwnersAnnounced'
    <2>1. cfe' = cfe /\ \A r \in Session : rpc[r] = "drop" => rpc'[r] = "drop"
      BY <1>0, <1>11, ReceiverKeepsDrop, Zenon
    <2> QED BY <1>0, <1>12, <2>1, OwnersStay, Zenon DEF TypeOK
  <1>7. CASE \/ Accept(s) \/ PeerCloses(s) \/ RecvEnds(s) \/ RecvCancelled(s)
             \/ CleanupDelete(s) \/ CleanupLock(s) \/ CleanupClose(s) \/ CheckStep(s)
    <2>1. UNCHANGED <<pkt, ft, tout, ctab, toPeer>>
      BY <1>7, Zenon DEF Accept, PeerCloses, RecvEnds, RecvCancelled, CleanupDelete, CleanupLock,
           CleanupClose, CheckStep, CheckFind, CheckCompare
    <2> QED BY <1>2, <1>12, <1>4, <1>5, <1>6, <2>1, Zenon
  <1>9. CASE CleanupFill(s)
    <2>1. PICK tft \in [1 .. Cardinality(trans_table_fill_from(ft, FILE_MODIFY)) ->
                           trans_table_fill_from(ft, FILE_MODIFY)] :
                 ctab' = [ctab EXCEPT ![s] = tft]
      BY <1>9, Zenon DEF CleanupFill
    <2>2. FILE_MODIFY \in OpType
      BY Zenon DEF OpType
    <2>3. \A e \in trans_table_fill_from(ft, FILE_MODIFY) : TrueEntry(e)
      BY <1>0, <2>2, FillEntry, Zenon DEF trans_table_fill_from
    <2>4. TrueTable(tft)
      BY <2>3, Zenon DEF TrueTable
    <2>5. \A r \in Session : TrueTable(ctab'[r])
      BY <1>0, <1>6, <2>1, <2>4, Zenon DEF TypeOK
    <2>6. UNCHANGED <<pkt, ft, tout, toPeer>>
      BY <1>9, Zenon DEF CleanupFill
    <2> QED BY <1>2, <1>12, <1>4, <1>5, <2>5, <2>6, Zenon
  <1>10. CASE CleanupSend(s) \/ CleanupSendDies(s)
    <2>1. UNCHANGED <<pkt, ft, tout>> /\ Up
      BY <1>10, Zenon DEF CleanupSend, CleanupSendDies
    <2>2. \A r \in Session : TrueTable(ctab'[r])
      <3>1. ctab' = ctab \/ ctab' = [ctab EXCEPT ![s] = << >>]
        BY <1>10, Zenon DEF CleanupSend, CleanupSendDies
      <3>2. TrueTable(<< >>)
        BY SMT DEF TrueTable
      <3> QED BY <1>0, <1>6, <3>1, <3>2, Zenon DEF TypeOK
    <2>3. ctab[s] \in Seq(TransEntry) /\ pt \in Seq(PeerEntry)
      BY <1>0, Zenon DEF TypeOK
    <2>4. Broadcast(ctab[s]) \in Message /\ Broadcast(ctab[s]).tft = ctab[s]
      BY <2>3, BroadcastType, Zenon DEF Broadcast
    <2>5. \E fds : IsFiniteSet(DOMAIN fds) /\ SendAll(fds, Broadcast(ctab[s]))
      <3>1. CASE CleanupSend(s)
        BY <2>3, <3>1, BroadcastType, Zenon DEF CleanupSend
      <3>2. CASE CleanupSendDies(s)
        <4>1. PICK n \in DOMAIN pt :
                SendAll([i \in 1 .. n - 1 |-> pt[i].conn], Broadcast(ctab[s]))
          BY <3>2, Zenon DEF CleanupSendDies
        <4>2. IsFiniteSet(1 .. n - 1)
          BY <2>3, FS_Interval, SMT
        <4>3. DOMAIN [i \in 1 .. n - 1 |-> pt[i].conn] = 1 .. n - 1
          BY Zenon
        <4> QED BY <4>1, <4>2, <4>3, Zenon
      <3> QED BY <1>10, <3>1, <3>2, Zenon
    <2>6. SentTruthful'
      BY <1>0, <1>6, <2>1, <2>4, <2>5, SendTrue, Zenon
    <2> QED BY <1>2, <1>12, <1>4, <2>1, <2>2, <2>6, Zenon
  <1> QED BY <1>1, <1>7, <1>8, <1>9, <1>10, Zenon DEF ReceiverStep

-----------------------------------------------------------------------------
(* The theorems.                                                           *)

\* The invariant is inductive.
LEMMA InvariantInductive == IInv /\ [Next]_vars => IInv'
  <1> SUFFICES ASSUME IInv, [Next]_vars PROVE IInv'
    BY Zenon
  <1>1. ASSUME NEW s \in Session,
               Accept(s) \/ Receive(s) \/ PeerCloses(s) \/ ReceiverStep(s) \/ CheckStep(s)
        PROVE  IInv'
    BY <1>1, ReceiverTypeOK, ReceiverKeepsLocals, ReceiverTrue, Zenon DEF IInv
  <1>2. ASSUME NEW k \in TaskId, TaskStep(k)
        PROVE  IInv'
    BY <1>2, TaskTypeOK, TaskKeepsLocals, TaskTrue, Zenon DEF IInv
  <1>3. CASE UNCHANGED vars
    <2> USE <1>3 DEF vars, tabVars, peerVars, rcvVars, chkVars, taskVars, netVars
    <2>1. TypeOK'
      BY Zenon DEF IInv, TypeOK
    <2>2. Locals'
      BY Zenon DEF IInv, Locals, te
    <2>3. Sender'
      BY Zenon DEF IInv, Sender
    <2>6. SentTruthful'
      BY SentStays, Zenon DEF IInv, TypeOK
    <2>5. OwnersAnnounced'
      BY OwnersStay, Zenon DEF IInv, TypeOK
    <2>4. Building'
      <3>1. \A f, time, ip : Announced(f, time, ip) => Announced(f, time, ip)'
        BY Zenon DEF Announced
      <3> QED BY <3>1, Zenon DEF IInv, Building, TrueTable, TrueEntry
    <2> QED BY <2>1, <2>2, <2>3, <2>4, <2>5, <2>6, Zenon DEF IInv
  <1> QED BY <1>1, <1>2, <1>3, Zenon DEF Next

\* Every reachable state of the tracker satisfies the inductive invariant.
THEOREM TrackerInvariant == Spec => []IInv
  BY InitIInv, InvariantInductive, PTL DEF Spec

\* The tables, threads and messages keep their types.
THEOREM TrackerTypeOK == Spec => []TypeOK
  <1>1. IInv => TypeOK
    BY Zenon DEF IInv
  <1> QED BY <1>1, TrackerInvariant, PTL

\* Every owner in the file table announced the version the table holds, and every file has an
\* owner, except while file_table_delete_owner is about to test its list.
THEOREM TrackerOwnersAnnounced == Spec => []OwnersAnnounced
  <1>1. IInv => OwnersAnnounced
    BY Zenon DEF IInv
  <1> QED BY <1>1, TrackerInvariant, PTL

\* The peers are only ever told of owners that announced the version named.
THEOREM TrackerSentTruthful == Spec => []SentTruthful
  <1>1. IInv => SentTruthful
    BY Zenon DEF IInv
  <1> QED BY <1>1, TrackerInvariant, PTL

\* The timestamp of an entry that stays in the table never goes back.
THEOREM TrackerTimestampsAdvance == Spec => TimestampsAdvance
  <1> DEFINE Advance ==
        \A f \in DOMAIN ft \cap DOMAIN ft' : ft'[f].timestamp >= ft[f].timestamp
  <1>1. IInv /\ [Next]_vars => [Advance]_vars
    <2> SUFFICES ASSUME IInv, Next PROVE Advance
      BY Zenon
    <2>0. DOMAIN ft \subseteq Name /\ \A f \in DOMAIN ft : ft[f] \in FileEntry
      BY Zenon DEF IInv, TypeOK
    <2>1. \A f \in DOMAIN ft : ft[f].timestamp \in Nat
      BY <2>0, Zenon DEF FileEntry
    <2>2. ASSUME NEW k \in TaskId, TaskStep(k) PROVE Advance
      BY <2>2, TaskEffect, Zenon DEF Effect
    <2>3. ASSUME NEW s \in Session, CleanupStrip(s) \/ CleanupDrop(s) PROVE Advance
      <3>1. \A f \in DOMAIN ft' : ft'[f].timestamp = ft[f].timestamp
        BY <2>3, DeleteOwner, Zenon DEF IInv
      <3> QED BY <2>1, <3>1, ZenonT(15), SMTT(60)
    <2>4. ASSUME NEW s \in Session, ~CleanupStrip(s), ~CleanupDrop(s),
                 Accept(s) \/ Receive(s) \/ PeerCloses(s) \/ ReceiverStep(s) \/ CheckStep(s)
          PROVE  Advance
      <3>1. ft' = ft
        BY <2>4, Zenon DEF tabVars, Accept, Receive, Dispatch, PeerCloses, ReceiverStep, RecvEnds,
             RecvCancelled, CleanupDelete, CleanupFill, CleanupLock, CleanupSend,
             CleanupSendDies, CleanupClose, CheckStep, CheckFind, CheckCompare
      <3> QED BY <2>1, <3>1
    <2> QED BY <2>2, <2>3, <2>4, Zenon DEF Next
  <1> QED BY <1>1, TrackerInvariant, PTL DEF Spec, TimestampsAdvance
=============================================================================
