---------------------------- MODULE ClientLocks -----------------------------
(***************************************************************************)
(* Type correctness of Client and mutual exclusion of the downloads of a   *)
(* directory: proofs, for any sets of files, directories and packets and   *)
(* any number of downloads and edits.  The type invariant is cut into one  *)
(* part per group of variables, so that a step is looked at only where it  *)
(* changes something.                                                      *)
(***************************************************************************)
EXTENDS Client, FiniteSetTheorems, SequenceTheorems, TLAPS

USE DirAssumption, InAssumption, DiskAssumption, BoundAssumption, FileAssumption, ScriptAssumption

\* the places of the receiver at which it has an entry of a packet in hand
Busy == {"add", "update", "compare", "raise", "target", "lock", "remove", "dirTarget",
         "unwatch", "unblock"}

\* the places of a download
Places == {"idle", "name", "found", "mkdir", "lock", "open", "fetch", "hung", "stamp",
           "notify", "unblock", "fail", "failed", "done"}

FileEntry == [name : Name, timestamp : Nat, owners : SUBSET Ip]

TabOK ==
  /\ ent \in Seq(FileEntry)
  /\ live \subseteq DOMAIN ent /\ cut \subseteq DOMAIN ent

MonOK ==
  /\ tgt \in [Dir -> Nat] /\ gen \in [Dir -> Nat] /\ \A d \in Dir : tgt[d] <= gen[d]
  /\ tmx \in [Dir -> Task \cup {Nobody, Receiver}] /\ mMutex \in Task \cup {Nobody}

OnDiskFile == [content : Nat \cup {Partial}, mtime : Nat]

SysOK ==
  /\ disk \in [File -> OnDiskFile] /\ dirs \subseteq Dir
  /\ mask \in [Dir -> {"none", "default", "blocked", "lost"}]
  /\ events \in Seq(EventRecord)

\* todo holds the names to scan, and later the entries of a packet
RcvOK ==
  /\ fe \in 0 .. Len(ent) /\ rtg \in Nat /\ sub \in Nat /\ in \in Seq(TtopPacket)
  /\ pc = "scan" => \E S \in SUBSET Name : todo = <<S>>
  /\ pc \in Busy \cup {"apply"} => todo \in Seq(TransEntry)
  /\ pc \in Busy => todo # << >>
  /\ pc \in {"dirTarget", "unwatch"} => Te.name \in Dir

ObsOK ==
  /\ batch \in Seq(EventRecord) /\ otab \in Seq(TransEntry)
  /\ opc \in {"handle", "stat", "table"} => batch # << >>
  /\ opc = "table" => otab # << >>

\* only regular files are fetched
DlOK ==
  /\ dpc \in [Task -> Places] /\ dfe \in [Task -> 0 .. Len(ent)]
  /\ dtg \in [Task -> Nat] /\ dver \in [Task -> Nat]
  /\ \A k \in Task : dpc[k] # "idle" => dfe[k] # 0
  /\ \A k \in Task : dpc[k] = "fetch" => ent[dfe[k]].name \in File

HistOK ==
  /\ told \subseteq [op : OpType, name : Name, timestamp : Nat]
  /\ held \subseteq File \X Nat /\ race \subseteq Cause \X (Name \cup {Root})
  /\ edits \in 0 .. MaxEdit /\ proc \in {"up", "exit", "ub"}

Types == TabOK /\ MonOK /\ SysOK /\ RcvOK /\ ObsOK /\ DlOK /\ HistOK

-----------------------------------------------------------------------------
\* What a step leaves alone keeps its type.
LEMMA Same ==
  ASSUME Types
  PROVE  /\ UNCHANGED tabVars => TabOK'
         /\ UNCHANGED monVars => MonOK'
         /\ UNCHANGED sysVars => SysOK'
         /\ UNCHANGED <<rcvVars, ent>> => RcvOK'
         /\ UNCHANGED obsVars => ObsOK'
         /\ UNCHANGED <<dlVars, ent>> => DlOK'
         /\ UNCHANGED <<histVars, edits, proc>> => HistOK'
<1> USE DEF Types
<1>1. UNCHANGED tabVars => TabOK'
  BY Zenon DEF TabOK, tabVars
<1>2. UNCHANGED monVars => MonOK'
  BY Zenon DEF MonOK, monVars
<1>3. UNCHANGED sysVars => SysOK'
  BY Zenon DEF SysOK, sysVars
<1>4. UNCHANGED <<rcvVars, ent>> => RcvOK'
  BY Zenon DEF RcvOK, rcvVars, Te
<1>5. UNCHANGED obsVars => ObsOK'
  BY Zenon DEF ObsOK, obsVars
<1>6. UNCHANGED <<dlVars, ent>> => DlOK'
  BY Zenon DEF DlOK, dlVars
<1>7. UNCHANGED <<histVars, edits, proc>> => HistOK'
  BY Zenon DEF HistOK, histVars
<1> QED
  BY <1>1, <1>2, <1>3, <1>4, <1>5, <1>6, <1>7, Zenon

\* The entry of a download is allocated, and its file is in a directory.
LEMMA NameType ==
  ASSUME Types, NEW k \in Task, dpc[k] # "idle"
  PROVE  /\ dfe[k] \in DOMAIN ent /\ ent[dfe[k]] \in FileEntry
         /\ NameOf(k) \in Name /\ In[NameOf(k)] \in Dir
<1>1. dfe[k] \in 1 .. Len(ent) /\ ent \in Seq(FileEntry)
  BY DEF Types, TabOK, DlOK
<1>2. dfe[k] \in DOMAIN ent /\ ent[dfe[k]] \in FileEntry
  BY <1>1
<1>3. NameOf(k) \in Name
  BY <1>2, Zenon DEF NameOf, FileEntry
<1> QED
  BY <1>2, <1>3, Zenon

\* The entry of a packet that the receiver has in hand.
LEMMA TeType ==
  ASSUME Types, pc \in Busy \/ (pc = "apply" /\ todo # << >>)
  PROVE  Te \in TransEntry /\ Te.name \in Name /\ In[Te.name] \in Dir /\ Tail(todo) \in Seq(TransEntry)
<1>1. todo \in Seq(TransEntry) /\ todo # << >>
  BY Zenon DEF Types, RcvOK
<1>2. Head(todo) \in TransEntry /\ Tail(todo) \in Seq(TransEntry)
  BY <1>1
<1>3. Te.name \in Name
  BY <1>2, Zenon DEF Te, TransEntry
<1> QED
  BY <1>2, <1>3, Zenon DEF Te

\* The event that the monitor has in hand.
LEMMA EventType ==
  ASSUME Types, batch # << >>
  PROVE  /\ Head(batch) \in EventRecord /\ Head(batch).dir \in Dir /\ Head(batch).name \in Name
         /\ Tail(batch) \in Seq(EventRecord)
<1>1. batch \in Seq(EventRecord)
  BY Zenon DEF Types, ObsOK
<1>2. Head(batch) \in EventRecord /\ Tail(batch) \in Seq(EventRecord)
  BY <1>1
<1> QED
  BY <1>2, Zenon DEF EventRecord

\* The races that are noted have a cause and a name.
LEMMA RaceType ==
  ASSUME Types
  PROVE  /\ \A n \in Name : Missed(n) \subseteq Cause \X (Name \cup {Root})
         /\ \A n \in Name : Lost(n) \subseteq Cause \X (Name \cup {Root})
         /\ \A D \in SUBSET Dir : Exposed(D) \subseteq Cause \X (Name \cup {Root})
<1>1. \A n \in Name : Missed(n) \subseteq Cause \X (Name \cup {Root})
  BY DEF Missed, Cause
<1>2. \A n \in Name : Lost(n) \subseteq Cause \X (Name \cup {Root})
  BY DEF Lost, Cause
<1>3. \A k \in Task : dpc[k] \in Writing => <<"exposed", NameOf(k)>> \in Cause \X (Name \cup {Root})
  BY NameType, Zenon DEF Writing, Cause
<1> QED
  BY <1>1, <1>2, <1>3 DEF Exposed

-----------------------------------------------------------------------------
(* Steps of the file table: entries are never renamed and only appended.   *)

Grown == Len(ent') >= Len(ent) /\ \A i \in DOMAIN ent : ent'[i].name = ent[i].name

\* file_entry_update of an entry is an entry's timestamp and owners.
LEMMA UpdatedType ==
  ASSUME NEW x \in FileEntry, NEW te \in TransEntry
  PROVE  file_entry_update(x, te).timestamp \in Nat /\ file_entry_update(x, te).owners \in SUBSET Ip
BY Zenon DEF FileEntry, TransEntry, file_entry_update

\* Overwriting an entry with one of the same name.
LEMMA EntrySet ==
  ASSUME Types, NEW i \in DOMAIN ent, NEW x \in FileEntry, x.name = ent[i].name,
         ent' = [ent EXCEPT ![i] = x]
  PROVE  ent' \in Seq(FileEntry) /\ Grown /\ Len(ent') = Len(ent)
<1>1. ent \in Seq(FileEntry)
  BY Zenon DEF Types, TabOK
<1>2. ent \in [1 .. Len(ent) -> FileEntry] /\ Len(ent) \in Nat /\ DOMAIN ent = 1 .. Len(ent)
  BY <1>1
<1>3. ent' \in [1 .. Len(ent) -> FileEntry]
  BY <1>2, Zenon
<1>4. ent' \in Seq(FileEntry) /\ Len(ent') = Len(ent)
  BY <1>2, <1>3
<1>5. \A j \in DOMAIN ent : ent'[j].name = ent[j].name
  BY <1>2, Zenon
<1> QED
  BY <1>1, <1>2, <1>4, <1>5 DEF Grown

\* Overwriting some fields of an entry, but not its name.
LEMMA EntryUpdate ==
  ASSUME Types, NEW i \in DOMAIN ent, NEW t \in Nat, NEW o \in SUBSET Ip,
         \/ ent' = [ent EXCEPT ![i].timestamp = t, ![i].owners = o]
         \/ ent' = [ent EXCEPT ![i].timestamp = t]
         \/ ent' = [ent EXCEPT ![i].owners = o]
  PROVE  ent' \in Seq(FileEntry) /\ Grown /\ Len(ent') = Len(ent)
<1>1. ent[i] \in FileEntry
  BY DEF Types, TabOK
<1>2. CASE ent' = [ent EXCEPT ![i].timestamp = t, ![i].owners = o]
  <2> DEFINE x == [ent[i] EXCEPT !.timestamp = t, !.owners = o]
  <2>1. x \in FileEntry /\ x.name = ent[i].name
    BY <1>1, Zenon DEF FileEntry
  <2>2. ent' = [ent EXCEPT ![i] = x]
    BY <1>2, Zenon
  <2> QED
    BY <2>1, <2>2, EntrySet, Zenon
<1>3. CASE ent' = [ent EXCEPT ![i].timestamp = t]
  <2> DEFINE x == [ent[i] EXCEPT !.timestamp = t]
  <2>1. x \in FileEntry /\ x.name = ent[i].name
    BY <1>1, Zenon DEF FileEntry
  <2>2. ent' = [ent EXCEPT ![i] = x]
    BY <1>3, Zenon
  <2> QED
    BY <2>1, <2>2, EntrySet, Zenon
<1>4. CASE ent' = [ent EXCEPT ![i].owners = o]
  <2> DEFINE x == [ent[i] EXCEPT !.owners = o]
  <2>1. x \in FileEntry /\ x.name = ent[i].name
    BY <1>1, Zenon DEF FileEntry
  <2>2. ent' = [ent EXCEPT ![i] = x]
    BY <1>4, Zenon
  <2> QED
    BY <2>1, <2>2, EntrySet, Zenon
<1> QED
  BY <1>2, <1>3, <1>4, Zenon

\* A table that is sent to the tracker stays one when an entry is put at its end.
LEMMA Extended ==
  ASSUME NEW S, NEW q \in Seq(S), NEW x \in S, NEW t, t = Append(q, x)
  PROVE  t \in Seq(S) /\ t # << >>
<1>1. t \in Seq(S) /\ Len(t) = Len(q) + 1 /\ Len(q) \in Nat
  OBVIOUS
<1> QED
  BY <1>1

\* Appending an entry leaves the others alone.
LEMMA EntryAppend ==
  ASSUME Types, NEW x \in FileEntry, ent' = Append(ent, x)
  PROVE  /\ ent' \in Seq(FileEntry) /\ Grown /\ Len(ent') = Len(ent) + 1
         /\ ent'[Len(ent) + 1] = x /\ DOMAIN ent \subseteq DOMAIN ent'
<1>1. ent \in Seq(FileEntry)
  BY Zenon DEF Types, TabOK
<1> QED
  BY <1>1 DEF Grown

\* ... whatever is appended.
LEMMA AppendGrown ==
  ASSUME Types, NEW x, NEW t, t = Append(ent, x)
  PROVE  Len(t) >= Len(ent) /\ \A i \in DOMAIN ent : t[i].name = ent[i].name
<1>1. ent \in Seq(FileEntry)
  BY Zenon DEF Types, TabOK
<1> QED
  BY <1>1

\* file_table_add returns an entry with the name that was asked for.
LEMMA AddType ==
  ASSUME Types, NEW te \in TransEntry, NEW i, AddEntry(te, i)
  PROVE  /\ ent' \in Seq(FileEntry) /\ Grown /\ live' \subseteq DOMAIN ent' /\ live \subseteq live'
         /\ i \in DOMAIN ent' /\ i \in live' /\ DOMAIN ent \subseteq DOMAIN ent'
<1>1. ent \in Seq(FileEntry) /\ live \subseteq DOMAIN ent
  BY Zenon DEF Types, TabOK
<1>2. CASE i = Len(ent) + 1 /\ ent' = Append(ent, NewEntry(te)) /\ live' = live \cup {i}
  <2>1. NewEntry(te) \in FileEntry
    BY Zenon DEF NewEntry, FileEntry, TransEntry
  <2>2. /\ ent' \in Seq(FileEntry) /\ Grown /\ Len(ent') = Len(ent) + 1
        /\ DOMAIN ent \subseteq DOMAIN ent'
    BY <1>2, <2>1, EntryAppend, Zenon
  <2> QED
    BY <1>1, <1>2, <2>2
<1>3. CASE /\ Search(te.name, i) /\ i # 0
           /\ ent' = [ent EXCEPT ![i].timestamp = file_entry_update(ent[i], te).timestamp,
                                 ![i].owners = file_entry_update(ent[i], te).owners]
           /\ UNCHANGED live
  <2>1. i \in live
    BY <1>3, Zenon DEF Search, Matches
  <2>2. i \in DOMAIN ent /\ ent[i] \in FileEntry
    BY <1>1, <2>1
  <2>3. ent' \in Seq(FileEntry) /\ Grown /\ Len(ent') = Len(ent)
    <3> DEFINE u == file_entry_update(ent[i], te)
    <3>1. u.timestamp \in Nat /\ u.owners \in SUBSET Ip
      BY <2>2, UpdatedType, Zenon
    <3>2. ent' = [ent EXCEPT ![i].timestamp = u.timestamp, ![i].owners = u.owners]
      BY <1>3, Zenon
    <3> HIDE DEF u
    <3> QED
      BY <2>2, <3>1, <3>2, EntryUpdate, Zenon
  <2> QED
    BY <1>1, <1>3, <2>1, <2>3, Zenon
<1> QED
  BY <1>2, <1>3, Zenon DEF AddEntry

\* file_table_update changes at most the timestamp and the owners of an entry.
LEMMA UpdateType ==
  ASSUME Types, NEW te \in TransEntry, UpdateEntry(te)
  PROVE  ent' \in Seq(FileEntry) /\ Grown /\ Len(ent') = Len(ent) /\ UNCHANGED live
<1>1. ent \in Seq(FileEntry) /\ live \subseteq DOMAIN ent
  BY Zenon DEF Types, TabOK
<1>2. PICK i \in 0 .. Len(ent) :
        /\ Search(te.name, i)
        /\ IF i = 0 THEN UNCHANGED ent
           ELSE ent' = [ent EXCEPT ![i].timestamp = file_entry_update(ent[i], te).timestamp,
                                   ![i].owners = file_entry_update(ent[i], te).owners]
  BY Zenon DEF UpdateEntry
<1>3. CASE i = 0
  BY <1>1, <1>2, <1>3 DEF UpdateEntry, Grown
<1>4. CASE i # 0
  <2>1. i \in DOMAIN ent /\ ent[i] \in FileEntry
    BY <1>1, <1>2, <1>4
  <2> DEFINE u == file_entry_update(ent[i], te)
  <2>2. u.timestamp \in Nat /\ u.owners \in SUBSET Ip
    BY <2>1, UpdatedType, Zenon
  <2>3. ent' = [ent EXCEPT ![i].timestamp = u.timestamp, ![i].owners = u.owners]
    BY <1>2, <1>4, Zenon
  <2> HIDE DEF u
  <2>4. ent' \in Seq(FileEntry) /\ Grown /\ Len(ent') = Len(ent)
    BY <2>1, <2>2, <2>3, EntryUpdate, Zenon
  <2> QED
    BY <2>4, Zenon DEF UpdateEntry
<1> QED
  BY <1>3, <1>4, Zenon

\* Locals that refer to entries stay in range when the table grows.
LEMMA GrownLocals ==
  ASSUME Types, ent' \in Seq(FileEntry), Grown
  PROVE  /\ UNCHANGED dlVars => DlOK'
         /\ UNCHANGED rcvVars => RcvOK'
<1>1. /\ ent \in Seq(FileEntry) /\ Len(ent) \in Nat /\ Len(ent') \in Nat /\ Len(ent') >= Len(ent)
      /\ 0 .. Len(ent) \subseteq 0 .. Len(ent')
  BY DEF Types, TabOK, Grown
<1>2. UNCHANGED dlVars => DlOK'
  <2> SUFFICES ASSUME UNCHANGED dlVars PROVE DlOK'
    BY Zenon
  <2>1. \A k \in Task : dpc[k] = "fetch" => ent'[dfe[k]].name = ent[dfe[k]].name
    BY NameType, Zenon DEF Grown
  <2> QED
    BY <1>1, <2>1, Zenon DEF Types, DlOK, dlVars
<1>3. UNCHANGED rcvVars => RcvOK'
  BY <1>1, Zenon DEF Types, RcvOK, rcvVars, Te
<1> QED
  BY <1>2, <1>3, Zenon

-----------------------------------------------------------------------------
(* Steps of the monitor's table and of the inotify queue.                  *)

Kinds == {"create", "modify", "delete", "self"}

\* The queue holds events, also after one more.
LEMMA EmittedType ==
  ASSUME Types, NEW d \in Dir, NEW n \in Name, NEW kind \in Kinds, NEW by \in {"user", "peer"}
  PROVE  Emitted(d, n, kind, by) \in Seq(EventRecord)
<1>1. events \in Seq(EventRecord) /\ tgt[d] \in Nat
  BY Zenon DEF Types, SysOK, MonOK
<1>2. [dir |-> d, tid |-> tgt[d], name |-> n, kind |-> kind, by |-> by] \in EventRecord
  BY <1>1, Zenon DEF EventRecord, Kinds
<1> QED
  BY <1>1, <1>2 DEF Emitted

\* watch_target_add never goes back to an earlier target.
LEMMA TargetAddType ==
  ASSUME Types, NEW d \in Dir, TargetAdd(d), UNCHANGED <<tmx, mMutex>>
  PROVE  MonOK' /\ tgt'[d] \in Nat
<1>1. /\ tgt \in [Dir -> Nat] /\ gen \in [Dir -> Nat] /\ \A c \in Dir : tgt[c] <= gen[c]
      /\ tmx \in [Dir -> Task \cup {Nobody, Receiver}] /\ mMutex \in Task \cup {Nobody}
  BY Zenon DEF Types, MonOK
<1>2. tgt' \in [Dir -> Nat] /\ gen' \in [Dir -> Nat]
  BY <1>1 DEF TargetAdd
<1>3. \A c \in Dir : tgt'[c] <= gen'[c]
  BY <1>1 DEF TargetAdd
<1> QED
  BY <1>1, <1>2, <1>3, Zenon DEF MonOK

\* file_monitor_block and file_monitor_unblock take and release a mutex.
LEMMA BlockType ==
  ASSUME Types, NEW d \in Dir, NEW who \in Task \cup {Receiver}, NEW t,
         BlockTarget(d, t, who) \/ UnblockTarget(d, t)
  PROVE  MonOK' /\ SysOK'
<1>1. /\ tgt \in [Dir -> Nat] /\ gen \in [Dir -> Nat] /\ \A c \in Dir : tgt[c] <= gen[c]
      /\ tmx \in [Dir -> Task \cup {Nobody, Receiver}] /\ mMutex \in Task \cup {Nobody}
      /\ mask \in [Dir -> {"none", "default", "blocked", "lost"}]
  BY Zenon DEF Types, MonOK, SysOK
<1>2. tmx' \in [Dir -> Task \cup {Nobody, Receiver}]
  <2>1. CASE BlockTarget(d, t, who)
    BY <1>1, <2>1, Zenon DEF BlockTarget
  <2>2. CASE UnblockTarget(d, t)
    BY <1>1, <2>2, Zenon DEF UnblockTarget
  <2> QED
    BY <2>1, <2>2, Zenon
<1>3. MonOK'
  BY <1>1, <1>2, Zenon DEF MonOK, BlockTarget, UnblockTarget
<1>4. mask' \in [Dir -> {"none", "default", "blocked", "lost"}]
  BY <1>1, Zenon DEF BlockTarget, UnblockTarget, Watched
<1>5. SysOK'
  BY <1>4, Zenon DEF Types, SysOK, BlockTarget, UnblockTarget
<1> QED
  BY <1>3, <1>5, Zenon

\* A target that is freed leaves its directory without one.
LEMMA FreeType ==
  ASSUME Types, NEW d \in Dir, FreeTarget(d), UNCHANGED <<disk, dirs, events>>
  PROVE  MonOK' /\ SysOK' /\ proc' \in {"up", "exit", "ub"}
<1>1. /\ tgt \in [Dir -> Nat] /\ gen \in [Dir -> Nat] /\ \A c \in Dir : tgt[c] <= gen[c]
      /\ tmx \in [Dir -> Task \cup {Nobody, Receiver}] /\ mMutex \in Task \cup {Nobody}
      /\ mask \in [Dir -> {"none", "default", "blocked", "lost"}]
  BY Zenon DEF Types, MonOK, SysOK
<1>2. tgt' \in [Dir -> Nat] /\ tmx' \in [Dir -> Task \cup {Nobody, Receiver}]
  BY <1>1, Zenon DEF FreeTarget
<1>3. \A c \in Dir : tgt'[c] <= gen'[c]
  BY <1>1 DEF FreeTarget
<1>4. MonOK'
  BY <1>1, <1>2, <1>3, Zenon DEF MonOK, FreeTarget
<1>5. SysOK'
  BY <1>1, Zenon DEF Types, SysOK, FreeTarget
<1> QED
  BY <1>4, <1>5, Zenon DEF FreeTarget, Types, HistOK

\* A file that is written, or gets another time, is still a file.
LEMMA DiskType ==
  ASSUME Types, NEW n \in File
  PROVE  /\ \A x \in OnDiskFile : [disk EXCEPT ![n] = x] \in [File -> OnDiskFile]
         /\ \A v \in Nat : [disk EXCEPT ![n].content = v] \in [File -> OnDiskFile]
         /\ \A v \in Nat : [disk EXCEPT ![n].mtime = v] \in [File -> OnDiskFile]
         /\ disk[n].mtime \in Nat
<1>1. disk \in [File -> OnDiskFile]
  BY Zenon DEF Types, SysOK
<1>2. disk[n] \in OnDiskFile
  BY <1>1, Zenon
<1>3. \A v \in Nat : [disk[n] EXCEPT !.content = v] \in OnDiskFile
  BY <1>2, Zenon DEF OnDiskFile
<1>4. \A v \in Nat : [disk[n] EXCEPT !.mtime = v] \in OnDiskFile
  BY <1>2, Zenon DEF OnDiskFile
<1>5. \A v \in Nat : [disk EXCEPT ![n].content = v] = [disk EXCEPT ![n] = [disk[n] EXCEPT !.content = v]]
  BY <1>1, Zenon
<1>6. \A v \in Nat : [disk EXCEPT ![n].mtime = v] = [disk EXCEPT ![n] = [disk[n] EXCEPT !.mtime = v]]
  BY <1>1, Zenon
<1>7. \A x \in OnDiskFile : [disk EXCEPT ![n] = x] \in [File -> OnDiskFile]
  BY <1>1, Zenon
<1>8. disk[n].mtime \in Nat
  BY <1>2, Zenon DEF OnDiskFile
<1> QED
  BY <1>3, <1>4, <1>5, <1>6, <1>7, <1>8, Zenon

-----------------------------------------------------------------------------
(* Steps of a download.                                                    *)

\* A download that goes anywhere but to "fetch".
LEMMA StepType ==
  ASSUME Types, NEW k \in Task, dpc[k] # "idle",
         NEW to \in Places, to # "fetch", dpc' = [dpc EXCEPT ![k] = to],
         UNCHANGED <<dfe, ent>>, dtg' \in [Task -> Nat], dver' \in [Task -> Nat]
  PROVE  DlOK'
<1>1. /\ dpc \in [Task -> Places] /\ dfe \in [Task -> 0 .. Len(ent)]
      /\ \A j \in Task : dpc[j] # "idle" => dfe[j] # 0
      /\ \A j \in Task : dpc[j] = "fetch" => ent[dfe[j]].name \in File
  BY Zenon DEF Types, DlOK
<1>2. dpc' \in [Task -> Places]
  BY <1>1, Zenon
<1>3. \A j \in Task : dpc'[j] # "idle" => dfe'[j] # 0
  BY <1>1, Zenon
<1>4. \A j \in Task : dpc'[j] = "fetch" => ent'[dfe'[j]].name \in File
  BY <1>1, Zenon
<1> QED
  BY <1>1, <1>2, <1>3, <1>4, Zenon DEF DlOK

\* Every step of ptop_download_task keeps the types.
LEMMA DownloadTypes ==
  ASSUME Types, NEW k \in Task, DownloadStep(k)
  PROVE  Types'
<1> DEFINE f == NameOf(k)
           d == In[NameOf(k)]
<1>a. ASSUME dpc[k] # "idle"
      PROVE  dfe[k] \in DOMAIN ent /\ ent[dfe[k]] \in FileEntry /\ f \in Name /\ d \in Dir
  BY <1>a, NameType, Zenon
<1>b. /\ dpc \in [Task -> Places] /\ dtg \in [Task -> Nat] /\ dver \in [Task -> Nat]
      /\ tgt \in [Dir -> Nat] /\ cut \subseteq DOMAIN ent
      /\ race \subseteq Cause \X (Name \cup {Root}) /\ held \subseteq File \X Nat
      /\ disk \in [File -> OnDiskFile] /\ dirs \subseteq Dir
      /\ mask \in [Dir -> {"none", "default", "blocked", "lost"}]
  BY Zenon DEF Types, DlOK, MonOK, TabOK, HistOK, SysOK
<1> HIDE DEF f, d
<1>1. CASE CutName(k)
  <2> USE <1>1 DEF CutName, Step
  <2>1. DlOK'
    BY <1>b, StepType, Zenon DEF Places
  <2>2. TabOK'
    BY <1>a, Zenon DEF Types, TabOK
  <2>3. MonOK'
    BY Zenon DEF Types, MonOK
  <2> QED
    BY <2>1, <2>2, <2>3, Same, Zenon DEF Types, rcvVars, obsVars, sysVars, histVars
<1>2. CASE FindTarget(k)
  <2> USE <1>2 DEF FindTarget, Step
  <2>1. DlOK'
    <3>1. dpc[k] # "idle"
      BY Zenon
    <3>2. dtg' \in [Task -> Nat]
      BY <1>a, <1>b, <3>1, Zenon DEF d
    <3>3. PICK to \in {"mkdir", "lock"} : dpc' = [dpc EXCEPT ![k] = to]
      BY Zenon
    <3> QED
      BY <1>b, <3>1, <3>2, <3>3, StepType, Zenon DEF Places
  <2>2. TabOK'
    BY Zenon DEF Types, TabOK
  <2>3. MonOK'
    BY Zenon DEF Types, MonOK
  <2> QED
    BY <2>1, <2>2, <2>3, Same, Zenon DEF Types, rcvVars, obsVars, sysVars, histVars
<1>3. CASE MakeDirectory(k)
  <2> USE <1>3 DEF MakeDirectory, Step
  <2>0. dpc[k] # "idle" /\ d \in Dir
    BY <1>a, Zenon
  <2>1. MonOK' /\ dtg' \in [Task -> Nat]
    <3>1. CASE TargetAdd(d) /\ dtg' = [dtg EXCEPT ![k] = tgt'[d]]
      BY <1>b, <2>0, <3>1, TargetAddType, Zenon
    <3>2. CASE UNCHANGED <<tgt, gen, dtg>>
      BY <1>b, <3>2, Same, Zenon DEF monVars
    <3> QED
      BY <3>1, <3>2, Zenon DEF d
  <2>2. DlOK'
    <3>1. PICK to \in {"lock", "failed"} : dpc' = [dpc EXCEPT ![k] = to]
      BY Zenon
    <3> QED
      BY <1>b, <2>0, <2>1, <3>1, StepType, Zenon DEF tabVars, Places
  <2>3. SysOK'
    <3>1. CASE dirs' = dirs \cup {d} /\ mask' = [mask EXCEPT ![Root] = "default", ![d] = "default"]
      BY <1>b, <2>0, <3>1, Zenon DEF Types, SysOK
    <3>2. CASE UNCHANGED <<dirs, mask>>
      BY <3>2, Zenon DEF Types, SysOK
    <3> QED
      BY <3>1, <3>2, Zenon DEF d
  <2>4. HistOK'
    <3>1. Exposed({Root, d}) \subseteq Cause \X (Name \cup {Root})
      BY <2>0, RaceType, Zenon
    <3>2. race' \subseteq race \cup Exposed({Root, d})
      BY Zenon DEF d
    <3> QED
      BY <1>b, <3>1, <3>2, Zenon DEF Types, HistOK
  <2> QED
    BY <2>1, <2>2, <2>3, <2>4, Same, Zenon DEF Types, tabVars, rcvVars, obsVars
<1>4. CASE Block(k)
  <2> USE <1>4 DEF Block, Step
  <2>1. MonOK' /\ SysOK'
    BY <1>a, BlockType, Zenon DEF d
  <2>2. DlOK'
    BY <1>b, StepType, Zenon DEF tabVars, Places
  <2> QED
    BY <2>1, <2>2, Same, Zenon DEF Types, tabVars, rcvVars, obsVars, histVars
<1>5. CASE OpenFile(k)
  <2> USE <1>5 DEF OpenFile, Step
  <2>0. dpc[k] # "idle" /\ f \in File /\ f \in Name /\ d \in Dir /\ ent[dfe[k]].timestamp \in Nat
    BY <1>a, Zenon DEF f, FileEntry
  <2>1. SysOK'
    <3>1. CASE /\ disk' = [disk EXCEPT ![f] = [content |-> Partial, mtime |-> Now]]
               /\ events' = Emitted(d, f, IF Exists(f) THEN "modify" ELSE "create", "peer")
      <4>1. events' \in Seq(EventRecord)
        BY <2>0, <3>1, EmittedType, Zenon DEF Kinds
      <4>2. disk' \in [File -> OnDiskFile]
        <5>1. [content |-> Partial, mtime |-> Now] \in OnDiskFile
          BY Zenon DEF OnDiskFile
        <5> QED
          BY <2>0, <3>1, <5>1, DiskType, Zenon
      <4> QED
        BY <4>1, <4>2, Zenon DEF Types, SysOK
    <3>2. CASE UNCHANGED <<disk, events>>
      BY <3>2, Same, Zenon DEF sysVars
    <3> QED
      BY <3>1, <3>2, Zenon DEF d, f
  <2>2. DlOK'
    <3>0. UNCHANGED <<ent, dfe, dtg>>
      BY Zenon DEF tabVars
    <3>1. dver' \in [Task -> Nat]
      BY <1>b, <2>0, Zenon
    <3>2. CASE dpc' = [dpc EXCEPT ![k] = "fetch"]
      <4>1. dpc' \in [Task -> Places]
        BY <1>b, <3>2, Zenon DEF Places
      <4>2. \A j \in Task : dpc'[j] # "idle" => dfe[j] # 0
        BY <1>b, <2>0, <3>2, Zenon DEF Types, DlOK
      <4>3. \A j \in Task : dpc'[j] = "fetch" => ent[dfe[j]].name \in File
        BY <1>b, <2>0, <3>2, Zenon DEF Types, DlOK, f, NameOf
      <4> QED
        BY <3>0, <3>1, <4>1, <4>2, <4>3, Zenon DEF Types, DlOK
    <3>3. CASE dpc' = [dpc EXCEPT ![k] = "fail"]
      <4> HIDE <1>5 DEF OpenFile, Step
      <4>1. "fail" \in Places /\ "fail" # "fetch"
        BY Zenon DEF Places
      <4> QED
        BY <1>b, <2>0, <3>0, <3>1, <3>3, <4>1, StepType, Zenon
    <3>4. Verdict(-1) = "fail"
      BY DEF Verdict
    <3> QED
      BY <3>2, <3>3, <3>4, Zenon
  <2> QED
    BY <2>1, <2>2, Same, Zenon DEF Types, tabVars, monVars, rcvVars, obsVars, histVars
<1>6. CASE OpenDirectory(k)
  <2> USE <1>6 DEF OpenDirectory, Step
  <2>0. dpc[k] # "idle" /\ f \in Dir \ {Root} /\ f \in Name
    BY <1>a, Zenon DEF f, Name
  <2>1. DlOK'
    <3>1. PICK to \in {"stamp", "fail"} : dpc' = [dpc EXCEPT ![k] = to]
      BY Zenon DEF Verdict
    <3> QED
      BY <1>b, <2>0, <3>1, StepType, Zenon DEF tabVars, Places
  <2>2. CASE UNCHANGED <<dirs, mask, events, tgt, gen, race>>
    BY <2>1, <2>2, Same, Zenon DEF Types, tabVars, monVars, sysVars, rcvVars, obsVars, histVars
  <2>3. CASE /\ dirs' = dirs \cup {f} /\ mask' = [mask EXCEPT ![f] = "default"]
             /\ events' = Emitted(Root, f, "create", "peer")
             /\ TargetAdd(f) /\ race' = race \cup Exposed({f})
    <3>1. MonOK'
      BY <2>0, <2>3, TargetAddType, Zenon
    <3>2. events' \in Seq(EventRecord)
      BY <2>0, <2>3, EmittedType, Zenon DEF Kinds
    <3>3. SysOK'
      BY <1>b, <2>0, <2>3, <3>2, Zenon DEF Types, SysOK
    <3>4. Exposed({f}) \subseteq Cause \X (Name \cup {Root})
      BY <2>0, RaceType, Zenon
    <3>5. HistOK'
      BY <1>b, <2>3, <3>4, Zenon DEF Types, HistOK
    <3> QED
      BY <2>1, <3>1, <3>3, <3>5, Same, Zenon DEF Types, tabVars, rcvVars, obsVars
  <2> QED
    BY <2>2, <2>3, Zenon DEF f
<1>7. CASE FetchFile(k)
  <2> USE <1>7 DEF FetchFile, Step
  <2>0. dpc[k] # "idle" /\ f \in File /\ f \in Name /\ d \in Dir
    BY <1>a, Zenon DEF f, NameOf, Types, DlOK
  <2>1. DlOK'
    <3>1. PICK to \in {"stamp", "fail", "hung"} : dpc' = [dpc EXCEPT ![k] = to]
      BY Zenon DEF Verdict
    <3> QED
      BY <1>b, <2>0, <3>1, StepType, Zenon DEF tabVars, Places
  <2>2. events' \in Seq(EventRecord)
    <3>1. events' = events \/ events' = Emitted(d, f, "modify", "peer")
      BY Zenon DEF d, f
    <3>2. Emitted(d, f, "modify", "peer") \in Seq(EventRecord)
      BY <2>0, EmittedType, Zenon DEF Kinds
    <3> QED
      BY <3>1, <3>2, Zenon DEF Types, SysOK
  <2>3. disk' = [disk EXCEPT ![f].content = dver[k]] \/ disk' = disk
    BY Zenon DEF f
  <2>4. disk' \in [File -> OnDiskFile]
    <3>1. dver[k] \in Nat
      BY <1>b, Zenon
    <3>2. [disk EXCEPT ![f].content = dver[k]] \in [File -> OnDiskFile]
      <4> HIDE <1>7 DEF FetchFile, Step
      <4> QED
        BY <2>0, <3>1, DiskType, Zenon
    <3> HIDE <1>7 DEF FetchFile, Step
    <3> QED
      BY <1>b, <2>3, <3>2, Zenon
  <2>5. SysOK'
    BY <2>2, <2>4, Zenon DEF Types, SysOK
  <2>6. held' \subseteq held \cup {<<f, dver[k]>>} /\ race' \subseteq race \cup {<<"masked", f>>}
    BY Zenon DEF f
  <2>7. HistOK'
    BY <1>b, <2>0, <2>6 DEF Types, HistOK, Cause
  <2> QED
    BY <2>1, <2>5, <2>7, Same, Zenon DEF Types, tabVars, monVars, rcvVars, obsVars
<1>8. CASE StampFile(k)
  <2> USE <1>8 DEF StampFile, Step
  <2>0. dpc[k] # "idle" /\ ent[dfe[k]].timestamp \in Nat
    BY <1>a, Zenon DEF FileEntry
  <2>1. DlOK'
    BY <1>b, <2>0, StepType, Zenon DEF tabVars, Places
  <2>2. disk' \in [File -> OnDiskFile]
    <3>1. disk' = disk \/ (f \in File /\ disk' = [disk EXCEPT ![f].mtime = ent[dfe[k]].timestamp])
      BY Zenon DEF f
    <3> QED
      BY <1>b, <2>0, <3>1, DiskType, Zenon
  <2>3. SysOK'
    BY <2>2, Zenon DEF Types, SysOK
  <2> QED
    BY <2>1, <2>3, Same, Zenon DEF Types, tabVars, monVars, rcvVars, obsVars, histVars
<1>9. CASE notify_tracker_add_me(k)
  <2> USE <1>9 DEF notify_tracker_add_me, Step
  <2>0. dpc[k] # "idle" /\ f \in Name /\ ent[dfe[k]].timestamp \in Nat
    BY <1>a, Zenon DEF FileEntry
  <2>1. DlOK'
    BY <1>b, <2>0, StepType, Zenon DEF tabVars, Places
  <2>2. HistOK'
    BY <2>0 DEF Types, HistOK, OpType, f
  <2> QED
    BY <2>1, <2>2, Same, Zenon DEF Types, tabVars, monVars, sysVars, rcvVars, obsVars
<1>10. CASE Unblock(k)
  <2> USE <1>10 DEF Unblock, Step
  <2>0. dpc[k] # "idle"
    BY Zenon
  <2>1. MonOK' /\ SysOK'
    BY <1>a, <2>0, BlockType, Zenon DEF d
  <2>2. PICK to \in {"done", "failed"} : dpc' = [dpc EXCEPT ![k] = to]
    BY Zenon
  <2>3. DlOK'
    BY <1>b, <2>0, <2>2, StepType, Zenon DEF tabVars, Places
  <2> QED
    BY <2>1, <2>3, Same, Zenon DEF Types, tabVars, rcvVars, obsVars, histVars
<1>11. CASE UseAfterFree(k)
  <2> USE <1>11 DEF UseAfterFree, Undefined
  <2>1. HistOK'
    BY Zenon DEF Types, HistOK, histVars
  <2> QED
    BY <2>1, Same, Zenon DEF Types, tabVars
<1> QED
  BY <1>1, <1>2, <1>3, <1>4, <1>5, <1>6, <1>7, <1>8, <1>9, <1>10, <1>11, Zenon DEF DownloadStep

-----------------------------------------------------------------------------
(* Steps of client_start and ttop_receiver_task.                           *)

\* Where the receiver only moves on.
LEMMA MoveType ==
  ASSUME Types, UNCHANGED <<ent, fe, rtg, sub>>, in' \in Seq(TtopPacket),
         \/ pc' \notin Busy \cup {"apply", "scan"}
         \/ pc' = "apply" /\ todo' \in Seq(TransEntry)
         \/ pc' = "scan" /\ \E S \in SUBSET Name : todo' = <<S>>
         \/ /\ pc' \in Busy /\ (pc \in Busy \/ (pc = "apply" /\ todo # << >>)) /\ todo' = todo
            /\ pc' \in {"dirTarget", "unwatch"} => Te.name \in Dir
  PROVE  RcvOK'
<1>1. fe' \in 0 .. Len(ent') /\ rtg' \in Nat /\ sub' \in Nat
  BY Zenon DEF Types, RcvOK
<1>2. pc' = "scan" => \E S \in SUBSET Name : todo' = <<S>>
  BY Zenon DEF Busy
<1>3. pc \in Busy \cup {"apply"} => todo \in Seq(TransEntry)
  BY Zenon DEF Types, RcvOK
<1>4. pc' \in Busy \cup {"apply"} => todo' \in Seq(TransEntry)
  BY <1>3, Zenon DEF Busy
<1>5. pc' \in Busy => todo' # << >>
  BY Zenon DEF Busy, Types, RcvOK
<1>6. pc' \in {"dirTarget", "unwatch"} => Te'.name \in Dir
  BY Zenon DEF Busy, Te
<1> QED
  BY <1>1, <1>2, <1>4, <1>5, <1>6, Zenon DEF RcvOK

\* The next packet of the tracker.
LEMMA PacketType ==
  ASSUME Types, in # << >>
  PROVE  Head(in).tft \in Seq(TransEntry) /\ Tail(in) \in Seq(TtopPacket)
<1>1. in \in Seq(TtopPacket)
  BY Zenon DEF Types, RcvOK
<1>2. Head(in) \in TtopPacket /\ Tail(in) \in Seq(TtopPacket)
  BY <1>1
<1> QED
  BY <1>2, Zenon DEF TtopPacket

\* Every step of client_start up to the answer of the tracker keeps the types.
LEMMA StartTypes ==
  ASSUME Types,
         \/ pthread_wait_init \/ pthread_wait_for \/ Woken \/ Scan \/ SendSync \/ RecvSync
         \/ Recv \/ Applied \/ SkipNone
  PROVE  Types'
<1>a. in \in Seq(TtopPacket) /\ ent \in Seq(FileEntry) /\ live \subseteq DOMAIN ent
  BY Zenon DEF Types, RcvOK, TabOK
<1>1. CASE pthread_wait_init
  <2> USE <1>1 DEF pthread_wait_init, Goto
  <2>1. RcvOK'
    BY <1>a, MoveType, Zenon DEF tabVars, Busy
  <2> QED
    BY <2>1, Same, Zenon DEF Types, tabVars
<1>2. CASE pthread_wait_for
  <2> USE <1>2 DEF pthread_wait_for, Goto
  <2>1. RcvOK'
    BY <1>a, MoveType, Zenon DEF tabVars, Busy
  <2> QED
    BY <2>1, Same, Zenon DEF Types, tabVars
<1>3. CASE Woken
  <2> USE <1>3 DEF Woken, Goto
  <2>1. RcvOK'
    <3>1. \E S \in SUBSET Name : todo' = <<S>>
      BY Zenon
    <3> QED
      BY <1>a, <3>1, MoveType, Zenon DEF tabVars, Busy
  <2>2. TabOK'
    BY Zenon DEF Types, TabOK
  <2>3. HistOK'
    BY Zenon DEF Types, HistOK, histVars
  <2> QED
    BY <2>1, <2>2, <2>3, Same, Zenon DEF Types
<1>4. CASE Scan
  <2> USE <1>4 DEF Scan, Goto
  <2>0. PICK S \in SUBSET Name : todo = <<S>>
    BY Zenon DEF Types, RcvOK
  <2>1. PICK n \in S :
          /\ todo' = <<S \ {n}>>
          /\ \/ /\ Exists(n)
                /\ ent' = Append(ent, [name |-> n, owners |-> {Me},
                                       timestamp |-> IF n \in File THEN disk[n].mtime ELSE Now])
                /\ live' = live \cup {Len(ent) + 1}
                /\ race' = race \cup (IF Matches(n) # {} THEN {<<"scanned", n>>} ELSE {})
             \/ UNCHANGED <<ent, live, race>>
    <3>1. Head(todo) = S
      BY <2>0
    <3> QED
      BY <3>1, Zenon
  <2>2. n \in Name /\ \E R \in SUBSET Name : todo' = <<R>>
    BY <2>1, Zenon
  <2>3. HistOK'
    BY <2>1, <2>2 DEF Types, HistOK, Cause
  <2>4. CASE UNCHANGED <<ent, live, race>>
    <3>1. RcvOK'
      BY <1>a, <2>2, <2>4, MoveType, Zenon
    <3> QED
      BY <2>3, <2>4, <3>1, Same, Zenon DEF Types, tabVars
  <2>5. CASE /\ ent' = Append(ent, [name |-> n, owners |-> {Me},
                                    timestamp |-> IF n \in File THEN disk[n].mtime ELSE Now])
             /\ live' = live \cup {Len(ent) + 1}
    <3> DEFINE x == [name |-> n, owners |-> {Me},
                     timestamp |-> IF n \in File THEN disk[n].mtime ELSE Now]
    <3>1. x \in FileEntry
      BY <2>2, DiskType, Zenon DEF FileEntry
    <3>2. ent' = Append(ent, x)
      BY <2>5, Zenon
    <3> HIDE DEF x
    <3>3. /\ ent' \in Seq(FileEntry) /\ Grown /\ Len(ent') = Len(ent) + 1
          /\ DOMAIN ent \subseteq DOMAIN ent'
      BY <3>1, <3>2, EntryAppend, Zenon
    <3>4. TabOK'
      BY <1>a, <2>5, <3>3 DEF Types, TabOK
    <3>5. DlOK'
      BY <3>3, GrownLocals, Zenon
    <3>6. RcvOK'
      <4>1. fe' \in 0 .. Len(ent') /\ rtg' \in Nat /\ sub' \in Nat /\ in' \in Seq(TtopPacket)
        BY <1>a, <3>3 DEF Types, RcvOK
      <4> QED
        BY <2>2, <4>1, Zenon DEF RcvOK, Busy
    <3> QED
      BY <2>3, <3>4, <3>5, <3>6, Same, Zenon DEF Types
  <2> QED
    BY <2>1, <2>4, <2>5, Zenon
<1>5. CASE SendSync
  <2> USE <1>5 DEF SendSync, Goto
  <2>1. RcvOK'
    BY <1>a, MoveType, Zenon DEF tabVars, Busy
  <2> QED
    BY <2>1, Same, Zenon DEF Types, tabVars
<1>6. CASE RecvSync
  <2> USE <1>6 DEF RecvSync, Goto
  <2>1. RcvOK'
    BY PacketType, MoveType, Zenon DEF tabVars, Busy
  <2>2. HistOK'
    BY Zenon DEF Types, HistOK, histVars
  <2> QED
    BY <2>1, <2>2, Same, Zenon DEF Types, tabVars
<1>7. CASE Recv
  <2> USE <1>7 DEF Recv, Goto
  <2>1. todo' \in Seq(TransEntry)
    BY PacketType
  <2>2. RcvOK'
    BY <2>1, PacketType, MoveType, Zenon DEF tabVars
  <2> QED
    BY <2>2, Same, Zenon DEF Types, tabVars
<1>8. CASE Applied
  <2> USE <1>8 DEF Applied, Goto
  <2>1. RcvOK'
    BY <1>a, MoveType, Zenon DEF tabVars, Busy
  <2> QED
    BY <2>1, Same, Zenon DEF Types, tabVars
<1>9. CASE SkipNone
  <2> USE <1>9 DEF SkipNone, Goto
  <2>1. RcvOK'
    BY <1>a, TeType, MoveType, Zenon DEF tabVars
  <2> QED
    BY <2>1, Same, Zenon DEF Types, tabVars
<1> QED
  BY <1>1, <1>2, <1>3, <1>4, <1>5, <1>6, <1>7, <1>8, <1>9, Zenon

\* A new download has an entry.
LEMMA SpawnType ==
  ASSUME Types, ent' \in Seq(FileEntry), Grown, NEW i \in DOMAIN ent', Spawn(i)
  PROVE  DlOK'
<1>1. /\ Len(ent) \in Nat /\ Len(ent') \in Nat /\ Len(ent') >= Len(ent)
      /\ i \in 1 .. Len(ent')
  BY DEF Types, TabOK, Grown
<1>2. PICK k \in Task :
        /\ dpc[k] = "idle"
        /\ dpc' = [dpc EXCEPT ![k] = "name"] /\ dfe' = [dfe EXCEPT ![k] = i]
        /\ UNCHANGED <<dtg, dver>>
  BY Zenon DEF Spawn
<1>3. /\ dpc \in [Task -> Places] /\ dfe \in [Task -> 0 .. Len(ent)]
      /\ \A j \in Task : dpc[j] # "idle" => dfe[j] # 0
      /\ \A j \in Task : dpc[j] = "fetch" => ent[dfe[j]].name \in File
  BY Zenon DEF Types, DlOK
<1>4. dpc' \in [Task -> Places]
  BY <1>2, <1>3, Zenon DEF Places
<1>5. dfe' \in [Task -> 0 .. Len(ent')]
  BY <1>1, <1>2, <1>3
<1>6. \A j \in Task : dpc'[j] # "idle" => dfe'[j] # 0
  BY <1>1, <1>2, <1>3
<1>7. \A j \in Task : dpc'[j] = "fetch" => ent'[dfe'[j]].name \in File
  <2> SUFFICES ASSUME NEW j \in Task, dpc'[j] = "fetch" PROVE ent'[dfe'[j]].name \in File
    BY Zenon
  <2>1. j # k /\ dpc[j] = "fetch" /\ dfe'[j] = dfe[j]
    BY <1>2, <1>3, Zenon
  <2>2. dfe[j] \in DOMAIN ent
    BY <2>1, NameType, Zenon
  <2> QED
    BY <1>3, <2>1, <2>2, Zenon DEF Grown
<1> QED
  BY <1>2, <1>4, <1>5, <1>6, <1>7, Zenon DEF Types, DlOK

\* Every step of broadcast_entry_handler for FILE_ADD and FILE_MODIFY keeps the types.
LEMMA ApplyTypes ==
  ASSUME Types,
         Find \/ AddAndFetch \/ ReplaceOwners \/ CompareTimestamps \/ RaiseAndFetch
  PROVE  Types'
<1>a. /\ in \in Seq(TtopPacket) /\ ent \in Seq(FileEntry) /\ live \subseteq DOMAIN ent
      /\ Len(ent) \in Nat /\ DOMAIN ent = 1 .. Len(ent)
      /\ fe \in 0 .. Len(ent) /\ rtg \in Nat /\ sub \in Nat
      /\ race \subseteq Cause \X (Name \cup {Root})
  BY DEF Types, RcvOK, TabOK, HistOK
<1>1. CASE Find
  <2> USE <1>1 DEF Find, Goto
  <2>1. Te.name \in Name /\ todo \in Seq(TransEntry)
    BY TeType, Zenon DEF Types, RcvOK
  <2>2. fe' \in 0 .. Len(ent') /\ UNCHANGED ent
    BY Zenon DEF tabVars
  <2>3. RcvOK'
    BY <1>a, <2>1, <2>2, Zenon DEF RcvOK, Busy
  <2>4. HistOK'
    BY <1>a, <2>1, RaceType, Zenon DEF Types, HistOK
  <2> QED
    BY <2>2, <2>3, <2>4, Same, Zenon DEF Types
<1>2. CASE AddAndFetch
  <2> USE <1>2 DEF AddAndFetch, Goto
  <2>1. Te \in TransEntry /\ Te.name \in Name /\ Tail(todo) \in Seq(TransEntry)
    BY TeType, Zenon DEF Busy
  <2>2. PICK i \in 1 .. Len(ent) + 1 : AddEntry(Te, i) /\ Spawn(i)
    BY Zenon
  <2>3. /\ ent' \in Seq(FileEntry) /\ Grown /\ live' \subseteq DOMAIN ent'
        /\ i \in DOMAIN ent' /\ DOMAIN ent \subseteq DOMAIN ent'
    BY <2>1, <2>2, AddType, Zenon
  <2>4. TabOK'
    BY <2>3, Zenon DEF Types, TabOK
  <2>5. DlOK'
    BY <2>2, <2>3, SpawnType, Zenon
  <2>6. RcvOK'
    <3>1. fe' \in 0 .. Len(ent')
      BY <1>a, <2>3 DEF Grown
    <3> QED
      BY <1>a, <2>1, <3>1, Zenon DEF RcvOK, Busy
  <2>7. HistOK'
    BY <1>a, <2>1, RaceType, Zenon DEF Types, HistOK
  <2> QED
    BY <2>4, <2>5, <2>6, <2>7, Same, Zenon DEF Types
<1>3. CASE ReplaceOwners
  <2> USE <1>3 DEF ReplaceOwners, Goto
  <2>1. Te \in TransEntry /\ fe \in DOMAIN ent
    BY <1>a, TeType, Zenon DEF Busy
  <2>2. Te.owners \ {Me} \in SUBSET Ip
    BY <2>1, Zenon DEF TransEntry
  <2>3. ent' \in Seq(FileEntry) /\ Grown /\ Len(ent') = Len(ent)
    BY <2>1, <2>2, EntryUpdate, Zenon
  <2>4. TabOK'
    BY <1>a, <2>3, Zenon DEF Types, TabOK
  <2>5. DlOK'
    BY <2>3, GrownLocals, Zenon
  <2>6. RcvOK'
    <3>1. todo \in Seq(TransEntry) /\ todo # << >>
      BY Zenon DEF Types, RcvOK, Busy
    <3> QED
      BY <1>a, <2>3, <3>1, Zenon DEF RcvOK, Busy
  <2> QED
    BY <2>4, <2>5, <2>6, Same, Zenon DEF Types
<1>4. CASE CompareTimestamps
  <2> USE <1>4 DEF CompareTimestamps, Goto
  <2>1. Tail(todo) \in Seq(TransEntry)
    BY TeType, Zenon DEF Busy
  <2>2. RcvOK'
    BY <1>a, <2>1, MoveType, Zenon DEF tabVars, Busy
  <2> QED
    BY <2>2, Same, Zenon DEF Types, tabVars
<1>5. CASE RaiseAndFetch
  <2> USE <1>5 DEF RaiseAndFetch, Goto
  <2>1. Te \in TransEntry /\ Te.name \in Name /\ fe \in DOMAIN ent /\ Tail(todo) \in Seq(TransEntry)
    BY <1>a, TeType, Zenon DEF Busy
  <2>2. Te.timestamp \in Nat
    BY <2>1, Zenon DEF TransEntry
  <2>3. ent' \in Seq(FileEntry) /\ Grown /\ Len(ent') = Len(ent)
    BY <2>1, <2>2, EntryUpdate, Zenon
  <2>4. TabOK'
    BY <1>a, <2>3, Zenon DEF Types, TabOK
  <2>5. DlOK'
    BY <1>a, <2>1, <2>3, SpawnType, Zenon
  <2>6. RcvOK'
    BY <1>a, <2>1, <2>3, Zenon DEF RcvOK, Busy
  <2>7. HistOK'
    BY <1>a, <2>1 DEF Types, HistOK, Cause
  <2> QED
    BY <2>4, <2>5, <2>6, <2>7, Same, Zenon DEF Types
<1> QED
  BY <1>1, <1>2, <1>3, <1>4, <1>5, Zenon

\* What "rm -r" reports is a sequence of events.
LEMMA RemovedType ==
  ASSUME Types, NEW d \in Dir \ {Root}, NEW S \in SUBSET File,
         NEW q \in [1 .. Cardinality(S) -> S]
  PROVE  LET event(w, n, kind) ==
               [dir |-> w, tid |-> tgt[w], name |-> n, kind |-> kind, by |-> "peer"]
         IN  /\ [i \in DOMAIN q |-> event(d, q[i], "delete")] \in Seq(EventRecord)
             /\ <<event(Root, d, "delete")>> \in Seq(EventRecord)
             /\ <<event(d, d, "self")>> \in Seq(EventRecord)
<1> DEFINE event(w, n, kind) ==
             [dir |-> w, tid |-> tgt[w], name |-> n, kind |-> kind, by |-> "peer"]
<1>1. Cardinality(S) \in Nat
  BY FS_Subset, FS_CardinalityType, Zenon
<1>2. \A w \in Dir : \A n \in Name : \A kind \in Kinds : event(w, n, kind) \in EventRecord
  BY Zenon DEF Types, MonOK, EventRecord, Kinds
<1>3. \A i \in DOMAIN q : q[i] \in Name
  BY Zenon DEF Name
<1>4. d \in Name
  BY Zenon DEF Name
<1> HIDE DEF event
<1>5. \A i \in 1 .. Cardinality(S) : event(d, q[i], "delete") \in EventRecord
  BY <1>2, <1>3, Zenon DEF Kinds
<1>6. [i \in DOMAIN q |-> event(d, q[i], "delete")] \in Seq(EventRecord)
  BY <1>1, <1>5
<1>7. <<event(Root, d, "delete")>> \in Seq(EventRecord) /\ <<event(d, d, "self")>> \in Seq(EventRecord)
  BY <1>2, <1>4 DEF Kinds
<1> QED
  BY <1>6, <1>7, Zenon DEF event

\* Every step of broadcast_entry_handler for FILE_DELETE keeps the types.
LEMMA DeleteTypes ==
  ASSUME Types,
         \/ Delete \/ DeleteTarget \/ DeleteLock \/ RemoveFile \/ RemoveDirectory
         \/ DirTarget \/ Unwatch \/ DeleteUnblock \/ ReceiverUseAfterFree
  PROVE  Types'
<1>a. /\ in \in Seq(TtopPacket) /\ fe \in 0 .. Len(ent) /\ rtg \in Nat /\ sub \in Nat
      /\ race \subseteq Cause \X (Name \cup {Root}) /\ events \in Seq(EventRecord)
      /\ tgt \in [Dir -> Nat] /\ disk \in [File -> OnDiskFile]
      /\ mask \in [Dir -> {"none", "default", "blocked", "lost"}]
  BY Zenon DEF Types, RcvOK, HistOK, SysOK, MonOK
<1>b. ASSUME pc \in Busy \/ (pc = "apply" /\ todo # << >>)
      PROVE  Te.name \in Name /\ In[Te.name] \in Dir /\ Tail(todo) \in Seq(TransEntry)
  BY <1>b, TeType, Zenon
<1>c. pc \in Busy => todo \in Seq(TransEntry) /\ todo # << >>
  BY Zenon DEF Types, RcvOK
<1>d. [content |-> Absent, mtime |-> 0] \in OnDiskFile
  BY Zenon DEF OnDiskFile, Absent
<1>1. CASE Delete
  <2> USE <1>1 DEF Delete, Goto
  <2>1. Te.name \in Name
    BY <1>b, Zenon
  <2>2. UNCHANGED ent /\ live' \subseteq live
    BY Zenon DEF DeleteEntry
  <2>3. TabOK'
    BY <2>2, Zenon DEF Types, TabOK
  <2>4. RcvOK'
    BY <1>a, <2>2, MoveType, Zenon DEF Busy
  <2>5. HistOK'
    <3>1. Missed(Te.name) \subseteq Cause \X (Name \cup {Root})
      BY <2>1, RaceType, Zenon
    <3> QED
      BY <1>a, <2>1, <3>1 DEF Types, HistOK, Cause
  <2> QED
    BY <2>2, <2>3, <2>4, <2>5, Same, Zenon DEF Types
<1>2. CASE DeleteTarget
  <2> USE <1>2 DEF DeleteTarget, Goto
  <2>1. rtg' \in Nat
    BY <1>a, <1>b, Zenon DEF Busy
  <2>2. RcvOK'
    BY <1>a, <1>c, <2>1, Zenon DEF RcvOK, Busy, tabVars
  <2> QED
    BY <2>2, Same, Zenon DEF Types, tabVars
<1>3. CASE DeleteLock
  <2> USE <1>3 DEF DeleteLock, Goto
  <2>1. MonOK' /\ SysOK'
    BY <1>b, BlockType, Zenon DEF Busy
  <2>2. RcvOK'
    BY <1>a, <1>c, MoveType, Zenon DEF Busy, tabVars
  <2> QED
    BY <2>1, <2>2, Same, Zenon DEF Types, tabVars
<1>4. CASE RemoveFile
  <2> USE <1>4 DEF RemoveFile, Goto
  <2>1. Te.name \in Name /\ In[Te.name] \in Dir
    BY <1>b, Zenon DEF Busy
  <2>2. Emitted(In[Te.name], Te.name, "delete", "peer") \in Seq(EventRecord)
    BY <2>1, EmittedType, Zenon DEF Kinds
  <2>3. disk' \in [File -> OnDiskFile]
    BY <1>d, DiskType, Zenon
  <2>4. SysOK'
    BY <1>a, <2>2, <2>3, Zenon DEF Types, SysOK
  <2>5. RcvOK'
    BY <1>a, <1>c, MoveType, Zenon DEF Busy, tabVars
  <2>6. HistOK'
    BY <1>a, <2>1 DEF Types, HistOK, Cause
  <2> QED
    BY <2>4, <2>5, <2>6, Same, Zenon DEF Types, tabVars
<1>5. CASE RemoveDirectory
  <2> DEFINE d == Te.name
             inside == {f \in File : In[f] = d /\ Exists(f)}
             event(w, n, kind) ==
               [dir |-> w, tid |-> tgt[w], name |-> n, kind |-> kind, by |-> "peer"]
  <2>1. d \in Dir \ {Root}
    BY <1>5, <1>b, Zenon DEF RemoveDirectory, Goto, Busy, Name
  <2>2. PICK q \in [1 .. Cardinality(inside) -> inside] :
          events' = events
             \o (IF mask[d] = "default" THEN [i \in DOMAIN q |-> event(d, q[i], "delete")] ELSE << >>)
             \o (IF mask[Root] = "default" /\ d \in dirs THEN <<event(Root, d, "delete")>> ELSE << >>)
             \o (IF mask[d] \in {"default", "blocked"} THEN <<event(d, d, "self")>> ELSE << >>)
    BY <1>5, Zenon DEF RemoveDirectory
  <2>3. inside \in SUBSET File
    BY Zenon
  <2>4. /\ [i \in DOMAIN q |-> event(d, q[i], "delete")] \in Seq(EventRecord)
        /\ <<event(Root, d, "delete")>> \in Seq(EventRecord)
        /\ <<event(d, d, "self")>> \in Seq(EventRecord)
    BY <2>1, <2>3, RemovedType, Zenon
  <2>5. events' \in Seq(EventRecord)
    <3> DEFINE A == [i \in DOMAIN q |-> event(d, q[i], "delete")]
               B == <<event(Root, d, "delete")>>
               C == <<event(d, d, "self")>>
               a == IF mask[d] = "default" THEN A ELSE << >>
               b == IF mask[Root] = "default" /\ d \in dirs THEN B ELSE << >>
               c == IF mask[d] \in {"default", "blocked"} THEN C ELSE << >>
    <3>1. A \in Seq(EventRecord) /\ B \in Seq(EventRecord) /\ C \in Seq(EventRecord)
      BY <2>4, Zenon
    <3>2. events' = events \o a \o b \o c
      BY <2>2, Zenon
    <3> HIDE DEF A, B, C
    <3>3. a \in Seq(EventRecord) /\ b \in Seq(EventRecord) /\ c \in Seq(EventRecord)
      BY <3>1
    <3> HIDE DEF a, b, c
    <3> QED
      BY <1>a, <3>2, <3>3
  <2>6. disk' \in [File -> OnDiskFile]
    BY <1>5, <1>a, <1>d, Zenon DEF RemoveDirectory
  <2>7. mask' \in [Dir -> {"none", "default", "blocked", "lost"}] /\ dirs' \subseteq dirs
    BY <1>5, <1>a, Zenon DEF RemoveDirectory
  <2>8. SysOK'
    BY <2>5, <2>6, <2>7, Zenon DEF Types, SysOK
  <2>9. RcvOK'
    BY <1>5, <1>a, <1>c, MoveType, Zenon DEF RemoveDirectory, Goto, Busy, tabVars
  <2>10. HistOK'
    <3>1. race' \subseteq race \cup {"deleted", "removed", "lost"} \X inside
      BY <1>5, Zenon DEF RemoveDirectory
    <3>2. {"deleted", "removed", "lost"} \X inside \subseteq Cause \X (Name \cup {Root})
      BY Zenon DEF Cause, Name
    <3>3. UNCHANGED <<told, held, edits, proc>>
      BY <1>5, Zenon DEF RemoveDirectory
    <3> HIDE DEF inside
    <3> QED
      BY <1>a, <3>1, <3>2, <3>3, Zenon DEF Types, HistOK
  <2> QED
    BY <1>5, <2>8, <2>9, <2>10, Same, Zenon DEF RemoveDirectory, Types, tabVars
<1>6. CASE DirTarget
  <2> USE <1>6 DEF DirTarget, Goto
  <2>1. Te.name \in Dir
    BY Zenon DEF Types, RcvOK
  <2>2. sub' \in Nat
    BY <1>a, <2>1, Zenon
  <2>3. RcvOK'
    BY <1>a, <1>c, <2>1, <2>2, Zenon DEF RcvOK, Busy, tabVars, Te
  <2> QED
    BY <2>3, Same, Zenon DEF Types, tabVars
<1>7. CASE Unwatch
  <2> USE <1>7 DEF Unwatch, Goto
  <2>1. Te.name \in Dir
    BY Zenon DEF Types, RcvOK
  <2>2. MonOK' /\ SysOK' /\ proc' \in {"up", "exit", "ub"}
    BY <2>1, FreeType, Zenon
  <2>3. RcvOK'
    BY <1>a, <1>c, MoveType, Zenon DEF Busy, tabVars
  <2>4. HistOK'
    BY <2>2, Zenon DEF Types, HistOK, histVars
  <2> QED
    BY <2>2, <2>3, <2>4, Same, Zenon DEF Types, tabVars
<1>8. CASE DeleteUnblock
  <2> USE <1>8 DEF DeleteUnblock, Goto
  <2>1. MonOK' /\ SysOK'
    BY <1>b, BlockType, Zenon DEF Busy
  <2>2. Tail(todo) \in Seq(TransEntry)
    BY <1>b, Zenon DEF Busy
  <2>3. RcvOK'
    BY <1>a, <2>2, MoveType, Zenon DEF tabVars
  <2> QED
    BY <2>1, <2>3, Same, Zenon DEF Types, tabVars
<1>9. CASE ReceiverUseAfterFree
  <2> USE <1>9 DEF ReceiverUseAfterFree, Undefined
  <2>1. HistOK'
    BY Zenon DEF Types, HistOK, histVars
  <2> QED
    BY <2>1, Same, Zenon DEF Types, tabVars
<1> QED
  BY <1>1, <1>2, <1>3, <1>4, <1>5, <1>6, <1>7, <1>8, <1>9, Zenon

-----------------------------------------------------------------------------
(* Steps of file_monitor_task.                                             *)

\* The entry made from an event.
LEMMA EventEntryType ==
  ASSUME Types, NEW e \in EventRecord
  PROVE  EventEntry(e) \in TransEntry
<1>1. e.name \in Name
  BY Zenon DEF EventRecord
<1>2. EventOp(e) \in OpType
  BY Zenon DEF EventOp, OpType
<1>3. e.name \in File => disk[e.name].mtime \in Nat
  BY DiskType, Zenon
<1> HIDE DEF EventOp
<1> QED
  BY <1>1, <1>2, <1>3, Zenon DEF EventEntry, TransEntry

\* Steps of the table that the monitor makes keep the types of table and locals.
LEMMA TableTypes ==
  ASSUME Types, NEW te \in TransEntry, UNCHANGED <<cut, rcvVars, dlVars>>,
         \/ \E i \in 1 .. Len(ent) + 1 : AddEntry(te, i)
         \/ UpdateEntry(te)
         \/ DeleteEntry(te.name)
  PROVE  TabOK' /\ RcvOK' /\ DlOK'
<1>a. ent \in Seq(FileEntry) /\ live \subseteq DOMAIN ent /\ cut \subseteq DOMAIN ent
  BY Zenon DEF Types, TabOK
<1>1. CASE \E i \in 1 .. Len(ent) + 1 : AddEntry(te, i)
  <2>1. PICK i \in 1 .. Len(ent) + 1 : AddEntry(te, i)
    BY <1>1, Zenon
  <2>2. /\ ent' \in Seq(FileEntry) /\ Grown /\ live' \subseteq DOMAIN ent'
        /\ DOMAIN ent \subseteq DOMAIN ent'
    BY <2>1, AddType, Zenon
  <2>3. TabOK'
    BY <1>a, <2>2, Zenon DEF TabOK
  <2> QED
    BY <2>2, <2>3, GrownLocals, Zenon
<1>2. CASE UpdateEntry(te)
  <2>1. ent' \in Seq(FileEntry) /\ Grown /\ Len(ent') = Len(ent) /\ UNCHANGED live
    BY <1>2, UpdateType, Zenon
  <2>2. TabOK'
    BY <1>a, <2>1 DEF TabOK
  <2> QED
    BY <2>1, <2>2, GrownLocals, Zenon
<1>3. CASE DeleteEntry(te.name)
  <2>1. UNCHANGED ent /\ live' \subseteq live
    BY <1>3, Zenon DEF DeleteEntry
  <2>2. TabOK'
    BY <1>a, <2>1, Zenon DEF TabOK
  <2> QED
    BY <2>1, <2>2, Same, Zenon
<1> QED
  BY <1>1, <1>2, <1>3, Zenon

\* Every step of file_monitor_task keeps the types.
LEMMA MonitorTypes ==
  ASSUME Types, MonitorStep
  PROVE  Types'
<1>a. /\ batch \in Seq(EventRecord) /\ otab \in Seq(TransEntry) /\ events \in Seq(EventRecord)
      /\ race \subseteq Cause \X (Name \cup {Root}) /\ dirs \subseteq Dir
      /\ mask \in [Dir -> {"none", "default", "blocked", "lost"}]
  BY Zenon DEF Types, ObsOK, HistOK, SysOK
<1>b. opc \in {"handle", "stat", "table"} => batch # << >>
  BY Zenon DEF Types, ObsOK
<1>1. CASE WatchTargets
  <2> USE <1>1 DEF WatchTargets, MonitorAt
  <2>1. tgt' \in [Dir -> Nat] /\ gen' \in [Dir -> Nat] /\ \A d \in Dir : tgt'[d] <= gen'[d]
    <3>1. CASE tgt' = [d \in Dir |-> IF d \in dirs THEN 1 ELSE 0] /\ gen' = tgt'
      <4>1. \A d \in Dir : tgt'[d] \in Nat
        BY <3>1, Zenon
      <4> HIDE <1>1
      <4> QED
        BY <3>1, <4>1
    <3>2. CASE UNCHANGED <<tgt, gen>>
      BY <3>2, Zenon DEF Types, MonOK
    <3> QED
      BY <3>1, <3>2, Zenon
  <2>2. MonOK'
    BY <2>1, Zenon DEF Types, MonOK
  <2>3. SysOK'
    BY <1>a, Zenon DEF Types, SysOK
  <2>4. HistOK'
    BY <1>a DEF Types, HistOK, Cause
  <2>5. ObsOK'
    BY <1>a, Zenon DEF ObsOK
  <2> QED
    BY <2>2, <2>3, <2>4, <2>5, Same, Zenon DEF Types, tabVars
<1>2. CASE pthread_wait_notify
  <2> USE <1>2 DEF pthread_wait_notify, MonitorAt
  <2>1. RcvOK'
    <3>1. CASE pc = "waiting"
      BY <3>1, Zenon DEF Types, RcvOK, Busy, tabVars
    <3>2. CASE pc # "waiting"
      BY <3>2, Zenon DEF Types, RcvOK, tabVars, Te
    <3> QED
      BY <3>1, <3>2, Zenon
  <2>2. HistOK'
    BY <1>a DEF Types, HistOK, Cause
  <2>3. ObsOK'
    BY <1>a, Zenon DEF ObsOK
  <2> QED
    BY <2>1, <2>2, <2>3, Same, Zenon DEF Types, tabVars
<1>3. CASE ReadEvents
  <2> USE <1>3 DEF ReadEvents, MonitorAt
  <2>1. SysOK'
    BY DEF Types, SysOK
  <2>2. ObsOK'
    BY <1>a DEF ObsOK
  <2> QED
    BY <2>1, <2>2, Same, Zenon DEF Types, tabVars
<1>4. CASE LookAtEvent
  <2> USE <1>4 DEF LookAtEvent, MonitorAt
  <2>1. Head(batch).name \in Name /\ Tail(batch) \in Seq(EventRecord)
    BY EventType, Zenon
  <2>2. ObsOK'
    BY <1>a, <2>1, Zenon DEF ObsOK
  <2>3. HistOK'
    BY <1>a, <2>1 DEF Types, HistOK, Cause
  <2> QED
    BY <2>2, <2>3, Same, Zenon DEF Types, tabVars
<1>5. CASE handle_event
  <2> USE <1>5 DEF handle_event, MonitorAt
  <2>1. Head(batch).dir \in Dir
    BY <1>b, EventType, Zenon
  <2>2. MonOK' /\ SysOK' /\ proc' \in {"up", "exit", "ub"}
    <3>1. CASE FreeTarget(Head(batch).dir)
      BY <2>1, <3>1, FreeType, Zenon
    <3>2. CASE UNCHANGED <<monVars, mask, proc>>
      BY <3>2, Same, Zenon DEF sysVars, Types, HistOK
    <3> QED
      BY <3>1, <3>2, Zenon
  <2>3. ObsOK'
    BY <1>a, <1>b, Zenon DEF ObsOK
  <2>4. HistOK'
    BY <2>2, Zenon DEF Types, HistOK, histVars
  <2> QED
    BY <2>2, <2>3, <2>4, Same, Zenon DEF Types, tabVars
<1>6. CASE StatEvent
  <2> USE <1>6 DEF StatEvent, MonitorAt
  <2> DEFINE e == Head(batch)
  <2>1. e \in EventRecord /\ e.name \in Name
    BY <1>b, EventType, Zenon
  <2>2. EventEntry(e) \in TransEntry
    BY <2>1, EventEntryType, Zenon
  <2>3. ObsOK'
    <3>1. otab' = Append(otab, EventEntry(e))
      BY Zenon
    <3>2. otab' \in Seq(TransEntry) /\ otab' # << >>
      BY <1>a, <2>2, <3>1, Extended, Zenon
    <3> QED
      BY <1>a, <1>b, <3>2, Zenon DEF ObsOK
  <2>4. CASE NewDirectory(e)
    <3>1. e.name \in Dir
      BY <1>a, <2>4, Zenon DEF NewDirectory
    <3>2. /\ TargetAdd(e.name) /\ mask' = [mask EXCEPT ![e.name] = "default"]
          /\ race' = race \cup Exposed({e.name})
      BY <2>4, Zenon
    <3>3. MonOK'
      BY <3>1, <3>2, TargetAddType, Zenon
    <3>4. SysOK'
      BY <1>a, <3>1, <3>2, Zenon DEF Types, SysOK
    <3>5. Exposed({e.name}) \subseteq Cause \X (Name \cup {Root})
      BY <3>1, RaceType, Zenon
    <3>6. HistOK'
      BY <1>a, <3>2, <3>5, Zenon DEF Types, HistOK
    <3> QED
      BY <2>3, <3>3, <3>4, <3>6, Same, Zenon DEF Types, tabVars
  <2>5. CASE ~NewDirectory(e)
    BY <2>3, <2>5, Same, Zenon DEF Types, tabVars, monVars, sysVars, histVars
  <2> QED
    BY <2>4, <2>5, Zenon
<1>7. CASE TableEvent
  <2> USE <1>7 DEF TableEvent, MonitorAt
  <2> DEFINE te == otab[Len(otab)]
  <2>1. otab # << >> /\ batch # << >>
    BY Zenon DEF Types, ObsOK
  <2>2. te \in TransEntry
    BY <1>a, <2>1
  <2>3. TabOK' /\ RcvOK' /\ DlOK'
    BY <2>2, TableTypes, Zenon
  <2>4. ObsOK'
    <3>1. SubSeq(otab, 1, Len(otab) - 1) \in Seq(TransEntry)
      BY <1>a, <2>1
    <3>2. Tail(batch) \in Seq(EventRecord)
      BY <1>a, <2>1
    <3> QED
      BY <1>a, <3>1, <3>2, Zenon DEF ObsOK
  <2>5. HistOK'
    <3>1. Missed(te.name) \subseteq Cause \X (Name \cup {Root})
      BY <2>2, RaceType, Zenon DEF TransEntry
    <3> QED
      BY <1>a, <3>1, Zenon DEF Types, HistOK
  <2> QED
    BY <2>3, <2>4, <2>5, Same, Zenon DEF Types
<1>8. CASE MonitorUseAfterFree
  <2> USE <1>8 DEF MonitorUseAfterFree, Undefined
  <2>1. HistOK'
    BY Zenon DEF Types, HistOK, histVars
  <2> QED
    BY <2>1, Same, Zenon DEF Types, tabVars
<1>9. CASE SendUpdate
  <2> USE <1>9 DEF SendUpdate, MonitorAt
  <2>1. \A i \in 1 .. Len(otab) : otab[i] \in TransEntry
    <3> HIDE <1>9
    <3> QED
      BY <1>a
  <2>2. HistOK'
    BY <2>1 DEF Types, HistOK, TransEntry
  <2>3. ObsOK'
    BY <1>a DEF ObsOK
  <2> QED
    BY <2>2, <2>3, Same, Zenon DEF Types, tabVars
<1> QED
  BY <1>1, <1>2, <1>3, <1>4, <1>5, <1>6, <1>7, <1>8, <1>9, Zenon DEF MonitorStep

-----------------------------------------------------------------------------
(* Steps of the user, and the theorem.                                     *)

\* Every edit, deletion and new directory of the user keeps the types.
LEMMA UserTypes ==
  ASSUME Types, UserStep
  PROVE  Types'
<1>a. /\ race \subseteq Cause \X (Name \cup {Root}) /\ held \subseteq File \X Nat
      /\ edits \in 0 .. MaxEdit
  BY Zenon DEF Types, HistOK
<1>b. \A f \in Editable : f \in File /\ f \in Name /\ In[f] \in Dir
  BY Zenon DEF Name
<1>c. \A n \in Name : Lost(n) \subseteq Cause \X (Name \cup {Root})
  BY RaceType, Zenon
<1>1. ASSUME NEW f \in Editable, UserEdit(f)
      PROVE  Types'
  <2> USE <1>1 DEF UserEdit
  <2> DEFINE v == Now + edits + 1
  <2>1. v \in Nat /\ edits' \in 0 .. MaxEdit
    BY <1>a
  <2>2. events' \in Seq(EventRecord)
    <3>1. events' = Emitted(In[f], f, "modify", "user") \/ events' = Emitted(In[f], f, "create", "user")
      BY Zenon
    <3> QED
      BY <1>b, <3>1, EmittedType, Zenon DEF Kinds
  <2>3. [content |-> v, mtime |-> v] \in OnDiskFile
    BY <2>1, Zenon DEF OnDiskFile
  <2>4. disk' \in [File -> OnDiskFile]
    BY <1>b, <2>3, DiskType, Zenon
  <2>5. SysOK'
    BY <2>2, <2>4, Zenon DEF Types, SysOK
  <2>6. HistOK'
    BY <1>a, <1>b, <1>c, <2>1 DEF Types, HistOK
  <2> QED
    BY <2>5, <2>6, Same, Zenon DEF Types, tabVars
<1>2. ASSUME NEW f \in Editable, UserDelete(f)
      PROVE  Types'
  <2> USE <1>2 DEF UserDelete
  <2>1. edits' \in 0 .. MaxEdit
    BY <1>a
  <2>2. events' \in Seq(EventRecord)
    BY <1>b, EmittedType, Zenon DEF Kinds
  <2>3. [content |-> Absent, mtime |-> 0] \in OnDiskFile
    BY Zenon DEF OnDiskFile, Absent
  <2>4. disk' \in [File -> OnDiskFile]
    BY <1>b, <2>3, DiskType, Zenon
  <2>5. SysOK'
    BY <2>2, <2>4, Zenon DEF Types, SysOK
  <2>6. HistOK'
    BY <1>a, <1>b, <1>c, <2>1 DEF Types, HistOK, Cause
  <2> QED
    BY <2>5, <2>6, Same, Zenon DEF Types, tabVars
<1>3. ASSUME NEW d \in Dir \ {Root}, UserMkdir(d)
      PROVE  Types'
  <2> USE <1>3 DEF UserMkdir
  <2>0. d \in Name
    BY Zenon DEF Name
  <2>1. edits' \in 0 .. MaxEdit
    BY <1>a
  <2>2. events' \in Seq(EventRecord)
    BY <2>0, EmittedType, Zenon DEF Kinds
  <2>3. SysOK'
    BY <2>2, Zenon DEF Types, SysOK
  <2>4. HistOK'
    BY <1>a, <1>c, <2>0, <2>1, Zenon DEF Types, HistOK
  <2> QED
    BY <2>3, <2>4, Same, Zenon DEF Types, tabVars
<1> QED
  BY <1>1, <1>2, <1>3, Zenon DEF UserStep

\* The peer starts with variables of their types.
LEMMA InitTypes ==
  ASSUME Init
  PROVE  Types
<1> USE DEF Init
<1>1. PICK s \in Scripts : in = s.packets /\ edits = MaxEdit - s.edits
  BY Zenon
<1>2. in \in Seq(TtopPacket) /\ edits \in 0 .. MaxEdit
  BY <1>1
<1>3. TabOK
  BY DEF TabOK
<1>4. MonOK
  BY DEF MonOK, Nobody
<1>5. SysOK
  BY DEF SysOK, OnDiskFile
<1>6. RcvOK
  BY <1>2 DEF RcvOK, Busy
<1>7. ObsOK
  BY DEF ObsOK
<1>8. DlOK
  BY DEF DlOK, Places
<1>9. HistOK
  BY <1>2 DEF HistOK
<1> QED
  BY <1>3, <1>4, <1>5, <1>6, <1>7, <1>8, <1>9, Zenon DEF Types

\* Every step keeps the types, also one that changes nothing.
LEMMA NextTypes ==
  ASSUME Types, [Next]_vars
  PROVE  Types'
<1>1. CASE ReceiverStep
  BY <1>1, StartTypes, ApplyTypes, DeleteTypes, Zenon DEF ReceiverStep
<1>2. CASE MonitorStep
  BY <1>2, MonitorTypes, Zenon
<1>3. CASE UserStep
  BY <1>3, UserTypes, Zenon
<1>4. CASE \E k \in Task : DownloadStep(k)
  BY <1>4, DownloadTypes, Zenon
<1>5. CASE UNCHANGED vars
  BY <1>5, Same, Zenon DEF vars, Types, tabVars
<1> QED
  BY <1>1, <1>2, <1>3, <1>4, <1>5, Zenon DEF Next

\* Locals of all threads refer to entries that were allocated and to targets
\* that were handed out, whatever is edited, deleted and fetched at once.
THEOREM ClientTypeOK == Spec => []TypeOK
<1>1. Init => Types
  BY InitTypes, Zenon
<1>2. Types /\ [Next]_vars => Types'
  BY NextTypes, Zenon
<1>3. Types => TypeOK
  BY Zenon DEF Types, TabOK, MonOK, SysOK, RcvOK, ObsOK, DlOK, HistOK, TypeOK, FileEntry, OnDiskFile
<1> QED
  BY <1>1, <1>2, <1>3, PTL DEF Spec

-----------------------------------------------------------------------------
(* Who holds the mutex of a target.                                        *)

\* the directory whose target a download blocks
DirOf(k) == In[NameOf(k)]

\* The monitor has its targets before anything is downloaded.
Boot ==
  /\ opc = "watch" => pc \in {"winit", "waitFor", "waiting"}
  /\ pc \in {"winit", "waitFor", "waiting", "woken", "scan", "reply"}
       => \A k \in Task : dpc[k] = "idle"

\* the receiver between file_monitor_block and file_monitor_unblock
Removing == {"remove", "dirTarget", "unwatch", "unblock"}

\* Who is between block and unblock holds the mutex of the target it found, as
\* long as that is the target of the directory.  A later target of the same
\* directory is never taken for it.
Locks ==
  /\ \A k \in Task : dpc[k] \in Holding \cup {"lock"} => dtg[k] # 0 /\ dtg[k] <= gen[DirOf(k)]
  /\ \A k \in Task : dpc[k] \in Holding /\ dtg[k] = tgt[DirOf(k)] => tmx[DirOf(k)] = k
  /\ pc \in Removing \cup {"lock"} => rtg <= gen[In[Te.name]]
  /\ pc \in Removing => rtg # 0
  /\ pc \in Removing /\ rtg = tgt[In[Te.name]] => tmx[In[Te.name]] = Receiver


-----------------------------------------------------------------------------
(* A download keeps its entry, and the entry its name; races stay noted.   *)

\* An element of a queue, of the table or of a packet has its type.
LEMMA Element ==
  ASSUME NEW S, NEW q \in Seq(S), NEW i \in DOMAIN q
  PROVE  q[i] \in S
OBVIOUS

\* A table that is no shorter has all the positions.
LEMMA Longer ==
  ASSUME NEW S, NEW q \in Seq(S), NEW r \in Seq(S), Len(r) >= Len(q), NEW i \in DOMAIN q
  PROVE  i \in DOMAIN r
OBVIOUS

KeepNames ==
  \A k \in Task : dpc[k] # "idle" =>
    dpc'[k] # "idle" /\ dfe'[k] = dfe[k] /\ NameOf(k)' = NameOf(k)

\* A table that grows keeps the names, whether or not a download starts.
LEMMA GrownNames ==
  ASSUME Types, Grown, UNCHANGED dlVars \/ \E i : Spawn(i)
  PROVE  KeepNames
<1> SUFFICES ASSUME NEW k \in Task, dpc[k] # "idle"
             PROVE  dpc'[k] # "idle" /\ dfe'[k] = dfe[k] /\ NameOf(k)' = NameOf(k)
  BY Zenon DEF KeepNames
<1>1. dfe[k] \in DOMAIN ent
  BY NameType, Zenon
<1>2. dpc \in [Task -> Places] /\ dfe \in [Task -> 0 .. Len(ent)]
  BY Zenon DEF Types, DlOK
<1>3. dpc'[k] # "idle" /\ dfe'[k] = dfe[k]
  <2>1. CASE UNCHANGED dlVars
    BY <2>1, Zenon DEF dlVars
  <2>2. CASE \E i : Spawn(i)
    <3>1. PICK i : Spawn(i)
      BY <2>2, Zenon
    <3>2. PICK j \in Task : /\ dpc[j] = "idle" /\ dpc' = [dpc EXCEPT ![j] = "name"]
                            /\ dfe' = [dfe EXCEPT ![j] = i]
      BY <3>1, Zenon DEF Spawn
    <3> QED
      BY <1>2, <3>2, Zenon
  <2> QED
    BY <2>1, <2>2, Zenon
<1> QED
  BY <1>1, <1>3, Zenon DEF Grown, NameOf

\* The same if the table stays, and a download moves on.
LEMMA MovedNames ==
  ASSUME Types, UNCHANGED <<ent, dfe>>,
         \A k \in Task : dpc[k] # "idle" => dpc'[k] # "idle"
  PROVE  KeepNames
BY Zenon DEF KeepNames, NameOf

\* A download never goes back to the beginning.
LEMMA NoneBack ==
  ASSUME Types, NEW k \in Task, DownloadStep(k)
  PROVE  \A j \in Task : dpc[j] # "idle" => dpc'[j] # "idle"
<1>1. dpc \in [Task -> Places]
  BY Zenon DEF Types, DlOK
<1>2. CASE UseAfterFree(k)
  BY <1>2, Zenon DEF UseAfterFree, dlVars
<1>3. CASE ~UseAfterFree(k)
  <2>1. \E to \in Places \ {"idle"} : dpc' = [dpc EXCEPT ![k] = to]
    <3> USE DEF Step, Places, Verdict
    <3>1. CASE CutName(k) \/ FindTarget(k) \/ MakeDirectory(k) \/ Block(k)
      BY <3>1, Zenon DEF CutName, FindTarget, MakeDirectory, Block
    <3>2. CASE OpenFile(k) \/ OpenDirectory(k)
      BY <3>2, Zenon DEF OpenFile, OpenDirectory
    <3>3. CASE FetchFile(k)
      BY <3>3, Zenon DEF FetchFile
    <3>4. CASE StampFile(k) \/ notify_tracker_add_me(k) \/ Unblock(k)
      BY <3>4, Zenon DEF StampFile, notify_tracker_add_me, Unblock
    <3> QED
      BY <1>3, <3>1, <3>2, <3>3, <3>4, Zenon DEF DownloadStep
  <2> QED
    BY <1>1, <2>1, Zenon
<1> QED
  BY <1>2, <1>3, Zenon

\* A table step of the monitor keeps the names.
LEMMA TableGrown ==
  ASSUME Types, TableEvent
  PROVE  Grown
<1> DEFINE te == otab[Len(otab)]
<1>1. te \in TransEntry
  BY DEF Types, ObsOK, TableEvent, MonitorAt
<1>2. CASE \E i \in 1 .. Len(ent) + 1 : AddEntry(te, i)
  BY <1>1, <1>2, AddType, Zenon
<1>3. CASE UpdateEntry(te)
  BY <1>1, <1>3, UpdateType, Zenon
<1>4. CASE DeleteEntry(te.name)
  BY <1>4 DEF DeleteEntry, Grown, Types, TabOK
<1> QED
  BY <1>2, <1>3, <1>4, Zenon DEF TableEvent

\* No step renames a file that is being downloaded.
LEMMA NamesKept ==
  ASSUME Types, [Next]_vars
  PROVE  KeepNames
<1>a. Len(ent) \in Nat /\ ent \in Seq(FileEntry) /\ fe \in 0 .. Len(ent) /\ live \subseteq DOMAIN ent
  BY DEF Types, TabOK, RcvOK
<1>1. CASE UNCHANGED <<ent, dpc, dfe>>
  BY <1>1, MovedNames, Zenon
<1>2. ASSUME NEW k \in Task, DownloadStep(k)
      PROVE  KeepNames
  <2>1. UNCHANGED <<ent, dfe>>
    BY <1>2, Zenon DEF DownloadStep, CutName, FindTarget, MakeDirectory, Block, OpenFile, OpenDirectory,
         FetchFile, StampFile, notify_tracker_add_me, Unblock, UseAfterFree, tabVars, dlVars
  <2> QED
    BY <1>2, <2>1, NoneBack, MovedNames, Zenon
<1>3. CASE Scan
  <2>1. Grown
    <3>1. CASE UNCHANGED ent
      BY <1>a, <3>1 DEF Grown
    <3>2. CASE \E x : ent' = Append(ent, x)
      BY <3>2, AppendGrown, Zenon DEF Grown
    <3> QED
      BY <1>3, <3>1, <3>2, Zenon DEF Scan
  <2> QED
    BY <1>3, <2>1, GrownNames, Zenon DEF Scan
<1>4. CASE AddAndFetch
  <2>1. Te \in TransEntry
    BY <1>4, TeType, Zenon DEF AddAndFetch, Goto, Busy
  <2>2. Grown
    BY <1>4, <2>1, AddType, Zenon DEF AddAndFetch
  <2> QED
    BY <1>4, <2>2, GrownNames, Zenon DEF AddAndFetch
<1>5. CASE ReplaceOwners
  <2>1. Te \in TransEntry /\ fe \in DOMAIN ent
    BY <1>5, <1>a, TeType, Zenon DEF ReplaceOwners, Goto, Busy
  <2>2. Te.owners \ {Me} \in SUBSET Ip
    BY <2>1, Zenon DEF TransEntry
  <2>3. Grown
    BY <1>5, <2>1, <2>2, EntryUpdate, Zenon DEF ReplaceOwners
  <2> QED
    BY <1>5, <2>3, GrownNames, Zenon DEF ReplaceOwners
<1>6. CASE RaiseAndFetch
  <2>1. Te \in TransEntry /\ fe \in DOMAIN ent
    BY <1>6, <1>a, TeType, Zenon DEF RaiseAndFetch, Goto, Busy
  <2>2. Te.timestamp \in Nat
    BY <2>1, Zenon DEF TransEntry
  <2>3. Grown
    BY <1>6, <2>1, <2>2, EntryUpdate, Zenon DEF RaiseAndFetch
  <2> QED
    BY <1>6, <2>3, GrownNames, Zenon DEF RaiseAndFetch
<1>7. CASE TableEvent
  BY <1>7, TableGrown, GrownNames, Zenon DEF TableEvent
<1>8. CASE MonitorStep
  <2>1. TableEvent \/ UNCHANGED <<ent, dpc, dfe>>
    BY <1>8, Zenon DEF MonitorStep, WatchTargets, pthread_wait_notify, ReadEvents, LookAtEvent,
         handle_event, StatEvent, MonitorUseAfterFree, SendUpdate, tabVars, dlVars
  <2> QED
    BY <1>1, <1>7, <2>1, Zenon
<1>9. CASE UserStep
  BY <1>1, <1>9, Zenon DEF UserStep, UserEdit, UserDelete, UserMkdir, tabVars, dlVars
<1>10. CASE ReceiverStep
  <2>1. CASE \/ pthread_wait_init \/ pthread_wait_for \/ Woken \/ SendSync \/ RecvSync
             \/ Recv \/ Applied \/ Find \/ CompareTimestamps \/ SkipNone
    BY <1>1, <2>1, Zenon DEF pthread_wait_init, pthread_wait_for, Woken, SendSync, RecvSync, Recv,
         Applied, Find, CompareTimestamps, SkipNone, tabVars, dlVars
  <2>2. CASE \/ Delete \/ DeleteTarget \/ DeleteLock \/ RemoveFile \/ RemoveDirectory
             \/ DirTarget \/ Unwatch \/ DeleteUnblock \/ ReceiverUseAfterFree
    BY <1>1, <2>2, Zenon DEF Delete, DeleteEntry, DeleteTarget, DeleteLock, RemoveFile, RemoveDirectory,
         DirTarget, Unwatch, DeleteUnblock, ReceiverUseAfterFree, tabVars, dlVars
  <2> QED
    BY <1>3, <1>4, <1>5, <1>6, <1>10, <2>1, <2>2, ZenonT(30) DEF ReceiverStep
<1>11. CASE UNCHANGED vars
  BY <1>1, <1>11, Zenon DEF vars, tabVars, dlVars
<1> QED
  BY <1>2, <1>8, <1>9, <1>10, <1>11, Zenon DEF Next

\* What has been noted stays noted.
LEMMA RacesKept ==
  ASSUME [Next]_vars
  PROVE  race \subseteq race'
<1>1. CASE ReceiverStep
  BY <1>1, Zenon DEF ReceiverStep, pthread_wait_init, pthread_wait_for, Woken, Scan, SendSync, RecvSync,
       Recv, Applied, Find, AddAndFetch, ReplaceOwners, CompareTimestamps, RaiseAndFetch, SkipNone,
       Delete, DeleteTarget, DeleteLock, RemoveFile, RemoveDirectory, DirTarget, Unwatch,
       DeleteUnblock, ReceiverUseAfterFree, histVars
<1>2. CASE MonitorStep
  BY <1>2, Zenon DEF MonitorStep, WatchTargets, pthread_wait_notify, ReadEvents, LookAtEvent,
       handle_event, StatEvent, TableEvent, MonitorUseAfterFree, SendUpdate, histVars
<1>3. CASE UserStep
  BY <1>3, Zenon DEF UserStep, UserEdit, UserDelete, UserMkdir
<1>4. CASE \E k \in Task : DownloadStep(k)
  BY <1>4, ZenonT(30) DEF DownloadStep, CutName, FindTarget, MakeDirectory, Block, OpenFile, OpenDirectory,
       FetchFile, StampFile, notify_tracker_add_me, Unblock, UseAfterFree, histVars
<1>5. CASE UNCHANGED vars
  BY <1>5, Zenon DEF vars, histVars
<1> QED
  BY <1>1, <1>2, <1>3, <1>4, <1>5, Zenon DEF Next

-----------------------------------------------------------------------------
(* The start: the monitor has its targets before anything is downloaded.   *)

\* Only the receiver starts downloads, and only once it has the answer.
LEMMA BootKept ==
  ASSUME Types, Boot, [Next]_vars
  PROVE  Boot'
<1>a. \A k \in Task : dpc[k] # "idle" => pc \notin {"winit", "waitFor", "waiting", "woken", "scan", "reply"}
  BY Zenon DEF Boot
<1>1. CASE UNCHANGED <<opc, pc, dpc>>
  BY <1>1, Zenon DEF Boot
<1>2. ASSUME NEW k \in Task, DownloadStep(k)
      PROVE  Boot'
  <2>1. UNCHANGED <<opc, pc>>
    BY <1>2, Zenon DEF DownloadStep, CutName, FindTarget, MakeDirectory, Block, OpenFile, OpenDirectory,
         FetchFile, StampFile, notify_tracker_add_me, Unblock, UseAfterFree, obsVars, rcvVars
  <2>2. CASE UseAfterFree(k)
    BY <1>1, <2>1, <2>2, Zenon DEF UseAfterFree, dlVars
  <2>3. CASE ~UseAfterFree(k)
    <3>1. dpc[k] # "idle"
      BY <1>2, <2>3, Zenon DEF DownloadStep, CutName, FindTarget, MakeDirectory, Block, OpenFile,
           OpenDirectory, FetchFile, StampFile, notify_tracker_add_me, Unblock, Step
    <3> QED
      BY <1>a, <2>1, <3>1, Zenon DEF Boot
  <2> QED
    BY <2>2, <2>3, Zenon
<1>3. CASE UserStep
  BY <1>1, <1>3, Zenon DEF UserStep, UserEdit, UserDelete, UserMkdir, obsVars, rcvVars, dlVars
<1>4. CASE MonitorStep
  <2>1. UNCHANGED dpc
    BY <1>4, Zenon DEF MonitorStep, WatchTargets, pthread_wait_notify, ReadEvents, LookAtEvent,
         handle_event, StatEvent, TableEvent, MonitorUseAfterFree, SendUpdate, dlVars
  <2>2. CASE pthread_wait_notify
    BY <2>1, <2>2, Zenon DEF pthread_wait_notify, MonitorAt, Boot
  <2>3. CASE MonitorUseAfterFree
    BY <1>1, <2>1, <2>3, Zenon DEF MonitorUseAfterFree, obsVars, rcvVars
  <2>4. CASE ~pthread_wait_notify /\ ~MonitorUseAfterFree
    <3>1. opc' # "watch" /\ UNCHANGED pc
      BY <1>4, <2>4, Zenon DEF MonitorStep, WatchTargets, ReadEvents, LookAtEvent,
           handle_event, StatEvent, TableEvent, SendUpdate, MonitorAt, rcvVars
    <3> QED
      BY <2>1, <3>1, Zenon DEF Boot
  <2> QED
    BY <2>2, <2>3, <2>4, Zenon
<1>5. CASE ReceiverStep
  <2>0. CASE ReceiverUseAfterFree
    BY <1>1, <2>0, Zenon DEF ReceiverUseAfterFree, obsVars, rcvVars, dlVars
  <2>1. CASE pthread_wait_init \/ pthread_wait_for \/ Woken \/ Scan \/ SendSync \/ RecvSync
    BY <2>1, Zenon DEF pthread_wait_init, pthread_wait_for, Woken, Scan, SendSync, RecvSync, Goto,
         Boot, obsVars, dlVars
  <2>2. CASE \/ Recv \/ Applied \/ Find \/ AddAndFetch \/ ReplaceOwners \/ CompareTimestamps
             \/ RaiseAndFetch \/ SkipNone
    <3>1. /\ pc \notin {"winit", "waitFor", "waiting", "woken", "scan", "reply"}
          /\ pc' \notin {"winit", "waitFor", "waiting", "woken", "scan", "reply"} /\ UNCHANGED opc
      BY <2>2, Zenon DEF Recv, Applied, Find, AddAndFetch, ReplaceOwners, CompareTimestamps,
           RaiseAndFetch, SkipNone, Goto, obsVars
    <3> QED
      BY <3>1, Zenon DEF Boot
  <2>3. CASE \/ Delete \/ DeleteTarget \/ DeleteLock \/ RemoveFile \/ RemoveDirectory
             \/ DirTarget \/ Unwatch \/ DeleteUnblock
    <3>1. /\ pc \notin {"winit", "waitFor", "waiting", "woken", "scan", "reply"}
          /\ pc' \notin {"winit", "waitFor", "waiting", "woken", "scan", "reply"} /\ UNCHANGED opc
      BY <2>3, Zenon DEF Delete, DeleteTarget, DeleteLock, RemoveFile, RemoveDirectory, DirTarget,
           Unwatch, DeleteUnblock, Goto, obsVars
    <3> QED
      BY <3>1, Zenon DEF Boot
  <2> QED
    BY <1>5, <2>0, <2>1, <2>2, <2>3, Zenon DEF ReceiverStep
<1>6. CASE UNCHANGED vars
  BY <1>1, <1>6, Zenon DEF vars, obsVars, rcvVars, dlVars
<1> QED
  BY <1>2, <1>3, <1>4, <1>5, <1>6, Zenon DEF Next

-----------------------------------------------------------------------------
(* The mutex of a target.                                                  *)

\* targets are left, freed, or new; only the mutex of a freed one is forgotten
Shift ==
  \A c \in Dir :
    /\ gen'[c] >= gen[c]
    /\ tgt'[c] \in {0, tgt[c]} \/ tgt'[c] > gen[c]
    /\ tmx'[c] = tmx[c] \/ tgt'[c] = 0

\* a download stays where it holds its target, or finds a target
Stays(k) ==
  /\ dtg'[k] = dtg[k] /\ dpc[k] \in Holding \cup {"lock"}
  /\ dpc'[k] \in Holding => dpc[k] \in Holding
FindsOne(k) ==
  /\ dpc[k] # "idle" /\ dpc'[k] = "lock" /\ dtg'[k] # 0 /\ dtg'[k] <= gen'[DirOf(k)]

\* the same for the receiver
ReceiverStays ==
  /\ UNCHANGED <<rtg, todo>> /\ pc \in Removing \cup {"lock"}
  /\ pc' \in Removing => pc \in Removing
ReceiverFinds == pc' = "lock" /\ rtg' <= gen'[In[Te.name]] /\ UNCHANGED todo

\* Steps that take no mutex.
LEMMA LocksKept ==
  ASSUME Types, Types', Locks, KeepNames, Shift,
         \A k \in Task : dpc'[k] \in Holding \cup {"lock"} => Stays(k) \/ FindsOne(k),
         pc' \in Removing \cup {"lock"} => ReceiverStays \/ ReceiverFinds
  PROVE  Locks'
<1>a. /\ tgt \in [Dir -> Nat] /\ gen \in [Dir -> Nat] /\ tgt' \in [Dir -> Nat] /\ gen' \in [Dir -> Nat]
      /\ dtg \in [Task -> Nat] /\ dtg' \in [Task -> Nat] /\ rtg \in Nat /\ rtg' \in Nat
  BY Zenon DEF Types, MonOK, DlOK, RcvOK
<1>1. ASSUME NEW k \in Task, dpc'[k] \in Holding \cup {"lock"}
      PROVE  /\ dtg'[k] # 0 /\ dtg'[k] <= gen'[DirOf(k)']
             /\ dpc'[k] \in Holding /\ dtg'[k] = tgt'[DirOf(k)'] => tmx'[DirOf(k)'] = k
  <2>1. dpc[k] # "idle"
    BY <1>1, Zenon DEF Stays, FindsOne, Holding
  <2>2. DirOf(k)' = DirOf(k) /\ DirOf(k) \in Dir
    BY <2>1, NameType, Zenon DEF KeepNames, DirOf
  <2> DEFINE d == DirOf(k)
  <2> HIDE DEF d
  <2>3. CASE FindsOne(k)
    BY <2>2, <2>3, Zenon DEF FindsOne, Holding
  <2>4. CASE Stays(k)
    <3>1. d \in Dir /\ dtg[k] # 0 /\ dtg[k] <= gen[d] /\ dtg'[k] = dtg[k]
      BY <2>2, <2>4, Zenon DEF Stays, Locks, d
    <3>2. gen'[d] >= gen[d] /\ gen[d] \in Nat /\ gen'[d] \in Nat /\ dtg[k] \in Nat
      BY <1>a, <3>1, Zenon DEF Shift
    <3>3. ASSUME dpc'[k] \in Holding, dtg'[k] = tgt'[d]
          PROVE  tmx'[d] = k
      <4>1. tgt'[d] = tgt[d]
        BY <1>a, <3>1, <3>2, <3>3, SMTT(40), ZenonT(15) DEF Shift
      <4>2. tmx'[d] = tmx[d]
        BY <3>1, <3>3, Zenon DEF Shift
      <4>3. dpc[k] \in Holding
        BY <2>4, <3>3, Zenon DEF Stays
      <4> QED
        BY <3>1, <3>3, <4>1, <4>2, <4>3, Zenon DEF Locks, d
    <3> QED
      BY <2>2, <3>1, <3>2, <3>3 DEF d
  <2> QED
    BY <1>1, <2>3, <2>4, Zenon
<1>2. ASSUME pc' \in Removing \cup {"lock"}
      PROVE  /\ rtg' <= gen'[In[Te'.name]]
             /\ pc' \in Removing => rtg' # 0
             /\ pc' \in Removing /\ rtg' = tgt'[In[Te'.name]] => tmx'[In[Te'.name]] = Receiver
  <2>1. CASE ReceiverFinds
    BY <1>2, <2>1, Zenon DEF ReceiverFinds, Removing, Te
  <2>2. CASE ReceiverStays
    <3> DEFINE d == In[Te.name]
    <3>1. d \in Dir /\ In[Te'.name] = d
      BY <2>2, TeType, Zenon DEF ReceiverStays, Removing, Busy, Te
    <3> HIDE DEF d
    <3>2. rtg <= gen[d] /\ rtg' = rtg /\ (pc' \in Removing => rtg # 0)
      BY <2>2, Zenon DEF ReceiverStays, Locks, d
    <3>3. gen'[d] >= gen[d] /\ gen[d] \in Nat /\ gen'[d] \in Nat
      BY <1>a, <3>1, Zenon DEF Shift
    <3>4. ASSUME pc' \in Removing, rtg' = tgt'[d]
          PROVE  tmx'[d] = Receiver
      <4>1. tgt'[d] = tgt[d] /\ tmx'[d] = tmx[d]
        BY <1>a, <3>1, <3>2, <3>3, <3>4, SMTT(40), ZenonT(15) DEF Shift
      <4> QED
        BY <2>2, <3>2, <3>4, <4>1, Zenon DEF ReceiverStays, Locks, d
    <3> QED
      BY <1>a, <3>1, <3>2, <3>3, <3>4
  <2> QED
    BY <1>2, <2>1, <2>2, Zenon
<1> QED
  BY <1>1, <1>2, Zenon DEF Locks

\* h is the only one who holds, and after the step relies on, the target of d.
TaskPass(d, h) ==
  \A k \in Task : dpc'[k] \in Holding \cup {"lock"} =>
    /\ dpc[k] \in Holding \cup {"lock"}
    /\ dpc'[k] \in Holding =>
         \/ h = k /\ DirOf(k) = d
         \/ dpc[k] \in Holding /\ ~(DirOf(k) = d /\ dtg[k] = tgt[d])
ReceiverPass(d, h) ==
  pc' \in Removing \cup {"lock"} =>
    /\ pc \in Removing \cup {"lock"} /\ UNCHANGED todo
    /\ pc' \in Removing =>
         \/ h = Receiver /\ In[Te.name] = d /\ rtg # 0
         \/ pc \in Removing /\ ~(In[Te.name] = d /\ rtg = tgt[d])

\* The mutex of the target of d passes to h, and nobody else relied on it.
LEMMA LocksPass ==
  ASSUME Types, Types', Locks, KeepNames, UNCHANGED <<tgt, gen, dtg, rtg>>,
         NEW d \in Dir, NEW h, tmx' = [tmx EXCEPT ![d] = h], TaskPass(d, h), ReceiverPass(d, h)
  PROVE  Locks'
<1>a. tmx \in [Dir -> Task \cup {Nobody, Receiver}]
  BY Zenon DEF Types, MonOK
<1>1. ASSUME NEW k \in Task, dpc'[k] \in Holding \cup {"lock"}
      PROVE  /\ dtg'[k] # 0 /\ dtg'[k] <= gen'[DirOf(k)']
             /\ dpc'[k] \in Holding /\ dtg'[k] = tgt'[DirOf(k)'] => tmx'[DirOf(k)'] = k
  <2>1. dpc[k] \in Holding \cup {"lock"} /\ dpc[k] # "idle"
    BY <1>1, Zenon DEF Holding, TaskPass
  <2>2. DirOf(k)' = DirOf(k) /\ DirOf(k) \in Dir
    BY <2>1, NameType, Zenon DEF KeepNames, DirOf
  <2> DEFINE c == DirOf(k)
  <2> HIDE DEF c
  <2>3. dtg[k] # 0 /\ dtg[k] <= gen[c]
    BY <2>1, Zenon DEF Locks, c
  <2>4. ASSUME dpc'[k] \in Holding, dtg[k] = tgt[c]
        PROVE  tmx'[c] = k
    <3>1. CASE h = k /\ c = d
      BY <1>a, <3>1, Zenon
    <3>2. CASE dpc[k] \in Holding /\ c # d
      <4>1. tmx[c] = k
        BY <2>4, <3>2, Zenon DEF Locks, c
      <4> QED
        BY <1>a, <2>2, <3>2, <4>1, Zenon DEF c
    <3> QED
      BY <1>1, <2>4, <3>1, <3>2, Zenon DEF c, TaskPass
  <2> QED
    BY <2>2, <2>3, <2>4, Zenon DEF c
<1>2. ASSUME pc' \in Removing \cup {"lock"}
      PROVE  /\ rtg' <= gen'[In[Te'.name]]
             /\ pc' \in Removing => rtg' # 0
             /\ pc' \in Removing /\ rtg' = tgt'[In[Te'.name]] => tmx'[In[Te'.name]] = Receiver
  <2> DEFINE c == In[Te.name]
  <2>1. c \in Dir /\ In[Te'.name] = c
    BY <1>2, TeType, Zenon DEF Removing, Busy, Te, ReceiverPass
  <2>2. rtg <= gen[c] /\ (pc' \in Removing => rtg # 0)
    BY <1>2, Zenon DEF Locks, ReceiverPass
  <2>3. ASSUME pc' \in Removing, rtg = tgt[c]
        PROVE  tmx'[c] = Receiver
    <3>1. CASE h = Receiver /\ c = d
      BY <1>a, <3>1, Zenon
    <3>2. CASE pc \in Removing /\ c # d
      <4>1. tmx[c] = Receiver
        BY <2>3, <3>2, Zenon DEF Locks
      <4> HIDE DEF c
      <4> QED
        BY <1>a, <2>1, <3>2, <4>1, Zenon
    <3> QED
      BY <1>2, <2>3, <3>1, <3>2, Zenon DEF ReceiverPass
  <2> HIDE DEF c
  <2> QED
    BY <2>1, <2>2, <2>3, Zenon
<1> QED
  BY <1>1, <1>2, Zenon DEF Locks

\* Nobody, a download and the receiver are different holders.
LEMMA Holders ==
  Nobody \notin Task /\ Receiver \notin Task /\ Nobody # Receiver
BY BoundAssumption DEF Nobody, Receiver, Task

\* file_monitor_block and file_monitor_unblock of a download.
LEMMA DownloadLocks ==
  ASSUME Types, Types', Locks, KeepNames, NEW k \in Task, Block(k) \/ Unblock(k)
  PROVE  Locks'
<1> DEFINE d == DirOf(k)
<1>a. dpc[k] # "idle"
  BY Zenon DEF Block, Unblock, Step
<1>b. d \in Dir /\ dpc \in [Task -> Places]
  BY <1>a, NameType, Zenon DEF DirOf, Types, DlOK
<1>c. \A j \in Task : dpc[j] \in Holding /\ dtg[j] = tgt[DirOf(j)] => tmx[DirOf(j)] = j
  BY Zenon DEF Locks
<1>d. pc \in Removing /\ rtg = tgt[In[Te.name]] => tmx[In[Te.name]] = Receiver
  BY Zenon DEF Locks
<1>1. CASE Block(k)
  <2> USE <1>1 DEF Block, Step, BlockTarget
  <2>1. tmx' = [tmx EXCEPT ![d] = k] /\ tmx[d] = Nobody /\ tgt[d] = dtg[k]
    BY Zenon DEF DirOf
  <2>2. UNCHANGED <<tgt, gen, dtg, rtg, pc, todo>> /\ dpc' = [dpc EXCEPT ![k] = "open"]
    BY Zenon DEF rcvVars
  <2>3. dpc[k] = "lock"
    BY Zenon
  <2> HIDE <1>1 DEF d
  <2>4. TaskPass(d, k)
    BY <1>b, <1>c, <2>1, <2>2, <2>3, Holders, ZenonT(30) DEF d, TaskPass
  <2>5. ~(pc \in Removing /\ In[Te.name] = d /\ rtg = tgt[d])
    BY <1>d, <2>1, Holders, Zenon
  <2>6. ReceiverPass(d, k)
    BY <2>2, <2>5, Zenon DEF ReceiverPass
  <2> QED
    BY <1>b, <2>1, <2>2, <2>4, <2>6, LocksPass, Zenon
<1>2. CASE Unblock(k)
  <2> USE <1>2 DEF Unblock, Step, UnblockTarget
  <2>1. tmx' = [tmx EXCEPT ![d] = Nobody] /\ tgt[d] = dtg[k]
    BY Zenon DEF DirOf
  <2>2. UNCHANGED <<tgt, gen, dtg, rtg, pc, todo>>
    BY Zenon DEF rcvVars
  <2>3. dpc[k] \in Holding /\ \E to \in {"done", "failed"} : dpc' = [dpc EXCEPT ![k] = to]
    BY Zenon DEF Holding
  <2> HIDE <1>2 DEF d
  <2>4. tmx[d] = k
    BY <1>c, <2>1, <2>3, Zenon DEF d
  <2>5. TaskPass(d, Nobody)
    <3> SUFFICES ASSUME NEW j \in Task, dpc'[j] \in Holding \cup {"lock"}
                 PROVE  /\ dpc[j] \in Holding \cup {"lock"} /\ dpc'[j] = dpc[j]
                        /\ dpc[j] \in Holding => ~(DirOf(j) = d /\ dtg[j] = tgt[d])
      BY Zenon DEF TaskPass
    <3>1. j # k
      BY <1>b, <2>3, Zenon DEF Holding
    <3>2. dpc'[j] = dpc[j]
      BY <1>b, <2>3, <3>1, Zenon
    <3> QED
      BY <1>c, <2>4, <3>1, <3>2, ZenonT(30)
  <2>6. ~(pc \in Removing /\ In[Te.name] = d /\ rtg = tgt[d])
    BY <1>d, <2>4, Holders, Zenon
  <2>7. ReceiverPass(d, Nobody)
    BY <2>2, <2>6, Zenon DEF ReceiverPass
  <2> HIDE DEF Unblock, Step, UnblockTarget
  <2> QED
    BY <1>b, <2>1, <2>2, <2>5, <2>7, LocksPass, Zenon
<1> QED
  BY <1>1, <1>2, Zenon

\* file_monitor_block and file_monitor_unblock of the receiver.
LEMMA ReceiverLocks ==
  ASSUME Types, Types', Locks, KeepNames, DeleteLock \/ DeleteUnblock
  PROVE  Locks'
<1> DEFINE d == In[Te.name]
<1>a. d \in Dir
  BY TeType, Zenon DEF DeleteLock, DeleteUnblock, Goto, Busy
<1>c. \A j \in Task : dpc[j] \in Holding /\ dtg[j] = tgt[DirOf(j)] => tmx[DirOf(j)] = j
  BY Zenon DEF Locks
<1>1. CASE DeleteLock
  <2> USE <1>1 DEF DeleteLock, Goto, BlockTarget
  <2>1. tmx' = [tmx EXCEPT ![d] = Receiver] /\ tmx[d] = Nobody /\ rtg # 0
    BY Zenon
  <2>2. UNCHANGED <<tgt, gen, dtg, rtg, todo, dpc>> /\ pc = "lock" /\ pc' = "remove"
    BY Zenon DEF dlVars
  <2> HIDE <1>1 DEF d
  <2>4. TaskPass(d, Receiver)
    BY <1>c, <2>1, <2>2, Holders, Zenon DEF TaskPass
  <2>5. ReceiverPass(d, Receiver)
    BY <2>1, <2>2, Zenon DEF d, ReceiverPass
  <2> QED
    BY <1>a, <2>1, <2>2, <2>4, <2>5, LocksPass, Zenon
<1>2. CASE DeleteUnblock
  <2> USE <1>2 DEF DeleteUnblock, Goto, UnblockTarget
  <2>1. tmx' = [tmx EXCEPT ![d] = Nobody] /\ tgt[d] = rtg
    BY Zenon
  <2>2. UNCHANGED <<tgt, gen, dtg, rtg, dpc>> /\ pc = "unblock" /\ pc' = "apply"
    BY Zenon DEF dlVars
  <2>3. tmx[d] = Receiver
    BY <2>1, <2>2, Zenon DEF Locks, Removing
  <2> HIDE <1>2 DEF d
  <2>4. TaskPass(d, Nobody)
    BY <1>c, <2>2, <2>3, Holders, Zenon DEF TaskPass
  <2>5. ReceiverPass(d, Nobody)
    BY <2>2, Zenon DEF Removing, ReceiverPass
  <2> QED
    BY <1>a, <2>1, <2>2, <2>4, <2>5, LocksPass, Zenon
<1> QED
  BY <1>1, <1>2, Zenon

\* watch_target_add, __unwatch_and_free_target, and steps without either.
LEMMA Shifts ==
  ASSUME Types, NEW d \in Dir
  PROVE  /\ UNCHANGED <<tgt, gen, tmx>> => Shift
         /\ TargetAdd(d) /\ UNCHANGED tmx => Shift
         /\ FreeTarget(d) => Shift
<1>a. /\ tgt \in [Dir -> Nat] /\ gen \in [Dir -> Nat] /\ \A c \in Dir : tgt[c] <= gen[c]
      /\ tmx \in [Dir -> Task \cup {Nobody, Receiver}]
  BY Zenon DEF Types, MonOK
<1>1. UNCHANGED <<tgt, gen, tmx>> => Shift
  BY <1>a DEF Shift
<1>2. ASSUME TargetAdd(d), UNCHANGED tmx
      PROVE  Shift
  BY <1>a, <1>2 DEF Shift, TargetAdd
<1>3. ASSUME FreeTarget(d)
      PROVE  Shift
  BY <1>a, <1>3 DEF Shift, FreeTarget
<1> QED
  BY <1>1, <1>2, <1>3, Zenon

\* What a download does except with a mutex.
LEMMA DownloadShifts ==
  ASSUME Types, Locks, NEW k \in Task, DownloadStep(k), ~Block(k), ~Unblock(k)
  PROVE  /\ Shift /\ UNCHANGED <<pc, rtg, todo>>
         /\ \A j \in Task : dpc'[j] \in Holding \cup {"lock"} => Stays(j) \/ FindsOne(j)
<1>a. /\ dpc \in [Task -> Places] /\ dtg \in [Task -> Nat] /\ Root \in Dir
      /\ tgt \in [Dir -> Nat] /\ gen \in [Dir -> Nat] /\ \A c \in Dir : tgt[c] <= gen[c]
  BY DirAssumption, Zenon DEF Types, DlOK, MonOK
<1>b. dpc[k] # "idle" => DirOf(k) \in Dir /\ NameOf(k) \in Name
  BY NameType, Zenon DEF DirOf
<1>c. ASSUME UNCHANGED dtg, NEW to, dpc' = [dpc EXCEPT ![k] = to],
             to \in Holding => dpc[k] \in Holding,
             to \in Holding \cup {"lock"} => dpc[k] \in Holding \cup {"lock"}
      PROVE  \A j \in Task : dpc'[j] \in Holding \cup {"lock"} => Stays(j) \/ FindsOne(j)
  BY <1>a, <1>c, Zenon DEF Stays
<1>1. CASE CutName(k)
  <2>1. \A j \in Task : dpc'[j] \in Holding \cup {"lock"} => Stays(j) \/ FindsOne(j)
    BY <1>1, <1>c, Zenon DEF CutName, Step, Holding
  <2> QED
    BY <1>1, <1>a, <2>1, Shifts, Zenon DEF CutName, rcvVars
<1>2. CASE FindTarget(k)
  <2> USE <1>2 DEF FindTarget, Step
  <2>0. dpc[k] # "idle" /\ DirOf(k) \in Dir
    BY <1>b, Zenon
  <2> DEFINE d == DirOf(k)
  <2>1. /\ dtg' = [dtg EXCEPT ![k] = tgt[d]] /\ UNCHANGED <<tgt, gen, tmx, pc, rtg, todo>>
        /\ dpc' = [dpc EXCEPT ![k] = IF tgt[d] = 0 THEN "mkdir" ELSE "lock"]
    BY Zenon DEF DirOf, rcvVars
  <2>2. ASSUME NEW j \in Task, dpc'[j] \in Holding \cup {"lock"}
        PROVE  Stays(j) \/ FindsOne(j)
    <3> HIDE <1>2 DEF d
    <3>1. CASE j = k
      BY <1>a, <2>0, <2>1, <2>2, <3>1, Zenon DEF FindsOne, Holding, d
    <3>2. CASE j # k
      BY <1>a, <2>1, <2>2, <3>2, Zenon DEF Stays
    <3> QED
      BY <3>1, <3>2, Zenon
  <2> QED
    BY <2>0, <2>1, <2>2, Shifts, Zenon
<1>3. CASE MakeDirectory(k)
  <2> USE <1>3 DEF MakeDirectory, Step
  <2>0. dpc[k] # "idle" /\ DirOf(k) \in Dir
    BY <1>b, Zenon
  <2> DEFINE d == DirOf(k)
  <2>1. UNCHANGED <<tmx, pc, rtg, todo>>
    BY Zenon DEF rcvVars
  <2>2. CASE UNCHANGED <<tgt, gen, dtg>> /\ dpc' = [dpc EXCEPT ![k] = "failed"]
    BY <1>a, <1>c, <2>1, <2>2, Shifts, ZenonT(30) DEF Holding
  <2>3. CASE /\ TargetAdd(d) /\ dtg' = [dtg EXCEPT ![k] = tgt'[d]]
             /\ dpc' = [dpc EXCEPT ![k] = "lock"]
    <3> HIDE <1>3 DEF d
    <3>1. tgt'[d] # 0 /\ tgt'[d] <= gen'[d]
      BY <1>a, <2>0, <2>3, SMTT(40), ZenonT(15) DEF TargetAdd, d
    <3>2. ASSUME NEW j \in Task, dpc'[j] \in Holding \cup {"lock"}
          PROVE  Stays(j) \/ FindsOne(j)
      <4>1. CASE j = k
        BY <1>a, <2>0, <2>3, <3>1, <4>1, Zenon DEF FindsOne, d
      <4>2. CASE j # k
        BY <1>a, <2>3, <3>2, <4>2, Zenon DEF Stays
      <4> QED
        BY <4>1, <4>2, Zenon
    <3> QED
      BY <2>0, <2>1, <2>3, <3>2, Shifts, Zenon DEF d
  <2> QED
    BY <2>2, <2>3, Zenon DEF DirOf
<1>4. CASE OpenFile(k)
  <2>0. Verdict(-1) = "fail"
    BY DEF Verdict
  <2>1. PICK to \in {"fetch", "fail"} : dpc' = [dpc EXCEPT ![k] = to]
    BY <1>4, <2>0, Zenon DEF OpenFile, Step
  <2>2. dpc[k] = "open" /\ UNCHANGED <<dtg, tgt, gen, tmx, pc, rtg, todo>>
    BY <1>4, Zenon DEF OpenFile, Step, monVars, rcvVars
  <2> QED
    BY <1>a, <1>c, <2>1, <2>2, Shifts, Zenon DEF Holding
<1>5. CASE OpenDirectory(k)
  <2>1. PICK to \in {"stamp", "fail"} : dpc' = [dpc EXCEPT ![k] = to]
    BY <1>5, Zenon DEF OpenDirectory, Step, Verdict
  <2>2. dpc[k] = "open" /\ UNCHANGED <<dtg, tmx, pc, rtg, todo>>
    BY <1>5, Zenon DEF OpenDirectory, Step, rcvVars
  <2>3. NameOf(k) \in Dir /\ (UNCHANGED <<tgt, gen>> \/ TargetAdd(NameOf(k)))
    BY <1>5, Zenon DEF OpenDirectory
  <2> QED
    BY <1>a, <1>c, <2>1, <2>2, <2>3, Shifts, Zenon DEF Holding
<1>6. CASE FetchFile(k)
  <2>1. PICK to \in {"stamp", "fail", "hung"} : dpc' = [dpc EXCEPT ![k] = to]
    BY <1>6, Zenon DEF FetchFile, Step, Verdict
  <2>2. dpc[k] = "fetch" /\ UNCHANGED <<dtg, tgt, gen, tmx, pc, rtg, todo>>
    BY <1>6, Zenon DEF FetchFile, Step, monVars, rcvVars
  <2> QED
    BY <1>a, <1>c, <2>1, <2>2, Shifts, Zenon DEF Holding
<1>7. CASE StampFile(k) \/ notify_tracker_add_me(k)
  <2>1. PICK to \in {"notify", "unblock"} : dpc' = [dpc EXCEPT ![k] = to]
    BY <1>7, Zenon DEF StampFile, notify_tracker_add_me, Step
  <2>2. dpc[k] \in {"stamp", "notify"} /\ UNCHANGED <<dtg, tgt, gen, tmx, pc, rtg, todo>>
    BY <1>7, Zenon DEF StampFile, notify_tracker_add_me, Step, monVars, rcvVars
  <2> QED
    BY <1>a, <1>c, <2>1, <2>2, Shifts, Zenon DEF Holding
<1>8. CASE UseAfterFree(k)
  <2>1. UNCHANGED <<dpc, dtg, tgt, gen, tmx, pc, rtg, todo>>
    BY <1>8, Zenon DEF UseAfterFree, monVars, rcvVars, dlVars
  <2> QED
    BY <1>a, <2>1, Shifts, Zenon DEF Stays
<1> QED
  BY <1>1, <1>2, <1>3, <1>4, <1>5, <1>6, <1>7, <1>8, Zenon DEF DownloadStep

\* Downloads that stay where they are, or start.
LEMMA SpawnStays ==
  ASSUME Types, UNCHANGED dlVars \/ \E i : Spawn(i)
  PROVE  \A j \in Task : dpc'[j] \in Holding \cup {"lock"} => Stays(j)
<1>a. dpc \in [Task -> Places]
  BY Zenon DEF Types, DlOK
<1>1. CASE UNCHANGED dlVars
  BY <1>1, Zenon DEF dlVars, Stays
<1>2. ASSUME NEW i, Spawn(i)
      PROVE  \A j \in Task : dpc'[j] \in Holding \cup {"lock"} => Stays(j)
  <2>1. PICK k \in Task : dpc' = [dpc EXCEPT ![k] = "name"] /\ UNCHANGED dtg
    BY <1>2, Zenon DEF Spawn
  <2> QED
    BY <1>a, <2>1, Zenon DEF Stays, Holding
<1> QED
  BY <1>1, <1>2, Zenon

\* Every step keeps who holds which mutex.
LEMMA LocksStep ==
  ASSUME Types, Boot, Locks, [Next]_vars
  PROVE  Locks'
<1>a. Types' /\ KeepNames /\ Root \in Dir
  BY NextTypes, NamesKept, DirAssumption, Zenon
<1>b. ASSUME UNCHANGED dlVars \/ \E i : Spawn(i), Shift,
             UNCHANGED <<pc, rtg, todo>> \/ pc' \notin Removing \cup {"lock"}
      PROVE  Locks'
  <2>1. \A j \in Task : dpc'[j] \in Holding \cup {"lock"} => Stays(j)
    BY <1>b, SpawnStays, Zenon
  <2>2. pc' \in Removing \cup {"lock"} => ReceiverStays
    BY <1>b, Zenon DEF ReceiverStays
  <2> QED
    BY <1>a, <1>b, <2>1, <2>2, LocksKept, Zenon
<1>1. ASSUME NEW k \in Task, DownloadStep(k)
      PROVE  Locks'
  <2>1. CASE Block(k) \/ Unblock(k)
    BY <1>a, <2>1, DownloadLocks, Zenon
  <2>2. CASE ~Block(k) /\ ~Unblock(k)
    <3>1. /\ Shift /\ UNCHANGED <<pc, rtg, todo>>
          /\ \A j \in Task : dpc'[j] \in Holding \cup {"lock"} => Stays(j) \/ FindsOne(j)
      BY <1>1, <2>2, DownloadShifts, Zenon
    <3>2. pc' \in Removing \cup {"lock"} => ReceiverStays
      BY <3>1, Zenon DEF ReceiverStays
    <3> QED
      BY <1>a, <3>1, <3>2, LocksKept, Zenon
  <2> QED
    BY <2>1, <2>2, Zenon
<1>2. CASE MonitorStep
  <2>1. UNCHANGED dlVars
    BY <1>2, Zenon DEF MonitorStep, WatchTargets, pthread_wait_notify, ReadEvents, LookAtEvent,
         handle_event, StatEvent, TableEvent, MonitorUseAfterFree, SendUpdate
  <2>2. CASE WatchTargets
    <3>1. UNCHANGED <<dpc, pc>> /\ opc = "watch"
      BY <2>2, Zenon DEF WatchTargets, MonitorAt, dlVars, rcvVars
    <3>2. (\A k \in Task : dpc'[k] = "idle") /\ pc' \in {"winit", "waitFor", "waiting"}
      BY <3>1, Zenon DEF Boot
    <3> QED
      BY <3>2, Zenon DEF Locks, Holding, Removing
  <2>3. CASE pthread_wait_notify
    <3>1. UNCHANGED <<tgt, gen, tmx, rtg, todo>> /\ (pc' = "woken" \/ pc' = pc)
      BY <2>3, Zenon DEF pthread_wait_notify, monVars
    <3> QED
      BY <1>a, <1>b, <2>1, <3>1, Shifts, Zenon DEF Removing
  <2>4. CASE ReadEvents \/ LookAtEvent \/ TableEvent \/ MonitorUseAfterFree \/ SendUpdate
    <3>1. UNCHANGED <<tgt, gen, tmx, pc, rtg, todo>>
      BY <2>4, Zenon DEF ReadEvents, LookAtEvent, TableEvent, MonitorUseAfterFree, SendUpdate,
           monVars, rcvVars
    <3> QED
      BY <1>a, <1>b, <2>1, <3>1, Shifts, Zenon
  <2>5. CASE handle_event
    <3>1. Head(batch).dir \in Dir
      BY <2>5, EventType, Zenon DEF handle_event, MonitorAt, Types, ObsOK
    <3>2. FreeTarget(Head(batch).dir) \/ UNCHANGED <<tgt, gen, tmx>>
      BY <2>5, Zenon DEF handle_event, monVars
    <3>3. UNCHANGED <<pc, rtg, todo>>
      BY <2>5, Zenon DEF handle_event, rcvVars
    <3> QED
      BY <1>b, <2>1, <3>1, <3>2, <3>3, Shifts, ZenonT(30)
  <2>6. CASE StatEvent
    <3>1. UNCHANGED <<tgt, gen>> \/ (Head(batch).name \in Dir /\ TargetAdd(Head(batch).name))
      BY <2>6, Zenon DEF StatEvent, NewDirectory, Types, SysOK
    <3>2. UNCHANGED <<tmx, pc, rtg, todo>>
      BY <2>6, Zenon DEF StatEvent, rcvVars
    <3> QED
      BY <1>a, <1>b, <2>1, <3>1, <3>2, Shifts, Zenon
  <2> QED
    BY <1>2, <2>2, <2>3, <2>4, <2>5, <2>6, ZenonT(30) DEF MonitorStep
<1>3. CASE UserStep
  <2>1. UNCHANGED <<dlVars, tgt, gen, tmx, pc, rtg, todo>>
    BY <1>3, Zenon DEF UserStep, UserEdit, UserDelete, UserMkdir, monVars, rcvVars
  <2> QED
    BY <1>a, <1>b, <2>1, Shifts, Zenon
<1>4. CASE ReceiverStep
  <2>1. CASE \/ pthread_wait_init \/ pthread_wait_for \/ Woken \/ Scan \/ SendSync \/ RecvSync
             \/ Recv \/ Applied
    <3>1. UNCHANGED <<dlVars, tgt, gen, tmx>>
      BY <2>1, Zenon DEF pthread_wait_init, pthread_wait_for, Woken, Scan, SendSync, RecvSync, Recv,
           Applied, monVars
    <3>2. pc' \notin Removing \cup {"lock"}
      BY <2>1, Zenon DEF pthread_wait_init, pthread_wait_for, Woken, Scan, SendSync, RecvSync, Recv,
           Applied, Goto, Removing
    <3> QED
      BY <1>a, <1>b, <3>1, <3>2, Shifts, Zenon
  <2>2. CASE \/ Find \/ AddAndFetch \/ ReplaceOwners \/ CompareTimestamps \/ RaiseAndFetch
             \/ SkipNone \/ Delete
    <3>1. UNCHANGED <<tgt, gen, tmx>>
      BY <2>2, Zenon DEF Find, AddAndFetch, ReplaceOwners, CompareTimestamps, RaiseAndFetch, SkipNone,
           Delete, monVars
    <3>2. UNCHANGED dlVars \/ \E i : Spawn(i)
      BY <2>2, Zenon DEF Find, AddAndFetch, ReplaceOwners, CompareTimestamps, RaiseAndFetch, SkipNone,
           Delete
    <3>3. pc' \notin Removing \cup {"lock"}
      BY <2>2, Zenon DEF Find, AddAndFetch, ReplaceOwners, CompareTimestamps, RaiseAndFetch, SkipNone,
           Delete, Goto, Removing
    <3> QED
      BY <1>a, <1>b, <3>1, <3>2, <3>3, Shifts, ZenonT(30)
  <2>3. CASE DeleteLock \/ DeleteUnblock
    BY <1>a, <2>3, ReceiverLocks, Zenon
  <2>4. CASE DeleteTarget
    <3>1. In[Te.name] \in Dir
      BY <2>4, TeType, Zenon DEF DeleteTarget, Goto, Busy
    <3>2. UNCHANGED <<dlVars, tgt, gen, tmx, todo>> /\ pc' = "lock" /\ rtg' = tgt[In[Te.name]]
      BY <2>4, Zenon DEF DeleteTarget, Goto, monVars
    <3>3. ReceiverFinds
      BY <3>1, <3>2, Zenon DEF ReceiverFinds, Types, MonOK
    <3>4. \A j \in Task : dpc'[j] \in Holding \cup {"lock"} => Stays(j)
      BY <3>2, SpawnStays, Zenon
    <3> QED
      BY <1>a, <3>2, <3>3, <3>4, Shifts, LocksKept, Zenon
  <2>5. CASE RemoveFile \/ RemoveDirectory \/ DirTarget \/ Unwatch
    <3>1. UNCHANGED <<dlVars, rtg, todo>> /\ pc \in Removing
      BY <2>5, Zenon DEF RemoveFile, RemoveDirectory, DirTarget, Unwatch, Goto, Removing
    <3>2. ReceiverStays
      BY <3>1, Zenon DEF ReceiverStays
    <3>3. \A j \in Task : dpc'[j] \in Holding \cup {"lock"} => Stays(j)
      BY <3>1, SpawnStays, Zenon
    <3>4. UNCHANGED <<tgt, gen, tmx>> \/ (Te.name \in Dir /\ FreeTarget(Te.name))
      BY <2>5, Zenon DEF RemoveFile, RemoveDirectory, DirTarget, Unwatch, Goto, monVars, Types, RcvOK
    <3> QED
      BY <1>a, <3>2, <3>3, <3>4, Shifts, LocksKept, Zenon
  <2>6. CASE ReceiverUseAfterFree
    <3>1. UNCHANGED <<dlVars, tgt, gen, tmx, pc, rtg, todo>>
      BY <2>6, Zenon DEF ReceiverUseAfterFree, monVars, rcvVars
    <3> QED
      BY <1>a, <1>b, <3>1, Shifts, Zenon
  <2> QED
    BY <1>4, <2>1, <2>2, <2>3, <2>4, <2>5, <2>6, ZenonT(30) DEF ReceiverStep
<1>5. CASE UNCHANGED vars
  <2>1. UNCHANGED <<dlVars, tgt, gen, tmx, pc, rtg, todo>>
    BY <1>5, Zenon DEF vars, monVars, rcvVars
  <2> QED
    BY <1>a, <1>b, <2>1, Shifts, Zenon
<1> QED
  BY <1>1, <1>2, <1>3, <1>4, <1>5, Zenon DEF Next

\* Two ptop_download_tasks never hold the target of a directory at once, for
\* any number of downloads and however often the directory is made anew.
THEOREM ClientOneWriter == Spec => []OneWriter
<1>1. Init => Types /\ Boot /\ Locks
  <2>1. Init => Boot /\ Locks
    BY Zenon DEF Init, Boot, Locks, Holding, Removing
  <2> QED
    BY <2>1, InitTypes, Zenon
<1>2. Types /\ Boot /\ Locks /\ [Next]_vars => (Types /\ Boot /\ Locks)'
  BY NextTypes, BootKept, LocksStep, Zenon
<1>3. Locks => OneWriter
  BY Zenon DEF Locks, OneWriter, DirOf
<1> QED
  BY <1>1, <1>2, <1>3, PTL DEF Spec

-----------------------------------------------------------------------------
(* Steps of the file table: times, and what is new.                        *)

\* the entry that the monitor has made of an event
Mte == otab[Len(otab)]

\* Overwriting the timestamp and the owners of an entry.
LEMMA OneTime ==
  ASSUME Types, NEW i \in DOMAIN ent, NEW t, NEW o,
         \/ ent' = [ent EXCEPT ![i].timestamp = t, ![i].owners = o]
         \/ ent' = [ent EXCEPT ![i].timestamp = t]
  PROVE  ent'[i].timestamp = t /\ \A j \in DOMAIN ent \ {i} : ent'[j] = ent[j]
<1>1. ent[i] \in FileEntry
  BY DEF Types, TabOK
<1>2. CASE ent' = [ent EXCEPT ![i].timestamp = t, ![i].owners = o]
  <2> DEFINE x == [ent[i] EXCEPT !.timestamp = t, !.owners = o]
  <2>1. x.timestamp = t
    BY <1>1, Zenon DEF FileEntry
  <2>2. ent' = [ent EXCEPT ![i] = x]
    BY <1>2, Zenon
  <2> HIDE DEF x
  <2> QED
    BY <2>1, <2>2, Zenon
<1>3. CASE ent' = [ent EXCEPT ![i].timestamp = t]
  <2> DEFINE x == [ent[i] EXCEPT !.timestamp = t]
  <2>1. x.timestamp = t
    BY <1>1, Zenon DEF FileEntry
  <2>2. ent' = [ent EXCEPT ![i] = x]
    BY <1>3, Zenon
  <2> HIDE DEF x
  <2> QED
    BY <2>1, <2>2, Zenon
<1> QED
  BY <1>2, <1>3, Zenon

\* the timestamps stay, but for a newer one of an entry in the table with name n
Newer(n) ==
  \A i \in DOMAIN ent :
    \/ ent'[i].timestamp = ent[i].timestamp
    \/ i \in live /\ ent[i].name = n /\ ent'[i].timestamp > ent[i].timestamp

\* the entries that enter the table are new, and stand alone or are noted
Alone(i) ==
  /\ i = Len(ent) + 1
  /\ \A j \in live : ent[j].name = ent'[i].name =>
       \E c \in {"cut", "scanned"} : <<c, ent'[i].name>> \in race'

\* What file_entry_update does to the timestamp.
LEMMA UpdatedTime ==
  ASSUME NEW x \in FileEntry, NEW te \in TransEntry
  PROVE  LET t == file_entry_update(x, te).timestamp IN t = x.timestamp \/ t > x.timestamp
BY Zenon DEF FileEntry, TransEntry, file_entry_update

\* file_entry_update of the entry that a search found.
LEMMA FoundNewer ==
  ASSUME Types, NEW te \in TransEntry, NEW i \in live, ent[i].name = te.name,
         ent' = [ent EXCEPT ![i].timestamp = file_entry_update(ent[i], te).timestamp,
                            ![i].owners = file_entry_update(ent[i], te).owners]
  PROVE  Newer(te.name)
<1>1. i \in DOMAIN ent /\ ent[i] \in FileEntry
  BY DEF Types, TabOK
<1>2. /\ ent'[i].timestamp = file_entry_update(ent[i], te).timestamp
      /\ \A j \in DOMAIN ent \ {i} : ent'[j] = ent[j]
  BY <1>1, OneTime, Zenon
<1> QED
  BY <1>1, <1>2, UpdatedTime, Zenon DEF Newer

\* file_table_add, with a note of a name that was passed over.
LEMMA AddNewer ==
  ASSUME Types, NEW te \in TransEntry, NEW i, AddEntry(te, i), Missed(te.name) \subseteq race'
  PROVE  Newer(te.name) /\ \A j \in live' \ live : Alone(j) /\ ent'[j].name = te.name
<1>1. ent \in Seq(FileEntry) /\ live \subseteq DOMAIN ent
  BY Zenon DEF Types, TabOK
<1>2. PICK found \in 0 .. Len(ent) :
        /\ Search(te.name, found)
        /\ \/ /\ found = 0 /\ i = Len(ent) + 1
              /\ ent' = Append(ent, NewEntry(te)) /\ live' = live \cup {i}
           \/ /\ found # 0 /\ i = found
              /\ ent' = [ent EXCEPT ![i].timestamp = file_entry_update(ent[i], te).timestamp,
                                    ![i].owners = file_entry_update(ent[i], te).owners]
              /\ UNCHANGED live
  BY Zenon DEF AddEntry
<1>3. CASE found = 0
  <2>1. NewEntry(te) \in FileEntry /\ NewEntry(te).name = te.name
    BY Zenon DEF NewEntry, FileEntry, TransEntry
  <2>2. /\ ent' = Append(ent, NewEntry(te)) /\ live' = live \cup {Len(ent) + 1}
    BY <1>2, <1>3, Zenon
  <2>3. ent'[Len(ent) + 1] = NewEntry(te) /\ \A j \in DOMAIN ent : ent'[j] = ent[j]
    BY <1>1, <2>1, <2>2
  <2>4. Matches(te.name) \ cut = {}
    BY <1>1, <1>2, <1>3 DEF Search, Matches
  <2>5. Matches(te.name) # {} => <<"cut", te.name>> \in race'
    BY <2>4, Zenon DEF Missed
  <2> QED
    BY <2>1, <2>2, <2>3, <2>5, Zenon DEF Newer, Alone, Hit, Matches
<1>4. CASE found # 0
  <2>1. i \in live /\ ent[i].name = te.name /\ UNCHANGED live
    BY <1>2, <1>4, Zenon DEF Search, Matches
  <2> QED
    BY <1>2, <1>4, <2>1, FoundNewer, Zenon
<1> QED
  BY <1>3, <1>4, Zenon

\* file_table_update.
LEMMA UpdateNewer ==
  ASSUME Types, NEW te \in TransEntry, UpdateEntry(te)
  PROVE  Newer(te.name) /\ UNCHANGED live
<1>1. PICK i \in 0 .. Len(ent) :
        /\ Search(te.name, i)
        /\ IF i = 0 THEN UNCHANGED ent
           ELSE ent' = [ent EXCEPT ![i].timestamp = file_entry_update(ent[i], te).timestamp,
                                   ![i].owners = file_entry_update(ent[i], te).owners]
  BY Zenon DEF UpdateEntry
<1>2. CASE i = 0
  BY <1>1, <1>2, Zenon DEF UpdateEntry, Newer
<1>3. CASE i # 0
  <2>1. i \in live /\ ent[i].name = te.name
    BY <1>1, <1>3, Zenon DEF Search, Matches
  <2> QED
    BY <1>1, <1>3, <2>1, FoundNewer, Zenon DEF UpdateEntry
<1> QED
  BY <1>2, <1>3, Zenon

\* What file_monitor_task does to the table.
LEMMA TableStep ==
  ASSUME Types, TableEvent
  PROVE  /\ \/ \A i \in DOMAIN ent : ent'[i].timestamp = ent[i].timestamp
            \/ Mte.op # FILE_DELETE /\ Newer(Mte.name)
         /\ \A i \in live' \ live : Alone(i) /\ Mte.op # FILE_DELETE /\ ent'[i].name = Mte.name
         /\ opc = "table" /\ Len(otab) \in DOMAIN otab /\ Mte \in TransEntry
<1>1. otab \in Seq(TransEntry) /\ otab # << >> /\ opc = "table"
  BY Zenon DEF TableEvent, MonitorAt, Types, ObsOK
<1>2. Len(otab) \in DOMAIN otab /\ Mte \in TransEntry
  BY <1>1 DEF Mte
<1>3. CASE Mte.op = FILE_ADD /\ \E i \in 1 .. Len(ent) + 1 : AddEntry(Mte, i)
  <2>1. Missed(Mte.name) \subseteq race'
    BY Zenon DEF TableEvent, Mte
  <2> QED
    BY <1>1, <1>2, <1>3, <2>1, AddNewer, ZenonT(30) DEF FILE_ADD, FILE_DELETE
<1>4. CASE Mte.op = FILE_MODIFY /\ UpdateEntry(Mte)
  BY <1>1, <1>2, <1>4, UpdateNewer, Zenon DEF FILE_MODIFY, FILE_DELETE
<1>5. CASE DeleteEntry(Mte.name)
  BY <1>1, <1>2, <1>5, Zenon DEF DeleteEntry
<1> QED
  BY <1>3, <1>4, <1>5, Zenon DEF TableEvent, Mte

\* Timestamps change by file_entry_update_timestamp and file_entry_update only.
LEMMA TimeStep ==
  ASSUME Types, [Next]_vars
  PROVE  \/ \A i \in DOMAIN ent : ent'[i].timestamp = ent[i].timestamp
         \/ RaiseAndFetch
         \/ AddAndFetch /\ Newer(Te.name)
         \/ TableEvent /\ Mte.op # FILE_DELETE /\ Newer(Mte.name)
<1>a. ent \in Seq(FileEntry) /\ fe \in 0 .. Len(ent) /\ live \subseteq DOMAIN ent
  BY Zenon DEF Types, TabOK, RcvOK
<1>b. CASE UNCHANGED ent
  BY <1>b, Zenon
<1>1. CASE ReceiverStep
  <2>1. CASE Scan
    <3>1. UNCHANGED ent \/ \E x : ent' = Append(ent, x)
      BY <2>1, Zenon DEF Scan
    <3> QED
      BY <1>a, <3>1
  <2>2. CASE AddAndFetch
    <3>1. Te \in TransEntry
      BY <2>2, TeType, Zenon DEF AddAndFetch, Goto, Busy
    <3> QED
      BY <2>2, <3>1, AddNewer, Zenon DEF AddAndFetch
  <2>3. CASE ReplaceOwners
    <3>1. fe \in DOMAIN ent /\ ent[fe] \in FileEntry
      BY <1>a, <2>3 DEF ReplaceOwners
    <3> DEFINE x == [ent[fe] EXCEPT !.owners = Te.owners \ {Me}]
    <3>2. x.timestamp = ent[fe].timestamp
      BY <3>1, Zenon DEF FileEntry
    <3>3. ent' = [ent EXCEPT ![fe] = x]
      BY <2>3, Zenon DEF ReplaceOwners
    <3> HIDE DEF x
    <3> QED
      BY <3>1, <3>2, <3>3, Zenon
  <2>4. CASE ~(Scan \/ AddAndFetch \/ ReplaceOwners \/ RaiseAndFetch)
    BY <1>b, <1>1, <2>4, ZenonT(30) DEF ReceiverStep, pthread_wait_init, pthread_wait_for, Woken, SendSync,
         RecvSync, Recv, Applied, Find, CompareTimestamps, SkipNone, Delete, DeleteEntry,
         DeleteTarget, DeleteLock, RemoveFile, RemoveDirectory, DirTarget, Unwatch, DeleteUnblock,
         ReceiverUseAfterFree, tabVars
  <2> QED
    BY <2>1, <2>2, <2>3, <2>4, Zenon
<1>2. CASE MonitorStep
  <2>1. CASE ~TableEvent
    BY <1>b, <1>2, <2>1, ZenonT(30) DEF MonitorStep, WatchTargets, pthread_wait_notify, ReadEvents, LookAtEvent,
         handle_event, StatEvent, MonitorUseAfterFree, SendUpdate, tabVars
  <2> QED
    BY <2>1, TableStep, Zenon
<1>3. CASE UserStep
  BY <1>b, <1>3, Zenon DEF UserStep, UserEdit, UserDelete, UserMkdir, tabVars
<1>4. ASSUME NEW k \in Task, DownloadStep(k)
      PROVE  UNCHANGED ent
  BY <1>4, Zenon DEF DownloadStep, CutName, FindTarget, MakeDirectory, Block, OpenFile, OpenDirectory,
       FetchFile, StampFile, notify_tracker_add_me, Unblock, UseAfterFree, tabVars
<1>5. CASE UNCHANGED vars
  BY <1>b, <1>5, Zenon DEF vars, tabVars
<1> QED
  BY <1>b, <1>1, <1>2, <1>3, <1>4, <1>5, ZenonT(30) DEF Next

\* Entries enter the table by the scan and by file_table_add only.
LEMMA EnterStep ==
  ASSUME Types, [Next]_vars
  PROVE  \A i \in live' \ live :
           /\ Alone(i)
           /\ \/ Scan \/ AddAndFetch
              \/ TableEvent /\ Mte.op # FILE_DELETE /\ ent'[i].name = Mte.name
<1>b. CASE live' \subseteq live
  BY <1>b, Zenon
<1>1. CASE ReceiverStep
  <2>1. CASE Scan
    <3>1. ent \in Seq(FileEntry)
      BY Zenon DEF Types, TabOK
    <3>2. CASE live' \subseteq live
      BY <3>2, Zenon
    <3>3. CASE ~(live' \subseteq live)
      <4>1. PICK n : /\ ent' = Append(ent, [name |-> n, owners |-> {Me},
                                 timestamp |-> IF n \in File THEN disk[n].mtime ELSE Now])
                     /\ live' = live \cup {Len(ent) + 1}
                     /\ race' = race \cup (IF Matches(n) # {} THEN {<<"scanned", n>>} ELSE {})
        BY <2>1, <3>3, Zenon DEF Scan
      <4>2. ent'[Len(ent) + 1].name = n
        BY <3>1, <4>1
      <4>3. Matches(n) # {} => <<"scanned", n>> \in race'
        BY <4>1, Zenon
      <4> QED
        BY <2>1, <4>1, <4>2, <4>3, ZenonT(30) DEF Alone, Matches
    <3> QED
      BY <3>2, <3>3, Zenon
  <2>2. CASE AddAndFetch
    <3>1. Te \in TransEntry
      BY <2>2, TeType, Zenon DEF AddAndFetch, Goto, Busy
    <3> QED
      BY <2>2, <3>1, AddNewer, ZenonT(30) DEF AddAndFetch
  <2>3. CASE ~(Scan \/ AddAndFetch)
    BY <1>b, <1>1, <2>3, ZenonT(30) DEF ReceiverStep, pthread_wait_init, pthread_wait_for, Woken, SendSync,
         RecvSync, Recv, Applied, Find, ReplaceOwners, RaiseAndFetch, CompareTimestamps, SkipNone,
         Delete, DeleteEntry, DeleteTarget, DeleteLock, RemoveFile, RemoveDirectory, DirTarget,
         Unwatch, DeleteUnblock, ReceiverUseAfterFree, tabVars
  <2> QED
    BY <2>1, <2>2, <2>3, Zenon
<1>2. CASE MonitorStep
  <2>1. CASE ~TableEvent
    BY <1>b, <1>2, <2>1, ZenonT(30) DEF MonitorStep, WatchTargets, pthread_wait_notify, ReadEvents, LookAtEvent,
         handle_event, StatEvent, MonitorUseAfterFree, SendUpdate, tabVars
  <2> QED
    BY <2>1, TableStep, Zenon
<1>3. CASE UserStep
  BY <1>b, <1>3, Zenon DEF UserStep, UserEdit, UserDelete, UserMkdir, tabVars
<1>4. ASSUME NEW k \in Task, DownloadStep(k)
      PROVE  UNCHANGED live
  BY <1>4, Zenon DEF DownloadStep, CutName, FindTarget, MakeDirectory, Block, OpenFile, OpenDirectory,
       FetchFile, StampFile, notify_tracker_add_me, Unblock, UseAfterFree, tabVars
<1>5. CASE UNCHANGED vars
  BY <1>b, <1>5, Zenon DEF vars, tabVars
<1> QED
  BY <1>b, <1>1, <1>2, <1>3, <1>4, <1>5, ZenonT(30) DEF Next

\* Entries are never renamed.
LEMMA GrownStep ==
  ASSUME Types, [Next]_vars
  PROVE  Grown /\ ent' \in Seq(FileEntry)
<1>a. ent \in Seq(FileEntry) /\ fe \in 0 .. Len(ent) /\ live \subseteq DOMAIN ent /\ Len(ent) \in Nat
  BY DEF Types, TabOK, RcvOK
<1>b. CASE UNCHANGED ent
  BY <1>a, <1>b DEF Grown
<1>c. ent' \in Seq(FileEntry)
  BY NextTypes, Zenon DEF Types, TabOK
<1>1. CASE ReceiverStep
  <2>1. CASE Scan
    <3>1. UNCHANGED ent \/ \E x : ent' = Append(ent, x)
      BY <2>1, Zenon DEF Scan
    <3> QED
      BY <1>a, <1>c, <3>1 DEF Grown
  <2>2. CASE AddAndFetch
    <3>1. Te \in TransEntry
      BY <2>2, TeType, Zenon DEF AddAndFetch, Goto, Busy
    <3> QED
      BY <2>2, <3>1, AddType, ZenonT(30) DEF AddAndFetch
  <2>3. CASE ReplaceOwners
    <3>1. fe \in DOMAIN ent /\ Te \in TransEntry
      BY <1>a, <2>3, TeType, Zenon DEF ReplaceOwners, Goto, Busy
    <3>2. Te.owners \ {Me} \in SUBSET Ip /\ ent' = [ent EXCEPT ![fe].owners = Te.owners \ {Me}]
      BY <2>3, <3>1, Zenon DEF ReplaceOwners, TransEntry
    <3> QED
      BY <3>1, <3>2, EntryUpdate, Zenon
  <2>4. CASE RaiseAndFetch
    <3>1. fe \in DOMAIN ent /\ Te \in TransEntry
      BY <1>a, <2>4, TeType, Zenon DEF RaiseAndFetch, Goto, Busy
    <3>2. Te.timestamp \in Nat /\ ent' = [ent EXCEPT ![fe].timestamp = Te.timestamp]
      BY <2>4, <3>1, Zenon DEF RaiseAndFetch, TransEntry
    <3> QED
      BY <3>1, <3>2, EntryUpdate, Zenon
  <2>5. CASE ~(Scan \/ AddAndFetch \/ ReplaceOwners \/ RaiseAndFetch)
    BY <1>b, <1>c, <1>1, <2>5, ZenonT(30) DEF ReceiverStep, pthread_wait_init, pthread_wait_for, Woken, SendSync,
         RecvSync, Recv, Applied, Find, CompareTimestamps, SkipNone, Delete, DeleteEntry,
         DeleteTarget, DeleteLock, RemoveFile, RemoveDirectory, DirTarget, Unwatch, DeleteUnblock,
         ReceiverUseAfterFree, tabVars
  <2> QED
    BY <2>1, <2>2, <2>3, <2>4, <2>5, Zenon
<1>2. CASE MonitorStep
  <2>1. CASE ~TableEvent
    BY <1>b, <1>c, <1>2, <2>1, ZenonT(30) DEF MonitorStep, WatchTargets, pthread_wait_notify, ReadEvents,
         LookAtEvent, handle_event, StatEvent, MonitorUseAfterFree, SendUpdate, tabVars
  <2> QED
    BY <1>c, <2>1, TableGrown, Zenon
<1>3. CASE UserStep
  BY <1>b, <1>c, <1>3, ZenonT(30) DEF UserStep, UserEdit, UserDelete, UserMkdir, tabVars
<1>4. ASSUME NEW k \in Task, DownloadStep(k)
      PROVE  UNCHANGED ent
  BY <1>4, Zenon DEF DownloadStep, CutName, FindTarget, MakeDirectory, Block, OpenFile, OpenDirectory,
       FetchFile, StampFile, notify_tracker_add_me, Unblock, UseAfterFree, tabVars
<1>5. CASE UNCHANGED vars
  BY <1>b, <1>c, <1>5, Zenon DEF vars, tabVars
<1> QED
  BY <1>b, <1>c, <1>1, <1>2, <1>3, <1>4, <1>5, ZenonT(30) DEF Next

=============================================================================
