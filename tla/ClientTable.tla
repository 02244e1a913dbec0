---------------------------- MODULE ClientTable -----------------------------
(***************************************************************************)
(* What the file table of a peer says, and what the peer tells the         *)
(* tracker: one entry per name, versions that only advance, and only       *)
(* versions that were whole on disk are announced.  Proofs, for any sets   *)
(* of files, directories and packets and any number of downloads and edits.*)
(***************************************************************************)
EXTENDS ClientWatch

\* a file that the monitor can have an event of
Touched(f) == Edited(f) \/ Hit(f, {"exposed"})

\* the exceptions of ToldHeld
Excused(f) == Hit(f, {"raised", "exposed", "masked", "cut"}) \/ Conflict(f)

\* The entry that the receiver works on has the name in the packet; what
\* file_table_find did not find, or the comparison found to be older, is still
\* so unless the monitor has seen a change of the file.
Handling ==
  /\ pc \in {"update", "compare", "raise"} => fe # 0 /\ ent[fe].name = Te.name
  /\ pc = "add" /\ Te.name \in File =>
       Matches(Te.name) = {} \/ Touched(Te.name) \/ Hit(Te.name, {"cut"})
  /\ pc = "raise" /\ Te.name \in File =>
       Te.timestamp > ent[fe].timestamp \/ Touched(Te.name)

\* An event of a file is from the user's edit, or from an exposed download.
EventsTouched ==
  \A q \in {events, batch} : \A i \in DOMAIN q :
    q[i].kind \in {"create", "modify"} /\ q[i].name \in File => Touched(q[i].name)

\* The time of a file on disk is that of a version that was whole here, unless
\* the file is being fetched or was.
DiskHeld == \A f \in File : Exists(f) => <<f, disk[f].mtime>> \in held \/ Fetched(f)

\* What the monitor will send; a timestamp of 0 is dropped before it is sent.
OutHeld ==
  \A i \in DOMAIN otab : otab[i].name \in File /\ otab[i].op # FILE_DELETE =>
    /\ Touched(otab[i].name)
    /\ \/ otab[i].timestamp = 0 /\ i = Len(otab) /\ opc = "table"
       \/ <<otab[i].name, otab[i].timestamp>> \in held
       \/ Excused(otab[i].name)

\* The version being fetched is that of the entry; at the end it is held.
FetchHeld ==
  \A k \in Task : dpc[k] \in {"fetch", "stamp", "notify"} /\ NameOf(k) \in File =>
    \/ Excused(NameOf(k))
    \/ /\ dver[k] = ent[dfe[k]].timestamp
       /\ dpc[k] # "fetch" => <<NameOf(k), dver[k]>> \in held

-----------------------------------------------------------------------------
(* One entry per name.                                                     *)

\* A name never gets a second entry, unless a search missed the first one or the
\* scan found what the monitor had added; then a race was noted.
LEMMA OneEntryStep ==
  ASSUME Types, OneEntryPerName, [Next]_vars
  PROVE  OneEntryPerName'
<1>1. ent \in Seq(FileEntry) /\ live \subseteq DOMAIN ent /\ Grown /\ race \subseteq race'
  BY GrownStep, RacesKept, Zenon DEF Types, TabOK
<1>2. \A i \in live : ent'[i].name = ent[i].name
  BY <1>1, Zenon DEF Grown
<1>3. \A i \in live' \ live : Alone(i)
  BY EnterStep, Zenon
<1>4. ASSUME NEW i \in live', NEW j \in live', ent'[i].name = ent'[j].name, i # j
      PROVE  \E c \in {"cut", "scanned"} : <<c, ent'[i].name>> \in race'
  <2>1. CASE i \in live /\ j \in live
    BY <1>1, <1>2, <1>4, <2>1, Zenon DEF OneEntryPerName, Hit
  <2>2. CASE i \notin live /\ j \in live
    BY <1>2, <1>3, <1>4, <2>2, Zenon DEF Alone
  <2>3. CASE i \in live /\ j \notin live
    BY <1>2, <1>3, <1>4, <2>3, ZenonT(30) DEF Alone
  <2>4. CASE i \notin live /\ j \notin live
    BY <1>3, <1>4, <2>4 DEF Alone
  <2> QED
    BY <2>1, <2>2, <2>3, <2>4, Zenon
<1> QED
  BY <1>4, Zenon DEF OneEntryPerName, Hit

\* file_table_add keeps one entry per name ("if the entry is already there, it
\* would update it"), with the two exceptions that are noted as races.
THEOREM ClientOneEntry == Spec => []OneEntryPerName
<1>1. Init => OneEntryPerName
  BY Zenon DEF Init, OneEntryPerName
<1> QED
  BY <1>1, InitTypes, NextTypes, OneEntryStep, PTL DEF Spec

-----------------------------------------------------------------------------
(* What was whole on this disk.                                            *)

\* Histories only grow.
LEMMA HistoryKept ==
  ASSUME Types, [Next]_vars
  PROVE  race \subseteq race' /\ held \subseteq held' /\ edits' \in Nat /\ edits <= edits'
<1>1. race \subseteq race' /\ edits \in Nat
  BY RacesKept, BoundAssumption DEF Types, HistOK
<1>2. CASE ReceiverStep
  <2>1. UNCHANGED <<held, edits>>
    BY <1>2, ZenonT(30) DEF ReceiverStep, pthread_wait_init, pthread_wait_for, Woken, Scan, SendSync, RecvSync,
         Recv, Applied, Find, AddAndFetch, ReplaceOwners, CompareTimestamps, RaiseAndFetch, SkipNone,
         Delete, DeleteTarget, DeleteLock, RemoveFile, RemoveDirectory, DirTarget, Unwatch,
         DeleteUnblock, ReceiverUseAfterFree, histVars
  <2> QED
    BY <1>1, <2>1
<1>3. CASE MonitorStep
  <2>1. UNCHANGED <<held, edits>>
    BY <1>3, Zenon DEF MonitorStep, WatchTargets, pthread_wait_notify, ReadEvents, LookAtEvent,
         handle_event, StatEvent, TableEvent, MonitorUseAfterFree, SendUpdate, histVars
  <2> QED
    BY <1>1, <2>1
<1>4. CASE UserStep
  BY <1>1, <1>4, SMTT(40), ZenonT(15) DEF UserStep, UserEdit, UserDelete, UserMkdir
<1>5. ASSUME NEW k \in Task, DownloadStep(k)
      PROVE  held \subseteq held' /\ edits' = edits
  BY <1>5, Zenon DEF DownloadStep, CutName, FindTarget, MakeDirectory, Block, OpenFile, OpenDirectory,
       FetchFile, StampFile, notify_tracker_add_me, Unblock, UseAfterFree, histVars
<1>6. CASE UNCHANGED vars
  BY <1>1, <1>6 DEF vars, histVars
<1> QED
  BY <1>1, <1>2, <1>3, <1>4, <1>5, <1>6 DEF Next

\* The times of the first a edits are among those of the first b.
LEMMA Wider ==
  ASSUME NEW n \in Nat, NEW a \in Nat, NEW b \in Nat, a <= b
  PROVE  \A v \in n + 1 .. n + a : v \in n + 1 .. n + b
OBVIOUS

\* So do the exceptions that are made on their account.
LEMMA ExcusesKept ==
  ASSUME Types, [Next]_vars, NEW f
  PROVE  /\ Touched(f) => Touched(f)'
         /\ Fetched(f) => Fetched(f)'
         /\ Excused(f) => Excused(f)'
<1>1. race \subseteq race' /\ held \subseteq held' /\ edits' \in Nat /\ edits <= edits' /\ edits \in Nat
  BY HistoryKept, BoundAssumption DEF Types, HistOK
<1>2. \A v \in Now + 1 .. Now + edits : v \in Now + 1 .. Now + edits'
  <2>1. Now \in Nat /\ edits \in Nat /\ edits' \in Nat /\ edits <= edits'
    BY <1>1, BoundAssumption, Zenon
  <2> QED
    BY <2>1, Wider, Zenon
<1>3. Edited(f) => Edited(f)'
  BY <1>1, <1>2, Zenon DEF Edited
<1>4. Fetched(f) => Fetched(f)'
  BY NamesKept, Zenon DEF KeepNames, Fetched
<1>5. Touched(f) => Touched(f)'
  BY <1>1, <1>3, Zenon DEF Touched, Hit
<1> QED
  BY <1>1, <1>3, <1>4, <1>5, Zenon DEF Excused, Conflict, Hit

\* A file that the monitor saw change and that is fetched as well is excused.
LEMMA Both ==
  ASSUME NEW f, Touched(f), Fetched(f)
  PROVE  Excused(f)
BY Zenon DEF Touched, Excused, Conflict, Hit

\* Every event of a file goes back to the user, or to a watch that was reset.
LEMMA EventsStep ==
  ASSUME Types, Masks, EventsTouched, [Next]_vars
  PROVE  EventsTouched'
<1>1. Queues /\ race \subseteq race' /\ edits' \in Nat /\ edits \in Nat
  BY QueueStep, HistoryKept, BoundAssumption DEF Types, HistOK
<1>2. ASSUME NEW q \in {events', batch'}, NEW i \in DOMAIN q,
             q[i].kind \in {"create", "modify"}, q[i].name \in File
      PROVE  \E f : f = q[i].name /\ Touched(f)'
  <2> DEFINE f == q[i].name
  <2>1. CASE Queued(q[i])
    <3>1. Touched(f)
      BY <1>2, <2>1, Zenon DEF Queued, EventsTouched
    <3> HIDE DEF f
    <3>2. Touched(f)'
      BY <3>1, ExcusesKept, Zenon
    <3> QED
      BY <3>2, Zenon DEF f
  <2>2. CASE Fresh(q[i]) /\ q[i].by = "peer"
    <3>1. mask[q[i].dir] = "default"
      BY <1>2, <2>2, Zenon DEF Fresh, Change
    <3>2. PICK k \in Task : dpc[k] \in Writing /\ NameOf(k) = f /\ DirOf(k) = q[i].dir
      BY <1>2, <2>2, Zenon DEF Fresh, Change
    <3>3. <<"exposed", f>> \in race'
      BY <1>1, <3>1, <3>2, Zenon DEF Masks
    <3> HIDE DEF f
    <3>4. Touched(f)'
      BY <3>3, Zenon DEF Touched, Hit
    <3> QED
      BY <3>4, Zenon DEF f
  <2>3. CASE Fresh(q[i]) /\ q[i].by # "peer"
    <3>1. edits' = edits + 1 /\ <<f, Now + edits'>> \in held'
      BY <1>2, <2>3, Zenon DEF Fresh, Change
    <3>2. Now + edits' \in Now + 1 .. Now + edits'
      BY <1>1, <3>1, BoundAssumption
    <3> HIDE DEF f
    <3>3. Touched(f)'
      BY <3>1, <3>2, Zenon DEF Touched, Edited
    <3> QED
      BY <3>3, Zenon DEF f
  <2> QED
    BY <1>1, <2>1, <2>2, <2>3, Zenon DEF Queues
<1> QED
  BY <1>2, Zenon DEF EventsTouched, Touched, Edited, Hit

\* A file that is there has the time of a version that was whole, or is fetched.
LEMMA DiskStep ==
  ASSUME Types, DiskHeld, [Next]_vars
  PROVE  DiskHeld'
<1>a. disk \in [File -> OnDiskFile] /\ File \cap Dir = {} /\ Editable \subseteq File
  BY DirAssumption, FileAssumption, Zenon DEF Types, SysOK
<1>b. held \subseteq held' /\ \A f \in File : Fetched(f) => Fetched(f)'
  BY HistoryKept, ExcusesKept, Zenon
<1>c. \A f \in File : (Exists(f) <=> disk[f].content # Absent) /\ (Exists(f)' <=> disk'[f].content # Absent)
  BY <1>a, Zenon DEF Exists
<1>d. ASSUME NEW f \in File,
             \/ disk'[f] = disk[f]
             \/ disk'[f].content = Absent
             \/ <<f, disk'[f].mtime>> \in held'
             \/ Fetched(f)
      PROVE  Exists(f)' => <<f, disk'[f].mtime>> \in held' \/ Fetched(f)'
  BY <1>b, <1>c, <1>d, Zenon DEF DiskHeld
<1>1. CASE UNCHANGED disk
  BY <1>1, <1>d, Zenon DEF DiskHeld
<1>2. ASSUME NEW k \in Task, DownloadStep(k)
      PROVE  DiskHeld'
  <2>1. CASE OpenFile(k) \/ FetchFile(k) \/ StampFile(k)
    <3> DEFINE g == NameOf(k)
    <3>1. Fetched(g)
      BY <2>1, Zenon DEF OpenFile, FetchFile, StampFile, Step, Fetched
    <3>2. \A f \in File \ {g} : disk'[f] = disk[f]
      BY <1>a, <2>1, Zenon DEF OpenFile, FetchFile, StampFile
    <3> HIDE DEF g
    <3> QED
      BY <1>d, <3>1, <3>2, Zenon DEF DiskHeld
  <2>2. CASE ~(OpenFile(k) \/ FetchFile(k) \/ StampFile(k))
    BY <1>1, <1>2, <2>2, ZenonT(30) DEF DownloadStep, CutName, FindTarget, MakeDirectory, Block, OpenDirectory,
         notify_tracker_add_me, Unblock, UseAfterFree, BlockTarget, UnblockTarget, sysVars
  <2> QED
    BY <2>1, <2>2, Zenon
<1>3. CASE MonitorStep
  BY <1>1, <1>3, Zenon DEF MonitorStep, WatchTargets, pthread_wait_notify, ReadEvents, LookAtEvent,
       handle_event, StatEvent, TableEvent, MonitorUseAfterFree, SendUpdate, sysVars
<1>4. CASE UserStep
  <2>1. ASSUME NEW g \in Editable, UserEdit(g) \/ UserDelete(g)
        PROVE  DiskHeld'
    <3>1. \/ <<g, disk'[g].mtime>> \in held'
          \/ disk'[g].content = Absent
      BY <1>a, <2>1, SMTT(40), ZenonT(15) DEF UserEdit, UserDelete
    <3>2. \A f \in File \ {g} : disk'[f] = disk[f]
      BY <1>a, <2>1, Zenon DEF UserEdit, UserDelete
    <3> QED
      BY <1>a, <1>d, <3>1, <3>2, Zenon DEF DiskHeld
  <2> QED
    BY <1>1, <1>4, <2>1, Zenon DEF UserStep, UserMkdir
<1>5. CASE ReceiverStep
  <2>1. CASE RemoveFile
    <3>1. disk'[Te.name].content = Absent /\ \A f \in File \ {Te.name} : disk'[f] = disk[f]
      BY <1>a, <2>1, Zenon DEF RemoveFile
    <3> QED
      BY <1>d, <3>1, Zenon DEF DiskHeld
  <2>2. CASE RemoveDirectory
    <3>1. \A f \in File : disk'[f] = disk[f] \/ disk'[f].content = Absent
      BY <2>2, Zenon DEF RemoveDirectory
    <3> QED
      BY <1>d, <3>1, Zenon DEF DiskHeld
  <2>3. CASE ~(RemoveFile \/ RemoveDirectory)
    BY <1>1, <1>5, <2>3, ZenonT(30) DEF ReceiverStep, pthread_wait_init, pthread_wait_for, Woken, Scan, SendSync,
         RecvSync, Recv, Applied, Find, AddAndFetch, ReplaceOwners, CompareTimestamps, RaiseAndFetch,
         SkipNone, Delete, DeleteTarget, DeleteLock, DirTarget, Unwatch, DeleteUnblock,
         ReceiverUseAfterFree, BlockTarget, UnblockTarget, sysVars
  <2> QED
    BY <2>1, <2>2, <2>3, Zenon
<1>6. CASE UNCHANGED vars
  BY <1>1, <1>6, Zenon DEF vars, sysVars
<1> QED
  BY <1>2, <1>3, <1>4, <1>5, <1>6, ZenonT(30) DEF Next

\* an entry that may be sent, as OutHeld has it
Sound(i) ==
  /\ Touched(otab[i].name)
  /\ \/ otab[i].timestamp = 0 /\ i = Len(otab) /\ opc = "table"
     \/ <<otab[i].name, otab[i].timestamp>> \in held
     \/ Excused(otab[i].name)

\* The entry that get_trans_timestamp completes.
LEMMA StatSound ==
  ASSUME Types, EventsTouched, DiskHeld, StatEvent
  PROVE  LET te == EventEntry(Head(batch))
         IN  te.name \in File /\ te.op # FILE_DELETE =>
               /\ Touched(te.name)
               /\ te.timestamp = 0 \/ <<te.name, te.timestamp>> \in held \/ Excused(te.name)
<1> DEFINE e == Head(batch)
           te == EventEntry(e)
<1> SUFFICES ASSUME te.name \in File, te.op # FILE_DELETE
             PROVE  /\ Touched(te.name)
                    /\ te.timestamp = 0 \/ <<te.name, te.timestamp>> \in held \/ Excused(te.name)
  BY Zenon
<1>1. batch # << >> /\ batch \in Seq(EventRecord)
  BY Zenon DEF StatEvent, MonitorAt, Types, ObsOK
<1>2. 1 \in DOMAIN batch /\ e = batch[1]
  BY <1>1
<1>3. te.name = e.name /\ te.op = EventOp(e) /\ e.kind \in {"create", "modify"}
  BY Zenon DEF EventEntry, EventOp, FILE_ADD, FILE_MODIFY, FILE_DELETE
<1>4. Touched(e.name)
  BY <1>2, <1>3, Zenon DEF EventsTouched
<1>5. te.timestamp = 0 \/ (Exists(e.name) /\ te.timestamp = disk[e.name].mtime)
  BY <1>3, Zenon DEF EventEntry
<1> HIDE DEF e, te
<1>6. Exists(e.name) => <<e.name, disk[e.name].mtime>> \in held \/ Fetched(e.name)
  BY <1>3, Zenon DEF DiskHeld
<1> QED
  BY <1>3, <1>4, <1>5, <1>6, Both, ZenonT(30)

\* What the monitor collects to send is sound; what has no timestamp is dropped.
LEMMA OutStep ==
  ASSUME Types, EventsTouched, DiskHeld, OutHeld, [Next]_vars
  PROVE  OutHeld'
<1>a. otab \in Seq(TransEntry) /\ held \subseteq held' /\ \A f : (Touched(f) => Touched(f)') /\ (Excused(f) => Excused(f)')
  BY ExcusesKept, HistoryKept, Zenon DEF Types, ObsOK
<1>b. ASSUME NEW i \in DOMAIN otab, otab'[i] = otab[i], otab[i].name \in File, otab[i].op # FILE_DELETE,
             opc = "table" /\ i = Len(otab) /\ otab[i].timestamp = 0 => opc' = "table" /\ i = Len(otab')
      PROVE  Sound(i)'
  <2>1. PICK f \in File : f = otab[i].name
    BY <1>b, Zenon
  <2>2. Touched(f)' /\ (Excused(otab[i].name) => Excused(f)')
    BY <1>a, <1>b, <2>1, ZenonT(30) DEF OutHeld
  <2>3. otab'[i].name = f
    BY <1>b, <2>1, Zenon
  <2>4. \/ otab'[i].timestamp = 0 /\ i = Len(otab') /\ opc' = "table"
        \/ <<otab'[i].name, otab'[i].timestamp>> \in held'
        \/ Excused(f)'
    BY <1>a, <1>b, <2>1, <2>2, ZenonT(30) DEF OutHeld
  <2>5. Touched(otab[i].name)' /\ (Excused(f)' => Excused(otab[i].name)')
    BY <2>2, <2>3, Zenon DEF Touched, Edited, Hit, Excused, Conflict, Fetched
  <2> QED
    BY <2>4, <2>5, Zenon DEF Sound
<1>c. (\A i \in DOMAIN otab' : otab'[i].name \in File /\ otab'[i].op # FILE_DELETE => Sound(i)') => OutHeld'
  BY Zenon DEF OutHeld, Sound
<1>1. CASE UNCHANGED otab /\ (opc = "table" => opc' = "table")
  BY <1>b, <1>c, <1>1, Zenon
<1>2. CASE otab' = << >>
  BY <1>c, <1>2, SMTT(40), ZenonT(15)
<1>3. CASE StatEvent
  <2>1. PICK te : te = EventEntry(Head(batch))
    BY Zenon
  <2>2. te.name \in File /\ te.op # FILE_DELETE =>
          /\ Touched(te.name)
          /\ te.timestamp = 0 \/ <<te.name, te.timestamp>> \in held \/ Excused(te.name)
    BY <1>3, <2>1, StatSound, Zenon
  <2>3. otab' = Append(otab, te) /\ opc = "stat" /\ opc' = "table"
    BY <1>3, <2>1, Zenon DEF StatEvent, MonitorAt
  <2>4. /\ \A i \in DOMAIN otab' : i \in DOMAIN otab \/ i = Len(otab) + 1
        /\ \A i \in DOMAIN otab : otab'[i] = otab[i]
        /\ otab'[Len(otab) + 1] = te /\ Len(otab') = Len(otab) + 1
    BY <1>a, <2>3, SMTT(40), ZenonT(15)
  <2>5. ASSUME NEW i, i = Len(otab) + 1, otab'[i].name \in File, otab'[i].op # FILE_DELETE
        PROVE  Sound(i)'
    <3>1. otab'[i] = te
      BY <2>4, <2>5, Zenon
    <3>2. Touched(te.name)' /\ (te.timestamp = 0 \/ <<te.name, te.timestamp>> \in held' \/ Excused(te.name)')
      BY <1>a, <2>2, <2>5, <3>1, Zenon
    <3>3. Touched(otab[i].name)' /\ (Excused(te.name)' => Excused(otab[i].name)')
      BY <3>1, <3>2, Zenon DEF Touched, Edited, Hit, Excused, Conflict, Fetched
    <3> QED
      BY <2>3, <2>4, <2>5, <3>1, <3>2, <3>3, ZenonT(30) DEF Sound
  <2> QED
    BY <1>b, <1>c, <2>3, <2>4, <2>5, ZenonT(30)
<1>4. CASE TableEvent
  <2>1. opc = "table" /\ otab # << >>
    BY <1>4, Zenon DEF TableEvent, MonitorAt, Types, ObsOK
  <2>2. Len(otab) \in Nat /\ Len(otab) - 1 \in Nat /\ Len(otab) \in DOMAIN otab /\ DOMAIN otab = 1 .. Len(otab)
    BY <1>a, <2>1
  <2>3. CASE otab' = otab /\ (Mte.op = FILE_DELETE \/ Mte.timestamp # 0)
    BY <1>b, <1>c, <2>3, Zenon DEF Mte
  <2>4. CASE otab' = SubSeq(otab, 1, Len(otab) - 1)
    <3>1. \A i \in DOMAIN otab' : i \in DOMAIN otab /\ i < Len(otab) /\ otab'[i] = otab[i]
      BY <1>a, <2>2, <2>4, Cut, Zenon
    <3>2. \A i \in DOMAIN otab' : i # Len(otab)
      BY <2>2, <3>1
    <3> QED
      BY <1>b, <1>c, <3>1, <3>2, Zenon
  <2> QED
    BY <1>4, <2>3, <2>4, Zenon DEF TableEvent, Mte
<1>5. CASE MonitorStep
  <2>1. CASE ~(StatEvent \/ TableEvent)
    <3>1. otab' = << >> \/ (UNCHANGED otab /\ (opc = "table" => opc' = "table"))
      BY <1>5, <2>1, Zenon DEF MonitorStep, WatchTargets, pthread_wait_notify, ReadEvents, LookAtEvent,
           handle_event, MonitorUseAfterFree, SendUpdate, MonitorAt, obsVars
    <3> QED
      BY <1>1, <1>2, <3>1, Zenon
  <2> QED
    BY <1>3, <1>4, <2>1, Zenon
<1>6. CASE ReceiverStep
  BY <1>1, <1>6, ZenonT(30) DEF ReceiverStep, pthread_wait_init, pthread_wait_for, Woken, Scan, SendSync, RecvSync,
       Recv, Applied, Find, AddAndFetch, ReplaceOwners, CompareTimestamps, RaiseAndFetch, SkipNone,
       Delete, DeleteTarget, DeleteLock, RemoveFile, RemoveDirectory, DirTarget, Unwatch,
       DeleteUnblock, ReceiverUseAfterFree, obsVars
<1>7. CASE UserStep
  BY <1>1, <1>7, Zenon DEF UserStep, UserEdit, UserDelete, UserMkdir, obsVars
<1>8. ASSUME NEW k \in Task, DownloadStep(k)
      PROVE  UNCHANGED obsVars
  BY <1>8, Zenon DEF DownloadStep, CutName, FindTarget, MakeDirectory, Block, OpenFile, OpenDirectory,
       FetchFile, StampFile, notify_tracker_add_me, Unblock, UseAfterFree
<1>9. CASE UNCHANGED obsVars
  BY <1>1, <1>9, Zenon DEF obsVars
<1> QED
  BY <1>5, <1>6, <1>7, <1>8, <1>9, ZenonT(30) DEF Next, vars

-----------------------------------------------------------------------------
(* What the receiver has found still holds when it acts on it.             *)

\* An entry that the monitor puts into the table is of a file it saw change.
LEMMA MonitorTouched ==
  ASSUME Types, OutHeld, TableEvent, Mte.op # FILE_DELETE, Mte.name \in File
  PROVE  Touched(Mte.name)
<1>1. Len(otab) \in DOMAIN otab
  BY TableStep, Zenon
<1> QED
  BY <1>1, Zenon DEF OutHeld, Mte

\* A step of another thread between two of the receiver's.
LEMMA OthersHandling ==
  ASSUME Types, OutHeld, Handling, [Next]_vars, UNCHANGED <<todo, fe>>, pc' \in {pc, "woken"}
  PROVE  Handling'
<1>a. /\ Grown /\ ent \in Seq(FileEntry) /\ live \subseteq DOMAIN ent /\ fe \in 0 .. Len(ent)
      /\ race \subseteq race' /\ Te' = Te
  BY GrownStep, RacesKept, Zenon DEF Types, TabOK, RcvOK, Te
<1>b. \A f : Touched(f) => Touched(f)'
  BY ExcusesKept, Zenon
<1>1. pc' \in {"update", "compare", "raise"} => fe' # 0 /\ ent'[fe'].name = Te'.name
  <2>1. ASSUME pc \in {"update", "compare", "raise"}
        PROVE  fe \in DOMAIN ent /\ ent[fe].name = Te.name
    BY <1>a, <2>1 DEF Handling
  <2> QED
    BY <1>a, <2>1 DEF Grown
<1>2. ASSUME pc' = "add", Te.name \in File
      PROVE  Matches(Te.name)' = {} \/ Touched(Te.name)' \/ Hit(Te.name, {"cut"})'
  <2>1. PICK f \in File : f = Te.name
    BY <1>2, Zenon
  <2>2. CASE Touched(f) \/ Hit(f, {"cut"})
    <3>1. Touched(f)' \/ Hit(f, {"cut"})'
      BY <1>a, <1>b, <2>2, Zenon DEF Hit
    <3> QED
      BY <1>a, <2>1, <3>1, Zenon
  <2>3. CASE Matches(f) = {} /\ Matches(f)' # {}
    <3>1. PICK i \in live' : ent'[i].name = f
      BY <2>3, Zenon DEF Matches
    <3>2. i \notin live
      BY <1>a, <2>3, <3>1, Zenon DEF Matches, Grown
    <3>3. ~Scan /\ ~AddAndFetch
      BY <1>2, Zenon DEF Scan, AddAndFetch, Goto
    <3>4. TableEvent /\ Mte.op # FILE_DELETE /\ Mte.name = f
      BY <3>1, <3>2, <3>3, EnterStep, Zenon
    <3>5. Touched(f)
      BY <3>4, MonitorTouched, Zenon
    <3> QED
      BY <1>a, <1>b, <2>1, <3>5, Zenon
  <2>4. CASE Matches(f)' = {}
    BY <1>a, <2>1, <2>4, Zenon
  <2>5. Matches(f) = {} \/ Touched(f) \/ Hit(f, {"cut"})
    BY <1>2, <2>1, Zenon DEF Handling
  <2> QED
    BY <2>2, <2>3, <2>4, <2>5, Zenon
<1>3. ASSUME pc' = "raise", Te.name \in File
      PROVE  Te.timestamp > ent'[fe].timestamp \/ Touched(Te.name)'
  <2>1. PICK f \in File : f = Te.name
    BY <1>3, Zenon
  <2>2. fe \in DOMAIN ent /\ ent[fe].name = f /\ (Te.timestamp > ent[fe].timestamp \/ Touched(f))
    BY <1>a, <1>3, <2>1, SMTT(40), ZenonT(15) DEF Handling
  <2>3. CASE Touched(f)
    BY <1>a, <1>b, <2>1, <2>3, Zenon
  <2>4. CASE ent'[fe].timestamp = ent[fe].timestamp /\ ~Touched(f)
    BY <2>2, <2>4, Zenon
  <2>5. CASE ent'[fe].timestamp # ent[fe].timestamp
    <3>1. ~RaiseAndFetch /\ ~AddAndFetch
      BY <1>3, Zenon DEF RaiseAndFetch, AddAndFetch, Goto
    <3>2. TableEvent /\ Mte.op # FILE_DELETE /\ Newer(Mte.name)
      BY <2>2, <2>5, <3>1, TimeStep, ZenonT(30)
    <3>3. Mte.name = f
      BY <2>2, <2>5, <3>2, ZenonT(30) DEF Newer
    <3>4. Touched(f)
      BY <3>2, <3>3, MonitorTouched, Zenon
    <3> QED
      BY <1>a, <1>b, <2>1, <3>4, ZenonT(30)
  <2> QED
    BY <2>3, <2>4, <2>5, Zenon
<1> QED
  BY <1>a, <1>1, <1>2, <1>3, Zenon DEF Handling

\* The receiver's own steps, and those of the other threads.
LEMMA HandlingStep ==
  ASSUME Types, OutHeld, Handling, [Next]_vars
  PROVE  Handling'
<1>a. fe \in 0 .. Len(ent) /\ ent \in Seq(FileEntry) /\ live \subseteq DOMAIN ent /\ Grown
  BY GrownStep, Zenon DEF Types, TabOK, RcvOK
<1>1. CASE ReceiverStep
  <2>1. CASE Find
    <3>1. UNCHANGED <<ent, live, todo>> /\ (pc' = IF fe' = 0 THEN "add" ELSE "update")
          /\ Search(Te.name, fe') /\ race' = race \cup Missed(Te.name)
      BY <2>1, Zenon DEF Find, Goto, tabVars
    <3>2. Te' = Te
      BY <3>1, Zenon DEF Te
    <3>3. fe' # 0 => ent'[fe'].name = Te'.name
      BY <3>1, <3>2, Zenon DEF Search, Matches
    <3>4. fe' = 0 => Matches(Te.name) = {} \/ <<"cut", Te.name>> \in race'
      BY <1>a, <3>1 DEF Search, Matches, Missed
    <3>5. fe' = 0 => Matches(Te.name)' = {} \/ Hit(Te.name, {"cut"})'
      BY <3>1, <3>2, <3>4, Zenon DEF Matches, Hit
    <3> QED
      BY <3>1, <3>3, <3>5, Zenon DEF Handling
  <2>2. CASE ReplaceOwners
    <3>1. pc = "update" /\ pc' = "compare" /\ UNCHANGED <<todo, fe>>
      BY <2>2, Zenon DEF ReplaceOwners, Goto
    <3>2. fe \in DOMAIN ent /\ ent[fe].name = Te.name /\ Te' = Te
      BY <1>a, <3>1 DEF Handling, Te
    <3> QED
      BY <1>a, <3>1, <3>2, Zenon DEF Handling, Grown
  <2>3. CASE CompareTimestamps
    <3>1. UNCHANGED <<ent, fe>> /\ pc = "compare" /\ pc' \in {"raise", "apply"}
          /\ (pc' = "raise" => Te.timestamp > ent[fe].timestamp /\ UNCHANGED todo)
      BY <2>3, Zenon DEF CompareTimestamps, Goto, tabVars
    <3> QED
      BY <3>1, Zenon DEF Handling, Te
  <2>4. CASE ReceiverUseAfterFree
    <3>1. UNCHANGED <<todo, fe, pc>>
      BY <2>4, Zenon DEF ReceiverUseAfterFree, rcvVars
    <3> QED
      BY <3>1, OthersHandling, Zenon
  <2>5. CASE ~(Find \/ ReplaceOwners \/ CompareTimestamps \/ ReceiverUseAfterFree)
    <3>1. pc' \notin {"add", "update", "compare", "raise"}
      BY <1>1, <2>5, ZenonT(30) DEF ReceiverStep, pthread_wait_init, pthread_wait_for, Woken, Scan, SendSync,
           RecvSync, Recv, Applied, AddAndFetch, RaiseAndFetch, SkipNone, Delete, DeleteTarget,
           DeleteLock, RemoveFile, RemoveDirectory, DirTarget, Unwatch, DeleteUnblock, Goto
    <3> QED
      BY <3>1, Zenon DEF Handling
  <2> QED
    BY <2>1, <2>2, <2>3, <2>4, <2>5, ZenonT(30)
<1>2. CASE MonitorStep
  <2>1. UNCHANGED <<todo, fe>> /\ pc' \in {pc, "woken"}
    BY <1>2, ZenonT(30) DEF MonitorStep, WatchTargets, pthread_wait_notify, ReadEvents, LookAtEvent,
         handle_event, StatEvent, TableEvent, MonitorUseAfterFree, SendUpdate, rcvVars
  <2> QED
    BY <2>1, OthersHandling, Zenon
<1>3. CASE UserStep
  <2>1. UNCHANGED <<todo, fe, pc>>
    BY <1>3, Zenon DEF UserStep, UserEdit, UserDelete, UserMkdir, rcvVars
  <2> QED
    BY <2>1, OthersHandling, Zenon
<1>4. ASSUME NEW k \in Task, DownloadStep(k)
      PROVE  UNCHANGED rcvVars
  BY <1>4, Zenon DEF DownloadStep, CutName, FindTarget, MakeDirectory, Block, OpenFile, OpenDirectory,
       FetchFile, StampFile, notify_tracker_add_me, Unblock, UseAfterFree
<1>5. CASE UNCHANGED rcvVars
  BY <1>5, OthersHandling, Zenon DEF rcvVars
<1> QED
  BY <1>1, <1>2, <1>3, <1>4, <1>5, ZenonT(30) DEF Next, vars

-----------------------------------------------------------------------------
(* A download announces the version that it fetched.                       *)

Fetching == {"fetch", "stamp", "notify"}
FetchOK(k) ==
  \/ Excused(NameOf(k))
  \/ /\ dver[k] = ent[dfe[k]].timestamp
     /\ dpc[k] # "fetch" => <<NameOf(k), dver[k]>> \in held

\* The version of the entry changes under a download only in the ways noted.
LEMMA TimeOrExcused ==
  ASSUME Types, OutHeld, Handling, [Next]_vars,
         NEW k \in Task, dpc[k] \in Fetching, NEW f \in File, f = NameOf(k)
  PROVE  ent'[dfe[k]].timestamp = ent[dfe[k]].timestamp \/ Excused(f)'
<1>a. dfe[k] \in DOMAIN ent /\ ent[dfe[k]].name = f /\ Fetched(f) /\ (Excused(f) => Excused(f)')
  BY NameType, ExcusesKept, Zenon DEF Fetching, Fetched, NameOf
<1>1. CASE RaiseAndFetch
  <2>1. fe \in DOMAIN ent /\ ent' = [ent EXCEPT ![fe].timestamp = Te.timestamp]
        /\ pc = "raise" /\ (race' = IF Settled(fe) THEN race \cup {<<"raised", Te.name>>} ELSE race)
    BY <1>1, Zenon DEF RaiseAndFetch, Goto, Types, TabOK
  <2>2. CASE dfe[k] = fe
    <3>1. Settled(fe) /\ Te.name = f
      BY <1>a, <2>1, <2>2, Zenon DEF Settled, Fetching, Handling
    <3>2. <<"raised", f>> \in race'
      BY <2>1, <3>1, Zenon
    <3> QED
      BY <3>2, Zenon DEF Excused, Hit
  <2>3. CASE dfe[k] # fe
    BY <1>a, <2>1, <2>3, OneTime, ZenonT(30)
  <2> QED
    BY <2>2, <2>3, Zenon
<1>2. CASE AddAndFetch /\ Newer(Te.name) /\ ent'[dfe[k]].timestamp # ent[dfe[k]].timestamp
  <2>1. dfe[k] \in live /\ Te.name = f
    BY <1>a, <1>2, Zenon DEF Newer
  <2>2. Matches(f) # {}
    BY <1>a, <2>1, Zenon DEF Matches
  <2>3. Touched(f) \/ Hit(f, {"cut"})
    BY <1>2, <2>1, <2>2, Zenon DEF AddAndFetch, Goto, Handling
  <2> QED
    BY <1>a, <2>3, Both, Zenon DEF Excused, Hit
<1>3. CASE TableEvent /\ Mte.op # FILE_DELETE /\ Newer(Mte.name)
           /\ ent'[dfe[k]].timestamp # ent[dfe[k]].timestamp
  <2>1. Mte.name = f
    BY <1>a, <1>3, Zenon DEF Newer
  <2>2. Touched(f)
    BY <1>3, <2>1, MonitorTouched, ZenonT(30)
  <2> QED
    BY <1>a, <2>2, Both, Zenon
<1> QED
  BY <1>a, <1>1, <1>2, <1>3, TimeStep, ZenonT(30)

\* A download that has begun goes on, and what it held it still holds.
LEMMA FetchKept ==
  ASSUME Types, OutHeld, Handling, FetchHeld, [Next]_vars,
         NEW k \in Task, dpc[k] \in Fetching, NameOf(k) \in File, dver'[k] = dver[k],
         dpc[k] = "fetch" /\ dpc'[k] # "fetch" =>
           <<NameOf(k), dver[k]>> \in held' \/ <<"masked", NameOf(k)>> \in race'
  PROVE  FetchOK(k)'
<1>1. PICK f \in File : f = NameOf(k)
  BY Zenon
<1>2. dfe'[k] = dfe[k] /\ NameOf(k)' = f /\ held \subseteq held' /\ race \subseteq race'
  BY <1>1, NamesKept, HistoryKept, ZenonT(30) DEF KeepNames, Fetching
<1>3. Excused(f) => Excused(f)'
  BY ExcusesKept, Zenon
<1>4. <<"masked", f>> \in race' => Excused(f)'
  BY Zenon DEF Excused, Hit
<1>5. ent'[dfe[k]].timestamp = ent[dfe[k]].timestamp \/ Excused(f)'
  BY <1>1, TimeOrExcused, Zenon
<1>6. FetchOK(k)
  BY Zenon DEF FetchHeld, Fetching, FetchOK
<1>7. \/ Excused(f)'
      \/ /\ dver'[k] = ent'[dfe'[k]].timestamp
         /\ dpc'[k] # "fetch" => <<f, dver'[k]>> \in held'
  <2>1. CASE Excused(f)
    BY <1>3, <2>1, Zenon
  <2>2. CASE ~Excused(f)
    <3>1. dver[k] = ent[dfe[k]].timestamp /\ (dpc[k] # "fetch" => <<f, dver[k]>> \in held)
      BY <1>1, <1>6, <2>2, Zenon DEF FetchOK
    <3>2. dpc'[k] # "fetch" => <<f, dver'[k]>> \in held' \/ <<"masked", f>> \in race'
      BY <1>1, <1>2, <3>1, Zenon
    <3> QED
      BY <1>2, <1>4, <1>5, <3>1, <3>2, ZenonT(30)
  <2> QED
    BY <2>1, <2>2, Zenon
<1>8. Excused(f)' => Excused(NameOf(k))'
  BY <1>2, Zenon DEF Excused, Hit, Conflict, Edited, Fetched
<1> QED
  BY <1>2, <1>7, <1>8, ZenonT(30) DEF FetchOK

\* Every step keeps what a download will announce.
LEMMA FetchStep ==
  ASSUME Types, OutHeld, Handling, FetchHeld, [Next]_vars
  PROVE  FetchHeld'
<1>a. dpc \in [Task -> Places] /\ dver \in [Task -> Nat] /\ File \cap Dir = {} /\ KeepNames
  BY NamesKept, DirAssumption, Zenon DEF Types, DlOK
<1>b. SUFFICES ASSUME NEW j \in Task, dpc'[j] \in Fetching, NameOf(j)' \in File
               PROVE  FetchOK(j)'
  BY Zenon DEF FetchHeld, FetchOK, Fetching
<1>c. dpc[j] # "idle" => NameOf(j)' = NameOf(j)
  BY <1>a, Zenon DEF KeepNames
<1>d. CASE dpc'[j] = dpc[j] /\ dver'[j] = dver[j]
  <2>1. dpc[j] \in Fetching /\ NameOf(j) \in File
    BY <1>b, <1>c, <1>d, ZenonT(30) DEF Fetching
  <2> QED
    BY <1>d, <2>1, FetchKept, Zenon
<1>1. ASSUME NEW k \in Task, DownloadStep(k)
      PROVE  FetchOK(j)'
  <2>1. CASE OpenFile(k)
    <3>1. CASE j = k
      <4>1. dver'[j] = ent[dfe[j]].timestamp /\ UNCHANGED <<ent, dfe>> /\ dpc'[j] = "fetch"
        <5>1. Verdict(-1) = "fail"
          BY DEF Verdict
        <5> QED
          BY <1>a, <1>b, <2>1, <3>1, <5>1, ZenonT(30) DEF OpenFile, Step, Fetching, tabVars
      <4> QED
        BY <4>1, Zenon DEF FetchOK
    <3>2. CASE j # k
      BY <1>a, <1>d, <2>1, <3>2, ZenonT(30) DEF OpenFile, Step
    <3> QED
      BY <3>1, <3>2, Zenon
  <2>2. CASE FetchFile(k)
    <3>1. CASE j = k
      <4>1. dpc[j] = "fetch" /\ UNCHANGED dver
        BY <2>2, <3>1, Zenon DEF FetchFile, Step
      <4>2. NameOf(j) \in File
        BY <1>b, <1>c, <4>1, Zenon
      <4>3. dpc'[j] = "stamp" => <<NameOf(j), dver[j]>> \in held' \/ <<"masked", NameOf(j)>> \in race'
        <5>1. Verdict(-1) = "fail"
          BY DEF Verdict
        <5> QED
          BY <1>a, <2>2, <3>1, <5>1, ZenonT(30) DEF FetchFile, Step
      <4>4. dpc'[j] \in {"stamp", "fail", "hung"}
        <5>1. Verdict(-1) = "fail" /\ Verdict(0) = "stamp"
          BY DEF Verdict
        <5> QED
          BY <1>a, <2>2, <3>1, <5>1, ZenonT(30) DEF FetchFile, Step
      <4> QED
        BY <1>b, <4>1, <4>2, <4>3, <4>4, FetchKept, ZenonT(30) DEF Fetching
    <3>2. CASE j # k
      BY <1>a, <1>d, <2>2, <3>2, ZenonT(30) DEF FetchFile, Step
    <3> QED
      BY <3>1, <3>2, Zenon
  <2>3. CASE StampFile(k)
    <3>1. CASE j = k
      <4>1. dpc[j] = "stamp" /\ UNCHANGED dver
        BY <2>3, <3>1, Zenon DEF StampFile, Step
      <4>2. NameOf(j) \in File
        BY <1>b, <1>c, <4>1, ZenonT(30)
      <4> QED
        BY <4>1, <4>2, FetchKept, Zenon DEF Fetching
    <3>2. CASE j # k
      BY <1>a, <1>d, <2>3, <3>2, ZenonT(30) DEF StampFile, Step
    <3> QED
      BY <3>1, <3>2, Zenon
  <2>4. CASE OpenDirectory(k)
    <3>1. CASE j = k
      <4>1. NameOf(j) \in Dir /\ dpc[j] # "idle"
        BY <2>4, <3>1, Zenon DEF OpenDirectory, Step
      <4> QED
        BY <1>a, <1>b, <1>c, <4>1, ZenonT(30)
    <3>2. CASE j # k
      BY <1>a, <1>d, <2>4, <3>2, ZenonT(30) DEF OpenDirectory, Step
    <3> QED
      BY <3>1, <3>2, Zenon
  <2>5. CASE \/ CutName(k) \/ FindTarget(k) \/ MakeDirectory(k) \/ Block(k)
             \/ notify_tracker_add_me(k) \/ Unblock(k)
    <3>1. UNCHANGED dver /\ \E to \in Places \ Fetching : dpc' = [dpc EXCEPT ![k] = to]
      BY <2>5, Zenon DEF CutName, FindTarget, MakeDirectory, Block, notify_tracker_add_me, Unblock, Step,
           Places, Fetching
    <3> QED
      BY <1>a, <1>b, <1>d, <3>1, ZenonT(30)
  <2>6. CASE UseAfterFree(k)
    BY <1>d, <2>6, Zenon DEF UseAfterFree, dlVars
  <2> QED
    BY <1>1, <2>1, <2>2, <2>3, <2>4, <2>5, <2>6, ZenonT(30) DEF DownloadStep
<1>2. CASE UNCHANGED dlVars
  BY <1>d, <1>2, Zenon DEF dlVars
<1>3. ASSUME NEW i, Spawn(i)
      PROVE  FetchOK(j)'
  BY <1>a, <1>b, <1>d, <1>3, ZenonT(30) DEF Spawn, Fetching
<1>4. CASE ReceiverStep
  BY <1>2, <1>3, <1>4, ZenonT(30) DEF ReceiverStep, pthread_wait_init, pthread_wait_for, Woken, Scan, SendSync,
       RecvSync, Recv, Applied, Find, AddAndFetch, ReplaceOwners, CompareTimestamps, RaiseAndFetch,
       SkipNone, Delete, DeleteTarget, DeleteLock, RemoveFile, RemoveDirectory, DirTarget, Unwatch,
       DeleteUnblock, ReceiverUseAfterFree
<1>5. CASE MonitorStep
  BY <1>2, <1>5, Zenon DEF MonitorStep, WatchTargets, pthread_wait_notify, ReadEvents, LookAtEvent,
       handle_event, StatEvent, TableEvent, MonitorUseAfterFree, SendUpdate
<1>6. CASE UserStep
  BY <1>2, <1>6, Zenon DEF UserStep, UserEdit, UserDelete, UserMkdir
<1> QED
  BY <1>1, <1>2, <1>4, <1>5, <1>6, ZenonT(30) DEF Next, vars

-----------------------------------------------------------------------------
(* What the tracker is told.                                               *)

\* An entry that was told is held or excused, and stays so.
LEMMA ToldStep ==
  ASSUME Types, OutHeld, FetchHeld, ToldHeld, [Next]_vars
  PROVE  ToldHeld'
<1>a. held \subseteq held' /\ \A f : Excused(f) => Excused(f)'
  BY ExcusesKept, HistoryKept, Zenon
<1>b. \A f : Excused(f) <=> Hit(f, {"raised", "exposed", "masked", "cut"}) \/ Conflict(f)
  BY Zenon DEF Excused
<1>c. \A a \in told : a.name \in File /\ a.op # FILE_DELETE =>
        <<a.name, a.timestamp>> \in held' \/ Excused(a.name)'
  BY <1>a, <1>b, Zenon DEF ToldHeld
<1>d. SUFFICES ASSUME NEW a \in told', a \notin told, a.name \in File, a.op # FILE_DELETE
               PROVE  <<a.name, a.timestamp>> \in held' \/ Excused(a.name)'
  BY <1>c, Zenon DEF ToldHeld, Excused
<1>1. ASSUME NEW k \in Task, DownloadStep(k)
      PROVE  <<a.name, a.timestamp>> \in held' \/ Excused(a.name)'
  <2>1. notify_tracker_add_me(k)
    BY <1>d, <1>1, ZenonT(30) DEF DownloadStep, CutName, FindTarget, MakeDirectory, Block, OpenFile,
         OpenDirectory, FetchFile, StampFile, Unblock, UseAfterFree, histVars
  <2>2. /\ dpc[k] = "notify" /\ a.name = NameOf(k) /\ a.timestamp = ent[dfe[k]].timestamp
    BY <1>d, <2>1, SMTT(40), ZenonT(15) DEF notify_tracker_add_me, Step
  <2>3. Excused(a.name) \/ <<a.name, a.timestamp>> \in held
    BY <1>d, <2>2, Zenon DEF FetchHeld
  <2> QED
    BY <1>a, <2>3, Zenon
<1>2. CASE MonitorStep
  <2>1. SendUpdate
    BY <1>d, <1>2, ZenonT(30) DEF MonitorStep, WatchTargets, pthread_wait_notify, ReadEvents, LookAtEvent,
         handle_event, StatEvent, TableEvent, MonitorUseAfterFree, histVars
  <2>2. PICK i \in 1 .. Len(otab) :
          a.op = otab[i].op /\ a.name = otab[i].name /\ a.timestamp = otab[i].timestamp
    <3>1. a \in {[op |-> otab[i].op, name |-> otab[i].name, timestamp |-> otab[i].timestamp]
                    : i \in 1 .. Len(otab)}
      BY <1>d, <2>1, Zenon DEF SendUpdate
    <3> QED
      BY <3>1
  <2>3. i \in DOMAIN otab /\ opc = "look"
    BY <2>1, <2>2, SMTT(40), ZenonT(15) DEF SendUpdate, MonitorAt, Types, ObsOK
  <2>4. Excused(a.name) \/ <<a.name, a.timestamp>> \in held
    BY <1>d, <2>2, <2>3, Zenon DEF OutHeld
  <2> QED
    BY <1>a, <2>4, Zenon
<1>3. CASE ReceiverStep
  BY <1>d, <1>3, ZenonT(30) DEF ReceiverStep, pthread_wait_init, pthread_wait_for, Woken, Scan, SendSync, RecvSync,
       Recv, Applied, Find, AddAndFetch, ReplaceOwners, CompareTimestamps, RaiseAndFetch, SkipNone,
       Delete, DeleteTarget, DeleteLock, RemoveFile, RemoveDirectory, DirTarget, Unwatch,
       DeleteUnblock, ReceiverUseAfterFree, histVars
<1>4. CASE UserStep
  BY <1>d, <1>4, Zenon DEF UserStep, UserEdit, UserDelete, UserMkdir
<1>5. CASE UNCHANGED vars
  BY <1>d, <1>5, Zenon DEF vars, histVars
<1> QED
  BY <1>1, <1>2, <1>3, <1>4, <1>5, ZenonT(30) DEF Next

\* The inductive invariant of this module.
TableInv ==
  /\ Types /\ Boot /\ Locks /\ Masks
  /\ EventsTouched /\ DiskHeld /\ OutHeld /\ Handling /\ FetchHeld /\ ToldHeld

\* It holds at the start: the files on disk are whole versions.
LEMMA TableInvInit == Init => TableInv
<1> SUFFICES ASSUME Init
             PROVE  TableInv
  BY Zenon
<1>1. Boot /\ Locks
  BY Zenon DEF Init, Boot, Locks, Holding, Removing
<1>2. Masks
  <2>1. \A d \in Dir : mask[d] # "default"
    BY Zenon DEF Init
  <2>2. \A k \in Task : dpc[k] \notin Writing
    BY Zenon DEF Init, Writing
  <2>3. DOMAIN events = {} /\ DOMAIN batch = {}
    BY DEF Init
  <2>4. NoEcho
    BY <2>3, Zenon DEF NoEcho
  <2> QED
    BY <2>1, <2>2, <2>4, Zenon DEF Masks
<1>3. EventsTouched /\ OutHeld /\ Handling /\ FetchHeld /\ ToldHeld
  <2>0. DOMAIN events = {} /\ DOMAIN batch = {} /\ DOMAIN otab = {} /\ pc = "winit"
    BY DEF Init
  <2>1. EventsTouched
    BY <2>0, Zenon DEF EventsTouched
  <2>2. OutHeld
    BY <2>0, Zenon DEF OutHeld
  <2>3. Handling
    <3>1. pc \notin {"update", "compare", "raise"} /\ pc # "add" /\ pc # "raise"
      BY <2>0, Zenon
    <3> QED
      BY <3>1, Zenon DEF Handling
  <2>4. FetchHeld
    <3>1. \A k \in Task : dpc[k] \notin {"fetch", "stamp", "notify"}
      BY Zenon DEF Init
    <3> QED
      BY <3>1, Zenon DEF FetchHeld
  <2>5. ToldHeld
    <3>1. told = {}
      BY Zenon DEF Init
    <3> QED
      BY <3>1, Zenon DEF ToldHeld
  <2> QED
    BY <2>1, <2>2, <2>3, <2>4, <2>5, ZenonT(30)
<1>4. DiskHeld
  <2>1. \A f \in File : disk[f].content = OnDisk[f] /\ disk[f].mtime = OnDisk[f] /\ f \notin Dir
    BY DirAssumption, Zenon DEF Init
  <2>2. \A f \in File : OnDisk[f] # Absent => <<f, OnDisk[f]>> \in held
    BY Zenon DEF Init
  <2> QED
    BY <2>1, <2>2, Zenon DEF DiskHeld, Exists
<1> QED
  BY <1>1, <1>2, <1>3, <1>4, InitTypes, ZenonT(30) DEF TableInv

\* Every step keeps it.
LEMMA TableInvStep == TableInv /\ [Next]_vars => TableInv'
BY NextTypes, BootKept, LocksStep, MasksStep, EventsStep, DiskStep, OutStep, HandlingStep, FetchStep,
   ToldStep, ZenonT(30) DEF TableInv

\* The tracker is only told of versions that were whole on this disk, by
\* notify_tracker_add_me and by the monitor, with the exceptions of ToldHeld.
THEOREM ClientToldHeld == Spec => []ToldHeld
<1>1. TableInv => ToldHeld
  BY Zenon DEF TableInv
<1> QED
  BY <1>1, TableInvInit, TableInvStep, PTL DEF Spec

\* A timestamp of the table goes back only under file_entry_update_timestamp, and
\* only if the monitor touched the entry after the receiver compared it.
LEMMA VersionStep ==
  ASSUME TableInv, [Next]_vars, NEW i \in DOMAIN ent, NEW f \in File, ent[i].name = f
  PROVE  \/ ent'[i].timestamp >= ent[i].timestamp
         \/ Conflict(f)' \/ Hit(f, {"exposed"})'
<1>a. Types /\ OutHeld /\ Handling /\ ent \in Seq(FileEntry) /\ live \subseteq DOMAIN ent /\ Grown
      /\ dpc \in [Task -> Places] /\ dfe \in [Task -> 0 .. Len(ent)]
  BY GrownStep, Zenon DEF TableInv, Types, TabOK, DlOK
<1>b. ent[i].timestamp \in Nat /\ ent'[i].timestamp \in Nat /\ ent'[i].name = f
  <2>1. ent' \in Seq(FileEntry) /\ i \in DOMAIN ent'
    <3>1. ent' \in Seq(FileEntry)
      BY <1>a, GrownStep, Zenon
    <3> QED
      BY <1>a, <3>1, Longer, ZenonT(30) DEF Grown
  <2>2. ent[i] \in FileEntry /\ ent'[i] \in FileEntry
    BY <1>a, <2>1, SMTT(40), ZenonT(15)
  <2> QED
    BY <1>a, <2>2, Zenon DEF FileEntry, Grown
<1>1. CASE RaiseAndFetch
  <2>1. fe \in DOMAIN ent /\ ent' = [ent EXCEPT ![fe].timestamp = Te.timestamp] /\ pc = "raise" /\ Spawn(fe)
    BY <1>1, <1>a, Zenon DEF RaiseAndFetch, Goto
  <2>2. ent'[fe].timestamp = Te.timestamp /\ \A j \in DOMAIN ent \ {fe} : ent'[j] = ent[j]
    BY <1>a, <2>1, OneTime, Zenon
  <2>3. CASE i # fe
    BY <1>b, <2>2, <2>3, SMTT(40), ZenonT(15)
  <2>4. CASE i = fe
    <3>1. Te.name = f /\ (Te.timestamp > ent[fe].timestamp \/ Touched(f))
      BY <1>a, <2>1, <2>4, Zenon DEF Handling
    <3>2. Touched(f) => Touched(f)'
      BY <1>a, ExcusesKept, Zenon
    <3>3. Fetched(f)'
      <4>1. PICK k \in Task : dpc' = [dpc EXCEPT ![k] = "name"] /\ dfe' = [dfe EXCEPT ![k] = fe]
        BY <2>1, Zenon DEF Spawn
      <4>2. dpc'[k] # "idle" /\ dfe'[k] = fe
        BY <1>a, <4>1, Zenon
      <4> QED
        BY <1>b, <2>4, <4>2, ZenonT(30) DEF Fetched, NameOf
    <3>4. Touched(f)' => Conflict(f)' \/ Hit(f, {"exposed"})'
      BY <3>3, Zenon DEF Touched, Conflict
    <3>5. CASE Te.timestamp > ent[fe].timestamp
      <4>1. ent'[i].timestamp = Te.timestamp /\ Te.timestamp > ent[i].timestamp
        BY <2>2, <2>4, <3>5, ZenonT(30)
      <4> QED
        BY <1>b, <4>1, SMTT(40), ZenonT(15)
    <3> QED
      BY <3>1, <3>2, <3>4, <3>5, ZenonT(30)
  <2> QED
    BY <2>3, <2>4, Zenon
<1>2. CASE \E n : Newer(n)
  BY <1>b, <1>2, SMTT(40), ZenonT(15) DEF Newer
<1>3. CASE \A j \in DOMAIN ent : ent'[j].timestamp = ent[j].timestamp
  BY <1>b, <1>3
<1> QED
  BY <1>a, <1>1, <1>2, <1>3, TimeStep, ZenonT(30)

\* Whatever order broadcasts arrive in and however threads interleave, a version
\* in the table is only replaced by a newer one, but for the race of VersionsAdvance.
THEOREM ClientVersionsAdvance == Spec => VersionsAdvance
<1> DEFINE Advance ==
      \A i \in DOMAIN ent :
        ent[i].name \in File =>
          \/ ent'[i].timestamp >= ent[i].timestamp
          \/ Conflict(ent[i].name)' \/ Hit(ent[i].name, {"exposed"})'
<1>1. TableInv /\ [Next]_vars => Advance
  <2> SUFFICES ASSUME TableInv, [Next]_vars, NEW i \in DOMAIN ent, ent[i].name \in File
               PROVE  \/ ent'[i].timestamp >= ent[i].timestamp
                      \/ Conflict(ent[i].name)' \/ Hit(ent[i].name, {"exposed"})'
    BY Zenon
  <2>1. PICK f \in File : f = ent[i].name
    BY Zenon
  <2>2. ent'[i].name = f
    BY <2>1, GrownStep, ZenonT(30) DEF TableInv, Grown
  <2>3. \/ ent'[i].timestamp >= ent[i].timestamp
        \/ Conflict(f)' \/ Hit(f, {"exposed"})'
    BY <2>1, VersionStep, ZenonT(30)
  <2>4. Conflict(f)' => Conflict(ent[i].name)'
    BY <2>2, Zenon DEF Conflict, Edited, Fetched
  <2>5. Hit(f, {"exposed"})' => Hit(ent[i].name, {"exposed"})'
    BY <2>2, Zenon DEF Hit
  <2> QED
    BY <2>3, <2>4, <2>5, Zenon
<1>2. VersionsAdvance <=> [][Advance]_vars
  BY Zenon DEF VersionsAdvance
<1> HIDE DEF Advance
<1> QED
  BY <1>1, <1>2, TableInvInit, TableInvStep, PTL DEF Spec

-----------------------------------------------------------------------------
(* Where entries come from and where they go.                              *)

\* A file that the receiver removes has left the table.
Gone ==
  pc \in {"target", "lock", "remove"} /\ Te.name \in File =>
    Matches(Te.name) = {} \/ Touched(Te.name) \/ Hit(Te.name, {"cut", "scanned"})

\* file_entry_update keeps the newer of two timestamps.
LEMMA UpdatedOne ==
  ASSUME NEW x \in FileEntry, NEW te \in TransEntry
  PROVE  LET t == file_entry_update(x, te).timestamp
         IN  t \in {x.timestamp, te.timestamp} /\ t >= te.timestamp
<1>1. x.timestamp \in Nat /\ te.timestamp \in Nat
  BY Zenon DEF FileEntry, TransEntry
<1>2. file_entry_update(x, te).timestamp =
        IF te.timestamp > x.timestamp THEN te.timestamp ELSE x.timestamp
  BY Zenon DEF file_entry_update
<1> QED
  BY <1>1, <1>2

\* ... in the entry that a search found.
LEMMA FoundTime ==
  ASSUME Types, OneEntryPerName, race \subseteq race',
         NEW te \in TransEntry, NEW i \in live, ent[i].name = te.name,
         ent' = [ent EXCEPT ![i].timestamp = file_entry_update(ent[i], te).timestamp,
                            ![i].owners = file_entry_update(ent[i], te).owners],
         NEW j \in live
  PROVE  /\ \/ ent'[j].timestamp = ent[j].timestamp
            \/ j = i /\ ent'[j].timestamp = te.timestamp
         /\ ent[j].name = te.name =>
              \/ ent'[j].timestamp >= te.timestamp
              \/ \E c \in {"cut", "scanned"} : <<c, te.name>> \in race'
<1>1. i \in DOMAIN ent /\ j \in DOMAIN ent /\ ent[i] \in FileEntry
  BY DEF Types, TabOK
<1>2. /\ ent'[i].timestamp = file_entry_update(ent[i], te).timestamp
      /\ \A k \in DOMAIN ent \ {i} : ent'[k] = ent[k]
  BY <1>1, OneTime, Zenon
<1>3. ent'[i].timestamp \in {ent[i].timestamp, te.timestamp} /\ ent'[i].timestamp >= te.timestamp
  BY <1>1, <1>2, UpdatedOne, Zenon
<1>4. ent[j].name = te.name => j = i \/ \E c \in {"cut", "scanned"} : <<c, te.name>> \in race'
  BY Zenon DEF OneEntryPerName, Hit
<1> QED
  BY <1>1, <1>2, <1>3, <1>4, ZenonT(30)

\* file_table_add: entry i has the new version, and nothing else has changed.
LEMMA AddTime ==
  ASSUME Types, OneEntryPerName, race \subseteq race',
         NEW te \in TransEntry, NEW i, AddEntry(te, i), Missed(te.name) \subseteq race',
         NEW j \in live'
  PROVE  /\ \/ j \in live /\ ent'[j].timestamp = ent[j].timestamp
            \/ j = i /\ ent'[j].timestamp = te.timestamp /\ ent'[j].name = te.name
         /\ ent'[j].name = te.name =>
              \/ ent'[j].timestamp >= te.timestamp
              \/ \E c \in {"cut", "scanned"} : <<c, te.name>> \in race'
<1>1. ent \in Seq(FileEntry) /\ live \subseteq DOMAIN ent /\ te.timestamp \in Nat
  BY Zenon DEF Types, TabOK, TransEntry
<1>0. Grown
  BY AddType, Zenon
<1>2. PICK found \in 0 .. Len(ent) :
        /\ Search(te.name, found)
        /\ \/ /\ found = 0 /\ i = Len(ent) + 1
              /\ ent' = Append(ent, NewEntry(te)) /\ live' = live \cup {i}
           \/ /\ found # 0 /\ i = found
              /\ ent' = [ent EXCEPT ![i].timestamp = file_entry_update(ent[i], te).timestamp,
                                    ![i].owners = file_entry_update(ent[i], te).owners]
              /\ UNCHANGED live
  BY Zenon DEF AddEntry
<1>3. CASE found = 0
  <2>1. NewEntry(te) \in FileEntry /\ NewEntry(te).name = te.name /\ NewEntry(te).timestamp = te.timestamp
    BY Zenon DEF NewEntry, FileEntry, TransEntry
  <2>2. ent' = Append(ent, NewEntry(te)) /\ live' = live \cup {Len(ent) + 1} /\ i = Len(ent) + 1
    BY <1>2, <1>3, Zenon
  <2>3. ent'[Len(ent) + 1] = NewEntry(te) /\ \A k \in DOMAIN ent : ent'[k] = ent[k]
    BY <1>1, <2>1, <2>2
  <2>4. Matches(te.name) \ cut = {}
    BY <1>1, <1>2, <1>3 DEF Search, Matches
  <2>5. Matches(te.name) # {} => <<"cut", te.name>> \in race'
    BY <2>4, Zenon DEF Missed
  <2>6. CASE j = Len(ent) + 1
    <3>1. ent'[j].timestamp = te.timestamp /\ ent'[j].name = te.name
      BY <2>1, <2>3, <2>6, Zenon
    <3>2. te.timestamp >= te.timestamp
      BY <1>1
    <3> QED
      BY <2>2, <2>6, <3>1, <3>2, Zenon
  <2>7. CASE j \in live
    BY <1>1, <2>3, <2>5, <2>7, Zenon DEF Matches
  <2> QED
    BY <2>2, <2>6, <2>7, Zenon
<1>4. CASE found # 0
  <2>1. i \in live /\ ent[i].name = te.name /\ UNCHANGED live
    BY <1>2, <1>4, Zenon DEF Search, Matches
  <2>2. ent'[j].name = ent[j].name
    BY <1>0, <1>1, <2>1, Zenon DEF Grown
  <2>3. ent' = [ent EXCEPT ![i].timestamp = file_entry_update(ent[i], te).timestamp,
                           ![i].owners = file_entry_update(ent[i], te).owners]
    BY <1>2, <1>4, Zenon
  <2>4. j \in live
    BY <2>1, Zenon
  <2>5. /\ \/ ent'[j].timestamp = ent[j].timestamp
           \/ j = i /\ ent'[j].timestamp = te.timestamp
        /\ ent[j].name = te.name =>
             \/ ent'[j].timestamp >= te.timestamp
             \/ \E c \in {"cut", "scanned"} : <<c, te.name>> \in race'
    BY <2>1, <2>3, <2>4, FoundTime, Zenon
  <2> QED
    BY <2>1, <2>2, <2>4, <2>5, Zenon
<1> QED
  BY <1>3, <1>4, Zenon

\* file_table_update.
LEMMA UpdateTime ==
  ASSUME Types, OneEntryPerName, race \subseteq race',
         NEW te \in TransEntry, UpdateEntry(te), Missed(te.name) \subseteq race',
         NEW j \in live'
  PROVE  /\ j \in live
         /\ \/ ent'[j].timestamp = ent[j].timestamp
            \/ ent'[j].timestamp = te.timestamp /\ ent'[j].name = te.name
         /\ ent'[j].name = te.name =>
              \/ ent'[j].timestamp >= te.timestamp
              \/ \E c \in {"cut", "scanned"} : <<c, te.name>> \in race'
<1>1. ent \in Seq(FileEntry) /\ live \subseteq DOMAIN ent
  BY Zenon DEF Types, TabOK
<1>0. Grown
  BY UpdateType, Zenon
<1>2. PICK i \in 0 .. Len(ent) :
        /\ Search(te.name, i)
        /\ IF i = 0 THEN UNCHANGED ent
           ELSE ent' = [ent EXCEPT ![i].timestamp = file_entry_update(ent[i], te).timestamp,
                                   ![i].owners = file_entry_update(ent[i], te).owners]
  BY Zenon DEF UpdateEntry
<1>3. j \in live /\ ent'[j].name = ent[j].name
  BY <1>0, <1>1, Zenon DEF Grown, UpdateEntry
<1>4. CASE i = 0
  <2>1. Matches(te.name) \ cut = {}
    BY <1>1, <1>2, <1>4 DEF Search, Matches
  <2>2. Matches(te.name) # {} => <<"cut", te.name>> \in race'
    BY <2>1, Zenon DEF Missed
  <2> QED
    BY <1>2, <1>3, <1>4, <2>2, Zenon DEF Matches
<1>5. CASE i # 0
  <2>1. i \in live /\ ent[i].name = te.name
    BY <1>2, <1>5, Zenon DEF Search, Matches
  <2>2. ent' = [ent EXCEPT ![i].timestamp = file_entry_update(ent[i], te).timestamp,
                           ![i].owners = file_entry_update(ent[i], te).owners]
    BY <1>2, <1>5, Zenon
  <2>3. /\ \/ ent'[j].timestamp = ent[j].timestamp
           \/ j = i /\ ent'[j].timestamp = te.timestamp
        /\ ent[j].name = te.name =>
             \/ ent'[j].timestamp >= te.timestamp
             \/ \E c \in {"cut", "scanned"} : <<c, te.name>> \in race'
    BY <1>3, <2>1, <2>2, FoundTime, Zenon
  <2> QED
    BY <1>3, <2>1, <2>3, Zenon
<1> QED
  BY <1>4, <1>5, Zenon

\* file_table_delete leaves no entry of the name.
LEMMA DeleteAll ==
  ASSUME Types, OneEntryPerName, race \subseteq race',
         NEW n, DeleteEntry(n), Missed(n) \subseteq race',
         NEW j \in live', ent[j].name = n
  PROVE  \E c \in {"cut", "scanned"} : <<c, n>> \in race'
<1>1. PICK i \in 0 .. Len(ent) : Search(n, i) /\ live' = live \ {i}
  BY Zenon DEF DeleteEntry
<1>2. j \in live /\ j # i /\ j \in Matches(n) /\ live \subseteq DOMAIN ent /\ ent \in Seq(FileEntry)
  BY <1>1, Zenon DEF Matches, Types, TabOK
<1>3. CASE i = 0
  <2>1. Matches(n) \ cut = {}
    BY <1>1, <1>2, <1>3 DEF Search, Matches
  <2> QED
    BY <1>2, <2>1, Zenon DEF Missed
<1>4. CASE i # 0
  BY <1>1, <1>2, <1>4, Zenon DEF Search, Matches, OneEntryPerName, Hit
<1> QED
  BY <1>3, <1>4, Zenon

\* Where the entries of the table, and their versions, come from.
LEMMA EntryStep ==
  ASSUME Types, OneEntryPerName, [Next]_vars, NEW j \in live', NEW f, ent'[j].name = f
  PROVE  \/ j \in live /\ ent'[j].timestamp = ent[j].timestamp /\ ent[j].name = f
         \/ Spawn(j)
         \/ Scan /\ Exists(f) /\ (f \in File => ent'[j].timestamp = disk[f].mtime)
         \/ TableEvent /\ Mte.name = f /\ Mte.op # FILE_DELETE /\ ent'[j].timestamp = Mte.timestamp
<1>a. ent \in Seq(FileEntry) /\ live \subseteq DOMAIN ent /\ Grown /\ race \subseteq race'
      /\ fe \in 0 .. Len(ent)
  BY GrownStep, RacesKept, Zenon DEF Types, TabOK, RcvOK
<1>b. j \in live => ent[j].name = f
  BY <1>a, Zenon DEF Grown
<1>1. CASE RaiseAndFetch
  <2>1. UNCHANGED live /\ Spawn(fe) /\ fe \in DOMAIN ent
        /\ ent' = [ent EXCEPT ![fe].timestamp = Te.timestamp]
    BY <1>a, <1>1, Zenon DEF RaiseAndFetch
  <2>2. \A k \in DOMAIN ent \ {fe} : ent'[k] = ent[k]
    BY <2>1, OneTime, Zenon
  <2> QED
    BY <1>a, <1>b, <2>1, <2>2, Zenon
<1>2. CASE AddAndFetch
  <2>1. Te \in TransEntry
    BY <1>2, TeType, Zenon DEF AddAndFetch, Goto, Busy
  <2>2. PICK i : AddEntry(Te, i) /\ Spawn(i)
    BY <1>2, Zenon DEF AddAndFetch
  <2>3. Missed(Te.name) \subseteq race'
    BY <1>2, Zenon DEF AddAndFetch
  <2>4. (j \in live /\ ent'[j].timestamp = ent[j].timestamp) \/ j = i
    BY <1>a, <2>1, <2>2, <2>3, AddTime, Zenon
  <2> QED
    BY <1>b, <2>2, <2>4, Zenon
<1>3. CASE Scan
  <2>1. CASE j \in live
    <3>1. UNCHANGED ent \/ \E x : ent' = Append(ent, x)
      BY <1>3, Zenon DEF Scan
    <3>2. ent'[j] = ent[j]
      BY <1>a, <2>1, <3>1
    <3> QED
      BY <1>b, <2>1, <3>2, Zenon
  <2>2. CASE j \notin live
    <3>1. PICK n : /\ Exists(n) /\ live' = live \cup {Len(ent) + 1}
                   /\ ent' = Append(ent, [name |-> n, owners |-> {Me},
                               timestamp |-> IF n \in File THEN disk[n].mtime ELSE Now])
      BY <1>3, <2>2, Zenon DEF Scan
    <3> DEFINE x == [name |-> n, owners |-> {Me}, timestamp |-> IF n \in File THEN disk[n].mtime ELSE Now]
    <3>2. j = Len(ent) + 1 /\ ent' = Append(ent, x)
      BY <2>2, <3>1, Zenon
    <3>3. x.name = n /\ (n \in File => x.timestamp = disk[n].mtime)
      BY Zenon
    <3> HIDE DEF x
    <3>4. Len(ent') = Len(ent) + 1 /\ ent'[Len(ent')] = x
      BY <1>a, <3>2, OneMore
    <3>5. ent'[j] = x
      BY <3>2, <3>4, Zenon
    <3> QED
      BY <1>3, <3>1, <3>3, <3>5, Zenon
  <2> QED
    BY <2>1, <2>2, Zenon
<1>4. CASE TableEvent
  <2>1. Mte \in TransEntry /\ Missed(Mte.name) \subseteq race'
    BY <1>4, TableStep, Zenon DEF TableEvent, Mte
  <2>2. CASE Mte.op = FILE_ADD /\ \E i \in 1 .. Len(ent) + 1 : AddEntry(Mte, i)
    <3>1. PICK i : AddEntry(Mte, i)
      BY <2>2, Zenon
    <3>2. \/ j \in live /\ ent'[j].timestamp = ent[j].timestamp
          \/ ent'[j].timestamp = Mte.timestamp /\ ent'[j].name = Mte.name
      BY <1>a, <2>1, <3>1, AddTime, Zenon
    <3> QED
      BY <1>b, <1>4, <2>2, <3>2, Zenon DEF FILE_ADD, FILE_DELETE
  <2>3. CASE Mte.op = FILE_MODIFY /\ UpdateEntry(Mte)
    <3>1. j \in live /\ \/ ent'[j].timestamp = ent[j].timestamp
                        \/ ent'[j].timestamp = Mte.timestamp /\ ent'[j].name = Mte.name
      BY <1>a, <2>1, <2>3, UpdateTime, Zenon
    <3> QED
      BY <1>b, <1>4, <2>3, <3>1, Zenon DEF FILE_MODIFY, FILE_DELETE
  <2>4. CASE DeleteEntry(Mte.name)
    BY <1>b, <2>4, Zenon DEF DeleteEntry
  <2> QED
    BY <1>4, <2>2, <2>3, <2>4, Zenon DEF TableEvent, Mte
<1>5. CASE ~(RaiseAndFetch \/ AddAndFetch \/ Scan \/ TableEvent)
  <2>1. j \in live
    BY <1>5, EnterStep, Zenon
  <2>2. ent'[j].timestamp = ent[j].timestamp
    BY <1>a, <1>5, <2>1, TimeStep, Zenon
  <2> QED
    BY <1>b, <2>1, <2>2, Zenon
<1> QED
  BY <1>1, <1>2, <1>3, <1>4, <1>5, Zenon

\* Once the monitor has handled an event, the entry of its name is not older
\* than what it noted, and gone if it noted a deletion.
LEMMA TableHandled ==
  ASSUME Types, OneEntryPerName, TableEvent, [Next]_vars, NEW j \in live', NEW f,
         ent'[j].name = f, Mte.name = f
  PROVE  \/ Hit(f, {"cut", "scanned"})'
         \/ Mte.op # FILE_DELETE /\ ent'[j].timestamp >= Mte.timestamp
<1>a. race \subseteq race' /\ Mte \in TransEntry /\ Missed(Mte.name) \subseteq race' /\ Grown
      /\ live \subseteq DOMAIN ent
  BY RacesKept, TableStep, GrownStep, Zenon DEF TableEvent, Mte, Types, TabOK
<1>b. (\E c \in {"cut", "scanned"} : <<c, Mte.name>> \in race') => Hit(f, {"cut", "scanned"})'
  BY Zenon DEF Hit
<1>1. CASE Mte.op = FILE_ADD /\ \E i \in 1 .. Len(ent) + 1 : AddEntry(Mte, i)
  <2>1. PICK i : AddEntry(Mte, i)
    BY <1>1, Zenon
  <2>2. \/ ent'[j].timestamp >= Mte.timestamp
        \/ \E c \in {"cut", "scanned"} : <<c, Mte.name>> \in race'
    BY <1>a, <2>1, AddTime, Zenon
  <2> QED
    BY <1>b, <1>1, <2>2, Zenon DEF FILE_ADD, FILE_DELETE
<1>2. CASE Mte.op = FILE_MODIFY /\ UpdateEntry(Mte)
  <2>1. \/ ent'[j].timestamp >= Mte.timestamp
        \/ \E c \in {"cut", "scanned"} : <<c, Mte.name>> \in race'
    BY <1>a, <1>2, UpdateTime, Zenon
  <2> QED
    BY <1>b, <1>2, <2>1, Zenon DEF FILE_MODIFY, FILE_DELETE
<1>3. CASE DeleteEntry(Mte.name)
  <2>1. j \in live /\ ent[j].name = Mte.name
    BY <1>a, <1>3, Zenon DEF DeleteEntry, Grown
  <2> QED
    BY <1>a, <1>b, <1>3, <2>1, DeleteAll, Zenon
<1> QED
  BY <1>1, <1>2, <1>3, Zenon DEF TableEvent, Mte

\* file_table_delete comes before the file is removed.
LEMMA GoneStep ==
  ASSUME Types, OutHeld, OneEntryPerName, Gone, [Next]_vars
  PROVE  Gone'
<1>a. Grown /\ live \subseteq DOMAIN ent /\ race \subseteq race'
  BY GrownStep, RacesKept, Zenon DEF Types, TabOK
<1> SUFFICES ASSUME pc' \in {"target", "lock", "remove"}, NEW f \in File, f = Te'.name
             PROVE  Matches(f)' = {} \/ Touched(f)' \/ Hit(f, {"cut", "scanned"})'
  BY Zenon DEF Gone, Matches, Touched, Hit, Edited
<1>1. f = Te.name
  BY InHand, Zenon DEF Te
<1>3. Matches(f)' = {} \/ Touched(f)' \/ Hit(f, {"cut", "scanned"})'
  <2>1. CASE Delete
    <3>1. DeleteEntry(f) /\ Missed(f) \subseteq race' /\ UNCHANGED ent
      BY <1>1, <2>1, Zenon DEF Delete, DeleteEntry
    <3>2. ASSUME NEW j \in live', ent'[j].name = f
          PROVE  \E c \in {"cut", "scanned"} : <<c, f>> \in race'
      <4>1. ent[j].name = f
        BY <3>1, <3>2, Zenon
      <4> QED
        BY <1>a, <3>1, <4>1, DeleteAll, Zenon
    <3> QED
      BY <3>2, Zenon DEF Matches, Hit
  <2>2. CASE pc \in {"target", "lock", "remove"}
    <3>1. CASE Touched(f)
      BY <3>1, ExcusesKept, Zenon
    <3>2. CASE Hit(f, {"cut", "scanned"})
      BY <1>a, <3>2, Zenon DEF Hit
    <3>3. CASE Matches(f) = {} /\ Matches(f)' # {}
      <4>1. PICK i \in live' : ent'[i].name = f
        BY <3>3, Zenon DEF Matches
      <4>2. i \notin live
        BY <1>a, <3>3, <4>1, Zenon DEF Matches, Grown
      <4>3. ~Scan /\ ~AddAndFetch
        BY <2>2, Zenon DEF Scan, AddAndFetch, Goto
      <4>4. TableEvent /\ Mte.op # FILE_DELETE /\ Mte.name = f
        BY <4>1, <4>2, <4>3, EnterStep, Zenon
      <4>5. Touched(f)
        BY <4>4, MonitorTouched, Zenon
      <4> QED
        BY <4>5, ExcusesKept, Zenon
    <3> QED
      BY <1>1, <2>2, <3>1, <3>2, <3>3, Zenon DEF Gone
  <2> QED
    BY <2>1, <2>2, InHand, Zenon
<1> QED
  BY <1>3, Zenon

\* The entry that the monitor makes of an event is the last one of its table.
LEMMA StatEntry ==
  ASSUME Types, StatEvent
  PROVE  /\ Mte' = EventEntry(Head(batch)) /\ opc = "stat" /\ opc' = "table"
         /\ UNCHANGED <<batch, events, disk, dirs, tabVars>> /\ batch # << >>
<1>1. otab \in Seq(TransEntry) /\ otab' = Append(otab, EventEntry(Head(batch)))
  BY Zenon DEF Types, ObsOK, StatEvent
<1>2. otab'[Len(otab')] = EventEntry(Head(batch))
  <2> DEFINE x == EventEntry(Head(batch))
  <2> HIDE DEF x
  <2>1. otab' = Append(otab, x)
    BY <1>1, Zenon DEF x
  <2>2. otab'[Len(otab')] = x
    BY <1>1, <2>1, OneMore
  <2> QED
    BY <2>2, Zenon DEF x
<1> QED
  BY <1>2, Zenon DEF Mte, StatEvent, MonitorAt, Types, ObsOK

=============================================================================
