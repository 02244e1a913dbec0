---------------------------- MODULE ClientWatch -----------------------------
(***************************************************************************)
(* That no download is reported as the user's own change, and that no      *)
(* thread uses freed memory unless something is deleted: proofs, for any   *)
(* sets of files, directories and packets and any number of downloads and  *)
(* edits.  The last part is about the events that the monitor has yet to   *)
(* handle and the places of downloads; ClientSync builds on it.            *)
(***************************************************************************)
EXTENDS ClientLocks

\* Where a file is being written, the watch reports nothing, and the target is
\* the one that was blocked, or a race has been noted.
Masks ==
  /\ \A d \in Dir : mask[d] = "default" => tgt[d] # 0
  /\ \A k \in Task :
       /\ dpc[k] \in Writing
       /\ mask[DirOf(k)] = "default" \/ tgt[DirOf(k)] \notin {0, dtg[k]}
       => <<"exposed", NameOf(k)>> \in race
  /\ NoEcho

\* As long as nothing is deleted, entries and targets in use stay in place.
NothingDeleted == \A n \in Name : <<"deleted", n>> \notin race
Placed ==
  /\ proc # "ub" /\ pc \notin Removing \cup {"target", "lock"}
  /\ \A k \in Task : dpc[k] # "idle" => dfe[k] \in live
  /\ \A k \in Task : dpc[k] \in Holding \cup {"lock"} => dtg[k] = tgt[DirOf(k)]
  /\ pc \in {"update", "compare", "raise"} => fe \in live
  /\ \A q \in {events, batch} : \A i \in DOMAIN q :
       q[i].kind \in {"create", "modify"} /\ q[i].tid # 0
  /\ \A i \in DOMAIN otab : otab[i].op # FILE_DELETE
  /\ opc = "handle" => tgt[Head(batch).dir] = Head(batch).tid
Safe == NothingDeleted => Placed

-----------------------------------------------------------------------------
(* The watch of a directory that is written.                               *)

\* a download whose writing would be reported, or whose target was replaced
Open(k) == dpc[k] \in Writing /\ (mask[DirOf(k)] = "default" \/ tgt[DirOf(k)] \notin {0, dtg[k]})

\* Where no watch is set to the default mask and no target is replaced.
LEMMA MasksKept ==
  ASSUME Masks, NoEcho', race \subseteq race',
         \A d \in Dir : mask'[d] = "default" =>
           (mask[d] = "default" /\ tgt'[d] = tgt[d]) \/ tgt'[d] # 0,
         \A k \in Task : Open(k)' =>
           \/ <<"exposed", NameOf(k)'>> \in race'
           \/ Open(k) /\ NameOf(k)' = NameOf(k)
  PROVE  Masks'
BY Zenon DEF Masks, Open

\* Downloads that were already writing, with the target that they have.
OnlyOld == \A j \in Task : dpc'[j] \in Writing => dpc[j] \in Writing /\ dtg'[j] = dtg[j]

\* Steps that leave watches and targets alone, or only close them.
LEMMA MasksClosed ==
  ASSUME Types, Masks, NoEcho', KeepNames, race \subseteq race', OnlyOld,
         \A d \in Dir : (mask'[d] = "default" => mask[d] = "default") /\ tgt'[d] = tgt[d]
  PROVE  Masks'
<1>1. ASSUME NEW k \in Task, Open(k)'
      PROVE  Open(k) /\ NameOf(k)' = NameOf(k)
  <2>1. dpc[k] \in Writing /\ dtg'[k] = dtg[k] /\ dpc[k] # "idle"
    BY <1>1, Zenon DEF OnlyOld, Open, Writing
  <2>2. NameOf(k)' = NameOf(k) /\ DirOf(k)' = DirOf(k) /\ DirOf(k) \in Dir
    BY <2>1, NameType, Zenon DEF KeepNames, DirOf
  <2> QED
    BY <1>1, <2>1, <2>2, Zenon DEF Open
<1> QED
  BY <1>1, MasksKept, Zenon

\* Steps that open the watches of D, or give D new targets, and note it.
LEMMA MasksOpened ==
  ASSUME Types, Masks, NoEcho', KeepNames, race \subseteq race', OnlyOld,
         NEW D \in SUBSET Dir, Exposed(D) \subseteq race',
         \A d \in Dir \ D : mask'[d] = mask[d] /\ tgt'[d] = tgt[d],
         \A d \in D : tgt'[d] # 0
  PROVE  Masks'
<1>1. ASSUME NEW k \in Task, Open(k)'
      PROVE  \/ <<"exposed", NameOf(k)'>> \in race'
             \/ Open(k) /\ NameOf(k)' = NameOf(k)
  <2>1. dpc[k] \in Writing /\ dtg'[k] = dtg[k] /\ dpc[k] # "idle"
    BY <1>1, Zenon DEF OnlyOld, Open, Writing
  <2>2. NameOf(k)' = NameOf(k) /\ DirOf(k)' = DirOf(k) /\ DirOf(k) \in Dir
    BY <2>1, NameType, Zenon DEF KeepNames, DirOf
  <2>3. CASE DirOf(k) \in D
    BY <2>1, <2>2, <2>3, Zenon DEF Exposed, DirOf
  <2>4. CASE DirOf(k) \notin D
    BY <1>1, <2>1, <2>2, <2>4, Zenon DEF Open
  <2> QED
    BY <2>3, <2>4, Zenon
<1> QED
  BY <1>1, MasksKept, Zenon

-----------------------------------------------------------------------------
(* The queue of events.                                                    *)

\* an event that the queue or the monitor has, and one that a step adds
Queued(e) == \E q \in {events, batch} : \E i \in DOMAIN q : q[i] = e
Change(e) == e.kind \in {"create", "modify"}
Fresh(e) ==
  /\ ~Change(e) => pc = "remove" \/ <<"deleted", e.name>> \in race'
  /\ Change(e) => mask[e.dir] = "default" /\ e.tid = tgt[e.dir]
  /\ Change(e) /\ e.name \in File =>
       \/ e.by = "peer" /\ \E k \in Task : dpc[k] \in Writing /\ NameOf(k) = e.name /\ DirOf(k) = e.dir
       \/ e.by = "user" /\ edits' = edits + 1 /\ <<e.name, Now + edits'>> \in held'
Queues == \A q \in {events', batch'} : \A i \in DOMAIN q : Queued(q[i]) \/ Fresh(q[i])

\* One more event, or none.
LEMMA QueueEmitted ==
  ASSUME Types, UNCHANGED batch,
         NEW d \in Dir, NEW n, NEW kind, NEW by,
         events' \in {events, Emitted(d, n, kind, by)},
         mask[d] = "default" => Fresh([dir |-> d, tid |-> tgt[d], name |-> n, kind |-> kind, by |-> by])
  PROVE  Queues
<1> DEFINE e == [dir |-> d, tid |-> tgt[d], name |-> n, kind |-> kind, by |-> by]
<1>1. events \in Seq(EventRecord)
  BY Zenon DEF Types, SysOK
<1>2. CASE events' = events
  BY <1>2, Zenon DEF Queues, Queued
<1>3. CASE mask[d] = "default" /\ events' = Append(events, e)
  <2>1. Fresh(e)
    BY <1>3, Zenon
  <2> HIDE DEF e
  <2>2. \A i \in DOMAIN events' : (i \in DOMAIN events /\ events'[i] = events[i]) \/ events'[i] = e
    BY <1>1, <1>3
  <2>3. \A i \in DOMAIN events' : Queued(events'[i]) \/ Fresh(events'[i])
    BY <2>1, <2>2, Zenon DEF Queued
  <2> QED
    BY <2>3, Zenon DEF Queues, Queued
<1> QED
  BY <1>2, <1>3, Zenon DEF Emitted

\* The monitor reads the queue, and works it off.
LEMMA QueueRead ==
  ASSUME Types,
         \/ events' = << >> /\ batch' = events
         \/ UNCHANGED events /\ batch' = batch
         \/ UNCHANGED events /\ batch # << >> /\ batch' = Tail(batch)
  PROVE  Queues
<1>1. events \in Seq(EventRecord) /\ batch \in Seq(EventRecord)
  BY Zenon DEF Types, SysOK, ObsOK
<1>2. CASE events' = << >> /\ batch' = events
  BY <1>2 DEF Queues, Queued
<1>3. CASE UNCHANGED events /\ batch' = batch
  BY <1>3, Zenon DEF Queues, Queued
<1>4. CASE UNCHANGED events /\ batch # << >> /\ batch' = Tail(batch)
  <2>1. \A i \in DOMAIN batch' : i + 1 \in DOMAIN batch /\ batch'[i] = batch[i + 1]
    BY <1>1, <1>4
  <2> QED
    BY <1>4, <2>1, Zenon DEF Queues, Queued
<1> QED
  BY <1>2, <1>3, <1>4, Zenon

\* What is in a sequence that is put together from two.
LEMMA Joined ==
  ASSUME NEW S, NEW s \in Seq(S), NEW t \in Seq(S)
  PROVE  /\ s \o t \in Seq(S)
         /\ \A i \in DOMAIN (s \o t) : \/ i \in DOMAIN s /\ (s \o t)[i] = s[i]
                                       \/ \E j \in DOMAIN t : (s \o t)[i] = t[j]
<1>1. \A i \in DOMAIN (s \o t) : i \notin DOMAIN s => i - Len(s) \in DOMAIN t /\ (s \o t)[i] = t[i - Len(s)]
  OBVIOUS
<1> QED
  BY <1>1

\* file_monitor_rmdir: deletions only.
LEMMA QueueRemoved ==
  ASSUME Types, RemoveDirectory
  PROVE  Queues
<1> DEFINE d == Te.name
           S == {f \in File : In[f] = d /\ Exists(f)}
           event(w, n, kind) ==
             [dir |-> w, tid |-> tgt[w], name |-> n, kind |-> kind, by |-> "peer"]
<1>1. pc = "remove" /\ d \in Dir /\ UNCHANGED batch
  BY Zenon DEF RemoveDirectory, Goto, obsVars
<1>2. d \in Dir \ {Root}
  BY <1>1, TeType, DirAssumption, Zenon DEF Busy, Name
<1>3. PICK q \in [1 .. Cardinality(S) -> S] :
        events' = events
          \o (IF mask[d] = "default" THEN [i \in DOMAIN q |-> event(d, q[i], "delete")] ELSE << >>)
          \o (IF mask[Root] = "default" /\ d \in dirs THEN <<event(Root, d, "delete")>> ELSE << >>)
          \o (IF mask[d] \in {"default", "blocked"} THEN <<event(d, d, "self")>> ELSE << >>)
  BY Zenon DEF RemoveDirectory
<1> DEFINE s1 == IF mask[d] = "default" THEN [i \in DOMAIN q |-> event(d, q[i], "delete")] ELSE << >>
           s2 == IF mask[Root] = "default" /\ d \in dirs THEN <<event(Root, d, "delete")>> ELSE << >>
           s3 == IF mask[d] \in {"default", "blocked"} THEN <<event(d, d, "self")>> ELSE << >>
<1>4. /\ [i \in DOMAIN q |-> event(d, q[i], "delete")] \in Seq(EventRecord)
      /\ <<event(Root, d, "delete")>> \in Seq(EventRecord)
      /\ <<event(d, d, "self")>> \in Seq(EventRecord)
  BY <1>2, RemovedType, Zenon
<1>5. \A w, n : ~Change(event(w, n, "delete")) /\ ~Change(event(w, n, "self"))
  BY Zenon DEF Change
<1>6. \A s \in {s1, s2, s3} : \A j \in DOMAIN s : ~Change(s[j])
  <2> HIDE DEF event
  <2>1. \A j \in DOMAIN s1 : s1[j] = event(d, q[j], "delete")
    OBVIOUS
  <2>2. \A j \in DOMAIN s2 : s2[j] = event(Root, d, "delete")
    OBVIOUS
  <2>3. \A j \in DOMAIN s3 : s3[j] = event(d, d, "self")
    OBVIOUS
  <2> HIDE DEF s1, s2, s3
  <2>4. (\A j \in DOMAIN s1 : ~Change(s1[j])) /\ (\A j \in DOMAIN s2 : ~Change(s2[j]))
    BY <1>5, <2>1, <2>2, Zenon
  <2>5. \A j \in DOMAIN s3 : ~Change(s3[j])
    BY <1>5, <2>3, Zenon
  <2> QED
    BY <2>4, <2>5, Zenon
<1>7. events \in Seq(EventRecord) /\ s1 \in Seq(EventRecord) /\ s2 \in Seq(EventRecord)
      /\ s3 \in Seq(EventRecord)
  BY <1>4, SMTT(30), ZenonT(15) DEF Types, SysOK
<1>8. events' = events \o s1 \o s2 \o s3
  BY <1>3, Zenon
<1> HIDE DEF s1, s2, s3, event, d
<1> DEFINE a == events \o s1
           b == a \o s2
<1>9. /\ a \in Seq(EventRecord)
      /\ \A i \in DOMAIN a : (i \in DOMAIN events /\ a[i] = events[i]) \/ \E j \in DOMAIN s1 : a[i] = s1[j]
  BY <1>7, Joined
<1>10. events' = b \o s3
  BY <1>8, Zenon
<1> HIDE DEF a
<1>11. /\ b \in Seq(EventRecord)
       /\ \A i \in DOMAIN b : (i \in DOMAIN a /\ b[i] = a[i]) \/ \E j \in DOMAIN s2 : b[i] = s2[j]
  BY <1>7, <1>9, Joined
<1> HIDE DEF b
<1>12. \A i \in DOMAIN events' :
         (i \in DOMAIN b /\ events'[i] = b[i]) \/ \E j \in DOMAIN s3 : events'[i] = s3[j]
  BY <1>7, <1>10, <1>11, Joined
<1>13. \A i \in DOMAIN events' : (i \in DOMAIN events /\ events'[i] = events[i]) \/ ~Change(events'[i])
  BY <1>6, <1>9, <1>11, <1>12
<1> QED
  BY <1>1, <1>13, Zenon DEF Queues, Queued, Fresh

\* Every event that a step adds is a deletion or a change in a directory whose
\* watch reports it, by a download that is writing, or by the user.
LEMMA QueueStep ==
  ASSUME Types, [Next]_vars
  PROVE  Queues
<1>a. events \in Seq(EventRecord) /\ edits \in Nat /\ Root \in Dir /\ Editable \subseteq File
  BY DirAssumption, FileAssumption, BoundAssumption DEF Types, SysOK, HistOK
<1>b. CASE UNCHANGED <<events, batch>>
  BY <1>b, QueueRead, Zenon
<1>1. ASSUME NEW k \in Task, DownloadStep(k)
      PROVE  Queues
  <2>1. CASE \/ CutName(k) \/ FindTarget(k) \/ MakeDirectory(k) \/ Block(k) \/ StampFile(k)
             \/ notify_tracker_add_me(k) \/ Unblock(k) \/ UseAfterFree(k)
    BY <1>b, <2>1, Zenon DEF CutName, FindTarget, MakeDirectory, Block, StampFile, notify_tracker_add_me,
         Unblock, UseAfterFree, BlockTarget, UnblockTarget, sysVars, obsVars
  <2>2. CASE OpenFile(k) \/ FetchFile(k)
    <3>1. dpc[k] \in Writing /\ dpc[k] # "idle"
      BY <2>2, Zenon DEF OpenFile, FetchFile, Step, Writing
    <3>2. DirOf(k) \in Dir
      BY <3>1, NameType, Zenon DEF DirOf
    <3>3. PICK kind \in {"create", "modify"} :
            events' \in {events, Emitted(DirOf(k), NameOf(k), kind, "peer")}
      BY <2>2, Zenon DEF OpenFile, FetchFile, DirOf
    <3>4. UNCHANGED batch
      BY <2>2, Zenon DEF OpenFile, FetchFile, obsVars
    <3>5. mask[DirOf(k)] = "default" =>
            Fresh([dir |-> DirOf(k), tid |-> tgt[DirOf(k)], name |-> NameOf(k), kind |-> kind,
                   by |-> "peer"])
      BY <3>1, <3>3, Zenon DEF Fresh, Change
    <3> QED
      BY <3>2, <3>3, <3>4, <3>5, QueueEmitted
  <2>3. CASE OpenDirectory(k)
    <3> DEFINE d == NameOf(k)
    <3>1. UNCHANGED batch /\ d \notin File /\ events' \in {events, Emitted(Root, d, "create", "peer")}
      BY <2>3, DirAssumption, Zenon DEF OpenDirectory, obsVars
    <3>2. mask[Root] = "default" =>
            Fresh([dir |-> Root, tid |-> tgt[Root], name |-> d, kind |-> "create", by |-> "peer"])
      BY <3>1, Zenon DEF Fresh, Change
    <3> QED
      BY <1>a, <3>1, <3>2, QueueEmitted
  <2> QED
    BY <1>1, <2>1, <2>2, <2>3, Zenon DEF DownloadStep
<1>2. CASE MonitorStep
  <2>1. CASE TableEvent \/ LookAtEvent
    <3>1. batch # << >> /\ UNCHANGED events /\ (batch' = batch \/ batch' = Tail(batch))
      BY <2>1, Zenon DEF TableEvent, LookAtEvent, MonitorAt, sysVars, Types, ObsOK
    <3> QED
      BY <3>1, QueueRead, Zenon
  <2>2. CASE ReadEvents
    BY <2>2, QueueRead, Zenon DEF ReadEvents
  <2>3. CASE ~(TableEvent \/ LookAtEvent \/ ReadEvents)
    BY <1>2, <1>b, <2>3, Zenon DEF MonitorStep, WatchTargets, pthread_wait_notify, handle_event, StatEvent,
         MonitorUseAfterFree, SendUpdate, sysVars, obsVars
  <2> QED
    BY <2>1, <2>2, <2>3, Zenon
<1>3. CASE UserStep
  <2>1. ASSUME NEW f \in Editable, UserEdit(f)
        PROVE  Queues
    <3>1. In[f] \in Dir /\ UNCHANGED batch
      BY <1>a, <2>1, InAssumption, Zenon DEF Name, UserEdit, obsVars
    <3>2. PICK kind \in {"create", "modify"} : events' \in {events, Emitted(In[f], f, kind, "user")}
      BY <2>1, Zenon DEF UserEdit
    <3>3. mask[In[f]] = "default" =>
            Fresh([dir |-> In[f], tid |-> tgt[In[f]], name |-> f, kind |-> kind, by |-> "user"])
      <4>1. edits' = edits + 1 /\ Now + edits' = Now + edits + 1 /\ <<f, Now + edits + 1>> \in held'
        BY <1>a, <2>1, BoundAssumption DEF UserEdit
      <4> QED
        BY <3>2, <4>1, Zenon DEF Fresh, Change
    <3> QED
      BY <3>1, <3>2, <3>3, QueueEmitted
  <2>2. ASSUME NEW f \in Editable, UserDelete(f)
        PROVE  Queues
    <3>1. In[f] \in Dir /\ UNCHANGED batch /\ events' = Emitted(In[f], f, "delete", "user")
      BY <1>a, <2>2, InAssumption, Zenon DEF Name, UserDelete, obsVars
    <3>2. Fresh([dir |-> In[f], tid |-> tgt[In[f]], name |-> f, kind |-> "delete", by |-> "user"])
      BY <2>2, Zenon DEF Fresh, Change, UserDelete
    <3> QED
      BY <3>1, <3>2, QueueEmitted
  <2>3. ASSUME NEW d \in Dir \ {Root}, UserMkdir(d)
        PROVE  Queues
    <3>1. UNCHANGED batch /\ events' = Emitted(Root, d, "create", "user") /\ d \notin File
      BY <2>3, DirAssumption, Zenon DEF UserMkdir, obsVars
    <3>2. mask[Root] = "default" =>
            Fresh([dir |-> Root, tid |-> tgt[Root], name |-> d, kind |-> "create", by |-> "user"])
      BY <3>1, Zenon DEF Fresh, Change
    <3> QED
      BY <1>a, <3>1, <3>2, QueueEmitted
  <2> QED
    BY <1>3, <2>1, <2>2, <2>3, Zenon DEF UserStep
<1>4. CASE ReceiverStep
  <2>1. CASE RemoveFile
    <3> DEFINE f == Te.name
    <3>1. pc = "remove" /\ UNCHANGED batch /\ events' \in {events, Emitted(In[f], f, "delete", "peer")}
      BY <2>1, Zenon DEF RemoveFile, Goto, obsVars
    <3>2. In[f] \in Dir
      BY <3>1, TeType, Zenon DEF Busy
    <3>3. Fresh([dir |-> In[f], tid |-> tgt[In[f]], name |-> f, kind |-> "delete", by |-> "peer"])
      BY <3>1, Zenon DEF Fresh, Change
    <3> HIDE DEF f
    <3> QED
      BY <3>1, <3>2, <3>3, QueueEmitted
  <2>2. CASE ~RemoveFile /\ ~RemoveDirectory
    BY <1>4, <1>b, <2>2, Zenon DEF ReceiverStep, pthread_wait_init, pthread_wait_for, Woken, Scan, SendSync,
         RecvSync, Recv, Applied, Find, AddAndFetch, ReplaceOwners, CompareTimestamps, RaiseAndFetch,
         SkipNone, Delete, DeleteTarget, DeleteLock, DirTarget, Unwatch, DeleteUnblock,
         ReceiverUseAfterFree, BlockTarget, UnblockTarget, sysVars, obsVars
  <2> QED
    BY <2>1, <2>2, QueueRemoved, Zenon
<1>5. CASE UNCHANGED vars
  BY <1>b, <1>5, Zenon DEF vars, sysVars, obsVars
<1> QED
  BY <1>1, <1>2, <1>3, <1>4, <1>5, Zenon DEF Next

\* No step queues the report of a download, unless its watch was reset.
LEMMA EchoStep ==
  ASSUME Types, Masks, [Next]_vars
  PROVE  NoEcho'
<1>1. Queues /\ race \subseteq race'
  BY QueueStep, RacesKept, Zenon
<1>2. ASSUME NEW q \in {events', batch'}, NEW i \in DOMAIN q,
             q[i].by = "peer", q[i].kind \in {"create", "modify"}, q[i].name \in File
      PROVE  <<"exposed", q[i].name>> \in race'
  <2>1. CASE Queued(q[i])
    BY <1>1, <1>2, <2>1, Zenon DEF Queued, Masks, NoEcho
  <2>2. CASE Fresh(q[i])
    <3>1. mask[q[i].dir] = "default"
      BY <1>2, <2>2, Zenon DEF Fresh, Change
    <3>2. PICK k \in Task : dpc[k] \in Writing /\ NameOf(k) = q[i].name /\ DirOf(k) = q[i].dir
      BY <1>2, <2>2, Zenon DEF Fresh, Change
    <3> QED
      BY <1>1, <3>1, <3>2, Zenon DEF Masks
  <2> QED
    BY <1>1, <1>2, <2>1, <2>2, Zenon DEF Queues
<1> QED
  BY <1>2, Zenon DEF NoEcho

\* Downloads: file_monitor_block closes the watch, file_monitor_unblock opens it
\* when no other download of the directory is writing.
LEMMA DownloadMasks ==
  ASSUME Types, Locks, Masks, NoEcho', KeepNames, race \subseteq race', NEW k \in Task, DownloadStep(k)
  PROVE  Masks'
<1>a. dpc \in [Task -> Places] /\ dtg \in [Task -> Nat] /\ tgt \in [Dir -> Nat] /\ gen \in [Dir -> Nat]
      /\ mask \in [Dir -> {"none", "default", "blocked", "lost"}] /\ Root \in Dir
  BY DirAssumption, Zenon DEF Types, DlOK, MonOK, SysOK
<1>b. Verdict(-1) = "fail" /\ Verdict(0) = "stamp"
  BY SMTT(40), ZenonT(15) DEF Verdict
<1>1. CASE UseAfterFree(k)
  BY <1>1, MasksClosed, Zenon DEF UseAfterFree, dlVars, monVars, sysVars, OnlyOld
<1>2. CASE \/ CutName(k) \/ FindTarget(k) \/ OpenFile(k) \/ FetchFile(k) \/ StampFile(k)
           \/ notify_tracker_add_me(k)
  <2>1. UNCHANGED <<mask, tgt>>
    BY <1>2, Zenon DEF CutName, FindTarget, OpenFile, FetchFile, StampFile, notify_tracker_add_me,
         monVars, sysVars
  <2>2. OnlyOld
    <3>1. CASE CutName(k) \/ FindTarget(k)
      BY <1>a, <3>1, Zenon DEF CutName, FindTarget, OnlyOld, Step, Writing
    <3>2. CASE OpenFile(k) \/ FetchFile(k)
      <4>1. dpc[k] \in Writing /\ UNCHANGED dtg /\ \E to : dpc' = [dpc EXCEPT ![k] = to]
        BY <3>2, Zenon DEF OpenFile, FetchFile, Step, Writing
      <4> QED
        BY <1>a, <4>1, Zenon DEF OnlyOld
    <3>3. CASE StampFile(k) \/ notify_tracker_add_me(k)
      BY <1>a, <3>3, Zenon DEF StampFile, notify_tracker_add_me, OnlyOld, Step, Writing
    <3> QED
      BY <1>2, <3>1, <3>2, <3>3, Zenon
  <2> QED
    BY <2>1, <2>2, MasksClosed, Zenon
<1>3. CASE MakeDirectory(k)
  <2> DEFINE d == DirOf(k)
  <2>1. dpc[k] = "mkdir" /\ d \in Dir
    BY <1>3, NameType, Zenon DEF MakeDirectory, Step, DirOf
  <2>2. OnlyOld
    BY <1>3, <1>a, Zenon DEF MakeDirectory, Step, OnlyOld, Writing
  <2>3. CASE UNCHANGED <<mask, tgt>>
    BY <2>2, <2>3, MasksClosed, Zenon
  <2>4. CASE ~UNCHANGED <<mask, tgt>>
    <3>1. /\ mask' = [mask EXCEPT ![Root] = "default", ![d] = "default"]
          /\ TargetAdd(d) /\ race' = race \cup Exposed({Root, d}) /\ tgt[Root] # 0
      BY <1>3, <2>4, Zenon DEF MakeDirectory, DirOf
    <3>2. \A c \in {Root, d} : tgt'[c] # 0
      BY <1>a, <2>1, <3>1 DEF TargetAdd
    <3>3. \A c \in Dir \ {Root, d} : mask'[c] = mask[c] /\ tgt'[c] = tgt[c]
      BY <1>a, <3>1, Zenon DEF TargetAdd
    <3> QED
      BY <1>a, <2>1, <2>2, <3>1, <3>2, <3>3, MasksOpened, SMTT(40), ZenonT(15)
  <2> QED
    BY <2>3, <2>4, Zenon
<1>4. CASE OpenDirectory(k)
  <2> DEFINE d == NameOf(k)
  <2>1. dpc[k] = "open" /\ d \in Dir
    BY <1>4, Zenon DEF OpenDirectory, Step
  <2>2. OnlyOld
    BY <1>4, <1>a, Zenon DEF OpenDirectory, Step, OnlyOld, Writing
  <2>3. CASE UNCHANGED <<mask, tgt>>
    BY <2>2, <2>3, MasksClosed, Zenon
  <2>4. CASE ~UNCHANGED <<mask, tgt>>
    <3>1. mask' = [mask EXCEPT ![d] = "default"] /\ TargetAdd(d) /\ race' = race \cup Exposed({d})
      BY <1>4, <2>4, Zenon DEF OpenDirectory
    <3>2. tgt'[d] # 0
      BY <1>a, <2>1, <3>1 DEF TargetAdd
    <3>3. \A c \in Dir \ {d} : mask'[c] = mask[c] /\ tgt'[c] = tgt[c]
      BY <1>a, <3>1, Zenon DEF TargetAdd
    <3> HIDE DEF d
    <3> QED
      BY <1>a, <2>1, <2>2, <3>1, <3>2, <3>3, MasksOpened
  <2> QED
    BY <2>3, <2>4, Zenon
<1>5. CASE Block(k)
  <2> DEFINE d == DirOf(k)
  <2>1. dpc[k] = "lock" /\ d \in Dir /\ NameOf(k)' = NameOf(k) /\ d' = d
    BY <1>5, NameType, Zenon DEF Block, Step, DirOf, KeepNames
  <2>2. /\ UNCHANGED <<tgt, dtg>> /\ tgt[d] = dtg[k] /\ mask' = Watched(d, "blocked")
        /\ dpc' = [dpc EXCEPT ![k] = "open"]
    BY <1>5, Zenon DEF Block, BlockTarget, Step, DirOf
  <2>3. mask'[d] # "default" /\ \A c \in Dir : mask'[c] = "default" => mask[c] = "default"
    BY <1>a, <2>1, <2>2, Zenon DEF Watched
  <2>4. ASSUME NEW j \in Task, Open(j)'
        PROVE  Open(j) /\ NameOf(j)' = NameOf(j)
    <3>1. j # k
      BY <2>1, <2>2, <2>3, <2>4, Zenon DEF Open
    <3>2. dpc[j] \in Writing /\ dpc[j] # "idle"
      BY <1>a, <2>2, <2>4, <3>1, Zenon DEF Open, Writing
    <3>3. NameOf(j)' = NameOf(j) /\ DirOf(j)' = DirOf(j) /\ DirOf(j) \in Dir
      BY <3>2, NameType, Zenon DEF KeepNames, DirOf
    <3> QED
      BY <2>2, <2>3, <2>4, <3>2, <3>3, Zenon DEF Open
  <2> HIDE DEF d
  <2> QED
    BY <2>2, <2>3, <2>4, MasksKept, Zenon
<1>6. CASE Unblock(k)
  <2> DEFINE d == DirOf(k)
  <2>1. dpc[k] \in {"unblock", "fail"} /\ d \in Dir /\ UNCHANGED <<tgt, dtg>> /\ tgt[d] = dtg[k]
        /\ mask' = Watched(d, "default")
    BY <1>6, NameType, Zenon DEF Unblock, UnblockTarget, Step, DirOf
  <2>2. dtg[k] # 0 /\ tmx[d] = k
    BY <2>1, Zenon DEF Locks, Holding
  <2>3. \A c \in Dir \ {d} : mask'[c] = mask[c]
    BY <1>a, <2>1, Zenon DEF Watched
  <2>4. OnlyOld
    BY <1>6, <1>a, Zenon DEF Unblock, Step, OnlyOld, Writing
  <2>5. ASSUME NEW j \in Task, Open(j)'
        PROVE  Open(j) /\ NameOf(j)' = NameOf(j)
    <3>1. dpc[j] \in Writing /\ dpc[j] # "idle" /\ dpc[j] \in Holding /\ j # k
      BY <2>1, <2>4, <2>5, Zenon DEF Open, OnlyOld, Writing, Holding
    <3>2. NameOf(j)' = NameOf(j) /\ DirOf(j)' = DirOf(j) /\ DirOf(j) \in Dir
      BY <3>1, NameType, Zenon DEF KeepNames, DirOf
    <3>3. CASE DirOf(j) = d
      <4>1. dtg[j] # tgt[d]
        BY <2>2, <3>1, <3>3, Zenon DEF Locks
      <4> QED
        BY <2>1, <2>2, <3>1, <3>2, <3>3, <4>1, ZenonT(30) DEF Open
    <3>4. CASE DirOf(j) # d
      BY <2>1, <2>3, <2>5, <3>1, <3>2, <3>4, ZenonT(30) DEF Open
    <3> QED
      BY <3>2, <3>3, <3>4, Zenon
  <2>6. \A c \in Dir : mask'[c] = "default" => (mask[c] = "default" /\ tgt'[c] = tgt[c]) \/ tgt'[c] # 0
    BY <2>1, <2>2, <2>3, Zenon
  <2> HIDE DEF d
  <2> QED
    BY <2>5, <2>6, MasksKept, Zenon
<1> QED
  BY <1>1, <1>2, <1>3, <1>4, <1>5, <1>6, Zenon DEF DownloadStep

\* Every step keeps the watches of what is written closed, or notes a race.
LEMMA MasksStep ==
  ASSUME Types, Boot, Locks, Masks, [Next]_vars
  PROVE  Masks'
<1>a. KeepNames /\ NoEcho' /\ race \subseteq race'
  BY NamesKept, EchoStep, RacesKept, Zenon
<1>b. /\ dpc \in [Task -> Places] /\ tgt \in [Dir -> Nat] /\ gen \in [Dir -> Nat]
      /\ mask \in [Dir -> {"none", "default", "blocked", "lost"}]
  BY Zenon DEF Types, DlOK, MonOK, SysOK
<1>c. ASSUME NEW i, Spawn(i)
      PROVE  OnlyOld
  BY <1>b, <1>c, Zenon DEF Spawn, OnlyOld, Writing
<1>d. UNCHANGED dlVars => OnlyOld
  BY Zenon DEF dlVars, OnlyOld
<1>e. ASSUME OnlyOld, UNCHANGED <<mask, tgt>>
      PROVE  Masks'
  BY <1>a, <1>e, MasksClosed, Zenon
<1>f. ASSUME NEW d \in Dir, FreeTarget(d), UNCHANGED dlVars
      PROVE  Masks'
  <2>1. /\ mask'[d] = "none" /\ tgt'[d] = 0
        /\ \A c \in Dir \ {d} : mask'[c] = mask[c] /\ tgt'[c] = tgt[c]
    BY <1>b, <1>f, Zenon DEF FreeTarget
  <2>2. ASSUME NEW j \in Task, Open(j)'
        PROVE  Open(j) /\ NameOf(j)' = NameOf(j)
    <3>1. dpc[j] \in Writing /\ dpc[j] # "idle" /\ dtg'[j] = dtg[j]
      BY <1>f, <2>2, Zenon DEF Open, Writing, dlVars
    <3>2. NameOf(j)' = NameOf(j) /\ DirOf(j)' = DirOf(j) /\ DirOf(j) \in Dir
      BY <1>a, <3>1, NameType, Zenon DEF KeepNames, DirOf
    <3> QED
      BY <2>1, <2>2, <3>1, <3>2, Zenon DEF Open
  <2>3. \A c \in Dir : mask'[c] = "default" => (mask[c] = "default" /\ tgt'[c] = tgt[c]) \/ tgt'[c] # 0
    BY <2>1, Zenon
  <2> QED
    BY <1>a, <2>2, <2>3, MasksKept, Zenon
<1>1. ASSUME NEW k \in Task, DownloadStep(k)
      PROVE  Masks'
  BY <1>a, <1>1, DownloadMasks, Zenon
<1>2. CASE MonitorStep
  <2>1. UNCHANGED dlVars
    BY <1>2, Zenon DEF MonitorStep, WatchTargets, pthread_wait_notify, ReadEvents, LookAtEvent,
         handle_event, StatEvent, TableEvent, MonitorUseAfterFree, SendUpdate
  <2>2. CASE WatchTargets
    <3>1. \A k \in Task : dpc'[k] = "idle"
      BY <2>1, <2>2, Zenon DEF WatchTargets, MonitorAt, dlVars, Boot
    <3>2. \A c \in Dir : mask'[c] = "default" => (mask[c] = "default" /\ tgt'[c] = tgt[c]) \/ tgt'[c] # 0
      BY <1>b, <2>2 DEF WatchTargets
    <3>3. \A k \in Task : ~Open(k)'
      BY <3>1, Zenon DEF Open, Writing
    <3> QED
      BY <1>a, <3>2, <3>3, MasksKept, Zenon
  <2>3. CASE handle_event
    <3>1. Head(batch).dir \in Dir
      BY <2>3, EventType, Zenon DEF handle_event, MonitorAt, Types, ObsOK
    <3>2. FreeTarget(Head(batch).dir) \/ UNCHANGED <<mask, tgt>>
      BY <2>3, Zenon DEF handle_event, monVars
    <3> QED
      BY <1>d, <1>e, <1>f, <2>1, <3>1, <3>2, Zenon
  <2>4. CASE StatEvent
    <3> DEFINE d == Head(batch).name
    <3>1. CASE UNCHANGED <<mask, tgt>>
      BY <1>d, <1>e, <2>1, <3>1, Zenon
    <3>2. CASE ~UNCHANGED <<mask, tgt>>
      <4>1. d \in Dir /\ mask' = [mask EXCEPT ![d] = "default"] /\ TargetAdd(d)
            /\ race' = race \cup Exposed({d})
        BY <2>4, <3>2, Zenon DEF StatEvent, NewDirectory, Types, SysOK
      <4>2. tgt'[d] # 0
        BY <1>b, <4>1 DEF TargetAdd
      <4>3. \A c \in Dir \ {d} : mask'[c] = mask[c] /\ tgt'[c] = tgt[c]
        BY <1>b, <4>1, Zenon DEF TargetAdd
      <4> HIDE DEF d
      <4> QED
        BY <1>a, <1>d, <2>1, <4>1, <4>2, <4>3, MasksOpened
    <3> QED
      BY <3>1, <3>2, Zenon
  <2>5. CASE ~(WatchTargets \/ handle_event \/ StatEvent)
    <3>1. UNCHANGED <<mask, tgt>>
      BY <1>2, <2>5, Zenon DEF MonitorStep, pthread_wait_notify, ReadEvents, LookAtEvent, TableEvent,
           MonitorUseAfterFree, SendUpdate, monVars, sysVars
    <3> QED
      BY <1>d, <1>e, <2>1, <3>1, Zenon
  <2> QED
    BY <2>2, <2>3, <2>4, <2>5, Zenon
<1>3. CASE UserStep
  <2>1. UNCHANGED <<dlVars, mask, tgt>>
    BY <1>3, Zenon DEF UserStep, UserEdit, UserDelete, UserMkdir, monVars
  <2> QED
    BY <1>d, <1>e, <2>1, Zenon
<1>4. CASE ReceiverStep
  <2>1. CASE AddAndFetch \/ RaiseAndFetch
    BY <1>c, <1>e, <2>1, Zenon DEF AddAndFetch, RaiseAndFetch, monVars, sysVars
  <2>2. CASE DeleteLock
    <3>1. In[Te.name] \in Dir
      BY <2>2, TeType, Zenon DEF DeleteLock, Goto, Busy
    <3>2. UNCHANGED <<dlVars, tgt>> /\ mask' = Watched(In[Te.name], "blocked")
      BY <2>2, Zenon DEF DeleteLock, BlockTarget
    <3>3. \A c \in Dir : mask'[c] = "default" => mask[c] = "default"
      BY <1>b, <3>2, Zenon DEF Watched
    <3> QED
      BY <1>a, <1>d, <3>2, <3>3, MasksClosed, Zenon
  <2>3. CASE RemoveDirectory
    <3>1. UNCHANGED <<dlVars, tgt>> /\ mask' = [mask EXCEPT ![Te.name] = "none"]
      BY <2>3, Zenon DEF RemoveDirectory, monVars
    <3>2. \A c \in Dir : mask'[c] = "default" => mask[c] = "default"
      BY <1>b, <3>1, Zenon
    <3> QED
      BY <1>a, <1>d, <3>1, <3>2, MasksClosed, Zenon
  <2>4. CASE Unwatch
    <3>1. Te.name \in Dir /\ FreeTarget(Te.name) /\ UNCHANGED dlVars
      BY <2>4, Zenon DEF Unwatch, Goto, Types, RcvOK
    <3> QED
      BY <1>f, <3>1, Zenon
  <2>5. CASE DeleteUnblock
    <3> DEFINE d == In[Te.name]
    <3>1. d \in Dir
      BY <2>5, TeType, Zenon DEF DeleteUnblock, Goto, Busy
    <3>2. UNCHANGED <<dlVars, tgt>> /\ tgt[d] = rtg /\ mask' = Watched(d, "default") /\ pc \in Removing
      BY <2>5, Zenon DEF DeleteUnblock, UnblockTarget, Goto, Removing
    <3>3. rtg # 0 /\ tmx[d] = Receiver
      BY <3>2, Zenon DEF Locks
    <3>4. \A c \in Dir \ {d} : mask'[c] = mask[c]
      BY <1>b, <3>2, Zenon DEF Watched
    <3>5. ASSUME NEW j \in Task, Open(j)'
          PROVE  Open(j) /\ NameOf(j)' = NameOf(j)
      <4>1. dpc[j] \in Writing /\ dpc[j] # "idle" /\ dpc[j] \in Holding /\ dtg'[j] = dtg[j]
        BY <3>2, <3>5, Zenon DEF Open, Writing, Holding, dlVars
      <4>2. NameOf(j)' = NameOf(j) /\ DirOf(j)' = DirOf(j) /\ DirOf(j) \in Dir
        BY <1>a, <4>1, NameType, Zenon DEF KeepNames, DirOf
      <4>3. CASE DirOf(j) = d
        <5>1. dtg[j] # tgt[d]
          BY <3>3, <4>1, <4>3, Holders, Zenon DEF Locks
        <5> QED
          BY <3>2, <3>3, <4>1, <4>2, <4>3, <5>1, ZenonT(30) DEF Open
      <4>4. CASE DirOf(j) # d
        BY <3>2, <3>4, <3>5, <4>1, <4>2, <4>4, ZenonT(30) DEF Open
      <4> QED
        BY <4>2, <4>3, <4>4, Zenon
    <3>6. \A c \in Dir : mask'[c] = "default" => (mask[c] = "default" /\ tgt'[c] = tgt[c]) \/ tgt'[c] # 0
      BY <3>2, <3>3, <3>4, ZenonT(30)
    <3> HIDE DEF d
    <3> QED
      BY <1>a, <3>5, <3>6, MasksKept, Zenon
  <2>6. CASE ~(AddAndFetch \/ RaiseAndFetch \/ DeleteLock \/ RemoveDirectory \/ Unwatch \/ DeleteUnblock)
    <3>1. UNCHANGED <<dlVars, mask, tgt>>
      BY <1>4, <2>6, Zenon DEF ReceiverStep, pthread_wait_init, pthread_wait_for, Woken, Scan, SendSync,
           RecvSync, Recv, Applied, Find, ReplaceOwners, CompareTimestamps, SkipNone, Delete,
           DeleteTarget, RemoveFile, DirTarget, ReceiverUseAfterFree, monVars, sysVars
    <3> QED
      BY <1>d, <1>e, <3>1, Zenon
  <2> QED
    BY <2>1, <2>2, <2>3, <2>4, <2>5, <2>6, Zenon
<1>5. CASE UNCHANGED vars
  BY <1>d, <1>e, <1>5, Zenon DEF vars, sysVars, monVars
<1> QED
  BY <1>1, <1>2, <1>3, <1>4, <1>5, Zenon DEF Next

\* What do_download writes is not reported to the monitor as a change of the
\* user's, unless another thread's reset of the watch at that time was noted.
THEOREM ClientNoEcho == Spec => []NoEcho
<1>1. Init => Types /\ Boot /\ Locks /\ Masks
  <2>1. Init => Boot /\ Locks
    BY Zenon DEF Init, Boot, Locks, Holding, Removing
  <2>2. Init => Masks
    BY DEF Init, Masks, NoEcho, Writing
  <2> QED
    BY <2>1, <2>2, InitTypes, Zenon
<1>2. Types /\ Boot /\ Locks /\ Masks /\ [Next]_vars => (Types /\ Boot /\ Locks /\ Masks)'
  BY NextTypes, BootKept, LocksStep, MasksStep, Zenon
<1>3. Masks => NoEcho
  BY Zenon DEF Masks
<1> QED
  BY <1>1, <1>2, <1>3, PTL DEF Spec

-----------------------------------------------------------------------------
(* Nothing that is in use is freed.                                        *)

Waiting == Holding \cup {"lock"}
TargetsStay == \A d \in Dir : tgt[d] # 0 => tgt'[d] = tgt[d]

\* The event at the head of the batch is its first.
LEMMA First ==
  ASSUME NEW S, NEW q \in Seq(S), q # << >>
  PROVE  1 \in DOMAIN q /\ Head(q) = q[1]
  OBVIOUS

\* What a step has to keep, as long as nothing is deleted.
LEMMA PlacedKept ==
  ASSUME Types, Types', Locks, Masks, Placed, KeepNames, Queues, NothingDeleted',
         proc' # "ub", pc' \notin Removing \cup {"target", "lock"},
         \A k \in Task : dpc[k] # "idle" => dfe[k] \in live',
         \A k \in Task : dpc[k] = "idle" /\ dpc'[k] # "idle" => dfe'[k] \in live',
         TargetsStay \/ (opc' # "handle" /\ \A k \in Task : dpc'[k] = "idle"),
         \A k \in Task : dpc'[k] \in Waiting =>
           \/ dpc[k] \in Waiting /\ dtg'[k] = dtg[k]
           \/ dpc[k] # "idle" /\ dtg'[k] = tgt'[DirOf(k)],
         pc' \in {"update", "compare", "raise"} => fe' \in live',
         \A i \in DOMAIN otab' : otab'[i].op # FILE_DELETE,
         opc' = "handle" =>
           (opc = "handle" /\ UNCHANGED batch) \/ tgt'[Head(batch').dir] = Head(batch').tid
  PROVE  Placed'
<1>1. \A k \in Task : dpc'[k] # "idle" => dfe'[k] \in live'
  BY Zenon DEF KeepNames
<1>2. ASSUME NEW k \in Task, dpc'[k] \in Waiting
      PROVE  dtg'[k] = tgt'[DirOf(k)']
  <2>1. dpc[k] # "idle" /\ TargetsStay
    BY <1>2, Zenon DEF Waiting, Holding
  <2>2. DirOf(k)' = DirOf(k) /\ DirOf(k) \in Dir
    BY <2>1, NameType, Zenon DEF KeepNames, DirOf
  <2>3. CASE dpc[k] \in Waiting /\ dtg'[k] = dtg[k]
    <3>1. dtg[k] # 0 /\ dtg[k] = tgt[DirOf(k)]
      BY <2>3, Zenon DEF Locks, Placed, Waiting
    <3> QED
      BY <2>1, <2>2, <2>3, <3>1, Zenon DEF TargetsStay
  <2> QED
    BY <1>2, <2>2, <2>3, Zenon
<1>3. ASSUME NEW q \in {events', batch'}, NEW i \in DOMAIN q
      PROVE  q[i].kind \in {"create", "modify"} /\ q[i].tid # 0
  <2>1. q[i].name \in Name /\ q[i].dir \in Dir
    <3>1. q \in Seq(EventRecord)
      BY Zenon DEF Types, SysOK, ObsOK
    <3>2. q[i] \in EventRecord
      BY <3>1, Element, Zenon
    <3> QED
      BY <3>2, Zenon DEF EventRecord
  <2>2. CASE Queued(q[i])
    BY <2>2, SMTT(40), ZenonT(15) DEF Queued, Placed
  <2>3. CASE Fresh(q[i])
    <3>1. Change(q[i])
      BY <2>1, <2>3, Zenon DEF Fresh, NothingDeleted, Placed, Removing
    <3>2. mask[q[i].dir] = "default" /\ q[i].tid = tgt[q[i].dir]
      BY <2>3, <3>1, Zenon DEF Fresh
    <3> QED
      BY <2>1, <3>1, <3>2, Zenon DEF Masks, Change
  <2> QED
    BY <2>2, <2>3, Zenon DEF Queues
<1>4. opc' = "handle" => tgt'[Head(batch').dir] = Head(batch').tid
  <2>1. CASE opc = "handle" /\ UNCHANGED batch /\ opc' = "handle"
    <3>1. batch # << >> /\ batch \in Seq(EventRecord) /\ Head(batch).dir \in Dir
      BY <2>1, EventType, Zenon DEF Types, ObsOK
    <3>2. 1 \in DOMAIN batch /\ Head(batch) = batch[1]
      BY <3>1, First, Zenon
    <3>3. Head(batch).tid # 0 /\ tgt[Head(batch).dir] = Head(batch).tid
      BY <2>1, <3>2, Zenon DEF Placed
    <3> QED
      BY <2>1, <3>1, <3>3, Zenon DEF TargetsStay
  <2> QED
    BY <2>1, Zenon
<1> QED
  BY <1>1, <1>2, <1>3, <1>4, Zenon DEF Placed, Waiting

\* ptop_download_task only reads entries and targets that are in place.
LEMMA DownloadPlaced ==
  ASSUME Types, Types', Locks, Masks, Placed, KeepNames, Queues, NothingDeleted',
         NEW k \in Task, DownloadStep(k)
  PROVE  Placed'
<1>a. dpc \in [Task -> Places] /\ dtg \in [Task -> Nat] /\ tgt \in [Dir -> Nat]
  BY Zenon DEF Types, DlOK, MonOK
<1>b. Verdict(-1) = "fail" /\ Verdict(0) = "stamp"
  BY DEF Verdict
<1>1. ~UseAfterFree(k)
  BY Zenon DEF UseAfterFree, Placed, Holding, DirOf
<1>2. UNCHANGED <<live, rcvVars, obsVars, dfe, proc>>
  BY <1>1, Zenon DEF DownloadStep, CutName, FindTarget, MakeDirectory, Block, OpenFile, OpenDirectory,
       FetchFile, StampFile, notify_tracker_add_me, Unblock, tabVars
<1>3. TargetsStay
  <2>1. CASE MakeDirectory(k) \/ OpenDirectory(k)
    <3>1. UNCHANGED tgt \/ \E d : TargetAdd(d)
      BY <2>1, Zenon DEF MakeDirectory, OpenDirectory
    <3> QED
      BY <1>a, <3>1, Zenon DEF TargetAdd, TargetsStay
  <2>2. CASE ~(MakeDirectory(k) \/ OpenDirectory(k))
    <3>1. UNCHANGED tgt
      BY <1>1, <2>2, Zenon DEF DownloadStep, CutName, FindTarget, Block, OpenFile, FetchFile, StampFile,
           notify_tracker_add_me, Unblock, BlockTarget, UnblockTarget, monVars
    <3> QED
      BY <3>1, Zenon DEF TargetsStay
  <2> QED
    BY <2>1, <2>2, Zenon
<1>4. /\ dpc[k] # "idle" /\ \E to : dpc' = [dpc EXCEPT ![k] = to]
      /\ \A j \in Task \ {k} : dtg'[j] = dtg[j]
  <2>1. CASE CutName(k) \/ FindTarget(k) \/ MakeDirectory(k) \/ Block(k)
    BY <1>a, <2>1, Zenon DEF CutName, FindTarget, MakeDirectory, Block, Step
  <2>2. CASE OpenFile(k) \/ OpenDirectory(k) \/ FetchFile(k)
    BY <2>2, Zenon DEF OpenFile, OpenDirectory, FetchFile, Step
  <2>3. CASE StampFile(k) \/ notify_tracker_add_me(k) \/ Unblock(k)
    BY <2>3, Zenon DEF StampFile, notify_tracker_add_me, Unblock, Step
  <2> QED
    BY <1>1, <2>1, <2>2, <2>3, Zenon DEF DownloadStep
<1>5. dpc'[k] \in Waiting => \/ dpc[k] \in Waiting /\ dtg'[k] = dtg[k]
                             \/ dtg'[k] = tgt'[DirOf(k)]
  <2>1. CASE CutName(k)
    BY <1>a, <2>1, Zenon DEF CutName, Step, Waiting, Holding
  <2>2. CASE FindTarget(k)
    BY <1>a, <2>2, Zenon DEF FindTarget, DirOf
  <2>3. CASE MakeDirectory(k)
    BY <1>a, <2>3, Zenon DEF MakeDirectory, Step, Waiting, Holding, DirOf
  <2>4. CASE Block(k) \/ StampFile(k) \/ notify_tracker_add_me(k) \/ Unblock(k)
    BY <2>4, Zenon DEF Block, StampFile, notify_tracker_add_me, Unblock, Step, Waiting, Holding
  <2>5. CASE OpenFile(k) \/ OpenDirectory(k) \/ FetchFile(k)
    BY <2>5, Zenon DEF OpenFile, OpenDirectory, FetchFile, Step, Waiting, Holding
  <2> QED
    BY <1>1, <2>1, <2>2, <2>3, <2>4, <2>5, Zenon DEF DownloadStep
<1>6. \A j \in Task : dpc'[j] \in Waiting =>
        \/ dpc[j] \in Waiting /\ dtg'[j] = dtg[j]
        \/ dpc[j] # "idle" /\ dtg'[j] = tgt'[DirOf(j)]
  BY <1>a, <1>4, <1>5, Zenon
<1>7. \A j \in Task : dpc[j] = "idle" => dpc'[j] = "idle"
  BY <1>a, <1>4, Zenon
<1>8. proc' # "ub" /\ pc' \notin Removing \cup {"target", "lock"}
  BY <1>2, Zenon DEF Placed, rcvVars
<1>9. \A j \in Task : dpc[j] # "idle" => dfe[j] \in live'
  BY <1>2, Zenon DEF Placed
<1>10. pc' \in {"update", "compare", "raise"} => fe' \in live'
  BY <1>2, Zenon DEF Placed, rcvVars
<1>11. (\A i \in DOMAIN otab' : otab'[i].op # FILE_DELETE) /\ UNCHANGED <<opc, batch>>
  BY <1>2, Zenon DEF Placed, obsVars
<1> QED
  BY <1>3, <1>6, <1>7, <1>8, <1>9, <1>10, <1>11, PlacedKept, ZenonT(30)

\* The front of a sequence.
LEMMA Cut ==
  ASSUME NEW S, NEW s \in Seq(S), Len(s) - 1 \in Nat
  PROVE  \A i \in DOMAIN SubSeq(s, 1, Len(s) - 1) :
           i \in DOMAIN s /\ i < Len(s) /\ SubSeq(s, 1, Len(s) - 1)[i] = s[i]
<1> DEFINE n == Len(s) - 1
<1>1. n \in Nat /\ n < Len(s) /\ Len(s) \in Nat /\ DOMAIN s = 1 .. Len(s)
  OBVIOUS
<1>2. \A i \in 1 .. n : s[i] \in S
  BY <1>1
<1>3. /\ SubSeq(s, 1, n) \in Seq(S)
      /\ Len(SubSeq(s, 1, n)) = IF 1 <= n THEN n - 1 + 1 ELSE 0
      /\ \A i \in 1 .. n - 1 + 1 : SubSeq(s, 1, n)[i] = s[1 + i - 1]
  BY <1>1, <1>2, SubSeqProperties
<1> DEFINE t == SubSeq(s, 1, n)
<1>4. t \in Seq(S) /\ Len(t) = n /\ \A i \in 1 .. n : t[i] = s[i]
  BY <1>1, <1>3, SMTT(40), ZenonT(15)
<1> HIDE DEF t, n
<1> QED
  BY <1>1, <1>4 DEF t, n

\* file_monitor_task frees nothing unless it is told of a deletion.
LEMMA MonitorPlaced ==
  ASSUME Types, Types', Boot, Locks, Masks, Placed, KeepNames, Queues, NothingDeleted', MonitorStep
  PROVE  Placed'
<1>a. /\ tgt \in [Dir -> Nat] /\ batch \in Seq(EventRecord) /\ otab \in Seq(TransEntry)
  BY Zenon DEF Types, MonOK, ObsOK
<1>b. UNCHANGED <<dlVars, fe>>
  BY Zenon DEF MonitorStep, WatchTargets, pthread_wait_notify, ReadEvents, LookAtEvent,
       handle_event, StatEvent, TableEvent, MonitorUseAfterFree, SendUpdate, rcvVars
<1>c. ASSUME NEW e \in EventRecord, Change(e)
      PROVE  EventEntry(e).op # FILE_DELETE
  BY <1>c, Zenon DEF Change, EventEntry, EventOp, FILE_ADD, FILE_MODIFY, FILE_DELETE
<1>d. opc \in {"handle", "stat", "table"} =>
        Head(batch) \in EventRecord /\ Change(Head(batch)) /\ Head(batch).kind # "self"
  <2>1. ASSUME opc \in {"handle", "stat", "table"}
        PROVE  Head(batch) \in EventRecord /\ 1 \in DOMAIN batch /\ Head(batch) = batch[1]
    BY <1>a, <2>1, EventType DEF Types, ObsOK
  <2> QED
    BY <2>1, Zenon DEF Placed, Change
<1>e. live \subseteq live'
  <2>1. CASE TableEvent
    <3>1. otab[Len(otab)].op # FILE_DELETE /\ otab[Len(otab)] \in TransEntry
      <4>1. otab # << >>
        BY <2>1, Zenon DEF TableEvent, MonitorAt, Types, ObsOK
      <4>2. Len(otab) \in DOMAIN otab
        BY <1>a, <4>1, SMTT(40), ZenonT(15)
      <4> QED
        BY <1>a, <4>2, SMTT(40), ZenonT(15) DEF Placed
    <3>2. (\E i : AddEntry(otab[Len(otab)], i)) \/ UpdateEntry(otab[Len(otab)])
      BY <2>1, <3>1, Zenon DEF TableEvent
    <3> QED
      BY <3>1, <3>2, AddType, UpdateType, Zenon
  <2>2. CASE ~TableEvent
    BY <2>2, Zenon DEF MonitorStep, WatchTargets, pthread_wait_notify, ReadEvents, LookAtEvent,
         handle_event, StatEvent, MonitorUseAfterFree, SendUpdate, tabVars
  <2> QED
    BY <2>1, <2>2, Zenon
<1>f. ~MonitorUseAfterFree
  BY Zenon DEF MonitorUseAfterFree, Placed
<1>1. proc' # "ub"
  <2>1. UNCHANGED proc
    BY <1>d, <1>f, Zenon DEF MonitorStep, WatchTargets, pthread_wait_notify, ReadEvents, LookAtEvent,
         handle_event, StatEvent, TableEvent, SendUpdate, MonitorAt
  <2> QED
    BY <2>1, Zenon DEF Placed
<1>2. pc' = pc \/ pc' = "woken"
  BY Zenon DEF MonitorStep, WatchTargets, pthread_wait_notify, ReadEvents, LookAtEvent,
       handle_event, StatEvent, TableEvent, MonitorUseAfterFree, SendUpdate, rcvVars
<1>3. TargetsStay \/ (opc' # "handle" /\ \A k \in Task : dpc'[k] = "idle")
  <2>1. CASE WatchTargets
    BY <1>b, <2>1, Zenon DEF WatchTargets, MonitorAt, Boot, dlVars
  <2>2. CASE StatEvent
    <3>1. UNCHANGED tgt \/ \E d : TargetAdd(d)
      BY <2>2, Zenon DEF StatEvent
    <3> QED
      BY <1>a, <3>1, Zenon DEF TargetAdd, TargetsStay
  <2>3. CASE ~(WatchTargets \/ StatEvent)
    <3>1. UNCHANGED tgt
      BY <1>d, <1>f, <2>3, Zenon DEF MonitorStep, pthread_wait_notify, ReadEvents, LookAtEvent,
           handle_event, TableEvent, SendUpdate, MonitorAt, monVars
    <3> QED
      BY <3>1, Zenon DEF TargetsStay
  <2> QED
    BY <2>1, <2>2, <2>3, Zenon
<1>4. \A i \in DOMAIN otab' : otab'[i].op # FILE_DELETE
  <2>1. CASE StatEvent
    <3> DEFINE te == EventEntry(Head(batch))
    <3>1. te.op # FILE_DELETE /\ otab' = Append(otab, te)
      BY <1>c, <1>d, <2>1, Zenon DEF StatEvent, MonitorAt
    <3> HIDE DEF te
    <3>2. \A i \in DOMAIN otab' : (i \in DOMAIN otab /\ otab'[i] = otab[i]) \/ otab'[i] = te
      BY <1>a, <3>1, SMTT(40), ZenonT(15)
    <3> QED
      BY <3>1, <3>2, Zenon DEF Placed
  <2>2. CASE TableEvent
    <3>1. otab # << >> /\ otab' \in {otab, SubSeq(otab, 1, Len(otab) - 1)}
      BY <2>2, Zenon DEF TableEvent, MonitorAt, Types, ObsOK
    <3>2. otab' = otab \/ otab' = SubSeq(otab, 1, Len(otab) - 1)
      BY <3>1, Zenon
    <3>3. Len(otab) \in Nat /\ Len(otab) # 0
      BY <1>a, <3>1
    <3>4. Len(otab) - 1 \in Nat
      BY <3>3
    <3>6. \A i \in DOMAIN otab' : i \in DOMAIN otab /\ otab'[i] = otab[i]
      BY <1>a, <3>2, <3>4, Cut, Zenon
    <3> QED
      BY <3>6, Zenon DEF Placed
  <2>3. CASE ~(StatEvent \/ TableEvent)
    <3>1. otab' = otab \/ otab' = << >>
      BY <2>3, Zenon DEF MonitorStep, WatchTargets, pthread_wait_notify, ReadEvents, LookAtEvent,
           handle_event, MonitorUseAfterFree, SendUpdate, obsVars
    <3> QED
      BY <3>1 DEF Placed
  <2> QED
    BY <2>1, <2>2, <2>3, Zenon
<1>5. opc' = "handle" => tgt'[Head(batch').dir] = Head(batch').tid
  BY <1>f, Zenon DEF MonitorStep, WatchTargets, pthread_wait_notify, ReadEvents, LookAtEvent,
       handle_event, StatEvent, TableEvent, SendUpdate, MonitorAt, monVars
<1>6. \A k \in Task : dpc[k] # "idle" => dfe[k] \in live'
  BY <1>e, Zenon DEF Placed
<1>7. /\ \A k \in Task : dpc[k] = "idle" /\ dpc'[k] # "idle" => dfe'[k] \in live'
      /\ \A k \in Task : dpc'[k] \in Waiting => dpc[k] \in Waiting /\ dtg'[k] = dtg[k]
  BY <1>b, Zenon DEF dlVars
<1>8. pc' \notin Removing \cup {"target", "lock"} /\ (pc' \in {"update", "compare", "raise"} => fe' \in live')
  BY <1>b, <1>e, <1>2, Zenon DEF Placed, Removing
<1> QED
  BY <1>1, <1>3, <1>4, <1>5, <1>6, <1>7, <1>8, PlacedKept, Zenon

\* The receiver frees an entry or a target only for a FILE_DELETE.
LEMMA ReceiverPlaced ==
  ASSUME Types, Types', Boot, Locks, Masks, Placed, KeepNames, Queues, NothingDeleted', ReceiverStep
  PROVE  Placed'
<1>a. dpc \in [Task -> Places] /\ dfe \in [Task -> 0 .. Len(ent)]
  BY Zenon DEF Types, DlOK
<1>b. ~Delete
  BY TeType, Zenon DEF Delete, Goto, NothingDeleted
<1>c. /\ ~DeleteTarget /\ ~DeleteLock /\ ~RemoveFile /\ ~RemoveDirectory /\ ~DirTarget /\ ~Unwatch
      /\ ~DeleteUnblock /\ ~ReceiverUseAfterFree
  BY Zenon DEF DeleteTarget, DeleteLock, RemoveFile, RemoveDirectory, DirTarget, Unwatch, DeleteUnblock,
     ReceiverUseAfterFree, Goto, Placed, Removing
<1>d. UNCHANGED <<obsVars, tgt>>
  BY <1>b, <1>c, Zenon DEF ReceiverStep, pthread_wait_init, pthread_wait_for, Woken, Scan, SendSync,
       RecvSync, Recv, Applied, Find, AddAndFetch, ReplaceOwners, CompareTimestamps, RaiseAndFetch,
       SkipNone, monVars
<1>e. proc' # "ub" /\ pc' \notin Removing \cup {"target", "lock"}
  BY <1>b, <1>c, Zenon DEF ReceiverStep, pthread_wait_init, pthread_wait_for, Woken, Scan, SendSync,
       RecvSync, Recv, Applied, Find, AddAndFetch, ReplaceOwners, CompareTimestamps, RaiseAndFetch,
       SkipNone, Goto, Placed, Removing
<1>f. TargetsStay /\ UNCHANGED <<opc, batch, otab>>
  BY <1>d, Zenon DEF TargetsStay, obsVars
<1>g. ASSUME NEW i \in live', Spawn(i)
      PROVE  /\ \A k \in Task : dpc[k] = "idle" /\ dpc'[k] # "idle" => dfe'[k] \in live'
             /\ \A k \in Task : dpc'[k] \in Waiting => dpc[k] \in Waiting /\ dtg'[k] = dtg[k]
  BY <1>a, <1>g, Zenon DEF Spawn, Waiting, Holding
<1>h. ASSUME UNCHANGED dlVars
      PROVE  /\ \A k \in Task : dpc[k] = "idle" /\ dpc'[k] # "idle" => dfe'[k] \in live'
             /\ \A k \in Task : dpc'[k] \in Waiting => dpc[k] \in Waiting /\ dtg'[k] = dtg[k]
  BY <1>h, Zenon DEF dlVars
<1>1. /\ \A k \in Task : dpc[k] = "idle" /\ dpc'[k] # "idle" => dfe'[k] \in live'
      /\ \A k \in Task : dpc'[k] \in Waiting => dpc[k] \in Waiting /\ dtg'[k] = dtg[k]
      /\ \A k \in Task : dpc[k] # "idle" => dfe[k] \in live'
      /\ pc' \in {"update", "compare", "raise"} => fe' \in live'
  <2>1. CASE AddAndFetch
    <3>1. Te \in TransEntry
      BY <2>1, TeType, Zenon DEF AddAndFetch, Goto, Busy
    <3>2. PICK i : AddEntry(Te, i) /\ Spawn(i)
      BY <2>1, Zenon DEF AddAndFetch
    <3>3. live \subseteq live' /\ i \in live'
      BY <3>1, <3>2, AddType, Zenon
    <3>4. pc' = "apply"
      BY <2>1, Zenon DEF AddAndFetch, Goto
    <3> QED
      BY <1>g, <3>2, <3>3, <3>4, Zenon DEF Placed
  <2>2. CASE RaiseAndFetch
    <3>1. UNCHANGED live /\ fe \in live /\ Spawn(fe) /\ pc' = "apply"
      BY <2>2, Zenon DEF RaiseAndFetch, Goto
    <3> QED
      BY <1>g, <3>1, Zenon DEF Placed
  <2>3. CASE Woken
    <3>1. (\A k \in Task : dpc[k] = "idle") /\ pc' \in {"scan", "end"} /\ UNCHANGED dlVars
      BY <2>3, Zenon DEF Woken, Goto, Boot
    <3> QED
      BY <1>h, <3>1, Zenon
  <2>4. CASE Scan
    <3>1. live \subseteq live' /\ pc' = "scan" /\ UNCHANGED dlVars
      BY <2>4, Zenon DEF Scan, Goto
    <3> QED
      BY <1>h, <3>1, Zenon DEF Placed
  <2>5. CASE Find
    <3>1. UNCHANGED <<live, dlVars>> /\ (pc' = "add" \/ (pc' = "update" /\ fe' # 0))
      BY <2>5, Zenon DEF Find, Goto, tabVars
    <3>2. fe' = 0 \/ fe' \in live
      BY <2>5, Zenon DEF Find, Search, Matches
    <3> QED
      BY <1>h, <3>1, <3>2, Zenon DEF Placed
  <2>6. CASE ReplaceOwners \/ CompareTimestamps
    <3>1. UNCHANGED <<live, dlVars, fe>> /\ fe \in live
      BY <2>6, Zenon DEF ReplaceOwners, CompareTimestamps, tabVars
    <3> QED
      BY <1>h, <3>1, Zenon DEF Placed
  <2>7. CASE \/ pthread_wait_init \/ pthread_wait_for \/ SendSync \/ RecvSync \/ Recv \/ Applied
             \/ SkipNone
    <3>1. UNCHANGED <<live, dlVars>> /\ pc' \notin {"update", "compare", "raise"}
      BY <2>7, Zenon DEF pthread_wait_init, pthread_wait_for, SendSync, RecvSync, Recv, Applied, SkipNone,
           Goto, tabVars
    <3> QED
      BY <1>h, <3>1, Zenon DEF Placed
  <2> QED
    BY <1>b, <1>c, <2>1, <2>2, <2>3, <2>4, <2>5, <2>6, <2>7, ZenonT(30) DEF ReceiverStep
<1>2. \A i \in DOMAIN otab' : otab'[i].op # FILE_DELETE
  BY <1>f, Zenon DEF Placed
<1> QED
  BY <1>e, <1>f, <1>1, <1>2, PlacedKept, Zenon

\* Every step keeps what is in use, as long as nothing is deleted.
LEMMA SafeStep ==
  ASSUME Types, Boot, Locks, Masks, Safe, [Next]_vars
  PROVE  Safe'
<1> SUFFICES ASSUME NothingDeleted'
             PROVE  Placed'
  BY Zenon DEF Safe
<1>1. Types' /\ KeepNames /\ Queues /\ race \subseteq race'
  BY NextTypes, NamesKept, QueueStep, RacesKept, Zenon
<1>2. Placed
  BY <1>1, Zenon DEF Safe, NothingDeleted
<1>3. CASE UserStep
  <2>1. UNCHANGED <<live, fe, pc, tgt, dlVars, obsVars, proc>>
    BY <1>3, ZenonT(30) DEF UserStep, UserEdit, UserDelete, UserMkdir, tabVars, monVars, rcvVars
  <2> QED
    BY <1>1, <1>2, <2>1, PlacedKept, Zenon DEF Placed, TargetsStay, dlVars, obsVars
<1>4. CASE UNCHANGED vars
  <2>1. UNCHANGED <<live, fe, pc, tgt, dlVars, obsVars, proc>>
    BY <1>4, Zenon DEF vars, tabVars, monVars, rcvVars
  <2> QED
    BY <1>1, <1>2, <2>1, PlacedKept, Zenon DEF Placed, TargetsStay, dlVars, obsVars
<1> QED
  BY <1>1, <1>2, <1>3, <1>4, DownloadPlaced, MonitorPlaced, ReceiverPlaced, ZenonT(30) DEF Next

\* No thread reads freed memory or a NULL target as long as neither the user nor
\* the tracker deletes anything: freeing is what file_table_delete and
\* unwatch_and_free_target do, and only deletions lead there.
THEOREM ClientSafe == Spec => []SafeUnlessDeleted
<1>1. Init => Types /\ Boot /\ Locks /\ Masks /\ Safe
  <2>1. Init => Boot /\ Locks
    BY Zenon DEF Init, Boot, Locks, Holding, Removing
  <2>2. Init => Masks
    BY DEF Init, Masks, NoEcho, Writing
  <2>3. Init => Safe
    BY ZenonT(15), SMTT(60) DEF Init, Safe, Placed, Holding, Removing
  <2> QED
    BY <2>1, <2>2, <2>3, InitTypes, ZenonT(30)
<1>2. /\ Types /\ Boot /\ Locks /\ Masks /\ Safe /\ [Next]_vars
      => (Types /\ Boot /\ Locks /\ Masks /\ Safe)'
  BY NextTypes, BootKept, LocksStep, MasksStep, SafeStep, Zenon
<1>3. Safe => SafeUnlessDeleted
  BY Zenon DEF Safe, SafeUnlessDeleted, NothingDeleted, Placed
<1> QED
  BY <1>1, <1>2, <1>3, PTL DEF Spec

-----------------------------------------------------------------------------
(* What the monitor has yet to handle.                                     *)

\* before sync_files starts
Booting == {"winit", "waitFor", "waiting", "woken"}

\* an event of f, of one of the kinds, that the monitor has not made an entry of
Awaited(f, kinds) ==
  \/ \E i \in DOMAIN events : events[i].name = f /\ events[i].kind \in kinds
  \/ \E i \in DOMAIN batch :
       batch[i].name = f /\ batch[i].kind \in kinds /\ (i # 1 \/ opc # "table")

\* a download that has come to its good end, or has not started
Over == {"idle", "stamp", "notify", "unblock", "done"}

\* The monitor reads its queue to the end, and nothing before it has targets.
Monitoring ==
  /\ opc = "watch" => \A d \in Dir : mask[d] # "default"
  /\ opc \notin {"look", "handle", "stat", "table"} => batch = << >>

\* Two downloads never write the same file, unless a watch was reset.
Sole ==
  \A j, k \in Task :
    dpc[j] \in Writing /\ dpc[k] \in Writing /\ NameOf(j) = NameOf(k)
      => j = k \/ <<"exposed", NameOf(j)>> \in race

\* No event leaves the queue, or one more is in it.
EventsStay == \A i \in DOMAIN events : i \in DOMAIN events' /\ events'[i] = events[i]

InQueue(f, kind) == \E i \in DOMAIN events : events[i].name = f /\ events[i].kind = kind

\* A file changes on disk by the user, by a deletion, or by its own downloads.
LEMMA DiskOf ==
  ASSUME Types, [Next]_vars, NEW f \in File
  PROVE  \/ disk'[f] = disk[f]
         \/ f \in Editable /\ (UserEdit(f) \/ UserDelete(f))
         \/ RemoveFile /\ Te.name = f
         \/ RemoveDirectory /\ Te.name = In[f]
         \/ \E k \in Task : (OpenFile(k) \/ FetchFile(k) \/ StampFile(k)) /\ NameOf(k) = f
<1>a. disk \in [File -> OnDiskFile] /\ Editable \subseteq File
  BY FileAssumption, Zenon DEF Types, SysOK
<1>1. CASE UNCHANGED disk
  BY <1>1, Zenon
<1>2. ASSUME NEW k \in Task, DownloadStep(k)
      PROVE  disk'[f] = disk[f] \/ ((OpenFile(k) \/ FetchFile(k) \/ StampFile(k)) /\ NameOf(k) = f)
  <2>1. CASE OpenFile(k) \/ FetchFile(k) \/ StampFile(k)
    BY <1>a, <2>1, Zenon DEF OpenFile, FetchFile, StampFile
  <2>2. CASE ~(OpenFile(k) \/ FetchFile(k) \/ StampFile(k))
    BY <1>2, <2>2, ZenonT(30) DEF DownloadStep, CutName, FindTarget, MakeDirectory, Block, OpenDirectory,
         notify_tracker_add_me, Unblock, UseAfterFree, BlockTarget, UnblockTarget, sysVars
  <2> QED
    BY <2>1, <2>2, Zenon
<1>3. CASE MonitorStep
  BY <1>1, <1>3, Zenon DEF MonitorStep, WatchTargets, pthread_wait_notify, ReadEvents, LookAtEvent,
       handle_event, StatEvent, TableEvent, MonitorUseAfterFree, SendUpdate, sysVars
<1>4. CASE UserStep
  <2>1. ASSUME NEW g \in Editable, UserEdit(g) \/ UserDelete(g), g # f
        PROVE  disk'[f] = disk[f]
    BY <1>a, <2>1, Zenon DEF UserEdit, UserDelete
  <2> QED
    BY <1>1, <1>4, <2>1, Zenon DEF UserStep, UserMkdir
<1>5. CASE ReceiverStep
  <2>1. CASE RemoveFile
    BY <1>a, <2>1, Zenon DEF RemoveFile
  <2>2. CASE RemoveDirectory
    BY <1>a, <2>2, Zenon DEF RemoveDirectory
  <2>3. CASE ~(RemoveFile \/ RemoveDirectory)
    BY <1>1, <1>5, <2>3, ZenonT(30) DEF ReceiverStep, pthread_wait_init, pthread_wait_for, Woken, Scan, SendSync,
         RecvSync, Recv, Applied, Find, AddAndFetch, ReplaceOwners, CompareTimestamps, RaiseAndFetch,
         SkipNone, Delete, DeleteTarget, DeleteLock, DirTarget, Unwatch, DeleteUnblock,
         ReceiverUseAfterFree, BlockTarget, UnblockTarget, sysVars
  <2> QED
    BY <2>1, <2>2, <2>3, Zenon
<1>6. CASE UNCHANGED vars
  BY <1>1, <1>6, Zenon DEF vars, sysVars
<1> QED
  BY <1>2, <1>3, <1>4, <1>5, <1>6, ZenonT(30) DEF Next

\* What is in a sequence that gets one more element.
LEMMA OneMore ==
  ASSUME NEW S, NEW q \in Seq(S), NEW x, NEW t, t = Append(q, x)
  PROVE  /\ \A i \in DOMAIN q : i \in DOMAIN t /\ t[i] = q[i]
         /\ Len(t) = Len(q) + 1 /\ Len(t) \in DOMAIN t /\ t[Len(t)] = x
         /\ \A i \in DOMAIN t : (i \in DOMAIN q /\ t[i] = q[i]) \/ t[i] = x
OBVIOUS

\* Only the monitor's own steps move it.
LEMMA Observing ==
  ASSUME [Next]_vars
  PROVE  \/ UNCHANGED obsVars
         \/ WatchTargets \/ pthread_wait_notify \/ ReadEvents \/ LookAtEvent
         \/ handle_event \/ StatEvent \/ TableEvent \/ SendUpdate
<1>1. CASE ReceiverStep
  BY <1>1, ZenonT(30) DEF ReceiverStep, pthread_wait_init, pthread_wait_for, Woken, Scan, SendSync,
       RecvSync, Recv, Applied, Find, AddAndFetch, ReplaceOwners, CompareTimestamps, RaiseAndFetch,
       SkipNone, Delete, DeleteTarget, DeleteLock, RemoveFile, RemoveDirectory, DirTarget, Unwatch,
       DeleteUnblock, ReceiverUseAfterFree
<1>2. CASE MonitorStep
  BY <1>2, Zenon DEF MonitorStep, MonitorUseAfterFree
<1>3. CASE UserStep
  BY <1>3, Zenon DEF UserStep, UserEdit, UserDelete, UserMkdir
<1>4. ASSUME NEW k \in Task, DownloadStep(k)
      PROVE  UNCHANGED obsVars
  BY <1>4, ZenonT(30) DEF DownloadStep, CutName, FindTarget, MakeDirectory, Block, OpenFile, OpenDirectory,
       FetchFile, StampFile, notify_tracker_add_me, Unblock, UseAfterFree
<1> QED
  BY <1>1, <1>2, <1>3, <1>4, Zenon DEF Next, vars

\* The place of the monitor between stat(2) and the table.
LEMMA AtTable ==
  ASSUME [Next]_vars
  PROVE  /\ opc' = "table" => StatEvent \/ UNCHANGED obsVars
         /\ opc = "table" => TableEvent \/ UNCHANGED obsVars
         /\ opc = "table" /\ opc' = "table" => UNCHANGED obsVars
BY Observing, ZenonT(30) DEF WatchTargets, pthread_wait_notify, ReadEvents, LookAtEvent, handle_event, StatEvent,
   TableEvent, SendUpdate, MonitorAt

\* An event of a directory that reports is in the queue.
LEMMA EmittedStay ==
  ASSUME Types, NEW d, NEW n, NEW kind, NEW by, events' = Emitted(d, n, kind, by)
  PROVE  /\ EventsStay
         /\ mask[d] = "default" =>
              \E i \in DOMAIN events' : events'[i].name = n /\ events'[i].kind = kind
<1>1. events \in Seq(EventRecord)
  BY Zenon DEF Types, SysOK
<1>2. CASE mask[d] = "default"
  <2> DEFINE x == [dir |-> d, tid |-> tgt[d], name |-> n, kind |-> kind, by |-> by]
  <2>1. events' = Append(events, x) /\ x.name = n /\ x.kind = kind
    BY <1>2, Zenon DEF Emitted
  <2> HIDE DEF x
  <2>2. /\ \A i \in DOMAIN events : i \in DOMAIN events' /\ events'[i] = events[i]
        /\ Len(events') \in DOMAIN events' /\ events'[Len(events')] = x
    BY <1>1, <2>1, OneMore
  <2> QED
    BY <2>1, <2>2, Zenon DEF EventsStay
<1>3. CASE mask[d] # "default"
  BY <1>3, Zenon DEF Emitted, EventsStay
<1> QED
  BY <1>2, <1>3, Zenon

\* What is in a sequence that another one is added to.
LEMMA Joint ==
  ASSUME NEW S, NEW s \in Seq(S), NEW t \in Seq(S), NEW u, u = s \o t
  PROVE  u \in Seq(S) /\ \A i \in DOMAIN s : i \in DOMAIN u /\ u[i] = s[i]
OBVIOUS

\* ... and its end.
LEMMA JointLast ==
  ASSUME NEW S, NEW s \in Seq(S), NEW t \in Seq(S), NEW u, u = s \o t, NEW j \in DOMAIN t
  PROVE  j + Len(s) \in DOMAIN u /\ u[j + Len(s)] = t[j]
OBVIOUS

\* file_monitor_rmdir: a directory that reports, reports each file in it.
LEMMA RemovedStay ==
  ASSUME Types, RemoveDirectory
  PROVE  /\ EventsStay
         /\ mask[Te.name] = "default" =>
              \A f \in File : In[f] = Te.name /\ Exists(f) => InQueue(f, "delete")'
<1> DEFINE d == Te.name
           S == {f \in File : In[f] = d /\ Exists(f)}
           event(w, n, kind) ==
             [dir |-> w, tid |-> tgt[w], name |-> n, kind |-> kind, by |-> "peer"]
<1>1. pc = "remove" /\ d \in Dir
  BY Zenon DEF RemoveDirectory, Goto
<1>2. d \in Dir \ {Root}
  BY <1>1, TeType, DirAssumption, Zenon DEF Busy, Name
<1>3. PICK q \in [1 .. Cardinality(S) -> S] :
        /\ {q[i] : i \in DOMAIN q} = S
        /\ events' = events
             \o (IF mask[d] = "default" THEN [i \in DOMAIN q |-> event(d, q[i], "delete")] ELSE << >>)
             \o (IF mask[Root] = "default" /\ d \in dirs THEN <<event(Root, d, "delete")>> ELSE << >>)
             \o (IF mask[d] \in {"default", "blocked"} THEN <<event(d, d, "self")>> ELSE << >>)
  BY Zenon DEF RemoveDirectory
<1> DEFINE s1 == IF mask[d] = "default" THEN [i \in DOMAIN q |-> event(d, q[i], "delete")] ELSE << >>
           s2 == IF mask[Root] = "default" /\ d \in dirs THEN <<event(Root, d, "delete")>> ELSE << >>
           s3 == IF mask[d] \in {"default", "blocked"} THEN <<event(d, d, "self")>> ELSE << >>
<1>4. /\ [i \in DOMAIN q |-> event(d, q[i], "delete")] \in Seq(EventRecord)
      /\ <<event(Root, d, "delete")>> \in Seq(EventRecord)
      /\ <<event(d, d, "self")>> \in Seq(EventRecord)
  BY <1>2, <1>3, RemovedType, Zenon
<1>5. events \in Seq(EventRecord) /\ s1 \in Seq(EventRecord) /\ s2 \in Seq(EventRecord)
      /\ s3 \in Seq(EventRecord)
  <2>1. << >> \in Seq(EventRecord)
    OBVIOUS
  <2> QED
    BY <1>4, <2>1, Zenon DEF Types, SysOK
<1>6. \A w, n : event(w, n, "delete").name = n /\ event(w, n, "delete").kind = "delete"
  BY Zenon
<1>7. events' = events \o s1 \o s2 \o s3
  BY <1>3, Zenon
<1>8. ASSUME mask[d] = "default", NEW f \in S
      PROVE  \E j \in DOMAIN s1 : s1[j].name = f /\ s1[j].kind = "delete"
  <2>1. s1 = [i \in DOMAIN q |-> event(d, q[i], "delete")]
    BY <1>8, Zenon
  <2> HIDE DEF s1, event
  <2>2. PICK j \in DOMAIN q : q[j] = f
    BY <1>3, <1>8, Zenon
  <2>3. j \in DOMAIN s1 /\ s1[j] = event(d, q[j], "delete")
    BY <2>1, <2>2, Zenon
  <2> QED
    BY <1>6, <2>2, <2>3
<1> HIDE DEF s1, s2, s3, event, S
<1> DEFINE a == events \o s1
           b == a \o s2
<1>10. events' = b \o s3 /\ a = events \o s1 /\ b = a \o s2
  BY <1>7, Zenon
<1> HIDE DEF a, b
<1>9. /\ a \in Seq(EventRecord)
      /\ \A i \in DOMAIN events : i \in DOMAIN a /\ a[i] = events[i]
  BY <1>5, <1>10, Joint
<1>15. ASSUME NEW j \in DOMAIN s1
       PROVE  \E i \in DOMAIN a : a[i] = s1[j]
  <2>1. j + Len(events) \in DOMAIN a /\ a[j + Len(events)] = s1[j]
    BY <1>5, <1>10, JointLast
  <2> QED
    BY <2>1, Zenon
<1>11. b \in Seq(EventRecord) /\ \A i \in DOMAIN a : i \in DOMAIN b /\ b[i] = a[i]
  BY <1>5, <1>9, <1>10, Joint
<1>12. \A i \in DOMAIN b : i \in DOMAIN events' /\ events'[i] = b[i]
  BY <1>5, <1>10, <1>11, Joint
<1>13. EventsStay
  BY <1>9, <1>11, <1>12, Zenon DEF EventsStay
<1>14. ASSUME mask[d] = "default", NEW f \in File, In[f] = d, Exists(f)
       PROVE  InQueue(f, "delete")'
  <2>0. f \in S
    BY <1>14, Zenon DEF S
  <2>1. PICK j \in DOMAIN s1 : s1[j].name = f /\ s1[j].kind = "delete"
    BY <1>8, <1>14, <2>0, Zenon
  <2>2. \E i \in DOMAIN events' : events'[i] = s1[j]
    BY <1>11, <1>12, <1>15, <2>1, Zenon
  <2> QED
    BY <2>1, <2>2, Zenon DEF InQueue
<1> QED
  BY <1>13, <1>14, Zenon

\* What is left of a sequence without its first element.
LEMMA Rest ==
  ASSUME NEW S, NEW q \in Seq(S), q # << >>, NEW t, t = Tail(q), NEW i \in DOMAIN q, i # 1
  PROVE  i - 1 \in DOMAIN t /\ t[i - 1] = q[i]
OBVIOUS

\* Only read(2) takes events out of the queue.
LEMMA EventsKeep ==
  ASSUME Types, [Next]_vars
  PROVE  ReadEvents \/ EventsStay
<1>b. UNCHANGED events => EventsStay
  BY Zenon DEF EventsStay
<1>1. ASSUME NEW k \in Task, DownloadStep(k)
      PROVE  EventsStay
  <2>1. CASE \/ CutName(k) \/ FindTarget(k) \/ MakeDirectory(k) \/ Block(k) \/ StampFile(k)
             \/ notify_tracker_add_me(k) \/ Unblock(k) \/ UseAfterFree(k)
    BY <1>b, <2>1, Zenon DEF CutName, FindTarget, MakeDirectory, Block, StampFile, notify_tracker_add_me,
         Unblock, UseAfterFree, BlockTarget, UnblockTarget, sysVars
  <2>2. CASE OpenFile(k) \/ FetchFile(k)
    <3>1. UNCHANGED events \/ \E kind : events' = Emitted(In[NameOf(k)], NameOf(k), kind, "peer")
      BY <2>2, Zenon DEF OpenFile, FetchFile
    <3> QED
      BY <1>b, <3>1, EmittedStay, Zenon
  <2>3. CASE OpenDirectory(k)
    <3>1. UNCHANGED events \/ events' = Emitted(Root, NameOf(k), "create", "peer")
      BY <2>3, Zenon DEF OpenDirectory
    <3> QED
      BY <1>b, <3>1, EmittedStay, Zenon
  <2> QED
    BY <1>1, <2>1, <2>2, <2>3, Zenon DEF DownloadStep
<1>2. CASE MonitorStep
  BY <1>b, <1>2, Zenon DEF MonitorStep, WatchTargets, pthread_wait_notify, LookAtEvent, handle_event, StatEvent,
       TableEvent, MonitorUseAfterFree, SendUpdate, sysVars
<1>3. CASE UserStep
  <2>1. ASSUME NEW f, UserEdit(f) \/ UserDelete(f)
        PROVE  EventsStay
    <3>1. \E kind : events' = Emitted(In[f], f, kind, "user")
      BY <2>1, Zenon DEF UserEdit, UserDelete
    <3> QED
      BY <1>b, <3>1, EmittedStay, Zenon
  <2>2. ASSUME NEW d, UserMkdir(d)
        PROVE  EventsStay
    <3>1. UNCHANGED events \/ events' = Emitted(Root, d, "create", "user")
      BY <2>2, Zenon DEF UserMkdir
    <3> QED
      BY <1>b, <3>1, EmittedStay, Zenon
  <2> QED
    BY <1>3, <2>1, <2>2, Zenon DEF UserStep
<1>4. CASE ReceiverStep
  <2>1. CASE RemoveFile
    <3>1. UNCHANGED events \/ events' = Emitted(In[Te.name], Te.name, "delete", "peer")
      BY <2>1, Zenon DEF RemoveFile
    <3> QED
      BY <1>b, <3>1, EmittedStay, Zenon
  <2>2. CASE ~RemoveFile /\ ~RemoveDirectory
    BY <1>4, <1>b, <2>2, Zenon DEF ReceiverStep, pthread_wait_init, pthread_wait_for, Woken, Scan, SendSync,
         RecvSync, Recv, Applied, Find, AddAndFetch, ReplaceOwners, CompareTimestamps, RaiseAndFetch,
         SkipNone, Delete, DeleteTarget, DeleteLock, DirTarget, Unwatch, DeleteUnblock,
         ReceiverUseAfterFree, BlockTarget, UnblockTarget, sysVars
  <2> QED
    BY <2>1, <2>2, RemovedStay, Zenon
<1>5. CASE UNCHANGED vars
  BY <1>b, <1>5, Zenon DEF vars, sysVars
<1> QED
  BY <1>1, <1>2, <1>3, <1>4, <1>5, Zenon DEF Next

\* An event is awaited until the monitor makes an entry of it, or skips it.
LEMMA AwaitedStep ==
  ASSUME Types, Monitoring, [Next]_vars, NEW f, NEW kinds, Awaited(f, kinds)
  PROVE  \/ Awaited(f, kinds)' \/ <<"skipped", f>> \in race'
         \/ StatEvent /\ Head(batch).name = f /\ Head(batch).kind \in kinds
<1>a. batch \in Seq(EventRecord)
  BY Zenon DEF Types, ObsOK
<1>1. CASE ReadEvents
  <2>1. batch = << >> /\ batch' = events /\ opc' = "look"
    BY <1>1, Zenon DEF ReadEvents, MonitorAt, Monitoring
  <2>2. DOMAIN batch = {}
    BY <2>1
  <2>3. \E i \in DOMAIN events : events[i].name = f /\ events[i].kind \in kinds
    BY <2>2, Zenon DEF Awaited
  <2> QED
    BY <2>1, <2>3, Zenon DEF Awaited
<1>2. CASE ~ReadEvents
  <2>1. EventsStay
    BY <1>2, EventsKeep, Zenon
  <2>2. CASE \E i \in DOMAIN events : events[i].name = f /\ events[i].kind \in kinds
    BY <2>1, <2>2, Zenon DEF EventsStay, Awaited
  <2>3. ASSUME NEW i \in DOMAIN batch, batch[i].name = f, batch[i].kind \in kinds, i # 1 \/ opc # "table"
        PROVE  \/ Awaited(f, kinds)' \/ <<"skipped", f>> \in race'
               \/ StatEvent /\ Head(batch).name = f /\ Head(batch).kind \in kinds
    <3>a. batch # << >>
      BY <1>a, <2>3
    <3>b. Head(batch) = batch[1]
      BY <1>a, <3>a, First, Zenon
    <3>1. CASE UNCHANGED batch /\ (opc' # "table" \/ i # 1)
      BY <2>3, <3>1, Zenon DEF Awaited
    <3>2. CASE batch' = Tail(batch) /\ opc' = "look"
      <4>1. CASE i # 1
        <5>1. i - 1 \in DOMAIN batch' /\ batch'[i - 1] = batch[i]
          BY <1>a, <2>3, <3>a, <3>2, <4>1, Rest
        <5> QED
          BY <2>3, <3>2, <5>1, Zenon DEF Awaited
      <4>2. CASE i = 1
        <5>1. LookAtEvent \/ TableEvent
          <6>1. batch' # batch
            BY <1>a, <3>a, <3>2
          <6> QED
            BY <1>2, <6>1, Observing, ZenonT(30) DEF WatchTargets, pthread_wait_notify, handle_event,
               StatEvent, SendUpdate, obsVars
        <5>2. ~TableEvent
          BY <2>3, <4>2, Zenon DEF TableEvent, MonitorAt
        <5>3. tgt[Head(batch).dir] # Head(batch).tid
          <6>1. batch' # batch
            BY <1>a, <3>a, <3>2
          <6> QED
            BY <5>1, <5>2, <6>1, Zenon DEF LookAtEvent
        <5>4. <<"skipped", Head(batch).name>> \in race'
          BY <5>1, <5>2, <5>3, Zenon DEF LookAtEvent
        <5> QED
          BY <2>3, <3>b, <4>2, <5>4, Zenon
      <4> QED
        BY <4>1, <4>2, Zenon
    <3>3. CASE StatEvent
      <4>1. UNCHANGED batch
        BY <3>3, Zenon DEF StatEvent
      <4> QED
        BY <2>3, <3>b, <3>1, <3>3, <4>1, Zenon
    <3>4. CASE UNCHANGED obsVars
      BY <2>3, <3>1, <3>4, Zenon DEF obsVars
    <3> QED
      BY <1>2, <3>a, <3>1, <3>2, <3>3, <3>4, Observing, ZenonT(30) DEF WatchTargets, pthread_wait_notify,
         LookAtEvent, handle_event, TableEvent, SendUpdate, MonitorAt
  <2> QED
    BY <2>2, <2>3, Zenon DEF Awaited
<1> QED
  BY <1>1, <1>2, Zenon

\* Nothing but the monitor and the user does anything then.
LEMMA BootSteps ==
  ASSUME Boot, [Next]_vars, pc' \in Booting
  PROVE  /\ pc \in Booting
         /\ MonitorStep \/ UserStep \/ UNCHANGED <<tabVars, monVars, sysVars, obsVars, dlVars, race>>
<1>1. CASE ReceiverStep
  <2>1. pthread_wait_init \/ pthread_wait_for \/ ReceiverUseAfterFree
    BY <1>1, ZenonT(30) DEF Booting, ReceiverStep, Woken, Scan, SendSync,
       RecvSync, Recv, Applied, Find, AddAndFetch, ReplaceOwners, CompareTimestamps, RaiseAndFetch,
       SkipNone, Delete, DeleteTarget, DeleteLock, RemoveFile, RemoveDirectory, DirTarget, Unwatch,
       DeleteUnblock, Goto
  <2> QED
    BY <2>1, Zenon DEF pthread_wait_init, pthread_wait_for, ReceiverUseAfterFree, Booting, Goto, rcvVars, histVars
<1>2. CASE MonitorStep
  BY <1>2, ZenonT(30) DEF MonitorStep, WatchTargets, pthread_wait_notify, ReadEvents, LookAtEvent, handle_event,
       StatEvent, TableEvent, MonitorUseAfterFree, SendUpdate, rcvVars, Booting
<1>3. CASE UserStep
  BY <1>3, Zenon DEF UserStep, UserEdit, UserDelete, UserMkdir, rcvVars
<1>4. ASSUME NEW k \in Task, DownloadStep(k)
      PROVE  FALSE
  <2>1. UNCHANGED pc /\ dpc[k] # "idle"
    BY <1>4, ZenonT(30) DEF DownloadStep, CutName, FindTarget, MakeDirectory, Block, OpenFile, OpenDirectory,
         FetchFile, StampFile, notify_tracker_add_me, Unblock, UseAfterFree, Step, rcvVars
  <2> QED
    BY <2>1, Zenon DEF Boot, Booting
<1>5. CASE UNCHANGED vars
  BY <1>5, Zenon DEF vars, rcvVars, histVars
<1> QED
  BY <1>1, <1>2, <1>3, <1>4, <1>5, Zenon DEF Next

\* The monitor gets its targets in one step, and reads its queue to the end.
LEMMA MonitoringStep ==
  ASSUME Types, Boot, Boot', Monitoring, [Next]_vars
  PROVE  Monitoring'
<1>1. ASSUME opc' = "watch", NEW d \in Dir
      PROVE  mask'[d] # "default"
  <2>1. UNCHANGED obsVars /\ opc = "watch"
    BY <1>1, Observing, ZenonT(30) DEF WatchTargets, pthread_wait_notify, ReadEvents, LookAtEvent,
       handle_event, StatEvent, TableEvent, SendUpdate, MonitorAt, obsVars
  <2>2. pc' \in Booting
    BY <1>1, Zenon DEF Boot, Booting
  <2>3. ~MonitorStep
    BY <1>1, <2>1, ZenonT(30) DEF MonitorStep, WatchTargets, pthread_wait_notify, ReadEvents, LookAtEvent,
       handle_event, StatEvent, TableEvent, SendUpdate, MonitorAt, MonitorUseAfterFree
  <2>4. UNCHANGED mask
    BY <2>2, <2>3, BootSteps, Zenon DEF UserStep, UserEdit, UserDelete, UserMkdir, sysVars
  <2> QED
    BY <2>1, <2>4, Zenon DEF Monitoring
<1>2. ASSUME opc' \notin {"look", "handle", "stat", "table"}
      PROVE  batch' = << >>
  BY <1>2, Observing, ZenonT(30) DEF Monitoring, WatchTargets, pthread_wait_notify, ReadEvents, LookAtEvent,
     handle_event, StatEvent, TableEvent, SendUpdate, MonitorAt, obsVars
<1> QED
  BY <1>1, <1>2, Zenon DEF Monitoring

-----------------------------------------------------------------------------
(* Where downloads can go.                                                 *)

\* Where a download can go.
LEMMA Moves ==
  ASSUME Types, [Next]_vars, NEW k \in Task
  PROVE  \/ dpc'[k] = dpc[k] /\ dver'[k] = dver[k]
         \/ OpenFile(k) \/ OpenDirectory(k) \/ FetchFile(k) \/ Block(k)
         \/ dpc[k] = "idle" /\ dpc'[k] = "name"
         \/ dpc[k] \notin Over \cup Writing /\ dpc'[k] \notin Over \cup Writing
         \/ dpc[k] \in Over \ {"idle"} /\ dpc'[k] \in Over
<1>a. dpc \in [Task -> Places] /\ dver \in [Task -> Nat]
  BY Zenon DEF Types, DlOK
<1>b. CASE UNCHANGED <<dpc, dver>>
  BY <1>b, Zenon
<1>1. CASE DownloadStep(k)
  <2>1. CASE CutName(k) \/ FindTarget(k) \/ MakeDirectory(k)
    <3>1. \E from \in {"name", "found", "mkdir"} : \E to \in {"found", "mkdir", "lock", "failed"} : Step(k, from, to)
      BY <2>1, Zenon DEF CutName, FindTarget, MakeDirectory
    <3> QED
      BY <1>a, <3>1, ZenonT(30) DEF Step, Over, Writing
  <2>2. CASE StampFile(k) \/ notify_tracker_add_me(k)
    <3>1. \E from \in {"stamp", "notify"} : \E to \in {"notify", "unblock"} : Step(k, from, to)
      BY <2>2, Zenon DEF StampFile, notify_tracker_add_me
    <3> QED
      BY <1>a, <3>1, ZenonT(30) DEF Step, Over, Writing
  <2>3. CASE Unblock(k)
    BY <1>a, <2>3, ZenonT(30) DEF Unblock, Step, Over, Writing
  <2>4. CASE UseAfterFree(k)
    BY <1>b, <2>4, Zenon DEF UseAfterFree, dlVars
  <2> QED
    BY <1>1, <2>1, <2>2, <2>3, <2>4, Zenon DEF DownloadStep
<1>2. ASSUME NEW j \in Task, DownloadStep(j), j # k
      PROVE  dpc'[k] = dpc[k] /\ dver'[k] = dver[k]
  <2>1. UNCHANGED dpc \/ \E from, to : Step(j, from, to)
    BY <1>2, ZenonT(30) DEF DownloadStep, CutName, FindTarget, MakeDirectory, Block, OpenFile, OpenDirectory,
         FetchFile, StampFile, notify_tracker_add_me, Unblock, UseAfterFree, dlVars
  <2>2. UNCHANGED dver \/ \E v : dver' = [dver EXCEPT ![j] = v]
    BY <1>2, ZenonT(30) DEF DownloadStep, CutName, FindTarget, MakeDirectory, Block, OpenFile, OpenDirectory,
         FetchFile, StampFile, notify_tracker_add_me, Unblock, UseAfterFree, dlVars
  <2> QED
    BY <1>a, <1>2, <2>1, <2>2, Zenon DEF Step
<1>3. ASSUME NEW i, Spawn(i)
      PROVE  (dpc'[k] = dpc[k] /\ dver'[k] = dver[k]) \/ (dpc[k] = "idle" /\ dpc'[k] = "name")
  <2>1. PICK j \in Task : dpc[j] = "idle" /\ dpc' = [dpc EXCEPT ![j] = "name"] /\ UNCHANGED dver
    BY <1>3, Zenon DEF Spawn
  <2>2. CASE j = k
    BY <1>a, <2>1, <2>2
  <2>3. CASE j # k
    BY <1>a, <2>1, <2>3, Zenon
  <2> QED
    BY <2>2, <2>3, Zenon
<1>4. CASE ReceiverStep
  BY <1>b, <1>3, <1>4, ZenonT(30) DEF ReceiverStep, pthread_wait_init, pthread_wait_for, Woken, Scan, SendSync,
       RecvSync, Recv, Applied, Find, AddAndFetch, ReplaceOwners, CompareTimestamps, RaiseAndFetch,
       SkipNone, Delete, DeleteTarget, DeleteLock, RemoveFile, RemoveDirectory, DirTarget, Unwatch,
       DeleteUnblock, ReceiverUseAfterFree, dlVars
<1>5. CASE MonitorStep
  BY <1>b, <1>5, Zenon DEF MonitorStep, WatchTargets, pthread_wait_notify, ReadEvents, LookAtEvent,
       handle_event, StatEvent, TableEvent, MonitorUseAfterFree, SendUpdate, dlVars
<1>6. CASE UserStep
  BY <1>b, <1>6, Zenon DEF UserStep, UserEdit, UserDelete, UserMkdir, dlVars
<1>7. CASE UNCHANGED vars
  BY <1>b, <1>7, Zenon DEF vars, dlVars
<1> QED
  BY <1>1, <1>2, <1>4, <1>5, <1>6, <1>7, Zenon DEF Next

\* file_monitor_block lets one download of a file in.
LEMMA SoleStep ==
  ASSUME Types, Locks, Masks, Sole, [Next]_vars
  PROVE  Sole'
<1>a. KeepNames /\ race \subseteq race'
  BY NamesKept, RacesKept, Zenon
<1>1. ASSUME NEW j \in Task, NEW k \in Task, j # k, Block(k), dpc[j] \in Writing, NameOf(j) = NameOf(k)
      PROVE  <<"exposed", NameOf(j)>> \in race
  <2> DEFINE d == DirOf(j)
  <2>1. dpc[k] = "lock" /\ tgt[d] = dtg[k] /\ tmx[d] = Nobody
    BY <1>1, Zenon DEF Block, BlockTarget, Step, DirOf
  <2>2. dtg[k] # 0
    BY <2>1, Zenon DEF Locks
  <2>3. dpc[j] \in Holding
    BY <1>1, Zenon DEF Writing, Holding
  <2>4. CASE tgt[d] = dtg[j]
    <3>1. tmx[d] = j
      BY <2>3, <2>4, Zenon DEF Locks
    <3> QED
      BY <2>1, <3>1, Holders, Zenon
  <2>5. CASE tgt[d] # dtg[j]
    BY <1>1, <2>1, <2>2, <2>5, Zenon DEF Masks
  <2> QED
    BY <2>4, <2>5, Zenon
<1>2. ASSUME NEW k \in Task, dpc'[k] \in Writing
      PROVE  Block(k) \/ (dpc[k] \in Writing /\ dpc[k] # "idle")
  <2>1. OpenFile(k) => dpc[k] = "open"
    BY Zenon DEF OpenFile, Step
  <2>2. OpenDirectory(k) => dpc[k] = "open"
    BY Zenon DEF OpenDirectory, Step
  <2>3. FetchFile(k) => dpc[k] = "fetch"
    BY Zenon DEF FetchFile, Step
  <2> QED
    BY <1>2, <2>1, <2>2, <2>3, Moves, ZenonT(30) DEF Over, Writing
<1>3. ASSUME NEW k \in Task, Block(k), NEW j \in Task, j # k
      PROVE  dpc'[j] = dpc[j]
  BY <1>3, Zenon DEF Block, Step, Types, DlOK
<1>4. \A k \in Task : dpc[k] # "idle" => NameOf(k)' = NameOf(k)
  BY <1>a, Zenon DEF KeepNames
<1>5. ASSUME NEW j \in Task, NEW k \in Task, dpc'[j] \in Writing, dpc'[k] \in Writing,
             NameOf(j)' = NameOf(k)', j # k
      PROVE  <<"exposed", NameOf(j)'>> \in race'
  <2>1. \A i \in {j, k} : Block(i) => dpc[i] # "idle"
    BY Zenon DEF Block, Step
  <2>2. NameOf(j)' = NameOf(j) /\ NameOf(k)' = NameOf(k)
    BY <1>2, <1>4, <1>5, <2>1, Zenon
  <2>3. CASE dpc[j] \in Writing /\ dpc[k] \in Writing
    BY <1>a, <1>5, <2>2, <2>3, Zenon DEF Sole
  <2>4. CASE Block(k)
    BY <1>a, <1>1, <1>3, <1>5, <2>2, <2>4, Zenon
  <2>5. CASE Block(j)
    BY <1>a, <1>1, <1>3, <1>5, <2>2, <2>5, Zenon
  <2> QED
    BY <1>2, <1>5, <2>3, <2>4, <2>5, Zenon
<1> QED
  BY <1>5, Zenon DEF Sole

\* an event of a file is in a directory that reports
Heard(e) == e.kind # "self" /\ (e.name \in File => mask[In[e.name]] = "default")

\* What the monitor reads was in the queue.
LEMMA Older ==
  ASSUME Types, MonitorStep
  PROVE  \A q \in {events', batch'} : \A i \in DOMAIN q : Queued(q[i])
<1>1. events \in Seq(EventRecord) /\ batch \in Seq(EventRecord)
  BY Zenon DEF Types, SysOK, ObsOK
<1>2. CASE ReadEvents
  <2>1. events' = << >> /\ batch' = events
    BY <1>2, Zenon DEF ReadEvents
  <2>2. DOMAIN events' = {}
    BY <2>1
  <2> QED
    BY <2>1, <2>2, Zenon DEF Queued
<1>3. CASE UNCHANGED <<events, batch>>
  BY <1>3, Zenon DEF Queued
<1>4. CASE UNCHANGED events /\ batch # << >> /\ batch' = Tail(batch)
  <2>1. \A i \in DOMAIN batch' : i + 1 \in DOMAIN batch /\ batch'[i] = batch[i + 1]
    BY <1>1, <1>4
  <2> QED
    BY <1>4, <2>1, Zenon DEF Queued
<1> QED
  BY <1>2, <1>3, <1>4, ZenonT(30) DEF MonitorStep, WatchTargets, pthread_wait_notify, LookAtEvent, handle_event,
     StatEvent, TableEvent, MonitorUseAfterFree, SendUpdate, MonitorAt, sysVars, obsVars, Types, ObsOK

\* The user's changes are the only new events.
LEMMA BootEvents ==
  ASSUME Types, Boot, [Next]_vars, pc' \in Booting
  PROVE  \A q \in {events', batch'} : \A i \in DOMAIN q : Queued(q[i]) \/ Heard(q[i])
<1>a. events \in Seq(EventRecord)
  BY Zenon DEF Types, SysOK
<1>1. CASE UNCHANGED <<events, batch>>
  BY <1>1, Zenon DEF Queued
<1>2. CASE UserStep
  <2>1. UNCHANGED batch
    BY <1>2, Zenon DEF UserStep, UserEdit, UserDelete, UserMkdir, obsVars
  <2>2. PICK d, n, kind :
          /\ events' = Emitted(d, n, kind, "user") /\ kind # "self" /\ (n \in File => d = In[n])
    BY <1>2, DirAssumption, ZenonT(30) DEF UserStep, UserEdit, UserDelete, UserMkdir
  <2>3. CASE mask[d] # "default"
    BY <1>1, <2>1, <2>2, <2>3, Zenon DEF Emitted
  <2>4. CASE mask[d] = "default"
    <3> DEFINE x == [dir |-> d, tid |-> tgt[d], name |-> n, kind |-> kind, by |-> "user"]
    <3>1. events' = Append(events, x) /\ x.name = n /\ x.kind = kind
      BY <2>2, <2>4, Zenon DEF Emitted
    <3>2. Heard(x)
      BY <2>2, <2>4, Zenon DEF Heard
    <3> HIDE DEF x
    <3>3. \A i \in DOMAIN events' : (i \in DOMAIN events /\ events'[i] = events[i]) \/ events'[i] = x
      BY <1>a, <3>1, OneMore
    <3> QED
      BY <2>1, <3>2, <3>3, Zenon DEF Queued
  <2> QED
    BY <2>3, <2>4, Zenon
<1> QED
  BY <1>1, <1>2, BootSteps, Older, Zenon DEF sysVars, obsVars

\* A download that has not begun to fetch a file begins, or stays under way.
LEMMA NotBegun ==
  ASSUME Types, [Next]_vars, NEW k \in Task, NameOf(k) \in File, dpc[k] \notin Over \cup {"fetch"}
  PROVE  /\ dfe'[k] = dfe[k]
         /\ OpenFile(k) \/ dpc'[k] \notin Over \cup {"fetch"}
<1>1. dpc[k] # "idle" /\ dpc[k] \notin Over
  BY Zenon DEF Over
<1>2. dfe'[k] = dfe[k]
  BY <1>1, NamesKept, Zenon DEF KeepNames
<1>3. ~OpenDirectory(k)
  BY DirAssumption, Zenon DEF OpenDirectory
<1>4. ~FetchFile(k)
  BY Zenon DEF FetchFile, Step
<1>5. Block(k) => dpc'[k] = "open"
  BY Zenon DEF Block, Step, Types, DlOK
<1>6. "open" \notin Over \cup {"fetch"}
  BY Zenon DEF Over
<1> QED
  BY <1>1, <1>2, <1>3, <1>4, <1>5, <1>6, Moves, ZenonT(30) DEF Writing

\* A download starts with an entry of the table.
LEMMA Started ==
  ASSUME Types, [Next]_vars, NEW k \in Task, dpc[k] = "idle", dpc'[k] # "idle"
  PROVE  dpc'[k] = "name" /\ dfe'[k] \in live'
<1>a. dpc \in [Task -> Places] /\ DOMAIN dfe = Task
  BY Zenon DEF Types, DlOK
<1>1. dpc'[k] = "name"
  BY Moves, Zenon DEF OpenFile, OpenDirectory, FetchFile, Block, Step, Over
<1>2. ASSUME NEW i, Spawn(i), i \in live'
      PROVE  dfe'[k] \in live'
  <2>1. PICK j \in Task : dpc' = [dpc EXCEPT ![j] = "name"] /\ dfe' = [dfe EXCEPT ![j] = i]
    BY <1>2, Zenon DEF Spawn
  <2>2. j = k
    BY <1>a, <2>1, Zenon
  <2> QED
    BY <1>a, <1>2, <2>1, <2>2, Zenon
<1>3. ASSUME NEW j \in Task, DownloadStep(j)
      PROVE  FALSE
  <2>1. UNCHANGED dpc \/ \E from, to : from # "idle" /\ Step(j, from, to)
    BY <1>3, ZenonT(30) DEF DownloadStep, CutName, FindTarget, MakeDirectory, Block, OpenFile, OpenDirectory,
         FetchFile, StampFile, notify_tracker_add_me, Unblock, UseAfterFree, dlVars
  <2> QED
    BY <1>a, <2>1, Zenon DEF Step
<1>4. CASE ReceiverStep
  <2>1. CASE AddAndFetch
    <3>1. PICK i : AddEntry(Te, i) /\ Spawn(i)
      BY <2>1, Zenon DEF AddAndFetch
    <3>2. PICK found :
            Search(Te.name, found) /\ (live' = live \cup {i} \/ (found # 0 /\ i = found /\ live' = live))
      BY <3>1, Zenon DEF AddEntry
    <3>3. found # 0 => found \in live
      BY <3>2, Zenon DEF Search, Matches
    <3>4. i \in live'
      BY <3>2, <3>3, Zenon
    <3> QED
      BY <1>1, <1>2, <3>1, <3>4, Zenon
  <2>2. CASE RaiseAndFetch
    BY <1>1, <1>2, <2>2, Zenon DEF RaiseAndFetch
  <2>3. CASE UNCHANGED dpc
    BY <2>3, Zenon
  <2> QED
    BY <1>4, <2>1, <2>2, <2>3, ZenonT(30) DEF ReceiverStep, pthread_wait_init, pthread_wait_for, Woken, Scan,
         SendSync, RecvSync, Recv, Applied, Find, ReplaceOwners, CompareTimestamps,
         SkipNone, Delete, DeleteTarget, DeleteLock, RemoveFile, RemoveDirectory, DirTarget, Unwatch,
         DeleteUnblock, ReceiverUseAfterFree, dlVars
<1>5. CASE MonitorStep
  BY <1>5, Zenon DEF MonitorStep, WatchTargets, pthread_wait_notify, ReadEvents, LookAtEvent,
       handle_event, StatEvent, TableEvent, MonitorUseAfterFree, SendUpdate, dlVars
<1>6. CASE UserStep
  BY <1>6, Zenon DEF UserStep, UserEdit, UserDelete, UserMkdir, dlVars
<1>7. CASE UNCHANGED vars
  BY <1>7, Zenon DEF vars, dlVars
<1> QED
  BY <1>3, <1>4, <1>5, <1>6, <1>7, Zenon DEF Next

\* What the receiver has in hand stays, until it is done with it.
LEMMA InHand ==
  ASSUME [Next]_vars, pc' \in {"target", "lock", "remove"}
  PROVE  UNCHANGED todo /\ (Delete \/ pc \in {"target", "lock", "remove"})
<1>1. CASE ReceiverStep
  BY <1>1, ZenonT(30) DEF ReceiverStep, pthread_wait_init, pthread_wait_for, Woken, Scan, SendSync,
       RecvSync, Recv, Applied, Find, AddAndFetch, ReplaceOwners, CompareTimestamps, RaiseAndFetch,
       SkipNone, Delete, DeleteTarget, DeleteLock, RemoveFile, RemoveDirectory, DirTarget, Unwatch,
       DeleteUnblock, ReceiverUseAfterFree, Goto, rcvVars
<1>2. CASE MonitorStep
  BY <1>2, ZenonT(30) DEF MonitorStep, WatchTargets, pthread_wait_notify, ReadEvents, LookAtEvent,
         handle_event, StatEvent, TableEvent, MonitorUseAfterFree, SendUpdate, rcvVars
<1>3. CASE UserStep
  BY <1>3, Zenon DEF UserStep, UserEdit, UserDelete, UserMkdir, rcvVars
<1>4. ASSUME NEW k \in Task, DownloadStep(k)
      PROVE  UNCHANGED rcvVars
  BY <1>4, Zenon DEF DownloadStep, CutName, FindTarget, MakeDirectory, Block, OpenFile, OpenDirectory,
       FetchFile, StampFile, notify_tracker_add_me, Unblock, UseAfterFree
<1> QED
  BY <1>1, <1>2, <1>3, <1>4, Zenon DEF Next, vars, rcvVars

\* A download that starts is one of the file of its entry.
LEMMA SpawnFetched ==
  ASSUME Types, NEW i, Spawn(i)
  PROVE  \E k \in Task : dpc'[k] = "name" /\ dfe'[k] = i
<1>1. PICK k \in Task : dpc' = [dpc EXCEPT ![k] = "name"] /\ dfe' = [dfe EXCEPT ![k] = i]
  BY Zenon DEF Spawn
<1>2. k \in DOMAIN dpc /\ k \in DOMAIN dfe
  BY Zenon DEF Types, DlOK
<1> QED
  BY <1>1, <1>2, Zenon

=============================================================================
